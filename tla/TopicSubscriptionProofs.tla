---------------------- MODULE TopicSubscriptionProofs ----------------------
(***************************************************************************)
(* TLAPS proofs about TopicSubscription, for any channels, any subscriber  *)
(* configuration, any grace period and any number of announcements under   *)
(* way.                                                                    *)
(***************************************************************************)
EXTENDS TopicSubscription, SequenceTheorems, TLAPS

----------------------------------------------------------------------------
(* Queues of announcements.                                                *)

\* Handing the head of one queue to the end of the queue before it does not
\* change their concatenation (Receive).
LEMMA ShiftHead ==
  ASSUME NEW S, NEW s \in Seq(S), NEW t \in Seq(S), t # <<>>
  PROVE  Append(s, Head(t)) \o Tail(t) = s \o t
<1>1. /\ Head(t) \in S /\ Tail(t) \in Seq(S) /\ Len(Tail(t)) = Len(t) - 1
      /\ \A i \in 1..Len(Tail(t)) : Tail(t)[i] = t[i + 1]
  BY HeadTailProperties
<1>2. Append(s, Head(t)) \o Tail(t) \in Seq(S) /\ s \o t \in Seq(S)
  BY <1>1, ConcatProperties
<1>3. Len(Append(s, Head(t)) \o Tail(t)) = Len(s \o t)
  BY <1>1
<1>4. ASSUME NEW i \in 1..Len(s \o t)
      PROVE  (Append(s, Head(t)) \o Tail(t))[i] = (s \o t)[i]
  BY <1>1
<1> QED
  BY <1>2, <1>3, <1>4, SeqEqual

\* Appending to the last queue appends to the concatenation (a notification).
LEMMA AppendLast ==
  ASSUME NEW S, NEW s \in Seq(S), NEW t \in Seq(S), NEW x \in S
  PROVE  s \o Append(t, x) = Append(s \o t, x)
<1>1. s \o Append(t, x) \in Seq(S) /\ Append(s \o t, x) \in Seq(S)
  BY ConcatProperties
<1>2. Len(s \o Append(t, x)) = Len(Append(s \o t, x))
  OBVIOUS
<1>3. ASSUME NEW i \in 1..Len(s \o Append(t, x))
      PROVE  (s \o Append(t, x))[i] = Append(s \o t, x)[i]
  OBVIOUS
<1> QED
  BY <1>1, <1>2, <1>3, SeqEqual
\* What a queue of announcements holds.
LEMMA ValuesOf ==
  ASSUME NEW q \in Seq(Announcement)
  PROVE  \A i \in 1..Len(q) : q[i].value \in BOOLEAN
<1>1. \A m \in Announcement : m.value \in BOOLEAN
  BY DEF Announcement
<1>2. \A i \in 1..Len(q) : q[i] \in Announcement
  BY ElementOfSeq
<1> QED
  BY <1>1, <1>2

\* An announcement for another channel, sent or worked off, leaves c alone.
LEMMA LeadsOther ==
  ASSUME NEW q \in Seq(Announcement), NEW c \in Channels,
         NEW sub \in BOOLEAN, NEW has \in BOOLEAN, Leads(q, c, sub, has)
  PROVE  /\ \A m \in Announcement :
              m.channel # c => Leads(Append(q, m), c, sub, has)
         /\ q # <<>> /\ Head(q).channel # c => Leads(Tail(q), c, sub, has)
<1>1. ASSUME NEW m \in Announcement, m.channel # c
      PROVE  Leads(Append(q, m), c, sub, has)
  <2> DEFINE p == Append(q, m)
  <2>1. /\ Len(p) = Len(q) + 1 /\ p[Len(p)] = m
        /\ DOMAIN p = 1..(Len(q) + 1) /\ DOMAIN q = 1..Len(q) /\ Len(q) \in Nat
        /\ \A i \in 1..Len(q) : p[i] = q[i]
    OBVIOUS
  <2> HIDE DEF p
  <2>2. \A i \in DOMAIN p : p[i].channel = c => i \in DOMAIN q
    BY <1>1, <2>1
  <2>3. \A i \in DOMAIN q : FirstFor(p, c, i) => FirstFor(q, c, i)
    BY <2>1 DEF FirstFor
  <2>4. \A i \in DOMAIN q : LastFor(p, c, i) => LastFor(q, c, i)
    BY <2>1 DEF LastFor
  <2>5. \A i, j \in DOMAIN q : NextFor(p, c, i, j) => NextFor(q, c, i, j)
    BY <2>1 DEF NextFor
  <2>6. \A i \in DOMAIN p : FirstFor(p, c, i) => p[i].value # sub
    BY <2>1, <2>2, <2>3 DEF Leads, FirstFor
  <2>7. \A i, j \in DOMAIN p : NextFor(p, c, i, j) => p[i].value # p[j].value
    BY <2>1, <2>2, <2>5 DEF Leads, NextFor
  <2>8. \A i \in DOMAIN p : LastFor(p, c, i) => p[i].value = has
    BY <2>1, <2>2, <2>4 DEF Leads, LastFor
  <2>9. (\A i \in DOMAIN p : p[i].channel # c) => has = sub
    BY <2>1 DEF Leads
  <2>10. Leads(p, c, sub, has)
    BY <2>6, <2>7, <2>8, <2>9 DEF Leads
  <2> QED
    BY <2>10 DEF p
<1>2. ASSUME q # <<>>, Head(q).channel # c
      PROVE  Leads(Tail(q), c, sub, has)
  <2> DEFINE t == Tail(q)
  <2>1. /\ Len(t) = Len(q) - 1 /\ Len(q) \in Nat \ {0} /\ Head(q) = q[1]
        /\ DOMAIN t = 1..(Len(q) - 1) /\ DOMAIN q = 1..Len(q)
        /\ \A i \in 1..(Len(q) - 1) : t[i] = q[i + 1]
    BY <1>2
  <2> HIDE DEF t
  <2>2. \A i \in DOMAIN t : i + 1 \in DOMAIN q
    BY <2>1
  <2>3. \A k \in DOMAIN q : q[k].channel = c => k - 1 \in DOMAIN t
    BY <1>2, <2>1
  <2>4. \A i \in DOMAIN t : FirstFor(t, c, i) => FirstFor(q, c, i + 1)
    BY <2>1, <2>2, <2>3 DEF FirstFor
  <2>5. \A i \in DOMAIN t : LastFor(t, c, i) => LastFor(q, c, i + 1)
    BY <2>1, <2>2, <2>3 DEF LastFor
  <2>6. ASSUME NEW i \in DOMAIN t, NEW j \in DOMAIN t, NextFor(t, c, i, j)
        PROVE  NextFor(q, c, i + 1, j + 1)
    <3>1. \A k \in DOMAIN q : i + 1 < k /\ k < j + 1
              => k - 1 \in DOMAIN t /\ i < k - 1 /\ k - 1 < j /\ t[k - 1] = q[k]
      BY <2>1
    <3> QED
      BY <2>1, <2>6, <3>1 DEF NextFor
  <2>7. \A i \in DOMAIN t : FirstFor(t, c, i) => t[i].value # sub
    BY <2>1, <2>2, <2>4 DEF Leads
  <2>8. \A i, j \in DOMAIN t : NextFor(t, c, i, j) => t[i].value # t[j].value
    BY <2>1, <2>2, <2>6 DEF Leads
  <2>9. \A i \in DOMAIN t : LastFor(t, c, i) => t[i].value = has
    BY <2>1, <2>2, <2>5 DEF Leads
  <2>10. (\A i \in DOMAIN t : t[i].channel # c) => has = sub
    BY <2>1, <2>3 DEF Leads
  <2>11. Leads(t, c, sub, has)
    BY <2>7, <2>8, <2>9, <2>10 DEF Leads
  <2> QED
    BY <2>11 DEF t
<1> QED
  BY <1>1, <1>2

\* testForSubscriber announces the opposite of what it believed.
LEMMA LeadsAppend ==
  ASSUME NEW q \in Seq(Announcement), NEW c \in Channels,
         NEW sub \in BOOLEAN, NEW has \in BOOLEAN, Leads(q, c, sub, has),
         NEW m \in Announcement, m.channel = c, m.value = ~has
  PROVE  Leads(Append(q, m), c, sub, ~has)
<1> DEFINE p == Append(q, m)
<1>1. /\ Len(p) = Len(q) + 1 /\ p[Len(p)] = m /\ m.value \in BOOLEAN
      /\ DOMAIN p = 1..(Len(q) + 1) /\ DOMAIN q = 1..Len(q) /\ Len(q) \in Nat
      /\ \A i \in 1..Len(q) : p[i] = q[i]
  BY DEF Announcement
<1>2. \A i \in 1..Len(q) : q[i].value \in BOOLEAN
  BY ValuesOf
<1> HIDE DEF p
<1>3. ASSUME NEW i \in DOMAIN p, FirstFor(p, c, i)
      PROVE  p[i].value # sub
  <2>1. CASE i \in DOMAIN q
    <3>1. FirstFor(q, c, i)
      BY <1>1, <1>3, <2>1 DEF FirstFor
    <3> QED
      BY <1>1, <2>1, <3>1 DEF Leads
  <2>2. CASE i = Len(q) + 1
    <3>1. \A k \in DOMAIN q : q[k].channel # c
      BY <1>1, <1>3, <2>2 DEF FirstFor
    <3> QED
      BY <1>1, <2>2, <3>1 DEF Leads
  <2> QED
    BY <1>1, <2>1, <2>2
<1>4. ASSUME NEW i \in DOMAIN p, NEW j \in DOMAIN p, NextFor(p, c, i, j)
      PROVE  p[i].value # p[j].value
  <2>1. CASE j \in DOMAIN q
    <3>1. i \in DOMAIN q /\ NextFor(q, c, i, j)
      BY <1>1, <1>4, <2>1 DEF NextFor
    <3> QED
      BY <1>1, <2>1, <3>1 DEF Leads
  <2>2. CASE j = Len(q) + 1
    <3>1. i \in DOMAIN q /\ LastFor(q, c, i)
      BY <1>1, <1>4, <2>2 DEF NextFor, LastFor
    <3>2. q[i].value = has
      BY <3>1 DEF Leads
    <3> QED
      BY <1>1, <2>2, <3>1, <3>2
  <2> QED
    BY <1>1, <2>1, <2>2
<1>5. ASSUME NEW i \in DOMAIN p, LastFor(p, c, i)
      PROVE  p[i].value = ~has
  BY <1>1, <1>5 DEF LastFor
<1>6. ~ \A i \in DOMAIN p : p[i].channel # c
  BY <1>1
<1>7. Leads(p, c, sub, ~has)
  BY <1>3, <1>4, <1>5, <1>6 DEF Leads
<1> QED
  BY <1>7 DEF p

\* run() works the head of the queue off.
LEMMA LeadsTail ==
  ASSUME NEW q \in Seq(Announcement), NEW c \in Channels,
         NEW sub \in BOOLEAN, NEW has \in BOOLEAN, Leads(q, c, sub, has),
         q # <<>>, Head(q).channel = c
  PROVE  Head(q).value # sub /\ Leads(Tail(q), c, ~sub, has)
<1> DEFINE t == Tail(q)
<1>1. /\ Len(t) = Len(q) - 1 /\ Len(q) \in Nat \ {0} /\ Head(q) = q[1]
      /\ DOMAIN t = 1..(Len(q) - 1) /\ DOMAIN q = 1..Len(q)
      /\ \A i \in 1..(Len(q) - 1) : t[i] = q[i + 1]
  OBVIOUS
<1>2. \A i \in DOMAIN q : q[i].value \in BOOLEAN
  BY <1>1, ValuesOf
<1> HIDE DEF t
<1>3. \A i \in DOMAIN t : i + 1 \in DOMAIN q
  BY <1>1
<1>4. 1 \in DOMAIN q /\ FirstFor(q, c, 1)
  BY <1>1 DEF FirstFor
<1>5. q[1].value # sub
  BY <1>4 DEF Leads
<1>6. ASSUME NEW i \in DOMAIN t, FirstFor(t, c, i)
      PROVE  t[i].value # ~sub
  <2>1. q[i + 1].channel = c
    BY <1>1, <1>6 DEF FirstFor
  <2>2. \A k \in DOMAIN q : 1 < k /\ k < i + 1 => k - 1 \in DOMAIN t /\ k - 1 < i /\ t[k - 1] = q[k]
    BY <1>1
  <2>3. NextFor(q, c, 1, i + 1)
    BY <1>1, <1>4, <1>6, <2>1, <2>2 DEF NextFor, FirstFor
  <2>4. q[1].value # q[i + 1].value
    BY <1>3, <1>4, <2>3 DEF Leads
  <2> QED
    BY <1>1, <1>2, <1>3, <1>4, <1>5, <2>4
<1>7. ASSUME NEW i \in DOMAIN t, NEW j \in DOMAIN t, NextFor(t, c, i, j)
      PROVE  t[i].value # t[j].value
  <2>1. \A k \in DOMAIN q : i + 1 < k /\ k < j + 1
            => k - 1 \in DOMAIN t /\ i < k - 1 /\ k - 1 < j /\ t[k - 1] = q[k]
    BY <1>1
  <2>2. NextFor(q, c, i + 1, j + 1)
    BY <1>1, <1>7, <2>1 DEF NextFor
  <2> QED
    BY <1>1, <1>3, <2>2 DEF Leads
<1>8. ASSUME NEW i \in DOMAIN t, LastFor(t, c, i)
      PROVE  t[i].value = has
  <2>1. \A k \in DOMAIN q : i + 1 < k => k - 1 \in DOMAIN t /\ i < k - 1 /\ t[k - 1] = q[k]
    BY <1>1
  <2>2. LastFor(q, c, i + 1)
    BY <1>1, <1>8, <2>1 DEF LastFor
  <2> QED
    BY <1>1, <1>3, <2>2 DEF Leads
<1>9. ASSUME \A i \in DOMAIN t : t[i].channel # c
      PROVE  has = ~sub
  <2>1. \A k \in DOMAIN q : 1 < k => k - 1 \in DOMAIN t /\ t[k - 1] = q[k]
    BY <1>1
  <2>2. LastFor(q, c, 1)
    BY <1>1, <1>4, <1>9, <2>1 DEF LastFor
  <2>3. q[1].value = has
    BY <1>4, <2>2 DEF Leads
  <2> QED
    BY <1>2, <1>4, <1>5, <2>3
<1>10. Leads(t, c, ~sub, has)
  BY <1>6, <1>7, <1>8, <1>9 DEF Leads
<1> QED
  BY <1>1, <1>5, <1>10 DEF t

----------------------------------------------------------------------------
(* Type correctness.                                                       *)

\* The message the manager thread works on.
LEMMA MessageTyped ==
  ASSUME TypeOK, pc \in {"test", "act", "join"}
  PROVE  /\ message[1] \in Announcement
         /\ message[1].channel \in Channels /\ message[1].value \in BOOLEAN
<1>1. message \in Seq(Announcement) /\ Len(message) = 1
  BY DEF TypeOK
<1>2. message[1] \in Announcement
  BY <1>1, ElementOfSeq
<1> QED
  BY <1>2 DEF Announcement

\* Every step keeps the types.
LEMMA StepTyped ==
  ASSUME TypeOK, [Next]_vars
  PROVE  TypeOK'
<1>0. /\ Known \subseteq Channels
      /\ OwnThread \subseteq Known
      /\ Grace \in Nat \ {0}
  BY ConfigAssumption
<1> USE <1>0 DEF TypeOK
<1>1. ASSUME NEW c \in Channels, LocalChange(c) PROVE TypeOK'
  BY <1>1 DEF LocalChange, subVars, runVars, closeVars, workVars
<1>2. ASSUME NEW c \in Channels, testForSubscriber(c) PROVE TypeOK'
  <2>1. UNCHANGED <<count, permanent, toSubscribe, subscribers, pc, message, stopping,
                    closing, victim, worker, told, dangling>>
    BY <1>2 DEF testForSubscriber, subVars, runVars, closeVars, workVars
  <2>2. ASSUME NEW value \in BOOLEAN, notifyAboutSubscriber(c, value)
        PROVE  link' \in Seq(Announcement)
    BY <2>2 DEF notifyAboutSubscriber, Announcement
  <2>3. CASE NoticeGone(c)
    BY <2>1, <2>3 DEF NoticeGone, Unset
  <2>4. CASE AnnounceGone(c)
    BY <2>1, <2>2, <2>4 DEF AnnounceGone
  <2>5. CASE NoticeBack(c)
    BY <2>1, <2>5 DEF NoticeBack, Unset
  <2>6. CASE AnnounceNew(c)
    <3>1. link' \in Seq(Announcement)
      BY <2>2, <2>6 DEF AnnounceNew
    <3>2. Unset \in 0..Unset
      BY DEF Unset
    <3> QED
      BY <2>1, <2>6, <3>1, <3>2 DEF AnnounceNew
  <2> QED
    BY <1>2, <2>3, <2>4, <2>5, <2>6 DEF testForSubscriber
<1>3. CASE Tick
  <2>1. away' \in [Channels -> 0..Unset] /\ unseen' \in [Channels -> 0..Grace]
    BY <1>3 DEF Tick, Unset
  <2> QED
    BY <1>3, <2>1 DEF Tick, subVars, runVars, closeVars, workVars
<1>4. CASE Receive
  BY <1>4 DEF Receive, pubVars, subVars, runVars, closeVars, workVars
<1>5. CASE Start
  BY <1>5 DEF Start, InitManager, ResetStopping, StartThread, Aside, pubVars, runVars,
              closeVars, workVars
<1>6. CASE TakeMessage
  BY <1>6 DEF TakeMessage, pubVars, closeVars, workVars
<1>7. CASE LeaveLoop
  BY <1>7 DEF LeaveLoop, Aside, pubVars, closeVars, workVars
<1>8. CASE TestMessage
  <2>1. CASE Applies(message[1])
    BY <1>8, <2>1 DEF TestMessage, Aside, pubVars, closeVars, workVars
  <2>2. CASE ~Applies(message[1])
    BY <1>8, <2>2, EmptySeq DEF TestMessage, Aside, pubVars, closeVars, workVars
  <2> QED
    BY <2>1, <2>2
<1>9. CASE Subscribe
  <2>1. message[1].channel \in Channels
    BY <1>9, MessageTyped DEF Subscribe
  <2> QED
    BY <1>9, <2>1, EmptySeq DEF Subscribe, Aside, pubVars, closeVars
<1>10. CASE Unsubscribe
  BY <1>10, EmptySeq DEF Unsubscribe, Aside, pubVars, closeVars, workVars
<1>11. CASE StopOwnThread
  BY <1>11 DEF StopOwnThread, StopWorker, Aside, pubVars, closeVars
<1>12. CASE JoinOwnThread
  BY <1>12, EmptySeq DEF JoinOwnThread, NoThread, Aside, pubVars, closeVars
<1>13. ASSUME NEW c \in OwnThread, Loop(c) \/ MessageWakes(c) PROVE TypeOK'
  BY <1>13 DEF Loop, TestWait, Park, MessageWakes, Apart, Aside, pubVars, runVars, closeVars
<1>14. CASE Close
  <2>1. CASE StopThread \/ EraseSubscriber \/ EraseDone \/ JoinThread
    BY <2>1 DEF StopThread, EraseSubscriber, EraseDone, JoinThread, Aside, pubVars,
                runVars, closeVars, workVars
  <2>2. CASE StopSubscriber
    BY <2>2 DEF StopSubscriber, StopWorker, Aside, pubVars, runVars
  <2>3. CASE JoinSubscriber
    BY <2>3, EmptySeq DEF JoinSubscriber, NoThread, Aside, pubVars, runVars
  <2> QED
    BY <1>14, <2>1, <2>2, <2>3 DEF Close
<1>15. CASE UNCHANGED vars
  BY <1>15 DEF vars
<1> QED
  BY <1>1, <1>2, <1>3, <1>4, <1>5, <1>6, <1>7, <1>8, <1>9, <1>10, <1>11, <1>12, <1>13,
     <1>14, <1>15
  DEF Next, Work

\* The initial states have the types.
LEMMA InitTyped ==
  ASSUME Init
  PROVE  TypeOK
<1> USE ConfigAssumption
<1>1. Unset \in 0..Unset /\ Grace \in 0..Grace
  BY DEF Unset
<1>2. link \in Seq(Announcement) /\ toSubscribe \in Seq(Announcement)
      /\ message \in Seq(Announcement) /\ Len(message) = 0
      /\ victim \in Seq(OwnThread) /\ Len(victim) = 0
  BY EmptySeq DEF Init
<1>3. Len(message) = (IF pc \in {"test", "act", "join"} THEN 1 ELSE 0)
  BY <1>2 DEF Init
<1>4. permanent \subseteq Known
  BY DEF Init
<1> QED
  BY <1>1, <1>2, <1>3, <1>4 DEF Init, TypeOK

\* Every variable keeps its type in every behaviour.
THEOREM TypeCorrect == Spec => []TypeOK
<1>1. Init => TypeOK
  BY InitTyped
<1>2. TypeOK /\ [Next]_vars => TypeOK'
  BY StepTyped
<1> QED
  BY <1>1, <1>2, PTL DEF Spec

----------------------------------------------------------------------------
(* The two hosts agree.                                                    *)

\* What the manager thread's position says about the subscribers: only the
\* permanent ones are there before the thread starts, and a message that passed
\* the tests of run() still applies, unless the connection is closing.
Position ==
  /\ closing = "open" => ~stopping
  /\ pc = "new" => subscribers = {}
  /\ pc \in {"act", "join"} /\ closing = "open" => Applies(message[1])
  /\ pc = "join" => ~message[1].value
  /\ PermanentStays

IInv == TypeOK /\ Position /\ Mirrored

\* What a step does to the announcements under way.
LEMMA InFlightTyped ==
  ASSUME TypeOK
  PROVE  /\ inFlight \in Seq(Announcement)
         /\ pc \in {"test", "act", "join"} =>
              /\ inFlight # <<>> /\ Head(inFlight) = message[1]
              /\ Tail(inFlight) = toSubscribe \o link
         /\ pc \notin {"test", "act", "join"} => inFlight = toSubscribe \o link
<1>1. /\ message \in Seq(Announcement) /\ toSubscribe \in Seq(Announcement)
      /\ link \in Seq(Announcement) /\ toSubscribe \o link \in Seq(Announcement)
      /\ message \o toSubscribe \in Seq(Announcement)
  BY ConcatProperties DEF TypeOK
<1>2. inFlight = message \o (toSubscribe \o link) /\ inFlight \in Seq(Announcement)
  BY <1>1, ConcatAssociative, ConcatProperties DEF inFlight
<1> DEFINE r == toSubscribe \o link
<1>3. ASSUME pc \in {"test", "act", "join"}
      PROVE  inFlight # <<>> /\ Head(inFlight) = message[1] /\ Tail(inFlight) = r
  <2>1. Len(message) = 1
    BY <1>3 DEF TypeOK
  <2> HIDE DEF r
  <2>2. r \in Seq(Announcement) /\ inFlight = message \o r
    BY <1>1, <1>2 DEF r
  <2>3. /\ Len(inFlight) = 1 + Len(r)
        /\ \A k \in 1..Len(inFlight) :
             inFlight[k] = IF k <= 1 THEN message[k] ELSE r[k - 1]
    <3>1. Len(message \o r) = Len(message) + Len(r)
      BY <1>1, <2>2, ConcatProperties
    <3>2. \A k \in 1..(Len(message) + Len(r)) :
            (message \o r)[k] = IF k <= Len(message) THEN message[k] ELSE r[k - Len(message)]
      BY <1>1, <2>2, ConcatProperties
    <3> QED
      BY <2>1, <2>2, <3>1, <3>2
  <2>4. inFlight # <<>> /\ Head(inFlight) = message[1]
    <3>1. Len(r) \in Nat
      BY <2>2, LenProperties
    <3>2. Len(inFlight) >= 1 /\ inFlight[1] = message[1]
      BY <2>3, <3>1
    <3>3. inFlight # <<>>
      BY <3>2, EmptySeq
    <3> QED
      BY <1>2, <3>2, <3>3
  <2>5. /\ Tail(inFlight) \in Seq(Announcement) /\ Len(Tail(inFlight)) = Len(r)
        /\ \A k \in 1..Len(Tail(inFlight)) : Tail(inFlight)[k] = inFlight[k + 1]
    BY <1>2, <2>2, <2>3, <2>4, HeadTailProperties
  <2>6. \A k \in 1..Len(r) : Tail(inFlight)[k] = r[k]
    BY <2>2, <2>3, <2>5
  <2>7. Tail(inFlight) = r
    BY <2>2, <2>5, <2>6, SeqEqual
  <2> QED
    BY <2>4, <2>7
<1>4. ASSUME pc \notin {"test", "act", "join"}
      PROVE  inFlight = r
  <2>1. message = <<>>
    BY <1>1, <1>4, EmptySeq DEF TypeOK
  <2> QED
    BY <1>1, <1>2, <2>1, ConcatEmptySeq
<1> QED
  BY <1>2, <1>3, <1>4

\* The manager thread disposes of message[1], having (not) acted upon it.
LEMMA WorkedOff ==
  ASSUME TypeOK, TypeOK', pc \in {"test", "act", "join"}, pc' = "wait",
         UNCHANGED <<toSubscribe, link>>
  PROVE  /\ inFlight # <<>> /\ Head(inFlight) = message[1]
         /\ inFlight' = Tail(inFlight)
<1>1. (pc \notin {"test", "act", "join"} => inFlight = toSubscribe \o link)'
  BY InFlightTyped, PTL
<1>2. inFlight' = toSubscribe \o link
  BY <1>1
<1> QED
  BY <1>2, InFlightTyped

\* Announcing a change of the local subscriptions of c.
LEMMA Announced ==
  ASSUME TypeOK, NEW c \in Channels, NEW value \in BOOLEAN,
         notifyAboutSubscriber(c, value), UNCHANGED <<message, toSubscribe>>
  PROVE  /\ [channel |-> c, value |-> value] \in Announcement
         /\ inFlight' = Append(inFlight, [channel |-> c, value |-> value])
<1> DEFINE m == [channel |-> c, value |-> value]
<1>1. m \in Announcement
  BY DEF Announcement
<1> HIDE DEF m
<1>2. /\ message \in Seq(Announcement) /\ toSubscribe \in Seq(Announcement)
      /\ link \in Seq(Announcement) /\ message \o toSubscribe \in Seq(Announcement)
  BY ConcatProperties DEF TypeOK
<1>3. link' = Append(link, m)
  BY DEF notifyAboutSubscriber, m
<1>4. inFlight' = (message \o toSubscribe) \o Append(link, m)
  BY <1>3 DEF inFlight
<1>5. inFlight' = Append(inFlight, m)
  BY <1>1, <1>2, <1>4, AppendLast DEF inFlight
<1> QED
  BY <1>1, <1>5 DEF m

\* Handing a message on, to toSubscribe or to the manager thread.
LEMMA HandedOn ==
  ASSUME TypeOK, Receive \/ TakeMessage
  PROVE  inFlight' = inFlight
<1>1. /\ message \in Seq(Announcement) /\ toSubscribe \in Seq(Announcement)
      /\ link \in Seq(Announcement) /\ message \o toSubscribe \in Seq(Announcement)
  BY ConcatProperties DEF TypeOK
<1>2. CASE Receive
  <2>1. /\ link # <<>> /\ message' = message /\ link' = Tail(link)
        /\ toSubscribe' = Append(toSubscribe, Head(link))
    BY <1>2 DEF Receive, subVars, runVars
  <2>2. Head(link) \in Announcement
    BY <1>1, <2>1, HeadTailProperties
  <2>3. message \o Append(toSubscribe, Head(link))
          = Append(message \o toSubscribe, Head(link))
    BY <1>1, <2>2, AppendLast
  <2>4. Append(message \o toSubscribe, Head(link)) \o Tail(link)
          = (message \o toSubscribe) \o link
    BY <1>1, <2>1, ShiftHead
  <2> QED
    BY <2>1, <2>3, <2>4 DEF inFlight
<1>3. CASE TakeMessage
  <2>1. /\ toSubscribe # <<>> /\ message' = <<Head(toSubscribe)>> /\ link' = link
        /\ toSubscribe' = Tail(toSubscribe) /\ pc = "wait"
    BY <1>3 DEF TakeMessage
  <2>2. message = <<>>
    BY <1>1, <2>1, EmptySeq DEF TypeOK
  <2>3. message' = Append(message, Head(toSubscribe))
    BY <2>1, <2>2
  <2>4. Append(message, Head(toSubscribe)) \o Tail(toSubscribe) = message \o toSubscribe
    BY <1>1, <2>1, ShiftHead
  <2> QED
    BY <2>1, <2>3, <2>4 DEF inFlight
<1> QED
  BY <1>2, <1>3

\* No step changes what the definitions say of a channel.
LEMMA ConfigurationFixed ==
  ASSUME Next
  PROVE  permanent' = permanent
  BY DEF Next, LocalChange, testForSubscriber, Tick, Receive, Start, InitManager,
         ResetStopping, StartThread, Work, TakeMessage, LeaveLoop, TestMessage, Subscribe,
         Unsubscribe, StopOwnThread, JoinOwnThread, Loop, TestWait, Park, MessageWakes,
         Apart, Close, StopThread, EraseSubscriber, StopSubscriber, JoinSubscriber,
         EraseDone, JoinThread, Aside, subVars

\* Every step keeps the two hosts in agreement.
LEMMA StepMirrored ==
  ASSUME IInv, TypeOK', Next
  PROVE  Mirrored'
<1> SUFFICES ASSUME closing' = "open", NEW c \in Dynamic
             PROVE  Leads(inFlight, c, c \in subscribers, hasSubscriber[c])'
  BY ConfigurationFixed DEF Mirrored, Dynamic
<1> DEFINE Lc == Leads(inFlight, c, c \in subscribers, hasSubscriber[c])
<1>1. /\ c \in Channels /\ c \in Known /\ c \notin permanent
      /\ hasSubscriber[c] \in BOOLEAN /\ (c \in subscribers) \in BOOLEAN
      /\ inFlight \in Seq(Announcement)
  BY ConfigAssumption, InFlightTyped DEF Dynamic, IInv, TypeOK
<1>2. closing = "open" /\ ~stopping
  <2>1. CASE UNCHANGED closing
    BY <2>1 DEF IInv, Position
  <2>2. CASE Close
    BY <2>2 DEF Close, StopThread, EraseSubscriber, StopSubscriber, JoinSubscriber,
                EraseDone, JoinThread, closeVars, IInv, Position
  <2>3. UNCHANGED closing \/ Close
    BY DEF Next, LocalChange, testForSubscriber, Tick, Receive, Start, InitManager,
           ResetStopping, StartThread, Work, TakeMessage, LeaveLoop, TestMessage, Subscribe,
           Unsubscribe, StopOwnThread, JoinOwnThread, Loop, TestWait, Park, MessageWakes,
           Apart, subVars, closeVars
  <2> QED
    BY <2>1, <2>2, <2>3
<1>3. Leads(inFlight, c, c \in subscribers, hasSubscriber[c])
  BY <1>2 DEF IInv, Mirrored
<1>4. ASSUME inFlight' = inFlight, (c \in subscribers') = (c \in subscribers),
             hasSubscriber'[c] = hasSubscriber[c]
      PROVE  Lc'
  BY <1>3, <1>4
<1>5. ASSUME message' = message, toSubscribe' = toSubscribe, link' = link
      PROVE  inFlight' = inFlight
  BY <1>5 DEF inFlight
<1>6. ASSUME inFlight # <<>>, inFlight' = Tail(inFlight), Head(inFlight).channel # c,
             (c \in subscribers') = (c \in subscribers),
             hasSubscriber'[c] = hasSubscriber[c]
      PROVE  Lc'
  <2>1. Leads(Tail(inFlight), c, c \in subscribers, hasSubscriber[c])
    BY <1>1, <1>3, <1>6, LeadsOther
  <2> QED
    BY <1>6, <2>1
<1>7. ASSUME inFlight # <<>>, inFlight' = Tail(inFlight), Head(inFlight).channel = c,
             (c \in subscribers') = Head(inFlight).value,
             Head(inFlight).value \in BOOLEAN,
             hasSubscriber'[c] = hasSubscriber[c]
      PROVE  Lc'
  <2>1. /\ Head(inFlight).value # (c \in subscribers)
        /\ Leads(Tail(inFlight), c, ~(c \in subscribers), hasSubscriber[c])
    <3>1. \A sub \in BOOLEAN :
            Leads(inFlight, c, sub, hasSubscriber[c])
              => /\ Head(inFlight).value # sub
                 /\ Leads(Tail(inFlight), c, ~sub, hasSubscriber[c])
      BY <1>1, <1>7, LeadsTail
    <3> QED
      BY <1>1, <1>3, <3>1
  <2>2. (c \in subscribers') = ~(c \in subscribers)
    BY <1>7, <2>1
  <2> QED
    BY <1>7, <2>1, <2>2
<1>8. ASSUME NEW d \in Channels, LocalChange(d) PROVE Lc'
  BY <1>4, <1>5, <1>8 DEF LocalChange, subVars, runVars
<1>9. ASSUME NEW d \in Channels, testForSubscriber(d) PROVE Lc'
  <2>1. UNCHANGED <<toSubscribe, message, subscribers>>
    BY <1>9 DEF testForSubscriber, subVars, runVars
  <2>2. ASSUME NEW value \in BOOLEAN, notifyAboutSubscriber(d, value),
               hasSubscriber[d] = ~value,
               hasSubscriber' = [hasSubscriber EXCEPT ![d] = value]
        PROVE  Lc'
    <3> DEFINE m == [channel |-> d, value |-> value]
    <3>1. m \in Announcement /\ inFlight' = Append(inFlight, m)
      BY <2>1, <2>2, Announced DEF IInv
    <3>2. m.channel = d /\ m.value = value
      OBVIOUS
    <3> HIDE DEF m
    <3>3. CASE d = c
      <4>1. m.value = ~hasSubscriber[c] /\ hasSubscriber'[c] = ~hasSubscriber[c]
        BY <1>1, <2>2, <3>2, <3>3 DEF IInv, TypeOK
      <4>2. Leads(Append(inFlight, m), c, c \in subscribers, ~hasSubscriber[c])
        BY <1>1, <1>3, <3>1, <3>2, <3>3, <4>1, LeadsAppend
      <4> QED
        BY <2>1, <3>1, <4>1, <4>2
    <3>4. CASE d # c
      <4>1. Leads(Append(inFlight, m), c, c \in subscribers, hasSubscriber[c])
        BY <1>1, <1>3, <3>1, <3>2, <3>4, LeadsOther
      <4>2. hasSubscriber'[c] = hasSubscriber[c]
        BY <1>1, <2>2, <3>4 DEF IInv, TypeOK
      <4> QED
        BY <2>1, <3>1, <4>1, <4>2
    <3> QED
      BY <3>3, <3>4
  <2>3. CASE NoticeGone(d) \/ NoticeBack(d)
    BY <1>4, <1>5, <2>1, <2>3 DEF NoticeGone, NoticeBack
  <2>4. CASE AnnounceGone(d)
    BY <2>2, <2>4 DEF AnnounceGone, IInv, TypeOK
  <2>5. CASE AnnounceNew(d)
    BY <2>2, <2>5 DEF AnnounceNew, IInv, TypeOK
  <2> QED
    BY <1>9, <2>3, <2>4, <2>5 DEF testForSubscriber
<1>10. CASE Tick
  BY <1>4, <1>5, <1>10 DEF Tick, subVars, runVars
<1>11. CASE Receive
  BY <1>4, <1>11, HandedOn DEF Receive, pubVars, subVars, IInv
<1>12. CASE Start
  BY <1>1, <1>4, <1>5, <1>12 DEF Start, InitManager, ResetStopping, StartThread, Aside, pubVars
<1>13. CASE TakeMessage
  BY <1>4, <1>13, HandedOn DEF TakeMessage, pubVars, IInv
<1>14. CASE TestMessage
  <2>1. CASE Applies(message[1])
    BY <1>4, <1>5, <1>14, <2>1 DEF TestMessage, Aside, pubVars
  <2>2. CASE ~Applies(message[1])
    <3>1. /\ inFlight # <<>> /\ inFlight' = Tail(inFlight) /\ Head(inFlight) = message[1]
          /\ UNCHANGED <<subscribers, hasSubscriber>> /\ message[1].value \in BOOLEAN
      BY <1>14, <2>2, WorkedOff, MessageTyped DEF TestMessage, Aside, pubVars, IInv
    <3>2. message[1].channel # c
      <4> SUFFICES ASSUME message[1].channel = c PROVE FALSE
        OBVIOUS
      <4>1. Head(inFlight).value # (c \in subscribers)
        BY <1>1, <1>3, <3>1, LeadsTail
      <4> QED
        BY <1>1, <1>2, <2>2, <3>1, <4>1 DEF Applies
    <3> QED
      BY <1>6, <3>1, <3>2
  <2> QED
    BY <2>1, <2>2
<1>15. CASE Subscribe \/ Unsubscribe \/ JoinOwnThread
  <2>1. /\ inFlight # <<>> /\ inFlight' = Tail(inFlight) /\ Head(inFlight) = message[1]
        /\ UNCHANGED hasSubscriber /\ message[1].value \in BOOLEAN
    BY <1>15, WorkedOff, MessageTyped
    DEF Subscribe, Unsubscribe, JoinOwnThread, Aside, pubVars, IInv
  <2>2. CASE message[1].channel = c
    <3>1. (c \in subscribers') = message[1].value
      BY <1>15, <2>1, <2>2 DEF Subscribe, Unsubscribe, JoinOwnThread, IInv, Position
    <3> QED
      BY <1>7, <2>1, <2>2, <3>1
  <2>3. CASE message[1].channel # c
    <3>1. (c \in subscribers') = (c \in subscribers)
      BY <1>15, <2>3 DEF Subscribe, Unsubscribe, JoinOwnThread
    <3> QED
      BY <1>6, <2>1, <2>3, <3>1
  <2> QED
    BY <2>2, <2>3
<1>16. CASE LeaveLoop
  BY <1>2, <1>16 DEF LeaveLoop
<1>17. CASE StopOwnThread
  BY <1>4, <1>5, <1>17 DEF StopOwnThread, Aside, pubVars
<1>18. ASSUME NEW d \in OwnThread, Loop(d) \/ MessageWakes(d) PROVE Lc'
  BY <1>4, <1>5, <1>18 DEF Loop, TestWait, Park, MessageWakes, Apart, Aside, pubVars, runVars
<1>19. CASE Close
  BY <1>2, <1>19 DEF Close, StopThread, EraseSubscriber, StopSubscriber, JoinSubscriber,
                     EraseDone, JoinThread
<1> QED
  BY <1>8, <1>9, <1>10, <1>11, <1>12, <1>13, <1>14, <1>15, <1>16, <1>17, <1>18, <1>19
  DEF Next, Work

\* Every step keeps the manager thread's position consistent.
LEMMA StepPosition ==
  ASSUME IInv, Next
  PROVE  Position'
<1> USE DEF IInv, Position, PermanentStays, TypeOK
<1>0. permanent' = permanent
  BY ConfigurationFixed
<1>1. ASSUME NEW c \in Channels, LocalChange(c) \/ testForSubscriber(c) PROVE Position'
  BY <1>0, <1>1 DEF LocalChange, testForSubscriber, subVars, runVars, closeVars, Applies
<1>2. CASE Tick \/ Receive
  BY <1>0, <1>2 DEF Tick, Receive, subVars, runVars, closeVars, Applies
<1>3. CASE Start
  BY <1>0, <1>3 DEF Start, InitManager, ResetStopping, StartThread, closeVars
<1>4. CASE TakeMessage \/ LeaveLoop
  BY <1>0, <1>4 DEF TakeMessage, LeaveLoop, closeVars
<1>5. CASE TestMessage
  BY <1>0, <1>5 DEF TestMessage, Applies, closeVars
<1>6. CASE Subscribe
  BY <1>0, <1>6 DEF Subscribe, closeVars
<1>7. CASE Unsubscribe \/ JoinOwnThread
  BY <1>0, <1>7 DEF Unsubscribe, JoinOwnThread, Applies, closeVars
<1>8. CASE StopOwnThread
  BY <1>0, <1>8 DEF StopOwnThread, Applies, closeVars
<1>9. ASSUME NEW c \in OwnThread, Loop(c) \/ MessageWakes(c) PROVE Position'
  BY <1>0, <1>9 DEF Loop, TestWait, Park, MessageWakes, Apart, runVars, closeVars, Applies
<1>10. CASE Close
  BY <1>0, <1>10 DEF Close, StopThread, EraseSubscriber, StopSubscriber, JoinSubscriber,
               EraseDone, JoinThread, runVars, closeVars
<1> QED
  BY <1>1, <1>2, <1>3, <1>4, <1>5, <1>6, <1>7, <1>8, <1>9, <1>10 DEF Next, Work

\* The inductive invariant: the agreement needs to know that a message in hand
\* still applies and that nothing is subscribed before the thread starts.
LEMMA Inductive == Spec => []IInv
<1>1. Init => IInv
  <2> SUFFICES ASSUME Init PROVE IInv
    OBVIOUS
  <2>1. TypeOK
    BY InitTyped
  <2>2. Position
    BY DEF Init, Position, PermanentStays
  <2>3. inFlight = <<>>
    <3>1. inFlight = (<<>> \o <<>>) \o <<>> /\ <<>> \in Seq(Announcement)
      BY EmptySeq DEF Init, inFlight
    <3> QED
      BY <3>1, ConcatEmptySeq
  <2>4. Len(inFlight) = 0 /\ DOMAIN inFlight = {}
    BY <2>3
  <2>5. ASSUME NEW c \in Dynamic
        PROVE  Leads(inFlight, c, c \in subscribers, hasSubscriber[c])
    <3>1. hasSubscriber[c] = FALSE /\ (c \in subscribers) = FALSE
      BY ConfigAssumption DEF Init, Dynamic
    <3> QED
      BY <2>4, <3>1 DEF Leads
  <2> QED
    BY <2>1, <2>2, <2>5 DEF IInv, Mirrored
<1>2. IInv /\ [Next]_vars => IInv'
  <2> SUFFICES ASSUME IInv, [Next]_vars PROVE IInv'
    OBVIOUS
  <2>1. TypeOK'
    BY StepTyped DEF IInv
  <2>2. CASE Next
    BY <2>1, <2>2, StepPosition, StepMirrored DEF IInv
  <2>3. CASE UNCHANGED vars
    <3>1. Position'
      BY <2>3 DEF vars, IInv, Position, PermanentStays, Applies
    <3>2. inFlight' = inFlight /\ UNCHANGED <<closing, permanent, subscribers, hasSubscriber>>
      BY <2>3 DEF vars, inFlight
    <3>3. Mirrored'
      BY <3>2 DEF IInv, Mirrored, Dynamic
    <3> QED
      BY <2>1, <3>1, <3>3 DEF IInv
  <2> QED
    BY <2>2, <2>3
<1> QED
  BY <1>1, <1>2, PTL DEF Spec

\* testForSubscriber and SubscriberManager::run keep the two hosts in agreement,
\* up to the announcements under way, for as long as the connection is open.
THEOREM HostsAgree == Spec => []Mirrored
<1>1. IInv => Mirrored
  BY DEF IInv
<1> QED
  BY <1>1, Inductive, PTL

\* SubscriberManager::run never unsubscribes a permanent subscriber.
THEOREM PermanentKept == Spec => []PermanentStays
<1>1. IInv => PermanentStays
  BY DEF IInv, Position
<1> QED
  BY <1>1, Inductive, PTL

----------------------------------------------------------------------------
(* The grace period.                                                       *)

\* The stored time point is never older than the last sight of a subscription.
AwayYounger ==
  \A c \in Channels : hasSubscriber[c] /\ away[c] # Unset => away[c] <= unseen[c]

\* The other host does nothing to the publishing host.
LEMMA ElsewhereUnchanged ==
  ASSUME Next
  PROVE  \/ \E c \in Channels : LocalChange(c) \/ testForSubscriber(c)
         \/ Tick
         \/ UNCHANGED pubVars
  BY DEF Next, Receive, Start, InitManager, ResetStopping, StartThread, Work, TakeMessage,
         LeaveLoop, TestMessage, Subscribe, Unsubscribe, StopOwnThread, JoinOwnThread, Loop,
         TestWait, Park, MessageWakes, Apart, Close, StopThread, EraseSubscriber,
         StopSubscriber, JoinSubscriber, EraseDone, JoinThread, Aside

\* testForSubscriber announces FALSE only after a whole grace period without a
\* poll that saw a subscription.
THEOREM GraceKept == Spec => GraceRespected
<1> USE ConfigAssumption
<1>1. Init => AwayYounger
  BY DEF Init, AwayYounger
<1>2. TypeOK /\ TypeOK' /\ AwayYounger /\ [Next]_vars => AwayYounger'
  <2> SUFFICES ASSUME TypeOK, TypeOK', AwayYounger, [Next]_vars, NEW c \in Channels,
                      hasSubscriber'[c], away'[c] # Unset
               PROVE  away'[c] <= unseen'[c]
    BY DEF AwayYounger
  <2> USE DEF AwayYounger
  <2>0. /\ Unset = Grace + 1 /\ Grace \in Nat
        /\ away[c] \in 0..Unset /\ unseen[c] \in 0..Grace
        /\ away'[c] \in 0..Unset /\ unseen'[c] \in 0..Grace
        /\ DOMAIN away = Channels /\ DOMAIN unseen = Channels
        /\ DOMAIN hasSubscriber = Channels
    BY DEF TypeOK, Unset
  <2>1. ASSUME NEW d \in Channels, testForSubscriber(d) PROVE away'[c] <= unseen'[c]
    <3>1. CASE NoticeGone(d)
      <4>1. CASE d = c
        BY <2>0, <3>1, <4>1 DEF NoticeGone
      <4>2. CASE d # c
        BY <2>0, <3>1, <4>2 DEF NoticeGone
      <4> QED
        BY <4>1, <4>2
    <3>2. CASE AnnounceGone(d)
      BY <2>0, <3>2 DEF AnnounceGone
    <3>3. CASE NoticeBack(d)
      BY <2>0, <3>3 DEF NoticeBack
    <3>4. CASE AnnounceNew(d)
      BY <2>0, <3>4 DEF AnnounceNew
    <3> QED
      BY <2>1, <3>1, <3>2, <3>3, <3>4 DEF testForSubscriber
  <2>2. CASE Tick
    <3>1. /\ hasSubscriber[c]
          /\ away'[c] = IF away[c] < Grace THEN away[c] + 1 ELSE away[c]
          /\ unseen'[c] = IF unseen[c] < Grace THEN unseen[c] + 1 ELSE Grace
      BY <2>2 DEF Tick, subVars
    <3> QED
      BY <2>0, <3>1
  <2>3. CASE UNCHANGED pubVars
    BY <2>3 DEF pubVars
  <2>4. ASSUME NEW d \in Channels, LocalChange(d) PROVE away'[c] <= unseen'[c]
    BY <2>4 DEF LocalChange
  <2>5. UNCHANGED vars => UNCHANGED pubVars
    BY DEF vars, pubVars
  <2> QED
    BY <2>1, <2>2, <2>3, <2>4, <2>5, ElsewhereUnchanged
<1>3. TypeOK /\ AwayYounger /\ [Next]_vars
        => [\A c \in Channels :
              hasSubscriber[c] /\ ~hasSubscriber'[c] => unseen[c] = Grace]_vars
  <2> SUFFICES ASSUME TypeOK, AwayYounger, Next, NEW c \in Channels,
                      hasSubscriber[c], ~hasSubscriber'[c]
               PROVE  unseen[c] = Grace
    BY DEF vars
  <2>1. UNCHANGED hasSubscriber \/ \E d \in Channels : AnnounceGone(d) \/ AnnounceNew(d)
    BY ElsewhereUnchanged
    DEF LocalChange, testForSubscriber, NoticeGone, NoticeBack, Tick, pubVars
  <2>2. AnnounceGone(c)
    <3>1. hasSubscriber \in [Channels -> BOOLEAN]
      BY DEF TypeOK
    <3> QED
      BY <2>1, <3>1 DEF AnnounceGone, AnnounceNew
  <2>3. /\ Unset = Grace + 1 /\ Grace \in Nat /\ unseen[c] \in 0..Grace
        /\ away[c] = Grace
    BY <2>2 DEF AnnounceGone, TypeOK, Unset
  <2>4. away[c] <= unseen[c]
    BY <2>3 DEF AwayYounger
  <2> QED
    BY <2>3, <2>4
<1> QED
  BY <1>1, <1>2, <1>3, TypeCorrect, PTL DEF Spec, GraceRespected

=============================================================================
