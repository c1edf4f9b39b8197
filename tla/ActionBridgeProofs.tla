------------------------- MODULE ActionBridgeProofs -------------------------
(***************************************************************************)
(* TLAPS proofs about ActionBridge, for any goals, either kind of callback *)
(* group and whichever plugin is stopped: that the types are kept, that    *)
(* what the local client is told of its goal is true of the real one, and, *)
(* with one callback at a time, that an executing goal is served.          *)
(***************************************************************************)
EXTENDS ActionBridge, SequenceTheorems, TLAPS

USE DEF goalVars, cancelVars, workVars, removeVars, serverVars, threadVars, clientVars, remoteVars,
        ServerUnchanged

----------------------------------------------------------------------------
(* The inductive invariant.                                                *)

Mail(op, g) == [op |-> op, goal |-> g]

In(m, s) == \E i \in DOMAIN s : s[i] = m

\* A goal is on its way to the ActionClient once...
Once == \A i, j \in DOMAIN toClient :
  toClient[i].op = "GOAL" /\ toClient[i] = toClient[j] => i = j

\* ...and in the queue of its thread it comes first.
GoalFirst(q) == \A i \in DOMAIN q : q[i] = "GOAL" => i = 1

\* The stages of a goal: not sent, under way, its thread's, the real action's.
Staged(g) ==
  /\ goalCall[g] \in {"idle", "checked"} => ~In(Mail("GOAL", g), toClient) /\ thread[g] = "none"
  /\ In(Mail("GOAL", g), toClient) => thread[g] = "none"
  /\ thread[g] = "none" => clientQueue[g] = <<>> /\ remote[g] = "idle" /\ g \notin clientHandles
  /\ In("GOAL", clientQueue[g]) => remote[g] = "idle" /\ thread[g] # "goal"
  /\ thread[g] = "goal" => remote[g] = "idle"
  /\ GoalFirst(clientQueue[g])

Stages == Once /\ \A g \in Goals : Staged(g)

\* What has been sent of the outcome is what became of the real goal.
Told(g) ==
  /\ \A o \in Outcomes : In(Mail(o, g), toServer) \/ In(o, waitQueue[g]) => remote[g] = o
  /\ local[g] \in {"SUCCEEDED", "CANCELED"} => remote[g] = local[g]

Results == \A g \in Goals : Told(g)

\* An accepted cancellation is the real action's.
Granted(g) ==
  \/ In(Mail("CANCEL_ACCEPT", g), toServer)
  \/ cancelResponse[g] # None /\ cancelResponse[g] = "CANCEL_ACCEPT"
  \/ cancelResult[g] = "accept"

Grants == \A g \in Goals : Granted(g) => g \in canceling

\* The ActionServer has given up the goal and will not execute it.
GivenUp(g) == goalCall[g] = "returned" /\ worker[g] = "none"

\* Whatever is left of a cancellation has a reason.
Cancelling(g) ==
  \/ In(Mail("CANCEL", g), toClient) \/ In("CANCEL", clientQueue[g])
  \/ g \in cancelAsked \/ g \in canceling \/ remote[g] = "CANCELED"
  \/ cancelCall[g] = "found"

Reason(g) == cancels[g] > 0 \/ clientStopping \/ GivenUp(g)

Reasons == \A g \in Goals : Cancelling(g) => Reason(g)

\* A goal has a thread, and an outcome, after its callbacks have returned.
Workers == \A g \in Goals :
  /\ worker[g] = "none" => local[g] \in {"open", "dropped"}
  /\ goalCall[g] # "returned" => worker[g] = "none"

IInv == TypeOK /\ Stages /\ Results /\ Grants /\ Workers /\ Reasons

----------------------------------------------------------------------------
(* Types, one group of variables after the other.                          *)

Post == {"GOAL_ACCEPT", "GOAL_REJECT", "CANCEL_ACCEPT", "CANCEL_REJECT", "FEEDBACK"} \cup Outcomes
Feed == Outcomes \cup {"FEEDBACK"}
Queued == {"GOAL", "CANCEL"}

MailTypes == toClient \in Seq(ToClient) /\ toServer \in Seq(ToServer)

GoalTypes ==
  /\ goalCall \in [Goals -> {"idle", "checked", "sent", "waiting", "accepted", "returned"}]
  /\ goalResult \in [Goals -> {"open", "accept", "reject", "timeout"}]
  /\ handlingGoal \subseteq Goals
  /\ goalResponse \in [Goals -> {"GOAL_ACCEPT", "GOAL_REJECT", None}]

CancelTypes ==
  /\ cancelCall \in [Goals -> {"idle", "found", "sent", "waiting", "returned"}]
  /\ cancelResult \in [Goals -> {"open", "accept", "reject"}]
  /\ cancels \in [Goals -> 0..MaxCancels]
  /\ handlingCancel \subseteq Goals
  /\ cancelResponse \in [Goals -> {"CANCEL_ACCEPT", "CANCEL_REJECT", None}]
  /\ dangling \subseteq Goals

WorkTypes ==
  /\ worker \in [Goals -> {"none", "looping", "waiting", "left", "exited"}]
  /\ waitQueue \in [Goals -> Seq(Feed)]
  /\ local \in [Goals -> Outcomes \cup {"open", "dropped"}]

RemoveTypes ==
  /\ serverHandles \subseteq Goals /\ serverRemove \in Seq(Goals)
  /\ removing \in Goals \cup {None}
  /\ serverStop \in {"running", "stopping", "stopped"}

ClientTypes ==
  /\ clientHandles \subseteq Goals /\ clientRemove \in Seq(Goals)
  /\ clientStop \in {"running", "stopping", "stopped"}
  /\ thread \in [Goals -> {"none", "looping", "waiting", "goal", "exited"}]
  /\ clientQueue \in [Goals -> Seq(Queued)]
  /\ clientGoal \subseteq Goals /\ clientCancel \subseteq Goals /\ done \subseteq Goals

RemoteTypes ==
  /\ remote \in [Goals -> Outcomes \cup {"idle", "requested", "active", "rejected"}]
  /\ fed \subseteq Goals /\ cancelAsked \subseteq Goals /\ canceling \subseteq Goals

\* Together they are the type invariant.
LEMMA TypeGroups ==
  TypeOK <=> MailTypes /\ GoalTypes /\ CancelTypes /\ WorkTypes /\ RemoveTypes /\ ClientTypes
             /\ RemoteTypes
BY Zenon DEF TypeOK, MailTypes, GoalTypes, CancelTypes, WorkTypes, RemoveTypes, ClientTypes,
             RemoteTypes, Feed, Queued

\* At first every queue is empty.
LEMMA InitTyped == Init => TypeOK
BY BridgeAssumption DEF Init, TypeOK

\* What Append, Head and Tail do.
LEMMA Ends ==
  ASSUME NEW S, NEW q \in Seq(S)
  PROVE  /\ \A x \in S : Append(q, x) \in Seq(S)
         /\ q # <<>> => Tail(q) \in Seq(S) /\ Head(q) \in S
BY AppendProperties, HeadTailProperties

\* A step adds one message to a queue, takes one from it, or leaves it alone.
Adds(q, q2, op, g) == q2 = q \/ q2 = Append(q, [op |-> op, goal |-> g])
Drops(q, q2) == q # <<>> /\ q2 = Tail(q)

\* The messages between the hosts...
LEMMA MailTyped == MailTypes /\ [Next]_vars => MailTypes'
<1> SUFFICES ASSUME MailTypes, [Next]_vars PROVE MailTypes'
  OBVIOUS
<1> USE DEF MailTypes
<1>1. toClient' \in Seq(ToClient)
  <2>1. \A op \in {"GOAL", "CANCEL"}, g \in Goals :
          Append(toClient, [op |-> op, goal |-> g]) \in Seq(ToClient)
    BY Ends DEF ToClient
  <2>2. \/ UNCHANGED toClient \/ Drops(toClient, toClient')
        \/ \E op \in {"GOAL", "CANCEL"}, g \in Goals : Adds(toClient, toClient', op, g)
    <3> USE DEF Adds, Drops, SendToClient
    <3>1. ASSUME NEW g \in Goals, BeginGoal(g) \/ GoalStep(g) \/ BeginCancel(g) \/ CancelStep(g)
          PROVE  UNCHANGED toClient \/ \E op \in {"GOAL", "CANCEL"} : Adds(toClient, toClient', op, g)
      BY <3>1 DEF BeginGoal, GoalStep, SendGoal, WaitGoal, GoalTimeout, GoalStopped, GoalAnswered,
                  HandleAccepted, BeginCancel, CancelStep, SendCancel, WaitCancel,
                  CancelTimeout, CancelStopped, CancelAnswered
    <3>2. ASSUME NEW g \in Goals, WorkerStep(g) \/ ThreadStep(g) \/ ThreadDone(g) \/ RemoteStep(g)
          PROVE  UNCHANGED toClient
      BY <3>2 DEF WorkerStep, WorkerLoops, TakeFeedback, TakeResult, WorkerStops, ThreadStep,
                  ThreadLoops, ThreadStops, ThreadDone, TakeGoal, RejectGoal, StopGoal, GiveUpGoal,
                  CallAction, TakeCancel, RemoteStep, goalAccepted, goalRejected, feedback,
                  sendResult, cancelAccepted, cancelRejected, Callback
    <3>3. ASSUME HandleAtClient PROVE Drops(toClient, toClient')
      BY <3>3 DEF HandleAtClient, HandleGoal, HandleCancel
    <3>4. ASSUME \/ HandleAtServer \/ ServerJoins \/ ServerErases \/ ServerFlags \/ ServerStops
                 \/ ClientRemoves \/ ClientFlags \/ ClientStops \/ UNCHANGED vars
          PROVE  UNCHANGED toClient
      BY <3>4 DEF HandleAtServer, ServerJoins, ServerErases, ServerFlags, ServerStops, ClientRemoves,
                  ClientFlags, ClientStops, vars
    <3> HIDE DEF Adds, Drops
    <3> QED
      BY <3>1, <3>2, <3>3, <3>4 DEF Next
  <2> QED
    BY <2>1, <2>2, Ends DEF Adds, Drops
<1>2. toServer' \in Seq(ToServer)
  <2>1. \A op \in Post, g \in Goals : Append(toServer, [op |-> op, goal |-> g]) \in Seq(ToServer)
    BY Ends DEF ToServer, Post
  <2>2. \/ UNCHANGED toServer \/ Drops(toServer, toServer')
        \/ \E op \in Post, g \in Goals : Adds(toServer, toServer', op, g)
    <3> USE DEF Adds, Drops, SendToServer, Post
    <3>1. ASSUME NEW g \in Goals,
                 \/ BeginGoal(g) \/ GoalStep(g) \/ BeginCancel(g) \/ CancelStep(g) \/ WorkerStep(g)
                 \/ HandleGoal(g)
          PROVE  UNCHANGED toServer
      BY <3>1 DEF BeginGoal, GoalStep, SendGoal, WaitGoal, GoalTimeout, GoalStopped, GoalAnswered,
                  HandleAccepted, BeginCancel, CancelStep, SendCancel, WaitCancel,
                  CancelTimeout, CancelStopped, CancelAnswered, WorkerStep, WorkerLoops,
                  TakeFeedback, TakeResult, WorkerStops, HandleGoal
    <3>2. ASSUME NEW g \in Goals, HandleCancel(g) \/ ThreadStep(g) \/ ThreadDone(g)
          PROVE  \E op \in Post : Adds(toServer, toServer', op, g)
      BY <3>2 DEF HandleCancel, ThreadStep, ThreadLoops, ThreadStops, ThreadDone, TakeGoal,
                  RejectGoal, StopGoal, GiveUpGoal, CallAction, TakeCancel
    <3>3. ASSUME NEW g \in Goals, RemoteStep(g)
          PROVE  \E op \in Post : Adds(toServer, toServer', op, g)
      BY <3>3 DEF RemoteStep, goalAccepted, goalRejected, feedback, sendResult, cancelAccepted,
                  cancelRejected
    <3>4. ASSUME HandleAtServer PROVE Drops(toServer, toServer')
      BY <3>4 DEF HandleAtServer
    <3>5. ASSUME \/ ServerJoins \/ ServerErases \/ ServerFlags \/ ServerStops
                 \/ ClientRemoves \/ ClientFlags \/ ClientStops \/ UNCHANGED vars
          PROVE  UNCHANGED toServer
      BY <3>5 DEF ServerJoins, ServerErases, ServerFlags, ServerStops, ClientRemoves, ClientFlags,
                  ClientStops, vars
    <3> HIDE DEF Adds, Drops, Post
    <3> QED
      BY <3>1, <3>2, <3>3, <3>4, <3>5 DEF Next, HandleAtClient
  <2> QED
    BY <2>1, <2>2, Ends DEF Adds, Drops
<1> QED
  BY <1>1, <1>2

\* A message that is handled was sent.
LEMMA Delivered ==
  ASSUME MailTypes, HandleAtServer
  PROVE  Head(toServer).goal \in Goals /\ Head(toServer).op \in Post
<1>1. Head(toServer) \in ToServer
  BY Ends DEF MailTypes, HandleAtServer
<1> QED
  BY <1>1 DEF ToServer, Post

\* The ActionClient and the real action leave the variables of the ActionServer alone.
LEMMA ClientAlone ==
  ASSUME NEW g \in Goals,
         ThreadStep(g) \/ ThreadDone(g) \/ RemoteStep(g) \/ HandleGoal(g) \/ HandleCancel(g)
  PROVE  UNCHANGED serverVars
BY DEF ThreadStep, ThreadLoops, ThreadStops, ThreadDone, TakeGoal, RejectGoal, StopGoal, GiveUpGoal,
       CallAction, TakeCancel, RemoteStep, goalAccepted, goalRejected, feedback, sendResult,
       cancelAccepted, cancelRejected, HandleGoal, HandleCancel

\* ...the goal callbacks...
LEMMA GoalTyped == MailTypes /\ GoalTypes /\ [Next]_vars => GoalTypes'
<1> SUFFICES ASSUME MailTypes, GoalTypes, [Next]_vars PROVE GoalTypes'
  OBVIOUS
<1>1. CASE UNCHANGED goalVars
  BY <1>1 DEF GoalTypes
<1>2. ASSUME NEW g \in Goals, GoalStep(g) \/ BeginGoal(g) PROVE GoalTypes'
  <2> DEFINE Calls == {"idle", "checked", "sent", "waiting", "accepted", "returned"}
  <2>1. \E x \in Calls : goalCall' = [goalCall EXCEPT ![g] = x]
    BY <1>2 DEF GoalStep, BeginGoal, SendGoal, WaitGoal, GoalTimeout, GoalStopped, GoalAnswered,
                HandleAccepted, ReturnGoal
  <2>2. UNCHANGED goalResult
        \/ \E x \in {"accept", "reject", "timeout"} : goalResult' = [goalResult EXCEPT ![g] = x]
    BY <1>2 DEF GoalStep, BeginGoal, SendGoal, WaitGoal, GoalTimeout, GoalStopped, GoalAnswered,
                HandleAccepted, ReturnGoal
  <2>3. /\ handlingGoal' \in {handlingGoal, handlingGoal \cup {g}, handlingGoal \ {g}}
        /\ UNCHANGED goalResponse
    BY <1>2 DEF GoalStep, BeginGoal, SendGoal, WaitGoal, GoalTimeout, GoalStopped, GoalAnswered,
                HandleAccepted, ReturnGoal
  <2> QED
    BY <2>1, <2>2, <2>3 DEF GoalTypes
<1>3. CASE HandleAtServer
  <2>1. UNCHANGED <<goalCall, goalResult, handlingGoal>>
    BY <1>3 DEF HandleAtServer
  <2>2. goalResponse' \in [Goals -> {"GOAL_ACCEPT", "GOAL_REJECT", None}]
    BY <1>3, Delivered DEF HandleAtServer, Deliver, GoalTypes
  <2> QED
    BY <2>1, <2>2 DEF GoalTypes
<1>4. ASSUME NEW g \in Goals, BeginCancel(g) \/ CancelStep(g) \/ WorkerStep(g) PROVE UNCHANGED goalVars
  BY <1>4 DEF BeginCancel, CancelStep, SendCancel, WaitCancel, CancelTimeout, CancelStopped,
              CancelAnswered, WorkerStep, WorkerLoops, TakeFeedback, TakeResult, WorkerStops
<1>5. ASSUME NEW g \in Goals,
             ThreadStep(g) \/ ThreadDone(g) \/ RemoteStep(g) \/ HandleGoal(g) \/ HandleCancel(g)
      PROVE  UNCHANGED serverVars
  BY <1>5, ClientAlone
<1>6. ASSUME \/ ServerJoins \/ ServerErases \/ ServerFlags \/ ServerStops \/ ClientRemoves
             \/ ClientFlags \/ ClientStops \/ UNCHANGED vars
      PROVE  UNCHANGED goalVars
  BY <1>6 DEF ServerJoins, ServerErases, ServerFlags, ServerStops, ClientRemoves, ClientFlags,
              ClientStops, vars
<1> QED
  BY <1>1, <1>2, <1>3, <1>4, <1>5, <1>6 DEF Next, HandleAtClient

\* ...the cancel callback...
LEMMA CancelTyped == MailTypes /\ CancelTypes /\ [Next]_vars => CancelTypes'
<1> SUFFICES ASSUME MailTypes, CancelTypes, [Next]_vars PROVE CancelTypes'
  OBVIOUS
<1>1. CASE UNCHANGED cancelVars
  BY <1>1 DEF CancelTypes
<1>2. ASSUME NEW g \in Goals, BeginCancel(g) \/ CancelStep(g) PROVE CancelTypes'
  <2>1. \E x \in {"idle", "found", "sent", "waiting", "returned"} :
          cancelCall' = [cancelCall EXCEPT ![g] = x]
    BY <1>2 DEF BeginCancel, CancelStep, SendCancel, WaitCancel, CancelTimeout, CancelStopped,
                CancelAnswered, ReturnCancel
  <2>2. UNCHANGED cancelResult
        \/ \E x \in {"accept", "reject"} : cancelResult' = [cancelResult EXCEPT ![g] = x]
    BY <1>2 DEF BeginCancel, CancelStep, SendCancel, WaitCancel, CancelTimeout, CancelStopped,
                CancelAnswered, ReturnCancel
  <2>3. cancels' \in [Goals -> 0..MaxCancels]
    <3>1. UNCHANGED cancels \/ (cancels[g] < MaxCancels /\ cancels' = [cancels EXCEPT ![g] = @ + 1])
      BY <1>2 DEF BeginCancel, CancelStep, SendCancel, WaitCancel, CancelTimeout, CancelStopped,
                  CancelAnswered
    <3> QED
      BY <3>1, BridgeAssumption DEF CancelTypes
  <2>4. /\ handlingCancel' \in {handlingCancel, handlingCancel \cup {g}, handlingCancel \ {g}}
        /\ dangling' \in {dangling, dangling \cup {g}}
    BY <1>2 DEF BeginCancel, CancelStep, SendCancel, WaitCancel, CancelTimeout, CancelStopped,
                CancelAnswered, ReturnCancel, UsesHandle
  <2>5. UNCHANGED cancelResponse \/ cancelResponse' = [cancelResponse EXCEPT ![g] = None]
    BY <1>2 DEF BeginCancel, CancelStep, SendCancel, WaitCancel, CancelTimeout, CancelStopped,
                CancelAnswered
  <2> QED
    BY <2>1, <2>2, <2>3, <2>4, <2>5 DEF CancelTypes
<1>3. CASE HandleAtServer
  <2>1. UNCHANGED <<cancelCall, cancelResult, cancels, handlingCancel, dangling>>
    BY <1>3 DEF HandleAtServer
  <2>2. cancelResponse' \in [Goals -> {"CANCEL_ACCEPT", "CANCEL_REJECT", None}]
    BY <1>3, Delivered DEF HandleAtServer, Deliver, CancelTypes
  <2> QED
    BY <2>1, <2>2 DEF CancelTypes
<1>4. ASSUME NEW g \in Goals, BeginGoal(g) \/ GoalStep(g) \/ WorkerStep(g) PROVE UNCHANGED cancelVars
  BY <1>4 DEF BeginGoal, GoalStep, SendGoal, WaitGoal, GoalTimeout, GoalStopped, GoalAnswered,
              HandleAccepted, WorkerStep, WorkerLoops, TakeFeedback, TakeResult, WorkerStops
<1>5. ASSUME NEW g \in Goals,
             ThreadStep(g) \/ ThreadDone(g) \/ RemoteStep(g) \/ HandleGoal(g) \/ HandleCancel(g)
      PROVE  UNCHANGED serverVars
  BY <1>5, ClientAlone
<1>6. ASSUME \/ ServerJoins \/ ServerErases \/ ServerFlags \/ ServerStops \/ ClientRemoves
             \/ ClientFlags \/ ClientStops \/ UNCHANGED vars
      PROVE  UNCHANGED cancelVars
  BY <1>6 DEF ServerJoins, ServerErases, ServerFlags, ServerStops, ClientRemoves, ClientFlags,
              ClientStops, vars
<1> QED
  BY <1>1, <1>2, <1>3, <1>4, <1>5, <1>6 DEF Next, HandleAtClient

\* ...the threads of the goals...
LEMMA WorkTyped == MailTypes /\ WorkTypes /\ [Next]_vars => WorkTypes'
<1> SUFFICES ASSUME MailTypes, WorkTypes, [Next]_vars PROVE WorkTypes'
  OBVIOUS
<1>1. CASE UNCHANGED workVars
  BY <1>1 DEF WorkTypes
<1>2. ASSUME NEW g \in Goals, HandleAccepted(g) \/ WorkerStep(g) PROVE WorkTypes'
  <2>1. UNCHANGED worker
        \/ \E x \in {"looping", "waiting", "left", "exited"} : worker' = [worker EXCEPT ![g] = x]
    BY <1>2 DEF HandleAccepted, WorkerStep, WorkerLoops, TakeFeedback, TakeResult, WorkerStops,
                WorkerEnds
  <2>2. UNCHANGED local
        \/ \E x \in Outcomes \cup {"dropped"} : local' = [local EXCEPT ![g] = x]
    BY <1>2 DEF HandleAccepted, WorkerStep, WorkerLoops, TakeFeedback, TakeResult, WorkerStops,
                WorkerEnds, Outcomes
  <2>3. waitQueue' \in [Goals -> Seq(Feed)]
    <3>1. \/ UNCHANGED waitQueue
          \/ waitQueue[g] # <<>> /\ waitQueue' = [waitQueue EXCEPT ![g] = Tail(@)]
      BY <1>2 DEF HandleAccepted, WorkerStep, WorkerLoops, TakeFeedback, TakeResult, WorkerStops
    <3>2. waitQueue[g] # <<>> => Tail(waitQueue[g]) \in Seq(Feed)
      BY Ends DEF WorkTypes
    <3> QED
      BY <3>1, <3>2 DEF WorkTypes
  <2> QED
    BY <2>1, <2>2, <2>3 DEF WorkTypes
<1>3. CASE HandleAtServer
  <2> DEFINE m == Head(toServer)
  <2>1. UNCHANGED <<worker, local>>
    BY <1>3 DEF HandleAtServer
  <2>2. UNCHANGED waitQueue
        \/ /\ waitQueue' = [waitQueue EXCEPT ![m.goal] = Append(@, m.op)]
           /\ m.op \notin {"GOAL_ACCEPT", "GOAL_REJECT", "CANCEL_ACCEPT", "CANCEL_REJECT"}
    BY <1>3 DEF HandleAtServer, Deliver
  <2>3. m.goal \in Goals /\ m.op \in Post
    BY <1>3, Delivered
  <2> HIDE DEF m
  <2>4. waitQueue' \in [Goals -> Seq(Feed)]
    <3>1. CASE UNCHANGED waitQueue
      BY <3>1 DEF WorkTypes
    <3>2. CASE ~UNCHANGED waitQueue
      <4>1. m.op \in Feed
        BY <2>2, <2>3, <3>2 DEF Post, Feed
      <4>2. Append(waitQueue[m.goal], m.op) \in Seq(Feed)
        BY <2>3, <4>1, Ends DEF WorkTypes
      <4> QED
        BY <2>2, <2>3, <3>2, <4>2 DEF WorkTypes
    <3> QED
      BY <3>1, <3>2
  <2> QED
    BY <2>1, <2>4 DEF WorkTypes
<1>4. ASSUME NEW g \in Goals, BeginGoal(g) \/ GoalStep(g) \/ BeginCancel(g) \/ CancelStep(g),
             ~HandleAccepted(g)
      PROVE  UNCHANGED workVars
  BY <1>4 DEF BeginGoal, GoalStep, SendGoal, WaitGoal, GoalTimeout, GoalStopped, GoalAnswered,
              BeginCancel, CancelStep, SendCancel, WaitCancel, CancelTimeout, CancelStopped,
              CancelAnswered
<1>5. ASSUME NEW g \in Goals,
             ThreadStep(g) \/ ThreadDone(g) \/ RemoteStep(g) \/ HandleGoal(g) \/ HandleCancel(g)
      PROVE  UNCHANGED serverVars
  BY <1>5, ClientAlone
<1>6. ASSUME \/ ServerJoins \/ ServerErases \/ ServerFlags \/ ServerStops \/ ClientRemoves
             \/ ClientFlags \/ ClientStops \/ UNCHANGED vars
      PROVE  UNCHANGED workVars
  BY <1>6 DEF ServerJoins, ServerErases, ServerFlags, ServerStops, ClientRemoves, ClientFlags,
              ClientStops, vars
<1> QED
  BY <1>1, <1>2, <1>3, <1>4, <1>5, <1>6 DEF Next, HandleAtClient

\* ...the handles of the ActionServer and its stop...
LEMMA RemoveTyped == RemoveTypes /\ [Next]_vars => RemoveTypes'
<1> SUFFICES ASSUME RemoveTypes, [Next]_vars PROVE RemoveTypes'
  OBVIOUS
<1>1. CASE UNCHANGED <<removeVars, serverStop>>
  BY <1>1 DEF RemoveTypes
<1>2. ASSUME NEW g \in Goals,
             BeginGoal(g) \/ GoalStep(g) \/ BeginCancel(g) \/ CancelStep(g) \/ WorkerStep(g)
      PROVE  RemoveTypes'
  <2>1. /\ UNCHANGED <<removing, serverStop>>
        /\ serverHandles' \in {serverHandles, serverHandles \cup {g}}
    BY <1>2 DEF BeginGoal, GoalStep, SendGoal, WaitGoal, GoalTimeout, GoalStopped, GoalAnswered,
                HandleAccepted, BeginCancel, CancelStep, SendCancel, WaitCancel,
                CancelTimeout, CancelStopped, CancelAnswered, WorkerStep, WorkerLoops,
                TakeFeedback, TakeResult, WorkerStops
  <2>2. UNCHANGED serverRemove \/ serverRemove' = Append(serverRemove, g)
    <3>1. CASE BeginGoal(g) \/ GoalStep(g)
      BY <3>1 DEF BeginGoal, GoalStep, SendGoal, WaitGoal, GoalTimeout, GoalStopped, GoalAnswered,
                  HandleAccepted, removeHandle
    <3>2. CASE BeginCancel(g) \/ CancelStep(g)
      BY <3>2 DEF BeginCancel, CancelStep, SendCancel, WaitCancel, CancelTimeout, CancelStopped,
                  CancelAnswered, RemoveUnlessWaiting, removeHandle
    <3>3. CASE WorkerStep(g)
      BY <3>3 DEF WorkerStep, WorkerLoops, TakeFeedback, TakeResult, WorkerStops, WorkerEnds,
                  removeHandle
    <3> QED
      BY <1>2, <3>1, <3>2, <3>3
  <2>3. serverRemove' \in Seq(Goals)
    BY <2>2, Ends DEF RemoveTypes
  <2> QED
    BY <2>1, <2>3 DEF RemoveTypes
<1>3. CASE ServerJoins \/ ServerErases \/ ServerFlags \/ ServerStops
  <2>1. serverRemove = <<>> \/ (Tail(serverRemove) \in Seq(Goals) /\ Head(serverRemove) \in Goals)
    BY Ends DEF RemoveTypes
  <2>2. CASE ServerJoins
    BY <2>1, <2>2 DEF RemoveTypes, ServerJoins
  <2>3. CASE ServerErases \/ ServerFlags
    BY <2>3 DEF RemoveTypes, ServerErases, ServerFlags
  <2>4. CASE ServerStops
    <3>1. /\ UNCHANGED removing /\ serverHandles' \subseteq serverHandles
          /\ serverStop' \in {serverStop, "stopped"}
          /\ UNCHANGED serverRemove \/ serverRemove' = <<>>
      BY <2>4 DEF ServerStops
    <3>2. serverRemove' \in Seq(Goals)
      BY <3>1, EmptySeq DEF RemoveTypes
    <3> QED
      BY <3>1, <3>2 DEF RemoveTypes
  <2> QED
    BY <1>3, <2>2, <2>3, <2>4
<1>4. ASSUME NEW g \in Goals,
             ThreadStep(g) \/ ThreadDone(g) \/ RemoteStep(g) \/ HandleGoal(g) \/ HandleCancel(g)
      PROVE  UNCHANGED serverVars
  BY <1>4, ClientAlone
<1>5. ASSUME HandleAtServer \/ ClientRemoves \/ ClientFlags \/ ClientStops \/ UNCHANGED vars
      PROVE  UNCHANGED <<removeVars, serverStop>>
  BY <1>5 DEF HandleAtServer, ClientRemoves, ClientFlags, ClientStops, vars
<1> QED
  BY <1>1, <1>2, <1>3, <1>4, <1>5 DEF Next, HandleAtClient

\* ...the ActionClient...
LEMMA ClientTyped == ClientTypes /\ [Next]_vars => ClientTypes'
<1> SUFFICES ASSUME ClientTypes, [Next]_vars PROVE ClientTypes'
  OBVIOUS
<1>1. CASE UNCHANGED clientVars
  BY <1>1 DEF ClientTypes
<1>2. ASSUME NEW g \in Goals, HandleGoal(g) \/ HandleCancel(g) PROVE ClientTypes'
  <2>1. /\ UNCHANGED <<clientRemove, clientStop, clientGoal, clientCancel, done>>
        /\ clientHandles' \in {clientHandles, clientHandles \cup {g}}
        /\ UNCHANGED thread \/ thread' = [thread EXCEPT ![g] = "looping"]
    BY <1>2 DEF HandleGoal, HandleCancel
  <2>2. \/ UNCHANGED clientQueue \/ clientQueue' = [clientQueue EXCEPT ![g] = <<"GOAL">>]
        \/ clientQueue' = [clientQueue EXCEPT ![g] = Append(@, "CANCEL")]
    BY <1>2 DEF HandleGoal, HandleCancel
  <2>3. <<"GOAL">> \in Seq(Queued) /\ Append(clientQueue[g], "CANCEL") \in Seq(Queued)
    BY Ends DEF ClientTypes, Queued
  <2>4. clientQueue' \in [Goals -> Seq(Queued)]
    BY <2>2, <2>3 DEF ClientTypes
  <2> QED
    BY <2>1, <2>4 DEF ClientTypes
<1>3. ASSUME NEW g \in Goals, ThreadStep(g) \/ ThreadDone(g) PROVE ClientTypes'
  <2>1. /\ UNCHANGED <<clientHandles, clientStop>>
        /\ clientGoal' \in {clientGoal, clientGoal \cup {g}, clientGoal \ {g}}
        /\ clientCancel' \in {clientCancel, clientCancel \cup {g}}
        /\ done' \in {done, done \cup {g}}
    BY <1>3 DEF ThreadStep, ThreadLoops, ThreadStops, ThreadDone, executeCancel, TakeGoal,
                RejectGoal, StopGoal, GiveUpGoal, CallAction, TakeCancel
  <2>2. \E x \in {"looping", "waiting", "goal", "exited"} : thread' = [thread EXCEPT ![g] = x]
    BY <1>3 DEF ThreadStep, ThreadLoops, ThreadStops, ThreadDone, ThreadExits, TakeGoal, RejectGoal,
                StopGoal, GiveUpGoal, CallAction, TakeCancel
  <2>3. UNCHANGED clientRemove \/ clientRemove' = Append(clientRemove, g)
    BY <1>3 DEF ThreadStep, ThreadLoops, ThreadStops, ThreadDone, ThreadExits, TakeGoal, RejectGoal,
                StopGoal, GiveUpGoal, CallAction, TakeCancel
  <2>4. \/ UNCHANGED clientQueue
        \/ clientQueue[g] # <<>> /\ clientQueue' = [clientQueue EXCEPT ![g] = Tail(@)]
    <3>1. CASE TakeGoal(g) \/ TakeCancel(g)
      BY <3>1 DEF TakeGoal, TakeCancel, Takes
    <3>2. ASSUME ThreadLoops(g) \/ ThreadStops(g) \/ ThreadDone(g) PROVE UNCHANGED clientQueue
      BY <3>2 DEF ThreadLoops, ThreadStops, ThreadDone
    <3>3. ASSUME RejectGoal(g) \/ StopGoal(g) \/ CallAction(g) PROVE UNCHANGED clientQueue
      BY <3>3 DEF RejectGoal, StopGoal, GiveUpGoal, CallAction
    <3> QED
      BY <1>3, <3>1, <3>2, <3>3, Zenon DEF ThreadStep
  <2>5. Append(clientRemove, g) \in Seq(Goals)
    BY Ends DEF ClientTypes
  <2>6. clientQueue[g] # <<>> => Tail(clientQueue[g]) \in Seq(Queued)
    BY Ends DEF ClientTypes
  <2>7. clientRemove' \in Seq(Goals)
    BY <2>3, <2>5 DEF ClientTypes
  <2>8. clientQueue' \in [Goals -> Seq(Queued)]
    BY <2>4, <2>6 DEF ClientTypes
  <2> QED
    BY <2>1, <2>2, <2>7, <2>8 DEF ClientTypes
<1>4. ASSUME NEW g \in Goals, RemoteStep(g) PROVE ClientTypes'
  <2>1. /\ UNCHANGED <<clientHandles, clientRemove, clientStop, thread, clientQueue>>
        /\ clientGoal' \in {clientGoal, clientGoal \ {g}}
        /\ clientCancel' \in {clientCancel, clientCancel \ {g}}
        /\ done' \in {done, done \cup {g}}
    BY <1>4 DEF RemoteStep, goalAccepted, goalRejected, feedback, sendResult, cancelAccepted,
                cancelRejected, Callback
  <2> QED
    BY <2>1 DEF ClientTypes
<1>5. CASE ClientRemoves \/ ClientFlags \/ ClientStops
  <2>1. clientRemove # <<>> => Tail(clientRemove) \in Seq(Goals)
    BY Ends DEF ClientTypes
  <2>2. /\ UNCHANGED threadVars /\ clientHandles' \subseteq clientHandles
        /\ clientStop' \in {clientStop, "stopping", "stopped"}
    BY <1>5 DEF ClientRemoves, ClientFlags, ClientStops
  <2>3. clientRemove' \in Seq(Goals)
    <3>1. \/ UNCHANGED clientRemove \/ clientRemove' = <<>>
          \/ clientRemove # <<>> /\ clientRemove' = Tail(clientRemove)
      BY <1>5 DEF ClientRemoves, ClientFlags, ClientStops
    <3> QED
      BY <2>1, <3>1, EmptySeq DEF ClientTypes
  <2> QED
    BY <2>2, <2>3 DEF ClientTypes
<1>6. ASSUME NEW g \in Goals,
             BeginGoal(g) \/ GoalStep(g) \/ BeginCancel(g) \/ CancelStep(g) \/ WorkerStep(g)
      PROVE  UNCHANGED clientVars
  BY <1>6 DEF BeginGoal, GoalStep, SendGoal, WaitGoal, GoalTimeout, GoalStopped, GoalAnswered,
              HandleAccepted, BeginCancel, CancelStep, SendCancel, WaitCancel,
              CancelTimeout, CancelStopped, CancelAnswered, WorkerStep, WorkerLoops,
              TakeFeedback, TakeResult, WorkerStops
<1>7. ASSUME HandleAtServer \/ ServerJoins \/ ServerErases \/ ServerFlags \/ ServerStops \/ UNCHANGED vars
      PROVE  UNCHANGED clientVars
  BY <1>7 DEF HandleAtServer, ServerJoins, ServerErases, ServerFlags, ServerStops, vars
<1> QED
  BY <1>1, <1>2, <1>3, <1>4, <1>5, <1>6, <1>7 DEF Next, HandleAtClient

\* ...and the real action.
LEMMA RemoteTyped == RemoteTypes /\ [Next]_vars => RemoteTypes'
<1> SUFFICES ASSUME RemoteTypes, [Next]_vars PROVE RemoteTypes'
  OBVIOUS
<1>1. CASE UNCHANGED remoteVars
  BY <1>1 DEF RemoteTypes
<1>2. ASSUME NEW g \in Goals, ThreadStep(g) \/ ThreadDone(g) \/ RemoteStep(g) PROVE RemoteTypes'
  <2>1. /\ fed' \in {fed, fed \cup {g}}
        /\ cancelAsked' \in {cancelAsked, cancelAsked \cup {g}, cancelAsked \ {g}}
        /\ canceling' \in {canceling, canceling \cup {g}}
    BY <1>2 DEF ThreadStep, ThreadLoops, ThreadStops, ThreadDone, executeCancel, TakeGoal,
                RejectGoal, StopGoal, GiveUpGoal, CallAction, TakeCancel, RemoteStep,
                goalAccepted, goalRejected, feedback, sendResult, cancelAccepted, cancelRejected
  <2>2. UNCHANGED remote
        \/ \E x \in Outcomes \cup {"requested", "active", "rejected"} :
             remote' = [remote EXCEPT ![g] = x]
    BY <1>2 DEF ThreadStep, ThreadLoops, ThreadStops, ThreadDone, TakeGoal, RejectGoal, StopGoal,
                GiveUpGoal, CallAction, TakeCancel, RemoteStep, goalAccepted, goalRejected,
                feedback, sendResult, cancelAccepted, cancelRejected
  <2> QED
    BY <2>1, <2>2 DEF RemoteTypes
<1>3. ASSUME NEW g \in Goals,
             BeginGoal(g) \/ GoalStep(g) \/ BeginCancel(g) \/ CancelStep(g) \/ WorkerStep(g)
      PROVE  UNCHANGED remoteVars
  BY <1>3 DEF BeginGoal, GoalStep, SendGoal, WaitGoal, GoalTimeout, GoalStopped, GoalAnswered,
              HandleAccepted, BeginCancel, CancelStep, SendCancel, WaitCancel,
              CancelTimeout, CancelStopped, CancelAnswered, WorkerStep, WorkerLoops,
              TakeFeedback, TakeResult, WorkerStops
<1>4. ASSUME \/ HandleAtServer \/ ServerJoins \/ ServerErases \/ ServerFlags \/ ServerStops
             \/ HandleAtClient \/ ClientRemoves \/ ClientFlags \/ ClientStops \/ UNCHANGED vars
      PROVE  UNCHANGED remoteVars
  BY <1>4 DEF HandleAtServer, ServerJoins, ServerErases, ServerFlags, ServerStops, HandleAtClient,
              HandleGoal, HandleCancel, ClientRemoves, ClientFlags, ClientStops, vars
<1> QED
  BY <1>1, <1>2, <1>3, <1>4 DEF Next

\* Every step keeps the types.
LEMMA StepTyped == TypeOK /\ [Next]_vars => TypeOK'
<1>1. TypeOK' <=> /\ MailTypes' /\ GoalTypes' /\ CancelTypes' /\ WorkTypes' /\ RemoveTypes'
                  /\ ClientTypes' /\ RemoteTypes'
  BY Zenon DEF TypeOK, MailTypes, GoalTypes, CancelTypes, WorkTypes, RemoveTypes, ClientTypes,
               RemoteTypes, Feed, Queued
<1> QED
  BY <1>1, TypeGroups, MailTyped, GoalTyped, CancelTyped, WorkTyped, RemoveTyped, ClientTyped,
     RemoteTyped

----------------------------------------------------------------------------
(* Messages and queues, by what is in them.                                *)

\* Nothing is in an empty sequence; Append adds one element and Tail takes some away.
LEMMA Members ==
  ASSUME NEW S, NEW s \in Seq(S), NEW x \in S
  PROVE  /\ \A m : ~In(m, <<>>)
         /\ \A m : In(m, Append(s, x)) <=> In(m, s) \/ m = x
         /\ s # <<>> => In(Head(s), s) /\ \A m : In(m, Tail(s)) => In(m, s)
BY DEF In

\* A message is its kind and its goal.
LEMMA MailApart == \A o, p, g, h : Mail(o, g) = Mail(p, h) <=> o = p /\ g = h
BY DEF Mail

\* Sending to the ActionClient...
LEMMA SentToClient ==
  ASSUME TypeOK, NEW op \in {"GOAL", "CANCEL"}, NEW g \in Goals, SendToClient(op, g)
  PROVE  \A m : In(m, toClient') <=> In(m, toClient) \/ m = Mail(op, g)
<1>1. Mail(op, g) \in ToClient /\ toClient \in Seq(ToClient)
  BY DEF Mail, ToClient, TypeOK
<1>2. toClient' = Append(toClient, Mail(op, g))
  BY DEF SendToClient, Mail
<1> QED
  BY <1>1, <1>2, Members

\* ...keeps the goals apart, if it is not one that is already under way,
LEMMA SentOnce ==
  ASSUME TypeOK, Once, NEW op \in {"GOAL", "CANCEL"}, NEW g \in Goals, SendToClient(op, g),
         op = "GOAL" => ~In(Mail("GOAL", g), toClient)
  PROVE  Once'
<1>1. toClient' = Append(toClient, Mail(op, g)) /\ Mail(op, g).op = op
  BY DEF SendToClient, Mail
<1>2. toClient \in Seq(ToClient)
  BY DEF TypeOK
<1>3. op = "GOAL" => \A i \in DOMAIN toClient : toClient[i] # Mail(op, g)
  BY DEF In
<1> QED
  BY <1>1, <1>2, <1>3 DEF Once

\* ...and so does taking a message.
LEMMA TakenOnce ==
  ASSUME TypeOK, Once, toClient # <<>>, toClient' = Tail(toClient)
  PROVE  /\ Once'
         /\ In(Head(toClient), toClient)
         /\ \A m : In(m, toClient') => In(m, toClient)
         /\ \A g : Head(toClient) = Mail("GOAL", g) => ~In(Mail("GOAL", g), toClient')
<1>1. toClient \in Seq(ToClient)
  BY DEF TypeOK
<1>2. Once'
  BY <1>1 DEF Once
<1>3. In(Head(toClient), toClient) /\ \A m : In(m, toClient') => In(m, toClient)
  BY <1>1 DEF In
<1>4. ASSUME NEW g, Head(toClient) = Mail("GOAL", g), In(Mail("GOAL", g), toClient')
      PROVE  FALSE
  <2>1. PICK i \in DOMAIN Tail(toClient) : Tail(toClient)[i] = Mail("GOAL", g)
    BY <1>4 DEF In
  <2>2. /\ i + 1 \in DOMAIN toClient /\ 1 \in DOMAIN toClient /\ i + 1 # 1
        /\ toClient[i + 1] = Mail("GOAL", g) /\ toClient[1] = Mail("GOAL", g)
    BY <1>1, <1>4, <2>1
  <2>3. Mail("GOAL", g).op = "GOAL"
    BY DEF Mail
  <2> QED
    BY <2>2, <2>3 DEF Once
<1> QED
  BY <1>2, <1>3, <1>4

\* Sending to the ActionServer.
LEMMA SentToServer ==
  ASSUME TypeOK, NEW g \in Goals,
         NEW op \in {"GOAL_ACCEPT", "GOAL_REJECT", "CANCEL_ACCEPT", "CANCEL_REJECT",
                     "FEEDBACK"} \cup Outcomes,
         SendToServer(op, g)
  PROVE  \A m : In(m, toServer') <=> In(m, toServer) \/ m = Mail(op, g)
<1>1. Mail(op, g) \in ToServer /\ toServer \in Seq(ToServer)
  BY DEF Mail, ToServer, TypeOK
<1>2. toServer' = Append(toServer, Mail(op, g))
  BY DEF SendToServer, Mail
<1> QED
  BY <1>1, <1>2, Members

\* Taking a message of the ActionClient.
LEMMA TakenFromClient ==
  ASSUME TypeOK, toServer # <<>>, toServer' = Tail(toServer)
  PROVE  /\ In(Head(toServer), toServer)
         /\ Head(toServer) \in ToServer
         /\ \A m : In(m, toServer') => In(m, toServer)
<1>1. toServer \in Seq(ToServer)
  BY DEF TypeOK
<1> QED
  BY <1>1 DEF In

\* The queue of the thread of a goal.
LEMMA ClientQueues ==
  ASSUME NEW q \in Seq({"GOAL", "CANCEL"}), GoalFirst(q)
  PROVE  /\ GoalFirst(Append(q, "CANCEL"))
         /\ \A m : In(m, Append(q, "CANCEL")) <=> In(m, q) \/ m = "CANCEL"
         /\ q # <<>> => /\ In(Head(q), q)
                        /\ GoalFirst(Tail(q)) /\ ~In("GOAL", Tail(q))
                        /\ \A m : In(m, Tail(q)) => In(m, q)
<1>1. \A m : In(m, Append(q, "CANCEL")) <=> In(m, q) \/ m = "CANCEL"
  <2>1. "CANCEL" \in {"GOAL", "CANCEL"}
    OBVIOUS
  <2> QED
    BY <2>1, Members
<1>2. GoalFirst(Append(q, "CANCEL"))
  BY DEF GoalFirst
<1>3. ASSUME q # <<>>
      PROVE  In(Head(q), q) /\ \A m : In(m, Tail(q)) => In(m, q)
  BY <1>3 DEF In
<1>4. ASSUME q # <<>>
      PROVE  \A i \in DOMAIN Tail(q) : Tail(q)[i] # "GOAL"
  BY <1>4 DEF GoalFirst
<1> QED
  BY <1>1, <1>2, <1>3, <1>4 DEF In, GoalFirst

\* A new queue.
LEMMA NewQueue == GoalFirst(<<"GOAL">>) /\ ~In("CANCEL", <<"GOAL">>) /\ GoalFirst(<<>>)
                  /\ \A m : ~In(m, <<>>)
BY DEF GoalFirst, In

----------------------------------------------------------------------------
(* The stages of a goal.                                                   *)

\* What is not a step of the ActionClient, nor the sending of a goal, at most sends a
\* cancellation to it.
AtServer ==
  /\ UNCHANGED <<thread, clientQueue, remote, clientHandles>>
  /\ \A g \in Goals : goalCall'[g] \in {"idle", "checked"} => goalCall[g] \in {"idle", "checked"}
  /\ UNCHANGED toClient \/ \E g \in Goals : SendToClient("CANCEL", g)

\* The callbacks and the threads of the ActionServer stay on their side.
LEMMA ServerSteps ==
  ASSUME TypeOK, NEW g \in Goals,
         \/ BeginGoal(g) \/ WaitGoal(g) \/ GoalTimeout(g) \/ GoalStopped(g) \/ GoalAnswered(g)
         \/ HandleAccepted(g) \/ BeginCancel(g) \/ CancelStep(g) \/ WorkerStep(g)
  PROVE  AtServer
<1> USE DEF AtServer
<1>1. ASSUME BeginGoal(g) \/ WaitGoal(g) \/ GoalStopped(g) \/ GoalAnswered(g) PROVE AtServer
  BY <1>1 DEF TypeOK, BeginGoal, WaitGoal, GoalStopped, GoalAnswered, ReturnGoal
<1>2. ASSUME GoalTimeout(g) PROVE AtServer
  BY <1>2 DEF TypeOK, GoalTimeout, ReturnGoal
<1>3. ASSUME HandleAccepted(g) PROVE AtServer
  BY <1>3 DEF TypeOK, HandleAccepted
<1>4. ASSUME BeginCancel(g) \/ WaitCancel(g) \/ CancelTimeout(g) \/ CancelStopped(g)
             \/ CancelAnswered(g)
      PROVE  AtServer
  BY <1>4 DEF BeginCancel, WaitCancel, CancelTimeout, CancelStopped, CancelAnswered
<1>5. ASSUME SendCancel(g) PROVE AtServer
  BY <1>5 DEF SendCancel
<1>6. ASSUME WorkerStep(g) PROVE AtServer
  BY <1>6 DEF WorkerStep, WorkerLoops, TakeFeedback, TakeResult, WorkerStops
<1> QED
  BY <1>1, <1>2, <1>3, <1>4, <1>5, <1>6 DEF CancelStep

\* So do deliveries, removals and stops.
LEMMA OtherServerSteps ==
  ASSUME HandleAtServer \/ ServerJoins \/ ServerErases \/ ServerFlags \/ ServerStops
         \/ ClientFlags \/ UNCHANGED vars
  PROVE  AtServer
BY DEF AtServer, HandleAtServer, ServerJoins, ServerErases, ServerFlags, ServerStops, ClientFlags,
       vars

\* Nothing on that side moves a goal back.
LEMMA AtServerKeeps ==
  ASSUME TypeOK, Stages, AtServer
  PROVE  Stages'
<1>1. CASE UNCHANGED toClient
  BY <1>1 DEF Stages, Staged, Once, AtServer
<1>2. ASSUME NEW h \in Goals, SendToClient("CANCEL", h) PROVE Stages'
  <2>1. Once'
    BY <1>2, SentOnce DEF Stages
  <2>2. \A g : In(Mail("GOAL", g), toClient') => In(Mail("GOAL", g), toClient)
    BY <1>2, SentToClient, MailApart
  <2> QED
    BY <2>1, <2>2 DEF Stages, Staged, AtServer
<1> QED
  BY <1>1, <1>2 DEF AtServer

\* A goal is sent while nobody has it...
LEMMA SendGoalKeeps ==
  ASSUME TypeOK, Stages, NEW g \in Goals, SendGoal(g)
  PROVE  Stages'
<1>1. /\ goalCall[g] = "checked" /\ goalCall' = [goalCall EXCEPT ![g] = "sent"]
      /\ UNCHANGED <<thread, clientQueue, remote, clientHandles>>
      /\ SendToClient("GOAL", g)
  BY DEF SendGoal
<1>2. ~In(Mail("GOAL", g), toClient) /\ thread[g] = "none"
  BY <1>1 DEF Stages, Staged
<1>3. Once'
  BY <1>1, <1>2, SentOnce DEF Stages
<1>4. \A h : In(Mail("GOAL", h), toClient') => In(Mail("GOAL", h), toClient) \/ h = g
  BY <1>1, SentToClient, MailApart
<1>5. ASSUME NEW h \in Goals PROVE Staged(h)'
  BY <1>1, <1>2, <1>4 DEF Stages, Staged, TypeOK
<1> QED
  BY <1>3, <1>5 DEF Stages

\* ...its message is taken once, and gives it a thread...
LEMMA HandleGoalKeeps ==
  ASSUME TypeOK, Stages, NEW g \in Goals, HandleGoal(g)
  PROVE  Stages'
<1>1. /\ toClient # <<>> /\ Head(toClient) = Mail("GOAL", g)
      /\ toClient' = Tail(toClient)
      /\ UNCHANGED <<goalCall, remote>>
  BY DEF HandleGoal, Mail
<1>2. /\ Once'
      /\ In(Mail("GOAL", g), toClient)
      /\ \A m : In(m, toClient') => In(m, toClient)
      /\ ~In(Mail("GOAL", g), toClient')
  BY <1>1, TakenOnce DEF Stages
<1>3. thread[g] = "none" /\ goalCall[g] \notin {"idle", "checked"} /\ remote[g] = "idle"
  BY <1>2 DEF Stages, Staged
<1>4. CASE UNCHANGED <<clientHandles, thread, clientQueue>>
  BY <1>1, <1>2, <1>4 DEF Stages, Staged
<1>5. CASE ~UNCHANGED <<clientHandles, thread, clientQueue>>
  <2>1. /\ clientHandles' = clientHandles \cup {g}
        /\ thread' = [thread EXCEPT ![g] = "looping"]
        /\ clientQueue' = [clientQueue EXCEPT ![g] = <<"GOAL">>]
    BY <1>5 DEF HandleGoal
  <2>2. ASSUME NEW h \in Goals, h # g PROVE Staged(h)'
    BY <1>1, <1>2, <2>1, <2>2 DEF Stages, Staged, TypeOK
  <2>3. thread'[g] = "looping" /\ clientQueue'[g] = <<"GOAL">>
    BY <2>1 DEF TypeOK
  <2>4. Staged(g)'
    BY <1>1, <1>2, <1>3, <2>3, NewQueue DEF Staged
  <2> QED
    BY <1>2, <2>2, <2>4 DEF Stages
<1> QED
  BY <1>4, <1>5

\* ...behind whose goal a cancellation queues.
LEMMA HandleCancelKeeps ==
  ASSUME TypeOK, Stages, NEW g \in Goals, HandleCancel(g)
  PROVE  Stages'
<1>1. /\ toClient # <<>> /\ toClient' = Tail(toClient)
      /\ UNCHANGED <<goalCall, remote, thread, clientHandles>>
  BY DEF HandleCancel
<1>2. Once' /\ \A m : In(m, toClient') => In(m, toClient)
  BY <1>1, TakenOnce DEF Stages
<1>3. CASE UNCHANGED clientQueue
  BY <1>1, <1>2, <1>3 DEF Stages, Staged
<1>4. CASE ~UNCHANGED clientQueue
  <2>1. g \in clientHandles /\ clientQueue' = [clientQueue EXCEPT ![g] = Append(@, "CANCEL")]
    BY <1>4 DEF HandleCancel
  <2>2. ASSUME NEW h \in Goals, h # g PROVE Staged(h)'
    BY <1>1, <1>2, <2>1, <2>2 DEF Stages, Staged, TypeOK
  <2>3. clientQueue'[g] = Append(clientQueue[g], "CANCEL")
    BY <2>1 DEF TypeOK
  <2>4. /\ GoalFirst(clientQueue'[g])
        /\ In("GOAL", clientQueue'[g]) => In("GOAL", clientQueue[g])
    BY <2>3, ClientQueues DEF Stages, Staged, TypeOK
  <2>5. Staged(g)'
    BY <1>1, <1>2, <2>1, <2>4 DEF Stages, Staged
  <2> QED
    BY <1>2, <2>2, <2>5 DEF Stages
<1> QED
  BY <1>3, <1>4

\* The thread of a goal does not go back before its goal.
LEMMA ThreadKeeps ==
  ASSUME TypeOK, Stages, NEW g \in Goals, ThreadStep(g) \/ ThreadDone(g)
  PROVE  Stages'
<1> USE DEF TypeOK
<1>1. UNCHANGED <<goalCall, toClient, clientHandles>>
  BY DEF ThreadStep, ThreadLoops, ThreadStops, ThreadDone, TakeGoal, RejectGoal, StopGoal, GiveUpGoal,
         CallAction, TakeCancel
<1>2. thread[g] # "none" /\ thread' = [thread EXCEPT ![g] = thread'[g]] /\ thread'[g] # "none"
  BY DEF ThreadStep, ThreadLoops, ThreadStops, ThreadDone, ThreadExits, TakeGoal, Takes, RejectGoal,
         StopGoal, GiveUpGoal, CallAction, TakeCancel
<1>3. Once'
  BY <1>1 DEF Stages, Once
<1>4. Staged(g)
  BY DEF Stages
<1>5. CASE ThreadLoops(g) \/ ThreadStops(g) \/ ThreadDone(g) \/ RejectGoal(g) \/ StopGoal(g)
  <2>1. UNCHANGED <<clientQueue, remote>> /\ thread'[g] # "goal"
    BY <1>5 DEF ThreadLoops, ThreadStops, ThreadDone, ThreadExits, RejectGoal, StopGoal, GiveUpGoal
  <2>2. ASSUME NEW h \in Goals PROVE Staged(h)'
    BY <1>1, <1>2, <2>1 DEF Stages, Staged
  <2> QED
    BY <1>3, <2>2 DEF Stages
<1>6. CASE TakeGoal(g) \/ TakeCancel(g)
  <2>1. /\ clientQueue[g] # <<>> /\ clientQueue' = [clientQueue EXCEPT ![g] = Tail(@)]
        /\ UNCHANGED remote
        /\ thread'[g] = "goal" => Head(clientQueue[g]) = "GOAL"
    BY <1>6 DEF TakeGoal, TakeCancel, Takes
  <2>2. clientQueue'[g] = Tail(clientQueue[g])
    BY <2>1
  <2>3. /\ GoalFirst(clientQueue'[g]) /\ ~In("GOAL", clientQueue'[g])
        /\ thread'[g] = "goal" => remote[g] = "idle"
    BY <1>4, <2>1, <2>2, ClientQueues DEF Staged
  <2>4. Staged(g)'
    BY <1>1, <1>2, <1>4, <2>1, <2>3 DEF Staged
  <2>5. ASSUME NEW h \in Goals, h # g PROVE Staged(h)'
    BY <1>1, <1>2, <2>1, <2>5 DEF Stages, Staged
  <2> QED
    BY <1>3, <2>4, <2>5 DEF Stages
<1>7. CASE CallAction(g)
  <2>1. /\ thread[g] = "goal" /\ thread' = [thread EXCEPT ![g] = "looping"]
        /\ remote' = [remote EXCEPT ![g] = "requested"] /\ UNCHANGED clientQueue
    BY <1>7 DEF CallAction
  <2>2. Staged(g)'
    BY <1>1, <1>4, <2>1 DEF Staged
  <2>3. ASSUME NEW h \in Goals, h # g PROVE Staged(h)'
    BY <1>1, <2>1, <2>3 DEF Stages, Staged
  <2> QED
    BY <1>3, <2>2, <2>3 DEF Stages
<1> QED
  BY <1>5, <1>6, <1>7 DEF ThreadStep

\* A handle that goes takes nothing else with it.
LEMMA RemovalKeeps ==
  ASSUME TypeOK, Stages, ClientRemoves \/ ClientStops
  PROVE  Stages'
<1>1. /\ UNCHANGED <<goalCall, toClient, thread, clientQueue, remote>>
      /\ clientHandles' \subseteq clientHandles
  BY DEF ClientRemoves, ClientStops
<1> QED
  BY <1>1 DEF Stages, Staged, Once

\* The real action answers a goal that it was given.
LEMMA RemoteKeeps ==
  ASSUME TypeOK, Stages, NEW g \in Goals, RemoteStep(g)
  PROVE  Stages'
<1>1. UNCHANGED <<goalCall, toClient, thread, clientQueue, clientHandles>>
  BY DEF RemoteStep, goalAccepted, goalRejected, feedback, sendResult, cancelAccepted,
         cancelRejected, Callback
<1>2. UNCHANGED remote \/ (remote[g] # "idle" /\ \E x : remote' = [remote EXCEPT ![g] = x])
  BY DEF RemoteStep, goalAccepted, goalRejected, feedback, sendResult, cancelAccepted,
         cancelRejected
<1>3. Once'
  BY <1>1 DEF Stages, Once
<1>4. ASSUME NEW h \in Goals PROVE Staged(h)'
  BY <1>1, <1>2 DEF Stages, Staged, TypeOK
<1> QED
  BY <1>3, <1>4 DEF Stages

\* Every step keeps the stages.
LEMMA StagesKept == TypeOK /\ Stages /\ [Next]_vars => Stages'
<1> SUFFICES ASSUME TypeOK, Stages, [Next]_vars PROVE Stages'
  OBVIOUS
<1>1. ASSUME NEW g \in Goals,
             BeginGoal(g) \/ GoalStep(g) \/ BeginCancel(g) \/ CancelStep(g) \/ WorkerStep(g)
      PROVE  Stages'
  BY <1>1, ServerSteps, AtServerKeeps, SendGoalKeeps DEF GoalStep
<1>2. ASSUME NEW g \in Goals,
             ThreadStep(g) \/ ThreadDone(g) \/ RemoteStep(g) \/ HandleGoal(g) \/ HandleCancel(g)
      PROVE  Stages'
  BY <1>2, ThreadKeeps, RemoteKeeps, HandleGoalKeeps, HandleCancelKeeps
<1>3. CASE HandleAtServer \/ ServerJoins \/ ServerErases \/ ServerFlags \/ ServerStops
           \/ ClientFlags \/ UNCHANGED vars
  BY <1>3, OtherServerSteps, AtServerKeeps
<1>4. CASE ClientRemoves \/ ClientStops
  BY <1>4, RemovalKeeps
<1> QED
  BY <1>1, <1>2, <1>3, <1>4 DEF Next, HandleAtClient

----------------------------------------------------------------------------
(* Results.                                                                *)

\* A step that leaves the real action alone tells nothing new.
Tells(g) ==
  /\ \A o \in Outcomes :
       /\ In(Mail(o, g), toServer') => In(Mail(o, g), toServer)
       /\ In(o, waitQueue'[g]) => In(o, waitQueue[g]) \/ In(Mail(o, g), toServer)
  /\ local'[g] \in {"SUCCEEDED", "CANCELED"} =>
       local'[g] = local[g] \/ In(local'[g], waitQueue[g])

\* Such steps keep the results.
LEMMA Retold ==
  ASSUME Results, UNCHANGED remote, \A g \in Goals : Tells(g)
  PROVE  Results'
<1> SUFFICES ASSUME NEW g \in Goals PROVE Told(g)'
  BY DEF Results
<1>1. Told(g) /\ Tells(g)
  BY DEF Results
<1>2. \A o \in Outcomes : In(Mail(o, g), toServer') \/ In(o, waitQueue'[g]) => remote[g] = o
  BY <1>1 DEF Told, Tells
<1>3. local'[g] \in {"SUCCEEDED", "CANCELED"} => remote[g] = local'[g]
  BY <1>1 DEF Told, Tells, Outcomes
<1> QED
  BY <1>2, <1>3 DEF Told

\* Messages that are no results.
LEMMA NoResult ==
  ASSUME TypeOK, NEW g \in Goals,
         NEW op \in {"GOAL_ACCEPT", "GOAL_REJECT", "CANCEL_ACCEPT", "CANCEL_REJECT", "FEEDBACK"},
         SendToServer(op, g)
  PROVE  \A h \in Goals, o \in Outcomes : In(Mail(o, h), toServer') => In(Mail(o, h), toServer)
<1>1. \A m : In(m, toServer') => In(m, toServer) \/ m = Mail(op, g)
  BY SentToServer
<1> QED
  BY <1>1, MailApart DEF Outcomes

\* What the threads of the ActionServer do with feedback and results.
LEMMA WorkerTells ==
  ASSUME TypeOK, NEW g \in Goals, WorkerStep(g) \/ HandleAccepted(g)
  PROVE  UNCHANGED remote /\ \A h \in Goals : Tells(h)
<1> USE DEF TypeOK
<1>1. CASE HandleAccepted(g) \/ WorkerLoops(g) \/ WorkerStops(g)
  <2>1. /\ UNCHANGED <<toServer, waitQueue, remote>>
        /\ \A h \in Goals : local'[h] \in {local[h], "dropped", "ABORTED"}
    BY <1>1 DEF HandleAccepted, WorkerLoops, WorkerStops, WorkerEnds
  <2> QED
    BY <2>1 DEF Tells
<1>2. CASE TakeFeedback(g) \/ TakeResult(g)
  <2>1. /\ waitQueue[g] # <<>> /\ waitQueue' = [waitQueue EXCEPT ![g] = Tail(@)]
        /\ UNCHANGED <<toServer, remote>>
    BY <1>2 DEF TakeFeedback, TakeResult
  <2>2. /\ In(Head(waitQueue[g]), waitQueue[g])
        /\ \A m : In(m, Tail(waitQueue[g])) => In(m, waitQueue[g])
    <3>1. /\ waitQueue[g] \in Seq(Outcomes \cup {"FEEDBACK"})
          /\ "FEEDBACK" \in Outcomes \cup {"FEEDBACK"}
      OBVIOUS
    <3> QED
      BY <2>1, <3>1, Members
  <2>3. \A h \in Goals : local'[h] \in {local[h], "ABORTED"} \/ (h = g /\ local'[h] = Head(waitQueue[g]))
    BY <1>2 DEF TakeFeedback, TakeResult, WorkerEnds
  <2> QED
    BY <2>1, <2>2, <2>3 DEF Tells
<1> QED
  BY <1>1, <1>2 DEF WorkerStep

\* A result that is handled was under way.
LEMMA DeliveryTells ==
  ASSUME TypeOK, HandleAtServer
  PROVE  UNCHANGED remote /\ \A h \in Goals : Tells(h)
<1> DEFINE m == Head(toServer)
<1>1. /\ toServer # <<>> /\ toServer' = Tail(toServer)
      /\ UNCHANGED <<remote, local>>
  BY DEF HandleAtServer
<1>2. /\ In(m, toServer) /\ m \in ToServer
      /\ \A x : In(x, toServer') => In(x, toServer)
  BY <1>1, TakenFromClient
<1>3. CASE UNCHANGED waitQueue
  BY <1>1, <1>2, <1>3 DEF Tells
<1>4. CASE ~UNCHANGED waitQueue
  <2>1. /\ waitQueue' = [waitQueue EXCEPT ![m.goal] = Append(@, m.op)]
        /\ m.op \notin {"GOAL_ACCEPT", "GOAL_REJECT", "CANCEL_ACCEPT", "CANCEL_REJECT"}
    BY <1>4 DEF HandleAtServer, Deliver
  <2>2. m.goal \in Goals /\ m.op \in Outcomes \cup {"FEEDBACK"} /\ m = Mail(m.op, m.goal)
    BY <1>2, <2>1 DEF ToServer, Mail
  <2>3. waitQueue \in [Goals -> Seq(Outcomes \cup {"FEEDBACK"})]
    BY DEF TypeOK
  <2> HIDE DEF m
  <2>4. \A x : In(x, waitQueue'[m.goal]) => In(x, waitQueue[m.goal]) \/ x = m.op
    <3>1. waitQueue'[m.goal] = Append(waitQueue[m.goal], m.op)
      BY <2>1, <2>2, <2>3
    <3> QED
      BY <2>2, <2>3, <3>1, Members
  <2>5. \A h \in Goals : h # m.goal => waitQueue'[h] = waitQueue[h]
    BY <2>1, <2>3
  <2>6. ASSUME NEW h \in Goals, NEW o \in Outcomes, In(o, waitQueue'[h])
        PROVE  In(o, waitQueue[h]) \/ In(Mail(o, h), toServer)
    BY <1>2, <2>2, <2>4, <2>5, <2>6
  <2> QED
    BY <1>1, <1>2, <2>6 DEF Tells
<1> QED
  BY <1>1, <1>3, <1>4

\* The answers of the ActionClient that are no results.
LEMMA AnswerTells ==
  ASSUME TypeOK, NEW g \in Goals,
         \/ HandleCancel(g) \/ RejectGoal(g) \/ feedback(g) \/ cancelAccepted(g)
         \/ cancelRejected(g)
  PROVE  UNCHANGED remote /\ \A h \in Goals : Tells(h)
<1>1. UNCHANGED <<waitQueue, local, remote>>
  BY DEF HandleCancel, RejectGoal, GiveUpGoal, feedback, cancelAccepted, cancelRejected
<1>2. UNCHANGED toServer
      \/ \E op \in {"GOAL_ACCEPT", "GOAL_REJECT", "CANCEL_ACCEPT", "CANCEL_REJECT", "FEEDBACK"} :
           SendToServer(op, g)
  BY DEF HandleCancel, RejectGoal, GiveUpGoal, feedback, cancelAccepted, cancelRejected
<1>3. \A h \in Goals, o \in Outcomes : In(Mail(o, h), toServer') => In(Mail(o, h), toServer)
  BY <1>2, NoResult
<1> QED
  BY <1>1, <1>3 DEF Tells

\* A goal nothing has been told of.
LEMMA NothingTold ==
  ASSUME TypeOK, Results, NEW g \in Goals, remote[g] \notin Outcomes
  PROVE  /\ \A o \in Outcomes : ~In(Mail(o, g), toServer) /\ ~In(o, waitQueue[g])
         /\ local[g] \notin {"SUCCEEDED", "CANCELED"}
BY DEF Results, Told, Outcomes

\* The real action answers the goal...
LEMMA AcceptKeepsResults ==
  ASSUME TypeOK, Stages, Results, NEW g \in Goals,
         CallAction(g) \/ goalAccepted(g) \/ goalRejected(g)
  PROVE  Results'
<1>1. remote[g] \in {"idle", "requested"}
  BY DEF Stages, Staged, CallAction, goalAccepted, goalRejected
<1>2. UNCHANGED <<waitQueue, local>> /\ \E x : remote' = [remote EXCEPT ![g] = x]
  BY DEF CallAction, goalAccepted, goalRejected
<1>3. \A h \in Goals, o \in Outcomes : In(Mail(o, h), toServer') => In(Mail(o, h), toServer)
  <2>1. UNCHANGED toServer \/ SendToServer("GOAL_ACCEPT", g)
    BY DEF CallAction, goalAccepted, goalRejected
  <2> QED
    BY <2>1, NoResult
<1>4. /\ \A o \in Outcomes : ~In(Mail(o, g), toServer) /\ ~In(o, waitQueue[g])
      /\ local[g] \notin {"SUCCEEDED", "CANCELED"}
  BY <1>1, NothingTold DEF Outcomes
<1>5. ASSUME NEW h \in Goals, h # g PROVE Told(h)'
  BY <1>2, <1>3, <1>5 DEF Results, Told, TypeOK
<1>6. Told(g)'
  BY <1>2, <1>3, <1>4 DEF Told
<1> QED
  BY <1>5, <1>6 DEF Results

\* ...and ends it.
LEMMA ResultKeepsResults ==
  ASSUME TypeOK, Results, NEW g \in Goals, sendResult(g)
  PROVE  Results'
<1>1. remote[g] = "active" /\ UNCHANGED <<waitQueue, local>>
  BY DEF sendResult
<1>2. PICK o \in Outcomes : remote' = [remote EXCEPT ![g] = o] /\ SendToServer(o, g)
  BY DEF sendResult
<1>3. \A m : In(m, toServer') => In(m, toServer) \/ m = Mail(o, g)
  BY <1>2, SentToServer
<1>4. /\ \A p \in Outcomes : ~In(Mail(p, g), toServer) /\ ~In(p, waitQueue[g])
      /\ local[g] \notin {"SUCCEEDED", "CANCELED"}
  BY <1>1, NothingTold DEF Outcomes
<1>5. ASSUME NEW h \in Goals, h # g PROVE Told(h)'
  BY <1>1, <1>2, <1>3, <1>5, MailApart DEF Results, Told, TypeOK
<1>6. remote'[g] = o
  BY <1>2 DEF TypeOK
<1>7. Told(g)'
  BY <1>1, <1>3, <1>4, <1>6, MailApart DEF Told
<1> QED
  BY <1>5, <1>7 DEF Results

\* The other steps.
LEMMA QuietResults ==
  ASSUME UNCHANGED <<toServer, waitQueue, local, remote>>, Results
  PROVE  Results'
BY DEF Results, Told

\* Every step keeps the results.
LEMMA ResultsKept == TypeOK /\ Stages /\ Results /\ [Next]_vars => Results'
<1> SUFFICES ASSUME TypeOK, Stages, Results, [Next]_vars PROVE Results'
  OBVIOUS
<1>1. ASSUME NEW g \in Goals, BeginGoal(g) \/ GoalStep(g) PROVE Results'
  <2>1. CASE HandleAccepted(g)
    BY <2>1, WorkerTells, Retold
  <2>2. CASE ~HandleAccepted(g)
    BY <1>1, <2>2, QuietResults
       DEF GoalStep, BeginGoal, SendGoal, WaitGoal, GoalTimeout, GoalStopped, GoalAnswered
  <2> QED
    BY <2>1, <2>2
<1>2. ASSUME NEW g \in Goals, BeginCancel(g) \/ CancelStep(g) PROVE Results'
  BY <1>2, QuietResults
     DEF BeginCancel, CancelStep, SendCancel, WaitCancel, CancelTimeout, CancelStopped,
         CancelAnswered
<1>3. ASSUME NEW g \in Goals, WorkerStep(g) PROVE Results'
  BY <1>3, WorkerTells, Retold
<1>4. ASSUME NEW g \in Goals, ThreadStep(g) \/ ThreadDone(g) PROVE Results'
  <2>1. CASE RejectGoal(g)
    BY <2>1, AnswerTells, Retold
  <2>2. CASE CallAction(g)
    BY <2>2, AcceptKeepsResults
  <2>3. CASE ~RejectGoal(g) /\ ~CallAction(g)
    BY <1>4, <2>3, QuietResults
       DEF ThreadStep, ThreadLoops, ThreadStops, ThreadDone, ThreadExits, executeCancel, TakeGoal, Takes,
           StopGoal, GiveUpGoal, TakeCancel
  <2> QED
    BY <2>1, <2>2, <2>3
<1>5. ASSUME NEW g \in Goals, RemoteStep(g) PROVE Results'
  <2>1. CASE feedback(g) \/ cancelAccepted(g) \/ cancelRejected(g)
    BY <2>1, AnswerTells, Retold
  <2> QED
    BY <1>5, <2>1, AcceptKeepsResults, ResultKeepsResults DEF RemoteStep
<1>6. CASE HandleAtServer
  BY <1>6, DeliveryTells, Retold
<1>7. ASSUME NEW g \in Goals, HandleGoal(g) \/ HandleCancel(g) PROVE Results'
  <2>1. CASE HandleCancel(g)
    BY <2>1, AnswerTells, Retold
  <2>2. CASE HandleGoal(g)
    BY <2>2, QuietResults DEF HandleGoal
  <2> QED
    BY <1>7, <2>1, <2>2
<1>8. CASE \/ ServerJoins \/ ServerErases \/ ServerFlags \/ ServerStops \/ ClientRemoves
           \/ ClientFlags \/ ClientStops \/ UNCHANGED vars
  BY <1>8, QuietResults
     DEF ServerJoins, ServerErases, ServerFlags, ServerStops, ClientRemoves, ClientFlags,
         ClientStops, vars
<1> QED
  BY <1>1, <1>2, <1>3, <1>4, <1>5, <1>6, <1>7, <1>8 DEF Next, HandleAtClient

----------------------------------------------------------------------------
(* Accepted cancellations.                                                 *)

\* A step that grants nothing new.
Regrants(g) == Granted(g)' => Granted(g) \/ g \in canceling'

\* Such steps keep the grants.
LEMMA GrantsStay ==
  ASSUME Grants, canceling \subseteq canceling', \A g \in Goals : Regrants(g)
  PROVE  Grants'
BY DEF Grants, Regrants

\* Answers other than CANCEL_ACCEPT.
LEMMA NoGrant ==
  ASSUME TypeOK, NEW g \in Goals,
         NEW op \in {"GOAL_ACCEPT", "GOAL_REJECT", "CANCEL_REJECT", "FEEDBACK"} \cup Outcomes,
         SendToServer(op, g)
  PROVE  \A h \in Goals : In(Mail("CANCEL_ACCEPT", h), toServer') => In(Mail("CANCEL_ACCEPT", h), toServer)
<1>1. \A m : In(m, toServer') => In(m, toServer) \/ m = Mail(op, g)
  BY SentToServer
<1> QED
  BY <1>1, MailApart DEF Outcomes

\* The cancel callback returns what it has been answered.
LEMMA CancelCallGrants ==
  ASSUME TypeOK, NEW g \in Goals, BeginCancel(g) \/ CancelStep(g)
  PROVE  UNCHANGED canceling /\ \A h \in Goals : Regrants(h)
<1> USE DEF TypeOK
<1>1. UNCHANGED <<toServer, canceling>>
  BY DEF BeginCancel, CancelStep, SendCancel, WaitCancel, CancelTimeout, CancelStopped,
         CancelAnswered
<1>2. CASE SendCancel(g)
  <2>1. \A h \in Goals : cancelResponse'[h] \in {cancelResponse[h], None}
    BY <1>2 DEF SendCancel
  <2>2. \A h \in Goals : cancelResult'[h] \in {cancelResult[h], "reject"}
    BY <1>2 DEF SendCancel, ReturnCancel
  <2>3. \A h \in Goals : Granted(h)' => Granted(h)
    BY <1>1, <2>1, <2>2 DEF Granted
  <2> QED
    BY <1>1, <2>3 DEF Regrants
<1>3. CASE BeginCancel(g) \/ WaitCancel(g) \/ CancelTimeout(g) \/ CancelStopped(g)
  <2>1. UNCHANGED cancelResponse /\ \A h \in Goals : cancelResult'[h] \in {cancelResult[h], "reject"}
    BY <1>3 DEF BeginCancel, WaitCancel, CancelTimeout, CancelStopped, ReturnCancel
  <2> QED
    BY <1>1, <2>1 DEF Regrants, Granted
<1>4. CASE CancelAnswered(g)
  <2>1. UNCHANGED cancelResponse
    BY <1>4 DEF CancelAnswered
  <2>2. \A h \in Goals : \/ cancelResult'[h] \in {cancelResult[h], "reject"}
                         \/ /\ h = g
                            /\ cancelResponse[g] # None /\ cancelResponse[g] = "CANCEL_ACCEPT"
    BY <1>4 DEF CancelAnswered, ReturnCancel
  <2> QED
    BY <1>1, <2>1, <2>2 DEF Regrants, Granted
<1> QED
  BY <1>1, <1>2, <1>3, <1>4 DEF CancelStep

\* A response that is handled was under way.
LEMMA DeliveryGrants ==
  ASSUME TypeOK, HandleAtServer
  PROVE  UNCHANGED canceling /\ \A h \in Goals : Regrants(h)
<1> DEFINE m == Head(toServer)
<1>1. /\ toServer # <<>> /\ toServer' = Tail(toServer)
      /\ UNCHANGED <<canceling, cancelResult>>
  BY DEF HandleAtServer
<1>2. /\ In(m, toServer) /\ m \in ToServer
      /\ \A x : In(x, toServer') => In(x, toServer)
  BY <1>1, TakenFromClient
<1>3. UNCHANGED cancelResponse \/ cancelResponse' = [cancelResponse EXCEPT ![m.goal] = m.op]
  BY DEF HandleAtServer, Deliver
<1>4. m.goal \in Goals /\ m = Mail(m.op, m.goal)
  BY <1>2 DEF ToServer, Mail
<1> HIDE DEF m
<1>5. \A h \in Goals : cancelResponse'[h] = cancelResponse[h] \/ (h = m.goal /\ cancelResponse'[h] = m.op)
  BY <1>3, <1>4 DEF TypeOK
<1> QED
  BY <1>1, <1>2, <1>4, <1>5 DEF Regrants, Granted

\* The ActionClient grants what the real action has accepted.
LEMMA ClientGrants ==
  ASSUME TypeOK, NEW g \in Goals, HandleCancel(g) \/ ThreadStep(g) \/ ThreadDone(g) \/ RemoteStep(g)
  PROVE  canceling \subseteq canceling' /\ \A h \in Goals : Regrants(h)
<1>1. UNCHANGED <<cancelResponse, cancelResult>>
  BY DEF HandleCancel, ThreadStep, ThreadLoops, ThreadStops, ThreadDone, TakeGoal, RejectGoal, StopGoal,
         GiveUpGoal, CallAction, TakeCancel, RemoteStep, goalAccepted, goalRejected, feedback,
         sendResult, cancelAccepted, cancelRejected
<1>2. CASE cancelAccepted(g)
  <2>1. canceling' = canceling \cup {g} /\ SendToServer("CANCEL_ACCEPT", g)
    BY <1>2 DEF cancelAccepted
  <2>2. \A m : In(m, toServer') => In(m, toServer) \/ m = Mail("CANCEL_ACCEPT", g)
    BY <2>1, SentToServer
  <2> QED
    BY <1>1, <2>1, <2>2, MailApart DEF Regrants, Granted
<1>3. CASE ~cancelAccepted(g)
  <2>1. UNCHANGED canceling
    BY <1>3 DEF HandleCancel, ThreadStep, ThreadLoops, ThreadStops, ThreadDone, TakeGoal, RejectGoal,
                StopGoal, GiveUpGoal, CallAction, TakeCancel, RemoteStep, goalAccepted,
                goalRejected, feedback, sendResult, cancelRejected
  <2>2. \/ UNCHANGED toServer
        \/ \E op \in {"GOAL_ACCEPT", "GOAL_REJECT", "CANCEL_REJECT", "FEEDBACK"} \cup Outcomes :
             SendToServer(op, g)
    BY <1>3 DEF HandleCancel, ThreadStep, ThreadLoops, ThreadStops, ThreadDone, TakeGoal, RejectGoal,
                StopGoal, GiveUpGoal, CallAction, TakeCancel, RemoteStep, goalAccepted,
                goalRejected, feedback, sendResult, cancelRejected
  <2>3. \A h \in Goals : In(Mail("CANCEL_ACCEPT", h), toServer') => In(Mail("CANCEL_ACCEPT", h), toServer)
    BY <2>2, NoGrant
  <2> QED
    BY <1>1, <2>1, <2>3 DEF Regrants, Granted
<1> QED
  BY <1>2, <1>3

\* The other steps.
LEMMA QuietGrants ==
  ASSUME Grants, UNCHANGED <<toServer, cancelResponse, cancelResult, canceling>>
  PROVE  Grants'
BY DEF Grants, Granted

\* Every step keeps the grants.
LEMMA GrantsKept == TypeOK /\ Grants /\ [Next]_vars => Grants'
<1> SUFFICES ASSUME TypeOK, Grants, [Next]_vars PROVE Grants'
  OBVIOUS
<1>1. ASSUME NEW g \in Goals, BeginGoal(g) \/ GoalStep(g) PROVE Grants'
  BY <1>1, QuietGrants
     DEF GoalStep, BeginGoal, SendGoal, WaitGoal, GoalTimeout, GoalStopped, GoalAnswered,
         HandleAccepted
<1>2. ASSUME NEW g \in Goals, BeginCancel(g) \/ CancelStep(g) PROVE Grants'
  BY <1>2, CancelCallGrants, GrantsStay
<1>3. ASSUME NEW g \in Goals, WorkerStep(g) PROVE Grants'
  BY <1>3, QuietGrants DEF WorkerStep, WorkerLoops, TakeFeedback, TakeResult, WorkerStops
<1>4. ASSUME NEW g \in Goals, HandleCancel(g) \/ ThreadStep(g) \/ ThreadDone(g) \/ RemoteStep(g)
      PROVE  Grants'
  BY <1>4, ClientGrants, GrantsStay
<1>5. CASE HandleAtServer
  BY <1>5, DeliveryGrants, GrantsStay
<1>6. ASSUME NEW g \in Goals, HandleGoal(g) PROVE Grants'
  BY <1>6, QuietGrants DEF HandleGoal
<1>7. CASE \/ ServerJoins \/ ServerErases \/ ServerFlags \/ ServerStops \/ ClientRemoves
           \/ ClientFlags \/ ClientStops \/ UNCHANGED vars
  BY <1>7, QuietGrants
     DEF ServerJoins, ServerErases, ServerFlags, ServerStops, ClientRemoves, ClientFlags,
         ClientStops, vars
<1> QED
  BY <1>1, <1>2, <1>3, <1>4, <1>5, <1>6, <1>7 DEF Next, HandleAtClient

----------------------------------------------------------------------------
(* Cancellations and their reasons.                                        *)

\* A goal that was given up never gets a thread, so a reason stays one.
LEMMA WorkersKept ==
  TypeOK /\ Workers /\ [Next]_vars => Workers' /\ \A g \in Goals : Reason(g) => Reason(g)'
<1> SUFFICES ASSUME TypeOK, Workers, [Next]_vars
             PROVE  Workers' /\ \A g \in Goals : Reason(g) => Reason(g)'
  OBVIOUS
<1> DEFINE Kept == Workers' /\ \A g \in Goals : Reason(g) => Reason(g)'
<1> USE DEF TypeOK, Workers, Reason, GivenUp, clientStopping
<1>1. ASSUME NEW g \in Goals,
             BeginGoal(g) \/ SendGoal(g) \/ WaitGoal(g) \/ GoalTimeout(g) \/ GoalStopped(g)
               \/ GoalAnswered(g)
      PROVE  Kept
  <2>1. /\ goalCall[g] # "returned"
        /\ \A h \in Goals : h # g => goalCall'[h] = goalCall[h]
        /\ UNCHANGED <<worker, local, cancels, clientStop>>
    BY <1>1 DEF BeginGoal, SendGoal, WaitGoal, GoalTimeout, GoalStopped, GoalAnswered, ReturnGoal
  <2> QED
    BY <2>1
<1>2. ASSUME NEW g \in Goals, HandleAccepted(g) PROVE Kept
  <2>1. /\ goalCall[g] = "accepted" /\ goalCall' = [goalCall EXCEPT ![g] = "returned"]
        /\ UNCHANGED <<cancels, clientStop>>
        /\ \/ /\ local' = [local EXCEPT ![g] = "dropped"] /\ UNCHANGED worker
           \/ /\ worker' = [worker EXCEPT ![g] = "looping"] /\ UNCHANGED local
    BY <1>2 DEF HandleAccepted
  <2> QED
    BY <2>1
<1>3. ASSUME NEW g \in Goals, BeginCancel(g) PROVE Kept
  <2>1. cancels' = [cancels EXCEPT ![g] = @ + 1] /\ UNCHANGED <<goalCall, worker, local, clientStop>>
    BY <1>3 DEF BeginCancel
  <2> QED
    BY <2>1
<1>4. ASSUME NEW g \in Goals, WorkerStep(g) PROVE Kept
  <2>1. /\ worker[g] # "none"
        /\ \E x \in {"looping", "waiting", "left", "exited"} : worker' = [worker EXCEPT ![g] = x]
        /\ \A h \in Goals : h # g => local'[h] = local[h]
        /\ UNCHANGED <<goalCall, cancels, clientStop>>
    BY <1>4 DEF WorkerStep, WorkerLoops, TakeFeedback, TakeResult, WorkerStops, WorkerEnds
  <2> QED
    BY <2>1
<1>5. ASSUME ClientFlags \/ ClientStops PROVE Kept
  <2>1. /\ UNCHANGED <<goalCall, worker, local, cancels>>
        /\ clientStop # "running" => clientStop' # "running"
    BY <1>5 DEF ClientFlags, ClientStops
  <2> QED
    BY <2>1
<1>6. ASSUME UNCHANGED <<goalCall, worker, local, cancels, clientStop>> PROVE Kept
  BY <1>6
<1> HIDE DEF Kept
<1>7. ASSUME NEW g \in Goals, CancelStep(g) PROVE Kept
  BY <1>6, <1>7 DEF CancelStep, SendCancel, WaitCancel, CancelTimeout, CancelStopped, CancelAnswered
<1>8. ASSUME NEW g \in Goals, ThreadStep(g) \/ ThreadDone(g) PROVE Kept
  BY <1>6, <1>8
     DEF ThreadStep, ThreadLoops, ThreadStops, ThreadDone, TakeGoal, RejectGoal, StopGoal, GiveUpGoal,
         CallAction, TakeCancel
<1>9. ASSUME NEW g \in Goals, RemoteStep(g) PROVE Kept
  BY <1>6, <1>9
     DEF RemoteStep, goalAccepted, goalRejected, feedback, sendResult, cancelAccepted,
         cancelRejected, Callback
<1>10. ASSUME NEW g \in Goals, HandleGoal(g) \/ HandleCancel(g) PROVE Kept
  BY <1>6, <1>10 DEF HandleGoal, HandleCancel
<1>11. ASSUME \/ HandleAtServer \/ ServerJoins \/ ServerErases \/ ServerFlags \/ ServerStops
              \/ ClientRemoves \/ UNCHANGED vars
       PROVE  Kept
  BY <1>6, <1>11
     DEF HandleAtServer, ServerJoins, ServerErases, ServerFlags, ServerStops, ClientRemoves, vars
<1>12. Kept
  BY <1>1, <1>2, <1>3, <1>4, <1>5, <1>7, <1>8, <1>9, <1>10, <1>11
     DEF Next, GoalStep, HandleAtClient
<1> QED
  BY <1>12 DEF Kept

\* A step after which no cancellation lacks a reason.
Recancels(g) == Cancelling(g)' => Cancelling(g) \/ Reason(g)'

\* Such steps keep the reasons.
LEMMA ReasonsStay ==
  ASSUME Reasons, \A g \in Goals : Reason(g) => Reason(g)', \A g \in Goals : Recancels(g)
  PROVE  Reasons'
BY DEF Reasons, Recancels

\* The goal callbacks cancel a goal when they give it up.
LEMMA GoalCancels ==
  ASSUME TypeOK, Workers, NEW g \in Goals, BeginGoal(g) \/ GoalStep(g)
  PROVE  \A h \in Goals : Recancels(h)
<1>1. UNCHANGED <<clientQueue, cancelAsked, canceling, remote, cancelCall>>
  BY DEF BeginGoal, GoalStep, SendGoal, WaitGoal, GoalTimeout, GoalStopped, GoalAnswered,
         HandleAccepted
<1>2. CASE UNCHANGED toClient
  BY <1>1, <1>2 DEF Recancels, Cancelling
<1>3. CASE SendGoal(g)
  <2>1. SendToClient("GOAL", g)
    BY <1>3 DEF SendGoal
  <2>2. \A h \in Goals : In(Mail("CANCEL", h), toClient') => In(Mail("CANCEL", h), toClient)
    BY <2>1, SentToClient, MailApart
  <2> QED
    BY <1>1, <2>2 DEF Recancels, Cancelling
<1>4. CASE SendToClient("CANCEL", g) /\ GivenUp(g)'
  <2>1. \A h \in Goals : In(Mail("CANCEL", h), toClient') => In(Mail("CANCEL", h), toClient) \/ h = g
    BY <1>4, SentToClient, MailApart
  <2> QED
    BY <1>1, <1>4, <2>1 DEF Recancels, Cancelling, Reason
<1>5. CASE GoalTimeout(g) \/ (HandleAccepted(g) /\ ~UNCHANGED toClient)
  <2>1. SendToClient("CANCEL", g) /\ goalCall[g] # "returned"
    BY <1>5 DEF GoalTimeout, HandleAccepted
  <2>2. goalCall'[g] = "returned" /\ UNCHANGED worker
    BY <1>5 DEF GoalTimeout, HandleAccepted, ReturnGoal, TypeOK
  <2> QED
    BY <1>4, <2>1, <2>2 DEF Workers, GivenUp
<1> QED
  BY <1>2, <1>3, <1>5 DEF BeginGoal, GoalStep, WaitGoal, GoalStopped, GoalAnswered

\* The cancel callback is a cancel request.
LEMMA CancelCancels ==
  ASSUME TypeOK, Reasons, NEW g \in Goals, BeginCancel(g) \/ CancelStep(g)
  PROVE  \A h \in Goals : Recancels(h)
<1>1. UNCHANGED <<clientQueue, cancelAsked, canceling, remote>>
  BY DEF BeginCancel, CancelStep, SendCancel, WaitCancel, CancelTimeout, CancelStopped,
         CancelAnswered
<1>2. CASE BeginCancel(g)
  <2>1. /\ cancels'[g] > 0 /\ UNCHANGED toClient
        /\ \A h \in Goals : h # g => cancelCall'[h] = cancelCall[h]
    BY <1>2 DEF BeginCancel, TypeOK
  <2> QED
    BY <1>1, <2>1 DEF Recancels, Cancelling, Reason
<1>3. CASE SendCancel(g)
  <2>1. /\ cancelCall[g] = "found"
        /\ \A h \in Goals : cancelCall'[h] = "found" => cancelCall[h] = "found"
        /\ UNCHANGED toClient \/ SendToClient("CANCEL", g)
    BY <1>3 DEF SendCancel, ReturnCancel, TypeOK
  <2>2. \A h \in Goals : In(Mail("CANCEL", h), toClient') => In(Mail("CANCEL", h), toClient) \/ h = g
    BY <2>1, SentToClient, MailApart
  <2> QED
    BY <1>1, <2>1, <2>2 DEF Recancels, Cancelling
<1>4. CASE WaitCancel(g) \/ CancelTimeout(g) \/ CancelStopped(g) \/ CancelAnswered(g)
  <2>1. /\ \A h \in Goals : cancelCall'[h] = "found" => cancelCall[h] = "found"
        /\ UNCHANGED toClient
    BY <1>4 DEF WaitCancel, CancelTimeout, CancelStopped, CancelAnswered, ReturnCancel, TypeOK
  <2> QED
    BY <1>1, <2>1 DEF Recancels, Cancelling
<1> QED
  BY <1>2, <1>3, <1>4 DEF CancelStep

\* What the ActionClient does with a message...
LEMMA HandleCancels ==
  ASSUME TypeOK, Stages, NEW g \in Goals, HandleGoal(g) \/ HandleCancel(g)
  PROVE  \A h \in Goals : Recancels(h)
<1>1. /\ toClient # <<>> /\ toClient' = Tail(toClient)
      /\ UNCHANGED <<cancelAsked, canceling, remote, cancelCall>>
  BY DEF HandleGoal, HandleCancel
<1>2. In(Head(toClient), toClient) /\ \A m : In(m, toClient') => In(m, toClient)
  BY <1>1, TakenOnce DEF Stages
<1>3. \A h \in Goals : In("CANCEL", clientQueue'[h]) =>
        In("CANCEL", clientQueue[h]) \/ In(Mail("CANCEL", h), toClient)
  <2>1. CASE HandleGoal(g)
    <3>1. \A h \in Goals : clientQueue'[h] = clientQueue[h] \/ clientQueue'[h] = <<"GOAL">>
      BY <2>1 DEF HandleGoal, TypeOK
    <3> QED
      BY <3>1, NewQueue
  <2>2. CASE HandleCancel(g)
    <3>1. /\ Head(toClient) = Mail("CANCEL", g)
          /\ \A h \in Goals : h # g => clientQueue'[h] = clientQueue[h]
      BY <2>2 DEF HandleCancel, Mail, TypeOK
    <3> QED
      BY <1>2, <3>1
  <2> QED
    BY <2>1, <2>2
<1> QED
  BY <1>1, <1>2, <1>3 DEF Recancels, Cancelling

\* ...and the thread of a goal.
LEMMA ThreadCancels ==
  ASSUME TypeOK, Stages, NEW g \in Goals, ThreadStep(g) \/ ThreadDone(g)
  PROVE  \A h \in Goals : Recancels(h)
<1>1. UNCHANGED <<toClient, canceling, cancelCall, clientStop>>
  BY DEF ThreadStep, ThreadLoops, ThreadStops, ThreadDone, TakeGoal, RejectGoal, StopGoal, GiveUpGoal,
         CallAction, TakeCancel
<1>2. CASE ThreadLoops(g) \/ ThreadDone(g) \/ RejectGoal(g) \/ StopGoal(g)
  BY <1>1, <1>2
     DEF ThreadLoops, ThreadDone, RejectGoal, StopGoal, GiveUpGoal, Recancels, Cancelling
<1>3. CASE ThreadStops(g)
  <2>1. /\ clientStopping /\ cancelAsked' \subseteq cancelAsked \cup {g}
        /\ UNCHANGED <<clientQueue, remote>>
    BY <1>3 DEF ThreadStops, executeCancel
  <2> QED
    BY <1>1, <2>1 DEF Recancels, Cancelling, Reason, clientStopping
<1>4. CASE CallAction(g)
  <2>1. /\ \A h \in Goals : remote'[h] = "CANCELED" => remote[h] = "CANCELED"
        /\ UNCHANGED <<clientQueue, cancelAsked>>
    BY <1>4 DEF CallAction, TypeOK
  <2> QED
    BY <1>1, <2>1 DEF Recancels, Cancelling
<1>5. CASE TakeGoal(g) \/ TakeCancel(g)
  <2>1. /\ clientQueue[g] # <<>> /\ clientQueue' = [clientQueue EXCEPT ![g] = Tail(@)]
        /\ UNCHANGED remote
        /\ \/ UNCHANGED cancelAsked
           \/ Head(clientQueue[g]) = "CANCEL" /\ cancelAsked' \subseteq cancelAsked \cup {g}
    BY <1>5 DEF TakeGoal, TakeCancel, Takes, executeCancel
  <2>2. clientQueue[g] \in Seq({"GOAL", "CANCEL"}) /\ GoalFirst(clientQueue[g])
    BY DEF TypeOK, Stages, Staged
  <2>3. In(Head(clientQueue[g]), clientQueue[g]) /\ \A m : In(m, Tail(clientQueue[g])) => In(m, clientQueue[g])
    BY <2>1, <2>2, ClientQueues
  <2>4. \A h \in Goals : In("CANCEL", clientQueue'[h]) => In("CANCEL", clientQueue[h])
    BY <2>1, <2>3 DEF TypeOK
  <2> QED
    BY <1>1, <2>1, <2>3, <2>4 DEF Recancels, Cancelling
<1> QED
  BY <1>2, <1>3, <1>4, <1>5 DEF ThreadStep

\* The real action cancels what it was asked to cancel.
LEMMA RemoteCancels ==
  ASSUME TypeOK, NEW g \in Goals, RemoteStep(g)
  PROVE  \A h \in Goals : Recancels(h)
<1>1. UNCHANGED <<toClient, clientQueue, cancelCall>>
  BY DEF RemoteStep, goalAccepted, goalRejected, feedback, sendResult, cancelAccepted,
         cancelRejected, Callback
<1>2. \A h \in Goals : /\ h \in cancelAsked' => h \in cancelAsked
                       /\ h \in canceling' => h \in canceling \cup cancelAsked
  BY DEF RemoteStep, goalAccepted, goalRejected, feedback, sendResult, cancelAccepted,
         cancelRejected
<1>3. \A h \in Goals : remote'[h] = "CANCELED" => remote[h] = "CANCELED" \/ h \in canceling
  BY DEF RemoteStep, goalAccepted, goalRejected, feedback, sendResult, cancelAccepted,
         cancelRejected, TypeOK
<1> QED
  BY <1>1, <1>2, <1>3 DEF Recancels, Cancelling

\* The other steps.
LEMMA QuietCancels ==
  ASSUME UNCHANGED <<toClient, clientQueue, cancelAsked, canceling, remote, cancelCall>>
  PROVE  \A h \in Goals : Recancels(h)
BY DEF Recancels, Cancelling

\* Every step keeps the reasons.
LEMMA ReasonsKept == TypeOK /\ Stages /\ Workers /\ Reasons /\ [Next]_vars => Reasons'
<1> SUFFICES ASSUME TypeOK, Stages, Workers, Reasons, [Next]_vars PROVE Reasons'
  OBVIOUS
<1> DEFINE Fine == \A h \in Goals : Recancels(h)
<1>1. ASSUME NEW g \in Goals, BeginGoal(g) \/ GoalStep(g) PROVE Fine
  BY <1>1, GoalCancels
<1>2. ASSUME NEW g \in Goals, BeginCancel(g) \/ CancelStep(g) PROVE Fine
  BY <1>2, CancelCancels
<1>3. ASSUME NEW g \in Goals, WorkerStep(g) PROVE Fine
  BY <1>3, QuietCancels DEF WorkerStep, WorkerLoops, TakeFeedback, TakeResult, WorkerStops
<1>4. ASSUME NEW g \in Goals, ThreadStep(g) \/ ThreadDone(g) PROVE Fine
  BY <1>4, ThreadCancels
<1>5. ASSUME NEW g \in Goals, RemoteStep(g) PROVE Fine
  BY <1>5, RemoteCancels
<1>6. ASSUME NEW g \in Goals, HandleGoal(g) \/ HandleCancel(g) PROVE Fine
  BY <1>6, HandleCancels
<1>7. ASSUME \/ HandleAtServer \/ ServerJoins \/ ServerErases \/ ServerFlags \/ ServerStops
             \/ ClientRemoves \/ ClientFlags \/ ClientStops \/ UNCHANGED vars
      PROVE  Fine
  BY <1>7, QuietCancels
     DEF HandleAtServer, ServerJoins, ServerErases, ServerFlags, ServerStops, ClientRemoves,
         ClientFlags, ClientStops, vars
<1> HIDE DEF Fine
<1>8. Fine
  BY <1>1, <1>2, <1>3, <1>4, <1>5, <1>6, <1>7 DEF Next, HandleAtClient
<1>9. \A g \in Goals : Reason(g) => Reason(g)'
  BY WorkersKept
<1> QED
  BY <1>8, <1>9, ReasonsStay DEF Fine

----------------------------------------------------------------------------
(* Executing goals are served.                                             *)

\* A goal is awaited from its sending to the end of its thread.
Awaited(g) == goalCall[g] \in {"sent", "waiting", "accepted"} \/ Executing(g)

\* The callbacks of a goal follow one another.
Turns(g) ==
  /\ goalResult[g] = "accept" => goalCall[g] \in {"accepted", "returned"}
  /\ goalCall[g] = "accepted" \/ Executing(g) => goalResult[g] = "accept"
  /\ ~Simultaneous /\ cancelCall[g] \notin {"idle", "returned"} => goalCall[g] = "returned"

\* An accepted goal was answered by the real action.
Heard(g) ==
  \/ In(Mail("GOAL_ACCEPT", g), toServer)
  \/ goalResponse[g] # None /\ goalResponse[g] = "GOAL_ACCEPT"
  \/ goalResult[g] = "accept"

Answers == \A g \in Goals : Turns(g) /\ (Heard(g) => remote[g] \notin {"idle", "requested"})

\* Nobody removes the handle of a goal before its end...
Kept(g) ==
  /\ Awaited(g) => g \in serverHandles
  /\ Awaited(g) \/ goalCall[g] \in {"idle", "checked"} => ~In(g, serverRemove) /\ removing # g

\* ...so that its result, when there is one, is under way or stored.
Owed(g) == \E o \in Outcomes : In(Mail(o, g), toServer) \/ In(o, waitQueue[g])

\* One callback at a time, and no stop.
OneAtATime == ~Simultaneous /\ ~serverStopping

Handles == OneAtATime => \A g \in Goals : Kept(g)
Debts == OneAtATime => \A g \in Goals : Awaited(g) /\ remote[g] \in Outcomes => Owed(g)

\* All of it is inductive.
JInv == IInv /\ Answers /\ Handles /\ Debts

\* Tail takes only the head away.
LEMMA Behind ==
  ASSUME NEW S, NEW s \in Seq(S), s # <<>>
  PROVE  \A m : In(m, s) => m = Head(s) \/ In(m, Tail(s))
<1> SUFFICES ASSUME NEW m, NEW i \in DOMAIN s, s[i] = m, i # 1
             PROVE  In(m, Tail(s))
  BY DEF In
<1>1. i - 1 \in DOMAIN Tail(s) /\ Tail(s)[i - 1] = m
  OBVIOUS
<1> QED
  BY <1>1 DEF In

\* The callbacks of a goal keep their turns.
LEMMA TurnsKept ==
  ASSUME TypeOK, Workers, \A g \in Goals : Turns(g), [Next]_vars
  PROVE  \A g \in Goals : Turns(g)'
<1> DEFINE Fine == \A g \in Goals : Turns(g)'
<1> USE DEF TypeOK, Workers, Turns, Executing
<1>1. ASSUME NEW g \in Goals,
             BeginGoal(g) \/ SendGoal(g) \/ WaitGoal(g) \/ GoalTimeout(g) \/ GoalStopped(g)
               \/ GoalAnswered(g)
      PROVE  Fine
  <2>1. /\ goalCall[g] \in {"idle", "checked", "sent", "waiting"}
        /\ \A h \in Goals : h # g => goalCall'[h] = goalCall[h] /\ goalResult'[h] = goalResult[h]
        /\ UNCHANGED <<worker, cancelCall>>
    BY <1>1 DEF BeginGoal, SendGoal, WaitGoal, GoalTimeout, GoalStopped, GoalAnswered, ReturnGoal
  <2>2. \/ goalResult'[g] = "accept" /\ goalCall'[g] = "accepted"
        \/ goalResult'[g] \in {goalResult[g], "reject", "timeout"} /\ goalCall'[g] # "accepted"
    BY <1>1 DEF BeginGoal, SendGoal, WaitGoal, GoalTimeout, GoalStopped, GoalAnswered, ReturnGoal
  <2> QED
    BY <2>1, <2>2
<1>2. ASSUME NEW g \in Goals, HandleAccepted(g) PROVE Fine
  <2>1. /\ goalCall[g] = "accepted" /\ goalCall' = [goalCall EXCEPT ![g] = "returned"]
        /\ UNCHANGED <<goalResult, cancelCall>>
        /\ worker' \in {worker, [worker EXCEPT ![g] = "looping"]}
    BY <1>2 DEF HandleAccepted
  <2> QED
    BY <2>1
<1>3. ASSUME NEW g \in Goals, BeginCancel(g) PROVE Fine
  <2>1. /\ goalResult[g] = "accept" /\ \E x : cancelCall' = [cancelCall EXCEPT ![g] = x]
        /\ UNCHANGED <<goalCall, goalResult, worker>>
    BY <1>3 DEF BeginCancel
  <2>2. ~Simultaneous => goalCall[g] \in {"idle", "returned"}
    BY <1>3 DEF BeginCancel, Runnable, Busy
  <2> QED
    BY <2>1, <2>2
<1>4. ASSUME NEW g \in Goals, CancelStep(g) PROVE Fine
  <2>1. /\ cancelCall[g] \notin {"idle", "returned"}
        /\ \E x : cancelCall' = [cancelCall EXCEPT ![g] = x]
        /\ UNCHANGED <<goalCall, goalResult, worker>>
    BY <1>4 DEF CancelStep, SendCancel, WaitCancel, CancelTimeout, CancelStopped, CancelAnswered,
                ReturnCancel
  <2> QED
    BY <2>1
<1>5. ASSUME NEW g \in Goals, WorkerStep(g) PROVE Fine
  <2>1. /\ Executing(g) /\ \E x : worker' = [worker EXCEPT ![g] = x]
        /\ UNCHANGED <<goalCall, goalResult, cancelCall>>
    BY <1>5 DEF WorkerStep, WorkerLoops, TakeFeedback, TakeResult, WorkerStops, WorkerEnds
  <2> QED
    BY <2>1
<1>6. ASSUME UNCHANGED <<goalCall, goalResult, worker, cancelCall>> PROVE Fine
  BY <1>6
<1> HIDE DEF Fine
<1>7. ASSUME NEW g \in Goals,
             ThreadStep(g) \/ ThreadDone(g) \/ RemoteStep(g) \/ HandleGoal(g) \/ HandleCancel(g)
      PROVE  Fine
  BY <1>6, <1>7, ClientAlone
<1>8. ASSUME \/ HandleAtServer \/ ServerJoins \/ ServerErases \/ ServerFlags \/ ServerStops
             \/ ClientRemoves \/ ClientFlags \/ ClientStops \/ UNCHANGED vars
      PROVE  Fine
  BY <1>6, <1>8
     DEF HandleAtServer, ServerJoins, ServerErases, ServerFlags, ServerStops, ClientRemoves,
         ClientFlags, ClientStops, vars
<1>9. Fine
  BY <1>1, <1>2, <1>3, <1>4, <1>5, <1>7, <1>8 DEF Next, GoalStep, HandleAtClient
<1> QED
  BY <1>9 DEF Fine

\* A step after which a goal is heard of only if the real action has answered.
Hears(g) ==
  /\ Heard(g)' => Heard(g) \/ remote'[g] \notin {"idle", "requested"}
  /\ remote'[g] \in {"idle", "requested"} => remote[g] \in {"idle", "requested"}

\* What is sent to the ActionServer, an acceptance apart.
LEMMA NoAcceptance ==
  ASSUME TypeOK, NEW g \in Goals,
         NEW op \in {"GOAL_REJECT", "CANCEL_ACCEPT", "CANCEL_REJECT", "FEEDBACK"} \cup Outcomes,
         SendToServer(op, g)
  PROVE  \A h \in Goals : In(Mail("GOAL_ACCEPT", h), toServer') => In(Mail("GOAL_ACCEPT", h), toServer)
<1>1. \A m : In(m, toServer') <=> In(m, toServer) \/ m = Mail(op, g)
  BY SentToServer
<1> QED
  BY <1>1, MailApart DEF Outcomes

\* The goal callback hears what was stored for it, and the message was under way before.
LEMMA ServerHears ==
  ASSUME TypeOK, NEW g \in Goals,
         BeginGoal(g) \/ GoalStep(g) \/ BeginCancel(g) \/ CancelStep(g) \/ WorkerStep(g)
  PROVE  \A h \in Goals : Hears(h)
<1> USE DEF Hears, Heard, TypeOK
<1>1. CASE GoalAnswered(g)
  BY <1>1 DEF GoalAnswered, ReturnGoal
<1>2. ASSUME BeginGoal(g) \/ GoalStep(g), ~GoalAnswered(g) PROVE \A h \in Goals : Hears(h)
  <2>1. /\ UNCHANGED <<toServer, goalResponse, remote>>
        /\ \A h \in Goals : goalResult'[h] \in {goalResult[h], "reject", "timeout"}
    BY <1>2 DEF BeginGoal, GoalStep, SendGoal, WaitGoal, GoalTimeout, GoalStopped, HandleAccepted,
                ReturnGoal
  <2> QED
    BY <2>1
<1>3. ASSUME BeginCancel(g) \/ CancelStep(g) \/ WorkerStep(g) PROVE \A h \in Goals : Hears(h)
  <2>1. UNCHANGED <<toServer, goalResponse, remote, goalResult>>
    BY <1>3 DEF BeginCancel, CancelStep, SendCancel, WaitCancel, CancelTimeout, CancelStopped,
                CancelAnswered, WorkerStep, WorkerLoops, TakeFeedback, TakeResult, WorkerStops
  <2> QED
    BY <2>1
<1> QED
  BY <1>1, <1>2, <1>3

\* What is delivered was under way.
LEMMA DeliveryHears ==
  ASSUME TypeOK, HandleAtServer
  PROVE  \A h \in Goals : Hears(h)
<1> DEFINE m == Head(toServer)
<1>1. toServer # <<>> /\ toServer' = Tail(toServer) /\ UNCHANGED <<remote, goalResult>>
  BY DEF HandleAtServer
<1>2. In(m, toServer) /\ m \in ToServer /\ \A x : In(x, toServer') => In(x, toServer)
  BY <1>1, TakenFromClient
<1>3. m.goal \in Goals /\ m = Mail(m.op, m.goal)
  BY <1>2 DEF ToServer, Mail
<1>4. UNCHANGED goalResponse \/ goalResponse' = [goalResponse EXCEPT ![m.goal] = m.op]
  BY DEF HandleAtServer, Deliver
<1> HIDE DEF m
<1>5. \A h \in Goals : goalResponse'[h] = goalResponse[h] \/ (h = m.goal /\ goalResponse'[h] = m.op)
  BY <1>3, <1>4 DEF TypeOK
<1> QED
  BY <1>1, <1>2, <1>3, <1>5 DEF Hears, Heard

\* The real action answers before it is heard of.
LEMMA ClientHears ==
  ASSUME TypeOK, Stages, NEW g \in Goals,
         ThreadStep(g) \/ ThreadDone(g) \/ RemoteStep(g) \/ HandleGoal(g) \/ HandleCancel(g)
  PROVE  \A h \in Goals : Hears(h)
<1>1. UNCHANGED <<goalResponse, goalResult>>
  BY ClientAlone
<1>2. CASE CallAction(g)
  <2>1. /\ remote[g] = "idle" /\ remote' = [remote EXCEPT ![g] = "requested"]
        /\ UNCHANGED toServer
    BY <1>2 DEF CallAction, Stages, Staged
  <2> QED
    BY <1>1, <2>1 DEF Hears, Heard, TypeOK
<1>3. CASE goalAccepted(g) \/ goalRejected(g)
  <2>1. /\ SendToServer("GOAL_ACCEPT", g)
        /\ \E x \in {"active", "rejected"} : remote' = [remote EXCEPT ![g] = x]
    BY <1>3 DEF goalAccepted, goalRejected
  <2>2. \A x : In(x, toServer') <=> In(x, toServer) \/ x = Mail("GOAL_ACCEPT", g)
    BY <2>1, SentToServer
  <2>3. \A h \in Goals : h # g => (In(Mail("GOAL_ACCEPT", h), toServer') <=> In(Mail("GOAL_ACCEPT", h), toServer))
    BY <2>2, MailApart
  <2> QED
    BY <1>1, <2>1, <2>3 DEF Hears, Heard, TypeOK
<1>4. ASSUME ~CallAction(g), ~(goalAccepted(g) \/ goalRejected(g))
      PROVE  \A h \in Goals : Hears(h)
  <2>1. UNCHANGED remote \/ \E x \in Outcomes : remote' = [remote EXCEPT ![g] = x]
    BY <1>4 DEF ThreadStep, ThreadLoops, ThreadStops, ThreadDone, TakeGoal, RejectGoal, StopGoal,
                GiveUpGoal, TakeCancel, RemoteStep, feedback, sendResult, cancelAccepted,
                cancelRejected, HandleGoal, HandleCancel
  <2>2. UNCHANGED toServer
        \/ \E op \in {"GOAL_REJECT", "CANCEL_ACCEPT", "CANCEL_REJECT", "FEEDBACK"} \cup Outcomes :
             SendToServer(op, g)
    BY <1>4 DEF ThreadStep, ThreadLoops, ThreadStops, ThreadDone, TakeGoal, RejectGoal, StopGoal,
                GiveUpGoal, TakeCancel, RemoteStep, feedback, sendResult, cancelAccepted,
                cancelRejected, HandleGoal, HandleCancel
  <2>3. \A h \in Goals : In(Mail("GOAL_ACCEPT", h), toServer') => In(Mail("GOAL_ACCEPT", h), toServer)
    BY <2>2, NoAcceptance
  <2>4. \A h \in Goals : remote'[h] \in {remote[h]} \cup Outcomes
    BY <2>1 DEF TypeOK
  <2> QED
    BY <1>1, <2>3, <2>4 DEF Hears, Heard, Outcomes
<1> QED
  BY <1>2, <1>3, <1>4, Zenon

\* Every step keeps the turns and what is heard.
LEMMA AnswersKept == TypeOK /\ Stages /\ Workers /\ Answers /\ [Next]_vars => Answers'
<1> SUFFICES ASSUME TypeOK, Stages, Workers, Answers, [Next]_vars PROVE Answers'
  OBVIOUS
<1>1. \A g \in Goals : Turns(g)'
  BY TurnsKept DEF Answers
<1>2. ASSUME \/ ServerJoins \/ ServerErases \/ ServerFlags \/ ServerStops
             \/ ClientRemoves \/ ClientFlags \/ ClientStops \/ UNCHANGED vars
      PROVE  \A h \in Goals : Hears(h)
  <2>1. UNCHANGED <<toServer, goalResponse, goalResult, remote>>
    BY <1>2 DEF ServerJoins, ServerErases, ServerFlags, ServerStops, ClientRemoves, ClientFlags,
                ClientStops, vars
  <2> QED
    BY <2>1 DEF Hears, Heard
<1>3. \A h \in Goals : Hears(h)
  BY <1>2, ServerHears, DeliveryHears, ClientHears DEF Next, HandleAtClient
<1> QED
  BY <1>1, <1>3 DEF Answers, Hears

\* A goal is awaited from its sending on, and then its callbacks do not begin again.
Begins(g) ==
  /\ Awaited(g)' => Awaited(g) \/ (goalCall[g] = "checked" /\ g \in serverHandles')
  /\ goalCall'[g] \in {"idle", "checked"} => goalCall[g] \in {"idle", "checked"}

\* So it is after every step.
LEMMA EveryBeginning ==
  ASSUME TypeOK, Workers, [Next]_vars
  PROVE  \A g \in Goals : Begins(g)
<1> DEFINE Fine == \A g \in Goals : Begins(g)
<1> USE DEF TypeOK, Begins, Awaited, Executing
<1>1. ASSUME NEW g \in Goals,
             BeginGoal(g) \/ WaitGoal(g) \/ GoalTimeout(g) \/ GoalStopped(g) \/ GoalAnswered(g)
      PROVE  Fine
  BY <1>1 DEF BeginGoal, WaitGoal, GoalTimeout, GoalStopped, GoalAnswered, ReturnGoal
<1>2. ASSUME NEW g \in Goals, SendGoal(g) PROVE Fine
  BY <1>2 DEF SendGoal
<1>3. ASSUME NEW g \in Goals, HandleAccepted(g) PROVE Fine
  BY <1>3 DEF HandleAccepted
<1>4. ASSUME NEW g \in Goals, WorkerStep(g) PROVE Fine
  <2>1. /\ Executing(g) /\ \E x : worker' = [worker EXCEPT ![g] = x]
        /\ UNCHANGED goalCall
    BY <1>4 DEF WorkerStep, WorkerLoops, TakeFeedback, TakeResult, WorkerStops, WorkerEnds
  <2> QED
    BY <2>1
<1>5. ASSUME UNCHANGED <<goalCall, worker>> PROVE Fine
  BY <1>5
<1> HIDE DEF Fine
<1>6. ASSUME NEW g \in Goals, BeginCancel(g) \/ CancelStep(g) PROVE Fine
  BY <1>5, <1>6 DEF BeginCancel, CancelStep, SendCancel, WaitCancel, CancelTimeout, CancelStopped,
                    CancelAnswered
<1>7. ASSUME NEW g \in Goals,
             ThreadStep(g) \/ ThreadDone(g) \/ RemoteStep(g) \/ HandleGoal(g) \/ HandleCancel(g)
      PROVE  Fine
  BY <1>5, <1>7, ClientAlone
<1>8. ASSUME \/ HandleAtServer \/ ServerJoins \/ ServerErases \/ ServerFlags \/ ServerStops
             \/ ClientRemoves \/ ClientFlags \/ ClientStops \/ UNCHANGED vars
      PROVE  Fine
  BY <1>5, <1>8
     DEF HandleAtServer, ServerJoins, ServerErases, ServerFlags, ServerStops, ClientRemoves,
         ClientFlags, ClientStops, vars
<1>9. Fine
  BY <1>1, <1>2, <1>3, <1>4, <1>6, <1>7, <1>8 DEF Next, GoalStep, HandleAtClient
<1> QED
  BY <1>9 DEF Fine

\* A stop is for good.
LEMMA StopStays == TypeOK /\ [Next]_vars /\ OneAtATime' => OneAtATime
<1> SUFFICES ASSUME TypeOK, [Next]_vars PROVE serverStop' = "running" => serverStop = "running"
  BY DEF OneAtATime, serverStopping
<1>1. ASSUME NEW g \in Goals,
             BeginGoal(g) \/ GoalStep(g) \/ BeginCancel(g) \/ CancelStep(g) \/ WorkerStep(g)
      PROVE  UNCHANGED serverStop
  BY <1>1 DEF BeginGoal, GoalStep, SendGoal, WaitGoal, GoalTimeout, GoalStopped, GoalAnswered,
              HandleAccepted, BeginCancel, CancelStep, SendCancel, WaitCancel,
              CancelTimeout, CancelStopped, CancelAnswered, WorkerStep, WorkerLoops,
              TakeFeedback, TakeResult, WorkerStops
<1>2. ASSUME NEW g \in Goals,
             ThreadStep(g) \/ ThreadDone(g) \/ RemoteStep(g) \/ HandleGoal(g) \/ HandleCancel(g)
      PROVE  UNCHANGED serverStop
  BY <1>2, ClientAlone
<1>3. ASSUME ServerFlags \/ ServerStops PROVE serverStop' # "running" \/ UNCHANGED serverStop
  BY <1>3 DEF ServerFlags, ServerStops
<1>4. ASSUME \/ HandleAtServer \/ ServerJoins \/ ServerErases
             \/ ClientRemoves \/ ClientFlags \/ ClientStops \/ UNCHANGED vars
      PROVE  UNCHANGED serverStop
  BY <1>4 DEF HandleAtServer, ServerJoins, ServerErases, ClientRemoves, ClientFlags, ClientStops, vars
<1> QED
  BY <1>1, <1>2, <1>3, <1>4 DEF Next, HandleAtClient

\* What takes no handle keeps all...
LEMMA NoneRemoved ==
  ASSUME \A h \in Goals : Kept(h) /\ Begins(h),
         serverHandles \subseteq serverHandles', UNCHANGED <<serverRemove, removing>>
  PROVE  \A h \in Goals : Kept(h)'
BY DEF Kept, Begins

\* ...and what queues the handle of a goal that has ended keeps the others.
LEMMA EndedRemoved ==
  ASSUME TypeOK, \A h \in Goals : Kept(h) /\ Begins(h),
         NEW g \in Goals, goalCall'[g] = "returned", ~Awaited(g)',
         serverRemove' = Append(serverRemove, g), UNCHANGED <<serverHandles, removing>>
  PROVE  \A h \in Goals : Kept(h)'
<1>1. \A m : In(m, serverRemove') <=> In(m, serverRemove) \/ m = g
  BY Members DEF TypeOK
<1> QED
  BY <1>1 DEF Kept, Begins

\* The callbacks and the thread of a goal queue its handle at the end.
LEMMA CallbacksKeep ==
  ASSUME TypeOK, Workers, Answers, OneAtATime, \A h \in Goals : Kept(h) /\ Begins(h),
         NEW g \in Goals,
         BeginGoal(g) \/ GoalStep(g) \/ BeginCancel(g) \/ CancelStep(g) \/ WorkerStep(g)
  PROVE  \A h \in Goals : Kept(h)'
<1> USE DEF OneAtATime
<1>1. CASE GoalTimeout(g) \/ (GoalAnswered(g) /\ goalResponse[g] # "GOAL_ACCEPT")
  <2>1. /\ goalCall[g] = "waiting" /\ goalCall' = [goalCall EXCEPT ![g] = "returned"]
        /\ serverRemove' = Append(serverRemove, g)
        /\ UNCHANGED <<serverHandles, removing, worker>>
    BY <1>1 DEF GoalTimeout, GoalAnswered, ReturnGoal, removeHandle
  <2>2. goalCall'[g] = "returned" /\ worker'[g] = "none"
    BY <2>1 DEF TypeOK, Workers
  <2> QED
    BY <2>1, <2>2, EndedRemoved DEF Awaited, Executing
<1>2. ASSUME BeginGoal(g) \/ GoalStep(g), ~GoalTimeout(g),
             ~(GoalAnswered(g) /\ goalResponse[g] # "GOAL_ACCEPT")
      PROVE  \A h \in Goals : Kept(h)'
  <2>1. serverHandles \subseteq serverHandles' /\ UNCHANGED <<serverRemove, removing>>
    BY <1>2 DEF BeginGoal, GoalStep, SendGoal, WaitGoal, GoalStopped, GoalAnswered, HandleAccepted,
                serverStopping
  <2> QED
    BY <2>1, NoneRemoved
<1>3. CASE CancelAnswered(g) /\ ~UNCHANGED serverRemove
  <2>1. /\ cancelCall[g] = "waiting" /\ ~handlingWait(g)
        /\ serverRemove' = Append(serverRemove, g)
        /\ UNCHANGED <<goalCall, worker, serverHandles, removing>>
    BY <1>3 DEF CancelAnswered, RemoveUnlessWaiting, removeHandle
  <2>2. goalCall[g] = "returned"
    BY <2>1 DEF Answers, Turns
  <2>3. ~Awaited(g)'
    BY <2>1, <2>2 DEF Awaited, Executing, handlingWait
  <2> QED
    BY <2>1, <2>2, <2>3, EndedRemoved
<1>4. ASSUME BeginCancel(g) \/ CancelStep(g), ~(CancelAnswered(g) /\ ~UNCHANGED serverRemove)
      PROVE  \A h \in Goals : Kept(h)'
  <2>1. UNCHANGED <<serverHandles, serverRemove, removing>>
    BY <1>4 DEF BeginCancel, CancelStep, SendCancel, WaitCancel, CancelTimeout, CancelStopped,
                CancelAnswered, serverStopping
  <2> QED
    BY <2>1, NoneRemoved
<1>5. CASE TakeResult(g)
  <2>1. /\ worker[g] = "waiting" /\ worker' = [worker EXCEPT ![g] = "exited"]
        /\ serverRemove' = Append(serverRemove, g)
        /\ UNCHANGED <<goalCall, serverHandles, removing>>
    BY <1>5 DEF TakeResult, WorkerEnds, removeHandle
  <2>2. goalCall[g] = "returned" /\ worker'[g] = "exited"
    BY <2>1 DEF TypeOK, Workers
  <2> QED
    BY <2>1, <2>2, EndedRemoved DEF Awaited, Executing
<1>6. ASSUME WorkerStep(g), ~TakeResult(g) PROVE \A h \in Goals : Kept(h)'
  <2>1. UNCHANGED <<serverHandles, serverRemove, removing>>
    BY <1>6 DEF WorkerStep, WorkerLoops, TakeFeedback, WorkerStops, serverStopping
  <2> QED
    BY <2>1, NoneRemoved
<1> QED
  BY <1>1, <1>2, <1>3, <1>4, <1>5, <1>6

\* executeRemove erases what was queued.
LEMMA RemovalKeepsHandles ==
  ASSUME TypeOK, \A h \in Goals : Kept(h) /\ Begins(h), ServerJoins \/ ServerErases
  PROVE  \A h \in Goals : Kept(h)'
<1>1. CASE ServerJoins
  <2>1. /\ serverRemove # <<>> /\ serverRemove' = Tail(serverRemove)
        /\ removing' = Head(serverRemove)
        /\ UNCHANGED <<serverHandles, goalCall, worker>>
    BY <1>1 DEF ServerJoins
  <2>2. serverRemove \in Seq(Goals)
    BY DEF TypeOK
  <2>3. /\ In(Head(serverRemove), serverRemove)
        /\ \A m : In(m, serverRemove') => In(m, serverRemove)
    BY <2>1, <2>2 DEF In
  <2> QED
    BY <2>1, <2>3 DEF Kept, Awaited, Executing
<1>2. CASE ServerErases
  <2>1. /\ serverHandles' = serverHandles \ {removing} /\ removing' = None
        /\ UNCHANGED <<serverRemove, goalCall, worker>>
    BY <1>2 DEF ServerErases
  <2> QED
    BY <2>1, BridgeAssumption DEF Kept, Awaited, Executing
<1> QED
  BY <1>1, <1>2

\* With one callback at a time, every step keeps the handles...
LEMMA HandlesKept == TypeOK /\ Workers /\ Answers /\ Handles /\ [Next]_vars => Handles'
<1> SUFFICES ASSUME TypeOK, Workers, Answers, Handles, [Next]_vars, OneAtATime'
             PROVE  \A h \in Goals : Kept(h)'
  BY DEF Handles
<1>1. OneAtATime /\ \A h \in Goals : Kept(h) /\ Begins(h)
  BY StopStays, EveryBeginning DEF Handles
<1>2. ASSUME NEW g \in Goals,
             ThreadStep(g) \/ ThreadDone(g) \/ RemoteStep(g) \/ HandleGoal(g) \/ HandleCancel(g)
      PROVE  \A h \in Goals : Kept(h)'
  <2>1. UNCHANGED removeVars
    BY <1>2, ClientAlone
  <2> QED
    BY <1>1, <2>1, NoneRemoved
<1>3. ASSUME HandleAtServer \/ ClientRemoves \/ ClientFlags \/ ClientStops \/ UNCHANGED vars
      PROVE  \A h \in Goals : Kept(h)'
  <2>1. UNCHANGED removeVars
    BY <1>3 DEF HandleAtServer, ClientRemoves, ClientFlags, ClientStops, vars
  <2> QED
    BY <1>1, <2>1, NoneRemoved
<1>4. ASSUME ServerFlags \/ ServerStops PROVE FALSE
  <2>1. serverStop = "stopping" \/ serverStop' = "stopping"
    BY <1>4 DEF ServerFlags, ServerStops
  <2> QED
    BY <1>1, <2>1 DEF OneAtATime, serverStopping
<1> QED
  BY <1>1, <1>2, <1>3, <1>4, CallbacksKeep, RemovalKeepsHandles DEF Next, HandleAtClient

\* A step that leaves an awaited goal with a result...
Pays(g) ==
  Awaited(g)' /\ remote'[g] \in Outcomes =>
    Owed(g)' \/ (remote[g] \in Outcomes /\ (Awaited(g) /\ Owed(g) => Owed(g)'))

\* ...because it takes nothing away,
LEMMA NothingTaken ==
  ASSUME \A h \in Goals : remote'[h] \in Outcomes => remote[h] \in Outcomes,
         \A m : In(m, toServer) => In(m, toServer'), UNCHANGED waitQueue
  PROVE  \A h \in Goals : Pays(h)
BY DEF Pays, Owed

\* ...because the result is sent,
LEMMA ClientPays ==
  ASSUME TypeOK, NEW g \in Goals,
         ThreadStep(g) \/ ThreadDone(g) \/ RemoteStep(g) \/ HandleGoal(g) \/ HandleCancel(g)
  PROVE  \A h \in Goals : Pays(h)
<1>1. UNCHANGED waitQueue
  BY ClientAlone
<1>2. UNCHANGED toServer
      \/ \E op \in {"GOAL_ACCEPT", "GOAL_REJECT", "CANCEL_ACCEPT", "CANCEL_REJECT", "FEEDBACK"}
                    \cup Outcomes : SendToServer(op, g)
  BY DEF ThreadStep, ThreadLoops, ThreadStops, ThreadDone, TakeGoal, RejectGoal, StopGoal,
         GiveUpGoal, CallAction, TakeCancel, RemoteStep, goalAccepted, goalRejected, feedback,
         sendResult, cancelAccepted, cancelRejected, HandleGoal, HandleCancel
<1>3. \A m : In(m, toServer) => In(m, toServer')
  BY <1>2, SentToServer
<1>4. CASE sendResult(g)
  <2>1. PICK o \in Outcomes : remote' = [remote EXCEPT ![g] = o] /\ SendToServer(o, g)
    BY <1>4 DEF sendResult
  <2>2. In(Mail(o, g), toServer')
    BY <2>1, SentToServer
  <2>3. \A h \in Goals : h = g \/ remote'[h] = remote[h]
    BY <2>1 DEF TypeOK
  <2> QED
    BY <1>1, <1>3, <2>2, <2>3 DEF Pays, Owed
<1>5. ASSUME ~sendResult(g) PROVE \A h \in Goals : Pays(h)
  <2>1. UNCHANGED remote
        \/ \E x \in {"requested", "active", "rejected"} : remote' = [remote EXCEPT ![g] = x]
    BY <1>5 DEF ThreadStep, ThreadLoops, ThreadStops, ThreadDone, TakeGoal, RejectGoal, StopGoal,
                GiveUpGoal, CallAction, TakeCancel, RemoteStep, goalAccepted, goalRejected,
                feedback, cancelAccepted, cancelRejected, HandleGoal, HandleCancel
  <2>2. \A h \in Goals : remote'[h] \in Outcomes => remote[h] \in Outcomes
    BY <2>1 DEF TypeOK, Outcomes
  <2> QED
    BY <1>1, <1>3, <2>2, NothingTaken
<1> QED
  BY <1>4, <1>5

\* ...because it is stored for a goal that has its handle,
LEMMA DeliveryPays ==
  ASSUME TypeOK, \A h \in Goals : Kept(h), HandleAtServer
  PROVE  \A h \in Goals : Pays(h)
<1> DEFINE m == Head(toServer)
<1>1. /\ toServer # <<>> /\ toServer' = Tail(toServer)
      /\ UNCHANGED <<remote, serverHandles, goalCall, worker>>
  BY DEF HandleAtServer
<1>2. toServer \in Seq(ToServer) /\ m \in ToServer
  BY <1>1, TakenFromClient DEF TypeOK
<1>3. \A x : In(x, toServer) => x = m \/ In(x, toServer')
  BY <1>1, <1>2, Behind
<1>4. m.goal \in Goals /\ m = Mail(m.op, m.goal)
  BY <1>2 DEF ToServer, Mail
<1>5. /\ UNCHANGED waitQueue \/ waitQueue' = [waitQueue EXCEPT ![m.goal] = Append(@, m.op)]
      /\ m.goal \in serverHandles /\ m.op \in Outcomes
           => waitQueue' = [waitQueue EXCEPT ![m.goal] = Append(@, m.op)]
      /\ ~UNCHANGED waitQueue
           => m.op \notin {"GOAL_ACCEPT", "GOAL_REJECT", "CANCEL_ACCEPT", "CANCEL_REJECT"}
  BY DEF HandleAtServer, Deliver, Outcomes
<1>6. m.op \in {"GOAL_ACCEPT", "GOAL_REJECT", "CANCEL_ACCEPT", "CANCEL_REJECT", "FEEDBACK"}
               \cup Outcomes
  BY <1>2 DEF ToServer
<1> HIDE DEF m
<1>7. waitQueue \in [Goals -> Seq(Outcomes \cup {"FEEDBACK"})]
  BY DEF TypeOK
<1>8. ASSUME waitQueue' = [waitQueue EXCEPT ![m.goal] = Append(@, m.op)],
             m.op \in Outcomes \cup {"FEEDBACK"}
      PROVE  /\ In(m.op, waitQueue'[m.goal])
             /\ \A h \in Goals : \A x : In(x, waitQueue[h]) => In(x, waitQueue'[h])
  <2>1. /\ waitQueue'[m.goal] = Append(waitQueue[m.goal], m.op)
        /\ \A h \in Goals : h # m.goal => waitQueue'[h] = waitQueue[h]
    BY <1>4, <1>7, <1>8
  <2>2. \A x : In(x, Append(waitQueue[m.goal], m.op)) <=> In(x, waitQueue[m.goal]) \/ x = m.op
    BY <1>4, <1>7, <1>8, Members
  <2> QED
    BY <2>1, <2>2
<1>9. \A h \in Goals : \A x : In(x, waitQueue[h]) => In(x, waitQueue'[h])
  BY <1>5, <1>6, <1>8
<1> SUFFICES ASSUME NEW h \in Goals, Awaited(h)', remote'[h] \in Outcomes, Owed(h)
             PROVE  Owed(h)'
  BY <1>1 DEF Pays
<1>10. h \in serverHandles
  BY <1>1 DEF Kept, Awaited, Executing
<1>11. PICK o \in Outcomes : In(Mail(o, h), toServer) \/ In(o, waitQueue[h])
  BY DEF Owed
<1>12. CASE m = Mail(o, h)
  <2>1. m.goal = h /\ m.op = o
    BY <1>12 DEF Mail
  <2>2. In(o, waitQueue'[h])
    BY <1>5, <1>8, <1>10, <2>1
  <2> QED
    BY <2>2 DEF Owed
<1>13. CASE m # Mail(o, h)
  BY <1>3, <1>9, <1>11, <1>13 DEF Owed
<1> QED
  BY <1>12, <1>13

\* ...or because only feedback is taken while the thread goes on.
LEMMA ServerPays ==
  ASSUME TypeOK, Workers, NEW g \in Goals,
         BeginGoal(g) \/ GoalStep(g) \/ BeginCancel(g) \/ CancelStep(g) \/ WorkerStep(g)
  PROVE  \A h \in Goals : Pays(h)
<1>1. UNCHANGED <<toServer, remote>>
  BY DEF BeginGoal, GoalStep, SendGoal, WaitGoal, GoalTimeout, GoalStopped, GoalAnswered,
         HandleAccepted, BeginCancel, CancelStep, SendCancel, WaitCancel, CancelTimeout,
         CancelStopped, CancelAnswered, WorkerStep, WorkerLoops, TakeFeedback, TakeResult,
         WorkerStops
<1>2. CASE TakeFeedback(g) \/ TakeResult(g)
  <2>1. /\ worker[g] = "waiting" /\ waitQueue[g] # <<>> /\ UNCHANGED goalCall
        /\ waitQueue' = [waitQueue EXCEPT ![g] = Tail(@)]
        /\ Head(waitQueue[g]) = "FEEDBACK" \/ worker' = [worker EXCEPT ![g] = "exited"]
    BY <1>2 DEF TakeFeedback, TakeResult, WorkerEnds
  <2>2. waitQueue \in [Goals -> Seq(Outcomes \cup {"FEEDBACK"})] /\ "FEEDBACK" \notin Outcomes
    BY DEF TypeOK, Outcomes
  <2>3. CASE Head(waitQueue[g]) = "FEEDBACK"
    <3>1. \A x : In(x, waitQueue[g]) => x = "FEEDBACK" \/ In(x, Tail(waitQueue[g]))
      BY <2>1, <2>2, <2>3, Behind
    <3>2. \A h \in Goals : \A o \in Outcomes : In(o, waitQueue[h]) => In(o, waitQueue'[h])
      BY <2>1, <2>2, <3>1
    <3> QED
      BY <1>1, <3>2 DEF Pays, Owed
  <2>4. CASE worker' = [worker EXCEPT ![g] = "exited"]
    <3>1. goalCall[g] = "returned" /\ worker'[g] = "exited"
      BY <2>1, <2>4 DEF TypeOK, Workers
    <3>2. ~Awaited(g)'
      BY <2>1, <3>1 DEF Awaited, Executing
    <3>3. \A h \in Goals : h # g => waitQueue'[h] = waitQueue[h]
      BY <2>1, <2>2
    <3> QED
      BY <1>1, <3>2, <3>3 DEF Pays, Owed
  <2> QED
    BY <2>1, <2>3, <2>4
<1>3. ASSUME ~(TakeFeedback(g) \/ TakeResult(g)) PROVE \A h \in Goals : Pays(h)
  <2>1. UNCHANGED waitQueue
    BY <1>3 DEF BeginGoal, GoalStep, SendGoal, WaitGoal, GoalTimeout, GoalStopped, GoalAnswered,
                HandleAccepted, BeginCancel, CancelStep, SendCancel, WaitCancel, CancelTimeout,
                CancelStopped, CancelAnswered, WorkerStep, WorkerLoops, WorkerStops
  <2> QED
    BY <1>1, <2>1, NothingTaken
<1> QED
  BY <1>2, <1>3

\* ...and what is owed to the threads.
LEMMA DebtsKept ==
  TypeOK /\ Stages /\ Workers /\ Handles /\ Debts /\ [Next]_vars => Debts'
<1> SUFFICES ASSUME TypeOK, Stages, Workers, Handles, Debts, [Next]_vars, OneAtATime',
                    NEW h \in Goals, Awaited(h)', remote'[h] \in Outcomes
             PROVE  Owed(h)'
  BY DEF Debts
<1>1. OneAtATime
  BY StopStays
<1>2. \A g \in Goals : Kept(g)
  BY <1>1 DEF Handles
<1>3. ASSUME \/ ServerJoins \/ ServerErases \/ ServerFlags \/ ServerStops
             \/ ClientRemoves \/ ClientFlags \/ ClientStops \/ UNCHANGED vars
      PROVE  \A g \in Goals : Pays(g)
  <2>1. UNCHANGED <<toServer, waitQueue, remote>>
    BY <1>3 DEF ServerJoins, ServerErases, ServerFlags, ServerStops, ClientRemoves, ClientFlags,
                ClientStops, vars
  <2> QED
    BY <2>1, NothingTaken
<1>4. Pays(h)
  BY <1>2, <1>3, ServerPays, DeliveryPays, ClientPays DEF Next, HandleAtClient
<1>5. goalCall[h] = "checked" => remote[h] = "idle"
  BY DEF Stages, Staged
<1>6. Awaited(h) \/ goalCall[h] = "checked"
  BY EveryBeginning DEF Begins
<1>7. Awaited(h) /\ remote[h] \in Outcomes => Owed(h)
  BY <1>1 DEF Debts
<1> QED
  BY <1>4, <1>5, <1>6, <1>7 DEF Pays, Outcomes

----------------------------------------------------------------------------
(* The theorems.                                                           *)

\* The invariant holds at first...
LEMMA Starts == Init => IInv
<1> SUFFICES ASSUME Init PROVE IInv
  OBVIOUS
<1>1. TypeOK
  BY InitTyped
<1>2. Stages
  BY NewQueue DEF Init, Stages, Once, Staged
<1>3. Results
  BY NewQueue DEF Init, Results, Told, Outcomes
<1>4. Grants
  BY NewQueue DEF Init, Grants, Granted
<1>5. Workers
  BY DEF Init, Workers
<1>6. Reasons
  BY NewQueue DEF Init, Reasons, Cancelling
<1> QED
  BY <1>1, <1>2, <1>3, <1>4, <1>5, <1>6 DEF IInv

\* ...and every step keeps it.
LEMMA Inductive == IInv /\ [Next]_vars => IInv'
BY StepTyped, StagesKept, ResultsKept, GrantsKept, WorkersKept, ReasonsKept DEF IInv

\* Everything keeps its type, whatever the goals, the callback group and the stops
\* (ActionServer, ActionClient).
THEOREM TypeCorrect == Spec => []TypeOK
BY InitTyped, StepTyped, PTL DEF Spec

\* The invariant says what the two properties of the runs say.
LEMMA Implied == IInv => Faithful
<1> SUFFICES ASSUME IInv, NEW g \in Goals
             PROVE  /\ local[g] \in {"SUCCEEDED", "CANCELED"} => remote[g] = local[g]
                    /\ local[g] = "CANCELED" => cancels[g] > 0 \/ clientStopping
                    /\ cancelResult[g] = "accept" => g \in canceling
  BY DEF Faithful, OutcomeFaithful, CancelFaithful
<1>1. local[g] \in {"SUCCEEDED", "CANCELED"} => remote[g] = local[g]
  BY DEF IInv, Results, Told
<1>2. cancelResult[g] = "accept" => g \in canceling
  BY DEF IInv, Grants, Granted
<1>3. ASSUME local[g] = "CANCELED" PROVE cancels[g] > 0 \/ clientStopping
  <2>1. remote[g] = "CANCELED"
    BY <1>1, <1>3
  <2>2. Reason(g)
    BY <2>1 DEF IInv, Reasons, Cancelling
  <2>3. worker[g] # "none"
    BY <1>3 DEF IInv, Workers
  <2> QED
    BY <2>2, <2>3 DEF Reason, GivenUp
<1> QED
  BY <1>1, <1>2, <1>3

\* A local goal succeeds or is cancelled only as the real one did, is cancelled only for a
\* reason, and a cancel request is accepted only if the real action accepted it, for any
\* goals, overlapping callbacks, late messages, timeouts and stops (executeAccepted,
\* sendCancelAndWait, executeHandle).
THEOREM OutcomesAreFaithful == Spec => []Faithful
<1>1. Spec => []IInv
  BY Starts, Inductive, PTL DEF Spec
<1> QED
  BY <1>1, Implied, PTL

\* With one callback at a time, the invariant says that executing goals are served.
LEMMA Served == JInv => ExecutingIsServed
<1> SUFFICES ASSUME JInv, ~Simultaneous, NothingStopped, NEW g \in Goals, Executing(g)
             PROVE  /\ g \in serverHandles
                    /\ remote[g] # "rejected" =>
                         \/ remote[g] = "active"
                         \/ \E i \in DOMAIN toServer :
                              toServer[i].goal = g /\ toServer[i].op \in Outcomes
                         \/ \E i \in DOMAIN waitQueue[g] : waitQueue[g][i] \in Outcomes
  BY DEF ExecutingIsServed, ExecutingIsRegistered, ResultToCome
<1>1. OneAtATime /\ Awaited(g)
  BY DEF OneAtATime, NothingStopped, serverStopping, Awaited
<1>2. g \in serverHandles
  BY <1>1 DEF JInv, Handles, Kept
<1>3. remote[g] \notin {"idle", "requested"}
  BY DEF JInv, Answers, Turns, Heard
<1>4. remote[g] \in Outcomes \cup {"idle", "requested", "active", "rejected"}
  BY DEF JInv, IInv, TypeOK
<1>5. ASSUME remote[g] \in Outcomes
      PROVE  \/ \E i \in DOMAIN toServer :
                  toServer[i].goal = g /\ toServer[i].op \in Outcomes
             \/ \E i \in DOMAIN waitQueue[g] : waitQueue[g][i] \in Outcomes
  <2>1. PICK o \in Outcomes : In(Mail(o, g), toServer) \/ In(o, waitQueue[g])
    BY <1>1, <1>5 DEF JInv, Debts, Owed
  <2>2. Mail(o, g).goal = g /\ Mail(o, g).op = o
    BY DEF Mail
  <2> QED
    BY <2>1, <2>2 DEF In
<1> QED
  BY <1>2, <1>3, <1>4, <1>5

\* When the callback group of the ActionServer lets one callback run at a time, the handle of
\* an executing goal stays in the map whatever cancel requests come, time out or are answered
\* late, and its thread is owed a result, for any goals (handleAccepted, executeAccepted,
\* sendCancelAndWait, executeRemove).
THEOREM GoalsAreServed == Spec => []ExecutingIsServed
<1>1. Init => JInv
  <2> SUFFICES ASSUME Init PROVE JInv
    OBVIOUS
  <2>1. IInv
    BY Starts
  <2>2. Answers
    BY NewQueue DEF Init, Answers, Turns, Heard, Executing
  <2>3. \A g \in Goals : ~Awaited(g) /\ ~In(g, serverRemove) /\ removing # g
    BY NewQueue, BridgeAssumption DEF Init, Awaited, Executing
  <2> QED
    BY <2>1, <2>2, <2>3 DEF JInv, Handles, Kept, Debts
<1>2. JInv /\ [Next]_vars => JInv'
  <2> SUFFICES ASSUME JInv, [Next]_vars PROVE JInv'
    OBVIOUS
  <2>1. TypeOK /\ Stages /\ Workers /\ IInv /\ Answers /\ Handles /\ Debts
    BY DEF JInv, IInv
  <2> QED
    BY <2>1, Inductive, AnswersKept, HandlesKept, DebtsKept DEF JInv
<1> QED
  BY <1>1, <1>2, Served, PTL DEF Spec
=============================================================================
