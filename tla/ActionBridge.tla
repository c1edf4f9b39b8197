---------------------------- MODULE ActionBridge ----------------------------
(***************************************************************************)
(* One ROS action carried over the connection.  The ActionServer plugin of *)
(* one host captures the goals of local ROS clients (sendGoalAndWait,      *)
(* handleAccepted, executeAccepted) and their cancel requests              *)
(* (sendCancelAndWait); the ActionClient plugin of the other host hands    *)
(* them to the real action (handle, executeHandle) and returns its         *)
(* responses, feedback and result.                                         *)
(*                                                                         *)
(* A goal is its UUID, which is also the gid of its handles on both hosts. *)
(* Threads that wait on a condition variable go on when the condition      *)
(* holds; notifications that are lost are the subject of ServiceBridge,    *)
(* and no property here needs a thread that could miss one to go on.       *)
(***************************************************************************)
EXTENDS Naturals, Sequences

CONSTANTS
  Goals,         \* the goals sent to the captured action
  Simultaneous,  \* may the callbacks of the ActionServer overlap (a reentrant group)?
  Stops,         \* which plugins may be stopped, {} to {"server", "client"}
  MaxCancels,    \* bound on the cancel requests for a goal
  None

ASSUME BridgeAssumption ==
  /\ Simultaneous \in BOOLEAN
  /\ Stops \subseteq {"server", "client"}
  /\ MaxCancels \in Nat
  /\ None \notin Goals

VARIABLES
  toClient,       \* messages to the ActionClient, in sending order
  toServer,       \* messages to the ActionServer
  (* ActionServer *)
  goalCall,       \* where the goal callbacks (sendGoalAndWait; handleAccepted) are
  goalResult,     \* what sendGoalAndWait returned
  handlingGoal,   \* the goals whose handle expects a goal response
  goalResponse,
  cancelCall,     \* where the cancel callback (sendCancelAndWait) is
  cancelResult,   \* what it returned last
  cancels,        \* the cancel requests made
  handlingCancel, \* the goals whose handle expects a cancel response
  cancelResponse,
  dangling,       \* the goals whose cancel callback used an erased map entry
  worker,         \* where the thread of a goal is in executeAccepted
  waitQueue,      \* feedback and results for it
  local,          \* what became of the goal of the local client
  serverHandles,  \* the goals in Action::handles
  serverRemove,   \* Action::toRemove
  removing,       \* the handle executeRemove has joined and not yet erased
  serverStop,
  (* ActionClient *)
  clientHandles, clientRemove, clientStop,
  thread,         \* where the thread of a goal is in executeHandle
  clientQueue,    \* waitQueue of its handle
  clientGoal,     \* the goals whose handle says handlingGoal
  clientCancel,   \* ...handlingCancel
  done,           \* ...done
  (* the real action *)
  remote,         \* what became of the goal
  fed,            \* the goals that have sent their feedback
  cancelAsked,    \* the goals with a cancel request under way
  canceling       \* the goals whose cancellation it has accepted

goalVars == <<goalCall, goalResult, handlingGoal, goalResponse>>
cancelVars == <<cancelCall, cancelResult, cancels, handlingCancel, cancelResponse, dangling>>
workVars == <<worker, waitQueue, local>>
removeVars == <<serverHandles, serverRemove, removing>>
serverVars == <<goalVars, cancelVars, workVars, removeVars, serverStop>>
threadVars == <<thread, clientQueue, clientGoal, clientCancel, done>>
clientVars == <<clientHandles, clientRemove, clientStop, threadVars>>
remoteVars == <<remote, fed, cancelAsked, canceling>>
vars == <<toClient, toServer, serverVars, clientVars, remoteVars>>

Outcomes == {"SUCCEEDED", "CANCELED", "ABORTED"}
ToClient == [op : {"GOAL", "CANCEL"}, goal : Goals]
ToServer == [op : {"GOAL_ACCEPT", "GOAL_REJECT", "CANCEL_ACCEPT", "CANCEL_REJECT",
                   "FEEDBACK"} \cup Outcomes,
             goal : Goals]

SendToClient(op, g) == toClient' = Append(toClient, [op |-> op, goal |-> g])
SendToServer(op, g) == toServer' = Append(toServer, [op |-> op, goal |-> g])

serverStopping == serverStop # "running"
clientStopping == clientStop # "running"

Busy(g) ==
  goalCall[g] \notin {"idle", "returned"} \/ cancelCall[g] \notin {"idle", "returned"}

\* The executor may run a callback of the ActionServer.
Runnable(g) == IF Simultaneous THEN TRUE ELSE \A h \in Goals : ~Busy(h)

----------------------------------------------------------------------------
(* ActionServer: the goal callback, sendGoalAndWait.                       *)

ReturnGoal(g, response, why) ==
  /\ goalCall' = [goalCall EXCEPT ![g] = response]
  /\ goalResult' = [goalResult EXCEPT ![g] = why]
  /\ handlingGoal' = handlingGoal \ {g}

removeHandle(g) == serverRemove' = Append(serverRemove, g)

BeginGoal(g) ==
  /\ goalCall[g] = "idle" /\ Runnable(g)
  /\ IF serverStopping
     THEN ReturnGoal(g, "returned", "reject")
     ELSE goalCall' = [goalCall EXCEPT ![g] = "checked"] /\ UNCHANGED <<goalResult, handlingGoal>>
  /\ UNCHANGED <<goalResponse, cancelVars, workVars, removeVars, serverStop,
                 toClient, toServer, clientVars, remoteVars>>

SendGoal(g) ==
  /\ goalCall[g] = "checked"
  /\ goalCall' = [goalCall EXCEPT ![g] = "sent"]
  /\ serverHandles' = serverHandles \cup {g}
  /\ handlingGoal' = handlingGoal \cup {g}
  /\ SendToClient("GOAL", g)
  /\ UNCHANGED <<goalResult, goalResponse, cancelVars, workVars, serverRemove, removing,
                 serverStop, toServer, clientVars, remoteVars>>

\* The test of "stopping" before the wait.
WaitGoal(g) ==
  /\ goalCall[g] = "sent"
  /\ IF serverStopping
     THEN ReturnGoal(g, "returned", "reject") /\ removeHandle(g)
     ELSE /\ goalCall' = [goalCall EXCEPT ![g] = "waiting"]
          /\ UNCHANGED <<goalResult, handlingGoal, serverRemove>>
  /\ UNCHANGED <<goalResponse, cancelVars, workVars, serverHandles, removing, serverStop,
                 toClient, toServer, clientVars, remoteVars>>

\* No response within 10 s: a cancellation is sent and the goal rejected.
GoalTimeout(g) ==
  /\ goalCall[g] = "waiting" /\ ~serverStopping /\ goalResponse[g] = None
  /\ SendToClient("CANCEL", g)
  /\ ReturnGoal(g, "returned", "timeout") /\ removeHandle(g)
  /\ UNCHANGED <<goalResponse, cancelVars, workVars, serverHandles, removing, serverStop,
                 toServer, clientVars, remoteVars>>

\* (mutant) The wait for the goal response does not test "stopping".
GoalStoppedNever(g) == FALSE /\ UNCHANGED vars

GoalStopped(g) ==
  /\ goalCall[g] = "waiting" /\ serverStopping
  /\ goalCall' = [goalCall EXCEPT ![g] = "returned"]
  /\ goalResult' = [goalResult EXCEPT ![g] = "reject"]
  /\ UNCHANGED <<handlingGoal, goalResponse, cancelVars, workVars, removeVars, serverStop,
                 toClient, toServer, clientVars, remoteVars>>

\* (mutant) The handle is given to executeRemove whatever the response.
GoalAnsweredRemoves(g) ==
  /\ goalCall[g] = "waiting" /\ ~serverStopping /\ goalResponse[g] # None
  /\ IF goalResponse[g] = "GOAL_ACCEPT"
     THEN ReturnGoal(g, "accepted", "accept")
     ELSE ReturnGoal(g, "returned", "reject")
  /\ removeHandle(g)
  /\ UNCHANGED <<goalResponse, cancelVars, workVars, serverHandles, removing, serverStop,
                 toClient, toServer, clientVars, remoteVars>>

GoalAnswered(g) ==
  /\ goalCall[g] = "waiting" /\ ~serverStopping /\ goalResponse[g] # None
  /\ IF goalResponse[g] = "GOAL_ACCEPT"
     THEN ReturnGoal(g, "accepted", "accept") /\ UNCHANGED serverRemove
     ELSE ReturnGoal(g, "returned", "reject") /\ removeHandle(g)
  /\ UNCHANGED <<goalResponse, cancelVars, workVars, serverHandles, removing, serverStop,
                 toClient, toServer, clientVars, remoteVars>>

\* handleAccepted, which rclcpp_action calls after sendGoalAndWait has accepted.  Its
\* handle has no thread yet.
HandleAccepted(g) ==
  /\ goalCall[g] = "accepted"
  /\ goalCall' = [goalCall EXCEPT ![g] = "returned"]
  /\ \/ /\ g \notin serverHandles
        /\ SendToClient("CANCEL", g)
        /\ local' = [local EXCEPT ![g] = "dropped"]
        /\ UNCHANGED <<worker, serverRemove>>
     \/ /\ g \in serverHandles /\ serverStopping
        /\ removeHandle(g)
        /\ local' = [local EXCEPT ![g] = "dropped"]
        /\ UNCHANGED <<worker, toClient>>
     \/ /\ g \in serverHandles /\ ~serverStopping
        /\ worker' = [worker EXCEPT ![g] = "looping"]
        /\ UNCHANGED <<local, serverRemove, toClient>>
  /\ UNCHANGED <<goalResult, handlingGoal, goalResponse, cancelVars, waitQueue, serverHandles,
                 removing, serverStop, toServer, clientVars, remoteVars>>

GoalStep(g) ==
  \/ SendGoal(g) \/ WaitGoal(g) \/ GoalTimeout(g) \/ GoalStopped(g) \/ GoalAnswered(g)
  \/ HandleAccepted(g)

----------------------------------------------------------------------------
(* ActionServer: the cancel callback, sendCancelAndWait.  It keeps a       *)
(* reference into the map, not a shared_ptr of its own; what it reads      *)
(* after the entry is erased is what the handle still holds.               *)

handlingWait(g) == worker[g] \in {"looping", "waiting", "left"}

UsesHandle(g) == dangling' = IF g \in serverHandles THEN dangling ELSE dangling \cup {g}

ReturnCancel(g, response) ==
  /\ cancelCall' = [cancelCall EXCEPT ![g] = "returned"]
  /\ cancelResult' = [cancelResult EXCEPT ![g] = response]
  /\ handlingCancel' = handlingCancel \ {g}

RemoveUnlessWaiting(g) ==
  IF handlingWait(g) THEN UNCHANGED serverRemove ELSE removeHandle(g)

\* rclcpp_action passes a cancel request on when it knows the goal as unfinished.
BeginCancel(g) ==
  /\ cancelCall[g] \in {"idle", "returned"} /\ Runnable(g)
  /\ cancels[g] < MaxCancels
  /\ goalResult[g] = "accept" /\ local[g] = "open" /\ cancelResult[g] # "accept"
  /\ cancels' = [cancels EXCEPT ![g] = @ + 1]
  /\ IF g \in serverHandles
     THEN cancelCall' = [cancelCall EXCEPT ![g] = "found"] /\ UNCHANGED cancelResult
     ELSE /\ cancelCall' = [cancelCall EXCEPT ![g] = "returned"]
          /\ cancelResult' = [cancelResult EXCEPT ![g] = "reject"]
  /\ UNCHANGED <<handlingCancel, cancelResponse, dangling, goalVars, workVars, removeVars,
                 serverStop, toClient, toServer, clientVars, remoteVars>>

SendCancel(g) ==
  /\ cancelCall[g] = "found"
  /\ UsesHandle(g)
  /\ IF serverStopping
     THEN /\ ReturnCancel(g, "reject") /\ RemoveUnlessWaiting(g)
          /\ UNCHANGED <<cancelResponse, toClient>>
     ELSE /\ cancelCall' = [cancelCall EXCEPT ![g] = "sent"]
          /\ cancelResponse' = [cancelResponse EXCEPT ![g] = None]
          /\ handlingCancel' = handlingCancel \cup {g}
          /\ SendToClient("CANCEL", g)
          /\ UNCHANGED <<cancelResult, serverRemove>>
  /\ UNCHANGED <<cancels, goalVars, workVars, serverHandles, removing, serverStop, toServer,
                 clientVars, remoteVars>>

WaitCancel(g) ==
  /\ cancelCall[g] = "sent"
  /\ UsesHandle(g)
  /\ IF serverStopping
     THEN ReturnCancel(g, "reject") /\ RemoveUnlessWaiting(g)
     ELSE /\ cancelCall' = [cancelCall EXCEPT ![g] = "waiting"]
          /\ UNCHANGED <<cancelResult, handlingCancel, serverRemove>>
  /\ UNCHANGED <<cancels, cancelResponse, goalVars, workVars, serverHandles, removing,
                 serverStop, toClient, toServer, clientVars, remoteVars>>

CancelTimeout(g) ==
  /\ cancelCall[g] = "waiting" /\ ~serverStopping /\ cancelResponse[g] = None
  /\ UsesHandle(g)
  /\ ReturnCancel(g, "reject")
  /\ UNCHANGED <<cancels, cancelResponse, goalVars, workVars, removeVars, serverStop,
                 toClient, toServer, clientVars, remoteVars>>

CancelStopped(g) ==
  /\ cancelCall[g] = "waiting" /\ serverStopping
  /\ cancelCall' = [cancelCall EXCEPT ![g] = "returned"]
  /\ cancelResult' = [cancelResult EXCEPT ![g] = "reject"]
  /\ UNCHANGED <<cancels, handlingCancel, cancelResponse, dangling, goalVars, workVars,
                 removeVars, serverStop, toClient, toServer, clientVars, remoteVars>>

CancelAnswered(g) ==
  /\ cancelCall[g] = "waiting" /\ ~serverStopping /\ cancelResponse[g] # None
  /\ UsesHandle(g)
  /\ IF cancelResponse[g] = "CANCEL_ACCEPT"
     THEN ReturnCancel(g, "accept") /\ RemoveUnlessWaiting(g)
     ELSE ReturnCancel(g, "reject") /\ UNCHANGED serverRemove
  /\ UNCHANGED <<cancels, cancelResponse, goalVars, workVars, serverHandles, removing,
                 serverStop, toClient, toServer, clientVars, remoteVars>>

CancelStep(g) ==
  \/ SendCancel(g) \/ WaitCancel(g) \/ CancelTimeout(g) \/ CancelStopped(g)
  \/ CancelAnswered(g)

----------------------------------------------------------------------------
(* ActionServer: the thread of an executing goal, executeAccepted.         *)

\* The loop tests "stopping" before it waits and then just ends: "handlingWait" stays
\* and rclcpp_action drops the goal with its handle.
WorkerLoops(g) ==
  /\ worker[g] = "looping"
  /\ IF serverStopping
     THEN /\ worker' = [worker EXCEPT ![g] = "left"]
          /\ local' = [local EXCEPT ![g] = "dropped"]
     ELSE worker' = [worker EXCEPT ![g] = "waiting"] /\ UNCHANGED local
  /\ UNCHANGED <<waitQueue, goalVars, cancelVars, removeVars, serverStop, toClient, toServer,
                 clientVars, remoteVars>>

WorkerEnds(g, outcome) ==
  /\ worker' = [worker EXCEPT ![g] = "exited"]
  /\ local' = [local EXCEPT ![g] = outcome]
  /\ removeHandle(g)

TakeFeedback(g) ==
  /\ worker[g] = "waiting" /\ ~serverStopping
  /\ waitQueue[g] # <<>> /\ Head(waitQueue[g]) = "FEEDBACK"
  /\ waitQueue' = [waitQueue EXCEPT ![g] = Tail(@)]
  /\ worker' = [worker EXCEPT ![g] = "looping"]
  /\ UNCHANGED <<local, goalVars, cancelVars, removeVars, serverStop, toClient,
                 toServer, clientVars, remoteVars>>

\* (mutant) A result that cannot be decompressed counts as a success.
TakeResultSucceeds(g) ==
  /\ worker[g] = "waiting" /\ ~serverStopping
  /\ waitQueue[g] # <<>> /\ Head(waitQueue[g]) \in Outcomes
  /\ waitQueue' = [waitQueue EXCEPT ![g] = Tail(@)]
  /\ \E o \in {Head(waitQueue[g]), "SUCCEEDED"} : WorkerEnds(g, o)
  /\ UNCHANGED <<goalVars, cancelVars, serverHandles, removing, serverStop, toClient,
                 toServer, clientVars, remoteVars>>

\* A result ends the goal; one that cannot be decompressed aborts it.
TakeResult(g) ==
  /\ worker[g] = "waiting" /\ ~serverStopping
  /\ waitQueue[g] # <<>> /\ Head(waitQueue[g]) \in Outcomes
  /\ waitQueue' = [waitQueue EXCEPT ![g] = Tail(@)]
  /\ \E o \in {Head(waitQueue[g]), "ABORTED"} : WorkerEnds(g, o)
  /\ UNCHANGED <<goalVars, cancelVars, serverHandles, removing, serverStop, toClient,
                 toServer, clientVars, remoteVars>>

WorkerStops(g) ==
  /\ worker[g] = "waiting" /\ serverStopping
  /\ WorkerEnds(g, "ABORTED")
  /\ UNCHANGED <<waitQueue, goalVars, cancelVars, serverHandles, removing, serverStop,
                 toClient, toServer, clientVars, remoteVars>>

WorkerStep(g) == WorkerLoops(g) \/ TakeFeedback(g) \/ TakeResult(g) \/ WorkerStops(g)

Executing(g) == worker[g] \in {"looping", "waiting"}

(* ActionServer: messages, removal, stop.                                  *)

\* (mutant) Responses are queued for the thread as well.
DeliverAll(m) ==
  /\ waitQueue' = [waitQueue EXCEPT ![m.goal] = Append(@, m.op)]
  /\ goalResponse' = IF m.goal \in handlingGoal /\ m.op \in {"GOAL_ACCEPT", "GOAL_REJECT"}
                     THEN [goalResponse EXCEPT ![m.goal] = m.op] ELSE goalResponse
  /\ UNCHANGED cancelResponse

\* What handle() does with a message for a goal it has a handle of.
Deliver(m) ==
  CASE m.op \in {"GOAL_ACCEPT", "GOAL_REJECT"} ->
         /\ goalResponse' = IF m.goal \in handlingGoal
                            THEN [goalResponse EXCEPT ![m.goal] = m.op] ELSE goalResponse
         /\ UNCHANGED <<cancelResponse, waitQueue>>
    [] m.op \in {"CANCEL_ACCEPT", "CANCEL_REJECT"} ->
         /\ cancelResponse' = IF m.goal \in handlingCancel
                              THEN [cancelResponse EXCEPT ![m.goal] = m.op] ELSE cancelResponse
         /\ UNCHANGED <<goalResponse, waitQueue>>
    [] OTHER ->
         /\ waitQueue' = [waitQueue EXCEPT ![m.goal] = Append(@, m.op)]
         /\ UNCHANGED <<goalResponse, cancelResponse>>

HandleAtServer ==
  /\ toServer # <<>>
  /\ toServer' = Tail(toServer)
  /\ IF Head(toServer).goal \in serverHandles
     THEN Deliver(Head(toServer))
     ELSE UNCHANGED <<goalResponse, cancelResponse, waitQueue>>
  /\ UNCHANGED <<goalCall, goalResult, handlingGoal, cancelCall, cancelResult, cancels,
                 handlingCancel, dangling, worker, local, removeVars, serverStop, toClient,
                 clientVars, remoteVars>>

\* executeRemove takes a handle and joins its thread, if it has one...
ServerJoins ==
  /\ serverRemove # <<>> /\ removing = None /\ ~serverStopping
  /\ ~Executing(Head(serverRemove))
  /\ removing' = Head(serverRemove)
  /\ serverRemove' = Tail(serverRemove)
  /\ UNCHANGED <<serverHandles, serverStop, goalVars, cancelVars, workVars, toClient, toServer,
                 clientVars, remoteVars>>

\* ...and then erases it under handlesMutex.
ServerErases ==
  /\ removing # None
  /\ serverHandles' = serverHandles \ {removing}
  /\ removing' = None
  /\ UNCHANGED <<serverRemove, serverStop, goalVars, cancelVars, workVars, toClient, toServer,
                 clientVars, remoteVars>>

ServerFlags ==
  /\ "server" \in Stops /\ serverStop = "running"
  /\ serverStop' = "stopping"
  /\ UNCHANGED <<goalVars, cancelVars, workVars, removeVars, toClient, toServer, clientVars,
                 remoteVars>>

\* A round of the loop of Action::stop, or its end when no handle is left.
ServerStops ==
  /\ serverStop = "stopping" /\ removing = None
  /\ IF serverHandles = {}
     THEN serverStop' = "stopped" /\ serverRemove' = <<>> /\ UNCHANGED serverHandles
     ELSE /\ \E g \in serverHandles :
               ~Executing(g) /\ serverHandles' = serverHandles \ {g}
          /\ UNCHANGED <<serverStop, serverRemove>>
  /\ UNCHANGED <<removing, goalVars, cancelVars, workVars, toClient, toServer, clientVars,
                 remoteVars>>

----------------------------------------------------------------------------
(* ActionClient: messages, and the thread of a goal in executeHandle.      *)

ServerUnchanged == UNCHANGED serverVars

\* A goal starts a thread; handlesMutex is held until its handle is inserted.
HandleGoal(g) ==
  /\ toClient # <<>> /\ Head(toClient) = [op |-> "GOAL", goal |-> g]
  /\ toClient' = Tail(toClient)
  /\ IF clientStopping
     THEN UNCHANGED <<clientHandles, thread, clientQueue>>
     ELSE /\ clientHandles' = clientHandles \cup {g}
          /\ thread' = [thread EXCEPT ![g] = "looping"]
          /\ clientQueue' = [clientQueue EXCEPT ![g] = <<"GOAL">>]
  /\ UNCHANGED <<toServer, clientRemove, clientStop, clientGoal, clientCancel, done, remoteVars>>
  /\ ServerUnchanged

\* A cancellation whose gid is not known is answered with GOAL_REJECT.
HandleCancel(g) ==
  /\ toClient # <<>> /\ Head(toClient) = [op |-> "CANCEL", goal |-> g]
  /\ toClient' = Tail(toClient)
  /\ IF g \in clientHandles
     THEN clientQueue' = [clientQueue EXCEPT ![g] = Append(@, "CANCEL")] /\ UNCHANGED toServer
     ELSE SendToServer("GOAL_REJECT", g) /\ UNCHANGED clientQueue
  /\ UNCHANGED <<clientHandles, clientRemove, clientStop, thread, clientGoal, clientCancel,
                 done, remoteVars>>
  /\ ServerUnchanged

\* The loop tests "stopping" before it waits and then just ends.
ThreadLoops(g) ==
  /\ thread[g] = "looping"
  /\ thread' = [thread EXCEPT ![g] = IF clientStopping THEN "exited" ELSE "waiting"]
  /\ UNCHANGED <<toClient, toServer, clientHandles, clientRemove, clientStop, clientQueue,
                 clientGoal, clientCancel, done, remoteVars>>
  /\ ServerUnchanged

\* asyncCancelGoal cancels a goal that has been accepted.
executeCancel(g) ==
  /\ clientCancel' = clientCancel \cup {g}
  /\ cancelAsked' = IF remote[g] \in {"idle", "requested", "rejected"}
                    THEN cancelAsked ELSE cancelAsked \cup {g}

ThreadExits(g) ==
  /\ thread' = [thread EXCEPT ![g] = "exited"]
  /\ clientRemove' = Append(clientRemove, g)

\* Woken by stop(): the goal is cancelled.
ThreadStops(g) ==
  /\ thread[g] = "waiting" /\ clientStopping
  /\ executeCancel(g)
  /\ ThreadExits(g)
  /\ UNCHANGED <<toClient, toServer, clientHandles, clientStop, clientQueue, clientGoal, done,
                 remote, fed, canceling>>
  /\ ServerUnchanged

\* Woken because the goal is done.
ThreadDone(g) ==
  /\ thread[g] = "waiting" /\ ~clientStopping /\ g \in done
  /\ ThreadExits(g)
  /\ UNCHANGED <<toClient, toServer, clientHandles, clientStop, clientQueue, clientGoal,
                 clientCancel, done, remoteVars>>
  /\ ServerUnchanged

Takes(g, op) ==
  /\ thread[g] = "waiting" /\ ~clientStopping /\ g \notin done
  /\ clientQueue[g] # <<>> /\ Head(clientQueue[g]) = op
  /\ clientQueue' = [clientQueue EXCEPT ![g] = Tail(@)]

\* executeGoal starts...
TakeGoal(g) ==
  /\ Takes(g, "GOAL")
  /\ thread' = [thread EXCEPT ![g] = "goal"]
  /\ clientGoal' = clientGoal \cup {g}
  /\ UNCHANGED <<toClient, toServer, clientHandles, clientRemove, clientStop, clientCancel,
                 done, remoteVars>>
  /\ ServerUnchanged

GiveUpGoal(g) ==
  /\ thread' = [thread EXCEPT ![g] = "looping"]
  /\ clientGoal' = clientGoal \ {g}
  /\ done' = done \cup {g}
  /\ UNCHANGED <<toClient, clientHandles, clientRemove, clientStop, clientQueue, clientCancel,
                 remoteVars>>
  /\ ServerUnchanged

\* ...does not decompress, has the wrong size or finds no action...
RejectGoal(g) ==
  /\ thread[g] = "goal"
  /\ SendToServer("GOAL_REJECT", g)
  /\ GiveUpGoal(g)

StopGoal(g) ==
  /\ thread[g] = "goal" /\ clientStopping
  /\ UNCHANGED toServer
  /\ GiveUpGoal(g)

\* ...or calls the real action.
CallAction(g) ==
  /\ thread[g] = "goal" /\ ~clientStopping
  /\ thread' = [thread EXCEPT ![g] = "looping"]
  /\ remote' = [remote EXCEPT ![g] = "requested"]
  /\ UNCHANGED <<toClient, toServer, clientHandles, clientRemove, clientStop, clientQueue,
                 clientGoal, clientCancel, done, fed, cancelAsked, canceling>>
  /\ ServerUnchanged

\* (mutant) A cancellation that comes before the answer to the goal is dropped.
TakeCancelDrops(g) ==
  /\ Takes(g, "CANCEL")
  /\ thread' = [thread EXCEPT ![g] = "looping"]
  /\ IF g \in clientGoal \cup clientCancel
     THEN UNCHANGED <<clientCancel, cancelAsked>> ELSE executeCancel(g)
  /\ UNCHANGED <<toClient, toServer, clientHandles, clientRemove, clientStop, clientGoal,
                 done, remote, fed, canceling>>
  /\ ServerUnchanged

\* A cancellation waits until the real action has answered the goal: until then it is
\* taken from the queue and put back, again and again.
TakeCancel(g) ==
  /\ Takes(g, "CANCEL") /\ g \notin clientGoal
  /\ thread' = [thread EXCEPT ![g] = "looping"]
  /\ IF g \in clientCancel THEN UNCHANGED <<clientCancel, cancelAsked>> ELSE executeCancel(g)
  /\ UNCHANGED <<toClient, toServer, clientHandles, clientRemove, clientStop, clientGoal,
                 done, remote, fed, canceling>>
  /\ ServerUnchanged

ThreadStep(g) ==
  \/ ThreadLoops(g) \/ ThreadStops(g) \/ TakeGoal(g) \/ RejectGoal(g) \/ StopGoal(g)
  \/ CallAction(g) \/ TakeCancel(g)

\* executeRemove joins the thread and erases the handle.  Nothing happens to a handle of
\* this host between the two.
ClientRemoves ==
  /\ clientRemove # <<>> /\ ~clientStopping
  /\ clientRemove' = Tail(clientRemove)
  /\ clientHandles' = clientHandles \ {Head(clientRemove)}
  /\ UNCHANGED <<toClient, toServer, clientStop, threadVars, remoteVars>>
  /\ ServerUnchanged

ClientFlags ==
  /\ "client" \in Stops /\ clientStop = "running"
  /\ clientStop' = "stopping"
  /\ UNCHANGED <<toClient, toServer, clientHandles, clientRemove, threadVars, remoteVars>>
  /\ ServerUnchanged

\* A round of the loop of Action::stop, or its end when no handle is left.
ClientStops ==
  /\ clientStop = "stopping"
  /\ IF clientHandles = {}
     THEN clientStop' = "stopped" /\ clientRemove' = <<>> /\ UNCHANGED clientHandles
     ELSE /\ \E g \in clientHandles :
               thread[g] = "exited" /\ clientHandles' = clientHandles \ {g}
          /\ UNCHANGED <<clientStop, clientRemove>>
  /\ UNCHANGED <<toClient, toServer, threadVars, remoteVars>>
  /\ ServerUnchanged

----------------------------------------------------------------------------
(* The real action, and the callbacks it runs in the ActionClient.         *)

Callback == UNCHANGED <<toClient, clientHandles, clientRemove, clientStop, thread, clientQueue>>

goalAccepted(g) ==
  /\ remote[g] = "requested"
  /\ remote' = [remote EXCEPT ![g] = "active"]
  /\ SendToServer("GOAL_ACCEPT", g)
  /\ clientGoal' = clientGoal \ {g}
  /\ UNCHANGED <<clientCancel, done, fed, cancelAsked, canceling>> /\ Callback
  /\ ServerUnchanged

\* The rejection of the goal is sent as GOAL_ACCEPT.
goalRejected(g) ==
  /\ remote[g] = "requested"
  /\ remote' = [remote EXCEPT ![g] = "rejected"]
  /\ SendToServer("GOAL_ACCEPT", g)
  /\ done' = done \cup {g}
  /\ clientGoal' = clientGoal \ {g}
  /\ UNCHANGED <<clientCancel, fed, cancelAsked, canceling>> /\ Callback
  /\ ServerUnchanged

\* An executing goal sends feedback (here once).
feedback(g) ==
  /\ remote[g] = "active" /\ g \notin fed
  /\ fed' = fed \cup {g}
  /\ SendToServer("FEEDBACK", g)
  /\ UNCHANGED <<clientGoal, clientCancel, done, remote, cancelAsked, canceling>> /\ Callback
  /\ ServerUnchanged

\* resultSucceeded, resultCanceled, resultAborted.
sendResult(g) ==
  /\ remote[g] = "active"
  /\ \E o \in Outcomes :
       /\ o = "CANCELED" => g \in canceling
       /\ remote' = [remote EXCEPT ![g] = o]
       /\ SendToServer(o, g)
  /\ done' = done \cup {g}
  /\ UNCHANGED <<clientGoal, clientCancel, fed, cancelAsked, canceling>> /\ Callback
  /\ ServerUnchanged

cancelAccepted(g) ==
  /\ g \in cancelAsked /\ remote[g] = "active"
  /\ cancelAsked' = cancelAsked \ {g}
  /\ canceling' = canceling \cup {g}
  /\ SendToServer("CANCEL_ACCEPT", g)
  /\ done' = done \cup {g}
  /\ clientCancel' = clientCancel \ {g}
  /\ UNCHANGED <<clientGoal, remote, fed>> /\ Callback
  /\ ServerUnchanged

cancelRejected(g) ==
  /\ g \in cancelAsked
  /\ cancelAsked' = cancelAsked \ {g}
  /\ SendToServer("CANCEL_REJECT", g)
  /\ clientCancel' = clientCancel \ {g}
  /\ UNCHANGED <<clientGoal, done, remote, fed, canceling>> /\ Callback
  /\ ServerUnchanged

RemoteStep(g) ==
  \/ goalAccepted(g) \/ goalRejected(g) \/ feedback(g) \/ sendResult(g)
  \/ cancelAccepted(g) \/ cancelRejected(g)

----------------------------------------------------------------------------

Init ==
  /\ toClient = <<>> /\ toServer = <<>>
  /\ goalCall = [g \in Goals |-> "idle"] /\ goalResult = [g \in Goals |-> "open"]
  /\ handlingGoal = {} /\ goalResponse = [g \in Goals |-> None]
  /\ cancelCall = [g \in Goals |-> "idle"] /\ cancelResult = [g \in Goals |-> "open"]
  /\ cancels = [g \in Goals |-> 0]
  /\ handlingCancel = {} /\ cancelResponse = [g \in Goals |-> None]
  /\ dangling = {}
  /\ worker = [g \in Goals |-> "none"] /\ waitQueue = [g \in Goals |-> <<>>]
  /\ local = [g \in Goals |-> "open"]
  /\ serverHandles = {} /\ serverRemove = <<>> /\ removing = None
  /\ serverStop = "running"
  /\ clientHandles = {} /\ clientRemove = <<>> /\ clientStop = "running"
  /\ thread = [g \in Goals |-> "none"] /\ clientQueue = [g \in Goals |-> <<>>]
  /\ clientGoal = {} /\ clientCancel = {} /\ done = {}
  /\ remote = [g \in Goals |-> "idle"]
  /\ fed = {} /\ cancelAsked = {} /\ canceling = {}

HandleAtClient == \E g \in Goals : HandleGoal(g) \/ HandleCancel(g)

Next ==
  \/ \E g \in Goals :
       \/ BeginGoal(g) \/ GoalStep(g) \/ BeginCancel(g) \/ CancelStep(g) \/ WorkerStep(g)
       \/ ThreadStep(g) \/ ThreadDone(g) \/ RemoteStep(g)
  \/ HandleAtServer \/ ServerJoins \/ ServerErases \/ ServerFlags \/ ServerStops
  \/ HandleAtClient \/ ClientRemoves \/ ClientFlags \/ ClientStops

Spec == Init /\ [][Next]_vars

\* The threads of both processes run, ten seconds pass and the connection delivers.  The
\* real action need not answer, and ThreadDone may have missed its notification.
Fairness ==
  /\ \A g \in Goals :
       WF_vars(GoalStep(g)) /\ WF_vars(CancelStep(g)) /\ WF_vars(WorkerStep(g))
         /\ WF_vars(ThreadStep(g))
  /\ WF_vars(HandleAtServer) /\ WF_vars(HandleAtClient)
  /\ WF_vars(ServerJoins) /\ WF_vars(ServerErases) /\ WF_vars(ServerStops)
  /\ WF_vars(ClientRemoves) /\ WF_vars(ClientStops)

FairSpec == Spec /\ Fairness

----------------------------------------------------------------------------
(* Properties.                                                             *)

TypeOK ==
  /\ toClient \in Seq(ToClient) /\ toServer \in Seq(ToServer)
  /\ goalCall \in [Goals -> {"idle", "checked", "sent", "waiting", "accepted", "returned"}]
  /\ goalResult \in [Goals -> {"open", "accept", "reject", "timeout"}]
  /\ handlingGoal \subseteq Goals
  /\ goalResponse \in [Goals -> {"GOAL_ACCEPT", "GOAL_REJECT", None}]
  /\ cancelCall \in [Goals -> {"idle", "found", "sent", "waiting", "returned"}]
  /\ cancelResult \in [Goals -> {"open", "accept", "reject"}]
  /\ cancels \in [Goals -> 0..MaxCancels]
  /\ handlingCancel \subseteq Goals
  /\ cancelResponse \in [Goals -> {"CANCEL_ACCEPT", "CANCEL_REJECT", None}]
  /\ dangling \subseteq Goals
  /\ worker \in [Goals -> {"none", "looping", "waiting", "left", "exited"}]
  /\ waitQueue \in [Goals -> Seq(Outcomes \cup {"FEEDBACK"})]
  /\ local \in [Goals -> Outcomes \cup {"open", "dropped"}]
  /\ serverHandles \subseteq Goals /\ serverRemove \in Seq(Goals)
  /\ removing \in Goals \cup {None}
  /\ serverStop \in {"running", "stopping", "stopped"}
  /\ clientHandles \subseteq Goals /\ clientRemove \in Seq(Goals)
  /\ clientStop \in {"running", "stopping", "stopped"}
  /\ thread \in [Goals -> {"none", "looping", "waiting", "goal", "exited"}]
  /\ clientQueue \in [Goals -> Seq({"GOAL", "CANCEL"})]
  /\ clientGoal \subseteq Goals /\ clientCancel \subseteq Goals /\ done \subseteq Goals
  /\ remote \in [Goals -> Outcomes \cup {"idle", "requested", "active", "rejected"}]
  /\ fed \subseteq Goals /\ cancelAsked \subseteq Goals /\ canceling \subseteq Goals

NothingStopped == serverStop = "running" /\ clientStop = "running"

\* With one callback at a time, the handle of an executing goal stays in the map until
\* its thread has ended: no cancel request, answered or late, takes it away, so feedback,
\* results and cancel requests find it.
ExecutingIsRegistered ==
  ~Simultaneous /\ NothingStopped => \A g \in Goals : Executing(g) => g \in serverHandles

\* The thread of an executing goal is owed a result: the real goal is running, or its
\* result is under way, or stored, in whatever order the messages came and the thread
\* started.  A goal the real action rejected is the exception GoalFaithful shows.
ResultToCome ==
  ~Simultaneous /\ NothingStopped => \A g \in Goals :
    Executing(g) /\ remote[g] # "rejected" =>
      \/ remote[g] = "active"
      \/ \E i \in DOMAIN toServer : toServer[i].goal = g /\ toServer[i].op \in Outcomes
      \/ \E i \in DOMAIN waitQueue[g] : waitQueue[g][i] \in Outcomes

\* An executing goal has its handle, and a result to come for it
\* (ActionServer::handleAccepted, executeAccepted).
ExecutingIsServed == ExecutingIsRegistered /\ ResultToCome

\* A local goal succeeds or is cancelled only as the real one did, and it is cancelled
\* only if a local client asked or the other host stopped.
OutcomeFaithful ==
  \A g \in Goals :
    /\ local[g] \in {"SUCCEEDED", "CANCELED"} => remote[g] = local[g]
    /\ local[g] = "CANCELED" => cancels[g] > 0 \/ clientStopping

\* A cancel request is accepted only if the real action has accepted the cancellation,
\* whatever became of earlier requests that timed out.
CancelFaithful == \A g \in Goals : cancelResult[g] = "accept" => g \in canceling

\* What the local client is told of its goal is true of the real one
\* (ActionServer::executeAccepted, sendCancelAndWait).
Faithful == OutcomeFaithful /\ CancelFaithful

\* A callback of the ActionServer gives its executor thread back, also when the other
\* host answers with something else or not at all.
EveryCallbackReturns == \A g \in Goals : Busy(g) ~> ~Busy(g)

\* The result of the real goal ends the local goal.
ExecutingEnds ==
  \A g \in Goals : Executing(g) /\ remote[g] \in Outcomes ~> local[g] # "open"

\* A goal given up after ten seconds does not go on at the other host: its cancellation
\* reaches the real action even when it comes before the real action has answered.
AbandonedIsCancelled ==
  \A g \in Goals :
    goalCall[g] = "waiting" ~>
      goalResult[g] \in {"accept", "reject"} \/ g \in cancelAsked \/ [](remote[g] # "active")

\* A goal ends at both hosts, whichever ends it (ActionServer::executeAccepted,
\* ActionClient::executeHandle).
GoalsEnd == ExecutingEnds /\ AbandonedIsCancelled

\* Stated by goalRejected ("Callback method which should be called when the local goal
\* was rejected"): a goal the real action rejects is not accepted.
GoalFaithful == \A g \in Goals : goalResult[g] = "accept" => remote[g] # "rejected"

\* Stated by sendCancelAndWait ("wait for the response ... max wait 10 seconds to not block
\* indefinitely"): the handle whose condition variable it waits on, and whose response it
\* then reads, has not been erased meanwhile.
CancelHandleLives == dangling = {}
=============================================================================
