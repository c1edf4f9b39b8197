---------------------------- MODULE ServiceBridge ----------------------------
(***************************************************************************)
(* One ROS service carried over the connection.  The ServiceServer plugin  *)
(* of one host captures the calls of local ROS clients (sendAndWait, done) *)
(* and forwards them to the ServiceClient plugin of the other host, which  *)
(* calls the real service (handle, executeHandle) and returns its answer   *)
(* (sendAndDone).  Each plugin keeps a map from a gid to the handle of the *)
(* call and a thread that removes handles (Service::executeRemove).        *)
(*                                                                         *)
(* A call is named by its request; the gid of a call is the one of the ROS *)
(* client that made it (ServiceActionHandle copies writer_guid), so all    *)
(* the calls of a client share one gid.                                    *)
(***************************************************************************)
EXTENDS Naturals, Sequences

CONSTANTS
  Callers,     \* the gids: the ROS clients of the captured service
  Requests,    \* the calls they make
  gid,         \* the client that makes a call
  Sequential,  \* is the callback group of the ServiceServer mutually exclusive?
  Stops,       \* which plugins may be stopped, {} to {"server", "client"}
  None,        \* no handle, no response
  Error        \* the serialized error response of the ServiceClient

ASSUME BridgeAssumption ==
  /\ gid \in [Requests -> Callers]
  /\ Sequential \in BOOLEAN
  /\ Stops \subseteq {"server", "client"}
  /\ None \notin Requests /\ Error \notin Requests /\ None # Error

VARIABLES
  toClient,       \* messages to the ServiceClient, in sending order
  toServer,       \* messages to the ServiceServer
  (* ServiceServer *)
  call,           \* where the ROS callback of a request is in sendAndWait
  result,         \* what sendAndWait came to
  serverHandles,  \* Service::handles: the request whose handle has the gid
  handlingGoal,   \* the requests whose handle expects a response
  goalResponse,   \* the response stored in the handle of a request
  serverRemove,   \* Service::toRemove
  serverStop,     \* where ServiceServer::stop is
  cancelled,      \* the calls that stop() has answered with an error
  (* ServiceClient *)
  accepting,      \* the request handle() has a thread but no map entry for
  clientHandles,  \* Service::handles
  thread,         \* where the thread of a request is in executeHandle
  cancelQueued,   \* the requests whose waitQueue is not empty
  done,           \* the requests whose handle says done
  clientRemove,   \* Service::toRemove
  clientStop,     \* where ServiceClient::stop is
  joining,        \* the handle whose thread stop() joins
  service         \* the call of the real service

serverVars == <<call, result, serverHandles, handlingGoal, goalResponse,
                serverRemove, serverStop, cancelled>>
clientVars == <<accepting, clientHandles, thread, cancelQueued, done,
                clientRemove, clientStop, joining, service>>
vars == <<toClient, toServer, serverVars, clientVars>>

Bodies == Requests \cup {Error}
ToClient == [op : {"SERVICE_TO_CLIENT", "SERVICE_TO_CLIENT_CANCEL"}, request : Requests]
ToServer == [gid : Callers, body : Bodies]

serverStopping == serverStop \in {"stopping", "stopped"}
clientStopping == clientStop \in {"stopping", "joining", "stopped"}

InProgress(r) == call[r] \notin {"idle", "returned"}

SendToClient(op, r) == toClient' = Append(toClient, [op |-> op, request |-> r])
SendToServer(g, body) == toServer' = Append(toServer, [gid |-> g, body |-> body])

----------------------------------------------------------------------------
(* ServiceServer: the callback of a captured call.                         *)

\* sendAndWait returns nullptr and the callback answers with an error.
ReturnFailure(r, why) ==
  /\ call' = [call EXCEPT ![r] = "returned"]
  /\ result' = [result EXCEPT ![r] = why]
  /\ handlingGoal' = handlingGoal \ {r}
  /\ serverRemove' = Append(serverRemove, r)

\* (mutant) The callback group does not keep the calls apart.
BeginOverlapping(r) ==
  /\ call[r] = "idle"
  /\ call' = [call EXCEPT ![r] = IF serverStopping THEN "returned" ELSE "checked"]
  /\ result' = [result EXCEPT ![r] = IF serverStopping THEN "stopped" ELSE @]
  /\ UNCHANGED <<toClient, toServer, serverHandles, handlingGoal, goalResponse,
                 serverRemove, serverStop, cancelled, clientVars>>

\* The executor runs the callback; sendAndWait tests "stopping" first.
Begin(r) ==
  /\ call[r] = "idle"
  /\ Sequential => \A s \in Requests : ~InProgress(s)
  /\ IF serverStopping
     THEN /\ call' = [call EXCEPT ![r] = "returned"]
          /\ result' = [result EXCEPT ![r] = "stopped"]
     ELSE call' = [call EXCEPT ![r] = "checked"] /\ UNCHANGED result
  /\ UNCHANGED <<toClient, toServer, serverHandles, handlingGoal, goalResponse,
                 serverRemove, serverStop, cancelled, clientVars>>

\* std::map::insert leaves an entry that has the gid as it is.
Register(r) ==
  /\ call[r] = "checked"
  /\ call' = [call EXCEPT ![r] = "registered"]
  /\ serverHandles' = [serverHandles EXCEPT ![gid[r]] = IF @ = None THEN r ELSE @]
  /\ goalResponse' = [goalResponse EXCEPT ![r] = None]
  /\ handlingGoal' = handlingGoal \cup {r}
  /\ UNCHANGED <<toClient, toServer, result, serverRemove, serverStop, cancelled,
                 clientVars>>

SendRequest(r) ==
  /\ call[r] = "registered"
  /\ call' = [call EXCEPT ![r] = "sent"]
  /\ SendToClient("SERVICE_TO_CLIENT", r)
  /\ UNCHANGED <<toServer, result, serverHandles, handlingGoal, goalResponse,
                 serverRemove, serverStop, cancelled, clientVars>>

\* The test of "stopping" between sending and waiting.
StartWaiting(r) ==
  /\ call[r] = "sent"
  /\ IF serverStopping
     THEN ReturnFailure(r, "stopped")
     ELSE /\ call' = [call EXCEPT ![r] = "waiting"]
          /\ UNCHANGED <<result, handlingGoal, serverRemove>>
  /\ UNCHANGED <<toClient, toServer, serverHandles, goalResponse, serverStop,
                 cancelled, clientVars>>

\* (mutant) The other side is not told.
TimeoutSilent(r) ==
  /\ call[r] = "waiting" /\ ~serverStopping
  /\ goalResponse[r] = None
  /\ ReturnFailure(r, "timeout")
  /\ UNCHANGED <<toClient, toServer, serverHandles, goalResponse, serverStop, cancelled,
                 clientVars>>

\* wait_for returns after maxExecTime without a response.
Timeout(r) ==
  /\ call[r] = "waiting" /\ ~serverStopping
  /\ goalResponse[r] = None
  /\ SendToClient("SERVICE_TO_CLIENT_CANCEL", r)
  /\ ReturnFailure(r, "timeout")
  /\ UNCHANGED <<toServer, serverHandles, goalResponse, serverStop, cancelled,
                 clientVars>>

\* (mutant) The condition of the wait does not mention "stopping".
StopWaitingAnswered(r) ==
  /\ call[r] = "waiting" /\ serverStopping
  /\ goalResponse[r] # None
  /\ call' = [call EXCEPT ![r] = "returned"]
  /\ result' = [result EXCEPT ![r] = "stopped"]
  /\ UNCHANGED <<toClient, toServer, serverHandles, handlingGoal, goalResponse,
                 serverRemove, serverStop, cancelled, clientVars>>

\* The wait ends because of stop(), which has answered the call.
StopWaiting(r) ==
  /\ call[r] = "waiting" /\ serverStopping
  /\ call' = [call EXCEPT ![r] = "returned"]
  /\ result' = [result EXCEPT ![r] = "stopped"]
  /\ UNCHANGED <<toClient, toServer, serverHandles, handlingGoal, goalResponse,
                 serverRemove, serverStop, cancelled, clientVars>>

\* The wait ends with a response that decompresses and has the expected size.
TakeResponse(r) ==
  /\ call[r] = "waiting" /\ ~serverStopping
  /\ goalResponse[r] # None
  /\ call' = [call EXCEPT ![r] = "replying"]
  /\ result' = [result EXCEPT ![r] = "reply"]
  /\ handlingGoal' = handlingGoal \ {r}
  /\ UNCHANGED <<toClient, toServer, serverHandles, goalResponse, serverRemove,
                 serverStop, cancelled, clientVars>>

\* ...and with one that does not.
RejectResponse(r) ==
  /\ call[r] = "waiting" /\ ~serverStopping
  /\ goalResponse[r] # None
  /\ ReturnFailure(r, "failed")
  /\ UNCHANGED <<toClient, toServer, serverHandles, goalResponse, serverStop,
                 cancelled, clientVars>>

\* (mutant) done() does not call removeHandle.
DoneKeepsHandle(r) ==
  /\ call[r] = "replying"
  /\ call' = [call EXCEPT ![r] = "returned"]
  /\ handlingGoal' = handlingGoal \ {r}
  /\ UNCHANGED <<toClient, toServer, result, serverHandles, goalResponse, serverRemove,
                 serverStop, cancelled, clientVars>>

\* ServiceServer::done, the last call of the callback.
Done(r) ==
  /\ call[r] = "replying"
  /\ call' = [call EXCEPT ![r] = "returned"]
  /\ handlingGoal' = handlingGoal \ {r}
  /\ serverRemove' = Append(serverRemove, r)
  /\ UNCHANGED <<toClient, toServer, result, serverHandles, goalResponse, serverStop,
                 cancelled, clientVars>>

CallbackStep(r) ==
  \/ Register(r) \/ SendRequest(r) \/ StartWaiting(r) \/ Timeout(r)
  \/ StopWaiting(r) \/ TakeResponse(r) \/ RejectResponse(r) \/ Done(r)

(* ServiceServer: messages, removal, stop.                                 *)

\* (mutant) The response goes to some handle that expects one.
HandleResponseAnyGid ==
  /\ toServer # <<>>
  /\ toServer' = Tail(toServer)
  /\ \E h \in handlingGoal : goalResponse' = [goalResponse EXCEPT ![h] = Head(toServer).body]
  /\ UNCHANGED <<toClient, call, result, serverHandles, handlingGoal, serverRemove,
                 serverStop, cancelled, clientVars>>

\* (mutant) The response is stored with its header.
HandleResponseWhole ==
  /\ toServer # <<>>
  /\ toServer' = Tail(toServer)
  /\ \E h \in handlingGoal : goalResponse' = [goalResponse EXCEPT ![h] = Head(toServer)]
  /\ UNCHANGED <<toClient, call, result, serverHandles, handlingGoal, serverRemove,
                 serverStop, cancelled, clientVars>>

\* handle() stores a response, or drops it when its gid is unknown or the
\* handle with that gid expects none.
HandleResponse ==
  /\ toServer # <<>>
  /\ toServer' = Tail(toServer)
  /\ LET m == Head(toServer)
         h == serverHandles[m.gid]
     IN  IF h # None /\ h \in handlingGoal
         THEN goalResponse' = [goalResponse EXCEPT ![h] = m.body]
         ELSE UNCHANGED goalResponse
  /\ UNCHANGED <<toClient, call, result, serverHandles, handlingGoal, serverRemove,
                 serverStop, cancelled, clientVars>>

\* executeRemove erases whatever handle has the gid of the one in the queue.
ServerRemoves ==
  /\ serverRemove # <<>> /\ ~serverStopping
  /\ serverRemove' = Tail(serverRemove)
  /\ serverHandles' = [serverHandles EXCEPT ![gid[Head(serverRemove)]] = None]
  /\ UNCHANGED <<toClient, toServer, call, result, handlingGoal, goalResponse,
                 serverStop, cancelled, clientVars>>

\* ServiceServer::stop answers every call that has a handle...
ServerCancels ==
  /\ "server" \in Stops /\ serverStop = "running"
  /\ serverStop' = "cancelled"
  /\ cancelled' = {serverHandles[c] : c \in Callers} \ {None}
  /\ UNCHANGED <<toClient, toServer, call, result, serverHandles, handlingGoal,
                 goalResponse, serverRemove, clientVars>>

\* ...Service::stop sets the flag and joins the removing thread...
ServerFlags ==
  /\ serverStop = "cancelled"
  /\ serverStop' = "stopping"
  /\ UNCHANGED <<toClient, toServer, call, result, serverHandles, handlingGoal,
                 goalResponse, serverRemove, cancelled, clientVars>>

\* ...and drops the handles, which have no thread here, and the queue.
ServerClears ==
  /\ serverStop = "stopping"
  /\ serverStop' = "stopped"
  /\ serverHandles' = [c \in Callers |-> None]
  /\ serverRemove' = <<>>
  /\ UNCHANGED <<toClient, toServer, call, result, handlingGoal, goalResponse,
                 cancelled, clientVars>>

ServerStops == ServerCancels \/ ServerFlags \/ ServerClears

----------------------------------------------------------------------------
(* ServiceClient: messages.  handle() holds handlesMutex throughout, so    *)
(* nothing else reads or changes the map while a request is accepted,      *)
(* except stop(), which does not take the mutex.                           *)

\* A request whose gid is not known: its thread starts...
AcceptRequest(r) ==
  /\ accepting = None
  /\ toClient # <<>> /\ Head(toClient) = [op |-> "SERVICE_TO_CLIENT", request |-> r]
  /\ clientHandles[gid[r]] = None /\ ~clientStopping
  /\ toClient' = Tail(toClient)
  /\ accepting' = r
  /\ thread' = [thread EXCEPT ![r] = "starting"]
  /\ UNCHANGED <<toServer, clientHandles, cancelQueued, done, clientRemove, clientStop,
                 joining, service, serverVars>>

\* ...and only then is its handle inserted.
InsertHandle ==
  /\ accepting # None
  /\ clientHandles' = [clientHandles EXCEPT ![gid[accepting]] = accepting]
  /\ accepting' = None
  /\ UNCHANGED <<toClient, toServer, thread, cancelQueued, done, clientRemove,
                 clientStop, joining, service, serverVars>>

\* A request whose gid is known is answered with the error.
RefuseRequest(r) ==
  /\ accepting = None
  /\ toClient # <<>> /\ Head(toClient) = [op |-> "SERVICE_TO_CLIENT", request |-> r]
  /\ clientHandles[gid[r]] # None
  /\ toClient' = Tail(toClient)
  /\ SendToServer(gid[r], Error)
  /\ UNCHANGED <<clientVars, serverVars>>

\* A request while stopping, a cancellation whose gid is not known.
DropMessage(r) ==
  /\ accepting = None
  /\ toClient # <<>> /\ Head(toClient).request = r
  /\ clientHandles[gid[r]] = None
  /\ Head(toClient).op = "SERVICE_TO_CLIENT" => clientStopping
  /\ toClient' = Tail(toClient)
  /\ UNCHANGED <<toServer, clientVars, serverVars>>

\* Notifying waitCV wakes the thread only if it sleeps.
Woken(h) == IF thread[h] = "blocked" THEN "testing" ELSE thread[h]

\* A cancellation goes to the handle with its gid.  It takes waitMutex, which the
\* thread holds from the test of the wait's condition until it sleeps.
QueueCancel(r) ==
  /\ accepting = None
  /\ toClient # <<>> /\ Head(toClient) = [op |-> "SERVICE_TO_CLIENT_CANCEL", request |-> r]
  /\ LET h == clientHandles[gid[r]]
     IN  /\ h # None
         /\ thread[h] # "parking"
         /\ cancelQueued' = cancelQueued \cup {h}
         /\ thread' = [thread EXCEPT ![h] = Woken(h)]
  /\ toClient' = Tail(toClient)
  /\ UNCHANGED <<toServer, accepting, clientHandles, done, clientRemove, clientStop,
                 joining, service, serverVars>>

HandleAtClient(r) ==
  AcceptRequest(r) \/ RefuseRequest(r) \/ DropMessage(r) \/ QueueCancel(r)

----------------------------------------------------------------------------
(* ServiceClient: the thread of a request (executeHandle).                 *)

ThreadExits(r) ==
  /\ thread' = [thread EXCEPT ![r] = "exited"]
  /\ clientRemove' = Append(clientRemove, r)

\* The request does not decompress, has the wrong size or holds invalid data, or
\* the real service does not come alive.
AnswerError(r) ==
  /\ thread[r] = "starting"
  /\ SendToServer(gid[r], Error)
  /\ ThreadExits(r)
  /\ UNCHANGED <<toClient, accepting, clientHandles, cancelQueued, done, clientStop,
                 joining, service, serverVars>>

GiveUpStopping(r) ==
  /\ thread[r] = "starting" /\ clientStopping
  /\ ThreadExits(r)
  /\ UNCHANGED <<toClient, toServer, accepting, clientHandles, cancelQueued, done,
                 clientStop, joining, service, serverVars>>

\* asyncSendRequest, reached when stop() has not set the flag.
CallService(r) ==
  /\ thread[r] = "starting" /\ ~clientStopping
  /\ thread' = [thread EXCEPT ![r] = "testing"]
  /\ service' = [service EXCEPT ![r] = "pending"]
  /\ UNCHANGED <<toClient, toServer, accepting, clientHandles, cancelQueued, done,
                 clientRemove, clientStop, joining, serverVars>>

\* The condition of the wait on waitCV.
MayProceed(r) == r \in cancelQueued \/ r \in done \/ clientStopping

\* waitCV.wait tests its condition...
TestWait(r) ==
  /\ thread[r] = "testing"
  /\ thread' = [thread EXCEPT ![r] = IF MayProceed(r) THEN "woken" ELSE "parking"]
  /\ UNCHANGED <<toClient, toServer, accepting, clientHandles, cancelQueued, done,
                 clientRemove, clientStop, joining, service, serverVars>>

\* ...and, when it is false, sleeps.
Park(r) ==
  /\ thread[r] = "parking"
  /\ thread' = [thread EXCEPT ![r] = "blocked"]
  /\ UNCHANGED <<toClient, toServer, accepting, clientHandles, cancelQueued, done,
                 clientRemove, clientStop, joining, service, serverVars>>

\* After the wait: done or stopping, or else the call is cancelled.
FinishHandle(r) ==
  /\ thread[r] = "woken"
  /\ IF r \in done \/ clientStopping
     THEN UNCHANGED <<done, service>>
     ELSE /\ service' = [service EXCEPT ![r] = IF @ = "pending" THEN "removed" ELSE @]
          /\ done' = done \cup {r}
  /\ ThreadExits(r)
  /\ UNCHANGED <<toClient, toServer, accepting, clientHandles, cancelQueued, clientStop,
                 joining, serverVars>>

ThreadStep(r) ==
  \/ AnswerError(r) \/ GiveUpStopping(r) \/ CallService(r)
  \/ TestWait(r) \/ Park(r) \/ FinishHandle(r)

(* The callback of the real service's answer: sendAndDone.                 *)

\* rclcpp takes the callback of the pending request out and runs it.
ServiceAnswers(r) ==
  /\ service[r] = "pending"
  /\ service' = [service EXCEPT ![r] = "answering"]
  /\ UNCHANGED <<toClient, toServer, accepting, clientHandles, thread, cancelQueued,
                 done, clientRemove, clientStop, joining, serverVars>>

SendAnswer(r) ==
  /\ service[r] = "answering"
  /\ service' = [service EXCEPT ![r] = "answered"]
  /\ SendToServer(gid[r], r)
  /\ UNCHANGED <<toClient, accepting, clientHandles, thread, cancelQueued, done,
                 clientRemove, clientStop, joining, serverVars>>

\* done = true and notify_all, without waitMutex.
MarkDone(r) ==
  /\ service[r] = "answered"
  /\ service' = [service EXCEPT ![r] = "finished"]
  /\ done' = done \cup {r}
  /\ thread' = [thread EXCEPT ![r] = Woken(r)]
  /\ UNCHANGED <<toClient, toServer, accepting, clientHandles, cancelQueued,
                 clientRemove, clientStop, joining, serverVars>>

AnswerStep(r) == SendAnswer(r) \/ MarkDone(r)

(* ServiceClient: removal and stop.                                        *)

\* executeRemove joins the thread and erases the handle that has its gid.
ClientRemoves ==
  /\ accepting = None
  /\ clientRemove # <<>> /\ ~clientStopping
  /\ thread[Head(clientRemove)] = "exited"
  /\ clientRemove' = Tail(clientRemove)
  /\ clientHandles' = [clientHandles EXCEPT ![gid[Head(clientRemove)]] = None]
  /\ UNCHANGED <<toClient, toServer, accepting, thread, cancelQueued, done, clientStop,
                 joining, service, serverVars>>

\* ServiceClient::stop removes the pending requests from the rclcpp client...
ClientPrunes ==
  /\ "client" \in Stops /\ clientStop = "running"
  /\ clientStop' = "pruned"
  /\ service' = [r \in Requests |-> IF service[r] = "pending" THEN "removed" ELSE service[r]]
  /\ UNCHANGED <<toClient, toServer, accepting, clientHandles, thread, cancelQueued, done,
                 clientRemove, joining, serverVars>>

\* ...Service::stop sets the flag and joins the removing thread...
ClientFlags ==
  /\ clientStop = "pruned"
  /\ clientStop' = "stopping"
  /\ UNCHANGED <<toClient, toServer, accepting, clientHandles, thread, cancelQueued, done,
                 clientRemove, joining, service, serverVars>>

\* ...then notifies a handle, without waitMutex, and joins its thread...
ClientNotifies(r) ==
  /\ clientStop = "stopping"
  /\ clientHandles[gid[r]] = r
  /\ clientStop' = "joining" /\ joining' = r
  /\ thread' = [thread EXCEPT ![r] = Woken(r)]
  /\ UNCHANGED <<toClient, toServer, accepting, clientHandles, cancelQueued, done,
                 clientRemove, service, serverVars>>

\* (mutant) The thread is not joined.
ClientErases ==
  /\ clientStop = "joining"
  /\ clientStop' = "stopping" /\ joining' = None
  /\ clientHandles' = [clientHandles EXCEPT ![gid[joining]] = None]
  /\ UNCHANGED <<toClient, toServer, accepting, thread, cancelQueued, done, clientRemove,
                 service, serverVars>>

\* ...erases it when the thread has ended...
ClientJoins ==
  /\ clientStop = "joining" /\ thread[joining] = "exited"
  /\ clientStop' = "stopping" /\ joining' = None
  /\ clientHandles' = [clientHandles EXCEPT ![gid[joining]] = None]
  /\ UNCHANGED <<toClient, toServer, accepting, thread, cancelQueued, done, clientRemove,
                 service, serverVars>>

\* ...and returns when it finds no handle any more.
ClientStopped ==
  /\ clientStop = "stopping"
  /\ \A c \in Callers : clientHandles[c] = None
  /\ clientStop' = "stopped"
  /\ clientRemove' = <<>>
  /\ UNCHANGED <<toClient, toServer, accepting, clientHandles, thread, cancelQueued, done,
                 joining, service, serverVars>>

ClientStops ==
  ClientPrunes \/ ClientFlags \/ ClientJoins \/ ClientStopped
    \/ \E r \in Requests : ClientNotifies(r)

----------------------------------------------------------------------------

Init ==
  /\ toClient = <<>> /\ toServer = <<>>
  /\ call = [r \in Requests |-> "idle"]
  /\ result = [r \in Requests |-> "open"]
  /\ serverHandles = [c \in Callers |-> None]
  /\ handlingGoal = {}
  /\ goalResponse = [r \in Requests |-> None]
  /\ serverRemove = <<>>
  /\ serverStop = "running"
  /\ cancelled = {}
  /\ accepting = None
  /\ clientHandles = [c \in Callers |-> None]
  /\ thread = [r \in Requests |-> "none"]
  /\ cancelQueued = {} /\ done = {}
  /\ clientRemove = <<>>
  /\ clientStop = "running"
  /\ joining = None
  /\ service = [r \in Requests |-> "idle"]

ServerNext ==
  \/ \E r \in Requests : Begin(r) \/ CallbackStep(r)
  \/ HandleResponse
  \/ ServerRemoves
  \/ ServerStops

ClientNext ==
  \/ \E r \in Requests : HandleAtClient(r) \/ ThreadStep(r)
  \/ \E r \in Requests : ServiceAnswers(r) \/ AnswerStep(r)
  \/ InsertHandle
  \/ ClientRemoves
  \/ ClientStops

Next == ServerNext \/ ClientNext

Spec == Init /\ [][Next]_vars

\* Every thread of the two processes runs, maxExecTime passes, the connection
\* delivers.  The real service need not answer and nobody has to call or stop.
Fairness ==
  /\ \A r \in Requests :
       /\ WF_vars(CallbackStep(r))
       /\ WF_vars(ThreadStep(r))
       /\ WF_vars(AnswerStep(r))
  /\ WF_vars(HandleResponse) /\ WF_vars(ServerRemoves)
  /\ WF_vars(ServerFlags \/ ServerClears)
  /\ WF_vars(\E r \in Requests : HandleAtClient(r))
  /\ WF_vars(InsertHandle) /\ WF_vars(ClientRemoves)
  /\ WF_vars(ClientFlags \/ ClientJoins \/ ClientStopped
                \/ \E r \in Requests : ClientNotifies(r))

FairSpec == Spec /\ Fairness

----------------------------------------------------------------------------
(* Properties.                                                             *)

TypeOK ==
  /\ toClient \in Seq(ToClient) /\ toServer \in Seq(ToServer)
  /\ call \in [Requests -> {"idle", "checked", "registered", "sent", "waiting",
                            "replying", "returned"}]
  /\ result \in [Requests -> {"open", "reply", "timeout", "failed", "stopped"}]
  /\ serverHandles \in [Callers -> Requests \cup {None}]
  /\ handlingGoal \subseteq Requests
  /\ goalResponse \in [Requests -> Bodies \cup {None}]
  /\ serverRemove \in Seq(Requests)
  /\ serverStop \in {"running", "cancelled", "stopping", "stopped"}
  /\ cancelled \subseteq Requests
  /\ accepting \in Requests \cup {None}
  /\ clientHandles \in [Callers -> Requests \cup {None}]
  /\ thread \in [Requests -> {"none", "starting", "testing", "parking", "blocked",
                              "woken", "exited"}]
  /\ cancelQueued \subseteq Requests /\ done \subseteq Requests
  /\ clientRemove \in Seq(Requests)
  /\ clientStop \in {"running", "pruned", "stopping", "joining", "stopped"}
  /\ joining \in Requests \cup {None}
  /\ service \in [Requests -> {"idle", "pending", "answering", "answered",
                               "finished", "removed"}]

Queued(q, r) == \E i \in DOMAIN q : q[i] = r

\* The thread of an accepted request is running executeHandle.
Running(r) == thread[r] \notin {"none", "exited"}

\* A handle found by handle() under a gid belongs to the client with that gid, and
\* so does every response stored in it: two ROS clients never see each other's
\* answers, whatever times out, overlaps or is removed late.
Isolation ==
  /\ \A c \in Callers : serverHandles[c] # None => gid[serverHandles[c]] = c
  /\ \A r \in Requests : goalResponse[r] \in Requests => gid[goalResponse[r]] = gid[r]

\* No handle is leaked by the ServiceServer: one that is still in the map belongs
\* to a call in progress or to one its removing thread has still to deal with.
ServerHandlesAccounted ==
  ~serverStopping => \A c \in Callers : serverHandles[c] # None =>
    InProgress(serverHandles[c]) \/ Queued(serverRemove, serverHandles[c])

\* A running executeHandle is found under its gid, from the insertion on: a
\* cancellation can reach it, no second request of the client starts beside it,
\* and no handle is erased whose std::thread has not ended.
RunningIsRegistered ==
  \A r \in Requests :
    Running(r) /\ accepting # r => clientHandles[gid[r]] = r

\* With one callback at a time, a cancellation never ends a call that is still open:
\* the handle it meets is that of the call that timed out or of an earlier one.
CancelSparesOpenCalls ==
  Sequential /\ accepting = None /\ toClient # <<>> =>
    LET m == Head(toClient)
        h == clientHandles[gid[m.request]]
    IN  m.op = "SERVICE_TO_CLIENT_CANCEL" /\ h # None => result[h] # "open"

\* With one callback at a time, a call gets the answer to another call only after a
\* call of its client timed out: one late answer shifts those that follow.
MisreplyNeedsTimeout ==
  Sequential => \A r \in Requests :
    result[r] = "reply" /\ goalResponse[r] \notin {r, Error} =>
      \E s \in Requests : gid[s] = gid[r] /\ result[s] = "timeout"

\* With one callback at a time, answers and cancellations meet their own call, or one
\* whose fault it is (ServiceServer::handle, ServiceClient::handle).
MeetsItsCall == CancelSparesOpenCalls /\ MisreplyNeedsTimeout

\* No captured call keeps its executor thread: sendAndWait ends, by a response, by
\* maxExecTime or by stop().
EveryCallReturns == \A r \in Requests : InProgress(r) ~> call[r] = "returned"

\* A call that timed out does not stay with the ServiceClient: the cancellation
\* ends its thread, even one whose notification by sendAndDone was lost.
TimedOutIsReleased ==
  \A r \in Requests : result[r] = "timeout" ~> [](clientHandles[gid[r]] # r)

\* Stated by the README ("which can then respond to the call with the response"): a
\* call is answered with its own answer or with the error.
ReplyMatches ==
  \A r \in Requests : result[r] = "reply" => goalResponse[r] \in {r, Error}

\* Stated by sendAndWait ("create a handle using the request header and store the
\* handle"): the handle of a waiting call is the one a response is given to.
WaitingIsRegistered ==
  \A r \in Requests :
    call[r] = "waiting" /\ ~serverStopping => serverHandles[gid[r]] = r

\* Stated by executeHandle ("and wait until notified. only wake up if ... we are
\* done"): the thread of a call that is done ends.
DoneIsReleased == \A r \in Requests : r \in done ~> thread[r] = "exited"
=============================================================================
