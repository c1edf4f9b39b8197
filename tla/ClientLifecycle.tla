-------------------------- MODULE ClientLifecycle --------------------------
(***************************************************************************)
(* The threads of the client process: how it connects, and how it ends.    *)
(*                                                                         *)
(* The main thread creates the Client, lets the ROS 2 executor spin and,   *)
(* when the executor returns, halts (connectClient.cpp).  The handler of   *)
(* Ctrl-C halts too: on the main thread, in the middle of what it does.    *)
(* The client thread (Client::run) connects, once, and then executes, on   *)
(* its strand, the requests to stop the connection; the connection has a   *)
(* thread of its own, which starts the managers.  Both the main thread and *)
(* the client thread stop the client (Client::onStopThread).               *)
(*                                                                         *)
(* The three managers are one thread here (ServerLifecycle has the three). *)
(* The list of connections is not locked: its search and the erasure are   *)
(* two steps, as in ServerLifecycle.  A signal that arrives while the      *)
(* Client is being created, or while halt() runs, has undefined behaviour  *)
(* and is left out.                                                        *)
(***************************************************************************)
EXTENDS Naturals

VARIABLES
  ssl,          \* GlobalConfig::ssl
  ok,           \* rclcpp::ok()
  has,          \* is ConnectClient::webSocketConnection set?
  spinning,     \* the flag of the executor that cancel() clears
  interrupted,  \* where the signal handler interrupted the main thread
  iocStopped,   \* is the io_context of the client stopped?
  posted,       \* is a stop request on its strand?
  listed,       \* is the connection in ConnectionManager::connections?
  pc,           \* where the main thread and the client thread are
  resume,       \* where they continue after Client::stopThread
  at,           \* where the thread of the connection is
  reading,      \* is an async_read under way?
  writing,      \* is the stream in use for writes?
  connStopped,  \* is the io_context of the connection stopped?
  manager,      \* the thread of the managers
  stopping,     \* their Thread::stopping
  closed,       \* has the connection been closed?
  unheard,      \* history: the executor was cancelled before it spun
  overlap,      \* history: the stop began while the managers were being started
  lost,         \* history: a thread of theirs missed the notification to stop
  raced,        \* history: both threads were at work on the list
  entangled     \* what Ctrl-C interrupted holds a mutex that halt needs

mainVars == <<ssl, ok, has, spinning, interrupted>>
clientVars == <<iocStopped, posted, listed>>
stopperVars == <<pc, resume>>
handlerVars == <<at, reading, writing>>
managerVars == <<manager, stopping>>
closeVars == <<connStopped, closed>>
historyVars == <<unheard, overlap, lost>>
haltVars == <<raced, entangled>>
vars == <<mainVars, clientVars, stopperVars, handlerVars, managerVars, closeVars,
          historyVars, haltVars>>

Stoppers == {"main", "client"}
Other(p) == IF p = "main" THEN "client" ELSE "main"
Joined == {"none", "ended"}             \* a thread that joinThread does not wait for
ListSteps == {"search", "erase"}
StopSteps == {"stop", "flag", "inner", "join", "joinConn", "close", "destroy"}
ClientStop == {"stopClient", "stopAll", "cancel"} \cup ListSteps \cup StopSteps
MainSteps == {"create", "add", "spinning", "joinClient", "done"}
ClientSteps == {"none", "connect", "tls", "start", "push", "run", "ended"}

Goto(p, step) == pc' = [pc EXCEPT ![p] = step]

\* Client::stopThread begins; p continues at "then".
StopClient(p, then) ==
  /\ Goto(p, "stopClient")
  /\ resume' = [resume EXCEPT ![p] = then]

----------------------------------------------------------------------------
(* The main thread.                                                        *)

\* ConnectClient::spin: the Client is created and its thread is started.
Create ==
  /\ pc["main"] = "create"
  /\ has' = TRUE
  /\ pc' = [pc EXCEPT !["main"] = "add", !["client"] = "connect"]
  /\ UNCHANGED <<ssl, ok, spinning, interrupted, resume, clientVars>>
  /\ UNCHANGED <<handlerVars, managerVars, closeVars, historyVars, haltVars>>

\* The thread cannot be created: the ROS 2 context is shut down.
CreateFails ==
  /\ pc["main"] = "create"
  /\ has' = TRUE
  /\ ok' = FALSE
  /\ pc' = [pc EXCEPT !["main"] = "add", !["client"] = "ended"]
  /\ UNCHANGED <<ssl, spinning, interrupted, resume, clientVars>>
  /\ UNCHANGED <<handlerVars, managerVars, closeVars, historyVars, haltVars>>

\* MultiThreadedExecutor::spin sets its flag, whatever it was ...
Spin ==
  /\ pc["main"] = "add"
  /\ spinning' = TRUE
  /\ Goto("main", "spinning")
  /\ UNCHANGED <<ssl, ok, has, interrupted, resume, clientVars>>
  /\ UNCHANGED <<handlerVars, managerVars, closeVars, historyVars, haltVars>>

\* ... and returns when the flag is cleared or the context is shut down; main() then
\* halts.
SpinReturns ==
  /\ pc["main"] = "spinning"
  /\ ~spinning \/ ~ok
  /\ spinning' = FALSE
  /\ IF has THEN StopClient("main", "joinClient")
            ELSE Goto("main", "done") /\ UNCHANGED resume
  /\ UNCHANGED <<ssl, ok, has, interrupted, clientVars>>
  /\ UNCHANGED <<handlerVars, managerVars, closeVars, historyVars, haltVars>>

\* Ctrl-C: the handler calls halt() on the main thread, which is one of the
\* executor's, in the middle of whatever callback it is in.
Interrupt ==
  /\ pc["main"] \in {"add", "spinning"} /\ has
  /\ interrupted' = pc["main"]
  /\ entangled' \in BOOLEAN
  /\ StopClient("main", "joinClient")
  /\ UNCHANGED <<ssl, ok, has, spinning, clientVars, raced>>
  /\ UNCHANGED <<handlerVars, managerVars, closeVars, historyVars>>

\* SIGTERM: rclcpp::shutdown().
Terminate ==
  /\ pc["main"] \in {"add", "spinning"} /\ ok
  /\ ok' = FALSE
  /\ UNCHANGED <<ssl, has, spinning, interrupted, clientVars, stopperVars>>
  /\ UNCHANGED <<handlerVars, managerVars, closeVars, historyVars, haltVars>>

\* The rest of halt(): joinThread, reset().  The handler returns to what it
\* interrupted; main() shuts the context down and ends.
JoinClient ==
  /\ pc["main"] = "joinClient"
  /\ pc["client"] = "ended"
  /\ has' = FALSE
  /\ Goto("main", IF interrupted = "no" THEN "done" ELSE interrupted)
  /\ interrupted' = "no"
  /\ UNCHANGED <<ssl, ok, spinning, resume, clientVars>>
  /\ UNCHANGED <<handlerVars, managerVars, closeVars, historyVars, haltVars>>

----------------------------------------------------------------------------
(* The client thread.                                                      *)

\* connect() up to the socket: resolving and connecting may fail.
connect ==
  /\ pc["client"] = "connect"
  /\ \/ Goto("client", IF ssl THEN "tls" ELSE "start") /\ UNCHANGED resume
     \/ StopClient("client", "ended")
  /\ UNCHANGED <<mainVars, clientVars>>
  /\ UNCHANGED <<handlerVars, managerVars, closeVars, historyVars, haltVars>>

\* The TLS handshake: the client waits for the peer, without a timeout.
handshakeTls ==
  /\ pc["client"] = "tls"
  /\ \/ Goto("client", "start") /\ UNCHANGED resume
     \/ StopClient("client", "ended")
  /\ UNCHANGED <<mainVars, clientVars>>
  /\ UNCHANGED <<handlerVars, managerVars, closeVars, historyVars, haltVars>>

\* startConnection: the thread of the connection is started ...
startConnection ==
  /\ pc["client"] = "start"
  /\ at' = "handshake"
  /\ Goto("client", "push")
  /\ UNCHANGED <<mainVars, clientVars, resume, reading, writing>>
  /\ UNCHANGED <<managerVars, closeVars, historyVars, haltVars>>

\* ... and the connection is added to the list.
PushConnection ==
  /\ pc["client"] = "push"
  /\ listed' = TRUE
  /\ Goto("client", "run")
  /\ UNCHANGED <<mainVars, iocStopped, posted, resume>>
  /\ UNCHANGED <<handlerVars, managerVars, closeVars, historyVars, haltVars>>

\* ioc.run() executes the stop request (stopConnectionInternal).
TakeStop ==
  /\ pc["client"] = "run" /\ ~iocStopped
  /\ posted
  /\ posted' = FALSE
  /\ Goto("client", "search")
  /\ resume' = [resume EXCEPT !["client"] = "callback"]
  /\ UNCHANGED <<mainVars, iocStopped, listed>>
  /\ UNCHANGED <<handlerVars, managerVars, closeVars, historyVars, haltVars>>

\* (mutant) run() ends when ioc.run() returns.
RunReturnsOnly ==
  /\ pc["client"] = "run" /\ iocStopped
  /\ Goto("client", "ended")
  /\ UNCHANGED <<mainVars, clientVars, resume>>
  /\ UNCHANGED <<handlerVars, managerVars, closeVars, historyVars, haltVars>>

\* ioc.run() returns, possibly at once: "Connection lost", stopThread.
RunReturns ==
  /\ pc["client"] = "run" /\ iocStopped
  /\ StopClient("client", "ended")
  /\ UNCHANGED <<mainVars, clientVars>>
  /\ UNCHANGED <<handlerVars, managerVars, closeVars, historyVars, haltVars>>

----------------------------------------------------------------------------
(* Client::onStopThread, on the main thread or the client thread.          *)

StopIoc(p) ==
  /\ pc[p] = "stopClient"
  /\ iocStopped' = TRUE
  /\ Goto(p, "stopAll")
  /\ UNCHANGED <<mainVars, posted, listed, resume>>
  /\ UNCHANGED <<handlerVars, managerVars, closeVars, historyVars, haltVars>>

\* The test of stopAllConnections.
stopAllConnections(p) ==
  /\ pc[p] = "stopAll"
  /\ Goto(p, IF listed THEN "search" ELSE "cancel")
  /\ UNCHANGED <<mainVars, clientVars, resume>>
  /\ UNCHANGED <<handlerVars, managerVars, closeVars, historyVars, haltVars>>

\* (mutant) Nobody cancels the executor.
CancelNot(p) ==
  /\ pc[p] = "cancel"
  /\ Goto(p, resume[p])
  /\ UNCHANGED <<mainVars, clientVars, resume>>
  /\ UNCHANGED <<handlerVars, managerVars, closeVars, historyVars, haltVars>>

\* executor.cancel() clears the flag of an executor that may not spin yet.
Cancel(p) ==
  /\ pc[p] = "cancel"
  /\ spinning' = FALSE
  /\ unheard' = (unheard \/ pc["main"] = "add" \/ interrupted = "add")
  /\ Goto(p, resume[p])
  /\ UNCHANGED <<ssl, ok, has, interrupted, clientVars, resume>>
  /\ UNCHANGED <<handlerVars, managerVars, closeVars, overlap, lost, haltVars>>

----------------------------------------------------------------------------
(* Stopping the connection: whoever erased it from the list does.          *)

\* stopConnectionInternal looks the connection up.  The other thread may have erased
\* it: before a request is executed, or after the test of stopAllConnections.
SearchConnection(p) ==
  /\ pc[p] = "search"
  /\ IF listed
     THEN Goto(p, "erase")
     ELSE Goto(p, IF resume[p] = "callback" THEN "run" ELSE "stopAll")
  /\ UNCHANGED <<mainVars, clientVars, resume>>
  /\ UNCHANGED <<handlerVars, managerVars, closeVars, historyVars, haltVars>>

\* It erases what the iterator points to.  The other thread, when it goes through the
\* list or is between its search and its erasure, has an iterator that is no longer
\* valid: what it erases then is the connection or nothing.
EraseConnection(p) ==
  /\ pc[p] = "erase"
  /\ listed' \in (IF raced THEN {FALSE, listed} ELSE {FALSE})
  /\ raced' = (raced \/ pc[Other(p)] \in ListSteps)
  /\ Goto(p, "stop")
  /\ UNCHANGED <<mainVars, iocStopped, posted, resume, entangled>>
  /\ UNCHANGED <<handlerVars, managerVars, closeVars, historyVars>>

\* stopThread of the connection: its io_context is stopped.
StopConnectionThread(p) ==
  /\ pc[p] = "stop"
  /\ connStopped' = TRUE
  /\ overlap' = (overlap \/ at \in {"flag", "spawn"})
  /\ Goto(p, "flag")
  /\ UNCHANGED <<mainVars, clientVars, resume, handlerVars, managerVars>>
  /\ UNCHANGED <<closed, unheard, lost, haltVars>>

\* stopThread of the managers: stopping = true, notify_all without the mutex.  Their
\* onStopThread also stops what they have started, which may miss its notification
\* in the same way.
StopManagers(p) ==
  /\ pc[p] = "flag"
  /\ stopping' = TRUE
  /\ manager' = IF manager = "asleep" THEN "awake" ELSE manager
  /\ \E missed \in BOOLEAN : lost' = (lost \/ missed \/ manager = "parking")
  /\ Goto(p, "inner")
  /\ UNCHANGED <<mainVars, clientVars, resume, handlerVars, closeVars>>
  /\ UNCHANGED <<unheard, overlap, haltVars>>

\* onStopThread has joined what the managers have started.
JoinInner(p) ==
  /\ pc[p] = "inner"
  /\ Goto(p, "join")
  /\ UNCHANGED <<mainVars, clientVars, resume, handlerVars, managerVars>>
  /\ UNCHANGED <<closeVars, historyVars, haltVars>>

JoinManagers(p) ==
  /\ pc[p] = "join"
  /\ manager \in Joined
  /\ manager' = "none"
  /\ Goto(p, "joinConn")
  /\ UNCHANGED <<mainVars, clientVars, resume, handlerVars, closeVars>>
  /\ UNCHANGED <<stopping, historyVars, haltVars>>

JoinConnection(p) ==
  /\ pc[p] = "joinConn"
  /\ at = "ended"
  /\ Goto(p, "close")
  /\ UNCHANGED <<mainVars, clientVars, resume, handlerVars, managerVars>>
  /\ UNCHANGED <<closeVars, historyVars, haltVars>>

\* (mutant) The close callback is not called.
FinishUncalled(p) == Goto(p, resume[p]) /\ UNCHANGED resume

\* After the stop that was requested, the close callback stops the client.
Finish(p) ==
  IF resume[p] = "callback"
  THEN StopClient(p, "run")
  ELSE Goto(p, "stopAll") /\ UNCHANGED resume

\* close() waits for the peer, without a time limit.  Then the connection is
\* destroyed, unless a send that was posted and will not run any more keeps a
\* reference.
CloseConnection(p) ==
  /\ pc[p] = "close"
  /\ closed' = TRUE
  /\ \/ Finish(p) /\ UNCHANGED stopping
     \/ Goto(p, "destroy") /\ stopping' = TRUE /\ UNCHANGED resume
  /\ UNCHANGED <<mainVars, clientVars, handlerVars, manager>>
  /\ UNCHANGED <<connStopped, historyVars, haltVars>>

\* ~Thread of the managers joins what is still there, and wakes nobody.
DestroyConnection(p) ==
  /\ pc[p] = "destroy"
  /\ manager \in Joined
  /\ manager' = "none"
  /\ Finish(p)
  /\ UNCHANGED <<mainVars, clientVars, handlerVars, stopping>>
  /\ UNCHANGED <<closeVars, historyVars, haltVars>>

----------------------------------------------------------------------------
(* The thread of the connection, and the managers.                         *)

\* A handler can run: the io_context is not stopped, no other handler runs.
CanRun(where) == at = where /\ ~connStopped

\* The handshake succeeds: onConnected sends the user key, onAuthorized begins.
Handshake ==
  /\ CanRun("handshake")
  /\ at' = "flag"
  /\ writing' = TRUE
  /\ UNCHANGED <<mainVars, clientVars, stopperVars, reading>>
  /\ UNCHANGED <<managerVars, closeVars, historyVars, haltVars>>

\* ... or fails, after 30 s at the latest.
HandshakeFails ==
  /\ CanRun("handshake")
  /\ at' = "loop"
  /\ posted' = TRUE
  /\ UNCHANGED <<mainVars, iocStopped, listed, stopperVars, reading, writing>>
  /\ UNCHANGED <<managerVars, closeVars, historyVars, haltVars>>

\* startThread of the managers: stopping = false ...
StartFlag ==
  /\ at = "flag"
  /\ stopping' = FALSE
  /\ at' = "spawn"
  /\ UNCHANGED <<mainVars, clientVars, stopperVars, reading, writing>>
  /\ UNCHANGED <<manager, closeVars, historyVars, haltVars>>

\* ... and new std::thread; then asyncRead.
StartSpawn ==
  /\ at = "spawn"
  /\ manager' = "awake"
  /\ at' = "loop"
  /\ reading' = TRUE
  /\ UNCHANGED <<mainVars, clientVars, stopperVars, writing>>
  /\ UNCHANGED <<stopping, closeVars, historyVars, haltVars>>

\* A message wakes a manager.
processMessage ==
  /\ CanRun("loop") /\ reading
  /\ manager = "asleep"
  /\ manager' = "awake"
  /\ UNCHANGED <<mainVars, clientVars, stopperVars, handlerVars>>
  /\ UNCHANGED <<stopping, closeVars, historyVars, haltVars>>

\* The server closes the connection, or the network does.
ReadFails ==
  /\ CanRun("loop") /\ reading
  /\ reading' = FALSE
  /\ posted' = TRUE
  /\ UNCHANGED <<mainVars, iocStopped, listed, stopperVars, at, writing>>
  /\ UNCHANGED <<managerVars, closeVars, historyVars, haltVars>>

WriteFails ==
  /\ CanRun("loop") /\ writing
  /\ writing' = FALSE
  /\ posted' = TRUE
  /\ UNCHANGED <<mainVars, iocStopped, listed, stopperVars, at, reading>>
  /\ UNCHANGED <<managerVars, closeVars, historyVars, haltVars>>

\* asyncRead finds the stream closed by a write that failed.
ReadStops ==
  /\ CanRun("loop") /\ reading /\ ~writing
  /\ reading' = FALSE
  /\ UNCHANGED <<mainVars, clientVars, stopperVars, at, writing>>
  /\ UNCHANGED <<managerVars, closeVars, historyVars, haltVars>>

\* A handler throws: run() requests the stop and ends.
HandlerThrows ==
  /\ CanRun("loop") /\ reading
  /\ at' = "ended"
  /\ posted' = TRUE
  /\ UNCHANGED <<mainVars, iocStopped, listed, stopperVars, reading, writing>>
  /\ UNCHANGED <<managerVars, closeVars, historyVars, haltVars>>

\* ioc->run() returns: it is stopped, or nothing is left to wait for.
RunEnds ==
  /\ \/ at \in {"handshake", "loop"} /\ connStopped
     \/ at = "loop" /\ ~reading
  /\ at' = "ended"
  /\ UNCHANGED <<mainVars, clientVars, stopperVars, reading, writing>>
  /\ UNCHANGED <<managerVars, closeVars, historyVars, haltVars>>

\* The managers test the condition of their wait ("parking": before the sleep) ...
ManagerTests ==
  /\ manager = "awake"
  /\ manager' = IF stopping THEN "ended" ELSE "parking"
  /\ UNCHANGED <<mainVars, clientVars, stopperVars, handlerVars>>
  /\ UNCHANGED <<stopping, closeVars, historyVars, haltVars>>

ManagerSleeps ==
  /\ manager = "parking"
  /\ manager' = "asleep"
  /\ UNCHANGED <<mainVars, clientVars, stopperVars, handlerVars>>
  /\ UNCHANGED <<stopping, closeVars, historyVars, haltVars>>

\* A manager hangs in unsubscribe: the thread of a ThreadedSubscriber has missed its
\* stop (TopicSubscription) ...
ManagerHangs ==
  /\ manager = "awake"
  /\ manager' = "held"
  /\ lost' = TRUE
  /\ UNCHANGED <<mainVars, clientVars, stopperVars, handlerVars>>
  /\ UNCHANGED <<stopping, closeVars, unheard, overlap, haltVars>>

\* ... until a message of its topic wakes it, which nothing guarantees.
ManagerResumes ==
  /\ manager = "held"
  /\ manager' = "awake"
  /\ UNCHANGED <<mainVars, clientVars, stopperVars, handlerVars>>
  /\ UNCHANGED <<stopping, closeVars, historyVars, haltVars>>

----------------------------------------------------------------------------
Init ==
  /\ ssl \in BOOLEAN
  /\ ok = TRUE /\ has = FALSE /\ spinning = FALSE /\ interrupted = "no"
  /\ iocStopped = FALSE /\ posted = FALSE /\ listed = FALSE
  /\ pc = [p \in Stoppers |-> IF p = "main" THEN "create" ELSE "none"]
  /\ resume = [p \in Stoppers |-> "none"]
  /\ at = "none" /\ reading = FALSE /\ writing = FALSE
  /\ connStopped = FALSE /\ closed = FALSE
  /\ manager = "none" /\ stopping = FALSE
  /\ unheard = FALSE /\ overlap = FALSE /\ lost = FALSE
  /\ raced = FALSE /\ entangled = FALSE

Main == Create \/ CreateFails \/ Spin \/ SpinReturns \/ JoinClient

ClientThread == connect \/ startConnection \/ PushConnection \/ TakeStop \/ RunReturns

Stop(p) ==
  \/ StopIoc(p) \/ stopAllConnections(p) \/ Cancel(p)
  \/ SearchConnection(p) \/ EraseConnection(p)
  \/ StopConnectionThread(p) \/ StopManagers(p) \/ JoinManagers(p)
  \/ JoinConnection(p) \/ DestroyConnection(p)

ConnectionSteps == Handshake \/ HandshakeFails \/ StartFlag \/ StartSpawn \/ RunEnds

Network == processMessage \/ ReadFails \/ WriteFails \/ ReadStops \/ HandlerThrows

Manager == ManagerTests \/ ManagerSleeps

Next ==
  \/ Main \/ Interrupt \/ Terminate
  \/ ClientThread \/ handshakeTls
  \/ \E p \in Stoppers : Stop(p) \/ JoinInner(p) \/ CloseConnection(p)
  \/ ConnectionSteps \/ Network \/ Manager \/ ManagerHangs \/ ManagerResumes

Spec == Init /\ [][Next]_vars

\* Threads that can run do, and connecting and the websocket handshake time out.
\* Nothing makes the peer answer in TLS, answer a close or send a message, and nobody
\* sends a signal.  What onStopThread joins ends unless it missed its stop, and a halt
\* that is entangled need not go on.
Fairness ==
  /\ WF_vars(Main) /\ WF_vars(ClientThread)
  /\ \A p \in Stoppers :
       /\ WF_vars(~(p = "main" /\ entangled) /\ Stop(p))
       /\ WF_vars(JoinInner(p) /\ ~entangled /\ ~lost)
  /\ WF_vars(ConnectionSteps)
  /\ WF_vars(Manager)

FairSpec == Spec /\ Fairness

----------------------------------------------------------------------------
(* Properties.                                                             *)

TypeOK ==
  /\ ssl \in BOOLEAN /\ ok \in BOOLEAN /\ has \in BOOLEAN /\ spinning \in BOOLEAN
  /\ interrupted \in {"no", "add", "spinning"}
  /\ iocStopped \in BOOLEAN /\ posted \in BOOLEAN /\ listed \in BOOLEAN
  /\ pc \in [Stoppers -> MainSteps \cup ClientSteps \cup ClientStop]
  /\ pc["main"] \in MainSteps \cup ClientStop
  /\ pc["client"] \in ClientSteps \cup ClientStop
  /\ resume \in [Stoppers -> {"none", "callback", "joinClient", "run", "ended"}]
  /\ pc["main"] \in ClientStop => resume["main"] = "joinClient"
  /\ at \in {"none", "handshake", "flag", "spawn", "loop", "ended"}
  /\ reading \in BOOLEAN /\ writing \in BOOLEAN
  /\ connStopped \in BOOLEAN /\ closed \in BOOLEAN
  /\ manager \in Joined \cup {"awake", "parking", "asleep", "held"} /\ stopping \in BOOLEAN
  /\ unheard \in BOOLEAN /\ overlap \in BOOLEAN /\ lost \in BOOLEAN
  /\ raced \in BOOLEAN /\ entangled \in BOOLEAN

\* When the client thread has ended, no connection is left behind, not even one that
\* was added after halt() had found none: the thread of the connection has ended and,
\* unless the stop met their start, the managers have (client.cpp:112-133).  Nothing is
\* said of what follows a race for the list.
NothingLeftBehind ==
  pc["client"] = "ended" /\ pc["main"] \notin StopSteps /\ ~raced =>
    /\ ~listed
    /\ at = "none" \/ (at = "ended" /\ closed /\ (manager = "none" \/ overlap))

\* The connection is stuck: the stop met the start of the managers, a thread missed the
\* notification, or both threads were at work on the list.
Stuck == overlap \/ lost \/ raced

\* The client waits for a peer that does not answer in TLS.
Waiting == pc["client"] = "tls"

\* Somebody waits for a peer to answer a close.
AwaitsPeer == \E p \in Stoppers : pc[p] = "close"

Done == pc["main"] = "done"

\* A lost connection, or one that could not be made, ends the application; what may
\* prevent it is a hang of the connection, a cancellation that came before the
\* executor spun (client.cpp:33-34, 105-109), or a Ctrl-C in the wrong callback.
LossEnds ==
  at = "ended" \/ pc["client"] = "ended" ~> Done \/ Stuck \/ unheard \/ entangled

\* SIGTERM ends the application, whenever it comes, unless the connection hangs, the
\* peer does not answer in TLS, or a Ctrl-C came before it in the wrong callback
\* (connectClient.cpp:58-63).
TerminateEnds == ~ok ~> Done \/ Stuck \/ Waiting \/ entangled

\* Ctrl-C ends it too, unless it comes before the executor spins, or in a callback that
\* holds a mutex which a thread that halt joins, or halt itself, needs.
InterruptEnds ==
  interrupted # "no" ~> Done \/ Stuck \/ Waiting \/ unheard \/ entangled

\* Whatever should end the application does, but for the named exceptions, and unless
\* a peer leaves a close unanswered for ever.
ApplicationEnds == (LossEnds /\ TerminateEnds /\ InterruptEnds) \/ <>[]AwaitsPeer

\* Stated by onStopThread ("we want the entire application to shut down, hence we cancel
\* the executor"): the application ends when no connection can be made.  A cancellation
\* that comes before the executor spins is without effect.
FailureEnds == pc["client"] = "ended" /\ at = "none" ~> Done \/ entangled

=============================================================================
