-------------------------- MODULE ServerLifecycle --------------------------
(***************************************************************************)
(* The threads of the server process: how connections are accepted,        *)
(* authorised, stopped and closed.                                         *)
(*                                                                         *)
(* The server thread (Server::run) accepts connections and, on its strand, *)
(* stops them (ConnectionManager::stopConnectionInternal).  Each           *)
(* connection has a thread that runs the handlers of its own io_context    *)
(* (WebsocketServerConnection::run).  Once authorised, it starts the       *)
(* threads of its managers, in order (onAuthorized); whoever stops the     *)
(* connection stops and joins them, in the same order (onStopThread).      *)
(* The main thread, on SIGINT, halts everything (ConnectServer::halt).     *)
(*                                                                         *)
(* A handler that waits for nothing is one action.  The list of            *)
(* connections is not locked: the search for a connection and its erasure  *)
(* are two steps, between which the other thread may change the list.      *)
(***************************************************************************)
EXTENDS Naturals, FiniteSets

CONSTANTS
  Conns,        \* the sockets that may be accepted
  None,         \* no connection
  LastManager   \* the managers are 1 .. LastManager (three in the code)

ASSUME ConnectionAssumption ==
  /\ None \notin Conns
  /\ LastManager \in Nat \ {0}

VARIABLES
  omit,         \* GlobalConfig::authenticationOmit
  listening,    \* is the acceptor open?
  iocStopped,   \* is the io_context of the server stopped?
  posted,       \* connections with a stop request on the server's strand
  connections,  \* ConnectionManager::connections
  pc,           \* where the server thread and the main thread are
  cur,          \* the connection they work on
  idx,          \* the manager they stop
  at,           \* where the thread of a connection is
  next,         \* the manager it starts
  reading,      \* is an async_read under way?
  writing,      \* is the stream in use for writes?
  checkTimer,   \* is authenticationCheckTimer running?
  endTimer,     \* is authenticationEndTimer running?
  asked,        \* has the user key of the client been read?
  valid,        \* authentication->isValid()
  connStopped,  \* is the io_context of the connection stopped?
  thread,       \* the threads of its managers
  stopping,     \* Thread::stopping of its managers
  closed,       \* has the connection been closed?
  overlap,      \* history: its stop began while it was being authorised
  lost,         \* history: a thread of it missed the notification to stop
  raced,        \* history: both threads were at work on the list
  entangled     \* the callback that Ctrl-C interrupted holds a mutex that halt needs

serverVars == <<omit, listening, iocStopped, posted, connections>>
stopperVars == <<pc, cur, idx>>
handlerVars == <<at, next, reading, writing, checkTimer, endTimer, asked, valid>>
managerVars == <<thread, stopping>>
closeVars == <<connStopped, closed, overlap, lost>>
haltVars == <<raced, entangled>>
vars == <<serverVars, stopperVars, handlerVars, managerVars, closeVars, haltVars>>

Managers == 1 .. LastManager
PublisherManager == 1
SubscriberManager == 2
Stoppers == {"server", "main"}
Other(p) == IF p = "server" THEN "main" ELSE "server"
Joined == {"none", "ended"}       \* a thread that joinThread does not wait for
Authorising == {"checking", "flag", "spawn"}
ListSteps == {"search", "erase"}
StopSteps ==
  {"stop", "flag", "inner", "join", "joinConn", "close", "destroyFlag", "destroyJoin"}
ServerSteps == {"idle", "push", "relisten", "ended"}
MainSteps == {"spin", "stopListening", "stopAll", "begin", "joinServer", "destroy", "done"}

Goto(p, step) == pc' = [pc EXCEPT ![p] = step]

\* Where a thread continues after stopConnectionInternal.
Idle(p) == IF p = "server" THEN "idle" ELSE "stopAll"

----------------------------------------------------------------------------
(* The thread of a connection.                                             *)

\* A handler can run: the io_context is not stopped, no other handler runs.
CanRun(c, where) == at[c] = where /\ ~connStopped[c]

\* ConnectionManager::stopConnection
stopConnection(c) == posted' = posted \cup {c}

\* onAuthorized begins.
Authorise(c) ==
  /\ at' = [at EXCEPT ![c] = "flag"]
  /\ next' = [next EXCEPT ![c] = 1]

\* (mutant) onConnected authorises every connection.
HandshakeAuthorises(c) ==
  /\ CanRun(c, "handshake")
  /\ reading' = [reading EXCEPT ![c] = TRUE]
  /\ Authorise(c)
  /\ UNCHANGED <<writing, checkTimer, endTimer, asked, valid>>
  /\ UNCHANGED <<serverVars, stopperVars, managerVars, closeVars, haltVars>>

\* The handshake succeeds: onConnected, then asyncRead.
Handshake(c) ==
  /\ CanRun(c, "handshake")
  /\ reading' = [reading EXCEPT ![c] = TRUE]
  /\ IF omit
     THEN Authorise(c) /\ UNCHANGED checkTimer
     ELSE /\ checkTimer' = [checkTimer EXCEPT ![c] = TRUE]
          /\ at' = [at EXCEPT ![c] = "loop"]
          /\ UNCHANGED next
  /\ UNCHANGED <<writing, endTimer, asked, valid>>
  /\ UNCHANGED <<serverVars, stopperVars, managerVars, closeVars, haltVars>>

\* (mutant) A failed handshake is only logged.
HandshakeFailsSilently(c) ==
  /\ CanRun(c, "handshake")
  /\ at' = [at EXCEPT ![c] = "loop"]
  /\ UNCHANGED <<next, reading, writing, checkTimer, endTimer, asked, valid>>
  /\ UNCHANGED <<serverVars, stopperVars, managerVars, closeVars, haltVars>>

\* The request cannot be read, or is refused.
HandshakeFails(c) ==
  /\ CanRun(c, "handshake")
  /\ at' = [at EXCEPT ![c] = "loop"]
  /\ stopConnection(c)
  /\ UNCHANGED <<omit, listening, iocStopped, connections>>
  /\ UNCHANGED <<next, reading, writing, checkTimer, endTimer, asked, valid>>
  /\ UNCHANGED <<stopperVars, managerVars, closeVars, haltVars>>

\* The user key arrives (the client sends it once, when it is connected); the
\* plug-in asks its web service.
validateUserKey(c) ==
  /\ CanRun(c, "loop") /\ reading[c]
  /\ ~omit /\ ~asked[c]
  /\ asked' = [asked EXCEPT ![c] = TRUE]
  /\ at' = [at EXCEPT ![c] = "checking"]
  /\ UNCHANGED <<next, reading, writing, checkTimer, endTimer, valid>>
  /\ UNCHANGED <<serverVars, stopperVars, managerVars, closeVars, haltVars>>

KeyIsInvalid(c) ==
  /\ at[c] = "checking"
  /\ at' = [at EXCEPT ![c] = "loop"]
  /\ stopConnection(c)
  /\ UNCHANGED <<omit, listening, iocStopped, connections>>
  /\ UNCHANGED <<next, reading, writing, checkTimer, endTimer, asked, valid>>
  /\ UNCHANGED <<stopperVars, managerVars, closeVars, haltVars>>

KeyIsValid(c) ==
  /\ at[c] = "checking"
  /\ valid' = [valid EXCEPT ![c] = TRUE]
  /\ Authorise(c)
  /\ UNCHANGED <<reading, writing, checkTimer, endTimer, asked>>
  /\ UNCHANGED <<serverVars, stopperVars, managerVars, closeVars, haltVars>>

\* Thread::startThread of a manager: stopping = false ...
StartFlag(c) ==
  /\ at[c] = "flag"
  /\ stopping' = [stopping EXCEPT ![c][next[c]] = FALSE]
  /\ at' = [at EXCEPT ![c] = "spawn"]
  /\ UNCHANGED <<next, reading, writing, checkTimer, endTimer, asked, valid>>
  /\ UNCHANGED <<serverVars, stopperVars, closeVars, haltVars, thread>>

\* ... and new std::thread.
StartSpawn(c) ==
  /\ at[c] = "spawn" /\ next[c] < LastManager
  /\ thread' = [thread EXCEPT ![c][next[c]] = "awake"]
  /\ at' = [at EXCEPT ![c] = "flag"]
  /\ next' = [next EXCEPT ![c] = @ + 1]
  /\ UNCHANGED <<reading, writing, checkTimer, endTimer, asked, valid>>
  /\ UNCHANGED <<serverVars, stopperVars, closeVars, haltVars, stopping>>

\* The last manager is started; the answer to the client is the first write,
\* and an authentication with an end starts its timer.
StartLast(c) ==
  /\ at[c] = "spawn" /\ next[c] = LastManager
  /\ thread' = [thread EXCEPT ![c][next[c]] = "awake"]
  /\ at' = [at EXCEPT ![c] = "loop"]
  /\ writing' = [writing EXCEPT ![c] = TRUE]
  /\ \E hasEnd \in BOOLEAN :
       endTimer' = [endTimer EXCEPT ![c] = hasEnd /\ ~omit]
  /\ UNCHANGED <<next, reading, checkTimer, asked, valid>>
  /\ UNCHANGED <<serverVars, stopperVars, closeVars, haltVars, stopping>>

\* A message is routed to a manager, which wakes up.  (The queue's mutex is held
\* from the test of the wait's condition to the sleep.)
processMessage(c, m) ==
  /\ CanRun(c, "loop") /\ reading[c]
  /\ thread[c][m] = "asleep"
  /\ thread' = [thread EXCEPT ![c][m] = "awake"]
  /\ UNCHANGED <<serverVars, stopperVars, handlerVars, closeVars, haltVars, stopping>>

\* The peer closes, or the read fails.
ReadFails(c) ==
  /\ CanRun(c, "loop") /\ reading[c]
  /\ reading' = [reading EXCEPT ![c] = FALSE]
  /\ stopConnection(c)
  /\ UNCHANGED <<omit, listening, iocStopped, connections>>
  /\ UNCHANGED <<at, next, writing, checkTimer, endTimer, asked, valid>>
  /\ UNCHANGED <<stopperVars, managerVars, closeVars, haltVars>>

WriteFails(c) ==
  /\ CanRun(c, "loop") /\ writing[c]
  /\ writing' = [writing EXCEPT ![c] = FALSE]
  /\ stopConnection(c)
  /\ UNCHANGED <<omit, listening, iocStopped, connections>>
  /\ UNCHANGED <<at, next, reading, checkTimer, endTimer, asked, valid>>
  /\ UNCHANGED <<stopperVars, managerVars, closeVars, haltVars>>

\* asyncRead finds the stream closed by a write that failed.
ReadStops(c) ==
  /\ CanRun(c, "loop") /\ reading[c]
  /\ (omit \/ valid[c]) /\ ~writing[c]
  /\ reading' = [reading EXCEPT ![c] = FALSE]
  /\ UNCHANGED <<at, next, writing, checkTimer, endTimer, asked, valid>>
  /\ UNCHANGED <<serverVars, stopperVars, managerVars, closeVars, haltVars>>

\* A handler throws (a message that cannot be decoded): run() ends.
HandlerThrows(c) ==
  /\ CanRun(c, "loop") /\ reading[c]
  /\ at' = [at EXCEPT ![c] = "ended"]
  /\ stopConnection(c)
  /\ UNCHANGED <<omit, listening, iocStopped, connections>>
  /\ UNCHANGED <<next, reading, writing, checkTimer, endTimer, asked, valid>>
  /\ UNCHANGED <<stopperVars, managerVars, closeVars, haltVars>>

validAuthenticationCheckCallback(c) ==
  /\ CanRun(c, "loop") /\ checkTimer[c]
  /\ checkTimer' = [checkTimer EXCEPT ![c] = FALSE]
  /\ IF valid[c] THEN UNCHANGED posted ELSE stopConnection(c)
  /\ UNCHANGED <<omit, listening, iocStopped, connections>>
  /\ UNCHANGED <<at, next, reading, writing, endTimer, asked, valid>>
  /\ UNCHANGED <<stopperVars, managerVars, closeVars, haltVars>>

authenticationEndCallback(c) ==
  /\ CanRun(c, "loop") /\ endTimer[c]
  /\ endTimer' = [endTimer EXCEPT ![c] = FALSE]
  /\ stopConnection(c)
  /\ UNCHANGED <<omit, listening, iocStopped, connections>>
  /\ UNCHANGED <<at, next, reading, writing, checkTimer, asked, valid>>
  /\ UNCHANGED <<stopperVars, managerVars, closeVars, haltVars>>

\* ioc->run() returns: it is stopped, or nothing is left to wait for.
RunEnds(c) ==
  /\ \/ at[c] \in {"handshake", "loop"} /\ connStopped[c]
     \/ at[c] = "loop" /\ ~reading[c] /\ ~checkTimer[c] /\ ~endTimer[c]
  /\ at' = [at EXCEPT ![c] = "ended"]
  /\ UNCHANGED <<next, reading, writing, checkTimer, endTimer, asked, valid>>
  /\ UNCHANGED <<serverVars, stopperVars, managerVars, closeVars, haltVars>>

----------------------------------------------------------------------------
(* The thread of a manager, between messages.                              *)

\* It tests the condition of its wait.  "parking" is before the sleep.
ManagerTests(c, m) ==
  /\ thread[c][m] = "awake"
  /\ thread' = [thread EXCEPT ![c][m] = IF stopping[c][m] THEN "ended" ELSE "parking"]
  /\ UNCHANGED <<serverVars, stopperVars, handlerVars, closeVars, haltVars, stopping>>

ManagerSleeps(c, m) ==
  /\ thread[c][m] = "parking"
  /\ thread' = [thread EXCEPT ![c][m] = "asleep"]
  /\ UNCHANGED <<serverVars, stopperVars, handlerVars, closeVars, haltVars, stopping>>

\* SubscriberManager::run hangs in unsubscribe: the thread of a ThreadedSubscriber
\* has missed its stop (TopicSubscription) ...
SubscriberHangs(c, m) ==
  /\ m = SubscriberManager
  /\ thread[c][m] = "awake"
  /\ thread' = [thread EXCEPT ![c][m] = "held"]
  /\ lost' = [lost EXCEPT ![c] = TRUE]
  /\ UNCHANGED <<serverVars, stopperVars, handlerVars, connStopped, closed, overlap>>
  /\ UNCHANGED <<haltVars, stopping>>

\* ... until a message of its topic wakes it, which nothing guarantees.
SubscriberResumes(c, m) ==
  /\ thread[c][m] = "held"
  /\ thread' = [thread EXCEPT ![c][m] = "awake"]
  /\ UNCHANGED <<serverVars, stopperVars, handlerVars, closeVars, haltVars, stopping>>

----------------------------------------------------------------------------
(* The server thread.                                                      *)

\* The accept handler: the acceptor is open, start() starts the thread ...
AcceptConnection(c) ==
  /\ pc["server"] = "idle" /\ ~iocStopped /\ listening
  /\ at[c] = "none"
  /\ at' = [at EXCEPT ![c] = "handshake"]
  /\ Goto("server", "push")
  /\ cur' = [cur EXCEPT !["server"] = c]
  /\ UNCHANGED <<idx, next, reading, writing, checkTimer, endTimer, asked, valid>>
  /\ UNCHANGED <<serverVars, managerVars, closeVars, haltVars>>

\* The list changes while the other thread goes through it, or is between its search
\* and its erasure: the iterator of that thread is no longer valid.
Invalidates(p) == raced' = (raced \/ pc[Other(p)] \in ListSteps)

\* ... and the connection is added to the list.
PushConnection ==
  /\ pc["server"] = "push"
  /\ connections' = connections \cup {cur["server"]}
  /\ Invalidates("server")
  /\ Goto("server", "idle")
  /\ cur' = [cur EXCEPT !["server"] = None]
  /\ UNCHANGED <<omit, listening, iocStopped, posted, idx, entangled>>
  /\ UNCHANGED <<handlerVars, managerVars, closeVars>>

\* The construction of a connection throws and its socket is lost: run() closes the
\* acceptor, restarts the io_context ...
AcceptThrows(c) ==
  /\ pc["server"] = "idle" /\ ~iocStopped /\ listening
  /\ at[c] = "none"
  /\ at' = [at EXCEPT ![c] = "ended"]
  /\ listening' = FALSE
  /\ Goto("server", "relisten")
  /\ UNCHANGED <<omit, iocStopped, posted, connections, cur, idx>>
  /\ UNCHANGED <<next, reading, writing, checkTimer, endTimer, asked, valid>>
  /\ UNCHANGED <<managerVars, closeVars, haltVars>>

\* ... and listens again, unless it is stopping.
Relisten ==
  /\ pc["server"] = "relisten"
  /\ IF pc["main"] = "spin"
     THEN listening' = TRUE /\ Goto("server", "idle")
     ELSE Goto("server", "ended") /\ UNCHANGED listening
  /\ UNCHANGED <<omit, iocStopped, posted, connections, cur, idx>>
  /\ UNCHANGED <<handlerVars, managerVars, closeVars, haltVars>>

ServerEnds ==
  /\ pc["server"] = "idle" /\ iocStopped
  /\ Goto("server", "ended")
  /\ UNCHANGED <<serverVars, cur, idx, handlerVars, managerVars, closeVars, haltVars>>

\* A stop request is executed.
TakeStop(c) ==
  /\ pc["server"] = "idle" /\ ~iocStopped
  /\ c \in posted
  /\ posted' = posted \ {c}
  /\ Goto("server", "search")
  /\ cur' = [cur EXCEPT !["server"] = c]
  /\ UNCHANGED <<omit, listening, iocStopped, connections, idx>>
  /\ UNCHANGED <<handlerVars, managerVars, closeVars, haltVars>>

----------------------------------------------------------------------------
(* Stopping a connection, on the server thread or the main thread.         *)

\* Where a thread goes when a connection is dealt with.
Finish(p) ==
  /\ Goto(p, Idle(p))
  /\ cur' = [cur EXCEPT ![p] = None]

\* stopConnectionInternal looks the connection up; nothing happens when it is not
\* in the list.  Once the threads have raced, the search finds anything.
SearchConnection(p) ==
  /\ pc[p] = "search"
  /\ \/ /\ cur[p] \in connections \/ raced
        /\ Goto(p, "erase") /\ UNCHANGED cur
     \/ /\ cur[p] \notin connections \/ raced
        /\ Finish(p)
  /\ UNCHANGED <<idx, serverVars, handlerVars, managerVars, closeVars, haltVars>>

\* (mutant) The connection is not erased before it is stopped.
EraseConnectionNot(p) ==
  /\ pc[p] = "erase"
  /\ UNCHANGED connections
  /\ Invalidates(p)
  /\ Goto(p, "stop")
  /\ UNCHANGED <<omit, listening, iocStopped, posted, cur, idx, entangled>>
  /\ UNCHANGED <<handlerVars, managerVars, closeVars>>

\* It erases what the iterator points to, which, once the threads have raced, is
\* any connection or none, and goes on to stop the one it has looked up.
EraseConnection(p) ==
  /\ pc[p] = "erase"
  /\ IF raced THEN \E gone \in SUBSET connections :
                      Cardinality(gone) <= 1 /\ connections' = connections \ gone
              ELSE connections' = connections \ {cur[p]}
  /\ Invalidates(p)
  /\ Goto(p, "stop")
  /\ UNCHANGED <<omit, listening, iocStopped, posted, cur, idx, entangled>>
  /\ UNCHANGED <<handlerVars, managerVars, closeVars>>

\* stopThread of the connection: its io_context is stopped.
StopConnectionThread(p) ==
  /\ pc[p] = "stop"
  /\ connStopped' = [connStopped EXCEPT ![cur[p]] = TRUE]
  /\ overlap' = [overlap EXCEPT ![cur[p]] = @ \/ at[cur[p]] \in Authorising]
  /\ Goto(p, "flag")
  /\ idx' = [idx EXCEPT ![p] = 1]
  /\ UNCHANGED <<cur, closed, lost, serverVars, handlerVars, managerVars, haltVars>>

\* (mutant) onStopThread of the manager does not wake its thread.
StopManagerSilent(p) ==
  /\ pc[p] = "flag"
  /\ stopping' = [stopping EXCEPT ![cur[p]][idx[p]] = TRUE]
  /\ Goto(p, "inner")
  /\ UNCHANGED <<cur, idx, thread, closeVars, serverVars, handlerVars, haltVars>>

\* stopThread of a manager: stopping = true, notify_all without the mutex.  Its
\* onStopThread also stops what the manager has started: subscribers, the clock and
\* plug-ins may miss their notifications in the same way.  (The monitor and the
\* ThreadedPublishers of the PublisherManager wait with a limit.)
StopManager(p) ==
  LET c == cur[p]
      m == idx[p]
  IN /\ pc[p] = "flag"
     /\ stopping' = [stopping EXCEPT ![c][m] = TRUE]
     /\ thread' = [thread EXCEPT ![c][m] = IF @ = "asleep" THEN "awake" ELSE @]
     /\ \E missed \in BOOLEAN :
          /\ missed => m # PublisherManager
          /\ lost' = [lost EXCEPT ![c] = @ \/ missed \/ thread[c][m] = "parking"]
     /\ Goto(p, "inner")
     /\ UNCHANGED <<cur, idx, connStopped, closed, overlap, serverVars, handlerVars, haltVars>>

\* onStopThread has joined what the manager has started.
JoinInner(p) ==
  /\ pc[p] = "inner"
  /\ Goto(p, "join")
  /\ UNCHANGED <<cur, idx, serverVars, handlerVars, managerVars, closeVars, haltVars>>

\* (mutant) onStopThread does not find its end.
JoinManagerBeyond(p) ==
  /\ pc[p] = "join"
  /\ thread[cur[p]][idx[p]] \in Joined
  /\ thread' = [thread EXCEPT ![cur[p]][idx[p]] = "none"]
  /\ Goto(p, "flag")
  /\ idx' = [idx EXCEPT ![p] = @ + 1]
  /\ UNCHANGED <<cur, stopping, serverVars, handlerVars, closeVars, haltVars>>

\* joinThread of a manager.
JoinManager(p) ==
  LET c == cur[p]
      m == idx[p]
  IN /\ pc[p] = "join"
     /\ thread[c][m] \in Joined
     /\ thread' = [thread EXCEPT ![c][m] = "none"]
     /\ IF m < LastManager
        THEN Goto(p, "flag") /\ idx' = [idx EXCEPT ![p] = @ + 1]
        ELSE Goto(p, "joinConn") /\ UNCHANGED idx
     /\ UNCHANGED <<cur, stopping, serverVars, handlerVars, closeVars, haltVars>>

\* (mutant) The thread of the connection is not joined.
JoinConnectionNot(p) ==
  /\ pc[p] = "joinConn"
  /\ Goto(p, "close")
  /\ UNCHANGED <<cur, idx, serverVars, handlerVars, managerVars, closeVars, haltVars>>

\* joinThread of the connection.
JoinConnection(p) ==
  /\ pc[p] = "joinConn"
  /\ at[cur[p]] = "ended"
  /\ Goto(p, "close")
  /\ UNCHANGED <<cur, idx, serverVars, handlerVars, managerVars, closeVars, haltVars>>

\* close() writes, shakes hands and shuts down without a time limit: it waits for the
\* peer.  Then the connection is destroyed, unless a send that was posted to its
\* io_context and will not run any more keeps a reference.
CloseConnection(p) ==
  /\ pc[p] = "close"
  /\ closed' = [closed EXCEPT ![cur[p]] = TRUE]
  /\ \/ Finish(p) /\ UNCHANGED idx
     \/ /\ Goto(p, "destroyFlag")
        /\ idx' = [idx EXCEPT ![p] = LastManager]
        /\ UNCHANGED cur
  /\ UNCHANGED <<connStopped, overlap, lost, serverVars, handlerVars, managerVars, haltVars>>

\* ~Thread of a manager: stopping = true.  The manager's own onStopThread is gone
\* by then, so nobody is notified ...
DestroyFlag(p) ==
  /\ pc[p] = "destroyFlag"
  /\ stopping' = [stopping EXCEPT ![cur[p]][idx[p]] = TRUE]
  /\ Goto(p, "destroyJoin")
  /\ UNCHANGED <<cur, idx, thread, serverVars, handlerVars, closeVars, haltVars>>

\* ... and joinThread waits.
DestroyJoin(p) ==
  /\ pc[p] = "destroyJoin"
  /\ thread[cur[p]][idx[p]] \in Joined
  /\ thread' = [thread EXCEPT ![cur[p]][idx[p]] = "none"]
  /\ IF idx[p] > 1
     THEN /\ Goto(p, "destroyFlag")
          /\ idx' = [idx EXCEPT ![p] = @ - 1]
          /\ UNCHANGED cur
     ELSE Finish(p) /\ UNCHANGED idx
  /\ UNCHANGED <<stopping, serverVars, handlerVars, closeVars, haltVars>>

----------------------------------------------------------------------------
(* The main thread: ConnectServer::halt.                                   *)

\* SIGINT: stopping = true, ioc.stop().  The handler runs on the main thread, which
\* is one of the executor's, in the middle of whatever callback it is in.
Halt ==
  /\ pc["main"] = "spin"
  /\ iocStopped' = TRUE
  /\ entangled' \in BOOLEAN
  /\ Goto("main", "stopListening")
  /\ UNCHANGED <<omit, listening, posted, connections, cur, idx, raced>>
  /\ UNCHANGED <<handlerVars, managerVars, closeVars>>

stopListening ==
  /\ pc["main"] = "stopListening"
  /\ listening' = FALSE
  /\ Goto("main", "stopAll")
  /\ UNCHANGED <<omit, iocStopped, posted, connections, cur, idx>>
  /\ UNCHANGED <<handlerVars, managerVars, closeVars, haltVars>>

\* The test of stopAllConnections, ...
stopAllConnections ==
  /\ pc["main"] = "stopAll"
  /\ Goto("main", IF connections = {} THEN "joinServer" ELSE "begin")
  /\ UNCHANGED <<serverVars, cur, idx, handlerVars, managerVars, closeVars, haltVars>>

\* ... and its begin(), of a list that the server thread may have emptied since.
FirstConnection ==
  /\ pc["main"] = "begin"
  /\ \/ /\ connections # {}
        /\ \E c \in connections : cur' = [cur EXCEPT !["main"] = c]
        /\ Goto("main", "search")
        /\ UNCHANGED raced
     \/ /\ connections = {}
        /\ raced' = TRUE
        /\ Goto("main", "stopAll")
        /\ UNCHANGED cur
  /\ UNCHANGED <<serverVars, idx, handlerVars, managerVars, closeVars, entangled>>

\* joinThread of the server thread.
JoinServer ==
  /\ pc["main"] = "joinServer"
  /\ pc["server"] = "ended"
  /\ Goto("main", "destroy")
  /\ UNCHANGED <<serverVars, cur, idx, handlerVars, managerVars, closeVars, haltVars>>

\* The server is destroyed.  A connection that is still in the list is destroyed
\* without having been stopped: ~Thread joins a thread whose io_context runs on.
DestroyServer ==
  /\ pc["main"] = "destroy"
  /\ \A c \in connections :
       at[c] = "ended" /\ \A m \in Managers : thread[c][m] \in Joined
  /\ Goto("main", "done")
  /\ UNCHANGED <<serverVars, cur, idx, handlerVars, managerVars, closeVars, haltVars>>

----------------------------------------------------------------------------
Init ==
  /\ omit \in BOOLEAN
  /\ listening = TRUE
  /\ iocStopped = FALSE
  /\ posted = {}
  /\ connections = {}
  /\ pc = [p \in Stoppers |-> IF p = "server" THEN "idle" ELSE "spin"]
  /\ cur = [p \in Stoppers |-> None]
  /\ idx = [p \in Stoppers |-> 1]
  /\ at = [c \in Conns |-> "none"]
  /\ next = [c \in Conns |-> 1]
  /\ reading = [c \in Conns |-> FALSE]
  /\ writing = [c \in Conns |-> FALSE]
  /\ checkTimer = [c \in Conns |-> FALSE]
  /\ endTimer = [c \in Conns |-> FALSE]
  /\ asked = [c \in Conns |-> FALSE]
  /\ valid = [c \in Conns |-> FALSE]
  /\ connStopped = [c \in Conns |-> FALSE]
  /\ thread = [c \in Conns |-> [m \in Managers |-> "none"]]
  /\ stopping = [c \in Conns |-> [m \in Managers |-> FALSE]]
  /\ closed = [c \in Conns |-> FALSE]
  /\ overlap = [c \in Conns |-> FALSE]
  /\ lost = [c \in Conns |-> FALSE]
  /\ raced = FALSE
  /\ entangled = FALSE

Connection(c) ==
  \/ Handshake(c) \/ HandshakeFails(c)
  \/ validateUserKey(c) \/ KeyIsInvalid(c) \/ KeyIsValid(c)
  \/ StartFlag(c) \/ StartSpawn(c) \/ StartLast(c)
  \/ \E m \in Managers : processMessage(c, m)
  \/ ReadFails(c) \/ WriteFails(c) \/ ReadStops(c) \/ HandlerThrows(c)
  \/ validAuthenticationCheckCallback(c) \/ authenticationEndCallback(c)
  \/ RunEnds(c)

Manager(c, m) == ManagerTests(c, m) \/ ManagerSleeps(c, m)

Stop(p) ==
  \/ SearchConnection(p) \/ EraseConnection(p)
  \/ StopConnectionThread(p) \/ StopManager(p) \/ JoinManager(p)
  \/ JoinConnection(p) \/ DestroyFlag(p) \/ DestroyJoin(p)

ServerThread ==
  \/ \E c \in Conns : AcceptConnection(c) \/ AcceptThrows(c) \/ TakeStop(c)
  \/ PushConnection \/ Relisten \/ ServerEnds

Main ==
  \/ Halt \/ stopListening \/ stopAllConnections \/ FirstConnection
  \/ JoinServer \/ DestroyServer

Next ==
  \/ \E c \in Conns : Connection(c)
  \/ \E c \in Conns, m \in Managers :
       Manager(c, m) \/ SubscriberHangs(c, m) \/ SubscriberResumes(c, m)
  \/ \E p \in Stoppers : Stop(p) \/ JoinInner(p) \/ CloseConnection(p)
  \/ ServerThread
  \/ Main

Spec == Init /\ [][Next]_vars

\* Threads that can run do, web requests return and timers expire.  Nothing makes a
\* client connect, shake hands, send or close, or answer a close, and nothing makes a
\* user press Ctrl-C.  What onStopThread joins ends unless it missed its stop, and a
\* halt that is entangled need not go on.
Fairness ==
  /\ \A c \in Conns :
       /\ WF_vars(KeyIsInvalid(c) \/ KeyIsValid(c))
       /\ WF_vars(StartFlag(c) \/ StartSpawn(c) \/ StartLast(c))
       /\ WF_vars(validAuthenticationCheckCallback(c))
       /\ WF_vars(authenticationEndCallback(c))
       /\ WF_vars(RunEnds(c))
       /\ WF_vars(TakeStop(c))
       /\ \A m \in Managers : WF_vars(Manager(c, m))
  /\ \A p \in Stoppers :
       /\ WF_vars(~(p = "main" /\ entangled) /\ Stop(p))
       /\ WF_vars(JoinInner(p) /\ ~entangled /\ ~lost[cur[p]])
  /\ WF_vars(PushConnection) /\ WF_vars(Relisten) /\ WF_vars(ServerEnds)
  /\ WF_vars(stopListening) /\ WF_vars(stopAllConnections) /\ WF_vars(FirstConnection)
  /\ WF_vars(JoinServer) /\ WF_vars(DestroyServer)

FairSpec == Spec /\ Fairness

----------------------------------------------------------------------------
(* Properties.                                                             *)

TypeOK ==
  /\ omit \in BOOLEAN /\ listening \in BOOLEAN /\ iocStopped \in BOOLEAN
  /\ posted \subseteq Conns /\ connections \subseteq Conns
  /\ pc \in [Stoppers -> ServerSteps \cup MainSteps \cup ListSteps \cup StopSteps]
  /\ pc["server"] \notin MainSteps /\ pc["main"] \notin ServerSteps
  /\ cur \in [Stoppers -> Conns \cup {None}]
  /\ \A p \in Stoppers : pc[p] \in ListSteps \cup StopSteps => cur[p] \in Conns
  /\ pc["server"] = "push" => cur["server"] \in Conns
  /\ idx \in [Stoppers -> Managers]
  /\ at \in [Conns -> {"none", "handshake", "loop", "ended"} \cup Authorising]
  /\ next \in [Conns -> Managers]
  /\ reading \in [Conns -> BOOLEAN] /\ writing \in [Conns -> BOOLEAN]
  /\ checkTimer \in [Conns -> BOOLEAN] /\ endTimer \in [Conns -> BOOLEAN]
  /\ asked \in [Conns -> BOOLEAN] /\ valid \in [Conns -> BOOLEAN]
  /\ connStopped \in [Conns -> BOOLEAN] /\ closed \in [Conns -> BOOLEAN]
  /\ thread \in [Conns -> [Managers -> Joined \cup {"awake", "parking", "asleep", "held"}]]
  /\ stopping \in [Conns -> [Managers -> BOOLEAN]]
  /\ overlap \in [Conns -> BOOLEAN] /\ lost \in [Conns -> BOOLEAN]
  /\ raced \in BOOLEAN /\ entangled \in BOOLEAN

\* As long as neither changes the list while the other goes through it, the server
\* thread and the main thread never stop the same connection, and neither stops one
\* that is closed: whoever erases it from the list stops it, alone and once
\* (connectionManager.hpp:107-121).
StoppedOnce ==
  ~raced =>
    /\ \A p \in Stoppers : pc[p] \in StopSteps => cur[p] \notin connections
    /\ pc["server"] \in StopSteps /\ pc["main"] \in StopSteps => cur["server"] # cur["main"]
    /\ \A p \in Stoppers :
         pc[p] \in {"stop", "flag", "inner", "join", "joinConn", "close"} => ~closed[cur[p]]
    /\ \A c \in connections : ~closed[c]

\* Stated of stopAllConnections, that it is called "when the server is shutting down
\* AFTER the io_context was already stopped" (connectionManager.hpp:64): the server
\* thread does not use the list any more.  A stopped io_context still ends the handler
\* that is running.
ListIsNotShared == ~raced

\* A connection whose thread has ended does not stay in the list for ever: its stop
\* is requested or under way, or the server itself is being stopped.  No path out of
\* the handlers forgets stopConnection.
NoZombie ==
  \A c \in connections : at[c] = "ended" =>
    \/ c \in posted \/ iocStopped
    \/ pc["server"] \in ListSteps /\ cur["server"] = c

\* The managers, which publish, subscribe and call services, only run for a
\* connection that is authorised, or when that check is omitted
\* (websocketServerConnection.cpp:137-147, 185-192).
StartedIsAuthorised ==
  \A c \in Conns : (\E m \in Managers : thread[c][m] # "none") => omit \/ valid[c]

\* When a connection is closed, its thread and those of its managers have ended,
\* unless its stop began while it was being authorised.
ClosedIsQuiet ==
  \A c \in Conns : closed[c] =>
    /\ at[c] = "ended"
    /\ overlap[c] \/ \A m \in Managers : thread[c][m] = "none"

\* The same without the exception: onStopThread is there "to clean up some stuff and
\* stop other threads, services, etc." (websocketConnectionBase.hpp:114).
ClosedLeavesNothing ==
  \A c \in Conns : closed[c] => \A m \in Managers : thread[c][m] \in Joined

\* What the server does not recover from: a stop that overlaps the authorisation, a
\* notification that is lost because the mutex is not held, a connection accepted after
\* stopAllConnections found none, a race for the list, and a halt that needs what the
\* callback it has interrupted holds.
Missed == pc["main"] \in {"joinServer", "destroy", "done"} /\ connections # {}
Hung == Missed \/ raced \/ entangled \/ \E c \in Conns : overlap[c] \/ lost[c]

\* The server thread, or the main thread, waits for a peer to answer a close.
AwaitsPeer == \E p \in Stoppers : pc[p] = "close"

\* Whatever requests the stop of a connection, it gets closed, unless the server hangs.
StopEnds ==
  \A c \in Conns : c \in posted ~> closed[c] \/ Hung

\* A client that does not authenticate in time is disconnected, unless the server
\* hangs (websocketServerConnection.cpp:145-146, 222-226).
UnauthorisedIsClosed ==
  \A c \in Conns : ~omit /\ at[c] = "loop" ~> valid[c] \/ closed[c] \/ Hung

\* The server terminates after Ctrl-C, unless it hangs.
HaltEnds == pc["main"] = "stopListening" ~> pc["main"] = "done" \/ Hung

\* Whatever has to end ends: connections, unauthorised ones among them, and the server,
\* unless a peer leaves a close unanswered for ever.
StopsEnd == (StopEnds /\ UnauthorisedIsClosed /\ HaltEnds) \/ <>[]AwaitsPeer

\* Stated of authentication/timeout (README.md:62), "after which the connection is
\* closed if the client did not send its user_key": whether or not it answers.
TimeoutCloses ==
  \A c \in Conns : checkTimer[c] ~> valid[c] \/ closed[c] \/ Hung

=============================================================================
