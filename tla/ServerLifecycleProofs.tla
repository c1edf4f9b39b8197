----------------------- MODULE ServerLifecycleProofs -----------------------
(***************************************************************************)
(* TLAPS proofs about ServerLifecycle, for any number of connections and   *)
(* of managers.                                                            *)
(***************************************************************************)
EXTENDS ServerLifecycle, TLAPS

----------------------------------------------------------------------------
(* Strengthenings of the invariants.                                       *)

\* The connection between its acceptance and its entry in the list.
Pushed(c) == pc["server"] = "push" /\ cur["server"] = c

\* Being stopped, from the erasure to the end of the destructor.
StoppedBy(p, c) == pc[p] \in StopSteps /\ cur[p] = c

\* Nobody has anything to do with a socket that has not been accepted.
Untouched(c) ==
  /\ c \notin connections /\ c \notin posted
  /\ ~connStopped[c] /\ ~closed[c] /\ ~valid[c]
  /\ ~Pushed(c)
  /\ \A p \in Stoppers : pc[p] \in ListSteps \cup StopSteps => cur[p] # c

\* What holds whatever the two threads do to the list.
Progress ==
  /\ \A c \in Conns : at[c] = "none" => Untouched(c)
  /\ \A p \in Stoppers : pc[p] \in StopSteps \ {"stop"} => connStopped[cur[p]]
  /\ \A c \in Conns : closed[c] => connStopped[c]
  /\ pc["main"] # "spin" => iocStopped
  /\ raced => iocStopped

\* A connection that is listed, or about to be, is alive, and nobody stops it.
Alive(c) ==
  /\ at[c] # "none" /\ ~connStopped[c] /\ ~closed[c]
  /\ \A p \in Stoppers : ~StoppedBy(p, c)

\* How far the stop of a connection has got.
BeforeClose == {"stop", "flag", "inner", "join", "joinConn", "close"}

StopProgress(p) ==
  /\ pc[p] = "erase" => cur[p] \in connections
  /\ pc[p] \in BeforeClose => ~closed[cur[p]]
  /\ pc[p] = "stop" => ~connStopped[cur[p]]

\* What holds as long as they do not disturb each other.
Exclusive ==
  /\ \A c \in Conns : c \in connections \/ Pushed(c) => Alive(c)
  /\ \A c \in Conns : Pushed(c) => c \notin connections
  /\ \A p \in Stoppers : StopProgress(p)
  /\ \A c \in Conns : ~(StoppedBy("server", c) /\ StoppedBy("main", c))

Membership == Progress /\ (~raced => Exclusive)

\* The managers are started for an authorised connection only.
Authorised ==
  /\ \A c \in Conns : at[c] \in {"flag", "spawn"} => omit \/ valid[c]
  /\ StartedIsAuthorised

\* The thread of a connection that is listed has something to wait for, or has asked
\* for the stop.
Waits(c) ==
  /\ at[c] # "ended"
  /\ at[c] = "handshake" => ~valid[c]
  /\ at[c] # "handshake" => reading[c]
  /\ at[c] = "loop" /\ (omit \/ valid[c]) => writing[c]

Watched ==
  \A c \in Conns : c \in connections \/ Pushed(c) =>
    \/ c \in posted \/ iocStopped \/ Waits(c)
    \/ pc["server"] \in ListSteps /\ cur["server"] = c

\* The managers below idx have been stopped for good, unless the stop overlaps the
\* authorisation: once the io_context is stopped no other handler begins one.
Stopped(c, m) == overlap[c] \/ thread[c][m] = "none"

Quietening ==
  /\ \A c \in Conns : connStopped[c] /\ ~overlap[c] => at[c] \notin Authorising
  /\ \A p \in Stoppers, m \in Managers :
       pc[p] \in {"flag", "inner", "join"} /\ m < idx[p] => Stopped(cur[p], m)
  /\ \A p \in Stoppers, m \in Managers :
       pc[p] \in {"joinConn", "close"} => Stopped(cur[p], m)
  /\ \A p \in Stoppers : pc[p] = "close" => at[cur[p]] = "ended"
  /\ ClosedIsQuiet

----------------------------------------------------------------------------
(* Types.                                                                  *)

LEMMA InitTyped == Init => TypeOK
<1> USE ConnectionAssumption DEF ConnectionAssumption, Stoppers, Managers, Authorising,
   Joined, ListSteps, StopSteps, ServerSteps, MainSteps
<1>1. 1 \in Managers
  OBVIOUS
<1>2. ASSUME Init PROVE pc \in [Stoppers -> ServerSteps \cup MainSteps \cup ListSteps \cup StopSteps]
  BY <1>2 DEF Init
<1>3. ASSUME Init PROVE pc["server"] = "idle" /\ pc["main"] = "spin"
  BY <1>3 DEF Init
<1>4. ASSUME Init PROVE /\ cur \in [Stoppers -> Conns \cup {None}]
                        /\ idx \in [Stoppers -> Managers]
  BY <1>1, <1>4 DEF Init
<1>5. ASSUME Init PROVE /\ thread \in [Conns -> [Managers -> Joined \cup {"awake", "parking", "asleep", "held"}]]
                        /\ stopping \in [Conns -> [Managers -> BOOLEAN]]
  BY <1>5 DEF Init
<1> QED
  <2> SUFFICES ASSUME Init PROVE TypeOK
    OBVIOUS
  <2>1. omit \in BOOLEAN /\ listening \in BOOLEAN /\ iocStopped \in BOOLEAN
    BY DEF Init
  <2> QED
    BY <1>1, <1>2, <1>3, <1>4, <1>5, <2>1 DEF Init, TypeOK

LEMMA StepTyped == TypeOK /\ [Next]_vars => TypeOK'
<1> SUFFICES ASSUME TypeOK, [Next]_vars PROVE TypeOK'
  OBVIOUS
<1> USE ConnectionAssumption DEF ConnectionAssumption, Stoppers, Managers, Authorising,
   Joined, ListSteps, StopSteps, ServerSteps, MainSteps
<1>1. ASSUME NEW c \in Conns, Handshake(c) PROVE TypeOK'
  <2>1. CASE omit
    <3>1. at' = [at EXCEPT ![c] = "flag"] /\ next' = [next EXCEPT ![c] = 1]
      BY <1>1, <2>1 DEF Handshake, Authorise
    <3>2. UNCHANGED checkTimer
      BY <1>1, <2>1 DEF Handshake
    <3> QED
      BY <1>1, <3>1, <3>2
         DEF TypeOK, Handshake, serverVars, stopperVars, handlerVars, managerVars, closeVars, haltVars
  <2>2. CASE ~omit
    BY <1>1, <2>2
       DEF TypeOK, Handshake, CanRun, serverVars, stopperVars, handlerVars, managerVars, closeVars, haltVars
  <2> QED
    BY <2>1, <2>2
<1>2. ASSUME NEW c \in Conns, HandshakeFails(c) PROVE TypeOK'
  BY <1>2 DEF TypeOK, HandshakeFails, CanRun, stopConnection,
             serverVars, stopperVars, handlerVars, managerVars, closeVars, haltVars
<1>3. ASSUME NEW c \in Conns, validateUserKey(c) PROVE TypeOK'
  BY <1>3 DEF TypeOK, validateUserKey, CanRun,
             serverVars, stopperVars, handlerVars, managerVars, closeVars, haltVars
<1>4. ASSUME NEW c \in Conns, KeyIsInvalid(c) PROVE TypeOK'
  BY <1>4 DEF TypeOK, KeyIsInvalid, CanRun, stopConnection,
             serverVars, stopperVars, handlerVars, managerVars, closeVars, haltVars
<1>5. ASSUME NEW c \in Conns, KeyIsValid(c) PROVE TypeOK'
  BY <1>5 DEF TypeOK, KeyIsValid, CanRun, Authorise,
             serverVars, stopperVars, handlerVars, managerVars, closeVars, haltVars
<1>6. ASSUME NEW c \in Conns, StartFlag(c) PROVE TypeOK'
  BY <1>6 DEF TypeOK, StartFlag, CanRun,
             serverVars, stopperVars, handlerVars, managerVars, closeVars, haltVars
<1>7. ASSUME NEW c \in Conns, StartSpawn(c) PROVE TypeOK'
  BY <1>7 DEF TypeOK, StartSpawn, CanRun,
             serverVars, stopperVars, handlerVars, managerVars, closeVars, haltVars
<1>8. ASSUME NEW c \in Conns, StartLast(c) PROVE TypeOK'
  BY <1>8 DEF TypeOK, StartLast, CanRun,
             serverVars, stopperVars, handlerVars, managerVars, closeVars, haltVars
<1>9. ASSUME NEW c \in Conns, ReadFails(c) PROVE TypeOK'
  BY <1>9 DEF TypeOK, ReadFails, CanRun, stopConnection,
             serverVars, stopperVars, handlerVars, managerVars, closeVars, haltVars
<1>10. ASSUME NEW c \in Conns, WriteFails(c) PROVE TypeOK'
  BY <1>10 DEF TypeOK, WriteFails, CanRun, stopConnection,
             serverVars, stopperVars, handlerVars, managerVars, closeVars, haltVars
<1>11. ASSUME NEW c \in Conns, ReadStops(c) PROVE TypeOK'
  BY <1>11 DEF TypeOK, ReadStops, CanRun,
             serverVars, stopperVars, handlerVars, managerVars, closeVars, haltVars
<1>12. ASSUME NEW c \in Conns, HandlerThrows(c) PROVE TypeOK'
  BY <1>12 DEF TypeOK, HandlerThrows, CanRun, stopConnection,
             serverVars, stopperVars, handlerVars, managerVars, closeVars, haltVars
<1>13. ASSUME NEW c \in Conns, validAuthenticationCheckCallback(c) PROVE TypeOK'
  BY <1>13 DEF TypeOK, validAuthenticationCheckCallback, CanRun, stopConnection,
             serverVars, stopperVars, handlerVars, managerVars, closeVars, haltVars
<1>14. ASSUME NEW c \in Conns, authenticationEndCallback(c) PROVE TypeOK'
  BY <1>14 DEF TypeOK, authenticationEndCallback, CanRun, stopConnection,
             serverVars, stopperVars, handlerVars, managerVars, closeVars, haltVars
<1>15. ASSUME NEW c \in Conns, RunEnds(c) PROVE TypeOK'
  BY <1>15 DEF TypeOK, RunEnds, CanRun,
             serverVars, stopperVars, handlerVars, managerVars, closeVars, haltVars
<1>16. ASSUME NEW c \in Conns, NEW m \in Managers, processMessage(c, m) PROVE TypeOK'
  BY <1>16 DEF TypeOK, processMessage, CanRun,
             serverVars, stopperVars, handlerVars, managerVars, closeVars, haltVars
<1>17. ASSUME NEW c \in Conns, NEW m \in Managers, ManagerTests(c, m) PROVE TypeOK'
  BY <1>17 DEF TypeOK, ManagerTests, CanRun,
             serverVars, stopperVars, handlerVars, managerVars, closeVars, haltVars
<1>18. ASSUME NEW c \in Conns, NEW m \in Managers, ManagerSleeps(c, m) PROVE TypeOK'
  BY <1>18 DEF TypeOK, ManagerSleeps, CanRun,
             serverVars, stopperVars, handlerVars, managerVars, closeVars, haltVars
<1>19. ASSUME NEW c \in Conns, AcceptConnection(c) PROVE TypeOK'
  BY <1>19 DEF TypeOK, AcceptConnection, CanRun, Goto,
             serverVars, stopperVars, handlerVars, managerVars, closeVars, haltVars
<1>20. ASSUME NEW c \in Conns, AcceptThrows(c) PROVE TypeOK'
  BY <1>20 DEF TypeOK, AcceptThrows, CanRun, Goto,
             serverVars, stopperVars, handlerVars, managerVars, closeVars, haltVars
<1>21. ASSUME NEW c \in Conns, TakeStop(c) PROVE TypeOK'
  BY <1>21 DEF TypeOK, TakeStop, CanRun, Goto,
             serverVars, stopperVars, handlerVars, managerVars, closeVars, haltVars
<1>22. ASSUME PushConnection PROVE TypeOK'
  BY <1>22 DEF TypeOK, PushConnection, Invalidates, Other, CanRun, Goto,
             serverVars, stopperVars, handlerVars, managerVars, closeVars, haltVars
<1>23. ASSUME Relisten PROVE TypeOK'
  <2>1. listening' \in BOOLEAN
    BY <1>23 DEF TypeOK, Relisten
  <2>2. CASE pc["main"] = "spin"
    BY <1>23, <2>1, <2>2
       DEF TypeOK, Relisten, Goto, serverVars, stopperVars, handlerVars, managerVars, closeVars, haltVars
  <2>3. CASE pc["main"] # "spin"
    BY <1>23, <2>1, <2>3
       DEF TypeOK, Relisten, Goto, serverVars, stopperVars, handlerVars, managerVars, closeVars, haltVars
  <2> QED
    BY <2>2, <2>3
<1>24. ASSUME ServerEnds PROVE TypeOK'
  BY <1>24 DEF TypeOK, ServerEnds, CanRun, Goto,
             serverVars, stopperVars, handlerVars, managerVars, closeVars, haltVars
<1>25. ASSUME NEW p \in Stoppers, StopConnectionThread(p) PROVE TypeOK'
  BY <1>25 DEF TypeOK, StopConnectionThread, CanRun, Goto,
             serverVars, stopperVars, handlerVars, managerVars, closeVars, haltVars
<1>26. ASSUME NEW p \in Stoppers, StopManager(p) PROVE TypeOK'
  BY <1>26 DEF TypeOK, StopManager, CanRun, Goto,
             serverVars, stopperVars, handlerVars, managerVars, closeVars, haltVars
<1>27. ASSUME NEW p \in Stoppers, JoinManager(p) PROVE TypeOK'
  BY <1>27 DEF TypeOK, JoinManager, CanRun, Goto,
             serverVars, stopperVars, handlerVars, managerVars, closeVars, haltVars
<1>28. ASSUME NEW p \in Stoppers, JoinConnection(p) PROVE TypeOK'
  BY <1>28 DEF TypeOK, JoinConnection, CanRun, Goto,
             serverVars, stopperVars, handlerVars, managerVars, closeVars, haltVars
<1>29. ASSUME NEW p \in Stoppers, CloseConnection(p) PROVE TypeOK'
  BY <1>29 DEF TypeOK, CloseConnection, CanRun, Goto, Finish, Idle,
             serverVars, stopperVars, handlerVars, managerVars, closeVars, haltVars
<1>30. ASSUME NEW p \in Stoppers, DestroyFlag(p) PROVE TypeOK'
  BY <1>30 DEF TypeOK, DestroyFlag, CanRun, Goto,
             serverVars, stopperVars, handlerVars, managerVars, closeVars, haltVars
<1>31. ASSUME NEW p \in Stoppers, DestroyJoin(p) PROVE TypeOK'
  BY <1>31 DEF TypeOK, DestroyJoin, CanRun, Goto, Finish, Idle,
             serverVars, stopperVars, handlerVars, managerVars, closeVars, haltVars
<1>32. ASSUME Halt PROVE TypeOK'
  BY <1>32 DEF TypeOK, Halt, CanRun, Goto,
             serverVars, stopperVars, handlerVars, managerVars, closeVars, haltVars
<1>33. ASSUME stopListening PROVE TypeOK'
  BY <1>33 DEF TypeOK, stopListening, CanRun, Goto,
             serverVars, stopperVars, handlerVars, managerVars, closeVars, haltVars
<1>34. ASSUME stopAllConnections PROVE TypeOK'
  BY <1>34 DEF TypeOK, stopAllConnections, CanRun, Goto,
             serverVars, stopperVars, handlerVars, managerVars, closeVars, haltVars
<1>35. ASSUME JoinServer PROVE TypeOK'
  BY <1>35 DEF TypeOK, JoinServer, CanRun, Goto,
             serverVars, stopperVars, handlerVars, managerVars, closeVars, haltVars
<1>36. ASSUME DestroyServer PROVE TypeOK'
  BY <1>36 DEF TypeOK, DestroyServer, CanRun, Goto,
             serverVars, stopperVars, handlerVars, managerVars, closeVars, haltVars
<1>37. CASE UNCHANGED vars
  BY <1>37 DEF TypeOK, vars, serverVars, stopperVars, handlerVars, managerVars, closeVars, haltVars
<1>38. ASSUME NEW p \in Stoppers, SearchConnection(p) PROVE TypeOK'
  BY <1>38 DEF TypeOK, SearchConnection, Finish, Idle, Other, Goto,
             serverVars, stopperVars, handlerVars, managerVars, closeVars, haltVars
<1>39. ASSUME NEW p \in Stoppers, EraseConnection(p) PROVE TypeOK'
  BY <1>39 DEF TypeOK, EraseConnection, Invalidates, Other, Goto,
             serverVars, stopperVars, handlerVars, managerVars, closeVars, haltVars
<1>40. ASSUME NEW p \in Stoppers, JoinInner(p) PROVE TypeOK'
  BY <1>40 DEF TypeOK, JoinInner, Goto,
             serverVars, stopperVars, handlerVars, managerVars, closeVars, haltVars
<1>41. ASSUME FirstConnection PROVE TypeOK'
  <2>1. CASE connections = {}
    BY <1>41, <2>1 DEF TypeOK, FirstConnection, Goto,
             serverVars, stopperVars, handlerVars, managerVars, closeVars, haltVars
  <2>2. CASE connections # {}
    <3>1. PICK c \in connections : cur' = [cur EXCEPT !["main"] = c]
      BY <1>41, <2>2 DEF FirstConnection
    <3>2. c \in Conns
      BY DEF TypeOK
    <3>3. pc' = [pc EXCEPT !["main"] = "search"] /\ UNCHANGED raced
      BY <1>41, <2>2 DEF FirstConnection, Goto
    <3> QED
      BY <1>41, <3>1, <3>2, <3>3 DEF TypeOK, FirstConnection,
             serverVars, stopperVars, handlerVars, managerVars, closeVars, haltVars
  <2> QED
    BY <2>1, <2>2
<1>42. ASSUME NEW c \in Conns, NEW m \in Managers, SubscriberHangs(c, m) PROVE TypeOK'
  BY <1>42 DEF TypeOK, SubscriberHangs,
             serverVars, stopperVars, handlerVars, managerVars, closeVars, haltVars
<1>43. ASSUME NEW c \in Conns, NEW m \in Managers, SubscriberResumes(c, m) PROVE TypeOK'
  BY <1>43 DEF TypeOK, SubscriberResumes,
             serverVars, stopperVars, handlerVars, managerVars, closeVars, haltVars
<1> QED
  BY <1>1, <1>2, <1>3, <1>4, <1>5, <1>6, <1>7, <1>8, <1>9, <1>10, <1>11, <1>12, <1>13,
     <1>14, <1>15, <1>16, <1>17, <1>18, <1>19, <1>20, <1>21, <1>22, <1>23, <1>24, <1>25,
     <1>26, <1>27, <1>28, <1>29, <1>30, <1>31, <1>32, <1>33, <1>34, <1>35, <1>36, <1>37,
     <1>38, <1>39, <1>40, <1>41, <1>42, <1>43
     DEF Next, Connection, Manager, Stop, ServerThread, Main

\* The flags, timers, positions and lists of the server's threads keep their types, and
\* onStopThread never counts past the last manager (websocketConnectionBase.hpp:242-254).
THEOREM TypeCorrect == Spec => []TypeOK
<1> QED
  BY InitTyped, StepTyped, PTL DEF Spec

----------------------------------------------------------------------------
(* Who has which connection.                                               *)

\* What the thread of a connection changes of the state others depend on.
ConnectionFrame(c) ==
  /\ UNCHANGED <<omit, iocStopped, connections, pc, cur, idx, closeVars, haltVars>>
  /\ posted' \subseteq posted \cup {c}
  /\ at[c] \notin {"none", "ended"} /\ at'[c] # "none"
  /\ \A d \in Conns \ {c} : at'[d] = at[d] /\ valid'[d] = valid[d]

LEMMA ConnectionFrames ==
  ASSUME TypeOK, NEW c \in Conns, Connection(c)
  PROVE  ConnectionFrame(c)
<1> USE DEF ConnectionFrame, TypeOK, CanRun, stopConnection, serverVars, stopperVars, handlerVars,
   managerVars, closeVars, haltVars
<1>1. CASE Handshake(c)
  BY <1>1 DEF Handshake, Authorise
<1>2. CASE HandshakeFails(c)
  BY <1>2 DEF HandshakeFails
<1>3. CASE validateUserKey(c)
  BY <1>3 DEF validateUserKey
<1>4. CASE KeyIsInvalid(c)
  BY <1>4 DEF KeyIsInvalid
<1>5. CASE KeyIsValid(c)
  BY <1>5 DEF KeyIsValid, Authorise
<1>6. CASE StartFlag(c)
  BY <1>6 DEF StartFlag
<1>7. CASE StartSpawn(c)
  BY <1>7 DEF StartSpawn
<1>8. CASE StartLast(c)
  BY <1>8 DEF StartLast
<1>9. CASE ReadFails(c)
  BY <1>9 DEF ReadFails
<1>10. CASE WriteFails(c)
  BY <1>10 DEF WriteFails
<1>11. CASE ReadStops(c)
  BY <1>11 DEF ReadStops
<1>12. CASE HandlerThrows(c)
  BY <1>12 DEF HandlerThrows
<1>13. CASE validAuthenticationCheckCallback(c)
  BY <1>13 DEF validAuthenticationCheckCallback
<1>14. CASE authenticationEndCallback(c)
  BY <1>14 DEF authenticationEndCallback
<1>15. CASE RunEnds(c)
  BY <1>15 DEF RunEnds
<1>16. ASSUME NEW m \in Managers, processMessage(c, m) PROVE ConnectionFrame(c)
  BY <1>16 DEF processMessage
<1> QED
  BY <1>1, <1>2, <1>3, <1>4, <1>5, <1>6, <1>7, <1>8, <1>9, <1>10, <1>11, <1>12, <1>13,
     <1>14, <1>15, <1>16 DEF Connection

LEMMA InitMembership == Init => Membership
<1> QED
  BY DEF Init, Membership, Pushed, StoppedBy, Alive, Untouched, StopProgress, BeforeClose, Progress,
     Exclusive, ListSteps,
     StopSteps, Stoppers

LEMMA StepMembership ==
  ASSUME TypeOK, Membership, [Next]_vars
  PROVE  Membership'
<1> USE DEF Membership, Pushed, StoppedBy, Alive, Untouched, StopProgress, BeforeClose, Progress,
     Exclusive, ListSteps,
            StopSteps, Stoppers
<1>1. ASSUME NEW c \in Conns, Connection(c) PROVE Membership'
  <2>1. ConnectionFrame(c)
    BY <1>1, ConnectionFrames
  <2> QED
    BY <2>1 DEF ConnectionFrame, closeVars, haltVars
<1>2. ASSUME NEW c \in Conns, NEW m \in Managers, Manager(c, m) PROVE Membership'
  BY <1>2
     DEF Manager, ManagerTests, ManagerSleeps, serverVars, stopperVars, handlerVars, closeVars, haltVars
<1>3. ASSUME NEW c \in Conns, AcceptConnection(c) PROVE Membership'
  BY <1>3 DEF TypeOK, AcceptConnection, Goto,
             serverVars, stopperVars, handlerVars, managerVars, closeVars, haltVars
<1>4. ASSUME NEW c \in Conns, AcceptThrows(c) PROVE Membership'
  BY <1>4 DEF TypeOK, AcceptThrows, Goto,
             serverVars, stopperVars, handlerVars, managerVars, closeVars, haltVars
<1>5. ASSUME NEW c \in Conns, TakeStop(c) PROVE Membership'
  BY <1>5 DEF TypeOK, TakeStop, Goto,
             serverVars, stopperVars, handlerVars, managerVars, closeVars, haltVars
<1>6. ASSUME PushConnection PROVE Membership'
  BY <1>6 DEF TypeOK, PushConnection, Invalidates, Other, Goto,
             serverVars, stopperVars, handlerVars, managerVars, closeVars, haltVars
<1>7. ASSUME Relisten PROVE Membership'
  BY <1>7 DEF TypeOK, Relisten, Goto,
             serverVars, stopperVars, handlerVars, managerVars, closeVars, haltVars
<1>8. ASSUME ServerEnds PROVE Membership'
  BY <1>8 DEF TypeOK, ServerEnds, Goto,
             serverVars, stopperVars, handlerVars, managerVars, closeVars, haltVars
<1>9. ASSUME NEW p \in Stoppers, StopConnectionThread(p) PROVE Membership'
  BY <1>9 DEF TypeOK, StopConnectionThread, Goto,
             serverVars, stopperVars, handlerVars, managerVars, closeVars, haltVars
<1>10. ASSUME NEW p \in Stoppers, StopManager(p) PROVE Membership'
  BY <1>10 DEF TypeOK, StopManager, Goto,
             serverVars, stopperVars, handlerVars, managerVars, closeVars, haltVars
<1>11. ASSUME NEW p \in Stoppers, JoinManager(p) PROVE Membership'
  BY <1>11 DEF TypeOK, JoinManager, Goto,
             serverVars, stopperVars, handlerVars, managerVars, closeVars, haltVars
<1>12. ASSUME NEW p \in Stoppers, JoinConnection(p) PROVE Membership'
  BY <1>12 DEF TypeOK, JoinConnection, Goto,
             serverVars, stopperVars, handlerVars, managerVars, closeVars, haltVars
<1>13. ASSUME NEW p \in Stoppers, CloseConnection(p) PROVE Membership'
  BY <1>13 DEF TypeOK, CloseConnection, Finish, Idle, Goto,
             serverVars, stopperVars, handlerVars, managerVars, closeVars, haltVars
<1>14. ASSUME NEW p \in Stoppers, DestroyFlag(p) PROVE Membership'
  BY <1>14 DEF TypeOK, DestroyFlag, Goto,
             serverVars, stopperVars, handlerVars, managerVars, closeVars, haltVars
<1>15. ASSUME NEW p \in Stoppers, DestroyJoin(p) PROVE Membership'
  BY <1>15 DEF TypeOK, DestroyJoin, Finish, Idle, Goto,
             serverVars, stopperVars, handlerVars, managerVars, closeVars, haltVars
<1>16. ASSUME Halt PROVE Membership'
  BY <1>16 DEF TypeOK, Halt, Goto,
             serverVars, stopperVars, handlerVars, managerVars, closeVars, haltVars
<1>17. ASSUME stopListening PROVE Membership'
  BY <1>17 DEF TypeOK, stopListening, Goto,
             serverVars, stopperVars, handlerVars, managerVars, closeVars, haltVars
<1>18. ASSUME stopAllConnections PROVE Membership'
  BY <1>18 DEF TypeOK, stopAllConnections, Goto,
             serverVars, stopperVars, handlerVars, managerVars, closeVars, haltVars
<1>19. ASSUME JoinServer PROVE Membership'
  BY <1>19 DEF TypeOK, JoinServer, Goto,
             serverVars, stopperVars, handlerVars, managerVars, closeVars, haltVars
<1>20. ASSUME DestroyServer PROVE Membership'
  BY <1>20 DEF TypeOK, DestroyServer, Goto,
             serverVars, stopperVars, handlerVars, managerVars, closeVars, haltVars
<1>21. CASE UNCHANGED vars
  BY <1>21 DEF vars, serverVars, stopperVars, handlerVars, managerVars, closeVars, haltVars
<1>22. ASSUME NEW p \in Stoppers, SearchConnection(p) PROVE Membership'
  BY <1>22 DEF TypeOK, SearchConnection, Finish, Idle, Other, Goto,
             serverVars, stopperVars, handlerVars, managerVars, closeVars, haltVars
<1>23. ASSUME NEW p \in Stoppers, EraseConnection(p) PROVE Membership'
  BY <1>23 DEF TypeOK, EraseConnection, Invalidates, Other, Goto,
             serverVars, stopperVars, handlerVars, managerVars, closeVars, haltVars
<1>24. ASSUME NEW p \in Stoppers, JoinInner(p) PROVE Membership'
  BY <1>24 DEF TypeOK, JoinInner, Goto,
             serverVars, stopperVars, handlerVars, managerVars, closeVars, haltVars
<1>25. ASSUME FirstConnection PROVE Membership'
  BY <1>25 DEF TypeOK, FirstConnection, Goto,
             serverVars, stopperVars, handlerVars, managerVars, closeVars, haltVars
<1>26. ASSUME NEW c \in Conns, NEW m \in Managers, SubscriberHangs(c, m) PROVE Membership'
  BY <1>26 DEF TypeOK, SubscriberHangs,
             serverVars, stopperVars, handlerVars, managerVars, closeVars, haltVars
<1>27. ASSUME NEW c \in Conns, NEW m \in Managers, SubscriberResumes(c, m) PROVE Membership'
  BY <1>27 DEF TypeOK, SubscriberResumes,
             serverVars, stopperVars, handlerVars, managerVars, closeVars, haltVars
<1>28. ASSUME NEW p \in Stoppers, Stop(p) PROVE Membership'
  BY <1>9, <1>10, <1>11, <1>12, <1>14, <1>15, <1>22, <1>23, <1>28, Zenon DEF Stop
<1>29. ASSUME ServerThread PROVE Membership'
  BY <1>3, <1>4, <1>5, <1>6, <1>7, <1>8, <1>29, Zenon DEF ServerThread
<1>30. ASSUME Main PROVE Membership'
  BY <1>16, <1>17, <1>18, <1>19, <1>20, <1>25, <1>30, Zenon DEF Main
<1> QED
  BY <1>1, <1>2, <1>13, <1>21, <1>24, <1>26, <1>27, <1>28, <1>29, <1>30 DEF Next

LEMMA MembershipImplies == TypeOK /\ Membership => StoppedOnce
<1> QED
  BY DEF TypeOK, Membership, Exclusive, StoppedOnce, Alive, StoppedBy, StopProgress,
     BeforeClose, StopSteps, Stoppers

\* Unless one of them changes the list while the other goes through it, stopConnection on
\* the server's strand and stopAllConnections on the main thread never stop one connection
\* both, and none is stopped or listed once it is closed: the search and the erasure, which
\* are two steps, are enough for that without a lock (connectionManager.hpp:107-147).
THEOREM StopsAreExclusive == Spec => []StoppedOnce
<1>1. Init => TypeOK /\ Membership
  BY InitTyped, InitMembership
<1>2. (TypeOK /\ Membership) /\ [Next]_vars => (TypeOK /\ Membership)'
  BY StepTyped, StepMembership
<1> QED
  BY <1>1, <1>2, MembershipImplies, PTL DEF Spec

----------------------------------------------------------------------------
(* Authorisation.                                                          *)

LEMMA InitAuthorised == Init => Authorised
<1> QED
  BY DEF Init, Authorised, StartedIsAuthorised

LEMMA StepAuthorised ==
  ASSUME TypeOK, Membership, Authorised, [Next]_vars
  PROVE  Authorised'
<1> USE ConnectionAssumption
   DEF Authorised, StartedIsAuthorised, Authorising, Joined, Stoppers, StopSteps,
       Membership, Progress
<1>1. ASSUME NEW c \in Conns, Handshake(c) PROVE Authorised'
  BY <1>1 DEF TypeOK, Handshake, CanRun, Authorise,
             serverVars, stopperVars, handlerVars, managerVars, closeVars, haltVars
<1>2. ASSUME NEW c \in Conns, HandshakeFails(c) PROVE Authorised'
  BY <1>2 DEF TypeOK, HandshakeFails, CanRun, stopConnection,
             serverVars, stopperVars, handlerVars, managerVars, closeVars, haltVars
<1>3. ASSUME NEW c \in Conns, validateUserKey(c) PROVE Authorised'
  BY <1>3 DEF TypeOK, validateUserKey, CanRun,
             serverVars, stopperVars, handlerVars, managerVars, closeVars, haltVars
<1>4. ASSUME NEW c \in Conns, KeyIsInvalid(c) PROVE Authorised'
  BY <1>4 DEF TypeOK, KeyIsInvalid, CanRun, stopConnection,
             serverVars, stopperVars, handlerVars, managerVars, closeVars, haltVars
<1>5. ASSUME NEW c \in Conns, KeyIsValid(c) PROVE Authorised'
  BY <1>5 DEF TypeOK, KeyIsValid, CanRun, Authorise,
             serverVars, stopperVars, handlerVars, managerVars, closeVars, haltVars
<1>6. ASSUME NEW c \in Conns, StartFlag(c) PROVE Authorised'
  BY <1>6 DEF TypeOK, StartFlag, CanRun,
             serverVars, stopperVars, handlerVars, managerVars, closeVars, haltVars
<1>7. ASSUME NEW c \in Conns, StartSpawn(c) PROVE Authorised'
  BY <1>7 DEF TypeOK, StartSpawn, CanRun,
             serverVars, stopperVars, handlerVars, managerVars, closeVars, haltVars
<1>8. ASSUME NEW c \in Conns, StartLast(c) PROVE Authorised'
  BY <1>8 DEF TypeOK, StartLast, CanRun,
             serverVars, stopperVars, handlerVars, managerVars, closeVars, haltVars
<1>9. ASSUME NEW c \in Conns, ReadFails(c) PROVE Authorised'
  BY <1>9 DEF TypeOK, ReadFails, CanRun, stopConnection,
             serverVars, stopperVars, handlerVars, managerVars, closeVars, haltVars
<1>10. ASSUME NEW c \in Conns, WriteFails(c) PROVE Authorised'
  BY <1>10 DEF TypeOK, WriteFails, CanRun, stopConnection,
             serverVars, stopperVars, handlerVars, managerVars, closeVars, haltVars
<1>11. ASSUME NEW c \in Conns, ReadStops(c) PROVE Authorised'
  BY <1>11 DEF TypeOK, ReadStops, CanRun,
             serverVars, stopperVars, handlerVars, managerVars, closeVars, haltVars
<1>12. ASSUME NEW c \in Conns, HandlerThrows(c) PROVE Authorised'
  BY <1>12 DEF TypeOK, HandlerThrows, CanRun, stopConnection,
             serverVars, stopperVars, handlerVars, managerVars, closeVars, haltVars
<1>13. ASSUME NEW c \in Conns, validAuthenticationCheckCallback(c) PROVE Authorised'
  BY <1>13 DEF TypeOK, validAuthenticationCheckCallback, CanRun, stopConnection,
             serverVars, stopperVars, handlerVars, managerVars, closeVars, haltVars
<1>14. ASSUME NEW c \in Conns, authenticationEndCallback(c) PROVE Authorised'
  BY <1>14 DEF TypeOK, authenticationEndCallback, CanRun, stopConnection,
             serverVars, stopperVars, handlerVars, managerVars, closeVars, haltVars
<1>15. ASSUME NEW c \in Conns, RunEnds(c) PROVE Authorised'
  BY <1>15 DEF TypeOK, RunEnds, CanRun,
             serverVars, stopperVars, handlerVars, managerVars, closeVars, haltVars
<1>16. ASSUME NEW c \in Conns, NEW m \in Managers, processMessage(c, m) PROVE Authorised'
  BY <1>16 DEF TypeOK, processMessage, CanRun,
             serverVars, stopperVars, handlerVars, managerVars, closeVars, haltVars
<1>17. ASSUME NEW c \in Conns, NEW m \in Managers, ManagerTests(c, m) PROVE Authorised'
  BY <1>17 DEF TypeOK, ManagerTests, CanRun,
             serverVars, stopperVars, handlerVars, managerVars, closeVars, haltVars
<1>18. ASSUME NEW c \in Conns, NEW m \in Managers, ManagerSleeps(c, m) PROVE Authorised'
  BY <1>18 DEF TypeOK, ManagerSleeps, CanRun,
             serverVars, stopperVars, handlerVars, managerVars, closeVars, haltVars
<1>19. ASSUME NEW c \in Conns, AcceptConnection(c) PROVE Authorised'
  BY <1>19 DEF TypeOK, AcceptConnection, Goto,
             serverVars, stopperVars, handlerVars, managerVars, closeVars, haltVars
<1>20. ASSUME NEW c \in Conns, AcceptThrows(c) PROVE Authorised'
  BY <1>20 DEF TypeOK, AcceptThrows, Goto,
             serverVars, stopperVars, handlerVars, managerVars, closeVars, haltVars
<1>21. ASSUME NEW c \in Conns, TakeStop(c) PROVE Authorised'
  BY <1>21 DEF TypeOK, TakeStop, Goto,
             serverVars, stopperVars, handlerVars, managerVars, closeVars, haltVars
<1>22. ASSUME PushConnection PROVE Authorised'
  BY <1>22 DEF TypeOK, PushConnection, Invalidates, Other, Goto,
             serverVars, stopperVars, handlerVars, managerVars, closeVars, haltVars
<1>23. ASSUME Relisten PROVE Authorised'
  BY <1>23 DEF TypeOK, Relisten, Goto,
             serverVars, stopperVars, handlerVars, managerVars, closeVars, haltVars
<1>24. ASSUME ServerEnds PROVE Authorised'
  BY <1>24 DEF TypeOK, ServerEnds, Goto,
             serverVars, stopperVars, handlerVars, managerVars, closeVars, haltVars
<1>25. ASSUME NEW p \in Stoppers, StopConnectionThread(p) PROVE Authorised'
  BY <1>25 DEF TypeOK, StopConnectionThread, Goto,
             serverVars, stopperVars, handlerVars, managerVars, closeVars, haltVars
<1>26. ASSUME NEW p \in Stoppers, StopManager(p) PROVE Authorised'
  BY <1>26 DEF TypeOK, StopManager, Goto,
             serverVars, stopperVars, handlerVars, managerVars, closeVars, haltVars
<1>27. ASSUME NEW p \in Stoppers, JoinManager(p) PROVE Authorised'
  BY <1>27 DEF TypeOK, JoinManager, Goto,
             serverVars, stopperVars, handlerVars, managerVars, closeVars, haltVars
<1>28. ASSUME NEW p \in Stoppers, JoinConnection(p) PROVE Authorised'
  BY <1>28 DEF TypeOK, JoinConnection, Goto,
             serverVars, stopperVars, handlerVars, managerVars, closeVars, haltVars
<1>29. ASSUME NEW p \in Stoppers, CloseConnection(p) PROVE Authorised'
  BY <1>29 DEF TypeOK, CloseConnection, Finish, Idle, Goto,
             serverVars, stopperVars, handlerVars, managerVars, closeVars, haltVars
<1>30. ASSUME NEW p \in Stoppers, DestroyFlag(p) PROVE Authorised'
  BY <1>30 DEF TypeOK, DestroyFlag, Goto,
             serverVars, stopperVars, handlerVars, managerVars, closeVars, haltVars
<1>31. ASSUME NEW p \in Stoppers, DestroyJoin(p) PROVE Authorised'
  BY <1>31 DEF TypeOK, DestroyJoin, Finish, Idle, Goto,
             serverVars, stopperVars, handlerVars, managerVars, closeVars, haltVars
<1>32. ASSUME Halt PROVE Authorised'
  BY <1>32 DEF TypeOK, Halt, Goto,
             serverVars, stopperVars, handlerVars, managerVars, closeVars, haltVars
<1>33. ASSUME stopListening PROVE Authorised'
  BY <1>33 DEF TypeOK, stopListening, Goto,
             serverVars, stopperVars, handlerVars, managerVars, closeVars, haltVars
<1>34. ASSUME stopAllConnections PROVE Authorised'
  BY <1>34 DEF TypeOK, stopAllConnections, Goto,
             serverVars, stopperVars, handlerVars, managerVars, closeVars, haltVars
<1>35. ASSUME JoinServer PROVE Authorised'
  BY <1>35 DEF TypeOK, JoinServer, Goto,
             serverVars, stopperVars, handlerVars, managerVars, closeVars, haltVars
<1>36. ASSUME DestroyServer PROVE Authorised'
  BY <1>36 DEF TypeOK, DestroyServer, Goto,
             serverVars, stopperVars, handlerVars, managerVars, closeVars, haltVars
<1>37. CASE UNCHANGED vars
  BY <1>37 DEF vars, serverVars, stopperVars, handlerVars, managerVars, closeVars, haltVars
<1>38. ASSUME NEW p \in Stoppers, SearchConnection(p) PROVE Authorised'
  BY <1>38 DEF TypeOK, SearchConnection, Finish, Idle, Other, Goto,
             serverVars, stopperVars, handlerVars, managerVars, closeVars, haltVars
<1>39. ASSUME NEW p \in Stoppers, EraseConnection(p) PROVE Authorised'
  BY <1>39 DEF TypeOK, EraseConnection, Invalidates, Other, Goto,
             serverVars, stopperVars, handlerVars, managerVars, closeVars, haltVars
<1>40. ASSUME NEW p \in Stoppers, JoinInner(p) PROVE Authorised'
  BY <1>40 DEF TypeOK, JoinInner, Goto,
             serverVars, stopperVars, handlerVars, managerVars, closeVars, haltVars
<1>41. ASSUME FirstConnection PROVE Authorised'
  BY <1>41 DEF TypeOK, FirstConnection, Goto,
             serverVars, stopperVars, handlerVars, managerVars, closeVars, haltVars
<1>42. ASSUME NEW c \in Conns, NEW m \in Managers, SubscriberHangs(c, m) PROVE Authorised'
  BY <1>42 DEF TypeOK, SubscriberHangs,
             serverVars, stopperVars, handlerVars, managerVars, closeVars, haltVars
<1>43. ASSUME NEW c \in Conns, NEW m \in Managers, SubscriberResumes(c, m) PROVE Authorised'
  BY <1>43 DEF TypeOK, SubscriberResumes,
             serverVars, stopperVars, handlerVars, managerVars, closeVars, haltVars
<1> QED
  BY <1>1, <1>2, <1>3, <1>4, <1>5, <1>6, <1>7, <1>8, <1>9, <1>10, <1>11, <1>12, <1>13,
     <1>14, <1>15, <1>16, <1>17, <1>18, <1>19, <1>20, <1>21, <1>22, <1>23, <1>24, <1>25,
     <1>26, <1>27, <1>28, <1>29, <1>30, <1>31, <1>32, <1>33, <1>34, <1>35, <1>36, <1>37,
     <1>38, <1>39, <1>40, <1>41, <1>42, <1>43
     DEF Next, Connection, Manager, Stop, ServerThread, Main

\* onAuthorized starts a manager only after a valid key, or when the check is omitted
\* (websocketServerConnection.cpp:137-147, 185-192).
THEOREM ManagersAreAuthorised == Spec => []StartedIsAuthorised
<1>1. Init => TypeOK /\ Membership /\ Authorised
  BY InitTyped, InitMembership, InitAuthorised
<1>2. (TypeOK /\ Membership /\ Authorised) /\ [Next]_vars => (TypeOK /\ Membership /\ Authorised)'
  BY StepTyped, StepMembership, StepAuthorised
<1>3. Authorised => StartedIsAuthorised
  BY DEF Authorised
<1> QED
  BY <1>1, <1>2, <1>3, PTL DEF Spec

----------------------------------------------------------------------------
(* No connection is forgotten.                                             *)

LEMMA InitWatched == Init => Watched
<1> QED
  BY DEF Init, Watched, Pushed, Stoppers

LEMMA StepWatched ==
  ASSUME TypeOK, Membership, Watched, [Next]_vars
  PROVE  Watched'
<1> USE ConnectionAssumption DEF Watched, Waits, Stoppers, StopSteps, Authorising,
       Membership, Pushed, StoppedBy, Alive, Untouched, StopProgress, BeforeClose, Progress,
     Exclusive, ListSteps
<1>1. ASSUME NEW c \in Conns, Handshake(c) PROVE Watched'
  BY <1>1 DEF TypeOK, Handshake, CanRun, Authorise,
             serverVars, stopperVars, handlerVars, managerVars, closeVars, haltVars
<1>2. ASSUME NEW c \in Conns, HandshakeFails(c) PROVE Watched'
  BY <1>2 DEF TypeOK, HandshakeFails, CanRun, stopConnection,
             serverVars, stopperVars, handlerVars, managerVars, closeVars, haltVars
<1>3. ASSUME NEW c \in Conns, validateUserKey(c) PROVE Watched'
  BY <1>3 DEF TypeOK, validateUserKey, CanRun,
             serverVars, stopperVars, handlerVars, managerVars, closeVars, haltVars
<1>4. ASSUME NEW c \in Conns, KeyIsInvalid(c) PROVE Watched'
  BY <1>4 DEF TypeOK, KeyIsInvalid, CanRun, stopConnection,
             serverVars, stopperVars, handlerVars, managerVars, closeVars, haltVars
<1>5. ASSUME NEW c \in Conns, KeyIsValid(c) PROVE Watched'
  BY <1>5 DEF TypeOK, KeyIsValid, CanRun, Authorise,
             serverVars, stopperVars, handlerVars, managerVars, closeVars, haltVars
<1>6. ASSUME NEW c \in Conns, StartFlag(c) PROVE Watched'
  BY <1>6 DEF TypeOK, StartFlag, CanRun,
             serverVars, stopperVars, handlerVars, managerVars, closeVars, haltVars
<1>7. ASSUME NEW c \in Conns, StartSpawn(c) PROVE Watched'
  BY <1>7 DEF TypeOK, StartSpawn, CanRun,
             serverVars, stopperVars, handlerVars, managerVars, closeVars, haltVars
<1>8. ASSUME NEW c \in Conns, StartLast(c) PROVE Watched'
  BY <1>8 DEF TypeOK, StartLast, CanRun,
             serverVars, stopperVars, handlerVars, managerVars, closeVars, haltVars
<1>9. ASSUME NEW c \in Conns, ReadFails(c) PROVE Watched'
  BY <1>9 DEF TypeOK, ReadFails, CanRun, stopConnection,
             serverVars, stopperVars, handlerVars, managerVars, closeVars, haltVars
<1>10. ASSUME NEW c \in Conns, WriteFails(c) PROVE Watched'
  BY <1>10 DEF TypeOK, WriteFails, CanRun, stopConnection,
             serverVars, stopperVars, handlerVars, managerVars, closeVars, haltVars
<1>11. ASSUME NEW c \in Conns, ReadStops(c) PROVE Watched'
  BY <1>11 DEF TypeOK, ReadStops, CanRun,
             serverVars, stopperVars, handlerVars, managerVars, closeVars, haltVars
<1>12. ASSUME NEW c \in Conns, HandlerThrows(c) PROVE Watched'
  BY <1>12 DEF TypeOK, HandlerThrows, CanRun, stopConnection,
             serverVars, stopperVars, handlerVars, managerVars, closeVars, haltVars
<1>13. ASSUME NEW c \in Conns, validAuthenticationCheckCallback(c) PROVE Watched'
  BY <1>13 DEF TypeOK, validAuthenticationCheckCallback, CanRun, stopConnection,
             serverVars, stopperVars, handlerVars, managerVars, closeVars, haltVars
<1>14. ASSUME NEW c \in Conns, authenticationEndCallback(c) PROVE Watched'
  BY <1>14 DEF TypeOK, authenticationEndCallback, CanRun, stopConnection,
             serverVars, stopperVars, handlerVars, managerVars, closeVars, haltVars
<1>15. ASSUME NEW c \in Conns, RunEnds(c) PROVE Watched'
  BY <1>15 DEF TypeOK, RunEnds, CanRun,
             serverVars, stopperVars, handlerVars, managerVars, closeVars, haltVars
<1>16. ASSUME NEW c \in Conns, NEW m \in Managers, processMessage(c, m) PROVE Watched'
  BY <1>16 DEF TypeOK, processMessage, CanRun,
             serverVars, stopperVars, handlerVars, managerVars, closeVars, haltVars
<1>17. ASSUME NEW c \in Conns, NEW m \in Managers, ManagerTests(c, m) PROVE Watched'
  BY <1>17 DEF TypeOK, ManagerTests, CanRun,
             serverVars, stopperVars, handlerVars, managerVars, closeVars, haltVars
<1>18. ASSUME NEW c \in Conns, NEW m \in Managers, ManagerSleeps(c, m) PROVE Watched'
  BY <1>18 DEF TypeOK, ManagerSleeps, CanRun,
             serverVars, stopperVars, handlerVars, managerVars, closeVars, haltVars
<1>19. ASSUME NEW c \in Conns, AcceptConnection(c) PROVE Watched'
  BY <1>19 DEF TypeOK, AcceptConnection, Goto,
             serverVars, stopperVars, handlerVars, managerVars, closeVars, haltVars
<1>20. ASSUME NEW c \in Conns, AcceptThrows(c) PROVE Watched'
  BY <1>20 DEF TypeOK, AcceptThrows, Goto,
             serverVars, stopperVars, handlerVars, managerVars, closeVars, haltVars
<1>21. ASSUME NEW c \in Conns, TakeStop(c) PROVE Watched'
  BY <1>21 DEF TypeOK, TakeStop, Goto,
             serverVars, stopperVars, handlerVars, managerVars, closeVars, haltVars
<1>22. ASSUME PushConnection PROVE Watched'
  BY <1>22 DEF TypeOK, PushConnection, Invalidates, Other, Goto,
             serverVars, stopperVars, handlerVars, managerVars, closeVars, haltVars
<1>23. ASSUME Relisten PROVE Watched'
  BY <1>23 DEF TypeOK, Relisten, Goto,
             serverVars, stopperVars, handlerVars, managerVars, closeVars, haltVars
<1>24. ASSUME ServerEnds PROVE Watched'
  BY <1>24 DEF TypeOK, ServerEnds, Goto,
             serverVars, stopperVars, handlerVars, managerVars, closeVars, haltVars
<1>25. ASSUME NEW p \in Stoppers, StopConnectionThread(p) PROVE Watched'
  BY <1>25 DEF TypeOK, StopConnectionThread, Goto,
             serverVars, stopperVars, handlerVars, managerVars, closeVars, haltVars
<1>26. ASSUME NEW p \in Stoppers, StopManager(p) PROVE Watched'
  BY <1>26 DEF TypeOK, StopManager, Goto,
             serverVars, stopperVars, handlerVars, managerVars, closeVars, haltVars
<1>27. ASSUME NEW p \in Stoppers, JoinManager(p) PROVE Watched'
  BY <1>27 DEF TypeOK, JoinManager, Goto,
             serverVars, stopperVars, handlerVars, managerVars, closeVars, haltVars
<1>28. ASSUME NEW p \in Stoppers, JoinConnection(p) PROVE Watched'
  BY <1>28 DEF TypeOK, JoinConnection, Goto,
             serverVars, stopperVars, handlerVars, managerVars, closeVars, haltVars
<1>29. ASSUME NEW p \in Stoppers, CloseConnection(p) PROVE Watched'
  BY <1>29 DEF TypeOK, CloseConnection, Finish, Idle, Goto,
             serverVars, stopperVars, handlerVars, managerVars, closeVars, haltVars
<1>30. ASSUME NEW p \in Stoppers, DestroyFlag(p) PROVE Watched'
  BY <1>30 DEF TypeOK, DestroyFlag, Goto,
             serverVars, stopperVars, handlerVars, managerVars, closeVars, haltVars
<1>31. ASSUME NEW p \in Stoppers, DestroyJoin(p) PROVE Watched'
  BY <1>31 DEF TypeOK, DestroyJoin, Finish, Idle, Goto,
             serverVars, stopperVars, handlerVars, managerVars, closeVars, haltVars
<1>32. ASSUME Halt PROVE Watched'
  BY <1>32 DEF TypeOK, Halt, Goto,
             serverVars, stopperVars, handlerVars, managerVars, closeVars, haltVars
<1>33. ASSUME stopListening PROVE Watched'
  BY <1>33 DEF TypeOK, stopListening, Goto,
             serverVars, stopperVars, handlerVars, managerVars, closeVars, haltVars
<1>34. ASSUME stopAllConnections PROVE Watched'
  BY <1>34 DEF TypeOK, stopAllConnections, Goto,
             serverVars, stopperVars, handlerVars, managerVars, closeVars, haltVars
<1>35. ASSUME JoinServer PROVE Watched'
  BY <1>35 DEF TypeOK, JoinServer, Goto,
             serverVars, stopperVars, handlerVars, managerVars, closeVars, haltVars
<1>36. ASSUME DestroyServer PROVE Watched'
  BY <1>36 DEF TypeOK, DestroyServer, Goto,
             serverVars, stopperVars, handlerVars, managerVars, closeVars, haltVars
<1>37. CASE UNCHANGED vars
  BY <1>37 DEF vars, serverVars, stopperVars, handlerVars, managerVars, closeVars, haltVars
<1>38. ASSUME NEW p \in Stoppers, SearchConnection(p) PROVE Watched'
  BY <1>38 DEF TypeOK, SearchConnection, Finish, Idle, Other, Goto,
             serverVars, stopperVars, handlerVars, managerVars, closeVars, haltVars
<1>39. ASSUME NEW p \in Stoppers, EraseConnection(p) PROVE Watched'
  BY <1>39 DEF TypeOK, EraseConnection, Invalidates, Other, Goto,
             serverVars, stopperVars, handlerVars, managerVars, closeVars, haltVars
<1>40. ASSUME NEW p \in Stoppers, JoinInner(p) PROVE Watched'
  BY <1>40 DEF TypeOK, JoinInner, Goto,
             serverVars, stopperVars, handlerVars, managerVars, closeVars, haltVars
<1>41. ASSUME FirstConnection PROVE Watched'
  BY <1>41 DEF TypeOK, FirstConnection, Goto,
             serverVars, stopperVars, handlerVars, managerVars, closeVars, haltVars
<1>42. ASSUME NEW c \in Conns, NEW m \in Managers, SubscriberHangs(c, m) PROVE Watched'
  BY <1>42 DEF TypeOK, SubscriberHangs,
             serverVars, stopperVars, handlerVars, managerVars, closeVars, haltVars
<1>43. ASSUME NEW c \in Conns, NEW m \in Managers, SubscriberResumes(c, m) PROVE Watched'
  BY <1>43 DEF TypeOK, SubscriberResumes,
             serverVars, stopperVars, handlerVars, managerVars, closeVars, haltVars
<1> QED
  BY <1>1, <1>2, <1>3, <1>4, <1>5, <1>6, <1>7, <1>8, <1>9, <1>10, <1>11, <1>12, <1>13,
     <1>14, <1>15, <1>16, <1>17, <1>18, <1>19, <1>20, <1>21, <1>22, <1>23, <1>24, <1>25,
     <1>26, <1>27, <1>28, <1>29, <1>30, <1>31, <1>32, <1>33, <1>34, <1>35, <1>36, <1>37,
     <1>38, <1>39, <1>40, <1>41, <1>42, <1>43
     DEF Next, Connection, Manager, Stop, ServerThread, Main

\* A connection whose run() has returned is going to be taken from the list: every handler
\* that gives it nothing more to wait for calls stopConnection.
THEOREM NoneIsForgotten == Spec => []NoZombie
<1>1. Init => TypeOK /\ Membership /\ Watched
  BY InitTyped, InitMembership, InitWatched
<1>2. (TypeOK /\ Membership /\ Watched) /\ [Next]_vars => (TypeOK /\ Membership /\ Watched)'
  BY StepTyped, StepMembership, StepWatched
<1>3. TypeOK /\ Watched => NoZombie
  BY DEF TypeOK, Watched, Waits, NoZombie
<1> QED
  BY <1>1, <1>2, <1>3, PTL DEF Spec

----------------------------------------------------------------------------
(* Nothing runs on.                                                        *)

LEMMA InitQuietening == Init => Quietening
<1> QED
  BY DEF Init, Quietening, Stopped, ClosedIsQuiet, Stoppers

LEMMA StopConnectionFrame ==
  ASSUME TypeOK, NEW p \in Stoppers, StopConnectionThread(p)
  PROVE  \A d \in Conns \ {cur[p]} : connStopped'[d] = connStopped[d]
<1>1. connStopped \in [Conns -> BOOLEAN]
  BY DEF TypeOK
<1>2. connStopped' = [connStopped EXCEPT ![cur[p]] = TRUE]
  BY DEF StopConnectionThread
<1> QED
  BY <1>1, <1>2

LEMMA StepQuietening ==
  ASSUME TypeOK, Membership, Quietening, [Next]_vars
  PROVE  Quietening'
<1> USE ConnectionAssumption
   DEF Quietening, Stopped, ClosedIsQuiet, Stoppers, StopSteps, Authorising, Joined, Managers,
       Membership, Pushed, StoppedBy, Alive, Untouched, StopProgress, BeforeClose, Progress,
     Exclusive, ListSteps
<1>1. ASSUME NEW c \in Conns, Handshake(c) PROVE Quietening'
  BY <1>1 DEF TypeOK, Handshake, CanRun, Authorise,
             serverVars, stopperVars, handlerVars, managerVars, closeVars, haltVars
<1>2. ASSUME NEW c \in Conns, HandshakeFails(c) PROVE Quietening'
  BY <1>2 DEF TypeOK, HandshakeFails, CanRun, stopConnection,
             serverVars, stopperVars, handlerVars, managerVars, closeVars, haltVars
<1>3. ASSUME NEW c \in Conns, validateUserKey(c) PROVE Quietening'
  BY <1>3 DEF TypeOK, validateUserKey, CanRun,
             serverVars, stopperVars, handlerVars, managerVars, closeVars, haltVars
<1>4. ASSUME NEW c \in Conns, KeyIsInvalid(c) PROVE Quietening'
  BY <1>4 DEF TypeOK, KeyIsInvalid, CanRun, stopConnection,
             serverVars, stopperVars, handlerVars, managerVars, closeVars, haltVars
<1>5. ASSUME NEW c \in Conns, KeyIsValid(c) PROVE Quietening'
  BY <1>5 DEF TypeOK, KeyIsValid, CanRun, Authorise,
             serverVars, stopperVars, handlerVars, managerVars, closeVars, haltVars
<1>6. ASSUME NEW c \in Conns, StartFlag(c) PROVE Quietening'
  BY <1>6 DEF TypeOK, StartFlag, CanRun,
             serverVars, stopperVars, handlerVars, managerVars, closeVars, haltVars
<1>7. ASSUME NEW c \in Conns, StartSpawn(c) PROVE Quietening'
  BY <1>7 DEF TypeOK, StartSpawn, CanRun,
             serverVars, stopperVars, handlerVars, managerVars, closeVars, haltVars
<1>8. ASSUME NEW c \in Conns, StartLast(c) PROVE Quietening'
  BY <1>8 DEF TypeOK, StartLast, CanRun,
             serverVars, stopperVars, handlerVars, managerVars, closeVars, haltVars
<1>9. ASSUME NEW c \in Conns, ReadFails(c) PROVE Quietening'
  BY <1>9 DEF TypeOK, ReadFails, CanRun, stopConnection,
             serverVars, stopperVars, handlerVars, managerVars, closeVars, haltVars
<1>10. ASSUME NEW c \in Conns, WriteFails(c) PROVE Quietening'
  BY <1>10 DEF TypeOK, WriteFails, CanRun, stopConnection,
             serverVars, stopperVars, handlerVars, managerVars, closeVars, haltVars
<1>11. ASSUME NEW c \in Conns, ReadStops(c) PROVE Quietening'
  BY <1>11 DEF TypeOK, ReadStops, CanRun,
             serverVars, stopperVars, handlerVars, managerVars, closeVars, haltVars
<1>12. ASSUME NEW c \in Conns, HandlerThrows(c) PROVE Quietening'
  BY <1>12 DEF TypeOK, HandlerThrows, CanRun, stopConnection,
             serverVars, stopperVars, handlerVars, managerVars, closeVars, haltVars
<1>13. ASSUME NEW c \in Conns, validAuthenticationCheckCallback(c) PROVE Quietening'
  BY <1>13 DEF TypeOK, validAuthenticationCheckCallback, CanRun, stopConnection,
             serverVars, stopperVars, handlerVars, managerVars, closeVars, haltVars
<1>14. ASSUME NEW c \in Conns, authenticationEndCallback(c) PROVE Quietening'
  BY <1>14 DEF TypeOK, authenticationEndCallback, CanRun, stopConnection,
             serverVars, stopperVars, handlerVars, managerVars, closeVars, haltVars
<1>15. ASSUME NEW c \in Conns, RunEnds(c) PROVE Quietening'
  BY <1>15 DEF TypeOK, RunEnds, CanRun,
             serverVars, stopperVars, handlerVars, managerVars, closeVars, haltVars
<1>16. ASSUME NEW c \in Conns, NEW m \in Managers, processMessage(c, m) PROVE Quietening'
  BY <1>16 DEF TypeOK, processMessage, CanRun,
             serverVars, stopperVars, handlerVars, managerVars, closeVars, haltVars
<1>17. ASSUME NEW c \in Conns, NEW m \in Managers, ManagerTests(c, m) PROVE Quietening'
  BY <1>17 DEF TypeOK, ManagerTests, CanRun,
             serverVars, stopperVars, handlerVars, managerVars, closeVars, haltVars
<1>18. ASSUME NEW c \in Conns, NEW m \in Managers, ManagerSleeps(c, m) PROVE Quietening'
  BY <1>18 DEF TypeOK, ManagerSleeps, CanRun,
             serverVars, stopperVars, handlerVars, managerVars, closeVars, haltVars
<1>19. ASSUME NEW c \in Conns, AcceptConnection(c) PROVE Quietening'
  BY <1>19 DEF TypeOK, AcceptConnection, Goto,
             serverVars, stopperVars, handlerVars, managerVars, closeVars, haltVars
<1>20. ASSUME NEW c \in Conns, AcceptThrows(c) PROVE Quietening'
  BY <1>20 DEF TypeOK, AcceptThrows, Goto,
             serverVars, stopperVars, handlerVars, managerVars, closeVars, haltVars
<1>21. ASSUME NEW c \in Conns, TakeStop(c) PROVE Quietening'
  BY <1>21 DEF TypeOK, TakeStop, Goto,
             serverVars, stopperVars, handlerVars, managerVars, closeVars, haltVars
<1>22. ASSUME PushConnection PROVE Quietening'
  BY <1>22 DEF TypeOK, PushConnection, Invalidates, Other, Goto,
             serverVars, stopperVars, handlerVars, managerVars, closeVars, haltVars
<1>23. ASSUME Relisten PROVE Quietening'
  BY <1>23 DEF TypeOK, Relisten, Goto,
             serverVars, stopperVars, handlerVars, managerVars, closeVars, haltVars
<1>24. ASSUME ServerEnds PROVE Quietening'
  BY <1>24 DEF TypeOK, ServerEnds, Goto,
             serverVars, stopperVars, handlerVars, managerVars, closeVars, haltVars
<1>25. ASSUME NEW p \in Stoppers, StopConnectionThread(p) PROVE Quietening'
  <2> DEFINE c == cur[p]
  <2>1. c \in Conns /\ overlap \in [Conns -> BOOLEAN]
    BY <1>25 DEF TypeOK, StopConnectionThread
  <2>2. overlap' = [overlap EXCEPT ![c] = overlap[c] \/ at[c] \in Authorising]
    BY <1>25 DEF StopConnectionThread
  <2>3. overlap'[c] <=> overlap[c] \/ at[c] \in Authorising
    <3>1. CASE overlap[c] \/ at[c] \in Authorising
      <4>1. (overlap[c] \/ at[c] \in Authorising) = TRUE
        BY <3>1
      <4>2. overlap' = [overlap EXCEPT ![c] = TRUE]
        BY <2>2, <4>1, Zenon
      <4> QED
        BY <2>1, <3>1, <4>2
    <3>2. CASE ~(overlap[c] \/ at[c] \in Authorising)
      <4>1. (overlap[c] \/ at[c] \in Authorising) = FALSE
        BY <3>2
      <4>2. overlap' = [overlap EXCEPT ![c] = FALSE]
        BY <2>2, <4>1, Zenon
      <4> QED
        BY <2>1, <3>2, <4>2
    <3> QED
      BY <3>1, <3>2
  <2>4. \A d \in Conns \ {c} : overlap'[d] = overlap[d]
    BY <2>1, <2>2
  <2>5. \A d \in Conns : overlap[d] => overlap'[d]
    BY <2>3, <2>4
  <2>6. \A d \in Conns \ {c} : connStopped'[d] = connStopped[d]
    BY <1>25, StopConnectionFrame
  <2>7. /\ pc'[p] = "flag" /\ idx'[p] = 1
        /\ \A q \in Stoppers \ {p} : pc'[q] = pc[q] /\ idx'[q] = idx[q]
    BY <1>25 DEF TypeOK, StopConnectionThread, Goto
  <2>8. UNCHANGED <<cur, at, thread, closed>>
    BY <1>25 DEF StopConnectionThread, handlerVars, managerVars
  <2>9. \A d \in Conns : connStopped'[d] /\ ~overlap'[d] => at'[d] \notin Authorising
    BY <2>3, <2>4, <2>6, <2>8
  <2>10. \A q \in Stoppers : pc[q] \in StopSteps => cur[q] \in Conns
    BY DEF TypeOK
  <2>11. \A q \in Stoppers, m \in Managers :
           pc'[q] \in {"flag", "inner", "join"} /\ m < idx'[q] => Stopped(cur[q], m)'
    BY <2>5, <2>7, <2>8, <2>10
  <2>12. \A q \in Stoppers, m \in Managers :
           pc'[q] \in {"joinConn", "close"} => Stopped(cur[q], m)'
    BY <2>5, <2>7, <2>8, <2>10
  <2>13. \A q \in Stoppers : pc'[q] = "close" => at'[cur'[q]] = "ended"
    BY <2>7, <2>8
  <2>14. ClosedIsQuiet'
    BY <2>5, <2>8
  <2> QED
    BY <2>9, <2>11, <2>12, <2>13, <2>14
<1>26. ASSUME NEW p \in Stoppers, StopManager(p) PROVE Quietening'
  BY <1>26 DEF TypeOK, StopManager, Goto,
             serverVars, stopperVars, handlerVars, managerVars, closeVars, haltVars
<1>27. ASSUME NEW p \in Stoppers, JoinManager(p) PROVE Quietening'
  BY <1>27 DEF TypeOK, JoinManager, Goto,
             serverVars, stopperVars, handlerVars, managerVars, closeVars, haltVars
<1>28. ASSUME NEW p \in Stoppers, JoinConnection(p) PROVE Quietening'
  BY <1>28 DEF TypeOK, JoinConnection, Goto,
             serverVars, stopperVars, handlerVars, managerVars, closeVars, haltVars
<1>29. ASSUME NEW p \in Stoppers, CloseConnection(p) PROVE Quietening'
  BY <1>29 DEF TypeOK, CloseConnection, Finish, Idle, Goto,
             serverVars, stopperVars, handlerVars, managerVars, closeVars, haltVars
<1>30. ASSUME NEW p \in Stoppers, DestroyFlag(p) PROVE Quietening'
  BY <1>30 DEF TypeOK, DestroyFlag, Goto,
             serverVars, stopperVars, handlerVars, managerVars, closeVars, haltVars
<1>31. ASSUME NEW p \in Stoppers, DestroyJoin(p) PROVE Quietening'
  BY <1>31 DEF TypeOK, DestroyJoin, Finish, Idle, Goto,
             serverVars, stopperVars, handlerVars, managerVars, closeVars, haltVars
<1>32. ASSUME Halt PROVE Quietening'
  BY <1>32 DEF TypeOK, Halt, Goto,
             serverVars, stopperVars, handlerVars, managerVars, closeVars, haltVars
<1>33. ASSUME stopListening PROVE Quietening'
  BY <1>33 DEF TypeOK, stopListening, Goto,
             serverVars, stopperVars, handlerVars, managerVars, closeVars, haltVars
<1>34. ASSUME stopAllConnections PROVE Quietening'
  BY <1>34 DEF TypeOK, stopAllConnections, Goto,
             serverVars, stopperVars, handlerVars, managerVars, closeVars, haltVars
<1>35. ASSUME JoinServer PROVE Quietening'
  BY <1>35 DEF TypeOK, JoinServer, Goto,
             serverVars, stopperVars, handlerVars, managerVars, closeVars, haltVars
<1>36. ASSUME DestroyServer PROVE Quietening'
  BY <1>36 DEF TypeOK, DestroyServer, Goto,
             serverVars, stopperVars, handlerVars, managerVars, closeVars, haltVars
<1>37. CASE UNCHANGED vars
  BY <1>37 DEF vars, serverVars, stopperVars, handlerVars, managerVars, closeVars, haltVars
<1>38. ASSUME NEW p \in Stoppers, SearchConnection(p) PROVE Quietening'
  BY <1>38 DEF TypeOK, SearchConnection, Finish, Idle, Other, Goto,
             serverVars, stopperVars, handlerVars, managerVars, closeVars, haltVars
<1>39. ASSUME NEW p \in Stoppers, EraseConnection(p) PROVE Quietening'
  BY <1>39 DEF TypeOK, EraseConnection, Invalidates, Other, Goto,
             serverVars, stopperVars, handlerVars, managerVars, closeVars, haltVars
<1>40. ASSUME NEW p \in Stoppers, JoinInner(p) PROVE Quietening'
  BY <1>40 DEF TypeOK, JoinInner, Goto,
             serverVars, stopperVars, handlerVars, managerVars, closeVars, haltVars
<1>41. ASSUME FirstConnection PROVE Quietening'
  BY <1>41 DEF TypeOK, FirstConnection, Goto,
             serverVars, stopperVars, handlerVars, managerVars, closeVars, haltVars
<1>42. ASSUME NEW c \in Conns, NEW m \in Managers, SubscriberHangs(c, m) PROVE Quietening'
  BY <1>42 DEF TypeOK, SubscriberHangs,
             serverVars, stopperVars, handlerVars, managerVars, closeVars, haltVars
<1>43. ASSUME NEW c \in Conns, NEW m \in Managers, SubscriberResumes(c, m) PROVE Quietening'
  BY <1>43 DEF TypeOK, SubscriberResumes,
             serverVars, stopperVars, handlerVars, managerVars, closeVars, haltVars
<1> QED
  BY <1>1, <1>2, <1>3, <1>4, <1>5, <1>6, <1>7, <1>8, <1>9, <1>10, <1>11, <1>12, <1>13,
     <1>14, <1>15, <1>16, <1>17, <1>18, <1>19, <1>20, <1>21, <1>22, <1>23, <1>24, <1>25,
     <1>26, <1>27, <1>28, <1>29, <1>30, <1>31, <1>32, <1>33, <1>34, <1>35, <1>36, <1>37,
     <1>38, <1>39, <1>40, <1>41, <1>42, <1>43
     DEF Next, Connection, Manager, Stop, ServerThread, Main

\* When close() is called, onStopThread and joinThread have ended all threads of the
\* connection, unless its stop overlapped onAuthorized.
THEOREM CloseIsFinal == Spec => []ClosedIsQuiet
<1>1. Init => TypeOK /\ Membership /\ Quietening
  BY InitTyped, InitMembership, InitQuietening
<1>2. (TypeOK /\ Membership /\ Quietening) /\ [Next]_vars => (TypeOK /\ Membership /\ Quietening)'
  BY StepTyped, StepMembership, StepQuietening
<1>3. Quietening => ClosedIsQuiet
  BY DEF Quietening
<1> QED
  BY <1>1, <1>2, <1>3, PTL DEF Spec
=============================================================================
