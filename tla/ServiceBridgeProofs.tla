------------------------ MODULE ServiceBridgeProofs ------------------------
(***************************************************************************)
(* TLAPS proofs about ServiceBridge, for any clients and calls, either     *)
(* kind of callback group and whichever plugin is stopped.                 *)
(***************************************************************************)
EXTENDS ServiceBridge, SequenceTheorems, TLAPS

----------------------------------------------------------------------------
(* Strengthenings of the invariants.                                       *)

\* The answer in a message and in a handle belongs to the gid it is filed under.
MessagesFiled ==
  \A i \in DOMAIN toServer :
    toServer[i].body \in Requests => gid[toServer[i].body] = toServer[i].gid

AnswersFiled ==
  /\ MessagesFiled
  /\ Isolation

\* The calls that have not sent their request.
Unsent == {r \in Requests : call[r] \in {"idle", "checked", "registered"}}

\* A request is sent once, and its thread starts when it is handled.
RequestsOnce ==
  /\ \A r \in Unsent : thread[r] = "none"
  /\ \A i \in DOMAIN toClient :
       toClient[i].op = "SERVICE_TO_CLIENT" =>
         /\ thread[toClient[i].request] = "none"
         /\ toClient[i].request \notin Unsent
  /\ \A i, j \in DOMAIN toClient :
       /\ toClient[i].op = "SERVICE_TO_CLIENT" /\ toClient[j].op = "SERVICE_TO_CLIENT"
       /\ toClient[i].request = toClient[j].request
       => i = j

\* The request whose handle is still to be inserted is alone with its gid.
AcceptingAlone ==
  accepting # None =>
    /\ thread[accepting] # "none"
    /\ clientHandles[gid[accepting]] = None
    /\ \A s \in Requests : gid[s] = gid[accepting] /\ Running(s) => s = accepting

\* A handle is in the removal queue once, after its thread, and until its
\* removal it is the one that has its gid.
RemovalsExact ==
  /\ \A i \in DOMAIN clientRemove : thread[clientRemove[i]] = "exited"
  /\ ~clientStopping => \A i \in DOMAIN clientRemove :
       clientRemove[i] # accepting => clientHandles[gid[clientRemove[i]]] = clientRemove[i]
  /\ \A i, j \in DOMAIN clientRemove : clientRemove[i] = clientRemove[j] => i = j

HandlesFiled ==
  /\ \A c \in Callers : clientHandles[c] # None => gid[clientHandles[c]] = c
  /\ clientStop = "joining" => joining \in Requests /\ clientHandles[gid[joining]] = joining

Registration ==
  /\ AcceptingAlone
  /\ RemovalsExact
  /\ HandlesFiled
  /\ RunningIsRegistered

IInv ==
  /\ TypeOK
  /\ RequestsOnce
  /\ Registration

----------------------------------------------------------------------------
(* Types.                                                                  *)

LEMMA InitTyped == Init => TypeOK
<1> SUFFICES ASSUME Init PROVE TypeOK
  OBVIOUS
<1>1. <<>> \in Seq(ToClient) /\ <<>> \in Seq(ToServer) /\ <<>> \in Seq(Requests)
  BY EmptySeq
<1> QED
  BY <1>1, BridgeAssumption DEF Init, TypeOK, Bodies

LEMMA StepTyped == TypeOK /\ [Next]_vars => TypeOK'
<1> SUFFICES ASSUME TypeOK, [Next]_vars PROVE TypeOK'
  OBVIOUS
<1> USE BridgeAssumption
<1>a. \A S, q, x : q \in Seq(S) /\ x \in S => Append(q, x) \in Seq(S)
  BY AppendProperties
<1>b. \A S, q : q \in Seq(S) /\ q # <<>> => Tail(q) \in Seq(S) /\ Head(q) \in S
  BY HeadTailProperties
<1>c. \A op \in {"SERVICE_TO_CLIENT", "SERVICE_TO_CLIENT_CANCEL"}, r \in Requests :
         Append(toClient, [op |-> op, request |-> r]) \in Seq(ToClient)
  BY <1>a DEF TypeOK, ToClient
<1>d. \A r \in Requests, b \in Bodies :
         Append(toServer, [gid |-> gid[r], body |-> b]) \in Seq(ToServer)
  BY <1>a DEF TypeOK, ToServer
<1>e. \A r \in Requests : /\ Append(serverRemove, r) \in Seq(Requests)
                         /\ Append(clientRemove, r) \in Seq(Requests)
  BY <1>a DEF TypeOK
<1>f. toClient # <<>> => Tail(toClient) \in Seq(ToClient) /\ Head(toClient) \in ToClient
  BY <1>b DEF TypeOK
<1>g. toServer # <<>> => Tail(toServer) \in Seq(ToServer) /\ Head(toServer) \in ToServer
  BY <1>b DEF TypeOK
<1>h. /\ serverRemove # <<>> => Tail(serverRemove) \in Seq(Requests)
      /\ clientRemove # <<>> => Tail(clientRemove) \in Seq(Requests)
      /\ <<>> \in Seq(Requests)
  BY <1>b, EmptySeq DEF TypeOK
<1>1. ASSUME NEW r \in Requests, Begin(r) PROVE TypeOK'
  BY <1>1 DEF TypeOK, Begin, serverVars, clientVars
<1>2. ASSUME NEW r \in Requests, Register(r) PROVE TypeOK'
  BY <1>2 DEF TypeOK, Register, serverVars, clientVars
<1>3. ASSUME NEW r \in Requests, SendRequest(r) PROVE TypeOK'
  BY <1>3, <1>c DEF TypeOK, SendRequest, SendToClient, serverVars, clientVars
<1>4. ASSUME NEW r \in Requests, StartWaiting(r) PROVE TypeOK'
  <2>1. CASE serverStopping
    <3>1. ReturnFailure(r, "stopped")
      BY <1>4, <2>1 DEF StartWaiting
    <3> QED
      BY <1>4, <1>e, <3>1 DEF TypeOK, StartWaiting, ReturnFailure, clientVars
  <2>2. CASE ~serverStopping
    BY <1>4, <2>2 DEF TypeOK, StartWaiting, serverVars, clientVars
  <2> QED
    BY <2>1, <2>2
<1>5. ASSUME NEW r \in Requests, Timeout(r) PROVE TypeOK'
  BY <1>5, <1>c, <1>e DEF TypeOK, Timeout, SendToClient, ReturnFailure, serverVars, clientVars
<1>6. ASSUME NEW r \in Requests, StopWaiting(r) PROVE TypeOK'
  BY <1>6 DEF TypeOK, StopWaiting, serverVars, clientVars
<1>7. ASSUME NEW r \in Requests, TakeResponse(r) PROVE TypeOK'
  BY <1>7 DEF TypeOK, TakeResponse, serverVars, clientVars
<1>8. ASSUME NEW r \in Requests, RejectResponse(r) PROVE TypeOK'
  BY <1>8, <1>e DEF TypeOK, RejectResponse, ReturnFailure, serverVars, clientVars
<1>9. ASSUME NEW r \in Requests, Done(r) PROVE TypeOK'
  BY <1>9, <1>e DEF TypeOK, Done, serverVars, clientVars
<1>10. ASSUME NEW r \in Requests, AcceptRequest(r) PROVE TypeOK'
  BY <1>10, <1>f DEF TypeOK, AcceptRequest, serverVars, clientVars
<1>11. ASSUME NEW r \in Requests, RefuseRequest(r) PROVE TypeOK'
  BY <1>11, <1>f, <1>d DEF TypeOK, RefuseRequest, SendToServer, Bodies, serverVars, clientVars
<1>12. ASSUME NEW r \in Requests, DropMessage(r) PROVE TypeOK'
  BY <1>12, <1>f DEF TypeOK, DropMessage, serverVars, clientVars
<1>13. ASSUME NEW r \in Requests, QueueCancel(r) PROVE TypeOK'
  BY <1>13, <1>f DEF TypeOK, QueueCancel, Woken, serverVars, clientVars
<1>14. ASSUME NEW r \in Requests, AnswerError(r) PROVE TypeOK'
  BY <1>14, <1>d, <1>e DEF TypeOK, AnswerError, SendToServer, Bodies, ThreadExits, serverVars, clientVars
<1>15. ASSUME NEW r \in Requests, GiveUpStopping(r) PROVE TypeOK'
  BY <1>15, <1>e DEF TypeOK, GiveUpStopping, ThreadExits, serverVars, clientVars
<1>16. ASSUME NEW r \in Requests, CallService(r) PROVE TypeOK'
  BY <1>16 DEF TypeOK, CallService, serverVars, clientVars
<1>17. ASSUME NEW r \in Requests, TestWait(r) PROVE TypeOK'
  BY <1>17 DEF TypeOK, TestWait, serverVars, clientVars
<1>18. ASSUME NEW r \in Requests, Park(r) PROVE TypeOK'
  BY <1>18 DEF TypeOK, Park, serverVars, clientVars
<1>19. ASSUME NEW r \in Requests, FinishHandle(r) PROVE TypeOK'
  BY <1>19, <1>e DEF TypeOK, FinishHandle, ThreadExits, serverVars, clientVars
<1>20. ASSUME NEW r \in Requests, ServiceAnswers(r) PROVE TypeOK'
  BY <1>20 DEF TypeOK, ServiceAnswers, serverVars, clientVars
<1>21. ASSUME NEW r \in Requests, SendAnswer(r) PROVE TypeOK'
  BY <1>21, <1>d DEF TypeOK, SendAnswer, SendToServer, Bodies, serverVars, clientVars
<1>22. ASSUME NEW r \in Requests, MarkDone(r) PROVE TypeOK'
  BY <1>22 DEF TypeOK, MarkDone, Woken, serverVars, clientVars
<1>23. ASSUME NEW r \in Requests, ClientNotifies(r) PROVE TypeOK'
  BY <1>23 DEF TypeOK, ClientNotifies, Woken, serverVars, clientVars
<1>24. CASE HandleResponse
  BY <1>24, <1>g DEF TypeOK, HandleResponse, ToServer, Bodies, serverVars, clientVars
<1>25. CASE ServerRemoves
  BY <1>25, <1>h DEF TypeOK, ServerRemoves, serverVars, clientVars
<1>26. CASE ServerCancels
  BY <1>26 DEF TypeOK, ServerCancels, serverVars, clientVars
<1>27. CASE ServerFlags
  BY <1>27 DEF TypeOK, ServerFlags, serverVars, clientVars
<1>28. CASE ServerClears
  BY <1>28, <1>h DEF TypeOK, ServerClears, serverVars, clientVars
<1>29. CASE InsertHandle
  BY <1>29 DEF TypeOK, InsertHandle, serverVars, clientVars
<1>30. CASE ClientRemoves
  BY <1>30, <1>h DEF TypeOK, ClientRemoves, serverVars, clientVars
<1>31. CASE ClientPrunes
  BY <1>31 DEF TypeOK, ClientPrunes, serverVars, clientVars
<1>32. CASE ClientFlags
  BY <1>32 DEF TypeOK, ClientFlags, serverVars, clientVars
<1>33. CASE ClientJoins
  BY <1>33 DEF TypeOK, ClientJoins, serverVars, clientVars
<1>34. CASE ClientStopped
  BY <1>34, <1>h DEF TypeOK, ClientStopped, serverVars, clientVars
<1>35. CASE UNCHANGED vars
  BY <1>35 DEF TypeOK, vars, serverVars, clientVars
<1> QED
  BY <1>1, <1>2, <1>3, <1>4, <1>5, <1>6, <1>7, <1>8, <1>9, <1>10, <1>11, <1>12,
     <1>13, <1>14, <1>15, <1>16, <1>17, <1>18, <1>19, <1>20, <1>21, <1>22,
     <1>23, <1>24, <1>25, <1>26, <1>27, <1>28, <1>29, <1>30, <1>31, <1>32,
     <1>33, <1>34, <1>35
     DEF Next, ServerNext, ClientNext, CallbackStep, ServerStops, HandleAtClient,
         ThreadStep, AnswerStep, ClientStops

\* Every variable keeps to its type.
THEOREM TypeCorrect == Spec => []TypeOK
<1> QED
  BY InitTyped, StepTyped, PTL DEF Spec

----------------------------------------------------------------------------
(* Answers stay with the client they are for.                              *)

\* The head of a queue, the rest and an appended message, by positions.
LEMMA TailAt ==
  ASSUME NEW S, NEW q \in Seq(S), q # <<>>
  PROVE  /\ DOMAIN Tail(q) = 1..(Len(q) - 1) /\ DOMAIN q = 1..Len(q)
         /\ Len(q) \in Nat \ {0} /\ Head(q) = q[1] /\ 1 \in DOMAIN q
         /\ \A i \in DOMAIN Tail(q) : Tail(q)[i] = q[i + 1] /\ i + 1 \in DOMAIN q
         /\ \A i \in DOMAIN q : q[i] \in S
<1>1. Tail(q) \in Seq(S) /\ Len(Tail(q)) = Len(q) - 1 /\ Len(q) \in Nat \ {0}
      /\ \A i \in 1..Len(Tail(q)) : Tail(q)[i] = q[i + 1]
  BY HeadTailProperties
<1>2. DOMAIN q = 1..Len(q) /\ DOMAIN Tail(q) = 1..Len(Tail(q)) /\ Head(q) = q[1]
  BY <1>1
<1> QED
  BY <1>1, <1>2, ElementOfSeq

LEMMA AppendAt ==
  ASSUME NEW S, NEW q \in Seq(S), NEW x \in S
  PROVE  /\ DOMAIN Append(q, x) = 1..(Len(q) + 1) /\ DOMAIN q = 1..Len(q) /\ Len(q) \in Nat
         /\ Append(q, x)[Len(q) + 1] = x
         /\ \A i \in DOMAIN q : Append(q, x)[i] = q[i]
  OBVIOUS

\* An answer sent under the gid of its request is filed.
LEMMA SendFiled ==
  ASSUME TypeOK, MessagesFiled, NEW r \in Requests, NEW b \in Bodies,
         b \in Requests => gid[b] = gid[r], SendToServer(gid[r], b)
  PROVE  MessagesFiled'
<1> DEFINE m == [gid |-> gid[r], body |-> b]
<1>1. m \in ToServer /\ toServer \in Seq(ToServer)
  BY BridgeAssumption DEF ToServer, TypeOK
<1>2. /\ DOMAIN toServer' = 1..(Len(toServer) + 1) /\ DOMAIN toServer = 1..Len(toServer)
      /\ Len(toServer) \in Nat /\ toServer'[Len(toServer) + 1] = m
      /\ \A i \in DOMAIN toServer : toServer'[i] = toServer[i]
  BY <1>1, AppendAt DEF SendToServer
<1>3. \A i \in DOMAIN toServer' : i \in DOMAIN toServer \/ i = Len(toServer) + 1
  BY <1>2
<1> QED
  BY <1>2, <1>3 DEF MessagesFiled

LEMMA StepFiled == TypeOK /\ AnswersFiled /\ [Next]_vars => AnswersFiled'
<1> SUFFICES ASSUME TypeOK, AnswersFiled, [Next]_vars PROVE AnswersFiled'
  OBVIOUS
<1> USE BridgeAssumption
<1>1. ASSUME NEW r \in Requests, Register(r) PROVE AnswersFiled'
  BY <1>1 DEF Register, AnswersFiled, MessagesFiled, Isolation, TypeOK, clientVars
<1>2. CASE HandleResponse
  <2> DEFINE m == Head(toServer)
             h == serverHandles[m.gid]
  <2>1. /\ DOMAIN Tail(toServer) = 1..(Len(toServer) - 1)
        /\ m = toServer[1] /\ 1 \in DOMAIN toServer /\ m \in ToServer
        /\ \A i \in DOMAIN Tail(toServer) :
             Tail(toServer)[i] = toServer[i + 1] /\ i + 1 \in DOMAIN toServer
    BY <1>2, TailAt DEF HandleResponse, TypeOK
  <2>2. MessagesFiled'
    BY <1>2, <2>1 DEF HandleResponse, AnswersFiled, MessagesFiled
  <2>3. m.gid \in Callers /\ m.body \in Bodies /\ h \in Requests \cup {None}
    BY <2>1 DEF ToServer, TypeOK
  <2>4. CASE h # None /\ h \in handlingGoal
    <3>1. goalResponse' = [goalResponse EXCEPT ![h] = m.body]
      BY <1>2, <2>4 DEF HandleResponse
    <3>2. m.body \in Requests => gid[m.body] = gid[h]
      BY <2>1, <2>3, <2>4 DEF AnswersFiled, MessagesFiled, Isolation
    <3> QED
      BY <1>2, <2>2, <2>3, <3>1, <3>2 DEF HandleResponse, AnswersFiled, Isolation, TypeOK
  <2>5. CASE ~(h # None /\ h \in handlingGoal)
    BY <1>2, <2>2, <2>5 DEF HandleResponse, AnswersFiled, Isolation
  <2> QED
    BY <2>4, <2>5
<1>3. CASE ServerRemoves
  BY <1>3 DEF ServerRemoves, AnswersFiled, MessagesFiled, Isolation, TypeOK
<1>4. CASE ServerClears
  BY <1>4 DEF ServerClears, AnswersFiled, MessagesFiled, Isolation
<1>5. ASSUME NEW r \in Requests,
             RefuseRequest(r) \/ AnswerError(r) \/ SendAnswer(r)
      PROVE  AnswersFiled'
  <2>1. PICK b \in {Error, r} : SendToServer(gid[r], b)
    BY <1>5 DEF RefuseRequest, AnswerError, SendAnswer
  <2>2. MessagesFiled'
    BY <2>1, SendFiled DEF AnswersFiled, Bodies
  <2> QED
    BY <1>5, <2>2 DEF RefuseRequest, AnswerError, SendAnswer, serverVars, AnswersFiled, Isolation
<1>6. CASE UNCHANGED <<toServer, serverHandles, goalResponse>>
  BY <1>6 DEF AnswersFiled, MessagesFiled, Isolation
<1>7. ASSUME NEW r \in Requests,
             \/ Begin(r) \/ SendRequest(r) \/ StartWaiting(r) \/ Timeout(r) \/ StopWaiting(r)
             \/ TakeResponse(r) \/ RejectResponse(r) \/ Done(r)
      PROVE  UNCHANGED <<toServer, serverHandles, goalResponse>>
  BY <1>7 DEF Begin, SendRequest, StartWaiting, Timeout, StopWaiting, TakeResponse,
              RejectResponse, Done
<1>8. ASSUME NEW r \in Requests,
             \/ AcceptRequest(r) \/ DropMessage(r) \/ QueueCancel(r) \/ GiveUpStopping(r)
             \/ CallService(r) \/ TestWait(r) \/ Park(r) \/ FinishHandle(r)
             \/ ServiceAnswers(r) \/ MarkDone(r) \/ ClientNotifies(r)
      PROVE  UNCHANGED <<toServer, serverHandles, goalResponse>>
  BY <1>8 DEF AcceptRequest, DropMessage, QueueCancel, GiveUpStopping, CallService,
              TestWait, Park, FinishHandle, ServiceAnswers, MarkDone, ClientNotifies, serverVars
<1>9. CASE \/ ServerCancels \/ ServerFlags \/ InsertHandle \/ ClientRemoves \/ ClientPrunes
           \/ ClientFlags \/ ClientJoins \/ ClientStopped \/ UNCHANGED vars
  <2> UNCHANGED <<toServer, serverHandles, goalResponse>>
    BY <1>9 DEF ServerCancels, ServerFlags, InsertHandle, ClientRemoves, ClientPrunes,
                ClientFlags, ClientJoins, ClientStopped, vars, serverVars
  <2> QED
    BY <1>6
<1> QED
  BY <1>1, <1>2, <1>3, <1>4, <1>5, <1>6, <1>7, <1>8, <1>9
     DEF Next, ServerNext, ClientNext, CallbackStep, ServerStops, HandleAtClient,
         ThreadStep, AnswerStep, ClientStops

\* No client of the service ever gets the answer to a call of another client,
\* however calls overlap, time out and are removed late.
THEOREM ClientsIsolated == Spec => []Isolation
<1>1. Init => AnswersFiled
  BY BridgeAssumption DEF Init, AnswersFiled, MessagesFiled, Isolation
<1>2. AnswersFiled => Isolation
  BY DEF AnswersFiled
<1> QED
  BY <1>1, <1>2, StepFiled, TypeCorrect, PTL DEF Spec

----------------------------------------------------------------------------
(* A running executeHandle is registered.                                  *)

\* What a step does to the threads: none starts, exits or is replaced.
ThreadsAlike ==
  \A s \in Requests : /\ thread'[s] = "none" <=> thread[s] = "none"
                      /\ thread'[s] = "exited" <=> thread[s] = "exited"

NoneUnsent == Unsent' \subseteq Unsent

LEMMA MessagesNamed ==
  TypeOK => \A i \in DOMAIN toClient : toClient[i].request \in Requests
<1> SUFFICES ASSUME TypeOK, NEW i \in DOMAIN toClient PROVE toClient[i].request \in Requests
  OBVIOUS
<1>1. toClient \in Seq(ToClient)
  BY DEF TypeOK
<1>2. toClient[i] \in ToClient
  BY <1>1
<1> QED
  BY <1>2 DEF ToClient

LEMMA RequestsKept ==
  ASSUME TypeOK, RequestsOnce, NoneUnsent, UNCHANGED toClient,
         \A s \in Requests : thread'[s] = "none" <=> thread[s] = "none"
  PROVE  RequestsOnce'
<1>1. \A i \in DOMAIN toClient : toClient[i].request \in Requests
  BY MessagesNamed
<1> QED
  BY <1>1 DEF RequestsOnce, NoneUnsent, Unsent

\* A message is taken from the head, and no thread starts.
LEMMA RequestsTaken ==
  ASSUME TypeOK, RequestsOnce, NoneUnsent, toClient # <<>>, toClient' = Tail(toClient),
         \A s \in Requests : thread'[s] = "none" <=> thread[s] = "none"
  PROVE  RequestsOnce'
<1>1. /\ \A i \in DOMAIN toClient' : toClient'[i] = toClient[i + 1] /\ i + 1 \in DOMAIN toClient
      /\ \A i \in DOMAIN toClient : toClient[i] \in ToClient
      /\ DOMAIN toClient' = 1..(Len(toClient) - 1) /\ Len(toClient) \in Nat
  BY TailAt DEF TypeOK
<1>2. \A i \in DOMAIN toClient' : toClient'[i].request \in Requests
  BY <1>1 DEF ToClient
<1>3. \A i, j \in DOMAIN toClient' : i + 1 = j + 1 => i = j
  BY <1>1
<1> QED
  BY <1>1, <1>2, <1>3 DEF RequestsOnce, NoneUnsent, Unsent

LEMMA StepRequests == TypeOK /\ RequestsOnce /\ [Next]_vars => RequestsOnce'
<1> SUFFICES ASSUME TypeOK, RequestsOnce, [Next]_vars PROVE RequestsOnce'
  OBVIOUS
<1> USE BridgeAssumption
<1>1. ASSUME NEW r \in Requests, SendRequest(r) PROVE RequestsOnce'
  <2> DEFINE m == [op |-> "SERVICE_TO_CLIENT", request |-> r]
  <2>1. /\ DOMAIN toClient' = 1..(Len(toClient) + 1) /\ DOMAIN toClient = 1..Len(toClient)
        /\ Len(toClient) \in Nat /\ toClient'[Len(toClient) + 1] = m
        /\ \A i \in DOMAIN toClient : toClient'[i] = toClient[i]
    BY <1>1, AppendAt DEF SendRequest, SendToClient, TypeOK, ToClient
  <2>2. \A i \in DOMAIN toClient' : i \in DOMAIN toClient \/ i = Len(toClient) + 1
    BY <2>1
  <2>3. \A i \in DOMAIN toClient : toClient[i].request \in Requests
    BY MessagesNamed
  <2>4. /\ r \in Unsent /\ r \notin Unsent' /\ UNCHANGED thread
        /\ Unsent' = Unsent \ {r}
    BY <1>1 DEF SendRequest, Unsent, TypeOK, clientVars
  <2>5. \A i \in DOMAIN toClient :
          toClient[i].op = "SERVICE_TO_CLIENT" => toClient[i].request # r
    BY <2>4 DEF RequestsOnce
  <2>6. \A s \in Unsent' : thread'[s] = "none"
    BY <2>4 DEF RequestsOnce
  <2>7. \A i \in DOMAIN toClient' : toClient'[i].op = "SERVICE_TO_CLIENT" =>
          thread'[toClient'[i].request] = "none" /\ toClient'[i].request \notin Unsent'
    BY <2>1, <2>2, <2>3, <2>4 DEF RequestsOnce
  <2>8. \A i, j \in DOMAIN toClient' :
          /\ toClient'[i].op = "SERVICE_TO_CLIENT" /\ toClient'[j].op = "SERVICE_TO_CLIENT"
          /\ toClient'[i].request = toClient'[j].request
          => i = j
    BY <2>1, <2>2, <2>5 DEF RequestsOnce
  <2> QED
    BY <2>6, <2>7, <2>8 DEF RequestsOnce
<1>2. ASSUME NEW r \in Requests, Timeout(r) PROVE RequestsOnce'
  <2> DEFINE m == [op |-> "SERVICE_TO_CLIENT_CANCEL", request |-> r]
  <2>1. /\ DOMAIN toClient' = 1..(Len(toClient) + 1) /\ DOMAIN toClient = 1..Len(toClient)
        /\ Len(toClient) \in Nat /\ toClient'[Len(toClient) + 1] = m
        /\ \A i \in DOMAIN toClient : toClient'[i] = toClient[i]
    BY <1>2, AppendAt DEF Timeout, SendToClient, TypeOK, ToClient
  <2>2. \A i \in DOMAIN toClient' :
          toClient'[i].op = "SERVICE_TO_CLIENT" => i \in DOMAIN toClient
    BY <2>1
  <2>3. \A i \in DOMAIN toClient : toClient[i].request \in Requests
    BY MessagesNamed
  <2>4. UNCHANGED thread /\ Unsent' = Unsent
    BY <1>2 DEF Timeout, ReturnFailure, Unsent, TypeOK, clientVars
  <2> QED
    BY <2>1, <2>2, <2>3, <2>4 DEF RequestsOnce
<1>3. ASSUME NEW r \in Requests, AcceptRequest(r) PROVE RequestsOnce'
  <2>1. /\ \A i \in DOMAIN toClient' : toClient'[i] = toClient[i + 1] /\ i + 1 \in DOMAIN toClient
        /\ \A i \in DOMAIN toClient : toClient[i] \in ToClient
        /\ DOMAIN toClient' = 1..(Len(toClient) - 1) /\ Len(toClient) \in Nat
        /\ 1 \in DOMAIN toClient /\ toClient[1] = [op |-> "SERVICE_TO_CLIENT", request |-> r]
    BY <1>3, TailAt DEF TypeOK, AcceptRequest
  <2>2. \A i \in DOMAIN toClient' :
          /\ toClient'[i].request \in Requests
          /\ toClient'[i].op = "SERVICE_TO_CLIENT" => toClient'[i].request # r
    <3>1. \A i \in DOMAIN toClient' : i + 1 # 1
      BY <2>1
    <3> QED
      BY <2>1, <3>1 DEF RequestsOnce, ToClient
  <2>3. /\ \A s \in Requests : s # r => thread'[s] = thread[s]
        /\ Unsent' = Unsent
        /\ r \notin Unsent
    BY <1>3, <2>1 DEF AcceptRequest, Unsent, TypeOK, serverVars, RequestsOnce
  <2>4. \A i, j \in DOMAIN toClient' : i + 1 = j + 1 => i = j
    BY <2>1
  <2>5. \A i \in DOMAIN toClient' : toClient'[i].op = "SERVICE_TO_CLIENT" =>
          thread'[toClient'[i].request] = "none" /\ toClient'[i].request \notin Unsent'
    BY <2>1, <2>2, <2>3 DEF RequestsOnce
  <2>6. \A s \in Unsent' : thread'[s] = "none"
    BY <2>3 DEF RequestsOnce, Unsent
  <2>7. \A i, j \in DOMAIN toClient' :
          /\ toClient'[i].op = "SERVICE_TO_CLIENT" /\ toClient'[j].op = "SERVICE_TO_CLIENT"
          /\ toClient'[i].request = toClient'[j].request
          => i = j
    BY <2>1, <2>4 DEF RequestsOnce
  <2> QED
    BY <2>5, <2>6, <2>7 DEF RequestsOnce
<1>4. ASSUME NEW r \in Requests, RefuseRequest(r) \/ DropMessage(r) \/ QueueCancel(r)
      PROVE  RequestsOnce'
  <2>1. toClient # <<>> /\ toClient' = Tail(toClient) /\ UNCHANGED call
    BY <1>4 DEF RefuseRequest, DropMessage, QueueCancel, serverVars
  <2>2. \A s \in Requests : thread'[s] = "none" <=> thread[s] = "none"
    BY <1>4 DEF RefuseRequest, DropMessage, QueueCancel, clientVars, Woken, TypeOK
  <2> QED
    BY <2>1, <2>2, RequestsTaken DEF NoneUnsent, Unsent
<1>5. ASSUME NEW r \in Requests,
             \/ Begin(r) \/ Register(r) \/ StartWaiting(r) \/ StopWaiting(r)
             \/ TakeResponse(r) \/ RejectResponse(r) \/ Done(r)
      PROVE  RequestsOnce'
  <2>1. NoneUnsent
    BY <1>5 DEF Begin, Register, StartWaiting, StopWaiting, TakeResponse, RejectResponse,
                Done, ReturnFailure, NoneUnsent, Unsent, TypeOK
  <2>2. UNCHANGED <<toClient, thread>>
    BY <1>5 DEF Begin, Register, StartWaiting, StopWaiting, TakeResponse, RejectResponse,
                Done, clientVars
  <2> QED
    BY <2>1, <2>2, RequestsKept
<1>6. ASSUME NEW r \in Requests,
             \/ AnswerError(r) \/ GiveUpStopping(r) \/ CallService(r) \/ TestWait(r)
             \/ Park(r) \/ FinishHandle(r) \/ ServiceAnswers(r) \/ SendAnswer(r)
             \/ MarkDone(r) \/ ClientNotifies(r)
      PROVE  RequestsOnce'
  <2>1. UNCHANGED <<toClient, call>>
    BY <1>6 DEF AnswerError, GiveUpStopping, CallService, TestWait, Park, FinishHandle,
                ServiceAnswers, SendAnswer, MarkDone, ClientNotifies, serverVars
  <2>2. \A s \in Requests : thread'[s] = "none" <=> thread[s] = "none"
    BY <1>6 DEF AnswerError, GiveUpStopping, CallService, TestWait, Park, FinishHandle,
                ServiceAnswers, SendAnswer, MarkDone, ClientNotifies, ThreadExits, Woken, TypeOK
  <2> QED
    BY <2>1, <2>2, RequestsKept DEF NoneUnsent, Unsent
<1>7. CASE \/ HandleResponse \/ ServerRemoves \/ ServerStops \/ InsertHandle
           \/ ClientRemoves \/ ClientPrunes \/ ClientFlags \/ ClientJoins
           \/ ClientStopped \/ UNCHANGED vars
  <2>1. UNCHANGED <<toClient, call, thread>>
    BY <1>7 DEF HandleResponse, ServerRemoves, ServerStops, ServerCancels, ServerFlags,
                ServerClears, InsertHandle, ClientRemoves, ClientPrunes, ClientFlags,
                ClientJoins, ClientStopped, vars, serverVars, clientVars
  <2> QED
    BY <2>1, RequestsKept DEF NoneUnsent, Unsent
<1> QED
  BY <1>1, <1>2, <1>3, <1>4, <1>5, <1>6, <1>7
     DEF Next, ServerNext, ClientNext, CallbackStep, HandleAtClient, ThreadStep,
         AnswerStep, ClientStops

\* Steps that leave the client's registration alone.
LEMMA RegistrationKept ==
  ASSUME TypeOK, Registration, ThreadsAlike,
         UNCHANGED <<accepting, clientHandles, clientRemove>>,
         clientStopping => clientStopping',
         clientStop' = "joining" =>
           joining' \in Requests /\ clientHandles[gid[joining']] = joining'
  PROVE  Registration'
<1>1. \A i \in DOMAIN clientRemove : clientRemove[i] \in Requests
  BY ElementOfSeq DEF TypeOK
<1>2. \A s \in Requests : Running(s)' <=> Running(s)
  BY DEF ThreadsAlike, Running
<1>3. AcceptingAlone'
  BY <1>2 DEF TypeOK, Registration, AcceptingAlone, ThreadsAlike, Running
<1>4. RemovalsExact'
  BY <1>1 DEF Registration, RemovalsExact, ThreadsAlike
<1>5. HandlesFiled'
  BY DEF Registration, HandlesFiled
<1>6. RunningIsRegistered'
  BY <1>2 DEF Registration, RunningIsRegistered, Running
<1> QED
  BY <1>3, <1>4, <1>5, <1>6 DEF Registration

\* A running thread ends and queues its handle.
LEMMA RegistrationExits ==
  ASSUME IInv, NEW r \in Requests, Running(r), ThreadExits(r),
         UNCHANGED <<accepting, clientHandles, clientStop, joining>>
  PROVE  Registration'
<1>0. TypeOK /\ Registration
  BY DEF IInv
<1>1. /\ DOMAIN clientRemove' = 1..(Len(clientRemove) + 1)
      /\ DOMAIN clientRemove = 1..Len(clientRemove)
      /\ Len(clientRemove) \in Nat /\ clientRemove'[Len(clientRemove) + 1] = r
      /\ \A i \in DOMAIN clientRemove : clientRemove'[i] = clientRemove[i]
      /\ \A i \in DOMAIN clientRemove : clientRemove[i] \in Requests
  BY <1>0, AppendAt, ElementOfSeq DEF TypeOK, ThreadExits
<1>2. /\ thread'[r] = "exited" /\ thread[r] # "exited"
      /\ \A s \in Requests : s # r => thread'[s] = thread[s]
  BY <1>0 DEF TypeOK, ThreadExits, Running
<1>3. \A i \in DOMAIN clientRemove : clientRemove[i] # r
  BY <1>0, <1>2 DEF Registration, RemovalsExact
<1>4. \A i \in DOMAIN clientRemove' : i \in DOMAIN clientRemove \/ i = Len(clientRemove) + 1
  BY <1>1
<1>5. r # accepting => clientHandles[gid[r]] = r
  BY <1>0 DEF Registration, RunningIsRegistered
<1>6. AcceptingAlone'
  BY <1>0, <1>2 DEF TypeOK, Registration, AcceptingAlone, Running
<1>7. RemovalsExact'
  <2>1. \A i \in DOMAIN clientRemove' : thread'[clientRemove'[i]] = "exited"
    BY <1>0, <1>1, <1>2, <1>4 DEF Registration, RemovalsExact
  <2>2. ~clientStopping => \A i \in DOMAIN clientRemove' :
          clientRemove'[i] # accepting => clientHandles[gid[clientRemove'[i]]] = clientRemove'[i]
    BY <1>0, <1>1, <1>4, <1>5 DEF Registration, RemovalsExact
  <2>3. \A i, j \in DOMAIN clientRemove' : clientRemove'[i] = clientRemove'[j] => i = j
    BY <1>0, <1>1, <1>3, <1>4 DEF Registration, RemovalsExact
  <2> QED
    BY <2>1, <2>2, <2>3 DEF RemovalsExact, clientStopping
<1>8. HandlesFiled'
  BY <1>0 DEF Registration, HandlesFiled
<1>9. RunningIsRegistered'
  BY <1>0, <1>2 DEF Registration, RunningIsRegistered, Running
<1> QED
  BY <1>6, <1>7, <1>8, <1>9 DEF Registration

LEMMA StepRegistration == IInv /\ [Next]_vars => Registration'
<1> SUFFICES ASSUME IInv, [Next]_vars PROVE Registration'
  OBVIOUS
<1> USE BridgeAssumption
<1>0. TypeOK /\ Registration /\ RequestsOnce
  BY DEF IInv
<1>a. \A i \in DOMAIN clientRemove : clientRemove[i] \in Requests
  BY <1>0, ElementOfSeq DEF TypeOK
<1>1. ASSUME NEW r \in Requests, AcceptRequest(r) PROVE Registration'
  <2>1. /\ accepting = None /\ accepting' = r /\ clientHandles[gid[r]] = None
        /\ UNCHANGED <<clientHandles, clientRemove, clientStop, joining>>
        /\ thread'[r] = "starting" /\ \A s \in Requests : s # r => thread'[s] = thread[s]
    BY <1>0, <1>1 DEF AcceptRequest, TypeOK
  <2>2. thread[r] = "none"
    <3>1. toClient \in Seq(ToClient) /\ toClient # <<>>
          /\ Head(toClient) = [op |-> "SERVICE_TO_CLIENT", request |-> r]
      BY <1>0, <1>1 DEF AcceptRequest, TypeOK
    <3>2. 1 \in DOMAIN toClient /\ Head(toClient) = toClient[1]
      BY <3>1, TailAt
    <3>3. toClient[1].op = "SERVICE_TO_CLIENT" /\ toClient[1].request = r
      BY <3>1, <3>2
    <3> QED
      BY <1>0, <3>2, <3>3 DEF RequestsOnce
  <2>3. AcceptingAlone'
    BY <1>0, <2>1 DEF AcceptingAlone, Registration, RunningIsRegistered, Running
  <2>4. RemovalsExact'
    BY <1>0, <1>a, <2>1, <2>2 DEF RemovalsExact, Registration, clientStopping
  <2>5. HandlesFiled'
    BY <1>0, <2>1 DEF HandlesFiled, Registration
  <2>6. RunningIsRegistered'
    BY <1>0, <2>1 DEF RunningIsRegistered, Registration, Running
  <2> QED
    BY <2>3, <2>4, <2>5, <2>6 DEF Registration
<1>2. CASE InsertHandle
  <2>1. /\ accepting \in Requests /\ accepting' = None
        /\ clientHandles[gid[accepting]] = None
        /\ clientHandles'[gid[accepting]] = accepting
        /\ \A c \in Callers : c # gid[accepting] => clientHandles'[c] = clientHandles[c]
        /\ UNCHANGED <<thread, clientRemove, clientStop, joining>>
    BY <1>0, <1>2 DEF InsertHandle, TypeOK, Registration, AcceptingAlone
  <2>2. AcceptingAlone'
    BY <2>1 DEF AcceptingAlone
  <2>3. RemovalsExact'
    <3>1. ASSUME ~clientStopping, NEW i \in DOMAIN clientRemove
          PROVE  clientHandles'[gid[clientRemove[i]]] = clientRemove[i]
      <4>1. CASE clientRemove[i] = accepting
        BY <2>1, <4>1
      <4>2. CASE clientRemove[i] # accepting
        <5>1. clientHandles[gid[clientRemove[i]]] = clientRemove[i]
          BY <1>0, <3>1, <4>2 DEF Registration, RemovalsExact
        <5> QED
          BY <1>a, <2>1, <5>1
      <4> QED
        BY <4>1, <4>2
    <3> QED
      BY <1>0, <2>1, <3>1 DEF Registration, RemovalsExact, clientStopping
  <2>4. HandlesFiled'
    BY <1>0, <2>1 DEF HandlesFiled, Registration
  <2>5. RunningIsRegistered'
    <3>1. ASSUME NEW s \in Requests, Running(s) PROVE clientHandles'[gid[s]] = s
      <4>1. CASE s = accepting
        BY <2>1, <4>1
      <4>2. CASE s # accepting
        BY <1>0, <2>1, <3>1, <4>2 DEF Registration, RunningIsRegistered, AcceptingAlone
      <4> QED
        BY <4>1, <4>2
    <3> QED
      BY <2>1, <3>1 DEF RunningIsRegistered, Running
  <2> QED
    BY <2>2, <2>3, <2>4, <2>5 DEF Registration
<1>3. CASE ClientRemoves
  <2> DEFINE h == Head(clientRemove)
  <2>1. /\ \A i \in DOMAIN clientRemove' :
             clientRemove'[i] = clientRemove[i + 1] /\ i + 1 \in DOMAIN clientRemove
        /\ DOMAIN clientRemove' = 1..(Len(clientRemove) - 1) /\ Len(clientRemove) \in Nat
        /\ 1 \in DOMAIN clientRemove /\ h = clientRemove[1] /\ h \in Requests
    BY <1>0, <1>3, TailAt DEF ClientRemoves, TypeOK
  <2>2. /\ accepting = None /\ ~clientStopping
        /\ clientHandles' = [clientHandles EXCEPT ![gid[h]] = None]
        /\ UNCHANGED <<accepting, thread, clientStop, joining>>
    BY <1>3 DEF ClientRemoves
  <2>3. thread[h] = "exited" /\ clientHandles[gid[h]] = h
    BY <1>0, <2>1, <2>2 DEF Registration, RemovalsExact
  <2>4. \A i, j \in DOMAIN clientRemove' : i + 1 = j + 1 => i = j
    BY <2>1
  <2>5. \A i \in DOMAIN clientRemove' : clientRemove'[i] # h
    <3>1. \A i \in DOMAIN clientRemove' : i + 1 # 1
      BY <2>1
    <3> QED
      BY <1>0, <2>1, <3>1 DEF Registration, RemovalsExact
  <2>6. AcceptingAlone'
    BY <2>2 DEF AcceptingAlone
  <2>7. RemovalsExact'
    <3>1. \A i \in DOMAIN clientRemove' : thread'[clientRemove'[i]] = "exited"
      BY <1>0, <2>1, <2>2 DEF Registration, RemovalsExact
    <3>2. ASSUME NEW i \in DOMAIN clientRemove'
          PROVE  clientHandles'[gid[clientRemove'[i]]] = clientRemove'[i]
      <4>1. clientHandles[gid[clientRemove'[i]]] = clientRemove'[i]
        BY <1>0, <1>a, <2>1, <2>2 DEF Registration, RemovalsExact
      <4>2. gid[clientRemove'[i]] # gid[h]
        BY <2>3, <2>5, <4>1
      <4> QED
        BY <1>0, <1>a, <2>1, <2>2, <4>1, <4>2 DEF TypeOK
    <3>3. \A i, j \in DOMAIN clientRemove' : clientRemove'[i] = clientRemove'[j] => i = j
      BY <1>0, <2>1, <2>4 DEF Registration, RemovalsExact
    <3> QED
      BY <3>1, <3>2, <3>3 DEF RemovalsExact
  <2>8. HandlesFiled'
    BY <1>0, <2>2 DEF HandlesFiled, Registration, clientStopping, TypeOK
  <2>9. RunningIsRegistered'
    BY <1>0, <2>1, <2>2, <2>3 DEF RunningIsRegistered, Registration, Running, TypeOK
  <2> QED
    BY <2>6, <2>7, <2>8, <2>9 DEF Registration
<1>4. CASE ClientJoins
  <2>1. /\ joining \in Requests /\ clientHandles[gid[joining]] = joining
        /\ thread[joining] = "exited" /\ clientStop' = "stopping"
        /\ clientHandles' = [clientHandles EXCEPT ![gid[joining]] = None]
        /\ UNCHANGED <<accepting, thread, clientRemove>>
    BY <1>0, <1>4 DEF ClientJoins, Registration, HandlesFiled
  <2>2. AcceptingAlone'
    BY <1>0, <2>1 DEF AcceptingAlone, Registration, Running, TypeOK
  <2>3. RemovalsExact'
    BY <1>0, <2>1 DEF RemovalsExact, Registration, clientStopping
  <2>4. HandlesFiled'
    BY <1>0, <2>1 DEF HandlesFiled, Registration, TypeOK
  <2>5. RunningIsRegistered'
    BY <1>0, <2>1 DEF RunningIsRegistered, Registration, Running, TypeOK
  <2> QED
    BY <2>2, <2>3, <2>4, <2>5 DEF Registration
<1>5. CASE ClientStopped
  <2>1. /\ clientRemove' = <<>> /\ clientStop' = "stopped"
        /\ UNCHANGED <<accepting, thread, clientHandles>>
    BY <1>5 DEF ClientStopped
  <2>2. RemovalsExact'
    BY <2>1 DEF RemovalsExact, clientStopping
  <2> QED
    BY <1>0, <2>1, <2>2
       DEF Registration, AcceptingAlone, HandlesFiled, RunningIsRegistered, Running
<1>6. ASSUME NEW r \in Requests, AnswerError(r) \/ GiveUpStopping(r) \/ FinishHandle(r)
      PROVE  Registration'
  <2>1. Running(r) /\ ThreadExits(r)
        /\ UNCHANGED <<accepting, clientHandles, clientStop, joining>>
    BY <1>6 DEF AnswerError, GiveUpStopping, FinishHandle, Running
  <2> QED
    BY <2>1, RegistrationExits
<1>7. ASSUME NEW r \in Requests,
             \/ QueueCancel(r) \/ CallService(r) \/ TestWait(r) \/ Park(r)
             \/ ServiceAnswers(r) \/ SendAnswer(r) \/ MarkDone(r)
      PROVE  Registration'
  <2>1. UNCHANGED <<accepting, clientHandles, clientRemove, clientStop, joining>>
    BY <1>7 DEF QueueCancel, CallService, TestWait, Park, ServiceAnswers, SendAnswer, MarkDone
  <2>2. ThreadsAlike
    BY <1>0, <1>7 DEF QueueCancel, CallService, TestWait, Park, ServiceAnswers, SendAnswer,
                      MarkDone, ThreadsAlike, Woken, TypeOK
  <2> QED
    BY <1>0, <2>1, <2>2, RegistrationKept DEF clientStopping, Registration, HandlesFiled
<1>8. ASSUME NEW r \in Requests, ClientNotifies(r) PROVE Registration'
  <2>1. /\ UNCHANGED <<accepting, clientHandles, clientRemove>> /\ clientStop' = "joining"
        /\ joining' = r /\ clientHandles[gid[r]] = r
    BY <1>8 DEF ClientNotifies
  <2>2. ThreadsAlike
    BY <1>0, <1>8 DEF ClientNotifies, ThreadsAlike, Woken, TypeOK
  <2> QED
    BY <1>0, <2>1, <2>2, RegistrationKept DEF clientStopping
<1>9. CASE ClientPrunes \/ ClientFlags
  <2>1. /\ UNCHANGED <<accepting, clientHandles, clientRemove, thread>>
        /\ clientStop' \in {"pruned", "stopping"} /\ (clientStopping => clientStopping')
    BY <1>9 DEF ClientPrunes, ClientFlags, clientStopping
  <2> QED
    BY <1>0, <2>1, RegistrationKept DEF ThreadsAlike
<1>10. CASE UNCHANGED clientVars
  BY <1>0, <1>10, RegistrationKept
     DEF clientVars, ThreadsAlike, clientStopping, Registration, HandlesFiled
<1>11. ASSUME NEW r \in Requests,
              Begin(r) \/ CallbackStep(r) \/ RefuseRequest(r) \/ DropMessage(r)
       PROVE  UNCHANGED clientVars
  BY <1>11 DEF Begin, CallbackStep, Register, SendRequest, StartWaiting, Timeout,
               StopWaiting, TakeResponse, RejectResponse, Done, RefuseRequest, DropMessage
<1>12. HandleResponse \/ ServerRemoves \/ ServerStops \/ UNCHANGED vars
         => UNCHANGED clientVars
  BY DEF HandleResponse, ServerRemoves, ServerStops, ServerCancels, ServerFlags,
         ServerClears, vars, clientVars
<1> QED
  BY <1>1, <1>2, <1>3, <1>4, <1>5, <1>6, <1>7, <1>8, <1>9, <1>10, <1>11, <1>12
     DEF Next, ServerNext, ClientNext, HandleAtClient, ThreadStep, AnswerStep, ClientStops

\* The three parts of the invariant support each other.
LEMMA InvariantHolds == Spec => []IInv
<1>1. Init => IInv
  <2> SUFFICES ASSUME Init PROVE IInv
    OBVIOUS
  <2>1. RequestsOnce
    BY DEF Init, RequestsOnce, Unsent
  <2>2. Registration
    BY BridgeAssumption
       DEF Init, Registration, AcceptingAlone, RemovalsExact, HandlesFiled,
           RunningIsRegistered, Running
  <2> QED
    BY <2>1, <2>2, InitTyped DEF IInv
<1>2. IInv /\ [Next]_vars => IInv'
  BY StepTyped, StepRequests, StepRegistration DEF IInv
<1> QED
  BY <1>1, <1>2, PTL DEF Spec

\* Wherever calls overlap, time out, are cancelled or stop() runs: a running
\* executeHandle has its handle in the map, so a cancellation finds it and no
\* joinable std::thread is destroyed by an erase.
THEOREM ThreadsRegistered == Spec => []RunningIsRegistered
<1>1. IInv => RunningIsRegistered
  BY DEF IInv, Registration
<1> QED
  BY <1>1, InvariantHolds, PTL

----------------------------------------------------------------------------
(* No handle is leaked at the server.                                      *)

\* What a step adds to the removal queue comes to what is in it.
LEMMA QueuedStays ==
  ASSUME NEW q \in Seq(Requests), NEW x \in Requests, NEW r
  PROVE  /\ Queued(q, r) => Queued(Append(q, x), r)
         /\ Queued(Append(q, x), x)
<1>1. Len(q) \in Nat /\ DOMAIN q = 1..Len(q)
      /\ DOMAIN Append(q, x) = 1..(Len(q) + 1) /\ Append(q, x)[Len(q) + 1] = x
      /\ \A i \in DOMAIN q : Append(q, x)[i] = q[i]
  BY AppendAt
<1>2. Len(q) + 1 \in DOMAIN Append(q, x) /\ \A i \in DOMAIN q : i \in DOMAIN Append(q, x)
  BY <1>1
<1> QED
  BY <1>1, <1>2 DEF Queued

\* A handle leaves the queue only as its head.
LEMMA QueuedBehind ==
  ASSUME NEW q \in Seq(Requests), q # <<>>, NEW r, Queued(q, r), r # Head(q)
  PROVE  Queued(Tail(q), r)
<1>1. /\ DOMAIN Tail(q) = 1..(Len(q) - 1) /\ DOMAIN q = 1..Len(q) /\ Len(q) \in Nat \ {0}
      /\ Head(q) = q[1] /\ \A i \in DOMAIN Tail(q) : Tail(q)[i] = q[i + 1]
  BY TailAt
<1>2. PICK i \in DOMAIN q : q[i] = r
  BY DEF Queued
<1>3. i - 1 \in DOMAIN Tail(q) /\ (i - 1) + 1 = i
  BY <1>1, <1>2
<1> QED
  BY <1>1, <1>2, <1>3 DEF Queued

\* The callback of a call that returns queues its handle.
LEMMA ReturnAccounted ==
  ASSUME TypeOK, ServerHandlesAccounted, UNCHANGED <<serverHandles, serverStop>>,
         NEW r \in Requests, NEW why,
         ReturnFailure(r, why) \/ (call' = [call EXCEPT ![r] = "returned"]
                                    /\ serverRemove' = Append(serverRemove, r))
  PROVE  ServerHandlesAccounted'
<1>1. /\ call' = [call EXCEPT ![r] = "returned"] /\ serverRemove' = Append(serverRemove, r)
      /\ serverRemove \in Seq(Requests)
  BY DEF ReturnFailure, TypeOK
<1> SUFFICES ASSUME ~serverStopping, NEW c \in Callers, serverHandles[c] # None
             PROVE  InProgress(serverHandles[c])' \/ Queued(serverRemove, serverHandles[c])'
  BY DEF ServerHandlesAccounted, serverStopping
<1> DEFINE h == serverHandles[c]
<1>2. h \in Requests /\ h' = h
  BY DEF TypeOK
<1>3. CASE h = r
  BY <1>1, <1>2, <1>3, QueuedStays
<1>4. CASE h # r
  <2>1. InProgress(h) \/ Queued(serverRemove, h)
    BY DEF ServerHandlesAccounted
  <2>2. call'[h] = call[h]
    BY <1>1, <1>2, <1>4 DEF TypeOK
  <2> QED
    BY <1>1, <1>2, <2>1, <2>2, QueuedStays DEF InProgress
<1> QED
  BY <1>3, <1>4

LEMMA StepAccounted ==
  TypeOK /\ Isolation /\ ServerHandlesAccounted /\ [Next]_vars => ServerHandlesAccounted'
<1> SUFFICES ASSUME TypeOK, Isolation, ServerHandlesAccounted, [Next]_vars
             PROVE  ServerHandlesAccounted'
  OBVIOUS
<1> USE BridgeAssumption
<1>1. ASSUME NEW r \in Requests, Register(r) PROVE ServerHandlesAccounted'
  BY <1>1 DEF Register, ServerHandlesAccounted, InProgress, Queued, serverStopping, TypeOK
<1>2. ASSUME NEW r \in Requests, StartWaiting(r) \/ Timeout(r) \/ RejectResponse(r) \/ Done(r)
      PROVE  ServerHandlesAccounted'
  <2>1. UNCHANGED <<serverHandles, serverStop>>
    BY <1>2 DEF StartWaiting, Timeout, RejectResponse, Done
  <2>2. CASE StartWaiting(r) /\ ~serverStopping
    BY <2>2, <2>1 DEF StartWaiting, ServerHandlesAccounted, InProgress, Queued, serverStopping, TypeOK
  <2>3. CASE StartWaiting(r) /\ serverStopping
    BY <2>3, <2>1, ReturnAccounted DEF StartWaiting
  <2>4. CASE Timeout(r) \/ RejectResponse(r) \/ Done(r)
    BY <2>4, <2>1, ReturnAccounted DEF Timeout, RejectResponse, Done
  <2> QED
    BY <1>2, <2>2, <2>3, <2>4
<1>3. ASSUME NEW r \in Requests, Begin(r) \/ SendRequest(r) \/ StopWaiting(r) \/ TakeResponse(r)
      PROVE  ServerHandlesAccounted'
  <2>1. UNCHANGED <<serverHandles, serverRemove, serverStop>>
    BY <1>3 DEF Begin, SendRequest, StopWaiting, TakeResponse
  <2>2. serverStopping \/ \A s \in Requests : InProgress(s) => InProgress(s)'
    BY <1>3 DEF Begin, SendRequest, StopWaiting, TakeResponse, InProgress, TypeOK
  <2> QED
    BY <2>1, <2>2 DEF ServerHandlesAccounted, Queued, serverStopping, TypeOK
\* The removal by key: whatever has the gid of the head is erased, so that a handle which
\* stays is another one, and keeps its place in the queue.
<1>4. CASE ServerRemoves
  <2> DEFINE x == Head(serverRemove)
  <2>1. /\ serverRemove \in Seq(Requests) /\ serverRemove # <<>>
        /\ serverRemove' = Tail(serverRemove)
        /\ serverHandles' = [serverHandles EXCEPT ![gid[x]] = None]
        /\ UNCHANGED <<call, serverStop>>
    BY <1>4 DEF ServerRemoves, TypeOK
  <2>2. x \in Requests
    BY <2>1, TailAt
  <2> SUFFICES ASSUME ~serverStopping, NEW c \in Callers, serverHandles'[c] # None
               PROVE  InProgress(serverHandles[c])' \/ Queued(serverRemove, serverHandles[c])'
    BY <2>1 DEF ServerHandlesAccounted, serverStopping
  <2> DEFINE h == serverHandles[c]
  <2>3. serverHandles'[c] = h /\ c # gid[x]
    BY <2>1, <2>2 DEF TypeOK
  <2>4. gid[h] = c /\ h # x
    BY <2>3 DEF Isolation
  <2>5. InProgress(h) \/ Queued(serverRemove, h)
    BY <2>3 DEF ServerHandlesAccounted
  <2>6. Queued(serverRemove, h) => Queued(Tail(serverRemove), h)
    BY <2>1, <2>4, QueuedBehind
  <2> QED
    BY <2>1, <2>3, <2>5, <2>6 DEF InProgress
<1>5. CASE ServerFlags \/ ServerClears
  BY <1>5 DEF ServerFlags, ServerClears, ServerHandlesAccounted, serverStopping
<1>6. CASE ServerCancels
  BY <1>6 DEF ServerCancels, ServerHandlesAccounted, InProgress, Queued, serverStopping
<1>7. CASE UNCHANGED <<call, serverHandles, serverRemove, serverStop>>
  BY <1>7 DEF ServerHandlesAccounted, InProgress, Queued, serverStopping
<1>8. HandleResponse \/ ClientNext \/ UNCHANGED vars
        => UNCHANGED <<call, serverHandles, serverRemove, serverStop>>
  <2>1. HandleResponse \/ UNCHANGED vars
          => UNCHANGED <<call, serverHandles, serverRemove, serverStop>>
    BY DEF HandleResponse, vars, serverVars
  <2>2. ASSUME NEW r \in Requests, HandleAtClient(r) \/ ThreadStep(r) \/ ServiceAnswers(r) \/ AnswerStep(r)
        PROVE  UNCHANGED serverVars
    BY <2>2 DEF HandleAtClient, AcceptRequest, RefuseRequest, DropMessage, QueueCancel,
                ThreadStep, AnswerError, GiveUpStopping, CallService, TestWait, Park,
                FinishHandle, ServiceAnswers, AnswerStep, SendAnswer, MarkDone
  <2>3. InsertHandle \/ ClientRemoves \/ ClientStops => UNCHANGED serverVars
    BY DEF InsertHandle, ClientRemoves, ClientStops, ClientPrunes, ClientFlags, ClientJoins,
           ClientStopped, ClientNotifies
  <2> QED
    BY <2>1, <2>2, <2>3 DEF ClientNext, serverVars
<1> QED
  BY <1>1, <1>2, <1>3, <1>4, <1>5, <1>6, <1>7, <1>8 DEF Next, ServerNext, CallbackStep, ServerStops

\* Whatever calls of one client share its gid, time out or are refused, and although
\* executeRemove erases whatever handle has the gid: one that is still in the map of the
\* ServiceServer belongs to a call in progress, or is queued for removal.
THEOREM HandlesAccounted == Spec => []ServerHandlesAccounted
<1>1. Init => ServerHandlesAccounted
  BY DEF Init, ServerHandlesAccounted
<1> QED
  BY <1>1, StepAccounted, TypeCorrect, ClientsIsolated, PTL DEF Spec

----------------------------------------------------------------------------
(* Answers and cancellations meet their call.                              *)

\* With one callback at a time there is one call.
OneCall == Sequential => \A r, s \in Requests : InProgress(r) /\ InProgress(s) => r = s

\* A call has a result when it has ended, and its handle expects a response before.
ServerTurns(r) ==
  /\ result[r] = "open" <=> call[r] \notin {"replying", "returned"}
  /\ r \in handlingGoal => result[r] # "reply"
  /\ r \in handlingGoal /\ ~serverStopping => call[r] \in {"registered", "sent", "waiting"}

\* The real service is called after the thread has started.
CalledOnce(r) == thread[r] \in {"none", "starting"} => service[r] = "idle"

\* A handle is in the map after its thread has started.
HandlesStarted == \A c \in Callers : clientHandles[c] # None => thread[clientHandles[c]] # "none"

Order == OneCall /\ HandlesStarted /\ \A r \in Requests : ServerTurns(r) /\ CalledOnce(r)

Request(r) == [op |-> "SERVICE_TO_CLIENT", request |-> r]

RequestLast(r) ==
  \A i \in DOMAIN toClient : toClient[i].op = "SERVICE_TO_CLIENT_CANCEL" =>
    \E j \in DOMAIN toClient : i < j /\ toClient[j] = Request(r)

\* Every cancellation was sent before the request of the call in progress.
CancelsFirst ==
  Sequential => \A r \in Requests : call[r] \in {"sent", "waiting"} => RequestLast(r)

\* The server is not stopping and no call of the client has timed out.
Punctual(c) ==
  ~serverStopping /\ \A s \in Requests : gid[s] = c => result[s] # "timeout"

\* The answer to a call is still to be given.
Pending(r) ==
  \/ Queued(toClient, Request(r))
  \/ thread[r] = "starting"
  \/ service[r] \in {"pending", "answering"}

Awaiting(r) == call[r] \in {"sent", "waiting"} /\ goalResponse[r] = None

\* Then an answer that is to be given, or is under way, is the one that is awaited.
Answers(c) ==
  /\ \A i \in DOMAIN toServer : toServer[i].gid = c =>
       /\ \E r \in Requests : gid[r] = c /\ Awaiting(r) /\ ~Pending(r) /\ toServer[i].body \in {r, Error}
       /\ \A j \in DOMAIN toServer : toServer[j].gid = c => j = i
  /\ \A r \in Requests : gid[r] = c =>
       /\ Pending(r) => Awaiting(r)
       /\ call[r] = "registered" => goalResponse[r] = None
       /\ call[r] \in {"sent", "waiting"} => goalResponse[r] \in {None, r, Error}

AnswersAwaited == Sequential => \A c \in Callers : Punctual(c) => Answers(c)

\* The steps of the callback of a call, by what they do to it: no other call begins.
LEMMA CallMoves ==
  ASSUME TypeOK, \A s \in Requests : ServerTurns(s),
         NEW r \in Requests, Begin(r) \/ CallbackStep(r)
  PROVE  /\ \A s \in Requests : ServerTurns(s)'
         /\ \A s \in Requests \ {r} : call'[s] = call[s] /\ result'[s] = result[s]
         /\ call[r] # "returned"
         /\ call[r] = "idle" => Begin(r)
         /\ result[r] = "open" \/ result'[r] = result[r]
<1>1. CASE Begin(r)
  BY <1>1 DEF Begin, ServerTurns, TypeOK, serverStopping
<1>2. CASE Register(r)
  BY <1>2 DEF Register, ServerTurns, TypeOK, serverStopping
<1>3. CASE SendRequest(r)
  BY <1>3 DEF SendRequest, ServerTurns, TypeOK, serverStopping
<1>4. CASE StartWaiting(r)
  <2>1. CASE serverStopping
    BY <1>4, <2>1 DEF StartWaiting, ReturnFailure, ServerTurns, TypeOK, serverStopping
  <2>2. CASE ~serverStopping
    BY <1>4, <2>2 DEF StartWaiting, ServerTurns, TypeOK, serverStopping
  <2> QED
    BY <2>1, <2>2
<1>5. CASE Timeout(r)
  BY <1>5 DEF Timeout, ReturnFailure, ServerTurns, TypeOK, serverStopping
<1>6. CASE StopWaiting(r)
  BY <1>6 DEF StopWaiting, ServerTurns, TypeOK, serverStopping
<1>7. CASE TakeResponse(r)
  BY <1>7 DEF TakeResponse, ServerTurns, TypeOK, serverStopping
<1>8. CASE RejectResponse(r)
  BY <1>8 DEF RejectResponse, ReturnFailure, ServerTurns, TypeOK, serverStopping
<1>9. CASE Done(r)
  BY <1>9 DEF Done, ServerTurns, TypeOK, serverStopping
<1> QED
  BY <1>1, <1>2, <1>3, <1>4, <1>5, <1>6, <1>7, <1>8, <1>9 DEF CallbackStep

\* The other steps of the two processes do not touch a call.
LEMMA CallsStay ==
  /\ ClientNext => UNCHANGED serverVars
  /\ HandleResponse \/ ServerRemoves \/ ServerStops => UNCHANGED <<call, result, handlingGoal>>
  /\ ServerNext \/ UNCHANGED vars => UNCHANGED clientVars
  /\ HandleResponse \/ ServerRemoves \/ ServerStops => UNCHANGED toClient
<1>1. ASSUME NEW r \in Requests, HandleAtClient(r) \/ ThreadStep(r) \/ ServiceAnswers(r) \/ AnswerStep(r)
      PROVE  UNCHANGED serverVars
  BY <1>1 DEF HandleAtClient, AcceptRequest, RefuseRequest, DropMessage, QueueCancel,
              ThreadStep, AnswerError, GiveUpStopping, CallService, TestWait, Park,
              FinishHandle, ServiceAnswers, AnswerStep, SendAnswer, MarkDone
<1>2. InsertHandle \/ ClientRemoves \/ ClientStops => UNCHANGED serverVars
  BY DEF InsertHandle, ClientRemoves, ClientStops, ClientPrunes, ClientFlags, ClientJoins,
         ClientStopped, ClientNotifies
<1>3. HandleResponse \/ ServerRemoves \/ ServerStops
        => UNCHANGED <<call, result, handlingGoal, toClient>> /\ UNCHANGED clientVars
  BY DEF HandleResponse, ServerRemoves, ServerStops, ServerCancels, ServerFlags, ServerClears
<1>4. ASSUME NEW r \in Requests, Begin(r) \/ CallbackStep(r) PROVE UNCHANGED clientVars
  BY <1>4 DEF Begin, CallbackStep, Register, SendRequest, StartWaiting, Timeout, StopWaiting,
              TakeResponse, RejectResponse, Done
<1> QED
  BY <1>1, <1>2, <1>3, <1>4 DEF ClientNext, ServerNext, vars

\* The head of the client's queue, when it is a request, is one whose thread is to start.
LEMMA HeadFresh ==
  ASSUME TypeOK, RequestsOnce, toClient # <<>>, NEW r \in Requests,
         Head(toClient) = [op |-> "SERVICE_TO_CLIENT", request |-> r]
  PROVE  thread[r] = "none"
<1>1. 1 \in DOMAIN toClient /\ Head(toClient) = toClient[1]
  BY TailAt DEF TypeOK
<1>2. toClient[1].op = "SERVICE_TO_CLIENT" /\ toClient[1].request = r
  BY <1>1
<1> QED
  BY <1>1, <1>2 DEF RequestsOnce

\* A thread that has started is not started again.
LEMMA ThreadMoves ==
  ASSUME TypeOK, RequestsOnce, \A s \in Requests : CalledOnce(s), ClientNext
  PROVE  /\ \A s \in Requests : CalledOnce(s)'
         /\ \A s \in Requests : thread[s] # "none" => thread'[s] # "none"
<1>1. ASSUME NEW r \in Requests, AcceptRequest(r)
      PROVE  /\ \A s \in Requests : CalledOnce(s)'
             /\ \A s \in Requests : thread[s] # "none" => thread'[s] # "none"
  <2>1. thread[r] = "none"
    BY <1>1, HeadFresh DEF AcceptRequest
  <2> QED
    BY <1>1, <2>1 DEF AcceptRequest, CalledOnce, TypeOK
<1>2. ASSUME NEW r \in Requests,
             \/ RefuseRequest(r) \/ DropMessage(r) \/ QueueCancel(r) \/ ThreadStep(r)
             \/ ServiceAnswers(r) \/ AnswerStep(r) \/ ClientNotifies(r)
      PROVE  /\ \A s \in Requests : CalledOnce(s)'
             /\ \A s \in Requests : thread[s] # "none" => thread'[s] # "none"
  BY <1>2 DEF RefuseRequest, DropMessage, QueueCancel, ThreadStep, AnswerError, GiveUpStopping,
              CallService, TestWait, Park, FinishHandle, ThreadExits, ServiceAnswers, AnswerStep,
              SendAnswer, MarkDone, ClientNotifies, Woken, clientVars, CalledOnce, TypeOK
<1>3. CASE InsertHandle \/ ClientRemoves \/ ClientPrunes \/ ClientFlags \/ ClientJoins \/ ClientStopped
  BY <1>3 DEF InsertHandle, ClientRemoves, ClientPrunes, ClientFlags, ClientJoins,
              ClientStopped, CalledOnce, TypeOK
<1> QED
  BY <1>1, <1>2, <1>3 DEF ClientNext, HandleAtClient, ClientStops

\* One call at a time, and its parts in turn.
LEMMA StepOrder == IInv /\ Order /\ [Next]_vars => Order'
<1> SUFFICES ASSUME IInv, Order, [Next]_vars PROVE Order'
  OBVIOUS
<1>0. /\ TypeOK /\ RequestsOnce /\ AcceptingAlone
      /\ \A s \in Requests : ServerTurns(s) /\ CalledOnce(s)
  BY DEF IInv, Registration, Order, ServerTurns, CalledOnce
<1>1. CASE \E r \in Requests : Begin(r) \/ CallbackStep(r)
  <2> PICK r \in Requests : Begin(r) \/ CallbackStep(r)
    BY <1>1
  <2>1. UNCHANGED clientVars
    BY CallsStay DEF ServerNext
  <2>2. /\ \A s \in Requests : ServerTurns(s)'
        /\ \A s \in Requests \ {r} : call'[s] = call[s]
        /\ call[r] # "returned" /\ (call[r] = "idle" => Begin(r))
    BY <1>0, CallMoves
  <2>3. OneCall'
    BY <2>2 DEF Order, OneCall, InProgress, Begin
  <2> QED
    BY <1>0, <2>1, <2>2, <2>3
       DEF Order, ServerTurns, CalledOnce, HandlesStarted, clientVars
<1>2. CASE HandleResponse \/ ServerRemoves \/ ServerStops \/ UNCHANGED vars
  <2>1. UNCHANGED <<call, result, handlingGoal>> /\ UNCHANGED clientVars
    BY <1>2, CallsStay DEF vars, serverVars, ServerNext
  <2>2. serverStopping => serverStopping'
    BY <1>2 DEF HandleResponse, ServerRemoves, ServerStops, ServerCancels, ServerFlags,
                ServerClears, vars, serverVars, serverStopping
  <2> QED
    BY <1>0, <2>1, <2>2 DEF Order, OneCall, InProgress,
         ServerTurns, CalledOnce, HandlesStarted, clientVars
<1>3. CASE ClientNext
  <2>1. UNCHANGED serverVars
    BY <1>3, CallsStay
  <2>2. /\ \A s \in Requests : CalledOnce(s)'
        /\ \A s \in Requests : thread[s] # "none" => thread'[s] # "none"
    BY <1>0, <1>3, ThreadMoves
  <2>3. \A c \in Callers : clientHandles'[c] \in {clientHandles[c], None, accepting}
    <3>1. InsertHandle \/ ClientRemoves \/ ClientJoins \/ UNCHANGED clientHandles
      BY <1>3 DEF ClientNext, HandleAtClient, AcceptRequest, RefuseRequest, DropMessage,
                  QueueCancel, ThreadStep, AnswerError, GiveUpStopping, CallService, TestWait,
                  Park, FinishHandle, ServiceAnswers, AnswerStep, SendAnswer, MarkDone,
                  ClientStops, ClientPrunes, ClientFlags, ClientStopped, ClientNotifies, clientVars
    <3> QED
      BY <1>0, <3>1 DEF InsertHandle, ClientRemoves, ClientJoins, TypeOK
  <2>4. HandlesStarted'
    BY <1>0, <2>2, <2>3 DEF Order, HandlesStarted, AcceptingAlone, TypeOK
  <2> QED
    BY <2>1, <2>2, <2>4 DEF Order, OneCall, InProgress,
         ServerTurns, CalledOnce, serverVars, serverStopping
<1> QED
  BY <1>1, <1>2, <1>3 DEF Next, ServerNext

\* What a client step does to the head of its queue: it stays, or is taken.
LEMMA ClientTakes ==
  ASSUME ClientNext
  PROVE  UNCHANGED toClient \/ (toClient # <<>> /\ toClient' = Tail(toClient))
<1>1. ASSUME NEW r \in Requests, HandleAtClient(r) \/ ThreadStep(r) \/ ServiceAnswers(r) \/ AnswerStep(r)
      PROVE  UNCHANGED toClient \/ (toClient # <<>> /\ toClient' = Tail(toClient))
  BY <1>1 DEF HandleAtClient, AcceptRequest, RefuseRequest, DropMessage, QueueCancel,
              ThreadStep, AnswerError, GiveUpStopping, CallService, TestWait, Park,
              FinishHandle, ServiceAnswers, AnswerStep, SendAnswer, MarkDone
<1>2. InsertHandle \/ ClientRemoves \/ ClientStops => UNCHANGED toClient
  BY DEF InsertHandle, ClientRemoves, ClientStops, ClientPrunes, ClientFlags, ClientJoins,
         ClientStopped, ClientNotifies
<1> QED
  BY <1>1, <1>2 DEF ClientNext

\* The steps of a call that send nothing.
QuietStep(r) ==
  \/ Begin(r) \/ Register(r) \/ StartWaiting(r) \/ StopWaiting(r)
  \/ TakeResponse(r) \/ RejectResponse(r) \/ Done(r)

\* A cancellation is sent when the call ends, and the next request after it.
LEMMA StepCancelsFirst ==
  IInv /\ Order /\ Order' /\ CancelsFirst /\ [Next]_vars => CancelsFirst'
<1> SUFFICES ASSUME IInv, Order, Order', CancelsFirst, [Next]_vars, Sequential,
                    NEW s \in Requests, call'[s] \in {"sent", "waiting"}
             PROVE  RequestLast(s)'
  BY DEF CancelsFirst
<1>0. TypeOK /\ toClient \in Seq(ToClient)
  BY DEF IInv, TypeOK
<1>1. CASE call[s] \in {"sent", "waiting"} /\ UNCHANGED toClient
  BY <1>1 DEF CancelsFirst, RequestLast
<1>2. CASE call[s] \in {"sent", "waiting"} /\ toClient # <<>> /\ toClient' = Tail(toClient)
  <2>1. /\ DOMAIN toClient' = 1..(Len(toClient) - 1) /\ DOMAIN toClient = 1..Len(toClient)
        /\ Len(toClient) \in Nat
        /\ \A i \in DOMAIN toClient' : toClient'[i] = toClient[i + 1] /\ i + 1 \in DOMAIN toClient
    BY <1>0, <1>2, TailAt
  <2> SUFFICES ASSUME NEW i \in DOMAIN toClient', toClient'[i].op = "SERVICE_TO_CLIENT_CANCEL"
               PROVE  \E j \in DOMAIN toClient' : i < j /\ toClient'[j] = Request(s)
    BY DEF RequestLast, Request
  <2>2. i + 1 \in DOMAIN toClient /\ toClient[i + 1].op = "SERVICE_TO_CLIENT_CANCEL"
    BY <2>1
  <2>3. PICK j \in DOMAIN toClient : i + 1 < j /\ toClient[j] = Request(s)
    BY <1>2, <2>2 DEF CancelsFirst, RequestLast
  <2>4. j - 1 \in DOMAIN toClient' /\ (j - 1) + 1 = j /\ i < j - 1
    BY <2>1, <2>3
  <2> QED
    BY <2>1, <2>3, <2>4
<1>3. ASSUME NEW r \in Requests, SendRequest(r) PROVE RequestLast(s)'
  <2>1. call[r] = "registered" /\ call' = [call EXCEPT ![r] = "sent"]
    BY <1>3 DEF SendRequest
  <2>2. InProgress(r)' /\ InProgress(s)'
    BY <1>0, <2>1 DEF InProgress, TypeOK
  <2>3. s = r
    BY <2>2 DEF Order, OneCall
  <2>4. /\ DOMAIN toClient' = 1..(Len(toClient) + 1) /\ DOMAIN toClient = 1..Len(toClient)
        /\ Len(toClient) \in Nat /\ toClient'[Len(toClient) + 1] = Request(r)
        /\ \A i \in DOMAIN toClient : toClient'[i] = toClient[i]
    BY <1>0, <1>3, AppendAt DEF SendRequest, SendToClient, ToClient, Request
  <2>5. Len(toClient) + 1 \in DOMAIN toClient'
    BY <2>4
  <2>6. \A i \in DOMAIN toClient' :
          toClient'[i].op = "SERVICE_TO_CLIENT_CANCEL" => i < Len(toClient) + 1
    BY <2>4 DEF Request
  <2> QED
    BY <2>3, <2>4, <2>5, <2>6 DEF RequestLast, Request
<1>4. ASSUME NEW r \in Requests, Timeout(r) PROVE FALSE
  <2>1. call[r] = "waiting" /\ call' = [call EXCEPT ![r] = "returned"]
    BY <1>4 DEF Timeout, ReturnFailure
  <2>2. s # r /\ InProgress(r) /\ InProgress(s)
    BY <1>0, <2>1 DEF InProgress, TypeOK
  <2> QED
    BY <2>2 DEF Order, OneCall
<1>5. ASSUME NEW r \in Requests, QuietStep(r)
      PROVE  call[s] \in {"sent", "waiting"} /\ UNCHANGED toClient
  BY <1>0, <1>5 DEF QuietStep, Begin, Register, StartWaiting, StopWaiting, TakeResponse,
                    RejectResponse, Done, ReturnFailure, TypeOK
<1>6. HandleResponse \/ ServerRemoves \/ ServerStops \/ UNCHANGED vars
        => UNCHANGED <<call, toClient>>
  BY CallsStay DEF vars, serverVars
<1>7. ClientNext => UNCHANGED call
  BY CallsStay DEF serverVars
<1> QED
  BY <1>1, <1>2, <1>3, <1>4, <1>5, <1>6, <1>7, ClientTakes
     DEF Next, ServerNext, CallbackStep, QuietStep

----------------------------------------------------------------------------
(* The answer to come.                                                     *)

\* Steps that leave the threads and the real service at least where they are.
LEMMA PendingKept ==
  ASSUME TypeOK, UNCHANGED toClient \/ (toClient # <<>> /\ toClient' = Tail(toClient)),
         NEW s \in Requests,
         thread'[s] = "starting" => thread[s] = "starting",
         service'[s] \in {"pending", "answering"} =>
           service[s] \in {"pending", "answering"} \/ thread[s] = "starting"
  PROVE  Pending(s)' => Pending(s)
<1>1. CASE UNCHANGED toClient
  BY <1>1 DEF Pending, Queued, Request
<1>2. CASE toClient # <<>> /\ toClient' = Tail(toClient)
  <2>1. \A i \in DOMAIN toClient' : toClient'[i] = toClient[i + 1] /\ i + 1 \in DOMAIN toClient
    BY <1>2, TailAt DEF TypeOK
  <2>2. Queued(toClient', Request(s)) => Queued(toClient, Request(s))
    BY <2>1 DEF Queued
  <2> QED
    BY <2>2 DEF Pending, Request
<1> QED
  BY <1>1, <1>2

\* A client step gives no answer a second time to be given.
LEMMA StepPending ==
  ASSUME IInv, Order, ClientNext, NEW s \in Requests
  PROVE  Pending(s)' => Pending(s)
<1>0. TypeOK /\ RequestsOnce
  BY DEF IInv
<1>1. ASSUME NEW r \in Requests, AcceptRequest(r) PROVE Pending(s)' => Pending(s)
  <2>1. /\ toClient # <<>> /\ toClient' = Tail(toClient) /\ UNCHANGED service
        /\ Head(toClient) = Request(r) /\ thread' = [thread EXCEPT ![r] = "starting"]
    BY <1>1 DEF AcceptRequest, Request, clientVars
  <2>2. CASE s = r
    <3>1. 1 \in DOMAIN toClient /\ toClient[1] = Request(s)
      BY <1>0, <2>1, <2>2, TailAt DEF TypeOK
    <3> QED
      BY <3>1 DEF Pending, Queued
  <2>3. CASE s # r
    BY <1>0, <2>1, <2>3, PendingKept DEF TypeOK
  <2> QED
    BY <2>2, <2>3
<1>2. ASSUME NEW r \in Requests,
             \/ RefuseRequest(r) \/ DropMessage(r) \/ QueueCancel(r) \/ ThreadStep(r)
             \/ ServiceAnswers(r) \/ AnswerStep(r) \/ ClientNotifies(r)
      PROVE  Pending(s)' => Pending(s)
  <2>1. thread'[s] = "starting" => thread[s] = "starting"
    BY <1>0, <1>2
       DEF RefuseRequest, DropMessage, QueueCancel, ThreadStep, AnswerError, GiveUpStopping,
           CallService, TestWait, Park, FinishHandle, ThreadExits, ServiceAnswers, AnswerStep,
           SendAnswer, MarkDone, ClientNotifies, Woken, clientVars, TypeOK
  <2>2. service'[s] \in {"pending", "answering"} =>
          service[s] \in {"pending", "answering"} \/ thread[s] = "starting"
    BY <1>0, <1>2
       DEF RefuseRequest, DropMessage, QueueCancel, ThreadStep, AnswerError, GiveUpStopping,
           CallService, TestWait, Park, FinishHandle, ServiceAnswers, AnswerStep,
           SendAnswer, MarkDone, ClientNotifies, clientVars, TypeOK
  <2> QED
    BY <1>0, <2>1, <2>2, ClientTakes, PendingKept
<1>3. CASE InsertHandle \/ ClientRemoves \/ ClientPrunes \/ ClientFlags \/ ClientJoins \/ ClientStopped
  <2>1. /\ thread'[s] = thread[s]
        /\ service'[s] \in {"pending", "answering"} => service[s] \in {"pending", "answering"}
    BY <1>0, <1>3 DEF InsertHandle, ClientRemoves, ClientPrunes, ClientFlags, ClientJoins,
                      ClientStopped, TypeOK
  <2> QED
    BY <1>0, <2>1, ClientTakes, PendingKept
<1> QED
  BY <1>1, <1>2, <1>3 DEF ClientNext, HandleAtClient, ClientStops

\* The steps that answer a request: refused, failed, or with the real service's answer.
Answering(r) == RefuseRequest(r) \/ AnswerError(r) \/ SendAnswer(r)

\* What is answered was to be answered, and no longer is.
LEMMA AnsweredOnce ==
  ASSUME IInv, Order, NEW r \in Requests, Answering(r)
  PROVE  Pending(r) /\ ~Pending(r)'
<1>0. TypeOK /\ RequestsOnce /\ CalledOnce(r) /\ toClient \in Seq(ToClient)
  BY DEF IInv, Order, ServerTurns, CalledOnce, TypeOK
<1>a. ASSUME thread[r] # "none" PROVE ~Queued(toClient, Request(r))
  <2>1. \A i \in DOMAIN toClient : toClient[i] # Request(r)
    BY <1>0, <1>a DEF RequestsOnce, Request
  <2> QED
    BY <2>1 DEF Queued
<1>1. CASE RefuseRequest(r)
  <2>1. /\ toClient # <<>> /\ toClient' = Tail(toClient) /\ UNCHANGED <<thread, service>>
        /\ Head(toClient) = Request(r)
    BY <1>1 DEF RefuseRequest, Request, clientVars
  <2>2. /\ 1 \in DOMAIN toClient /\ toClient[1] = Request(r)
        /\ DOMAIN toClient' = 1..(Len(toClient) - 1) /\ Len(toClient) \in Nat
        /\ \A i \in DOMAIN toClient' : toClient'[i] = toClient[i + 1] /\ i + 1 \in DOMAIN toClient
    BY <1>0, <2>1, TailAt
  <2>3. thread[r] = "none" /\ service[r] = "idle"
    BY <1>0, <2>1, HeadFresh DEF CalledOnce, Request
  <2>4. \A i \in DOMAIN toClient' : toClient'[i] # Request(r)
    <3>1. \A i \in DOMAIN toClient' : i + 1 # 1
      BY <2>2
    <3> QED
      BY <1>0, <2>2, <3>1 DEF RequestsOnce, Request
  <2> QED
    BY <2>1, <2>2, <2>3, <2>4 DEF Pending, Queued, Request
<1>2. CASE AnswerError(r)
  BY <1>0, <1>2, <1>a DEF AnswerError, ThreadExits, Pending, CalledOnce, Request, TypeOK
<1>3. CASE SendAnswer(r)
  BY <1>0, <1>3, <1>a DEF SendAnswer, Pending, CalledOnce, Request, TypeOK
<1> QED
  BY <1>1, <1>2, <1>3 DEF Answering

\* What the callers of sendAndWait see of a punctual client was so a step earlier.
LEMMA PunctualBefore ==
  ASSUME TypeOK, Order, [Next]_vars, NEW c \in Callers, Punctual(c)'
  PROVE  Punctual(c)
<1>0. \A s \in Requests : ServerTurns(s)
  BY DEF Order, ServerTurns, CalledOnce
<1>1. ASSUME NEW r \in Requests, Begin(r) \/ CallbackStep(r) PROVE Punctual(c)
  <2>1. UNCHANGED serverStop
    BY <1>1 DEF Begin, CallbackStep, Register, SendRequest, StartWaiting, Timeout, StopWaiting,
                TakeResponse, RejectResponse, Done
  <2>2. /\ \A s \in Requests \ {r} : result'[s] = result[s]
        /\ result[r] = "open" \/ result'[r] = result[r]
    BY <1>0, <1>1, CallMoves
  <2> QED
    BY <2>1, <2>2 DEF Punctual, serverStopping
<1>2. CASE HandleResponse \/ ServerRemoves \/ ServerStops
  <2>1. UNCHANGED result
    BY <1>2, CallsStay
  <2>2. serverStopping => serverStopping'
    BY <1>2 DEF HandleResponse, ServerRemoves, ServerStops, ServerCancels, ServerFlags,
                ServerClears, serverStopping
  <2> QED
    BY <2>1, <2>2 DEF Punctual
<1>3. CASE ClientNext \/ UNCHANGED vars
  BY <1>3, CallsStay DEF Punctual, serverStopping, serverVars, vars
<1> QED
  BY <1>1, <1>2, <1>3 DEF Next, ServerNext

\* A step that answers nothing and takes no answer.
LEMMA AnswersKept ==
  ASSUME NEW c \in Callers, Answers(c), UNCHANGED toServer,
         \A r \in Requests : gid[r] = c =>
           /\ Pending(r)' => Pending(r)
           /\ Awaiting(r) => Awaiting(r)'
           /\ call'[r] = "registered" => goalResponse'[r] = None
           /\ call'[r] \in {"sent", "waiting"} => goalResponse'[r] \in {None, r, Error}
  PROVE  Answers(c)'
BY DEF Answers

\* An answer is sent, under the gid of its request.
LEMMA AnswersSent ==
  ASSUME IInv, Order, Sequential, NEW c \in Callers, Answers(c),
         NEW b \in Requests, NEW body \in {b, Error}, SendToServer(gid[b], body),
         Pending(b), ~Pending(b)', UNCHANGED serverVars,
         \A s \in Requests : Pending(s)' => Pending(s)
  PROVE  Answers(c)'
<1> DEFINE m == [gid |-> gid[b], body |-> body]
<1>1. m \in ToServer /\ toServer \in Seq(ToServer)
  BY BridgeAssumption DEF ToServer, Bodies, IInv, TypeOK
<1>2. /\ DOMAIN toServer' = 1..(Len(toServer) + 1) /\ DOMAIN toServer = 1..Len(toServer)
      /\ Len(toServer) \in Nat /\ toServer'[Len(toServer) + 1] = m
      /\ \A i \in DOMAIN toServer : toServer'[i] = toServer[i]
  BY <1>1, AppendAt DEF SendToServer
<1>3. \A i \in DOMAIN toServer' : i \in DOMAIN toServer \/ i = Len(toServer) + 1
  BY <1>2
<1>4. \A r \in Requests : gid[r] = c =>
        /\ Pending(r)' => Awaiting(r)'
        /\ call'[r] = "registered" => goalResponse'[r] = None
        /\ call'[r] \in {"sent", "waiting"} => goalResponse'[r] \in {None, r, Error}
  BY DEF Answers, Awaiting, serverVars
<1>5. \A r \in Requests : Awaiting(r)' <=> Awaiting(r)
  BY DEF Awaiting, serverVars
<1>6. CASE gid[b] = c
  <2>1. Awaiting(b)
    BY <1>6 DEF Answers
  <2>2. \A i \in DOMAIN toServer : toServer[i].gid # c
    <3> SUFFICES ASSUME NEW i \in DOMAIN toServer, toServer[i].gid = c PROVE FALSE
      OBVIOUS
    <3>1. PICK r \in Requests : Awaiting(r) /\ ~Pending(r)
      BY DEF Answers
    <3>2. r = b
      BY <2>1, <3>1 DEF Order, OneCall, Awaiting, InProgress
    <3> QED
      BY <3>1, <3>2
  <2>3. \A i \in DOMAIN toServer' : toServer'[i].gid = c => i = Len(toServer) + 1
    BY <1>2, <1>3, <2>2
  <2>4. \A i \in DOMAIN toServer' : toServer'[i].gid = c => toServer'[i].body \in {b, Error}
    BY <1>2, <2>3
  <2> QED
    BY <1>4, <1>5, <1>6, <2>1, <2>3, <2>4 DEF Answers
<1>7. CASE gid[b] # c
  <2>1. \A i \in DOMAIN toServer' :
          toServer'[i].gid = c => i \in DOMAIN toServer /\ toServer'[i] = toServer[i]
    BY <1>2, <1>3, <1>7
  <2> QED
    BY <1>4, <1>5, <2>1 DEF Answers
<1> QED
  BY <1>6, <1>7

\* handle() gives the one answer under way to the call that awaits it.
LEMMA AnswerTaken ==
  ASSUME IInv, Isolation, Order, Sequential, NEW c \in Callers, Answers(c),
         ~serverStopping, HandleResponse
  PROVE  Answers(c)'
<1> DEFINE m == Head(toServer)
           h == serverHandles[m.gid]
<1>1. /\ DOMAIN toServer' = 1..(Len(toServer) - 1) /\ Len(toServer) \in Nat
      /\ m = toServer[1] /\ 1 \in DOMAIN toServer /\ m \in ToServer
      /\ \A i \in DOMAIN toServer' : toServer'[i] = toServer[i + 1] /\ i + 1 \in DOMAIN toServer
      /\ UNCHANGED <<toClient, call, serverHandles, handlingGoal, clientVars>>
  BY TailAt DEF HandleResponse, IInv, TypeOK
<1>2. m.gid \in Callers /\ m.body \in Bodies /\ h \in Requests \cup {None}
      /\ goalResponse \in [Requests -> Bodies \cup {None}]
  BY <1>1 DEF ToServer, IInv, TypeOK
<1>3. \A i, j \in DOMAIN toServer' : i + 1 = j + 1 => i = j
  BY <1>1
<1>4. \A i \in DOMAIN toServer' : i + 1 # 1
  BY <1>1
<1>5. \A r \in Requests : Pending(r)' <=> Pending(r)
  BY <1>1 DEF Pending, clientVars
<1>6. CASE m.gid = c
  <2>1. PICK r \in Requests : gid[r] = c /\ Awaiting(r) /\ ~Pending(r) /\ m.body \in {r, Error}
    BY <1>1, <1>6 DEF Answers
  <2>2. \A i \in DOMAIN toServer' : toServer'[i].gid # c
    BY <1>1, <1>4, <1>6 DEF Answers
  <2>3. h # None /\ h \in handlingGoal => h = r
    BY <1>2, <2>1 DEF Order, OneCall, ServerTurns, CalledOnce, Awaiting, InProgress
  <2>4. \A s \in Requests : s # r => goalResponse'[s] = goalResponse[s]
    BY <1>2, <2>3 DEF HandleResponse
  <2>5. goalResponse'[r] \in {goalResponse[r], m.body}
    BY <1>2, <2>3 DEF HandleResponse
  <2>6. \A s \in Requests : gid[s] = c =>
          /\ Pending(s)' => Awaiting(s)'
          /\ call'[s] = "registered" => goalResponse'[s] = None
          /\ call'[s] \in {"sent", "waiting"} => goalResponse'[s] \in {None, s, Error}
    BY <1>1, <1>5, <2>1, <2>4, <2>5 DEF Answers, Awaiting
  <2> QED
    BY <2>2, <2>6 DEF Answers
<1>7. CASE m.gid # c
  <2>1. \A s \in Requests : gid[s] = c => goalResponse'[s] = goalResponse[s]
    BY <1>2, <1>7 DEF HandleResponse, Isolation
  <2>2. \A s \in Requests : gid[s] = c => (Awaiting(s)' <=> Awaiting(s))
    BY <1>1, <2>1 DEF Awaiting
  <2>3. \A i \in DOMAIN toServer' : toServer'[i].gid = c =>
          /\ \E r \in Requests : gid[r] = c /\ Awaiting(r)' /\ ~Pending(r)' /\ toServer'[i].body \in {r, Error}
          /\ \A j \in DOMAIN toServer' : toServer'[j].gid = c => j = i
    BY <1>1, <1>3, <1>5, <2>2 DEF Answers
  <2>4. \A s \in Requests : gid[s] = c =>
          /\ Pending(s)' => Awaiting(s)'
          /\ call'[s] = "registered" => goalResponse'[s] = None
          /\ call'[s] \in {"sent", "waiting"} => goalResponse'[s] \in {None, s, Error}
    BY <1>1, <1>5, <2>1, <2>2 DEF Answers
  <2> QED
    BY <2>3, <2>4 DEF Answers
<1> QED
  BY <1>6, <1>7

\* What the other steps of a call do to the answer it awaits.
LEMMA QuietAnswers ==
  ASSUME IInv, Order, NEW c \in Callers, Answers(c), Punctual(c)',
         NEW r \in Requests, QuietStep(r)
  PROVE  Answers(c)'
<1>0. TypeOK /\ \A s \in Requests : ServerTurns(s)
  BY DEF IInv, Order, ServerTurns, CalledOnce
<1>1. UNCHANGED <<toClient, toServer, serverStop, clientVars>>
  BY DEF QuietStep, Begin, Register, StartWaiting, StopWaiting, TakeResponse, RejectResponse, Done
<1>2. \A s \in Requests : Pending(s)' <=> Pending(s)
  BY <1>1 DEF Pending, clientVars
<1>3. ~serverStopping
  BY <1>1 DEF Punctual, serverStopping
<1>4. \A s \in Requests \ {r} : call'[s] = call[s] /\ goalResponse'[s] = goalResponse[s]
  BY <1>0 DEF QuietStep, Begin, Register, StartWaiting, StopWaiting, TakeResponse,
              RejectResponse, Done, ReturnFailure, TypeOK
<1>5. /\ Awaiting(r) => Awaiting(r)'
      /\ call'[r] = "registered" => goalResponse'[r] = None
      /\ call'[r] \in {"sent", "waiting"} =>
           call[r] \in {"sent", "waiting"} /\ goalResponse'[r] = goalResponse[r]
  BY <1>0, <1>3 DEF QuietStep, Begin, Register, StartWaiting, StopWaiting, TakeResponse,
              RejectResponse, Done, ReturnFailure, Awaiting, TypeOK
<1>6. \A s \in Requests : gid[s] = c =>
        /\ Pending(s)' => Pending(s)
        /\ Awaiting(s) => Awaiting(s)'
        /\ call'[s] = "registered" => goalResponse'[s] = None
        /\ call'[s] \in {"sent", "waiting"} => goalResponse'[s] \in {None, s, Error}
  <2> SUFFICES ASSUME NEW s \in Requests, gid[s] = c
               PROVE  /\ Pending(s)' => Pending(s)
                      /\ Awaiting(s) => Awaiting(s)'
                      /\ call'[s] = "registered" => goalResponse'[s] = None
                      /\ call'[s] \in {"sent", "waiting"} => goalResponse'[s] \in {None, s, Error}
    OBVIOUS
  <2>1. CASE s = r
    BY <1>2, <1>5, <2>1 DEF Answers
  <2>2. CASE s # r
    BY <1>2, <1>4, <2>2 DEF Answers, Awaiting
  <2> QED
    BY <2>1, <2>2
<1> QED
  BY <1>1, <1>6, AnswersKept

\* A request is sent when its client has no answer under way.
LEMMA RequestAnswers ==
  ASSUME IInv, Order, Sequential, NEW c \in Callers, Answers(c),
         NEW r \in Requests, SendRequest(r)
  PROVE  Answers(c)'
<1>1. /\ call[r] = "registered" /\ call' = [call EXCEPT ![r] = "sent"]
      /\ call \in [Requests -> {"idle", "checked", "registered", "sent", "waiting",
                                "replying", "returned"}]
      /\ UNCHANGED <<toServer, goalResponse, clientVars>>
  BY DEF SendRequest, IInv, TypeOK
<1>2. /\ DOMAIN toClient' = 1..(Len(toClient) + 1) /\ DOMAIN toClient = 1..Len(toClient)
      /\ Len(toClient) \in Nat /\ toClient'[Len(toClient) + 1] = Request(r)
      /\ \A i \in DOMAIN toClient : toClient'[i] = toClient[i]
  BY AppendAt DEF SendRequest, SendToClient, ToClient, Request, IInv, TypeOK
<1>3. \A i \in DOMAIN toClient' : i \in DOMAIN toClient \/ i = Len(toClient) + 1
  BY <1>2
<1>4. \A s \in Requests \ {r} : Pending(s)' => Pending(s)
  <2> SUFFICES ASSUME NEW s \in Requests \ {r}, Pending(s)' PROVE Pending(s)
    OBVIOUS
  <2>1. Request(s) # Request(r)
    BY DEF Request
  <2>2. Queued(toClient', Request(s)) => Queued(toClient, Request(s))
    BY <1>2, <1>3, <2>1 DEF Queued
  <2> QED
    BY <1>1, <2>2 DEF Pending, clientVars, Request
<1>5. CASE gid[r] = c
  <2>1. \A i \in DOMAIN toServer : toServer[i].gid # c
    <3> SUFFICES ASSUME NEW i \in DOMAIN toServer, toServer[i].gid = c PROVE FALSE
      OBVIOUS
    <3>1. PICK s \in Requests : Awaiting(s)
      BY DEF Answers
    <3>2. s = r
      BY <1>1, <3>1 DEF Order, OneCall, Awaiting, InProgress
    <3> QED
      BY <1>1, <3>1, <3>2 DEF Awaiting
  <2>2. goalResponse[r] = None
    BY <1>1, <1>5 DEF Answers
  <2>3. Awaiting(r)' /\ \A s \in Requests \ {r} : Awaiting(s)' <=> Awaiting(s)
    BY <1>1, <2>2 DEF Awaiting
  <2>4. \A s \in Requests : gid[s] = c =>
          /\ Pending(s)' => Awaiting(s)'
          /\ call'[s] = "registered" => goalResponse'[s] = None
          /\ call'[s] \in {"sent", "waiting"} => goalResponse'[s] \in {None, s, Error}
    <3> SUFFICES ASSUME NEW s \in Requests, gid[s] = c
                 PROVE  /\ Pending(s)' => Awaiting(s)'
                        /\ call'[s] = "registered" => goalResponse'[s] = None
                        /\ call'[s] \in {"sent", "waiting"} => goalResponse'[s] \in {None, s, Error}
      OBVIOUS
    <3>1. CASE s = r
      BY <1>1, <2>2, <2>3, <3>1
    <3>2. CASE s # r
      BY <1>1, <1>4, <2>3, <3>2 DEF Answers
    <3> QED
      BY <3>1, <3>2
  <2> QED
    BY <1>1, <2>1, <2>4 DEF Answers
<1>6. CASE gid[r] # c
  <2>1. \A s \in Requests : gid[s] = c => s # r
    BY <1>6
  <2> QED
    BY <1>1, <1>4, <2>1, AnswersKept DEF Awaiting, Answers
<1> QED
  BY <1>5, <1>6

\* The one answer of a punctual client finds the call that awaits it.
LEMMA StepAnswers ==
  IInv /\ Isolation /\ Order /\ AnswersAwaited /\ [Next]_vars => AnswersAwaited'
<1> SUFFICES ASSUME IInv, Isolation, Order, AnswersAwaited, [Next]_vars, Sequential,
                    NEW c \in Callers, Punctual(c)'
             PROVE  Answers(c)'
  BY DEF AnswersAwaited
<1>0. TypeOK /\ Punctual(c) /\ Answers(c)
  BY PunctualBefore DEF IInv, AnswersAwaited
<1>1. ASSUME NEW r \in Requests, QuietStep(r) PROVE Answers(c)'
  BY <1>0, <1>1, QuietAnswers
<1>2. ASSUME NEW r \in Requests, SendRequest(r) PROVE Answers(c)'
  BY <1>0, <1>2, RequestAnswers
<1>3. ASSUME NEW r \in Requests, Timeout(r) PROVE Answers(c)'
  <2>1. /\ call[r] = "waiting" /\ call' = [call EXCEPT ![r] = "returned"]
        /\ result' = [result EXCEPT ![r] = "timeout"]
        /\ toClient' = Append(toClient, [op |-> "SERVICE_TO_CLIENT_CANCEL", request |-> r])
        /\ UNCHANGED <<toServer, goalResponse, clientVars>>
    BY <1>3 DEF Timeout, ReturnFailure, SendToClient
  <2>2. gid[r] # c
    BY <1>0, <2>1 DEF Punctual, TypeOK
  <2>3. /\ DOMAIN toClient' = 1..(Len(toClient) + 1) /\ DOMAIN toClient = 1..Len(toClient)
        /\ Len(toClient) \in Nat
        /\ toClient'[Len(toClient) + 1] = [op |-> "SERVICE_TO_CLIENT_CANCEL", request |-> r]
        /\ \A i \in DOMAIN toClient : toClient'[i] = toClient[i]
    BY <1>0, <2>1, AppendAt DEF ToClient, TypeOK
  <2>4. \A i \in DOMAIN toClient' : i \in DOMAIN toClient \/ i = Len(toClient) + 1
    BY <2>3
  <2>5. \A s \in Requests : Queued(toClient', Request(s)) => Queued(toClient, Request(s))
    BY <2>3, <2>4 DEF Queued, Request
  <2>6. \A s \in Requests : Pending(s)' => Pending(s)
    BY <2>1, <2>5 DEF Pending, clientVars, Request
  <2>7. \A s \in Requests : gid[s] = c => call'[s] = call[s]
    BY <1>0, <2>1, <2>2 DEF TypeOK
  <2> QED
    BY <1>0, <2>1, <2>6, <2>7, AnswersKept DEF Awaiting, Answers
<1>4. CASE HandleResponse
  BY <1>0, <1>4, AnswerTaken DEF Punctual
<1>5. CASE ServerRemoves \/ ServerStops \/ UNCHANGED vars
  <2>1. UNCHANGED <<toClient, toServer, call, goalResponse, clientVars>>
    BY <1>5 DEF ServerRemoves, ServerStops, ServerCancels, ServerFlags, ServerClears, vars,
                serverVars
  <2> QED
    BY <1>0, <2>1, AnswersKept DEF Pending, Awaiting, Answers, clientVars
<1>6. ASSUME NEW r \in Requests, Answering(r) PROVE Answers(c)'
  <2>1. ClientNext
    BY <1>6 DEF Answering, ClientNext, HandleAtClient, ThreadStep, AnswerStep
  <2>2. PICK body \in {r, Error} : SendToServer(gid[r], body)
    BY <1>6 DEF Answering, RefuseRequest, AnswerError, SendAnswer
  <2> QED
    BY <1>0, <1>6, <2>1, <2>2, AnsweredOnce, StepPending, CallsStay, AnswersSent
<1>7. CASE ClientNext /\ UNCHANGED toServer
  <2>1. UNCHANGED serverVars
    BY <1>7, CallsStay
  <2> QED
    BY <1>0, <1>7, <2>1, StepPending, AnswersKept DEF Awaiting, Answers, serverVars
<1>8. ClientNext => UNCHANGED toServer \/ \E r \in Requests : Answering(r)
  BY DEF ClientNext, HandleAtClient, AcceptRequest, RefuseRequest, DropMessage, QueueCancel,
         ThreadStep, AnswerError, GiveUpStopping, CallService, TestWait, Park, FinishHandle,
         ServiceAnswers, AnswerStep, SendAnswer, MarkDone, InsertHandle, ClientRemoves,
         ClientStops, ClientPrunes, ClientFlags, ClientJoins, ClientStopped, ClientNotifies,
         Answering
<1> QED
  BY <1>1, <1>2, <1>3, <1>4, <1>5, <1>6, <1>7, <1>8 DEF Next, ServerNext, CallbackStep, QuietStep

----------------------------------------------------------------------------
(* A wrong answer follows a call that timed out.                           *)

\* A reply is the awaited one, or its client had a call that timed out.
LEMMA StepMisreply ==
  IInv /\ Order /\ AnswersAwaited /\ MisreplyNeedsTimeout /\ [Next]_vars
    => MisreplyNeedsTimeout'
<1> SUFFICES ASSUME IInv, Order, AnswersAwaited, MisreplyNeedsTimeout, [Next]_vars, Sequential,
                    NEW s \in Requests, result'[s] = "reply",
                    goalResponse'[s] \notin {s, Error}
             PROVE  \E t \in Requests : gid[t] = gid[s] /\ result'[t] = "timeout"
  BY DEF MisreplyNeedsTimeout
<1>0. TypeOK /\ \A r \in Requests : ServerTurns(r)
  BY DEF IInv, Order, ServerTurns, CalledOnce
<1>1. \A t \in Requests : result[t] # "open" => result'[t] = result[t]
  <2>1. ASSUME NEW r \in Requests, Begin(r) \/ CallbackStep(r)
        PROVE  \A t \in Requests : result[t] # "open" => result'[t] = result[t]
    BY <1>0, <2>1, CallMoves
  <2>2. \/ \E r \in Requests : Begin(r) \/ CallbackStep(r)
        \/ UNCHANGED result
    BY CallsStay DEF Next, ServerNext, vars, serverVars
  <2> QED
    BY <2>1, <2>2
<1>2. CASE result[s] = "reply"
  <2>1. goalResponse'[s] = goalResponse[s]
    <3>1. ASSUME NEW r \in Requests, Begin(r) \/ CallbackStep(r)
          PROVE  goalResponse'[s] = goalResponse[s]
      BY <1>0, <1>2, <3>1
         DEF Begin, CallbackStep, Register, SendRequest, StartWaiting, Timeout, StopWaiting,
             TakeResponse, RejectResponse, Done, ServerTurns, TypeOK
    <3>2. CASE HandleResponse
      BY <1>0, <1>2, <3>2 DEF HandleResponse, ServerTurns, TypeOK
    <3>3. CASE ServerRemoves \/ ServerStops \/ ClientNext \/ UNCHANGED vars
      BY <3>3, CallsStay DEF ServerRemoves, ServerStops, ServerCancels, ServerFlags,
                             ServerClears, vars, serverVars
    <3> QED
      BY <3>1, <3>2, <3>3 DEF Next, ServerNext
  <2> QED
    BY <1>1, <1>2, <2>1 DEF MisreplyNeedsTimeout
<1>3. CASE result[s] # "reply"
  <2>1. TakeResponse(s)
    <3>1. PICK r \in Requests : Begin(r) \/ CallbackStep(r)
      BY <1>3, CallsStay DEF Next, ServerNext, vars, serverVars
    <3> QED
      BY <1>0, <1>3, <3>1
         DEF Begin, CallbackStep, Register, SendRequest, StartWaiting, Timeout, StopWaiting,
             TakeResponse, RejectResponse, Done, ReturnFailure, TypeOK
  <2>2. /\ call[s] = "waiting" /\ ~serverStopping /\ goalResponse[s] # None
        /\ goalResponse' = goalResponse
    BY <2>1 DEF TakeResponse
  <2>3. gid[s] \in Callers
    BY BridgeAssumption
  <2>4. ~Punctual(gid[s])
    BY <2>2, <2>3 DEF AnswersAwaited, Answers
  <2>5. PICK t \in Requests : gid[t] = gid[s] /\ result[t] = "timeout"
    BY <2>2, <2>4 DEF Punctual
  <2> QED
    BY <1>1, <2>5
<1> QED
  BY <1>2, <1>3

\* The head of the queue is no cancellation for a call in progress: its request would be
\* behind, and its thread, which has a handle, already started.
LEMMA CancelSpares == IInv /\ Order /\ CancelsFirst => CancelSparesOpenCalls
<1> DEFINE h == clientHandles[gid[Head(toClient).request]]
<1> SUFFICES ASSUME IInv, Order, CancelsFirst, Sequential, toClient # <<>>,
                    Head(toClient).op = "SERVICE_TO_CLIENT_CANCEL",
                    h # None, result[h] = "open"
             PROVE  FALSE
  BY DEF CancelSparesOpenCalls
<1>0. 1 \in DOMAIN toClient /\ Head(toClient) = toClient[1] /\ Head(toClient).request \in Requests
  <2>1. toClient \in Seq(ToClient)
    BY DEF IInv, TypeOK
  <2>2. 1 \in DOMAIN toClient /\ Head(toClient) = toClient[1] /\ toClient[1] \in ToClient
    BY <2>1, TailAt
  <2> QED
    BY <2>2 DEF ToClient
<1>1. h \in Requests
  BY <1>0, BridgeAssumption DEF IInv, TypeOK
<1>a. thread[h] # "none"
  BY <1>0, BridgeAssumption DEF Order, HandlesStarted
<1>2. call[h] \in {"sent", "waiting"}
  BY <1>1, <1>a DEF IInv, TypeOK, RequestsOnce, Unsent, Order, ServerTurns, CalledOnce
<1>3. PICK j \in DOMAIN toClient : toClient[j] = Request(h)
  BY <1>0, <1>1, <1>2 DEF CancelsFirst, RequestLast
<1> QED
  BY <1>a, <1>3 DEF IInv, RequestsOnce, Request

\* With one callback at a time, whatever times out, is refused, answered late or removed
\* late: no cancellation ends an open call, and a call is given a wrong answer only if
\* an earlier call of its client timed out.
THEOREM CallsMeetTheirOwn == Spec => []MeetsItsCall
<1>1. Init => Order /\ CancelsFirst /\ AnswersAwaited /\ MisreplyNeedsTimeout
  <2> SUFFICES ASSUME Init PROVE Order /\ CancelsFirst /\ AnswersAwaited /\ MisreplyNeedsTimeout
    OBVIOUS
  <2>1. Order
    BY DEF Init, Order, OneCall,
         HandlesStarted, ServerTurns, CalledOnce, InProgress
  <2>2. CancelsFirst /\ MisreplyNeedsTimeout
    BY DEF Init, CancelsFirst, MisreplyNeedsTimeout
  <2>3. AnswersAwaited
    BY DEF Init, AnswersAwaited, Answers, Pending, Queued
  <2> QED
    BY <2>1, <2>2, <2>3
<1>2. /\ IInv /\ Isolation /\ Order /\ CancelsFirst /\ AnswersAwaited /\ MisreplyNeedsTimeout
      /\ [Next]_vars
      => (Order /\ CancelsFirst /\ AnswersAwaited /\ MisreplyNeedsTimeout)'
  BY StepOrder, StepCancelsFirst, StepAnswers, StepMisreply
<1>3. IInv /\ Order /\ CancelsFirst /\ MisreplyNeedsTimeout => MeetsItsCall
  BY CancelSpares DEF MeetsItsCall
<1> QED
  BY <1>1, <1>2, <1>3, InvariantHolds, ClientsIsolated, PTL DEF Spec

=============================================================================
