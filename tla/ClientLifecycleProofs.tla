----------------------- MODULE ClientLifecycleProofs -----------------------
(***************************************************************************)
(* TLAPS proofs about ClientLifecycle: that no connection is left behind,  *)
(* whichever of the two threads stops it, and whenever.                    *)
(***************************************************************************)
EXTENDS ClientLifecycle, TLAPS

----------------------------------------------------------------------------
(* The strengthening of the invariant.                                     *)

\* Where a thread goes on after it has stopped the client.
Resumes ==
  /\ pc["client"] \in ClientStop => resume["client"] \in {"callback", "run", "ended"}
  /\ pc["client"] \in {"stopClient", "stopAll", "cancel"} => resume["client"] # "callback"

Nobody == \A p \in Stoppers : pc[p] \notin StopSteps

\* The connection is over.
Gone == at = "ended" /\ closed /\ connStopped /\ (manager = "none" \/ overlap)

\* Before it has a thread there is nothing of a connection.
Before ==
  /\ at = "none" =>
       /\ pc["client"] \notin {"push", "run"} /\ Nobody
       /\ \A p \in Stoppers : pc[p] \notin ListSteps
       /\ ~listed /\ ~connStopped /\ ~closed /\ manager = "none"
       /\ pc["client"] \in ClientStop => resume["client"] = "ended"
  /\ pc["client"] \in {"none", "connect", "tls", "start"} => at = "none"
  /\ pc["main"] = "create" => pc["client"] = "none"

\* From then on the client thread is about to list it, or it is listed, or one thread
\* stops it, or it is over.  The erasure from the list is what decides who stops it, as
\* long as nobody erases while the other thread goes through the list.
Owned ==
  /\ pc["client"] = "push" \/ listed => Nobody /\ at # "none" /\ ~connStopped /\ ~closed
  /\ pc["client"] \in {"push", "cancel", "ended"} => ~listed
  /\ pc["main"] \notin StopSteps \/ pc["client"] \notin StopSteps
  /\ at # "none" /\ pc["client"] # "push" /\ ~listed /\ Nobody => Gone

\* How far a stop has got.
Progress(p) ==
  /\ pc[p] = "erase" => listed
  /\ pc[p] = "stop" => ~connStopped /\ ~closed
  /\ pc[p] \in StopSteps \ {"stop"} => connStopped
  /\ pc[p] \in {"joinConn", "close", "destroy"} => manager = "none" \/ overlap
  /\ pc[p] \in {"close", "destroy"} => at = "ended"
  /\ pc[p] = "destroy" => closed

\* Once the io_context of the connection is stopped, no managers are started any more.
NoLateStart == connStopped /\ ~overlap => at \notin {"flag", "spawn"}

\* The two halves of the type invariant.
Flags ==
  /\ ssl \in BOOLEAN /\ ok \in BOOLEAN /\ has \in BOOLEAN /\ spinning \in BOOLEAN
  /\ iocStopped \in BOOLEAN /\ posted \in BOOLEAN /\ listed \in BOOLEAN
  /\ reading \in BOOLEAN /\ writing \in BOOLEAN
  /\ connStopped \in BOOLEAN /\ closed \in BOOLEAN /\ stopping \in BOOLEAN
  /\ unheard \in BOOLEAN /\ overlap \in BOOLEAN /\ lost \in BOOLEAN
  /\ raced \in BOOLEAN /\ entangled \in BOOLEAN

Places ==
  /\ interrupted \in {"no", "add", "spinning"}
  /\ pc \in [Stoppers -> MainSteps \cup ClientSteps \cup ClientStop]
  /\ pc["main"] \in MainSteps \cup ClientStop
  /\ pc["client"] \in ClientSteps \cup ClientStop
  /\ resume \in [Stoppers -> {"none", "callback", "joinClient", "run", "ended"}]
  /\ pc["main"] \in ClientStop => resume["main"] = "joinClient"
  /\ at \in {"none", "handshake", "flag", "spawn", "loop", "ended"}
  /\ manager \in Joined \cup {"awake", "parking", "asleep", "held"}

IInv ==
  /\ Flags /\ Places /\ Resumes /\ Before /\ NoLateStart
  /\ ~raced => Owned /\ \A p \in Stoppers : Progress(p)

LEMMA Typed == IInv => TypeOK
BY DEF IInv, Flags, Places, TypeOK

\* What the property says of the end of the client follows.
LEMMA Follows == IInv => NothingLeftBehind
<1> SUFFICES ASSUME IInv, pc["client"] = "ended", pc["main"] \notin StopSteps, ~raced
             PROVE  /\ ~listed
                    /\ at = "none" \/ (at = "ended" /\ closed /\ (manager = "none" \/ overlap))
  BY DEF NothingLeftBehind
<1>1. ~listed
  BY DEF IInv, Owned
<1>2. Nobody
  BY DEF Nobody, Stoppers, StopSteps
<1>3. CASE at # "none"
  BY <1>1, <1>2, <1>3 DEF IInv, Owned, Gone
<1> QED
  BY <1>1, <1>3

----------------------------------------------------------------------------
(* Each step keeps it.                                                     *)

USE DEF Stoppers, Other, Joined, ListSteps, StopSteps, ClientStop, MainSteps, ClientSteps,
  mainVars, clientVars, stopperVars, handlerVars, managerVars, closeVars, historyVars,
  haltVars, Goto, StopClient, CanRun, Finish

----------------------------------------------------------------------------
(* The main thread.                                                        *)

LEMMA CreateKept ==
  ASSUME IInv, Create
  PROVE  IInv'
<1> USE DEF IInv, Places, Resumes, Before, Owned, NoLateStart, Progress, Gone, Nobody
<1>1. Flags'
  BY DEF Flags, Create
<1>2. Places' /\ Resumes' /\ Before' /\ NoLateStart'
  BY DEF Create
<1>3. ~raced' => Owned' /\ \A q \in Stoppers : Progress(q)'
  BY DEF Create
<1> QED
  BY <1>1, <1>2, <1>3

LEMMA CreateFailsKept ==
  ASSUME IInv, CreateFails
  PROVE  IInv'
<1>1. Flags'
  <2>1. Flags
    BY DEF IInv
  <2>2. /\ ssl' = ssl /\ spinning' = spinning /\ iocStopped' = iocStopped /\ posted' = posted
        /\ listed' = listed /\ reading' = reading /\ writing' = writing /\ connStopped' = connStopped
        /\ closed' = closed /\ stopping' = stopping /\ unheard' = unheard /\ overlap' = overlap
        /\ lost' = lost /\ raced' = raced /\ entangled' = entangled
    BY DEF CreateFails
  <2>3. ok' \in BOOLEAN /\ has' \in BOOLEAN
    BY <2>1 DEF Flags, CreateFails
  <2> QED
    BY <2>1, <2>2, <2>3 DEF Flags
<1> USE DEF IInv, Places, Resumes, Before, Owned, NoLateStart, Progress, Gone, Nobody
<1>2. Places' /\ Resumes' /\ Before' /\ NoLateStart'
  BY DEF CreateFails
<1>3. ~raced' => Owned' /\ \A q \in Stoppers : Progress(q)'
  BY DEF CreateFails
<1> QED
  BY <1>1, <1>2, <1>3

LEMMA SpinKept ==
  ASSUME IInv, Spin
  PROVE  IInv'
<1> USE DEF IInv, Places, Resumes, Before, Owned, NoLateStart, Progress, Gone, Nobody
<1>1. Flags'
  BY DEF Flags, Spin
<1>2. Places' /\ Resumes' /\ Before' /\ NoLateStart'
  BY DEF Spin
<1>3. ~raced' => Owned' /\ \A q \in Stoppers : Progress(q)'
  BY DEF Spin
<1> QED
  BY <1>1, <1>2, <1>3

LEMMA SpinReturnsKept ==
  ASSUME IInv, SpinReturns
  PROVE  IInv'
<1>1. Flags'
  <2>1. Flags
    BY DEF IInv
  <2>2. /\ ssl' = ssl /\ ok' = ok /\ has' = has /\ iocStopped' = iocStopped
        /\ posted' = posted /\ listed' = listed /\ reading' = reading /\ writing' = writing
        /\ connStopped' = connStopped /\ closed' = closed /\ stopping' = stopping /\ unheard' = unheard
        /\ overlap' = overlap /\ lost' = lost /\ raced' = raced /\ entangled' = entangled
    BY DEF SpinReturns
  <2>3. spinning' \in BOOLEAN
    BY <2>1 DEF Flags, SpinReturns
  <2> QED
    BY <2>1, <2>2, <2>3 DEF Flags
<1> USE DEF IInv, Places, Resumes, Before, Owned, NoLateStart, Progress, Gone, Nobody
<1>2. Places' /\ Resumes' /\ Before' /\ NoLateStart'
  BY DEF SpinReturns
<1>3. ~raced' => Owned' /\ \A q \in Stoppers : Progress(q)'
  BY DEF SpinReturns
<1> QED
  BY <1>1, <1>2, <1>3

LEMMA InterruptKept ==
  ASSUME IInv, Interrupt
  PROVE  IInv'
<1> USE DEF IInv, Places, Resumes, Before, Owned, NoLateStart, Progress, Gone, Nobody
<1>1. Flags'
  BY DEF Flags, Interrupt
<1>2. Places' /\ Resumes' /\ Before' /\ NoLateStart'
  BY DEF Interrupt
<1>3. ~raced' => Owned' /\ \A q \in Stoppers : Progress(q)'
  BY DEF Interrupt
<1> QED
  BY <1>1, <1>2, <1>3

LEMMA TerminateKept ==
  ASSUME IInv, Terminate
  PROVE  IInv'
<1>1. Flags'
  <2>1. Flags
    BY DEF IInv
  <2>2. /\ ssl' = ssl /\ has' = has /\ spinning' = spinning /\ iocStopped' = iocStopped
        /\ posted' = posted /\ listed' = listed /\ reading' = reading /\ writing' = writing
        /\ connStopped' = connStopped /\ closed' = closed /\ stopping' = stopping /\ unheard' = unheard
        /\ overlap' = overlap /\ lost' = lost /\ raced' = raced /\ entangled' = entangled
    BY DEF Terminate
  <2>3. ok' \in BOOLEAN
    BY <2>1 DEF Flags, Terminate
  <2> QED
    BY <2>1, <2>2, <2>3 DEF Flags
<1> USE DEF IInv, Places, Resumes, Before, Owned, NoLateStart, Progress, Gone, Nobody
<1>2. Places' /\ Resumes' /\ Before' /\ NoLateStart'
  BY DEF Terminate
<1>3. ~raced' => Owned' /\ \A q \in Stoppers : Progress(q)'
  BY DEF Terminate
<1> QED
  BY <1>1, <1>2, <1>3

LEMMA JoinClientKept ==
  ASSUME IInv, JoinClient
  PROVE  IInv'
<1>1. Flags'
  <2>1. Flags
    BY DEF IInv
  <2>2. /\ ssl' = ssl /\ ok' = ok /\ spinning' = spinning /\ iocStopped' = iocStopped
        /\ posted' = posted /\ listed' = listed /\ reading' = reading /\ writing' = writing
        /\ connStopped' = connStopped /\ closed' = closed /\ stopping' = stopping /\ unheard' = unheard
        /\ overlap' = overlap /\ lost' = lost /\ raced' = raced /\ entangled' = entangled
    BY DEF JoinClient
  <2>3. has' \in BOOLEAN
    BY <2>1 DEF Flags, JoinClient
  <2> QED
    BY <2>1, <2>2, <2>3 DEF Flags
<1> USE DEF IInv, Places, Resumes, Before, Owned, NoLateStart, Progress, Gone, Nobody
<1>2. Places' /\ Resumes' /\ Before' /\ NoLateStart'
  BY DEF JoinClient
<1>3. ~raced' => Owned' /\ \A q \in Stoppers : Progress(q)'
  BY DEF JoinClient
<1> QED
  BY <1>1, <1>2, <1>3

----------------------------------------------------------------------------
(* The client thread.                                                      *)

LEMMA connectKept ==
  ASSUME IInv, connect
  PROVE  IInv'
<1> USE DEF IInv, Places, Resumes, Before, Owned, NoLateStart, Progress, Gone, Nobody
<1>1. Flags'
  BY DEF Flags, connect
<1>2. Places' /\ Resumes' /\ Before' /\ NoLateStart'
  BY DEF connect
<1>3. ~raced' => Owned' /\ \A q \in Stoppers : Progress(q)'
  BY DEF connect
<1> QED
  BY <1>1, <1>2, <1>3

LEMMA handshakeTlsKept ==
  ASSUME IInv, handshakeTls
  PROVE  IInv'
<1> USE DEF IInv, Places, Resumes, Before, Owned, NoLateStart, Progress, Gone, Nobody
<1>1. Flags'
  BY DEF Flags, handshakeTls
<1>2. Places' /\ Resumes' /\ Before' /\ NoLateStart'
  BY DEF handshakeTls
<1>3. ~raced' => Owned' /\ \A q \in Stoppers : Progress(q)'
  BY DEF handshakeTls
<1> QED
  BY <1>1, <1>2, <1>3

LEMMA startConnectionKept ==
  ASSUME IInv, startConnection
  PROVE  IInv'
<1> USE DEF IInv, Places, Resumes, Before, Owned, NoLateStart, Progress, Gone, Nobody
<1>1. Flags'
  BY DEF Flags, startConnection
<1>2. Places' /\ Resumes' /\ Before' /\ NoLateStart'
  BY DEF startConnection
<1>3. ~raced' => Owned' /\ \A q \in Stoppers : Progress(q)'
  BY DEF startConnection
<1> QED
  BY <1>1, <1>2, <1>3

LEMMA PushConnectionKept ==
  ASSUME IInv, PushConnection
  PROVE  IInv'
<1> USE DEF IInv, Places, Resumes, Before, Owned, NoLateStart, Progress, Gone, Nobody
<1>1. Flags'
  BY DEF Flags, PushConnection
<1>2. Places' /\ Resumes' /\ Before' /\ NoLateStart'
  BY DEF PushConnection
<1>3. ~raced' => Owned' /\ \A q \in Stoppers : Progress(q)'
  BY DEF PushConnection
<1> QED
  BY <1>1, <1>2, <1>3

LEMMA TakeStopKept ==
  ASSUME IInv, TakeStop
  PROVE  IInv'
<1>1. Flags'
  <2>1. Flags
    BY DEF IInv
  <2>2. /\ ssl' = ssl /\ ok' = ok /\ has' = has /\ spinning' = spinning /\ listed' = listed
        /\ iocStopped' = iocStopped /\ reading' = reading /\ writing' = writing /\ connStopped' = connStopped
        /\ closed' = closed /\ stopping' = stopping /\ unheard' = unheard /\ overlap' = overlap
        /\ lost' = lost /\ raced' = raced /\ entangled' = entangled
    BY DEF TakeStop
  <2>3. posted' \in BOOLEAN
    BY <2>1 DEF Flags, TakeStop
  <2> QED
    BY <2>1, <2>2, <2>3 DEF Flags
<1> USE DEF IInv, Places, Resumes, Before, Owned, NoLateStart, Progress, Gone, Nobody
<1>2. Places' /\ Resumes' /\ Before' /\ NoLateStart'
  BY DEF TakeStop
<1>3. ~raced' => Owned' /\ \A q \in Stoppers : Progress(q)'
  BY DEF TakeStop
<1> QED
  BY <1>1, <1>2, <1>3

LEMMA RunReturnsKept ==
  ASSUME IInv, RunReturns
  PROVE  IInv'
<1> USE DEF IInv, Places, Resumes, Before, Owned, NoLateStart, Progress, Gone, Nobody
<1>1. Flags'
  BY DEF Flags, RunReturns
<1>2. Places' /\ Resumes' /\ Before' /\ NoLateStart'
  BY DEF RunReturns
<1>3. ~raced' => Owned' /\ \A q \in Stoppers : Progress(q)'
  BY DEF RunReturns
<1> QED
  BY <1>1, <1>2, <1>3

----------------------------------------------------------------------------
(* The stop of the client, on either thread.                               *)

LEMMA StopIocKept ==
  ASSUME IInv, NEW p \in Stoppers, StopIoc(p)
  PROVE  IInv'
<1> USE DEF IInv, Places, Resumes, Before, Owned, NoLateStart, Progress, Gone, Nobody
<1>1. Flags'
  BY DEF Flags, StopIoc
<1>2. Places' /\ Resumes' /\ Before' /\ NoLateStart'
  BY DEF StopIoc
<1>3. ~raced' => Owned' /\ \A q \in Stoppers : Progress(q)'
  BY DEF StopIoc
<1> QED
  BY <1>1, <1>2, <1>3

LEMMA stopAllConnectionsKept ==
  ASSUME IInv, NEW p \in Stoppers, stopAllConnections(p)
  PROVE  IInv'
<1> USE DEF IInv, Places, Resumes, Before, Owned, NoLateStart, Progress, Gone, Nobody
<1>1. Flags'
  BY DEF Flags, stopAllConnections
<1>2. Places' /\ Resumes' /\ Before' /\ NoLateStart'
  BY DEF stopAllConnections
<1>3. ~raced' => Owned' /\ \A q \in Stoppers : Progress(q)'
  BY DEF stopAllConnections
<1> QED
  BY <1>1, <1>2, <1>3

LEMMA CancelKept ==
  ASSUME IInv, NEW p \in Stoppers, Cancel(p)
  PROVE  IInv'
<1>1. Flags'
  <2>1. Flags
    BY DEF IInv
  <2>2. /\ ssl' = ssl /\ ok' = ok /\ has' = has /\ iocStopped' = iocStopped
        /\ posted' = posted /\ listed' = listed /\ reading' = reading /\ writing' = writing
        /\ connStopped' = connStopped /\ closed' = closed /\ stopping' = stopping /\ overlap' = overlap
        /\ lost' = lost /\ raced' = raced /\ entangled' = entangled
    BY DEF Cancel
  <2>3. spinning' \in BOOLEAN /\ unheard' \in BOOLEAN
    BY <2>1 DEF Flags, Cancel
  <2> QED
    BY <2>1, <2>2, <2>3 DEF Flags
<1> USE DEF IInv, Places, Resumes, Before, Owned, NoLateStart, Progress, Gone, Nobody
<1>2. Places' /\ Resumes' /\ Before' /\ NoLateStart'
  BY DEF Cancel
<1>3. ~raced' => Owned' /\ \A q \in Stoppers : Progress(q)'
  BY DEF Cancel
<1> QED
  BY <1>1, <1>2, <1>3

LEMMA SearchConnectionKept ==
  ASSUME IInv, NEW p \in Stoppers, SearchConnection(p)
  PROVE  IInv'
<1> USE DEF IInv, Places, Resumes, Before, Owned, NoLateStart, Progress, Gone, Nobody
<1>1. Flags'
  BY DEF Flags, SearchConnection
<1>2. Places' /\ Resumes' /\ Before' /\ NoLateStart'
  BY DEF SearchConnection
<1>3. ~raced' => Owned' /\ \A q \in Stoppers : Progress(q)'
  BY DEF SearchConnection
<1> QED
  BY <1>1, <1>2, <1>3

LEMMA EraseConnectionKept ==
  ASSUME IInv, NEW p \in Stoppers, EraseConnection(p)
  PROVE  IInv'
<1>1. Flags'
  <2>1. Flags
    BY DEF IInv
  <2>2. /\ ssl' = ssl /\ ok' = ok /\ has' = has /\ spinning' = spinning
        /\ iocStopped' = iocStopped /\ posted' = posted /\ reading' = reading /\ writing' = writing
        /\ connStopped' = connStopped /\ closed' = closed /\ stopping' = stopping
        /\ unheard' = unheard /\ overlap' = overlap /\ lost' = lost /\ entangled' = entangled
    BY DEF EraseConnection
  <2>3. listed' \in BOOLEAN
    BY <2>1 DEF Flags, EraseConnection
  <2>4. raced' \in BOOLEAN
    BY <2>1 DEF Flags, EraseConnection
  <2> QED
    BY <2>1, <2>2, <2>3, <2>4 DEF Flags
<1> USE DEF IInv, Places, Resumes, Before, Owned, NoLateStart, Progress, Gone, Nobody
<1>2. Places' /\ Resumes' /\ Before' /\ NoLateStart'
  BY DEF EraseConnection
<1>3. ~raced' => Owned' /\ \A q \in Stoppers : Progress(q)'
  BY DEF EraseConnection
<1> QED
  BY <1>1, <1>2, <1>3

LEMMA StopConnectionThreadKept ==
  ASSUME IInv, NEW p \in Stoppers, StopConnectionThread(p)
  PROVE  IInv'
<1> USE DEF IInv, Places, Resumes, Before, Owned, NoLateStart, Progress, Gone, Nobody
<1>1. Flags'
  BY DEF Flags, StopConnectionThread
<1>2. Places'
  BY DEF StopConnectionThread
<1>3. Resumes' /\ Before' /\ NoLateStart'
  BY DEF StopConnectionThread
<1>4. ~raced' => Owned' /\ \A q \in Stoppers : Progress(q)'
  BY DEF StopConnectionThread
<1> QED
  BY <1>1, <1>2, <1>3, <1>4

LEMMA StopManagersKept ==
  ASSUME IInv, NEW p \in Stoppers, StopManagers(p)
  PROVE  IInv'
<1> USE DEF IInv, Places, Resumes, Before, Owned, NoLateStart, Progress, Gone, Nobody
<1>1. Flags'
  BY DEF Flags, StopManagers
<1>2. Places' /\ Resumes' /\ Before' /\ NoLateStart'
  BY DEF StopManagers
<1>3. ~raced' => Owned' /\ \A q \in Stoppers : Progress(q)'
  BY DEF StopManagers
<1> QED
  BY <1>1, <1>2, <1>3

LEMMA JoinInnerKept ==
  ASSUME IInv, NEW p \in Stoppers, JoinInner(p)
  PROVE  IInv'
<1> USE DEF IInv, Places, Resumes, Before, Owned, NoLateStart, Progress, Gone, Nobody
<1>1. Flags'
  BY DEF Flags, JoinInner
<1>2. Places' /\ Resumes' /\ Before' /\ NoLateStart'
  BY DEF JoinInner
<1>3. ~raced' => Owned' /\ \A q \in Stoppers : Progress(q)'
  BY DEF JoinInner
<1> QED
  BY <1>1, <1>2, <1>3

LEMMA JoinManagersKept ==
  ASSUME IInv, NEW p \in Stoppers, JoinManagers(p)
  PROVE  IInv'
<1> USE DEF IInv, Places, Resumes, Before, Owned, NoLateStart, Progress, Gone, Nobody
<1>1. Flags'
  BY DEF Flags, JoinManagers
<1>2. Places' /\ Resumes' /\ Before' /\ NoLateStart'
  BY DEF JoinManagers
<1>3. ~raced' => Owned' /\ \A q \in Stoppers : Progress(q)'
  BY DEF JoinManagers
<1> QED
  BY <1>1, <1>2, <1>3

LEMMA JoinConnectionKept ==
  ASSUME IInv, NEW p \in Stoppers, JoinConnection(p)
  PROVE  IInv'
<1> USE DEF IInv, Places, Resumes, Before, Owned, NoLateStart, Progress, Gone, Nobody
<1>1. Flags'
  BY DEF Flags, JoinConnection
<1>2. Places' /\ Resumes' /\ Before' /\ NoLateStart'
  BY DEF JoinConnection
<1>3. ~raced' => Owned' /\ \A q \in Stoppers : Progress(q)'
  BY DEF JoinConnection
<1> QED
  BY <1>1, <1>2, <1>3

LEMMA CloseConnectionKept ==
  ASSUME IInv, NEW p \in Stoppers, CloseConnection(p)
  PROVE  IInv'
<1>1. Flags'
  <2>1. Flags
    BY DEF IInv
  <2>2. /\ ssl' = ssl /\ ok' = ok /\ has' = has /\ spinning' = spinning
        /\ iocStopped' = iocStopped /\ posted' = posted /\ listed' = listed /\ reading' = reading
        /\ writing' = writing /\ connStopped' = connStopped /\ unheard' = unheard /\ overlap' = overlap
        /\ lost' = lost /\ raced' = raced /\ entangled' = entangled
    BY DEF CloseConnection
  <2>3. closed' \in BOOLEAN /\ stopping' \in BOOLEAN
    BY <2>1 DEF Flags, CloseConnection
  <2> QED
    BY <2>1, <2>2, <2>3 DEF Flags
<1> USE DEF IInv, Places, Resumes, Before, Owned, NoLateStart, Progress, Gone, Nobody
<1>2. Places' /\ Resumes' /\ Before' /\ NoLateStart'
  BY DEF CloseConnection
<1>3. ~raced' => Owned' /\ \A q \in Stoppers : Progress(q)'
  BY DEF CloseConnection
<1> QED
  BY <1>1, <1>2, <1>3

LEMMA DestroyConnectionKept ==
  ASSUME IInv, NEW p \in Stoppers, DestroyConnection(p)
  PROVE  IInv'
<1> USE DEF IInv, Places, Resumes, Before, Owned, NoLateStart, Progress, Gone, Nobody
<1>1. Flags'
  BY DEF Flags, DestroyConnection
<1>2. Places' /\ Resumes' /\ Before' /\ NoLateStart'
  BY DEF DestroyConnection
<1>3. ~raced' => Owned' /\ \A q \in Stoppers : Progress(q)'
  BY DEF DestroyConnection
<1> QED
  BY <1>1, <1>2, <1>3

----------------------------------------------------------------------------
(* The thread of the connection, and the managers.                         *)

LEMMA HandshakeKept ==
  ASSUME IInv, Handshake
  PROVE  IInv'
<1> USE DEF IInv, Places, Resumes, Before, Owned, NoLateStart, Progress, Gone, Nobody
<1>1. Flags'
  BY DEF Flags, Handshake
<1>2. Places' /\ Resumes' /\ Before' /\ NoLateStart'
  BY DEF Handshake
<1>3. ~raced' => Owned' /\ \A q \in Stoppers : Progress(q)'
  BY DEF Handshake
<1> QED
  BY <1>1, <1>2, <1>3

LEMMA HandshakeFailsKept ==
  ASSUME IInv, HandshakeFails
  PROVE  IInv'
<1> USE DEF IInv, Places, Resumes, Before, Owned, NoLateStart, Progress, Gone, Nobody
<1>1. Flags'
  BY DEF Flags, HandshakeFails
<1>2. Places' /\ Resumes' /\ Before' /\ NoLateStart'
  BY DEF HandshakeFails
<1>3. ~raced' => Owned' /\ \A q \in Stoppers : Progress(q)'
  BY DEF HandshakeFails
<1> QED
  BY <1>1, <1>2, <1>3

LEMMA StartFlagKept ==
  ASSUME IInv, StartFlag
  PROVE  IInv'
<1>1. Flags'
  <2>1. Flags
    BY DEF IInv
  <2>2. /\ ssl' = ssl /\ ok' = ok /\ has' = has /\ spinning' = spinning
        /\ iocStopped' = iocStopped /\ posted' = posted /\ listed' = listed /\ reading' = reading
        /\ writing' = writing /\ connStopped' = connStopped /\ closed' = closed /\ unheard' = unheard
        /\ overlap' = overlap /\ lost' = lost /\ raced' = raced /\ entangled' = entangled
    BY DEF StartFlag
  <2>3. stopping' \in BOOLEAN
    BY <2>1 DEF Flags, StartFlag
  <2> QED
    BY <2>1, <2>2, <2>3 DEF Flags
<1> USE DEF IInv, Places, Resumes, Before, Owned, NoLateStart, Progress, Gone, Nobody
<1>2. Places' /\ Resumes' /\ Before' /\ NoLateStart'
  BY DEF StartFlag
<1>3. ~raced' => Owned' /\ \A q \in Stoppers : Progress(q)'
  BY DEF StartFlag
<1> QED
  BY <1>1, <1>2, <1>3

LEMMA StartSpawnKept ==
  ASSUME IInv, StartSpawn
  PROVE  IInv'
<1> USE DEF IInv, Places, Resumes, Before, Owned, NoLateStart, Progress, Gone, Nobody
<1>1. Flags'
  BY DEF Flags, StartSpawn
<1>2. Places' /\ Resumes' /\ Before' /\ NoLateStart'
  BY DEF StartSpawn
<1>3. ~raced' => Owned' /\ \A q \in Stoppers : Progress(q)'
  BY DEF StartSpawn
<1> QED
  BY <1>1, <1>2, <1>3

LEMMA RunEndsKept ==
  ASSUME IInv, RunEnds
  PROVE  IInv'
<1> USE DEF IInv, Places, Resumes, Before, Owned, NoLateStart, Progress, Gone, Nobody
<1>1. Flags'
  BY DEF Flags, RunEnds
<1>2. Places' /\ Resumes' /\ Before' /\ NoLateStart'
  BY DEF RunEnds
<1>3. ~raced' => Owned' /\ \A q \in Stoppers : Progress(q)'
  BY DEF RunEnds
<1> QED
  BY <1>1, <1>2, <1>3

LEMMA processMessageKept ==
  ASSUME IInv, processMessage
  PROVE  IInv'
<1> USE DEF IInv, Places, Resumes, Before, Owned, NoLateStart, Progress, Gone, Nobody
<1>1. Flags'
  BY DEF Flags, processMessage
<1>2. Places' /\ Resumes' /\ Before' /\ NoLateStart'
  BY DEF processMessage
<1>3. ~raced' => Owned' /\ \A q \in Stoppers : Progress(q)'
  BY DEF processMessage
<1> QED
  BY <1>1, <1>2, <1>3

LEMMA ReadFailsKept ==
  ASSUME IInv, ReadFails
  PROVE  IInv'
<1>1. Flags'
  <2>1. Flags
    BY DEF IInv
  <2>2. /\ ssl' = ssl /\ ok' = ok /\ has' = has /\ spinning' = spinning
        /\ iocStopped' = iocStopped /\ listed' = listed /\ writing' = writing /\ connStopped' = connStopped
        /\ closed' = closed /\ stopping' = stopping /\ unheard' = unheard /\ overlap' = overlap
        /\ lost' = lost /\ raced' = raced /\ entangled' = entangled
    BY DEF ReadFails
  <2>3. posted' \in BOOLEAN /\ reading' \in BOOLEAN
    BY <2>1 DEF Flags, ReadFails
  <2> QED
    BY <2>1, <2>2, <2>3 DEF Flags
<1> USE DEF IInv, Places, Resumes, Before, Owned, NoLateStart, Progress, Gone, Nobody
<1>2. Places' /\ Resumes' /\ Before' /\ NoLateStart'
  BY DEF ReadFails
<1>3. ~raced' => Owned' /\ \A q \in Stoppers : Progress(q)'
  BY DEF ReadFails
<1> QED
  BY <1>1, <1>2, <1>3

LEMMA WriteFailsKept ==
  ASSUME IInv, WriteFails
  PROVE  IInv'
<1>1. Flags'
  <2>1. Flags
    BY DEF IInv
  <2>2. /\ ssl' = ssl /\ ok' = ok /\ has' = has /\ spinning' = spinning
        /\ iocStopped' = iocStopped /\ listed' = listed /\ reading' = reading /\ connStopped' = connStopped
        /\ closed' = closed /\ stopping' = stopping /\ unheard' = unheard /\ overlap' = overlap
        /\ lost' = lost /\ raced' = raced /\ entangled' = entangled
    BY DEF WriteFails
  <2>3. posted' \in BOOLEAN /\ writing' \in BOOLEAN
    BY <2>1 DEF Flags, WriteFails
  <2> QED
    BY <2>1, <2>2, <2>3 DEF Flags
<1> USE DEF IInv, Places, Resumes, Before, Owned, NoLateStart, Progress, Gone, Nobody
<1>2. Places' /\ Resumes' /\ Before' /\ NoLateStart'
  BY DEF WriteFails
<1>3. ~raced' => Owned' /\ \A q \in Stoppers : Progress(q)'
  BY DEF WriteFails
<1> QED
  BY <1>1, <1>2, <1>3

LEMMA ReadStopsKept ==
  ASSUME IInv, ReadStops
  PROVE  IInv'
<1>1. Flags'
  <2>1. Flags
    BY DEF IInv
  <2>2. /\ ssl' = ssl /\ ok' = ok /\ has' = has /\ spinning' = spinning
        /\ iocStopped' = iocStopped /\ posted' = posted /\ listed' = listed /\ writing' = writing
        /\ connStopped' = connStopped /\ closed' = closed /\ stopping' = stopping /\ unheard' = unheard
        /\ overlap' = overlap /\ lost' = lost /\ raced' = raced /\ entangled' = entangled
    BY DEF ReadStops
  <2>3. reading' \in BOOLEAN
    BY <2>1 DEF Flags, ReadStops
  <2> QED
    BY <2>1, <2>2, <2>3 DEF Flags
<1> USE DEF IInv, Places, Resumes, Before, Owned, NoLateStart, Progress, Gone, Nobody
<1>2. Places' /\ Resumes' /\ Before' /\ NoLateStart'
  BY DEF ReadStops
<1>3. ~raced' => Owned' /\ \A q \in Stoppers : Progress(q)'
  BY DEF ReadStops
<1> QED
  BY <1>1, <1>2, <1>3

LEMMA HandlerThrowsKept ==
  ASSUME IInv, HandlerThrows
  PROVE  IInv'
<1> USE DEF IInv, Places, Resumes, Before, Owned, NoLateStart, Progress, Gone, Nobody
<1>1. Flags'
  BY DEF Flags, HandlerThrows
<1>2. Places' /\ Resumes' /\ Before' /\ NoLateStart'
  BY DEF HandlerThrows
<1>3. ~raced' => Owned' /\ \A q \in Stoppers : Progress(q)'
  BY DEF HandlerThrows
<1> QED
  BY <1>1, <1>2, <1>3

LEMMA ManagerTestsKept ==
  ASSUME IInv, ManagerTests
  PROVE  IInv'
<1> USE DEF IInv, Places, Resumes, Before, Owned, NoLateStart, Progress, Gone, Nobody
<1>1. Flags'
  BY DEF Flags, ManagerTests
<1>2. Places' /\ Resumes' /\ Before' /\ NoLateStart'
  BY DEF ManagerTests
<1>3. ~raced' => Owned' /\ \A q \in Stoppers : Progress(q)'
  BY DEF ManagerTests
<1> QED
  BY <1>1, <1>2, <1>3

LEMMA ManagerSleepsKept ==
  ASSUME IInv, ManagerSleeps
  PROVE  IInv'
<1> USE DEF IInv, Places, Resumes, Before, Owned, NoLateStart, Progress, Gone, Nobody
<1>1. Flags'
  BY DEF Flags, ManagerSleeps
<1>2. Places' /\ Resumes' /\ Before' /\ NoLateStart'
  BY DEF ManagerSleeps
<1>3. ~raced' => Owned' /\ \A q \in Stoppers : Progress(q)'
  BY DEF ManagerSleeps
<1> QED
  BY <1>1, <1>2, <1>3

LEMMA ManagerHangsKept ==
  ASSUME IInv, ManagerHangs
  PROVE  IInv'
<1> USE DEF IInv, Places, Resumes, Before, Owned, NoLateStart, Progress, Gone, Nobody
<1>1. Flags'
  BY DEF Flags, ManagerHangs
<1>2. Places' /\ Resumes' /\ Before' /\ NoLateStart'
  BY DEF ManagerHangs
<1>3. ~raced' => Owned' /\ \A q \in Stoppers : Progress(q)'
  BY DEF ManagerHangs
<1> QED
  BY <1>1, <1>2, <1>3

LEMMA ManagerResumesKept ==
  ASSUME IInv, ManagerResumes
  PROVE  IInv'
<1> USE DEF IInv, Places, Resumes, Before, Owned, NoLateStart, Progress, Gone, Nobody
<1>1. Flags'
  BY DEF Flags, ManagerResumes
<1>2. Places' /\ Resumes' /\ Before' /\ NoLateStart'
  BY DEF ManagerResumes
<1>3. ~raced' => Owned' /\ \A q \in Stoppers : Progress(q)'
  BY DEF ManagerResumes
<1> QED
  BY <1>1, <1>2, <1>3

----------------------------------------------------------------------------
(* The whole.                                                              *)

LEMMA Starts == Init => IInv
<1> SUFFICES ASSUME Init PROVE IInv
  OBVIOUS
<1>1. Flags
  BY Zenon DEF Init, Flags
<1>2. pc["main"] = "create" /\ pc["client"] = "none"
  BY DEF Init, Stoppers
<1>3. Places
  BY <1>2 DEF Init, Places, Stoppers, Joined, StopSteps, ClientStop, MainSteps, ClientSteps
<1>4. Resumes /\ Before /\ NoLateStart /\ Owned /\ \A p \in Stoppers : Progress(p)
  BY <1>2 DEF Init, Resumes, Before, Owned, NoLateStart, Progress, Nobody, Gone,
     Stoppers, Joined, StopSteps, ClientStop, MainSteps, ClientSteps
<1> QED
  BY <1>1, <1>3, <1>4 DEF IInv

LEMMA Steps == IInv /\ [Next]_vars => IInv'
<1> SUFFICES ASSUME IInv, [Next]_vars
  PROVE  IInv'
  OBVIOUS
<1>1. ASSUME Main PROVE IInv'
  BY <1>1, CreateKept, CreateFailsKept, SpinKept, SpinReturnsKept, JoinClientKept DEF Main
<1>2. ASSUME Interrupt \/ Terminate PROVE IInv'
  BY <1>2, InterruptKept, TerminateKept
<1>3. ASSUME ClientThread \/ handshakeTls PROVE IInv'
  BY <1>3, connectKept, handshakeTlsKept, startConnectionKept, PushConnectionKept,
     TakeStopKept, RunReturnsKept DEF ClientThread
<1>4. ASSUME NEW p \in Stoppers, Stop(p) PROVE IInv'
  BY <1>4, StopIocKept, stopAllConnectionsKept, CancelKept, SearchConnectionKept,
     EraseConnectionKept, StopConnectionThreadKept, StopManagersKept, JoinManagersKept,
     JoinConnectionKept, DestroyConnectionKept DEF Stop
<1>5. ASSUME ConnectionSteps PROVE IInv'
  BY <1>5, HandshakeKept, HandshakeFailsKept, StartFlagKept, StartSpawnKept, RunEndsKept
     DEF ConnectionSteps
<1>6. ASSUME Network PROVE IInv'
  BY <1>6, processMessageKept, ReadFailsKept, WriteFailsKept, ReadStopsKept,
     HandlerThrowsKept DEF Network
<1>7. ASSUME Manager \/ ManagerHangs \/ ManagerResumes PROVE IInv'
  BY <1>7, ManagerTestsKept, ManagerSleepsKept, ManagerHangsKept, ManagerResumesKept
     DEF Manager
<1>8. CASE UNCHANGED vars
  BY <1>8 DEF vars, IInv, Flags, Places, Resumes, Before, Owned, NoLateStart, Progress, Nobody,
     Gone, mainVars, clientVars, stopperVars, handlerVars, managerVars, closeVars, historyVars,
     haltVars
<1>9. ASSUME NEW p \in Stoppers, JoinInner(p) \/ CloseConnection(p) PROVE IInv'
  BY <1>9, JoinInnerKept, CloseConnectionKept
<1> QED
  BY <1>1, <1>2, <1>3, <1>4, <1>5, <1>6, <1>7, <1>8, <1>9 DEF Next

\* Everything keeps its type.
THEOREM TypeCorrect == Spec => []TypeOK
BY Starts, Steps, Typed, PTL DEF Spec

\* When the client thread has ended nothing of a connection is left, whichever thread
\* stopped it, at whatever moment, unless one erased it while the other was going through
\* the list (ConnectionManager, Client::onStopThread).
THEOREM NoneIsLeftBehind == Spec => []NothingLeftBehind
BY Starts, Steps, Follows, PTL DEF Spec
=============================================================================
