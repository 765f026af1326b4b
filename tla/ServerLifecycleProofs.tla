------------------------ MODULE ServerLifecycleProofs ------------------------
(***************************************************************************)
(* Proofs about ServerLifecycle, for any number of workers, any signals    *)
(* delivered to any threads at any statement, any number of datagrams.     *)
(***************************************************************************)
EXTENDS ServerLifecycle, TLAPS

\* log() always leads to a label.
LEMMA AfterLogType == \A l : AfterLog(l) \in Label
BY DEF AfterLog, Label, MainLabel, StopLabel, ServerLabel, WorkerLabel,
       HandlerLabel

\* The initial state has the types.
LEMMA TypeInit == Init => TypeOK
<1> SUFFICES ASSUME Init PROVE TypeOK
  OBVIOUS
<1>1. pc \in [Ctx -> Label]
  <2>1. {"m_setup", "off", "idle"} \subseteq Label
    BY DEF Label, MainLabel, HandlerLabel
  <2> QED BY <2>1 DEF Init
<1>2. /\ ret \in [Ctx -> {"h_ret", "m_return", "m_members"}]
      /\ on \in [Deliveries -> Ctx \cup {NoCtx}]
      /\ thr \in [Deliveries -> Threads \cup {NoCtx}]
      /\ joiner \in [Pool -> Ctx \cup {NoCtx}]
  BY DEF Init
<1>3. /\ g_running \in BOOLEAN /\ g_server \in BOOLEAN /\ running_ \in BOOLEAN
      /\ server_socket_ \in BOOLEAN /\ fd_open \in BOOLEAN
  BY DEF Init
<1>4. datagrams \in 0..MaxDatagrams
  BY LifecycleAssumption DEF Init, LifecycleAssumption
<1> QED BY <1>1, <1>2, <1>3, <1>4 DEF Init, TypeOK

\* No step of any context breaks a type.
LEMMA TypeStep == TypeOK /\ [Next]_vars => TypeOK'
<1> SUFFICES ASSUME TypeOK, [Next]_vars PROVE TypeOK'
  OBVIOUS
<1> USE LifecycleAssumption, AfterLogType
    DEF TypeOK, Goto, CallStop, At, Runs, Pool, Ctx, Threads,
        flow, signals, flags, sock, handles, locks, env
<1> DEFINE L == Label
<1>0. /\ MainLabel \subseteq L /\ StopLabel \subseteq L /\ ServerLabel \subseteq L
      /\ WorkerLabel \subseteq L /\ HandlerLabel \subseteq L /\ "exit" \in L
  BY DEF Label
<1>1. CASE MainStep
  <2>1. CASE SetupSignalHandlers
    BY <2>1, <1>0 DEF SetupSignalHandlers, MainLabel
  <2>2. CASE MakeServer
    BY <2>2, <1>0 DEF MakeServer, MainLabel
  <2>3. CASE InitializeOk
    BY <2>3, <1>0 DEF InitializeOk, MainLabel
  <2>4. CASE InitializeFails
    BY <2>4, <1>0 DEF InitializeFails, MainLabel
  <2>5. CASE StartEnter
    BY <2>5, <1>0 DEF StartEnter, MainLabel
  <2>6. CASE RaiseRunning
    BY <2>6, <1>0 DEF RaiseRunning, MainLabel
  <2>7. CASE \E w \in Workers : SpawnWorker(w)
    BY <2>7, <1>0 DEF SpawnWorker, WorkerLabel
  <2>8. CASE SpawnServer \/ SpawnFails
    BY <2>8, <1>0 DEF SpawnServer, SpawnFails, MainLabel, ServerLabel
  <2>9. CASE LeaveMainLoop \/ DestroyServer \/ DestroyMembers
    BY <2>9, <1>0 DEF LeaveMainLoop, DestroyServer, DestroyMembers, StopLabel
  <2> QED BY <1>1, <2>1, <2>2, <2>3, <2>4, <2>5, <2>6, <2>7, <2>8,
           <2>9
     DEF MainStep
<1>2. CASE ServerStep \/ ServerDatagram
  BY <1>2, <1>0
  DEF ServerStep, ServerDatagram, ServerCheck, ServerRecv, ServerWoken,
      ServerSend, RecvError, ServerLabel
<1>3. CASE Arrival
  BY <1>3, <1>0 DEF Arrival, Deliver, Entry, ThreadOf, HandlerLabel, ServerLabel
<1>4. CASE \E w \in Workers : WorkerCheck(w)
  BY <1>4, <1>0 DEF WorkerCheck, WorkerLabel
<1>5. ASSUME NEW h \in Deliveries, HandlerStep(h) PROVE TypeOK'
  <2>1. CASE HandlerLowerFlag(h)
    BY <2>1, <1>0 DEF HandlerLowerFlag, HandlerLabel
  <2>2. CASE HandlerStop(h)
    BY <2>2, <1>0 DEF HandlerStop, HandlerLabel, StopLabel
  <2>3. CASE HandlerReturn(h)
    BY <2>3, <1>0 DEF HandlerReturn, HandlerLabel
  <2> QED BY <1>5, <2>1, <2>2, <2>3 DEF HandlerStep
<1>6. ASSUME NEW c \in Ctx, Log(c) PROVE TypeOK'
  BY <1>6 DEF Log, LogAcquire, LogRelease, LogSkip
<1>7. ASSUME NEW c \in Ctx, Stop(c) PROVE TypeOK'
  <2>1. CASE StopCheck(c)
    BY <2>1, <1>0 DEF StopCheck, StopLabel, HandlerLabel, MainLabel
  <2>2. CASE StopLowerFlag(c)
    BY <2>2, <1>0 DEF StopLowerFlag, StopLabel
  <2>3. CASE StopTestSocket(c)
    BY <2>3, <1>0 DEF StopTestSocket, StopLabel
  <2>4. CASE StopCloseSocket(c)
    BY <2>4, <1>0 DEF StopCloseSocket, StopLabel
  <2>5. CASE StopUnsetSocket(c)
    BY <2>5, <1>0 DEF StopUnsetSocket, StopLabel
  <2>6. ASSUME NEW t \in Pool, JoinBegin(c, t) \/ JoinEnd(c, t)
        PROVE  TypeOK'
    BY <2>6 DEF JoinBegin, JoinEnd
  <2>7. ASSUME NEW t \in Pool, JoinThrows(c, t) PROVE TypeOK'
    BY <2>7, <1>0 DEF JoinThrows, MainLabel
  <2>8. CASE JoinsDone(c)
    BY <2>8, <1>0 DEF JoinsDone, StopLabel
  <2>9. CASE StopLockConnections(c) \/ StopReturn(c)
    BY <2>9, <1>0 DEF StopLockConnections, StopReturn, StopLabel,
                      HandlerLabel, MainLabel
  <2> QED BY <1>7, <2>1, <2>2, <2>3, <2>4, <2>5, <2>6, <2>7, <2>8,
           <2>9
     DEF Stop
<1>8. CASE UNCHANGED vars
  BY <1>8 DEF vars
<1> QED
  BY <1>1, <1>2, <1>3, <1>4, <1>5, <1>6, <1>7, <1>8 DEF Next, Gone, Sleep

\* Every variable keeps its type under every step of every context.
THEOREM TypeCorrect == Spec => []TypeOK
BY TypeInit, TypeStep, PTL DEF Spec
-----------------------------------------------------------------------------
\* The contexts are of three disjoint kinds.
LEMMA Kinds ==
  /\ Main \in Ctx /\ Pool \subseteq Ctx /\ Deliveries \subseteq Ctx
  /\ Server \in Pool /\ Workers \subseteq Pool /\ Server \notin Workers
  /\ Main \notin Pool /\ Main \notin Deliveries /\ NoCtx \notin Ctx
  /\ \A t \in Pool : t \notin Deliveries
  /\ \A c \in Ctx : c = Main \/ c = Server \/ c \in Workers \/ c \in Deliveries
BY LifecycleAssumption DEF LifecycleAssumption, Ctx, Pool, Threads

\* Initially nothing runs and nothing is open.
LEMMA InvInit == Init => IInv
<1> SUFFICES ASSUME Init PROVE IInv
  OBVIOUS
<1>1. TypeOK
  BY TypeInit
<1>2. OwnCode
  BY Kinds DEF Init, OwnCode, MainLabel, HandlerLabel, StopLabel
<1>3. HolderLogs /\ AskedFirst
  BY Kinds DEF Init, HolderLogs, AskedFirst, StopLabel
<1>4. FreshUntilFlag /\ SocketWhileAsked /\ ServingUnlessAsked /\ AllSpawned
  BY Kinds DEF Init, FreshUntilFlag, SocketWhileAsked, ServingUnlessAsked,
               AllSpawned, Bound, Started
<1>5. LiveIsJoinable /\ ExitIsClean
  BY Kinds DEF Init, LiveIsJoinable, ExitIsClean, Live
<1> QED BY <1>1, <1>2, <1>3, <1>4, <1>5 DEF IInv

\* No step of any context breaks the invariant.
LEMMA InvStep == IInv /\ [Next]_vars => IInv'
<1> SUFFICES ASSUME IInv, [Next]_vars PROVE IInv'
  OBVIOUS
<1>t. TypeOK /\ TypeOK'
  BY TypeStep DEF IInv
<1> USE <1>t, Kinds
    DEF IInv, OwnCode, HolderLogs, AskedFirst, FreshUntilFlag,
        SocketWhileAsked, ServingUnlessAsked, AllSpawned, LiveIsJoinable,
        ExitIsClean, Live, Started, Bound, Unstarted, TypeOK,
        MainLabel, StopLabel, ServerLabel, WorkerLabel, HandlerLabel, LogPoint,
        Goto, CallStop, At, Runs,
        flow, signals, flags, sock, handles, locks, env
<1>1. CASE MainStep
  <2>1. CASE SetupSignalHandlers
    BY <2>1 DEF SetupSignalHandlers
  <2>2. CASE MakeServer
    BY <2>2 DEF MakeServer
  <2>3. CASE InitializeOk
    BY <2>3 DEF InitializeOk
  <2>4. CASE InitializeFails
    BY <2>4 DEF InitializeFails
  <2>5. CASE StartEnter
    BY <2>5 DEF StartEnter
  <2>6. CASE RaiseRunning
    BY <2>6 DEF RaiseRunning
  <2>7. CASE \E w \in Workers : SpawnWorker(w)
    BY <2>7 DEF SpawnWorker
  <2>8. CASE SpawnServer
    <3>1. pc[Main] = "m_spawn" /\ pc'[Main] = "m_started" /\ pc'[Server] = "s_hello"
      BY <2>8 DEF SpawnServer
    <3>2. \A c \in Ctx : c # Main /\ c # Server => pc'[c] = pc[c]
      BY <2>8 DEF SpawnServer
    <3>3. OwnCode' /\ FreshUntilFlag' /\ AskedFirst'
      BY <2>8, <3>1, <3>2 DEF SpawnServer
    <3>4. HolderLogs'
      BY <2>8, <3>1, <3>2 DEF SpawnServer, Filtered, DebugPoint
    <3>5. SocketWhileAsked' /\ ServingUnlessAsked'
      BY <2>8, <3>1, <3>2, LifecycleAssumption DEF SpawnServer, Pool
    <3>6. AllSpawned'
      BY <2>8, <3>1, <3>2 DEF SpawnServer, Pool
    <3>7. LiveIsJoinable' /\ ExitIsClean'
      BY <2>8, <3>1, <3>2 DEF SpawnServer, Pool
    <3> QED BY <3>3, <3>4, <3>5, <3>6, <3>7
  <2>9. CASE SpawnFails
    BY <2>9 DEF SpawnFails
  <2>10. CASE LeaveMainLoop
    BY <2>10 DEF LeaveMainLoop
  <2>11. CASE DestroyServer
    BY <2>11 DEF DestroyServer
  <2>12. CASE DestroyMembers
    BY <2>12 DEF DestroyMembers
  <2> QED BY <1>1, <2>1, <2>2, <2>3, <2>4, <2>5, <2>6, <2>7, <2>8, <2>9, <2>10, <2>11, <2>12 DEF MainStep
<1>2. CASE ServerStep \/ ServerDatagram
  <2>1. CASE ServerCheck
    BY <2>1 DEF ServerCheck, RecvError
  <2>2. CASE ServerRecv
    BY <2>2 DEF ServerRecv, RecvError
  <2>3. CASE ServerWoken
    BY <2>3 DEF ServerWoken, RecvError
  <2>4. CASE ServerSend
    BY <2>4 DEF ServerSend, RecvError
  <2>5. CASE ServerDatagram
    BY <2>5 DEF ServerDatagram, RecvError
  <2> QED BY <1>2, <2>1, <2>2, <2>3, <2>4, <2>5 DEF ServerStep
<1>3. ASSUME NEW h \in Deliveries, NEW c \in Ctx, Deliver(h, c) PROVE IInv'
  BY <1>3 DEF Deliver, Entry
<1>4. ASSUME NEW w \in Workers, WorkerCheck(w) PROVE IInv'
  BY <1>4 DEF WorkerCheck
<1>5. ASSUME NEW h \in Deliveries, HandlerStep(h) PROVE IInv'
  <2>1. CASE HandlerLowerFlag(h)
    BY <2>1 DEF HandlerLowerFlag
  <2>2. CASE HandlerStop(h)
    BY <2>2 DEF HandlerStop
  <2>3. CASE HandlerReturn(h)
    BY <2>3 DEF HandlerReturn
  <2> QED BY <1>5, <2>1, <2>2, <2>3 DEF HandlerStep
<1>6. ASSUME NEW c \in Ctx, Log(c) PROVE IInv'
  <2>1. CASE LogAcquire(c)
    BY <2>1 DEF LogAcquire, AfterLog
  <2>2. CASE LogRelease(c)
    BY <2>2 DEF LogRelease, AfterLog
  <2>3. CASE LogSkip(c)
    BY <2>3 DEF LogSkip, AfterLog
  <2> QED BY <1>6, <2>1, <2>2, <2>3 DEF Log
<1>7. ASSUME NEW c \in Ctx, Stop(c) PROVE IInv'
  <2>1. CASE StopCheck(c)
    BY <2>1 DEF StopCheck
  <2>2. CASE StopLowerFlag(c)
    BY <2>2 DEF StopLowerFlag
  <2>3. CASE StopTestSocket(c)
    BY <2>3 DEF StopTestSocket
  <2>4. CASE StopCloseSocket(c)
    BY <2>4 DEF StopCloseSocket
  <2>5. CASE StopUnsetSocket(c)
    BY <2>5 DEF StopUnsetSocket
  <2>6. CASE JoinsDone(c)
    BY <2>6 DEF JoinsDone, AtJoin
  <2>7. CASE StopLockConnections(c)
    BY <2>7 DEF StopLockConnections
  <2>8. CASE StopReturn(c)
    BY <2>8 DEF StopReturn
  <2>9. ASSUME NEW t \in Pool, JoinBegin(c, t) PROVE IInv'
    BY <2>9 DEF JoinBegin, AtJoin
  <2>10. ASSUME NEW t \in Pool, JoinEnd(c, t) PROVE IInv'
    BY <2>10 DEF JoinEnd, AtJoin
  <2>11. ASSUME NEW t \in Pool, JoinThrows(c, t) PROVE IInv'
    BY <2>11 DEF JoinThrows, AtJoin
  <2> QED BY <1>7, <2>1, <2>2, <2>3, <2>4, <2>5, <2>6, <2>7, <2>8, <2>9, <2>10, <2>11 DEF Stop
<1>8. CASE UNCHANGED vars
  BY <1>8 DEF vars, Filtered
<1> QED
  BY <1>1, <1>2, <1>3, <1>4, <1>5, <1>6, <1>7, <1>8 DEF Next, Arrival, Gone, Sleep

\* The invariant holds for any number of workers and signals.
THEOREM Invariant == Spec => []IInv
BY InvInit, InvStep, PTL DEF Spec

\* A process that exits leaves no thread running and none unjoined, whatever
\* signals interrupted which threads and however the calls of stop() overlap.
THEOREM ExitQuiescence == Spec => []ExitMeansQuiescent
<1>1. IInv => ExitMeansQuiescent
  BY DEF IInv, ExitMeansQuiescent, ExitIsClean, LiveIsJoinable
<1> QED BY <1>1, Invariant, PTL

\* main() sleeps in its loop without a shutdown request only while the daemon
\* serves: flag, socket, server thread and every worker are up.
THEOREM Serving == Spec => []UpMeansServing
<1>1. IInv => UpMeansServing
  BY DEF IInv, UpMeansServing, SocketWhileAsked, ServingUnlessAsked, AllSpawned,
         LiveIsJoinable, Live, Started, Bound
<1> QED BY <1>1, Invariant, PTL
=============================================================================
