---------------------------- MODULE ShutdownProofs ----------------------------
(***************************************************************************)
(* Proofs about the shutdown of ServerLifecycle when only main() takes the *)
(* signals: handlers then form one stack on main(), at most one call of    *)
(* stop() is past `running_ = false', and the destructors find nothing;    *)
(* and about the Logger's mutex when signals land anywhere but on its      *)
(* holder.  Each theorem assumes as little about the signals as it needs.  *)
(***************************************************************************)
EXTENDS ServerLifecycleProofs, ServerLifecycleRefinement, WellFoundedInduction

-----------------------------------------------------------------------------
(* Where signals land.                                                     *)

\* The kernel runs the handlers on main()'s thread, at any statement of it.
OnMain == Targets \subseteq {Main}

\* And none while start() creates the threads.
Undisturbed == OnMain /\ "m_spawn" \in Masked

\* And it can create them all.
Sheltered == Undisturbed /\ ~SpawnMayFail

-----------------------------------------------------------------------------
(* At most one call of stop() is past its assignment: signals on main().   *)

\* The handlers that run, and main() below them.
Active == {h \in Deliveries : on[h] # NoCtx}
Stack  == {Main} \cup Active

\* Every handler runs on main()'s thread, on top of a context that runs too.
Stacked ==
  \A h \in Deliveries :
    /\ pc[h] \in {"idle", "done"} <=> on[h] = NoCtx
    /\ on[h] # NoCtx => on[h] \in Stack /\ thr[h] = Main

\* They are one stack: only one of them is on top, and no handlers sit on one
\* another in a circle.
OneTop == \A c, d \in Stack : OnTop(c) /\ OnTop(d) => c = d
Rooted ==
  \A S \in SUBSET Active : S # {} => \E h \in S : \A k \in S : on[k] # h

\* Past the test of running_ in stop(), and past the assignment to it.
InStop(c) == pc[c] \in StopLabel \ {"st_check"}
Closing   == \E c \in Ctx : pc[c] \in StopBody

\* No call of stop() passes its test before start() raised running_.
Entered == \A c \in Ctx : InStop(c) => pc[Main] \notin Unstarted

\* The labels of a handler that has stop() still before it, or behind it.
Quiet == {"h_flag", "h_test", "st_check", "h_ret"}

\* The handlers above the one call of stop() that is past `running_ = false'
\* have found, or will find, that there is nothing to do.
Above(d, A) ==
  /\ d \notin A
  /\ \A h \in Deliveries : h \in A <=> on[h] \in A \cup {d}
  /\ \A h \in A : pc[h] \in Quiet
  /\ \A c \in Stack \ (A \cup {d}) : ~OnTop(c)

\* Such a call has lowered running_, and whoever is not above it waits below it.
Alone == \A d \in Ctx : pc[d] \in StopBody =>
                          ~running_ /\ \E A \in SUBSET Deliveries : Above(d, A)

\* The field and the descriptor agree but inside the close() of stop().
Socket ==
  /\ pc[Main] \in Bound \cap Unstarted => server_socket_ /\ fd_open
  /\ running_ \/ (\E c \in Ctx : InStop(c)) =>
       server_socket_ = fd_open \/ \E d \in Ctx : pc[d] = "st_unset"
  /\ \A c \in Ctx : pc[c] = "st_close2" => fd_open
  /\ \A c \in Ctx : pc[c] = "st_unset" => ~fd_open

StopInv == Stacked /\ OneTop /\ Rooted /\ Entered /\ StopOnce /\ Alone /\ Socket

-----------------------------------------------------------------------------
\* The stack is made of contexts, and a handler on it is not on the floor.
LEMMA StackType ==
  /\ Active \subseteq Deliveries /\ Stack \subseteq Ctx /\ Main \in Stack
  /\ \A h \in Active : on[h] # NoCtx
BY Kinds DEF Active, Stack

\* Where main() runs, no handler does.
LEMMA MainAlone ==
  ASSUME Stacked, OneTop, Rooted, OnTop(Main)
  PROVE  Active = {}
<1> SUFFICES ASSUME Active # {} PROVE FALSE
  OBVIOUS
<1>1. PICK h \in Active : \A k \in Active : on[k] # h
  BY DEF Rooted
<1>2. OnTop(h)
  BY <1>1, Kinds DEF OnTop, Active
<1>3. h = Main
  BY <1>2, StackType DEF OneTop, Stack
<1> QED BY <1>3, Kinds DEF Active

\* Steps that leave the handlers where they are, do not raise or lower
\* running_, and take no call of stop() past its assignment to it.
Walk ==
  /\ UNCHANGED <<on, thr, running_>>
  /\ \A d \in Ctx :
       /\ pc'[d] \in {"idle", "done"} <=> pc[d] \in {"idle", "done"}
       /\ pc'[d] \in StopBody => pc[d] \in StopBody
       /\ InStop(d)' => InStop(d) \/ running_
       /\ d \in Deliveries /\ pc[d] \in Quiet /\ ~running_ => pc'[d] \in Quiet
  /\ pc'[Main] \in Unstarted => pc[Main] \in Unstarted

\* Steps that do not touch the socket either.
DryWalk ==
  /\ Walk /\ UNCHANGED sock
  /\ \A d \in Ctx :
       /\ pc'[d] = "st_close2" => pc[d] = "st_close2"
       /\ pc'[d] = "st_unset" <=> pc[d] = "st_unset"
  /\ pc'[Main] \in Bound \cap Unstarted => pc[Main] \in Bound \cap Unstarted

\* A walk changes nothing that the invariant says of the handlers and calls.
LEMMA WalkKeeps ==
  ASSUME IInv, StopInv, Walk
  PROVE  (Stacked /\ OneTop /\ Rooted /\ Entered /\ StopOnce /\ Alone)'
<1>1. Active' = Active /\ Stack' = Stack /\ \A c : OnTop(c)' <=> OnTop(c)
  BY DEF Walk, Active, Stack, OnTop
<1>2. Stacked'
  BY <1>1, Kinds DEF StopInv, Stacked, Walk
<1>3. OneTop' /\ Rooted'
  BY <1>1 DEF StopInv, OneTop, Rooted, Walk
<1>4. Entered'
  BY DEF StopInv, Entered, Walk, IInv, FreshUntilFlag
<1>5. StopOnce'
  BY DEF StopInv, StopOnce, Walk
<1>6. Alone'
  <2> SUFFICES ASSUME NEW d \in Ctx, (pc[d] \in StopBody)'
               PROVE  (~running_ /\ \E A \in SUBSET Deliveries : Above(d, A))'
    BY DEF Alone
  <2>1. ~running_
    BY DEF StopInv, Alone, Walk
  <2>2. PICK A \in SUBSET Deliveries : Above(d, A)
    BY DEF StopInv, Alone, Walk
  <2>3. Above(d, A)'
    BY <1>1, <2>1, <2>2, Kinds DEF Above, Walk
  <2> QED BY <2>1, <2>3 DEF Walk
<1> QED BY <1>2, <1>3, <1>4, <1>5, <1>6

\* A dry walk keeps all of it.
LEMMA DryWalkKeeps ==
  ASSUME IInv, StopInv, DryWalk
  PROVE  StopInv'
<1>1. Socket'
  BY Kinds DEF StopInv, Socket, DryWalk, Walk, sock
<1> QED BY <1>1, WalkKeeps DEF DryWalk, StopInv

\* Of the steps of main(), start() and the two threads, all but the opening of
\* the socket and the raising of running_ are dry walks.
LEMMA MainStopInv ==
  ASSUME IInv, IInv', StopInv, MainStep
  PROVE  StopInv'
<1> USE Kinds
    DEF IInv, OwnCode, TypeOK, MainLabel, StopLabel, ServerLabel, WorkerLabel,
        HandlerLabel, StopBody, InStop, Unstarted, Bound, Started, Quiet, Goto,
        CallStop, At, Runs, flow, signals, flags, sock, handles, locks, env
<1>1. CASE InitializeOk \/ InitializeFails
  <2>1. Walk
    BY <1>1 DEF InitializeOk, InitializeFails, Walk
  <2>2. Socket'
    BY <1>1 DEF InitializeOk, InitializeFails, Socket, StopInv, Entered,
                FreshUntilFlag
  <2> QED BY <2>1, <2>2, WalkKeeps DEF StopInv
<1>2. CASE RaiseRunning
  <2>1. \A c \in Ctx : ~InStop(c)
    BY <1>2 DEF RaiseRunning, StopInv, Entered
  <2>2. \A c \in Ctx : ~InStop(c)'
    BY <1>2, <2>1 DEF RaiseRunning
  <2>3. Stacked' /\ OneTop' /\ Rooted'
    BY <1>2 DEF RaiseRunning, StopInv, Stacked, OneTop, Rooted, Active, Stack,
                OnTop
  <2>4. Entered' /\ StopOnce' /\ Alone'
    BY <2>2 DEF Entered, StopOnce, Alone
  <2>5. Socket'
    BY <1>2, <2>2 DEF RaiseRunning, StopInv, Socket
  <2> QED BY <2>3, <2>4, <2>5 DEF StopInv
<1>3. ASSUME SetupSignalHandlers \/ MakeServer \/ StartEnter
               \/ (\E w \in Workers : SpawnWorker(w)) \/ SpawnServer
               \/ SpawnFails \/ LeaveMainLoop \/ DestroyServer \/ DestroyMembers
      PROVE  DryWalk
  <2>1. CASE SetupSignalHandlers \/ MakeServer
    BY <2>1 DEF SetupSignalHandlers, MakeServer, DryWalk, Walk
  <2>2. CASE StartEnter
    BY <2>2 DEF StartEnter, FreshUntilFlag, DryWalk, Walk
  <2>3. CASE \E w \in Workers : SpawnWorker(w)
    BY <2>3 DEF SpawnWorker, DryWalk, Walk
  <2>4. CASE SpawnServer \/ SpawnFails
    BY <2>4 DEF SpawnServer, SpawnFails, DryWalk, Walk
  <2>5. CASE LeaveMainLoop \/ DestroyServer \/ DestroyMembers
    BY <2>5 DEF LeaveMainLoop, DestroyServer, DestroyMembers, DryWalk, Walk
  <2> QED BY <1>3, <2>1, <2>2, <2>3, <2>4, <2>5
<1> QED BY <1>1, <1>2, <1>3, DryWalkKeeps DEF MainStep

\* The server thread and the workers only take dry walks.
LEMMA ThreadWalk ==
  ASSUME IInv, ServerStep \/ ServerDatagram \/ \E w \in Workers : WorkerCheck(w)
  PROVE  DryWalk
<1> USE Kinds
    DEF IInv, OwnCode, TypeOK, MainLabel, StopLabel, ServerLabel, WorkerLabel,
        HandlerLabel, StopBody, InStop, Unstarted, Bound, Started, Quiet, Goto,
        At, Runs, flow, signals, flags, sock, handles, locks, env, DryWalk, Walk
<1>1. CASE ServerStep
  BY <1>1 DEF ServerStep, ServerCheck, ServerRecv, ServerWoken, ServerSend,
              RecvError
<1>2. CASE ServerDatagram
  BY <1>2 DEF ServerDatagram
<1>3. CASE \E w \in Workers : WorkerCheck(w)
  BY <1>3 DEF WorkerCheck
<1> QED BY <1>1, <1>2, <1>3

\* So do the calls of log().
LEMMA LogWalk ==
  ASSUME IInv, NEW c \in Ctx, Log(c)
  PROVE  DryWalk
<1> USE Kinds
    DEF IInv, OwnCode, TypeOK, HolderLogs, MainLabel, StopLabel, ServerLabel,
        WorkerLabel, HandlerLabel, LogPoint, StopBody, InStop, Unstarted, Bound,
        Started, Quiet, Goto, Runs, flow, signals, flags, sock, handles, locks,
        env, DryWalk, Walk
<1>1. CASE LogAcquire(c)
  BY <1>1 DEF LogAcquire
<1>2. CASE LogRelease(c)
  BY <1>2 DEF LogRelease, AfterLog
<1>3. CASE LogSkip(c)
  BY <1>3 DEF LogSkip, AfterLog
<1> QED BY <1>1, <1>2, <1>3 DEF Log

\* Of the steps of stop(), the assignment to running_ and the three steps that
\* close the socket are the others.
LEMMA StopWalk ==
  ASSUME IInv, NEW c \in Ctx,
         \/ StopCheck(c) \/ JoinsDone(c) \/ StopLockConnections(c)
         \/ StopReturn(c)
         \/ \E t \in Pool : JoinBegin(c, t) \/ JoinEnd(c, t) \/ JoinThrows(c, t)
  PROVE  DryWalk
<1> USE Kinds
    DEF IInv, OwnCode, TypeOK, MainLabel, StopLabel, ServerLabel, WorkerLabel,
        HandlerLabel, StopBody, InStop, Unstarted, Bound, Started, Quiet, Goto,
        At, AtJoin, Runs, flow, signals, flags, sock, handles, locks, env,
        DryWalk, Walk
<1>1. CASE StopCheck(c)
  BY <1>1 DEF StopCheck
<1>2. CASE JoinsDone(c)
  BY <1>2 DEF JoinsDone
<1>3. CASE StopLockConnections(c)
  BY <1>3 DEF StopLockConnections
<1>4. CASE StopReturn(c)
  BY <1>4 DEF StopReturn
<1>5. ASSUME NEW t \in Pool, JoinBegin(c, t) \/ JoinEnd(c, t) PROVE DryWalk
  BY <1>5 DEF JoinBegin, JoinEnd
<1>6. ASSUME NEW t \in Pool, JoinThrows(c, t) PROVE DryWalk
  BY <1>6 DEF JoinThrows
<1> QED BY <1>1, <1>2, <1>3, <1>4, <1>5, <1>6

\* The call of stop() that lowers running_ is the only one to do so: any other
\* would be above it and know, or below it and wait.
LEMMA LowerFlagInv ==
  ASSUME IInv, StopInv, NEW c \in Ctx, StopLowerFlag(c)
  PROVE  StopInv'
<1>1. /\ pc[c] = "st_flag" /\ pc' = [pc EXCEPT ![c] = "st_close"] /\ OnTop(c)
      /\ running_' = FALSE /\ UNCHANGED <<on, thr, server_socket_, fd_open>>
  BY DEF StopLowerFlag, At, Runs, Goto, signals, sock
<1>2. c \in Stack
  BY <1>1, Kinds DEF IInv, OwnCode, ServerLabel, WorkerLabel, StopInv, Stacked,
                     Stack, Active
<1>3. \A d \in Ctx : pc[d] \notin StopBody
  <2> SUFFICES ASSUME NEW d \in Ctx, pc[d] \in StopBody PROVE FALSE
    OBVIOUS
  <2>1. PICK A \in SUBSET Deliveries : Above(d, A)
    BY DEF StopInv, Alone
  <2>2. c \notin A \cup {d}
    BY <1>1, <2>1 DEF Above, StopBody, Quiet
  <2> QED BY <1>1, <1>2, <2>1, <2>2 DEF Above
<1>4. pc[Main] \notin Unstarted
  BY <1>1 DEF StopInv, Entered, InStop, StopLabel
<1>5. pc' \in [Ctx -> Label] /\ pc'[c] = "st_close"
      /\ \A d \in Ctx : d # c => pc'[d] = pc[d]
  BY <1>1, TypeStep DEF IInv, TypeOK, StopLabel, Label
<1>6. Stacked' /\ OneTop' /\ Rooted'
  BY <1>1, <1>5, Kinds DEF StopInv, Stacked, OneTop, Rooted, Active, Stack, OnTop
<1>7. Entered'
  BY <1>4, <1>5, Kinds DEF Entered, Unstarted
<1>8. StopOnce'
  BY <1>3, <1>5 DEF StopOnce
<1>9. Alone'
  <2>1. Above(c, {})'
    <3>1. \A d \in Stack : d # c => ~OnTop(d)
      BY <1>1, <1>2 DEF StopInv, OneTop
    <3>2. \A h \in Deliveries : on[h] # c
      BY <1>1 DEF OnTop
    <3> QED BY <1>1, <3>1, <3>2 DEF Above, Stack, Active, OnTop
  <2>2. \A d \in Ctx : pc'[d] \in StopBody => d = c
    BY <1>3, <1>5
  <2> QED BY <1>1, <2>1, <2>2 DEF Alone
<1>10. Socket'
  <2>1. server_socket_ = fd_open
    BY <1>1, <1>3 DEF StopInv, Socket, InStop, StopLabel, StopBody
  <2>2. pc'[Main] \notin Unstarted
    BY <1>4, <1>5, Kinds DEF Unstarted
  <2>3. \A d \in Ctx : pc'[d] \notin {"st_close2", "st_unset"}
    BY <1>3, <1>5 DEF StopBody, StopLabel
  <2> QED BY <1>1, <2>1, <2>2, <2>3 DEF Socket
<1> QED BY <1>6, <1>7, <1>8, <1>9, <1>10 DEF StopInv

\* The three steps that close the socket are walks.
LEMMA CloseInv ==
  ASSUME IInv, StopInv, NEW c \in Ctx,
         StopTestSocket(c) \/ StopCloseSocket(c) \/ StopUnsetSocket(c)
  PROVE  StopInv'
<1>1. Walk
  BY Kinds
  DEF StopTestSocket, StopCloseSocket, StopUnsetSocket, IInv, OwnCode, TypeOK,
      MainLabel, StopLabel, ServerLabel, WorkerLabel, HandlerLabel, StopBody,
      InStop, Unstarted, Quiet, Goto, At, Runs, signals, flags, Walk
<1>2. \A d \in Ctx : d # c => pc'[d] = pc[d] /\ pc[d] \notin StopBody
  BY DEF StopTestSocket, StopCloseSocket, StopUnsetSocket, IInv, TypeOK, Goto, At,
         Runs, StopInv, StopOnce, StopBody, StopLabel
<1>3. pc'[Main] \notin Unstarted
  BY <1>1 DEF StopTestSocket, StopCloseSocket, StopUnsetSocket, At, StopInv,
              Entered, InStop, StopLabel, Walk
<1>4. Socket'
  <2>1. CASE StopTestSocket(c)
    BY <2>1, <1>2, <1>3
    DEF StopTestSocket, At, Goto, StopInv, Socket, InStop, StopBody, StopLabel,
        IInv, TypeOK, flags, sock
  <2>2. CASE StopCloseSocket(c)
    BY <2>2, <1>2, <1>3
    DEF StopCloseSocket, At, Goto, StopInv, Socket, StopBody, StopLabel, IInv,
        TypeOK
  <2>3. CASE StopUnsetSocket(c)
    BY <2>3, <1>2, <1>3
    DEF StopUnsetSocket, At, Goto, StopInv, Socket, StopBody, StopLabel, IInv,
        TypeOK
  <2> QED BY <2>1, <2>2, <2>3
<1> QED BY <1>1, <1>4, WalkKeeps DEF StopInv

\* The code of the handler moves by dry walks until it returns.
LEMMA HandlerWalk ==
  ASSUME IInv, NEW h \in Deliveries, HandlerLowerFlag(h) \/ HandlerStop(h)
  PROVE  DryWalk
BY Kinds
DEF HandlerLowerFlag, HandlerStop, IInv, OwnCode, TypeOK, MainLabel, StopLabel,
    ServerLabel, WorkerLabel, HandlerLabel, StopBody, InStop, Unstarted, Bound,
    Started, Quiet, Goto, CallStop, At, Runs, flow, signals, flags, sock,
    DryWalk, Walk

\* A handler that returns was on top; what it sat on is on top again.
LEMMA ReturnInv ==
  ASSUME IInv, StopInv, NEW h \in Deliveries, HandlerReturn(h)
  PROVE  StopInv'
<1>1. /\ pc[h] = "h_ret" /\ OnTop(h) /\ h \in Active /\ h \in Ctx /\ h # Main
      /\ on' = [on EXCEPT ![h] = NoCtx] /\ UNCHANGED <<running_, sock>>
  BY Kinds DEF HandlerReturn, At, Runs, StopInv, Stacked, Active, flags, sock
<1>2. /\ pc'[h] = "done" /\ on'[h] = NoCtx /\ thr'[h] = NoCtx
      /\ \A d \in Ctx : d # h => pc'[d] = pc[d]
      /\ \A k \in Deliveries : k # h =>
           on'[k] = on[k] /\ thr'[k] = thr[k] /\ on[k] # h
  BY <1>1 DEF HandlerReturn, Goto, IInv, TypeOK, OnTop
<1>3. Active' = Active \ {h} /\ Stack' = Stack \ {h}
  BY <1>1, <1>2 DEF Active, Stack
<1>4. \A c \in Ctx : c # on[h] => (OnTop(c)' <=> OnTop(c))
  BY <1>1, <1>2, Kinds DEF OnTop
<1>5. Stacked'
  BY <1>2, <1>3, Kinds DEF StopInv, Stacked
<1>6. OneTop'
  <2> SUFFICES ASSUME NEW c \in Stack', NEW d \in Stack', OnTop(c)', OnTop(d)'
               PROVE  c = d
    BY DEF OneTop
  <2>1. ~OnTop(c) /\ ~OnTop(d)
    BY <1>1, <1>3, StackType DEF StopInv, OneTop, Stack
  <2> QED BY <1>3, <1>4, <2>1, StackType
<1>7. Rooted'
  BY <1>2, <1>3, StackType DEF StopInv, Rooted
<1>8. Entered' /\ StopOnce'
  BY <1>1, <1>2, Kinds DEF StopInv, Entered, StopOnce, InStop, StopLabel, StopBody
<1>9. Alone'
  <2> SUFFICES ASSUME NEW d \in Ctx, (pc[d] \in StopBody)'
               PROVE  (~running_ /\ \E A \in SUBSET Deliveries : Above(d, A))'
    BY DEF Alone
  <2>1. d # h /\ pc[d] \in StopBody
    BY <1>2 DEF StopBody, StopLabel
  <2>2. ~running_
    BY <2>1 DEF StopInv, Alone
  <2>3. PICK A \in SUBSET Deliveries : Above(d, A)
    BY <2>1 DEF StopInv, Alone
  <2>4. h \in A
    BY <1>1, <2>1, <2>3, StackType DEF Above, Stack
  <2>5. Above(d, A \ {h})'
    <3>1. \A k \in Deliveries : k \in A \ {h} <=> on'[k] \in (A \ {h}) \cup {d}
      BY <1>2, <2>1, <2>3, <2>4, Kinds DEF Above
    <3>2. \A k \in A \ {h} : pc'[k] \in Quiet
      BY <1>2, <2>3, Kinds DEF Above
    <3>3. \A c \in Stack' \ ((A \ {h}) \cup {d}) : ~OnTop(c)'
      BY <1>3, <1>4, <2>3, <2>4, StackType DEF Above
    <3> QED BY <2>3, <3>1, <3>2, <3>3 DEF Above
  <2> QED BY <1>1, <2>2, <2>5
<1>10. Socket'
  BY <1>1, <1>2, Kinds DEF StopInv, Socket, InStop, StopLabel, sock
<1> QED BY <1>5, <1>6, <1>7, <1>8, <1>9, <1>10 DEF StopInv

\* A new handler starts on top of the stack.
LEMMA DeliverInv ==
  ASSUME OnMain, IInv, StopInv, NEW h \in Deliveries, NEW c \in Ctx, Deliver(h, c)
  PROVE  StopInv'
<1>1. /\ pc[h] = "idle" /\ OnTop(c) /\ h \in Ctx /\ h # Main /\ h # c
      /\ on' = [on EXCEPT ![h] = c] /\ UNCHANGED <<running_, sock>>
      /\ ThreadOf(c) = Main /\ pc[c] \notin {"idle", "done"}
  BY Kinds DEF Deliver, Runs, OnMain, flags, sock
<1>2. c \in Stack
  BY <1>1, Kinds DEF StopInv, Stacked, Stack, Active, ThreadOf
<1>3. /\ pc'[h] \in {"h_flag", "h_ret"} /\ on'[h] = c /\ thr'[h] = Main
      /\ \A k \in Deliveries : k # h => on'[k] = on[k] /\ thr'[k] = thr[k]
  BY <1>1 DEF Deliver, Entry, IInv, TypeOK
<1>4. \A d \in Ctx : d # h => pc'[d] = pc[d]
  <2>1. pc[c] # "s_blocked"
    BY <1>2, StackType, Kinds DEF Stack, IInv, OwnCode, MainLabel, StopLabel,
                                  HandlerLabel
  <2> QED BY <1>1, <2>1 DEF Deliver, IInv, TypeOK
<1>5. h \notin Stack /\ \A k \in Deliveries : on[k] # h
  BY <1>1, Kinds DEF StopInv, Stacked, Stack, Active
<1>6. Active' = Active \cup {h} /\ Stack' = Stack \cup {h}
  BY <1>1, <1>3, Kinds DEF Active, Stack
<1>7. \A d \in Ctx : OnTop(d)' <=> d # c /\ OnTop(d)
  BY <1>1, <1>3, Kinds DEF OnTop, Deliver, StopInv, Stacked
<1>8. Stacked'
  BY <1>2, <1>3, <1>4, <1>6, Kinds DEF StopInv, Stacked
<1>9. OneTop'
  BY <1>1, <1>2, <1>6, <1>7, StackType DEF StopInv, OneTop
<1>10. Rooted'
  <2> SUFFICES ASSUME NEW S \in SUBSET (Active'), S # {}
               PROVE  \E k \in S : \A j \in S : on'[j] # k
    BY DEF Rooted
  <2>1. CASE h \in S
    BY <2>1, <1>1, <1>3, <1>5, <1>6, StackType
  <2>2. CASE h \notin S
    BY <2>2, <1>3, <1>6, StackType DEF StopInv, Rooted
  <2> QED BY <2>1, <2>2
<1>11. Entered' /\ StopOnce'
  BY <1>1, <1>3, <1>4, Kinds
  DEF StopInv, Entered, StopOnce, InStop, StopLabel, StopBody
<1>12. Alone'
  <2> SUFFICES ASSUME NEW d \in Ctx, (pc[d] \in StopBody)'
               PROVE  (~running_ /\ \E A \in SUBSET Deliveries : Above(d, A))'
    BY DEF Alone
  <2>1. d # h /\ pc[d] \in StopBody
    BY <1>3, <1>4 DEF StopBody, StopLabel
  <2>2. ~running_
    BY <2>1 DEF StopInv, Alone
  <2>3. PICK A \in SUBSET Deliveries : Above(d, A)
    BY <2>1 DEF StopInv, Alone
  <2>4. c \in A \cup {d} /\ h \notin A
    BY <1>1, <1>2, <2>3, StackType DEF Above, Quiet
  <2>5. Above(d, A \cup {h})'
    <3>1. \A k \in Deliveries :
            k \in A \cup {h} <=> on'[k] \in (A \cup {h}) \cup {d}
      BY <1>3, <1>5, <2>1, <2>3, <2>4 DEF Above
    <3>2. \A k \in A \cup {h} : pc'[k] \in Quiet
      BY <1>3, <1>4, <2>3, Kinds DEF Above, Quiet
    <3>3. \A b \in Stack' \ ((A \cup {h}) \cup {d}) : ~OnTop(b)'
      BY <1>6, <1>7, <2>3, StackType DEF Above
    <3> QED BY <2>1, <2>3, <3>1, <3>2, <3>3 DEF Above
  <2> QED BY <1>1, <2>2, <2>5
<1>13. Socket'
  BY <1>1, <1>3, <1>4, Kinds DEF StopInv, Socket, InStop, StopLabel, sock
<1> QED BY <1>8, <1>9, <1>10, <1>11, <1>12, <1>13 DEF StopInv

\* Initially no handler runs and nothing is open.
LEMMA StopInit == Init => StopInv
<1> SUFFICES ASSUME Init PROVE StopInv
  OBVIOUS
<1>1. Active = {} /\ Stack = {Main}
  BY DEF Init, Active, Stack
<1>2. \A c \in Ctx : pc[c] \in {"m_setup", "off", "idle"}
  BY DEF Init
<1>3. Stacked /\ OneTop /\ Rooted
  BY <1>1, Kinds DEF Init, Stacked, OneTop, Rooted
<1>4. Entered /\ StopOnce /\ Alone
  BY <1>2 DEF Entered, StopOnce, Alone, InStop, StopBody, StopLabel
<1>5. Socket
  BY <1>2, Kinds DEF Socket, Init, Bound, Started
<1> QED BY <1>3, <1>4, <1>5 DEF StopInv

\* No step breaks the invariant when main() takes the signals.
LEMMA StopStep ==
  ASSUME OnMain, IInv, StopInv, [Next]_vars
  PROVE  StopInv'
<1>1. IInv'
  BY InvStep
<1>2. CASE MainStep
  BY <1>1, <1>2, MainStopInv
<1>3. CASE ServerStep \/ ServerDatagram \/ \E w \in Workers : WorkerCheck(w)
  BY <1>3, ThreadWalk, DryWalkKeeps
<1>4. CASE Arrival
  BY <1>4, DeliverInv DEF Arrival
<1>5. ASSUME NEW h \in Deliveries, HandlerStep(h) PROVE StopInv'
  BY <1>5, HandlerWalk, DryWalkKeeps, ReturnInv DEF HandlerStep
<1>6. ASSUME NEW c \in Ctx, Log(c) PROVE StopInv'
  BY <1>6, LogWalk, DryWalkKeeps
<1>7. ASSUME NEW c \in Ctx, Stop(c) PROVE StopInv'
  BY <1>7, StopWalk, DryWalkKeeps, LowerFlagInv, CloseInv DEF Stop
<1>8. CASE UNCHANGED vars
  <2>1. DryWalk
    BY <1>8 DEF vars, flow, signals, flags, sock, DryWalk, Walk, InStop
  <2> QED BY <2>1, DryWalkKeeps
<1> QED BY <1>2, <1>3, <1>4, <1>5, <1>6, <1>7, <1>8 DEF Next, Gone, Sleep

\* The stack, the one call of stop() on it and the socket stay as described.
THEOREM StopInvariant ==
  ASSUME OnMain
  PROVE  Spec => [](IInv /\ StopInv)
<1>1. Init => IInv /\ StopInv
  BY InvInit, StopInit
<1>2. (IInv /\ StopInv) /\ [Next]_vars => (IInv /\ StopInv)'
  BY InvStep, StopStep
<1> HIDE DEF IInv, StopInv
<1> QED BY <1>1, <1>2, PTL DEF Spec

\* However many signals main() takes and wherever, in start(), in log() or in
\* stop() itself: at most one call of stop() is past `running_ = false'.
THEOREM StopIsExclusive ==
  ASSUME OnMain
  PROVE  Spec => []StopOnce
<1>1. StopInv => StopOnce
  BY DEF StopInv
<1> QED BY <1>1, StopInvariant, PTL

\* And no call of stop() closes a descriptor that another has closed.
THEOREM ClosedOnce ==
  ASSUME OnMain
  PROVE  Spec => []ClosesOnce
<1>1. StopInv => ClosesOnce
  BY DEF StopInv, Socket, ClosesOnce
<1> QED BY <1>1, StopInvariant, PTL

-----------------------------------------------------------------------------
(* No thread is left unjoined, when no signal lands on main() while it     *)
(* creates them.                                                           *)

\* start() creates its threads undisturbed; before it there is none.
Startup ==
  /\ pc[Main] = "m_spawn" => Active = {} /\ running_
  /\ pc[Main] \in Unstarted => joinable = {}

\* Labels of stop() after its joins.
Cleared == {"st_conn", "st_log2", "st_unlock"}

\* Threads are left to join only while the server runs or is being closed.
Joining ==
  /\ ~running_ => joinable = {} \/ Closing
  /\ \A c \in Ctx : pc[c] = "st_join_w" => Server \notin joinable
  /\ \A c \in Ctx : pc[c] \in Cleared => joinable = {}
  /\ \A t \in Pool : joiner[t] # NoCtx =>
       pc[joiner[t]] \in {"st_join_s", "st_join_w"} /\ t \in Joins(joiner[t])
  /\ pc[Main] = "m_members" => joinable = {}

JoinInv == Startup /\ Joining /\ NeverAborts

\* A set of natural numbers has a least one.
LEMMA LeastNumber ==
  ASSUME NEW S \in SUBSET Nat, S # {}
  PROVE  \E m \in S : \A k \in S : m <= k
<1> DEFINE R == OpToRel(<, Nat)
<1>1. IsWellFoundedOn(R, Nat)
  BY NatLessThanWellFounded
<1>2. \A x, y \in Nat : x < y => <<x, y>> \in R
  BY DEF OpToRel
<1> HIDE DEF R
<1>3. PICK x \in S : \A y \in S : ~ (<<y, x>> \in R)
  BY <1>1, WFMin
<1>4. ASSUME NEW y \in S PROVE x <= y
  <2>1. ~ (y < x)
    BY <1>2, <1>3
  <2> QED BY <2>1
<1> QED BY <1>4

\* What a call of stop() comes to next is a thread that is left to join, and
\* one only; it comes to nothing when none of the kind is left.
LEMMA JoinsFirst ==
  ASSUME TypeOK, NEW c \in Ctx
  PROVE  /\ Joins(c) \subseteq joinable
         /\ \A s, t \in Joins(c) : s = t
         /\ pc[c] = "st_join_s" /\ Joins(c) = {} => Server \notin joinable
         /\ pc[c] = "st_join_w" /\ Joins(c) = {} => joinable \cap Workers = {}
<1>1. Joins(c) \subseteq joinable
  BY DEF Joins
<1>2. pc[c] = "st_join_s" /\ Joins(c) = {} => Server \notin joinable
  BY DEF Joins
<1>3. ASSUME NEW s \in Joins(c), NEW t \in Joins(c) PROVE s = t
  <2>1. CASE pc[c] = "st_join_s"
    BY <1>3, <2>1 DEF Joins
  <2>2. CASE pc[c] # "st_join_s"
    <3>1. s \in 1..thread_pool_size_ /\ t \in 1..thread_pool_size_
          /\ s \in joinable /\ t \in joinable
          /\ s \notin 1..(t - 1) /\ t \notin 1..(s - 1)
      BY <1>3, <2>2 DEF Joins, Workers
    <3> QED BY <3>1, LifecycleAssumption DEF LifecycleAssumption
  <2> QED BY <2>1, <2>2
<1>4. ASSUME pc[c] = "st_join_w", joinable \cap Workers # {}
      PROVE  Joins(c) # {}
  <2>1. joinable \cap Workers \in SUBSET Nat
    BY LifecycleAssumption DEF LifecycleAssumption, Workers
  <2>2. PICK m \in joinable \cap Workers : \A k \in joinable \cap Workers : m <= k
    BY <1>4, <2>1, LeastNumber
  <2>3. \A v \in 1..(m - 1) : v \notin joinable
    <3> SUFFICES ASSUME NEW v \in 1..(m - 1), v \in joinable PROVE FALSE
      OBVIOUS
    <3>1. v \in Workers /\ v < m /\ v \in Nat /\ m \in Nat
      BY <2>1, LifecycleAssumption DEF LifecycleAssumption, Workers
    <3> QED BY <2>2, <3>1
  <2> QED BY <1>4, <2>2, <2>3 DEF Joins
<1> QED BY <1>1, <1>2, <1>3, <1>4

\* Whoever calls stop() is on main()'s thread.
LEMMA StopOnMain ==
  ASSUME IInv, Stacked, NEW c \in Ctx, pc[c] \in StopLabel
  PROVE  c \in Stack /\ ThreadOf(c) = Main
BY Kinds DEF IInv, OwnCode, StopLabel, ServerLabel, WorkerLabel, Stacked, Stack,
             Active, ThreadOf

\* No join in stop() fails: the caller is none of the threads to join, and no
\* other call is joining one.
LEMMA JoinsSucceed ==
  ASSUME IInv, StopInv, JoinInv, NEW c \in Ctx, AtJoin(c), NEW t \in Joins(c)
  PROVE  ~JoinFails(c, t)
<1>1. t \in Pool
  BY JoinsFirst DEF IInv, TypeOK
<1>2. ThreadOf(c) # t
  BY <1>1, StopOnMain, Kinds DEF AtJoin, StopLabel, StopInv
<1>3. joiner[t] \in {NoCtx, c}
  BY <1>1 DEF JoinInv, Joining, StopInv, StopOnce, AtJoin, StopBody, StopLabel,
              IInv, TypeOK
<1> QED BY <1>2, <1>3 DEF JoinFails

\* Steps that leave the handles alone and move no call of stop() past a join.
HandleWalk ==
  /\ UNCHANGED <<running_, joinable, joiner>> /\ proc' # "aborted"
  /\ \A d \in Ctx :
       /\ pc[d] \in StopBody => pc'[d] \in StopBody
       /\ pc[d] \in {"st_join_s", "st_join_w"} => pc'[d] = pc[d]
       /\ pc'[d] = "st_join_w" => pc[d] = "st_join_w"
       /\ pc'[d] \in Cleared => pc[d] \in Cleared
  /\ pc'[Main] = "m_spawn" => pc[Main] = "m_spawn" /\ Active' \subseteq Active
  /\ pc'[Main] = "m_members" => pc[Main] = "m_members"
  /\ pc'[Main] \in Unstarted => pc[Main] \in Unstarted

\* Such a step breaks no part of the invariant.
LEMMA HandleWalkKeeps ==
  ASSUME IInv, JoinInv, HandleWalk
  PROVE  JoinInv'
<1>1. Startup' /\ NeverAborts'
  BY DEF JoinInv, Startup, NeverAborts, HandleWalk
<1>2. Closing => Closing'
  BY DEF Closing, HandleWalk
<1>3. \A t \in Pool : joiner'[t] # NoCtx =>
        /\ pc'[joiner'[t]] \in {"st_join_s", "st_join_w"}
        /\ t \in Joins(joiner[t])'
  <2> SUFFICES ASSUME NEW t \in Pool, joiner[t] # NoCtx
               PROVE  /\ pc'[joiner[t]] \in {"st_join_s", "st_join_w"}
                      /\ t \in Joins(joiner[t])'
    BY DEF HandleWalk
  <2>1. joiner[t] \in Ctx
    BY DEF IInv, TypeOK
  <2>2. /\ pc[joiner[t]] \in {"st_join_s", "st_join_w"}
        /\ t \in Joins(joiner[t])
    BY DEF JoinInv, Joining
  <2>3. pc'[joiner[t]] = pc[joiner[t]]
    BY <2>1, <2>2 DEF HandleWalk
  <2> QED BY <2>2, <2>3 DEF Joins, HandleWalk
<1>4. Joining'
  BY <1>2, <1>3 DEF JoinInv, Joining, HandleWalk, Cleared
<1> QED BY <1>1, <1>4 DEF JoinInv

\* The stack is main() alone wherever main() moves.
LEMMA MainMovesAlone ==
  ASSUME StopInv, OnTop(Main)
  PROVE  Active = {} /\ Stack = {Main}
BY MainAlone DEF StopInv, Stack

\* The steps of main(), start() and the threads.
LEMMA MainJoinInv ==
  ASSUME IInv, StopInv, JoinInv, MainStep
  PROVE  JoinInv'
<1>1. OnTop(Main)
  BY DEF MainStep, SetupSignalHandlers, MakeServer, InitializeOk,
         InitializeFails, StartEnter, RaiseRunning, SpawnWorker, SpawnServer,
         SpawnFails, LeaveMainLoop, DestroyServer, DestroyMembers, At, Runs
<1>2. Active = {} /\ Stack = {Main}
  BY <1>1, MainMovesAlone
<1>3. \A c \in Ctx : pc[c] \in StopBody => ~running_
  BY DEF StopInv, Alone
<1>4. CASE RaiseRunning
  <2>1. \A c \in Ctx : ~InStop(c)
    BY <1>4 DEF RaiseRunning, StopInv, Entered, At, Unstarted
  <2>2. pc'[Main] = "m_spawn" /\ \A c \in Ctx : ~InStop(c)'
    BY <1>4, <2>1, Kinds DEF RaiseRunning, IInv, TypeOK, Goto, InStop, StopLabel
  <2>3. \A t \in Pool : joiner'[t] = NoCtx
    BY <1>4, <2>1 DEF RaiseRunning, JoinInv, Joining, IInv, TypeOK, handles,
                      InStop, StopLabel
  <2>4. Startup' /\ NeverAborts'
    BY <1>2, <1>4, <2>2 DEF RaiseRunning, Startup, JoinInv, NeverAborts, Active,
                            signals, env, Unstarted
  <2>5. Joining'
    BY <1>4, <2>2, <2>3 DEF RaiseRunning, Joining, InStop, StopLabel, Cleared
  <2> QED BY <2>4, <2>5 DEF JoinInv
<1>5. CASE SpawnServer \/ \E w \in Workers : SpawnWorker(w)
  <2>1. running_ /\ \A c \in Ctx : pc[c] \notin StopBody
    BY <1>3, <1>5 DEF SpawnServer, SpawnWorker, JoinInv, Startup, At
  <2>2. /\ \A c \in Ctx : pc'[c] \notin StopBody
        /\ pc'[Main] \in {"m_spawn", "m_started"}
    BY <1>5, <2>1, Kinds DEF SpawnServer, SpawnWorker, IInv, TypeOK, Goto, At,
                             StopBody, StopLabel
  <2>3. \A t \in Pool : joiner'[t] = NoCtx
    BY <1>5, <2>1 DEF SpawnServer, SpawnWorker, JoinInv, Joining, IInv, TypeOK,
                      StopBody, StopLabel
  <2>4. Startup' /\ NeverAborts' /\ running_'
    BY <1>2, <1>5, <2>1, <2>2 DEF SpawnServer, SpawnWorker, Startup, JoinInv,
                                  NeverAborts, Active, signals, flags, env, Unstarted
  <2>5. Joining'
    BY <2>2, <2>3, <2>4 DEF Joining, StopBody, StopLabel, Cleared
  <2> QED BY <2>4, <2>5 DEF JoinInv
<1>6. CASE DestroyMembers
  <2>1. HandleWalk
    BY <1>6 DEF DestroyMembers, JoinInv, Joining, NeverAborts, At, HandleWalk,
                Active, flow, signals, flags, handles
  <2> QED BY <2>1, HandleWalkKeeps
<1>7. ASSUME SetupSignalHandlers \/ MakeServer \/ InitializeOk \/ InitializeFails
               \/ StartEnter \/ SpawnFails \/ LeaveMainLoop \/ DestroyServer
      PROVE  HandleWalk
  <2> USE <1>7, Kinds
      DEF IInv, TypeOK, JoinInv, NeverAborts, Goto, CallStop, At, HandleWalk, Active,
          StopBody, StopLabel, Cleared, Unstarted, flow, signals, flags, handles,
          env
  <2>1. CASE SetupSignalHandlers \/ MakeServer
    BY <2>1 DEF SetupSignalHandlers, MakeServer
  <2>2. CASE InitializeOk \/ InitializeFails
    BY <2>2 DEF InitializeOk, InitializeFails
  <2>3. CASE StartEnter \/ SpawnFails
    BY <2>3 DEF StartEnter, SpawnFails
  <2>4. CASE LeaveMainLoop \/ DestroyServer
    BY <2>4 DEF LeaveMainLoop, DestroyServer
  <2> QED BY <2>1, <2>2, <2>3, <2>4
<1> QED BY <1>4, <1>5, <1>6, <1>7, HandleWalkKeeps DEF MainStep

\* The threads, log(), the code of the handler and the closing of the socket are
\* such steps.
LEMMA ThreadHandleWalk ==
  ASSUME IInv, JoinInv,
         \/ ServerStep \/ ServerDatagram
         \/ \E w \in Workers : WorkerCheck(w)
         \/ \E c \in Ctx : Log(c)
         \/ \E h \in Deliveries : HandlerLowerFlag(h) \/ HandlerStop(h)
         \/ \E c \in Ctx : StopTestSocket(c) \/ StopCloseSocket(c)
                             \/ StopUnsetSocket(c) \/ StopLockConnections(c)
  PROVE  HandleWalk
<1> USE Kinds
    DEF IInv, OwnCode, TypeOK, MainLabel, ServerLabel, WorkerLabel, HandlerLabel,
        JoinInv, NeverAborts, Goto, CallStop, At, Runs, HandleWalk, Active, StopBody,
        StopLabel, Cleared, Unstarted, flow, signals, flags, sock, handles, locks, env
<1>1. CASE ServerStep \/ ServerDatagram
  BY <1>1 DEF ServerStep, ServerDatagram, ServerCheck, ServerRecv, ServerWoken,
              ServerSend, RecvError
<1>2. CASE \E w \in Workers : WorkerCheck(w)
  BY <1>2 DEF WorkerCheck
<1>3. ASSUME NEW c \in Ctx, Log(c) PROVE HandleWalk
  <2>1. CASE LogAcquire(c)
    BY <2>1 DEF LogAcquire
  <2>2. CASE LogRelease(c)
    BY <2>2 DEF LogRelease, HolderLogs, LogPoint, AfterLog
  <2>3. CASE LogSkip(c)
    BY <2>3 DEF LogSkip, LogPoint, AfterLog
  <2> QED BY <1>3, <2>1, <2>2, <2>3 DEF Log
<1>4. ASSUME NEW h \in Deliveries, HandlerLowerFlag(h) \/ HandlerStop(h)
      PROVE  HandleWalk
  BY <1>4 DEF HandlerLowerFlag, HandlerStop
<1>5. ASSUME NEW c \in Ctx, StopTestSocket(c) \/ StopCloseSocket(c)
      PROVE  HandleWalk
  BY <1>5 DEF StopTestSocket, StopCloseSocket
<1>6. ASSUME NEW c \in Ctx, StopUnsetSocket(c) \/ StopLockConnections(c)
      PROVE  HandleWalk
  BY <1>6 DEF StopUnsetSocket, StopLockConnections
<1> QED BY <1>1, <1>2, <1>3, <1>4, <1>5, <1>6

\* Arrivals and returns of handlers; none arrives while start() creates threads.
LEMMA SignalHandleWalk ==
  ASSUME Undisturbed, IInv, StopInv, JoinInv, NEW h \in Deliveries, NEW c \in Ctx,
         Deliver(h, c) \/ HandlerReturn(h)
  PROVE  HandleWalk
<1>1. CASE HandlerReturn(h)
  BY <1>1, Kinds
  DEF HandlerReturn, IInv, TypeOK, JoinInv, NeverAborts, Goto, At, Runs, HandleWalk,
      Active, StopBody, StopLabel, Cleared, Unstarted, flags, handles, env
<1>2. CASE Deliver(h, c)
  <2>1. pc[h] = "idle" /\ ThreadOf(c) = Main /\ pc[c] \notin Masked
        /\ pc[c] \notin {"idle", "done"}
    BY <1>2 DEF Deliver, Undisturbed, OnMain
  <2>2. c \in Stack
    BY <2>1, Kinds DEF StopInv, Stacked, Stack, Active, ThreadOf
  <2>3. pc[Main] # "m_spawn"
    BY <2>1, <2>2 DEF JoinInv, Startup, Stack, Undisturbed
  <2>4. pc[c] # "s_blocked"
    BY <2>2, StackType, Kinds DEF Stack, IInv, OwnCode, MainLabel, StopLabel,
                                  HandlerLabel
  <2>5. \A d \in Ctx : d # h => pc'[d] = pc[d]
    BY <1>2, <2>4 DEF Deliver, IInv, TypeOK
  <2>6. pc'[h] \in {"h_flag", "h_ret"}
    BY <1>2, Kinds DEF Deliver, Entry, IInv, TypeOK
  <2> QED BY <1>2, <2>1, <2>3, <2>5, <2>6, Kinds
          DEF Deliver, HandleWalk, JoinInv, NeverAborts, StopBody, StopLabel, Cleared,
              Unstarted, flags, handles, env
<1> QED BY <1>1, <1>2

\* The joins, and the steps of stop() around them.
LEMMA StopJoinInv ==
  ASSUME IInv, StopInv, JoinInv, NEW c \in Ctx,
         \/ StopCheck(c) \/ StopLowerFlag(c) \/ JoinsDone(c) \/ StopReturn(c)
         \/ \E t \in Pool : JoinBegin(c, t) \/ JoinEnd(c, t) \/ JoinThrows(c, t)
  PROVE  JoinInv'
<1>1. c \in Stack
  BY StopOnMain DEF StopCheck, StopLowerFlag, JoinsDone, StopReturn, JoinBegin,
                    JoinEnd, JoinThrows, At, AtJoin, StopLabel, StopInv
<1>2. pc[Main] # "m_spawn"
  BY <1>1 DEF StopCheck, StopLowerFlag, JoinsDone, StopReturn, JoinBegin,
              JoinEnd, JoinThrows, At, AtJoin, JoinInv, Startup, Stack
<1>3. \A d \in Ctx : pc[c] \in StopBody /\ pc[d] \in StopBody => d = c
  BY DEF StopInv, StopOnce
<1>4. CASE StopCheck(c)
  <2>1. ASSUME c = Main, ~running_ PROVE joinable = {}
    <3>1. Stack = {Main} /\ Active = {}
      BY <1>4, <2>1, MainMovesAlone DEF StopCheck, At, Runs
    <3>2. \A d \in Ctx : pc[d] \notin StopBody
      BY <1>4, <2>1, <3>1, StopOnMain DEF StopCheck, At, StopBody, StopInv
    <3> QED BY <2>1, <3>2 DEF JoinInv, Joining, Closing
  <2>2. Startup' /\ NeverAborts' /\ Closing' = Closing
    BY <1>2, <1>4, Kinds
    DEF StopCheck, JoinInv, Startup, NeverAborts, Closing, Goto, At, IInv, TypeOK,
        StopBody, StopLabel, Unstarted, Active, signals, flags, handles, env
  <2>3. \A d \in Ctx : d # c => pc'[d] = pc[d]
    BY <1>4 DEF StopCheck, Goto, IInv, TypeOK
  <2>4. /\ pc[c] = "st_check"
        /\ pc'[c] \in {"st_log", "h_ret", "m_return", "m_members"}
        /\ pc'[c] = "m_members" => c = Main /\ ~running_
    <3>1. pc[c] = "st_check" /\ pc'[c] = IF running_ THEN "st_log" ELSE ret[c]
      BY <1>4 DEF StopCheck, Goto, At, IInv, TypeOK
    <3>2. /\ ret[c] \in {"h_ret", "m_return", "m_members"}
          /\ c # Main => ret[c] = "h_ret"
      BY <1>1, StackType, Kinds DEF IInv, TypeOK, OwnCode, Stack
    <3> QED BY <3>1, <3>2
  <2>5. UNCHANGED <<running_, joinable, joiner>>
    BY <1>4 DEF StopCheck, flags, handles
  <2>6. \A t \in Pool : joiner'[t] # NoCtx =>
          /\ pc'[joiner'[t]] \in {"st_join_s", "st_join_w"}
          /\ t \in Joins(joiner[t])'
    BY <2>3, <2>4, <2>5 DEF JoinInv, Joining, Joins, IInv, TypeOK
  <2>7. Joining'
    BY <2>1, <2>2, <2>3, <2>4, <2>5, <2>6, Kinds
    DEF JoinInv, Joining, Cleared, StopBody, StopLabel
  <2> QED BY <2>2, <2>7 DEF JoinInv
<1>5. CASE StopLowerFlag(c)
  <2>1. /\ pc[c] = "st_flag" /\ pc'[c] = "st_close"
        /\ \A d \in Ctx : d # c => pc'[d] = pc[d]
        /\ UNCHANGED <<joinable, joiner>>
    BY <1>5 DEF StopLowerFlag, Goto, At, IInv, TypeOK, handles
  <2>2. Startup' /\ NeverAborts' /\ Closing'
    BY <1>2, <1>5, <2>1, Kinds
    DEF StopLowerFlag, JoinInv, Startup, NeverAborts, Closing, StopBody, StopLabel,
        Unstarted, env
  <2>3. \A t \in Pool : joiner'[t] # NoCtx =>
          /\ pc'[joiner'[t]] \in {"st_join_s", "st_join_w"}
          /\ t \in Joins(joiner[t])'
    BY <2>1 DEF JoinInv, Joining, Joins, IInv, TypeOK
  <2>4. Joining'
    BY <2>1, <2>2, <2>3, Kinds DEF JoinInv, Joining, Cleared
  <2> QED BY <2>2, <2>4 DEF JoinInv
<1>6. CASE JoinsDone(c)
  <2>1. /\ AtJoin(c) /\ Joins(c) = {}
        /\ pc'[c] = IF pc[c] = "st_join_s" THEN "st_join_w" ELSE "st_conn"
        /\ \A d \in Ctx : d # c => pc'[d] = pc[d]
        /\ UNCHANGED <<running_, joinable, joiner>>
    BY <1>6 DEF JoinsDone, Goto, IInv, TypeOK, flags, handles
  <2>2. pc[c] \in {"st_join_s", "st_join_w"} /\ pc[c] \in StopBody
    BY <2>1 DEF AtJoin, StopBody, StopLabel
  <2>3. \A t \in Pool : joiner[t] = NoCtx
    BY <1>3, <2>1, <2>2 DEF JoinInv, Joining, IInv, TypeOK, StopBody, StopLabel
  <2>4. CASE pc[c] = "st_join_s"
    <3>1. Server \notin joinable
      BY <2>1, <2>4, JoinsFirst DEF IInv
    <3>2. Startup' /\ NeverAborts' /\ Closing'
      BY <1>2, <1>6, <2>1, <2>4, Kinds
      DEF JoinsDone, JoinInv, Startup, NeverAborts, Closing, StopBody, StopLabel,
          Unstarted, env
    <3>3. Joining'
      BY <1>3, <2>1, <2>2, <2>3, <2>4, <3>1, <3>2, Kinds
      DEF JoinInv, Joining, Cleared, StopBody, StopLabel
    <3> QED BY <3>2, <3>3 DEF JoinInv
  <2>5. CASE pc[c] = "st_join_w"
    <3>1. joinable = {}
      BY <2>1, <2>5, JoinsFirst, Kinds DEF IInv, TypeOK, JoinInv, Joining, Pool
    <3>2. Startup' /\ NeverAborts'
      BY <1>2, <1>6, <2>1, <2>5, <3>1, Kinds
      DEF JoinsDone, JoinInv, Startup, NeverAborts, env
    <3>3. Joining'
      BY <2>1, <2>3, <3>1 DEF Joining
    <3> QED BY <3>2, <3>3 DEF JoinInv
  <2> QED BY <2>2, <2>4, <2>5
<1>7. CASE StopReturn(c)
  <2>1. joinable = {} /\ UNCHANGED <<joinable, joiner>>
    BY <1>7 DEF StopReturn, At, JoinInv, Joining, Cleared, handles
  <2>2. \A t \in Pool : joiner[t] = NoCtx
    BY <2>1, JoinsFirst DEF JoinInv, Joining, IInv, TypeOK
  <2>3. Startup' /\ NeverAborts'
    BY <1>2, <1>7, <2>1, Kinds
    DEF StopReturn, JoinInv, Startup, NeverAborts, Goto, IInv, TypeOK, env
  <2>4. Joining'
    BY <2>1, <2>2 DEF Joining
  <2> QED BY <2>3, <2>4 DEF JoinInv
<1>8. ASSUME NEW t \in Pool, JoinBegin(c, t) PROVE JoinInv'
  <2>1. /\ AtJoin(c) /\ t \in Joins(c) /\ joiner' = [joiner EXCEPT ![t] = c]
        /\ UNCHANGED <<pc, on, running_, joinable, proc>>
    BY <1>8 DEF JoinBegin, flow, signals, flags, env
  <2>2. Startup' /\ NeverAborts' /\ Closing' = Closing
    BY <2>1 DEF JoinInv, Startup, NeverAborts, Closing, Active
  <2>3. ASSUME NEW s \in Pool, joiner'[s] # NoCtx
        PROVE  /\ pc'[joiner'[s]] \in {"st_join_s", "st_join_w"}
               /\ s \in Joins(joiner'[s])
    <3>1. CASE s = t
      BY <2>1, <3>1 DEF AtJoin, IInv, TypeOK
    <3>2. CASE s # t
      BY <2>1, <2>3, <3>2 DEF JoinInv, Joining, IInv, TypeOK
    <3> QED BY <3>1, <3>2
  <2>4. Joining'
    BY <2>1, <2>2, <2>3 DEF JoinInv, Joining, Joins
  <2> QED BY <2>2, <2>4 DEF JoinInv
<1>9. ASSUME NEW t \in Pool, JoinEnd(c, t) PROVE JoinInv'
  <2>1. /\ AtJoin(c) /\ t \in Joins(c) /\ joiner' = [joiner EXCEPT ![t] = NoCtx]
        /\ joinable' = joinable \ {t}
        /\ UNCHANGED <<pc, on, running_, proc>>
    BY <1>9 DEF JoinEnd, flow, signals, flags, env
  <2>2. pc[c] \in StopBody
    BY <2>1 DEF AtJoin, StopBody, StopLabel
  <2>3. \A s \in Pool : joiner'[s] = NoCtx
    <3> SUFFICES ASSUME NEW s \in Pool, s # t, joiner[s] # NoCtx PROVE FALSE
      BY <2>1 DEF IInv, TypeOK
    <3>1. joiner[s] = c
      BY <1>3, <2>2 DEF JoinInv, Joining, IInv, TypeOK, StopBody, StopLabel
    <3>2. s \in Joins(c)
      BY <3>1, Kinds DEF JoinInv, Joining
    <3> QED BY <2>1, <3>2, JoinsFirst DEF IInv
  <2>4. Startup' /\ NeverAborts' /\ Closing'
    BY <2>1, <2>2 DEF JoinInv, Startup, NeverAborts, Closing, Active
  <2>5. Joining'
    BY <2>1, <2>3, <2>4 DEF JoinInv, Joining
  <2> QED BY <2>4, <2>5 DEF JoinInv
<1>10. ASSUME NEW t \in Pool, JoinThrows(c, t) PROVE JoinInv'
  BY <1>10, JoinsSucceed DEF JoinThrows
<1> QED BY <1>4, <1>5, <1>6, <1>7, <1>8, <1>9, <1>10

\* Initially there is no thread.
LEMMA JoinInit == Init => JoinInv
<1> SUFFICES ASSUME Init PROVE JoinInv
  OBVIOUS
<1>1. \A c \in Ctx : pc[c] \in {"m_setup", "off", "idle"}
  BY DEF Init
<1>2. Startup /\ NeverAborts
  BY <1>1, Kinds DEF Init, Startup, NeverAborts
<1>3. Joining
  BY <1>1, Kinds DEF Init, Joining
<1> QED BY <1>2, <1>3 DEF JoinInv

\* No step breaks the invariant when start() creates its threads undisturbed.
LEMMA JoinStep ==
  ASSUME Undisturbed, IInv, StopInv, JoinInv, [Next]_vars
  PROVE  JoinInv'
<1>1. CASE MainStep
  BY <1>1, MainJoinInv
<1>2. CASE \/ ServerStep \/ ServerDatagram
           \/ \E w \in Workers : WorkerCheck(w)
           \/ \E c \in Ctx : Log(c)
           \/ \E h \in Deliveries : HandlerLowerFlag(h) \/ HandlerStop(h)
           \/ \E c \in Ctx : StopTestSocket(c) \/ StopCloseSocket(c)
                               \/ StopUnsetSocket(c) \/ StopLockConnections(c)
  BY <1>2, ThreadHandleWalk, HandleWalkKeeps
<1>3. ASSUME NEW h \in Deliveries, NEW c \in Ctx, Deliver(h, c) \/ HandlerReturn(h)
      PROVE  JoinInv'
  BY <1>3, SignalHandleWalk, HandleWalkKeeps
<1>4. ASSUME NEW c \in Ctx,
             \/ StopCheck(c) \/ StopLowerFlag(c) \/ JoinsDone(c) \/ StopReturn(c)
             \/ \E t \in Pool : JoinBegin(c, t) \/ JoinEnd(c, t) \/ JoinThrows(c, t)
      PROVE  JoinInv'
  BY <1>4, StopJoinInv
<1>5. CASE UNCHANGED vars
  <2>1. HandleWalk
    BY <1>5 DEF vars, flow, signals, flags, handles, env, HandleWalk, JoinInv,
                NeverAborts, Active
  <2> QED BY <2>1, HandleWalkKeeps
<1>6. CASE Arrival
  BY <1>3, <1>6 DEF Arrival
<1>7. ASSUME NEW h \in Deliveries, HandlerStep(h) PROVE JoinInv'
  BY <1>2, <1>3, <1>7, Kinds DEF HandlerStep
<1>8. ASSUME NEW c \in Ctx, Stop(c) PROVE JoinInv'
  BY <1>2, <1>4, <1>8 DEF Stop
<1> QED BY <1>1, <1>2, <1>5, <1>6, <1>7, <1>8 DEF Next, Gone, Sleep

\* Only a server that runs, or is being closed, has threads left to join.
THEOREM JoinInvariant ==
  ASSUME Undisturbed
  PROVE  Spec => [](IInv /\ StopInv /\ JoinInv)
<1>1. Init => IInv /\ StopInv /\ JoinInv
  BY InvInit, StopInit, JoinInit
<1>2. (IInv /\ StopInv /\ JoinInv) /\ [Next]_vars => (IInv /\ StopInv /\ JoinInv)'
  BY InvStep, StopStep, JoinStep DEF Undisturbed
<1> HIDE DEF IInv, StopInv, JoinInv
<1> QED BY <1>1, <1>2, PTL DEF Spec

\* Signals that main() takes outside the creation of the threads never make the
\* process die of std::terminate(): every join finds a thread it may join, and
\* the destructors find every thread joined, also when a thread could not be
\* created and main() unwinds.
THEOREM Graceful ==
  ASSUME Undisturbed
  PROVE  Spec => []NeverAborts
<1>1. JoinInv => NeverAborts
  BY DEF JoinInv
<1> QED BY <1>1, JoinInvariant, PTL

-----------------------------------------------------------------------------
(* The end of the process, when threads can be created.                    *)

\* main() returns only after the shutdown, and its destructors find nothing.
Ending ==
  /\ pc[Main] = "m_return" => ~running_
  /\ pc[Main] = "m_members" => ret[Main] = "m_members"
  /\ ret[Main] = "m_members" =>
       /\ ~running_ /\ joinable = {} /\ \A c \in Ctx : ~InStop(c)
       /\ pc[Main] \in {"st_check", "m_members"}

\* What the contract adds: threads serve while running_ is up, and main()
\* itself leaves its loop only on request.
Keeping ==
  /\ running_ => \A t \in Pool : pc[t] \notin {"s_bye", "w_bye", "exit"}
  /\ running_ /\ pc[Main] # "m_spawn" => \A t \in Pool : pc[t] # "off"
  /\ pc[Main] \in StopLabel /\ ret[Main] = "m_return" => ~g_running

KeepInv == Ending /\ Keeping
\* Steps at which main() neither returns nor calls stop(), and after which no
\* thread or call has got further than running_ lets it.
Returning == {"s_bye", "w_bye", "exit"}
KeepWalk ==
  /\ running_' => running_
  /\ g_running' => g_running
  /\ joinable' \subseteq joinable
  /\ \A d \in Ctx : InStop(d)' => InStop(d) \/ running_
  /\ \A t \in Pool : /\ pc'[t] \in Returning => pc[t] \in Returning \/ ~running_
                     /\ pc'[t] = "off" => pc[t] = "off"
  /\ ret'[Main] = ret[Main]
  /\ pc[Main] \in {"st_check", "m_members"} => pc'[Main] = pc[Main]
  /\ pc'[Main] = "m_return" => pc[Main] = "m_return" \/ ~running_
  /\ pc'[Main] = "m_members" => pc[Main] = "m_members"
  /\ pc'[Main] \in StopLabel => pc[Main] \in StopLabel
  /\ pc[Main] = "m_spawn" => pc'[Main] = "m_spawn"

\* Such a step breaks no part of the invariant.
LEMMA KeepWalkKeeps ==
  ASSUME KeepInv, KeepWalk
  PROVE  KeepInv'
<1>1. Ending'
  BY DEF KeepInv, Ending, KeepWalk
<1>2. Keeping'
  BY DEF KeepInv, Keeping, KeepWalk, Returning
<1> QED BY <1>1, <1>2 DEF KeepInv

\* The steps of main() and start(): the destructor of g_server is entered with
\* nothing to do.
LEMMA MainKeepInv ==
  ASSUME ~SpawnMayFail, IInv, StopInv, JoinInv, KeepInv, MainStep
  PROVE  KeepInv'
<1> USE Kinds
    DEF IInv, TypeOK, Goto, CallStop, At, flow, signals, flags, sock, handles, env
<1>1. OnTop(Main)
  BY DEF MainStep, SetupSignalHandlers, MakeServer, InitializeOk,
         InitializeFails, StartEnter, RaiseRunning, SpawnWorker, SpawnServer,
         SpawnFails, LeaveMainLoop, DestroyServer, DestroyMembers, Runs
<1>2. Stack = {Main} /\ Active = {}
  BY <1>1, MainMovesAlone
<1>3. \A c \in Ctx : InStop(c) => c = Main
  BY <1>2, StopOnMain DEF InStop, StopInv
<1>4. CASE RaiseRunning
  <2>1. pc'[Main] = "m_spawn" /\ \A t \in Pool : pc'[t] = "off"
    BY <1>4 DEF RaiseRunning, FreshUntilFlag, Unstarted
  <2>2. ret'[Main] # "m_members"
    BY <1>4 DEF RaiseRunning, KeepInv, Ending
  <2> QED BY <2>1, <2>2 DEF KeepInv, Ending, Keeping, StopLabel
<1>5. CASE SpawnServer
  <2>1. /\ pc'[Main] = "m_started" /\ ret'[Main] # "m_members"
        /\ running_' = running_ /\ pc'[Server] = "s_hello"
        /\ \A w \in Workers : pc'[w] = pc[w] /\ pc[w] # "off"
    BY <1>5 DEF SpawnServer, KeepInv, Ending
  <2>2. \A w \in Workers : running_ => pc[w] \notin Returning
    BY DEF KeepInv, Keeping, Returning
  <2>3. Ending'
    BY <2>1 DEF Ending
  <2>4. Keeping'
    BY <2>1, <2>2 DEF Keeping, Pool, Returning, StopLabel
  <2> QED BY <2>3, <2>4 DEF KeepInv
<1>6. ASSUME NEW w \in Workers, SpawnWorker(w) PROVE KeepInv'
  <2>1. /\ pc'[Main] = "m_spawn" /\ ret'[Main] # "m_members"
        /\ running_' = running_ /\ pc'[w] = "w_hello"
        /\ \A t \in Pool : t # w => pc'[t] = pc[t]
    BY <1>6 DEF SpawnWorker, KeepInv, Ending
  <2> QED BY <2>1 DEF KeepInv, Ending, Keeping, StopLabel
<1>7. CASE LeaveMainLoop
  <2>1. /\ pc'[Main] = "st_check" /\ ret'[Main] = "m_return" /\ ~g_running'
        /\ running_' = running_ /\ pc[Main] = "m_loop"
        /\ \A t \in Pool : pc'[t] = pc[t]
    BY <1>7 DEF LeaveMainLoop
  <2> QED BY <2>1 DEF KeepInv, Ending, Keeping
<1>8. CASE DestroyServer
  <2>1. /\ pc[Main] = "m_return" /\ pc'[Main] = "st_check"
        /\ ret'[Main] = "m_members" /\ ~running_ /\ ~running_'
        /\ joinable' = joinable /\ \A d \in Ctx : d # Main => pc'[d] = pc[d]
    BY <1>8 DEF DestroyServer, KeepInv, Ending
  <2>2. \A c \in Ctx : ~InStop(c) /\ ~InStop(c)'
    BY <1>3, <2>1 DEF InStop, StopLabel
  <2>3. joinable = {}
    BY <2>1, <2>2 DEF JoinInv, Joining, Closing, InStop, StopBody, StopLabel
  <2> QED BY <2>1, <2>2, <2>3 DEF KeepInv, Ending, Keeping
<1>9. CASE SpawnFails
  BY <1>9 DEF SpawnFails
<1>10. ASSUME SetupSignalHandlers \/ MakeServer \/ InitializeOk \/ InitializeFails
                \/ StartEnter \/ DestroyMembers
       PROVE  KeepWalk
  <2>1. CASE SetupSignalHandlers \/ MakeServer
    BY <2>1 DEF SetupSignalHandlers, MakeServer, KeepWalk, InStop, StopLabel
  <2>2. CASE InitializeOk \/ InitializeFails
    BY <2>2 DEF InitializeOk, InitializeFails, KeepWalk, InStop, StopLabel
  <2>3. CASE StartEnter \/ DestroyMembers
    BY <2>3 DEF StartEnter, DestroyMembers, KeepWalk, InStop, StopLabel
  <2> QED BY <1>10, <2>1, <2>2, <2>3
<1> QED BY <1>4, <1>5, <1>6, <1>7, <1>8, <1>9, <1>10, KeepWalkKeeps DEF MainStep

\* The threads, log(), the handlers and their arrival are such steps.
LEMMA ThreadKeepWalk ==
  ASSUME IInv,
         \/ ServerStep \/ ServerDatagram \/ Arrival
         \/ \E w \in Workers : WorkerCheck(w)
         \/ \E c \in Ctx : Log(c)
         \/ \E h \in Deliveries : HandlerStep(h)
  PROVE  KeepWalk
<1> USE Kinds
    DEF IInv, OwnCode, TypeOK, MainLabel, ServerLabel, WorkerLabel, HandlerLabel,
        Goto, CallStop, At, Runs, KeepWalk, InStop, Returning, StopLabel,
        flow, signals, flags, sock, handles, locks, env
<1>1. CASE ServerStep \/ ServerDatagram
  BY <1>1 DEF ServerStep, ServerDatagram, ServerCheck, ServerRecv, ServerWoken,
              ServerSend, RecvError
<1>2. CASE \E w \in Workers : WorkerCheck(w)
  BY <1>2 DEF WorkerCheck
<1>3. ASSUME NEW c \in Ctx, Log(c) PROVE KeepWalk
  <2>1. CASE LogAcquire(c)
    BY <2>1 DEF LogAcquire
  <2>2. CASE LogRelease(c)
    BY <2>2 DEF LogRelease, HolderLogs, LogPoint, AfterLog, FreshUntilFlag,
                Unstarted
  <2>3. CASE LogSkip(c)
    BY <2>3 DEF LogSkip, LogPoint, AfterLog, Filtered, DebugPoint
  <2> QED BY <1>3, <2>1, <2>2, <2>3 DEF Log
<1>4. ASSUME NEW h \in Deliveries, HandlerStep(h) PROVE KeepWalk
  BY <1>4 DEF HandlerStep, HandlerLowerFlag, HandlerStop, HandlerReturn
<1>5. CASE Arrival
  BY <1>5 DEF Arrival, Deliver, Entry
<1> QED BY <1>1, <1>2, <1>3, <1>4, <1>5

\* stop() in main() returns only after the server was closed.
LEMMA StopKeepInv ==
  ASSUME IInv, StopInv, JoinInv, KeepInv, NEW c \in Ctx, Stop(c)
  PROVE  KeepInv'
<1> USE Kinds
    DEF IInv, OwnCode, TypeOK, MainLabel, ServerLabel, WorkerLabel, HandlerLabel,
        Goto, At, AtJoin, InStop, Returning, StopLabel, flow, flags, sock, handles,
        locks, env
<1>1. CASE StopCheck(c)
  <2>1. CASE c = Main
    <3>1. /\ pc[Main] = "st_check" /\ UNCHANGED <<ret, running_, g_running, joinable>>
          /\ pc'[Main] = IF running_ THEN "st_log" ELSE ret[Main]
          /\ ret[Main] \in {"m_return", "m_members"}
          /\ \A d \in Ctx : d # Main => pc'[d] = pc[d]
      BY <1>1, <2>1 DEF StopCheck
    <3>2. Ending'
      BY <3>1 DEF KeepInv, Ending
    <3>3. Keeping'
      BY <3>1 DEF KeepInv, Keeping
    <3> QED BY <3>2, <3>3 DEF KeepInv
  <2>2. CASE c # Main
    <3>1. KeepWalk
      BY <1>1, <2>2 DEF StopCheck, KeepWalk
    <3> QED BY <3>1, KeepWalkKeeps
  <2> QED BY <2>1, <2>2
<1>2. CASE StopReturn(c)
  <2>1. CASE c = Main
    <3>1. /\ pc[Main] = "st_unlock" /\ UNCHANGED <<ret, running_, g_running, joinable>>
          /\ pc'[Main] = ret[Main] /\ ret[Main] \in {"m_return", "m_members"}
          /\ \A d \in Ctx : d # Main => pc'[d] = pc[d]
      BY <1>2, <2>1 DEF StopReturn
    <3>2. ~running_ /\ ret[Main] = "m_return"
      BY <3>1 DEF StopInv, Alone, StopBody, KeepInv, Ending
    <3> QED BY <3>1, <3>2 DEF KeepInv, Ending, Keeping
  <2>2. CASE c # Main
    <3>1. KeepWalk
      BY <1>2, <2>2 DEF StopReturn, KeepWalk
    <3> QED BY <3>1, KeepWalkKeeps
  <2> QED BY <2>1, <2>2
<1>3. ASSUME NEW t \in Pool, JoinThrows(c, t) PROVE KeepInv'
  BY <1>3, JoinsSucceed DEF JoinThrows
<1>4. CASE StopLowerFlag(c) \/ StopTestSocket(c) \/ StopCloseSocket(c)
  <2>1. KeepWalk
    BY <1>4 DEF StopLowerFlag, StopTestSocket, StopCloseSocket, KeepWalk
  <2> QED BY <2>1, KeepWalkKeeps
<1>5. CASE StopUnsetSocket(c) \/ JoinsDone(c) \/ StopLockConnections(c)
  <2>1. KeepWalk
    BY <1>5 DEF StopUnsetSocket, JoinsDone, StopLockConnections, KeepWalk
  <2> QED BY <2>1, KeepWalkKeeps
<1>6. ASSUME NEW t \in Pool, JoinBegin(c, t) \/ JoinEnd(c, t) PROVE KeepInv'
  <2>1. KeepWalk
    BY <1>6 DEF JoinBegin, JoinEnd, KeepWalk
  <2> QED BY <2>1, KeepWalkKeeps
<1> QED BY <1>1, <1>2, <1>3, <1>4, <1>5, <1>6 DEF Stop

\* Initially main() has not come near its end.
LEMMA KeepInit == Init => KeepInv
<1> SUFFICES ASSUME Init PROVE KeepInv
  OBVIOUS
<1>1. pc[Main] = "m_setup" /\ ret[Main] = "h_ret" /\ ~running_
  BY Kinds DEF Init
<1> QED BY <1>1 DEF KeepInv, Ending, Keeping, StopLabel

\* No step breaks the invariant when threads can be created.
LEMMA KeepStep ==
  ASSUME ~SpawnMayFail, IInv, StopInv, JoinInv, KeepInv, [Next]_vars
  PROVE  KeepInv'
<1>1. CASE MainStep
  BY <1>1, MainKeepInv
<1>2. CASE \/ ServerStep \/ ServerDatagram \/ Arrival
           \/ \E w \in Workers : WorkerCheck(w)
           \/ \E c \in Ctx : Log(c)
           \/ \E h \in Deliveries : HandlerStep(h)
  BY <1>2, ThreadKeepWalk, KeepWalkKeeps
<1>3. ASSUME NEW c \in Ctx, Stop(c) PROVE KeepInv'
  BY <1>3, StopKeepInv
<1>4. CASE UNCHANGED vars
  BY <1>4 DEF vars, flow, flags, handles, KeepInv, Ending, Keeping, InStop
<1> QED BY <1>1, <1>2, <1>3, <1>4 DEF Next, Gone, Sleep

\* main() returns only after the shutdown and nothing is left when it does.
THEOREM KeepInvariant ==
  ASSUME Sheltered
  PROVE  Spec => [](IInv /\ StopInv /\ JoinInv /\ KeepInv)
<1>1. Init => IInv /\ StopInv /\ JoinInv /\ KeepInv
  BY InvInit, StopInit, JoinInit, KeepInit
<1>2. (IInv /\ StopInv /\ JoinInv /\ KeepInv) /\ [Next]_vars
        => (IInv /\ StopInv /\ JoinInv /\ KeepInv)'
  BY InvStep, StopStep, JoinStep, KeepStep DEF Undisturbed, Sheltered
<1> HIDE DEF IInv, StopInv, JoinInv, KeepInv
<1> QED BY <1>1, <1>2, PTL DEF Spec

\* Nobody logs any more when g_server is destroyed, by then after the Logger:
\* the destructor's stop() has nothing to do, and no other thread is left.
THEOREM LoggerLast ==
  ASSUME Sheltered
  PROVE  Spec => []LoggerOutlivesUse
<1>1. ASSUME IInv, KeepInv PROVE LoggerOutlivesUse
  <2> SUFFICES ASSUME ret[Main] = "m_members", NEW c \in Ctx
               PROVE  pc[c] \notin LogPoint
    BY DEF LoggerOutlivesUse
  <2>1. /\ joinable = {} /\ pc[Main] \in {"st_check", "m_members"}
        /\ pc[c] \notin StopLabel \ {"st_check"}
    BY <1>1 DEF KeepInv, Ending, InStop
  <2>2. \A t \in Pool : pc[t] \in {"off", "exit"}
    BY <1>1, <2>1 DEF IInv, LiveIsJoinable, Live
  <2>3. c \in Deliveries => pc[c] \in HandlerLabel \cup {"st_check"}
    BY <1>1, <2>1 DEF IInv, OwnCode
  <2> QED BY <2>1, <2>2, <2>3, Kinds DEF LogPoint, HandlerLabel
<1>2. IInv /\ StopInv /\ JoinInv /\ KeepInv => LoggerOutlivesUse
  BY <1>1
<1> HIDE DEF IInv, StopInv, JoinInv, KeepInv
<1> QED BY <1>2, KeepInvariant, PTL

-----------------------------------------------------------------------------
(* The process implements the daemon's contract.                           *)

\* How the state of the process is read, with names.
Phase == IF running_ THEN "open"
         ELSE IF pc[Main] \in Unstarted THEN "fresh" ELSE "closed"
LifeAt(l) == CASE l = "off" -> "unborn" [] l = "exit" -> "dead" [] OTHER -> "alive"
Life == [t \in Pool |-> LifeAt(pc[t])]

\* A label outside a thread's first and last is that of a living one.
LEMMA LifeAtIs ==
  /\ LifeAt("off") = "unborn" /\ LifeAt("exit") = "dead"
  /\ \A l : l \notin {"off", "exit"} => LifeAt(l) = "alive"
BY DEF LifeAt

\* The actions of the contract in terms of what they are read from.
LEMMA ContractReads ==
  /\ UNCHANGED Contract!vars <=> UNCHANGED <<Phase, ~g_running, Life, proc # "up">>
  /\ Contract!Open <=> Phase = "fresh" /\ Phase' = "open"
       /\ UNCHANGED <<~g_running, Life, proc # "up">>
  /\ Contract!GiveUp <=> Phase = "fresh" /\ Phase' = "closed"
       /\ UNCHANGED <<~g_running, Life, proc # "up">>
  /\ \A t : Contract!Launch(t) <=> Phase = "open" /\ Life[t] = "unborn"
       /\ Life' = [Life EXCEPT ![t] = "alive"]
       /\ UNCHANGED <<Phase, ~g_running, proc # "up">>
  /\ Contract!Request <=> ~(proc # "up") /\ (~g_running)' = TRUE
       /\ UNCHANGED <<Phase, Life, proc # "up">>
  /\ Contract!Close <=> Phase = "open" /\ ~g_running
       /\ (\A t \in Pool : Life[t] = "alive") /\ Phase' = "closed"
       /\ UNCHANGED <<~g_running, Life, proc # "up">>
  /\ \A t : Contract!Return(t) <=> Phase = "closed" /\ Life[t] = "alive"
       /\ Life' = [Life EXCEPT ![t] = "dead"]
       /\ UNCHANGED <<Phase, ~g_running, proc # "up">>
  /\ Contract!Exit <=> Phase = "closed" /\ (\A t \in Pool : Life[t] # "alive")
       /\ (proc # "up")' = TRUE /\ UNCHANGED <<Phase, ~g_running, Life>>
BY DEF Contract!vars, Contract!Open, Contract!GiveUp, Contract!Launch,
       Contract!Request, Contract!Close, Contract!Return, Contract!Exit, Phase,
       Life, LifeAt

\* Steps that the contract does not see.
Rests ==
  /\ UNCHANGED <<running_, g_running, proc>>
  /\ running_ \/ (pc'[Main] \in Unstarted <=> pc[Main] \in Unstarted)
  /\ \A t \in Pool : pc'[t] = pc[t] \/ {pc[t], pc'[t]} \cap {"off", "exit"} = {}

\* They leave the contract's state as it is.
LEMMA RestsStutters ==
  ASSUME Rests
  PROVE  UNCHANGED Contract!vars
<1>1. \A t \in Pool : LifeAt(pc'[t]) = LifeAt(pc[t])
  BY LifeAtIs DEF Rests
<1>2. Life' = Life
  BY <1>1 DEF Life
<1>3. Phase' = Phase
  BY DEF Rests, Phase
<1> QED BY <1>2, <1>3, ContractReads DEF Rests

\* One thread's life moves on while all else rests.
LEMMA LifeMoves ==
  ASSUME TypeOK, TypeOK', NEW t \in Pool, NEW l, LifeAt(pc'[t]) = l,
         \A s \in Pool : s # t => pc'[s] = pc[s]
  PROVE  Life' = [Life EXCEPT ![t] = l]
BY DEF Life

\* The steps of main() and start().
LEMMA MainRefines ==
  ASSUME ~SpawnMayFail, IInv, IInv', StopInv, JoinInv, KeepInv, MainStep
  PROVE  Contract!Next \/ UNCHANGED Contract!vars
<1> USE Kinds
    DEF IInv, TypeOK, Goto, CallStop, At, flow, signals, flags, sock, handles, env
<1>1. CASE RaiseRunning
  <2>1. /\ Phase = "fresh" /\ Phase' = "open"
        /\ UNCHANGED <<g_running, proc>>
    BY <1>1 DEF RaiseRunning, FreshUntilFlag, Unstarted, Phase
  <2>2. \A t \in Pool : pc'[t] = pc[t]
    BY <1>1 DEF RaiseRunning
  <2>3. Contract!Open
    BY <2>1, <2>2, ContractReads DEF Life
  <2> QED BY <2>3 DEF Contract!Next
<1>2. ASSUME NEW w \in Workers, SpawnWorker(w) PROVE Contract!Next
  <2>1. /\ running_ /\ pc[w] = "off" /\ pc'[w] = "w_hello"
        /\ UNCHANGED <<running_, g_running, proc>>
        /\ \A s \in Pool : s # w => pc'[s] = pc[s]
    BY <1>2 DEF SpawnWorker, JoinInv, Startup
  <2>2. Life' = [Life EXCEPT ![w] = "alive"] /\ Life[w] = "unborn"
    BY <2>1, LifeMoves, LifeAtIs DEF Life
  <2>3. Contract!Launch(w)
    BY <2>1, <2>2, ContractReads DEF Phase
  <2> QED BY <2>3 DEF Contract!Next
<1>3. CASE SpawnServer
  <2>1. /\ running_ /\ pc'[Server] = "s_hello"
        /\ UNCHANGED <<running_, g_running, proc>>
        /\ \A s \in Pool : s # Server => pc'[s] = pc[s]
    BY <1>3 DEF SpawnServer, JoinInv, Startup
  <2>2. CASE pc[Server] = "off"
    <3>1. Life' = [Life EXCEPT ![Server] = "alive"] /\ Life[Server] = "unborn"
      BY <2>1, <2>2, LifeMoves, LifeAtIs DEF Life
    <3>2. Contract!Launch(Server)
      BY <2>1, <3>1, ContractReads DEF Phase
    <3> QED BY <3>2 DEF Contract!Next
  <2>3. CASE pc[Server] # "off"
    <3>1. pc[Server] # "exit"
      BY <2>1 DEF KeepInv, Keeping
    <3>2. Rests
      BY <2>1, <2>3, <3>1 DEF Rests
    <3> QED BY <3>2, RestsStutters
  <2> QED BY <2>2, <2>3
<1>4. CASE DestroyMembers
  <2>1. /\ ~running_ /\ joinable = {} /\ pc[Main] = "m_members"
        /\ proc' = "exited" /\ UNCHANGED <<pc, running_, g_running>>
    BY <1>4 DEF DestroyMembers, KeepInv, Ending
  <2>2. \A t \in Pool : Life[t] # "alive"
    BY <2>1, LifeAtIs DEF LiveIsJoinable, Live, Life
  <2>3. Phase = "closed" /\ UNCHANGED <<Phase, Life>>
    BY <2>1 DEF Phase, Life, Unstarted
  <2>4. Contract!Exit
    BY <2>1, <2>2, <2>3, ContractReads
  <2> QED BY <2>4 DEF Contract!Next
<1>5. CASE SpawnFails
  BY <1>5 DEF SpawnFails
<1>6. ASSUME SetupSignalHandlers \/ MakeServer \/ InitializeOk \/ InitializeFails
               \/ StartEnter \/ LeaveMainLoop \/ DestroyServer
      PROVE  Rests
  <2>1. CASE SetupSignalHandlers \/ MakeServer
    BY <2>1 DEF SetupSignalHandlers, MakeServer, Rests, Unstarted
  <2>2. CASE InitializeOk \/ InitializeFails
    BY <2>2 DEF InitializeOk, InitializeFails, Rests, Unstarted
  <2>3. CASE StartEnter
    BY <2>3 DEF StartEnter, Rests, Unstarted, FreshUntilFlag
  <2>4. CASE LeaveMainLoop \/ DestroyServer
    BY <2>4 DEF LeaveMainLoop, DestroyServer, Rests, Unstarted
  <2> QED BY <1>6, <2>1, <2>2, <2>3, <2>4
<1> QED BY <1>1, <1>2, <1>3, <1>4, <1>5, <1>6, RestsStutters DEF MainStep

\* log(): a failed start gives up, and a thread's last line is its return.
LEMMA LogRefines ==
  ASSUME IInv, IInv', KeepInv, NEW c \in Ctx, Log(c)
  PROVE  Contract!Next \/ UNCHANGED Contract!vars
<1> USE Kinds
    DEF IInv, TypeOK, Goto, Runs, flow, signals, flags, sock, handles, locks, env
<1>1. CASE LogAcquire(c)
  <2>1. Rests
    BY <1>1 DEF LogAcquire, Rests
  <2> QED BY <2>1, RestsStutters
<1>2. ASSUME LogRelease(c) \/ LogSkip(c)
      PROVE  Contract!Next \/ UNCHANGED Contract!vars
  <2>1. /\ pc[c] \in LogPoint /\ pc'[c] = AfterLog(pc[c]) /\ proc = "up"
        /\ \A d \in Ctx : d # c => pc'[d] = pc[d]
        /\ UNCHANGED <<running_, g_running, proc>>
    BY <1>2 DEF LogRelease, LogSkip, HolderLogs
  <2>2. CASE pc[c] = "m_init_bad"
    <3>1. c = Main
      BY <2>2 DEF OwnCode, ServerLabel, WorkerLabel, HandlerLabel, StopLabel
    <3>2. pc'[Main] = "m_return"
      BY <2>1, <2>2, <3>1 DEF AfterLog
    <3>3. Phase = "fresh" /\ Phase' = "closed"
      BY <2>1, <2>2, <3>1, <3>2 DEF FreshUntilFlag, Unstarted, Phase
    <3>4. Life' = Life
      BY <2>1, <3>1 DEF Life
    <3>5. Contract!GiveUp
      BY <2>1, <3>3, <3>4, ContractReads
    <3> QED BY <3>5 DEF Contract!Next
  <2>3. CASE pc[c] \in {"s_bye", "w_bye"}
    <3>1. c \in Pool
      BY <2>3 DEF OwnCode, MainLabel, HandlerLabel, StopLabel
    <3>2. pc'[c] = "exit"
      BY <2>1, <2>3 DEF AfterLog
    <3>3. ~running_ /\ pc[Main] \notin Unstarted
      BY <2>3, <3>1 DEF KeepInv, Keeping, FreshUntilFlag
    <3>4. Phase = "closed" /\ Phase' = "closed"
      BY <2>1, <3>1, <3>3 DEF Phase
    <3>5. Life' = [Life EXCEPT ![c] = "dead"] /\ Life[c] = "alive"
      BY <2>1, <2>3, <3>1, <3>2, LifeMoves, LifeAtIs DEF Life
    <3>6. Contract!Return(c)
      BY <2>1, <3>4, <3>5, ContractReads
    <3> QED BY <3>1, <3>6 DEF Contract!Next
  <2>4. CASE pc[c] \notin {"m_init_bad", "s_bye", "w_bye"}
    <3>1. pc[c] \notin {"off", "exit"} /\ pc'[c] \notin {"off", "exit"}
      BY <2>1, <2>4 DEF AfterLog, LogPoint
    <3>2. pc'[c] \in Unstarted <=> pc[c] \in Unstarted
      BY <2>1, <2>4 DEF AfterLog, LogPoint, Unstarted
    <3>3. Rests
      BY <2>1, <3>1, <3>2 DEF Rests
    <3> QED BY <3>3, RestsStutters
  <2> QED BY <2>2, <2>3, <2>4
<1> QED BY <1>1, <1>2 DEF Log

\* The handlers and the threads: only the request is seen.
LEMMA ThreadRefines ==
  ASSUME IInv, IInv',
         \/ ServerStep \/ ServerDatagram \/ Arrival
         \/ \E w \in Workers : WorkerCheck(w)
         \/ \E h \in Deliveries : HandlerStep(h)
  PROVE  Contract!Next \/ UNCHANGED Contract!vars
<1> USE Kinds
    DEF IInv, TypeOK, Goto, CallStop, At, Runs, flow, signals, flags, sock,
        handles, locks, env
<1>1. ASSUME ServerStep \/ ServerDatagram \/ \E w \in Workers : WorkerCheck(w)
      PROVE  Rests
  <2>1. CASE ServerStep
    BY <2>1 DEF ServerStep, ServerCheck, ServerRecv, ServerWoken, ServerSend,
                RecvError, Rests
  <2>2. CASE ServerDatagram
    BY <2>2 DEF ServerDatagram, Rests
  <2>3. CASE \E w \in Workers : WorkerCheck(w)
    BY <2>3 DEF WorkerCheck, Rests
  <2> QED BY <1>1, <2>1, <2>2, <2>3
<1>2. CASE Arrival
  <2>1. Rests
    BY <1>2 DEF Arrival, Deliver, Entry, Rests, OwnCode, MainLabel, StopLabel
  <2> QED BY <2>1, RestsStutters
<1>3. ASSUME NEW h \in Deliveries, HandlerLowerFlag(h)
      PROVE  Contract!Next
  <2>1. /\ proc = "up" /\ proc' = proc /\ ~g_running' /\ running_' = running_
        /\ \A d \in Ctx : d # h => pc'[d] = pc[d]
    BY <1>3 DEF HandlerLowerFlag
  <2>2. Phase' = Phase /\ Life' = Life
    BY <2>1 DEF Phase, Life
  <2>3. Contract!Request
    BY <2>1, <2>2, ContractReads
  <2> QED BY <2>3 DEF Contract!Next
<1>4. ASSUME NEW h \in Deliveries, HandlerStop(h) \/ HandlerReturn(h)
      PROVE  Rests
  BY <1>4 DEF HandlerStop, HandlerReturn, Rests
<1> QED BY <1>1, <1>2, <1>3, <1>4, RestsStutters DEF HandlerStep

\* stop(): the first call to lower running_ closes the daemon.
LEMMA StopRefines ==
  ASSUME IInv, IInv', StopInv, JoinInv, KeepInv, NEW c \in Ctx, Stop(c)
  PROVE  Contract!Next \/ UNCHANGED Contract!vars
<1> USE Kinds
    DEF IInv, TypeOK, Goto, At, AtJoin, flow, signals, flags, sock, handles, locks,
        env
<1>1. CASE StopLowerFlag(c)
  <2>1. /\ pc[c] = "st_flag" /\ pc'[c] = "st_close" /\ ~running_'
        /\ \A d \in Ctx : d # c => pc'[d] = pc[d]
        /\ UNCHANGED <<ret, on, g_running, joinable, proc>>
    BY <1>1 DEF StopLowerFlag
  <2>2. c \in Stack
    BY <2>1, StopOnMain DEF StopLabel, StopInv
  <2>3. pc[Main] \notin Unstarted \cup {"m_spawn"} /\ pc'[Main] \notin Unstarted
    <3>1. pc[Main] # "m_spawn"
      BY <2>1, <2>2 DEF JoinInv, Startup, Stack
    <3>2. pc[Main] \notin Unstarted
      BY <2>1 DEF StopInv, Entered, InStop, StopLabel
    <3> QED BY <2>1, <3>1, <3>2 DEF Unstarted
  <2>4. \A t \in Pool : pc'[t] = pc[t]
    BY <2>1, <2>2, StackType DEF Stack
  <2>5. Life' = Life
    BY <2>4 DEF Life
  <2>6. CASE running_
    <3>1. \A t \in Pool : Life[t] = "alive"
      BY <2>3, <2>6, LifeAtIs DEF KeepInv, Keeping, Life
    <3>2. ~g_running
      <4>1. CASE c = Main
        BY <2>1, <2>6, <4>1 DEF KeepInv, Keeping, Ending, OwnCode, StopLabel
      <4>2. CASE c # Main
        BY <2>1, <2>2, <4>2, StackType DEF Stack, AskedFirst, StopLabel
      <4> QED BY <4>1, <4>2
    <3>3. Phase = "open" /\ Phase' = "closed"
      BY <2>1, <2>3, <2>6 DEF Phase
    <3>4. Contract!Close
      BY <2>1, <2>5, <3>1, <3>2, <3>3, ContractReads
    <3> QED BY <3>4 DEF Contract!Next
  <2>7. CASE ~running_
    <3>1. Phase' = Phase
      BY <2>1, <2>3, <2>7 DEF Phase
    <3> QED BY <2>1, <2>5, <3>1, ContractReads
  <2> QED BY <2>6, <2>7
<1>2. ASSUME NEW t \in Pool, JoinThrows(c, t) PROVE FALSE
  BY <1>2, JoinsSucceed DEF JoinThrows
<1>3. ASSUME NEW t \in Pool, JoinBegin(c, t) \/ JoinEnd(c, t) PROVE Rests
  BY <1>3 DEF JoinBegin, JoinEnd, Rests
<1>4. ASSUME \/ StopCheck(c) \/ StopTestSocket(c) \/ StopCloseSocket(c)
             \/ StopUnsetSocket(c) \/ JoinsDone(c) \/ StopLockConnections(c)
             \/ StopReturn(c)
      PROVE  Rests
  <2>1. /\ pc[c] \in StopLabel /\ \A d \in Ctx : d # c => pc'[d] = pc[d]
        /\ pc'[c] \in StopLabel \cup {"h_ret", "m_return", "m_members"}
        /\ UNCHANGED <<running_, g_running, proc>>
    BY <1>4 DEF StopCheck, StopTestSocket, StopCloseSocket, StopUnsetSocket,
                JoinsDone, StopLockConnections, StopReturn, StopLabel
  <2>2. c \notin Pool
    BY <2>1 DEF OwnCode, StopLabel, ServerLabel, WorkerLabel, Pool
  <2> QED BY <2>1, <2>2 DEF Rests, StopLabel, Unstarted
<1> QED BY <1>1, <1>2, <1>3, <1>4, RestsStutters DEF Stop

\* Every step of the process is one of the contract or a stutter.
LEMMA ContractStep ==
  ASSUME ~SpawnMayFail, IInv, IInv', StopInv, JoinInv, KeepInv, [Next]_vars
  PROVE  [Contract!Next]_(Contract!vars)
<1>1. CASE MainStep
  BY <1>1, MainRefines
<1>2. ASSUME NEW c \in Ctx, Log(c) PROVE [Contract!Next]_(Contract!vars)
  BY <1>2, LogRefines
<1>3. CASE \/ ServerStep \/ ServerDatagram \/ Arrival
           \/ \E w \in Workers : WorkerCheck(w)
           \/ \E h \in Deliveries : HandlerStep(h)
  BY <1>3, ThreadRefines
<1>4. ASSUME NEW c \in Ctx, Stop(c) PROVE [Contract!Next]_(Contract!vars)
  BY <1>4, StopRefines
<1>5. CASE UNCHANGED vars
  <2>1. Rests
    BY <1>5 DEF vars, flow, flags, env, Rests
  <2> QED BY <2>1, RestsStutters
<1> QED BY <1>1, <1>2, <1>3, <1>4, <1>5 DEF Next, Gone, Sleep

\* The process starts where the contract starts.
LEMMA ContractInit ==
  ASSUME Init
  PROVE  Contract!Init
<1>1. pc[Main] = "m_setup" /\ \A t \in Pool : pc[t] = "off"
  BY Kinds DEF Init
<1> QED BY <1>1 DEF Contract!Init, Init, Unstarted

\* With signals on main() outside start(), and threads that can be created, the
\* process is a daemon as its supervisors expect it.
THEOREM ContractKept ==
  ASSUME Sheltered
  PROVE  Spec => KeepsContract
<1>1. Init => Contract!Init
  BY ContractInit
<1>2. (IInv /\ StopInv /\ JoinInv /\ KeepInv) /\ IInv' /\ [Next]_vars
        => [Contract!Next]_(Contract!vars)
  BY ContractStep DEF Sheltered
<1> HIDE DEF IInv, StopInv, JoinInv, KeepInv, Init, Next, vars, Contract!Init,
             Contract!Next, Contract!vars
<1> QED BY <1>1, <1>2, KeepInvariant, PTL DEF Spec, KeepsContract, Contract!Spec

-----------------------------------------------------------------------------
(* Signals on any thread, at any statement, but on none that holds the     *)
(* Logger's mutex.                                                         *)

Running == Threads \cup Active

\* Every handler runs on the thread of what it interrupted.
Nested ==
  \A h \in Deliveries :
    /\ pc[h] \in {"idle", "done"} <=> on[h] = NoCtx
    /\ on[h] # NoCtx => on[h] \in Running
    /\ \A c \in Ctx : on[h] = c => thr[h] = ThreadOf(c)

\* On every thread only one context is on top.
OneTopEach ==
  \A c, d \in Running : OnTop(c) /\ OnTop(d) /\ ThreadOf(c) = ThreadOf(d) => c = d

\* Nobody sits on the holder of the mutex.
HolderOnTop ==
  logger_mutex # NoCtx => logger_mutex \in Running /\ OnTop(logger_mutex)

LogInv == Nested /\ OneTopEach /\ HolderOnTop

LEMMA RunningType == Running \subseteq Ctx /\ Threads \subseteq Running
BY DEF Running, Active, Ctx

\* Steps that leave the handlers where they are.
Still ==
  /\ UNCHANGED <<on, thr>>
  /\ \A d \in Deliveries : pc'[d] \in {"idle", "done"} <=> pc[d] \in {"idle", "done"}
  /\ logger_mutex' # logger_mutex =>
       logger_mutex' = NoCtx \/ (logger_mutex' \in Running /\ OnTop(logger_mutex'))

LEMMA StillKeeps ==
  ASSUME LogInv, Still
  PROVE  LogInv'
<1>1. Running' = Running /\ \A c : (OnTop(c)' <=> OnTop(c)) /\ ThreadOf(c)' = ThreadOf(c)
  BY DEF Still, Running, Active, OnTop, ThreadOf
<1>2. Nested'
  BY <1>1 DEF LogInv, Nested, Still, ThreadOf
<1>3. OneTopEach'
  BY <1>1 DEF LogInv, OneTopEach
<1>4. HolderOnTop'
  BY <1>1 DEF LogInv, HolderOnTop, Still
<1> QED BY <1>2, <1>3, <1>4 DEF LogInv

\* A context that has something to run is on the floor or a running handler.
LEMMA HasCode ==
  ASSUME Nested, NEW c \in Ctx, pc[c] \notin {"idle", "done"}
  PROVE  c \in Running
BY DEF Nested, Running, Active, Ctx

LEMMA LogReturnInv ==
  ASSUME IInv, LogInv, NEW h \in Deliveries, HandlerReturn(h)
  PROVE  LogInv'
<1>1. /\ pc[h] = "h_ret" /\ OnTop(h) /\ h \in Active /\ h \in Ctx /\ h \notin Threads
      /\ on' = [on EXCEPT ![h] = NoCtx] /\ logger_mutex' = logger_mutex
  BY Kinds, LifecycleAssumption
  DEF HandlerReturn, At, Runs, LogInv, Nested, Active, locks, LifecycleAssumption
<1>2. /\ pc'[h] = "done" /\ on'[h] = NoCtx
      /\ \A d \in Ctx : d # h => pc'[d] = pc[d]
      /\ \A k \in Deliveries : k # h =>
           on'[k] = on[k] /\ thr'[k] = thr[k] /\ on[k] # h
  BY <1>1 DEF HandlerReturn, Goto, IInv, TypeOK, OnTop
<1>3. Active' = Active \ {h} /\ Running' = Running \ {h}
  BY <1>1, <1>2 DEF Active, Running
<1>4. \A c \in Ctx : /\ c # on[h] => (OnTop(c)' <=> OnTop(c))
                     /\ c # h => ThreadOf(c)' = ThreadOf(c)
  BY <1>1, <1>2, Kinds DEF OnTop, ThreadOf
<1>5. on[h] \in Running /\ thr[h] = ThreadOf(on[h]) /\ on[h] # h /\ ThreadOf(h) = thr[h]
  BY <1>1, RunningType DEF LogInv, Nested, Active, OnTop, ThreadOf
<1>6. Nested'
  <2>1. ASSUME NEW k \in Deliveries
        PROVE  /\ pc'[k] \in {"idle", "done"} <=> on'[k] = NoCtx
               /\ on'[k] # NoCtx => on'[k] \in Running'
    <3>1. CASE k = h
      BY <1>2, <3>1
    <3>2. CASE k # h
      <4>1. k \in Ctx
        BY Kinds
      <4>2. pc'[k] = pc[k] /\ on'[k] = on[k] /\ on[k] # h
        BY <1>2, <3>2, <4>1
      <4> QED BY <1>3, <4>2 DEF LogInv, Nested
    <3> QED BY <3>1, <3>2
  <2>2. ASSUME NEW k \in Deliveries, NEW c \in Ctx, on'[k] = c
        PROVE  thr'[k] = ThreadOf(c)'
    <3>1. k # h
      BY <1>2, <2>2, Kinds
    <3>2. on'[k] = on[k] /\ thr'[k] = thr[k] /\ on[k] # h
      BY <1>2, <3>1
    <3>3. ThreadOf(c)' = ThreadOf(c)
      BY <1>4, <2>2, <3>2
    <3> QED BY <2>2, <3>2, <3>3 DEF LogInv, Nested
  <2> QED BY <2>1, <2>2 DEF Nested
<1>7. OneTopEach'
  <2> SUFFICES ASSUME NEW c \in Running', NEW d \in Running', OnTop(c)', OnTop(d)',
                      ThreadOf(c)' = ThreadOf(d)'
               PROVE  c = d
    BY DEF OneTopEach
  <2>1. /\ c \in Running \ {h} /\ d \in Running \ {h} /\ c \in Ctx /\ d \in Ctx
        /\ ThreadOf(c) = ThreadOf(d)
    BY <1>3, <1>4, RunningType
  <2>2. ASSUME NEW e \in Running \ {h}, OnTop(e)', ThreadOf(e) = thr[h] PROVE e = on[h]
    <3> SUFFICES ASSUME e # on[h] PROVE FALSE
      OBVIOUS
    <3>1. OnTop(e)
      BY <1>4, <2>2, RunningType
    <3>2. e = h
      BY <1>1, <1>5, <2>2, <3>1 DEF LogInv, OneTopEach, Running
    <3> QED BY <3>2
  <2>3. CASE ThreadOf(c) = thr[h]
    BY <2>1, <2>2, <2>3
  <2>4. CASE ThreadOf(c) # thr[h]
    <3>1. c # on[h] /\ d # on[h]
      BY <1>5, <2>1, <2>4
    <3>2. OnTop(c) /\ OnTop(d)
      BY <1>4, <2>1, <3>1
    <3> QED BY <2>1, <3>2 DEF LogInv, OneTopEach
  <2> QED BY <2>3, <2>4
<1>8. HolderOnTop'
  <2> SUFFICES ASSUME logger_mutex # NoCtx
               PROVE  logger_mutex \in Running' /\ OnTop(logger_mutex)'
    BY <1>1 DEF HolderOnTop
  <2>1. logger_mutex \in Running /\ OnTop(logger_mutex)
    BY DEF LogInv, HolderOnTop
  <2>2. logger_mutex # h
    BY <1>1 DEF IInv, HolderLogs, LogPoint
  <2>3. logger_mutex # on[h]
    BY <2>1 DEF OnTop
  <2>4. logger_mutex \in Ctx
    BY <2>1, RunningType
  <2>5. PICK m \in Ctx : m = logger_mutex
    BY <2>4
  <2>6. OnTop(m)'
    BY <1>4, <2>1, <2>3, <2>5
  <2>7. OnTop(logger_mutex)'
    BY <1>1, <2>5, <2>6
  <2> QED BY <1>3, <2>1, <2>2, <2>7
<1> QED BY <1>6, <1>7, <1>8 DEF LogInv

LEMMA LogDeliverInv ==
  ASSUME SpareLogger, IInv, LogInv, NEW h \in Deliveries, NEW c \in Ctx, Deliver(h, c)
  PROVE  LogInv'
<1>1. /\ pc[h] = "idle" /\ OnTop(c) /\ h \in Ctx /\ h # c /\ h \notin Threads
      /\ on' = [on EXCEPT ![h] = c] /\ logger_mutex' = logger_mutex /\ logger_mutex # c
      /\ pc[c] \notin {"idle", "done"}
  BY Kinds, LifecycleAssumption DEF Deliver, Runs, locks, LifecycleAssumption
<1>2. c \in Running
  BY <1>1, HasCode DEF LogInv
<1>3. /\ pc'[h] \in {"h_flag", "h_ret"} /\ on'[h] = c /\ thr'[h] = ThreadOf(c)
      /\ \A k \in Deliveries : k # h => on'[k] = on[k] /\ thr'[k] = thr[k]
  BY <1>1 DEF Deliver, Entry, IInv, TypeOK
<1>4. \A d \in Ctx : d # h => (pc'[d] \in {"idle", "done"} <=> pc[d] \in {"idle", "done"})
  BY <1>1 DEF Deliver, IInv, TypeOK
<1>5. h \notin Running /\ \A k \in Deliveries : on[k] # h
  <2>1. on[h] = NoCtx /\ h \notin Running
    BY <1>1 DEF LogInv, Nested, Running, Active
  <2>2. h # NoCtx
    BY <1>1, Kinds
  <2> QED BY <2>1, <2>2 DEF LogInv, Nested
<1>6. Active' = Active \cup {h} /\ Running' = Running \cup {h}
  BY <1>1, <1>2, <1>3, Kinds DEF Active, Running
<1>7. /\ \A d \in Ctx : OnTop(d)' <=> d # c /\ OnTop(d)
      /\ \A d \in Ctx : d # h => ThreadOf(d)' = ThreadOf(d)
      /\ ThreadOf(h)' = ThreadOf(c)
  <2>1. ASSUME NEW d \in Ctx PROVE OnTop(d)' <=> d # c /\ OnTop(d)
    <3>1. \A k \in Deliveries : k # h => on'[k] = on[k]
      BY <1>3
    <3>2. on[h] # d
      BY <1>1, Kinds DEF LogInv, Nested
    <3> QED BY <1>3, <3>1, <3>2 DEF OnTop
  <2>2. ASSUME NEW d \in Ctx, d # h PROVE ThreadOf(d)' = ThreadOf(d)
    <3>1. d \in Deliveries => thr'[d] = thr[d]
      BY <1>3, <2>2
    <3> QED BY <3>1 DEF ThreadOf
  <2>3. ThreadOf(h)' = ThreadOf(c)
    BY <1>1, <1>3 DEF ThreadOf
  <2> QED BY <2>1, <2>2, <2>3
<1>8. Nested'
  <2>1. ASSUME NEW k \in Deliveries
        PROVE  /\ pc'[k] \in {"idle", "done"} <=> on'[k] = NoCtx
               /\ on'[k] # NoCtx => on'[k] \in Running'
    <3>1. CASE k = h
      <4>1. c # NoCtx
        BY Kinds
      <4> QED BY <1>2, <1>3, <1>6, <3>1, <4>1
    <3>2. CASE k # h
      <4>1. k \in Ctx
        BY Kinds
      <4>2. on'[k] = on[k] /\ (pc'[k] \in {"idle", "done"} <=> pc[k] \in {"idle", "done"})
        BY <1>3, <1>4, <3>2, <4>1
      <4> QED BY <1>6, <4>2 DEF LogInv, Nested
    <3> QED BY <3>1, <3>2
  <2>2. ASSUME NEW k \in Deliveries, NEW d \in Ctx, on'[k] = d
        PROVE  thr'[k] = ThreadOf(d)'
    <3>1. CASE k = h
      BY <1>1, <1>3, <1>7, <2>2, <3>1
    <3>2. CASE k # h
      <4>1. on'[k] = on[k] /\ thr'[k] = thr[k] /\ on[k] # h
        BY <1>3, <1>5, <3>2
      <4>2. ThreadOf(d)' = ThreadOf(d)
        BY <1>7, <2>2, <4>1
      <4> QED BY <2>2, <4>1, <4>2 DEF LogInv, Nested
    <3> QED BY <3>1, <3>2
  <2> QED BY <2>1, <2>2 DEF Nested
<1>9. OneTopEach'
  <2> SUFFICES ASSUME NEW d \in Running', NEW e \in Running', OnTop(d)', OnTop(e)',
                      ThreadOf(d)' = ThreadOf(e)'
               PROVE  d = e
    BY DEF OneTopEach
  <2>1. \A x \in Running : /\ OnTop(x)' => x # c /\ OnTop(x)
                           /\ ThreadOf(x)' = ThreadOf(x)
    BY <1>5, <1>7, RunningType
  <2>2. \A x \in Running : OnTop(x)' => ThreadOf(x) # ThreadOf(c)
    BY <1>1, <1>2, <2>1 DEF LogInv, OneTopEach
  <2>3. CASE d \in Running /\ e \in Running
    BY <2>1, <2>3 DEF LogInv, OneTopEach
  <2>4. CASE d = h \/ e = h
    BY <1>6, <1>7, <2>1, <2>2, <2>4
  <2> QED BY <1>6, <2>3, <2>4
<1>10. HolderOnTop'
  BY <1>1, <1>6, <1>7, RunningType DEF LogInv, HolderOnTop
<1> QED BY <1>8, <1>9, <1>10 DEF LogInv

LEMMA LogCallStill ==
  ASSUME IInv, LogInv, NEW c \in Ctx, Log(c)
  PROVE  Still
<1>1. CASE LogAcquire(c)
  <2>1. c \in Running /\ OnTop(c)
    BY <1>1, HasCode DEF LogAcquire, Runs, LogInv, LogPoint
  <2> QED BY <1>1, <2>1 DEF LogAcquire, Still, flow, signals
<1>2. CASE LogRelease(c)
  BY <1>2, Kinds DEF LogRelease, AfterLog, Goto, signals, IInv, TypeOK, HolderLogs, LogPoint, Still
<1>3. CASE LogSkip(c)
  BY <1>3, Kinds DEF LogSkip, AfterLog, Goto, signals, locks, IInv, TypeOK, LogPoint, Still
<1> QED BY <1>1, <1>2, <1>3 DEF Log

LEMMA OtherStill ==
  ASSUME IInv, MainStep \/ ServerStep \/ ServerDatagram \/ \E w \in Workers : WorkerCheck(w)
  PROVE  Still
<1> USE Kinds
    DEF IInv, TypeOK, OwnCode, Goto, CallStop, At, Runs, flow, signals, flags, sock,
        handles, locks, env, Still
<1>1. CASE MainStep
  BY <1>1 DEF MainStep, SetupSignalHandlers, MakeServer, InitializeOk, InitializeFails,
              StartEnter, RaiseRunning, SpawnWorker, SpawnServer, SpawnFails,
              LeaveMainLoop, DestroyServer, DestroyMembers
<1>2. CASE ServerStep \/ ServerDatagram
  BY <1>2 DEF ServerStep, ServerDatagram, ServerCheck, ServerRecv, ServerWoken, ServerSend, RecvError
<1>3. CASE \E w \in Workers : WorkerCheck(w)
  BY <1>3 DEF WorkerCheck
<1> QED BY <1>1, <1>2, <1>3

LEMMA StopStill ==
  ASSUME IInv, NEW c \in Ctx, Stop(c)
  PROVE  Still
<1> USE Kinds
    DEF IInv, TypeOK, OwnCode, HandlerLabel, StopLabel, Goto, CallStop, At, AtJoin, Runs,
        flow, signals, flags, sock, handles, locks, env, Still
<1>1. CASE StopCheck(c) \/ StopReturn(c)
  BY <1>1 DEF StopCheck, StopReturn
<1>2. CASE StopLowerFlag(c) \/ StopTestSocket(c) \/ StopCloseSocket(c) \/ StopUnsetSocket(c)
             \/ JoinsDone(c) \/ StopLockConnections(c)
  BY <1>2 DEF StopLowerFlag, StopTestSocket, StopCloseSocket, StopUnsetSocket, JoinsDone,
              StopLockConnections
<1>3. CASE \E t \in Pool : JoinBegin(c, t) \/ JoinEnd(c, t)
  BY <1>3 DEF JoinBegin, JoinEnd
<1>4. CASE \E t \in Pool : JoinThrows(c, t)
  BY <1>4 DEF JoinThrows
<1> QED BY <1>1, <1>2, <1>3, <1>4 DEF Stop

LEMMA HandlerStill ==
  ASSUME IInv, NEW h \in Deliveries, HandlerLowerFlag(h) \/ HandlerStop(h)
  PROVE  Still
BY Kinds DEF HandlerLowerFlag, HandlerStop, IInv, TypeOK, Goto, CallStop, At, Runs,
             signals, locks, Still

LEMMA LogStep ==
  ASSUME SpareLogger
  PROVE  IInv /\ LogInv /\ [Next]_vars => LogInv'
<1> SUFFICES ASSUME IInv, LogInv, [Next]_vars PROVE LogInv'
  OBVIOUS
<1>1. CASE MainStep \/ ServerStep \/ ServerDatagram \/ \E w \in Workers : WorkerCheck(w)
  BY <1>1, OtherStill, StillKeeps
<1>2. CASE Arrival
  BY <1>2, LogDeliverInv DEF Arrival
<1>3. ASSUME NEW h \in Deliveries, HandlerStep(h) PROVE LogInv'
  BY <1>3, HandlerStill, StillKeeps, LogReturnInv DEF HandlerStep
<1>4. ASSUME NEW c \in Ctx, Log(c) PROVE LogInv'
  BY <1>4, LogCallStill, StillKeeps
<1>5. ASSUME NEW c \in Ctx, Stop(c) PROVE LogInv'
  BY <1>5, StopStill, StillKeeps
<1>6. CASE UNCHANGED vars
  <2>1. Still
    BY <1>6 DEF vars, flow, signals, locks, Still
  <2> QED BY <2>1, StillKeeps
<1> QED BY <1>1, <1>2, <1>3, <1>4, <1>5, <1>6 DEF Next, Gone, Sleep

LEMMA LogInit == Init => LogInv
<1> SUFFICES ASSUME Init PROVE LogInv
  OBVIOUS
<1>1. /\ \A h \in Deliveries : pc[h] = "idle" /\ on[h] = NoCtx
      /\ logger_mutex = NoCtx /\ NoCtx \notin Ctx
  BY Kinds DEF Init
<1>2. Running = Threads
  BY <1>1 DEF Running, Active
<1>3. OneTopEach
  BY <1>2, LifecycleAssumption DEF OneTopEach, ThreadOf, LifecycleAssumption
<1> QED BY <1>1, <1>3 DEF LogInv, Nested, HolderOnTop

\* Wherever signals land, on any thread and at any statement, no thread waits for
\* a mutex that it holds itself, if only none lands on a holder of the Logger's.
THEOREM LoggerIsFree ==
  ASSUME SpareLogger
  PROVE  Spec => []NoLogSelfDeadlock
<1>1. Init => IInv /\ LogInv
  BY InvInit, LogInit
<1>2. (IInv /\ LogInv) /\ [Next]_vars => (IInv /\ LogInv)'
  BY InvStep, LogStep
<1>3. IInv /\ LogInv => NoLogSelfDeadlock
  <2> SUFFICES ASSUME IInv, LogInv, NEW c \in Ctx, pc[c] \in LogPoint, OnTop(c),
                      logger_mutex \notin {NoCtx, c}, ThreadOf(logger_mutex) = ThreadOf(c)
               PROVE  FALSE
    BY DEF NoLogSelfDeadlock
  <2>1. c \in Running
    BY HasCode DEF LogInv, LogPoint
  <2> QED BY <2>1 DEF LogInv, HolderOnTop, OneTopEach
<1> HIDE DEF IInv, LogInv
<1> QED BY <1>1, <1>2, <1>3, PTL DEF Spec

=============================================================================
