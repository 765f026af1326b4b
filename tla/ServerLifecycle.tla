--------------------------- MODULE ServerLifecycle ---------------------------
(***************************************************************************)
(* The life of one simple-snmpd process: main(), the server thread, the    *)
(* worker threads, and the POSIX signal handlers that may interrupt any of *)
(* them.  SNMPServer::start() creates the threads; SNMPServer::stop() is   *)
(* called by main(), by ~SNMPServer() and by signal_handler() on whatever  *)
(* thread the kernel picked.  An execution context is a thread or one      *)
(* delivery of a signal; pc[c] is the statement c executes next, and a     *)
(* context runs only while no handler sits on top of it.                   *)
(*                                                                         *)
(* A Logger::log() call is a label in LogPoint: the context first takes    *)
(* Logger::mutex_ and then, when it releases it, moves to the next label.  *)
(***************************************************************************)
EXTENDS Naturals

CONSTANTS
  Main, Server,           \* the threads of main() and of server_loop()
  thread_pool_size_,      \* how many worker_thread()s start() creates
  Deliveries,             \* the signals that arrive (bounds their number)
  SigOf,                  \* the signal of each delivery
  Targets,                \* threads the kernel may run a handler on
  Masked,                 \* labels at which no signal is assumed to land
  SpareLogger,            \* TRUE: no signal lands on a holder of mutex_
  CloseWakes,             \* TRUE: close() wakes a recvfrom() on the socket
  Verbose,                \* TRUE: started with -v, DEBUG lines are logged
  SpawnMayFail,           \* TRUE: the std::thread constructor may throw
  MaxDatagrams,           \* bound on the datagrams received
  NoCtx                   \* no context

Workers == 1..thread_pool_size_         \* positions in worker_threads_
Threads == {Main, Server} \cup Workers
Ctx     == Threads \cup Deliveries
Pool    == {Server} \cup Workers        \* the threads that start() creates

ASSUME LifecycleAssumption ==
  /\ thread_pool_size_ \in Nat
  /\ Main # Server /\ Main \notin Workers /\ Server \notin Workers
  /\ Threads \cap Deliveries = {} /\ NoCtx \notin Ctx
  /\ SigOf \in [Deliveries -> {"INT", "TERM", "HUP"}]
  /\ Targets \subseteq Threads
  /\ {SpareLogger, CloseWakes, Verbose, SpawnMayFail} \subseteq BOOLEAN
  /\ MaxDatagrams \in Nat

VARIABLES
  pc,                  \* next statement of each context
  ret,                 \* where stop() returns to, per context
  on, thr,             \* of a delivery: the context it interrupts, its thread
  g_running, g_server, \* main.cpp globals; g_server: the pointer is not null
  running_,            \* SNMPServer::running_
  server_socket_,      \* SNMPServer::server_socket_ # -1
  fd_open,             \* the descriptor is open in the kernel
  joinable,            \* threads whose std::thread handle is joinable
  joiner,              \* the context inside pthread_join() of each thread
  logger_mutex,        \* holder of Logger::mutex_
  connections_mutex_,  \* holder of SNMPServer::connections_mutex_
  datagrams,           \* datagrams received so far
  code,                \* main()'s return value
  proc                 \* the process: "up", "exited" or "aborted"

flow    == <<pc, ret>>
signals == <<on, thr>>
flags   == <<g_running, g_server, running_>>
sock    == <<server_socket_, fd_open>>
handles == <<joinable, joiner>>
locks   == <<logger_mutex, connections_mutex_>>
env     == <<datagrams, code, proc>>
vars    == <<flow, signals, flags, sock, handles, locks, env>>

-----------------------------------------------------------------------------
(* Labels.                                                                 *)

MainLabel    == {"m_setup", "m_make", "m_init_log", "m_socket", "m_init_ok",
                 "m_init_bad", "m_start", "m_start_log", "m_flag", "m_spawn",
                 "m_started", "m_loop", "m_return", "m_members"}
StopLabel    == {"st_check", "st_log", "st_flag", "st_close", "st_close2",
                 "st_unset", "st_join_s", "st_join_w", "st_conn", "st_log2",
                 "st_unlock"}
ServerLabel  == {"s_hello", "s_check", "s_recv", "s_blocked", "s_send",
                 "s_err", "s_bye"}
WorkerLabel  == {"w_hello", "w_check", "w_bye"}
HandlerLabel == {"idle", "h_flag", "h_test", "h_ret", "done"}
Label == MainLabel \cup StopLabel \cup ServerLabel \cup WorkerLabel
           \cup HandlerLabel \cup {"off", "exit"}

LogPoint   == {"m_init_log", "m_init_ok", "m_init_bad", "m_start_log",
               "m_started", "st_log", "st_log2", "s_hello", "s_err", "s_bye",
               "w_hello", "w_bye"}
DebugPoint == {"w_hello", "w_bye"}

\* The statement after a log() call.
AfterLog(l) ==
  CASE l = "m_init_log"  -> "m_socket"
    [] l = "m_init_ok"   -> "m_start"
    [] l = "m_init_bad"  -> "m_return"
    [] l = "m_start_log" -> "m_flag"
    [] l = "m_started"   -> "m_loop"
    [] l = "st_log"      -> "st_flag"
    [] l = "st_log2"     -> "st_unlock"
    [] l \in {"s_hello", "s_err"} -> "s_check"
    [] l = "w_hello"     -> "w_check"
    [] OTHER             -> "exit"      \* s_bye, w_bye: the thread returns

-----------------------------------------------------------------------------
(* Contexts.                                                               *)

ThreadOf(c) == IF c \in Deliveries THEN thr[c] ELSE c

\* No handler is running on top of c.
OnTop(c) == \A h \in Deliveries : on[h] # c

Runs(c) == proc = "up" /\ OnTop(c)

At(c, l) == Runs(c) /\ pc[c] = l

Goto(c, l) == pc' = [pc EXCEPT ![c] = l] /\ UNCHANGED ret

\* Call SNMPServer::stop(), to return to r.
CallStop(c, r) == /\ pc'  = [pc  EXCEPT ![c] = "st_check"]
                  /\ ret' = [ret EXCEPT ![c] = r]

\* log() returns before the lock when the level is below the threshold.
Filtered(l) == l \in DebugPoint /\ ~Verbose

Init ==
  /\ pc  = [c \in Ctx |-> IF c = Main THEN "m_setup"
                          ELSE IF c \in Pool THEN "off" ELSE "idle"]
  /\ ret = [c \in Ctx |-> "h_ret"]
  /\ on  = [h \in Deliveries |-> NoCtx]
  /\ thr = [h \in Deliveries |-> NoCtx]
  /\ g_running = TRUE /\ g_server = FALSE /\ running_ = FALSE
  /\ server_socket_ = FALSE /\ fd_open = FALSE
  /\ joinable = {} /\ joiner = [t \in Pool |-> NoCtx]
  /\ logger_mutex = NoCtx /\ connections_mutex_ = NoCtx
  /\ datagrams = 0 /\ code = 0 /\ proc = "up"

-----------------------------------------------------------------------------
(* Logger::log().                                                          *)

LogAcquire(c) ==
  /\ Runs(c) /\ pc[c] \in LogPoint /\ ~Filtered(pc[c])
  /\ logger_mutex = NoCtx
  /\ logger_mutex' = c
  /\ UNCHANGED <<flow, signals, flags, sock, handles, connections_mutex_, env>>

LogRelease(c) ==
  /\ Runs(c) /\ logger_mutex = c
  /\ logger_mutex' = NoCtx
  /\ Goto(c, AfterLog(pc[c]))
  /\ UNCHANGED <<signals, flags, sock, handles, connections_mutex_, env>>

LogSkip(c) ==
  /\ Runs(c) /\ pc[c] \in LogPoint /\ Filtered(pc[c])
  /\ Goto(c, AfterLog(pc[c]))
  /\ UNCHANGED <<signals, flags, sock, handles, locks, env>>

-----------------------------------------------------------------------------
(* main(), SNMPServer::initialize() and SNMPServer::start().               *)

SetupSignalHandlers ==
  /\ At(Main, "m_setup")
  /\ Goto(Main, "m_make")
  /\ UNCHANGED <<signals, flags, sock, handles, locks, env>>

MakeServer ==
  /\ At(Main, "m_make")
  /\ g_server' = TRUE
  /\ Goto(Main, "m_init_log")
  /\ UNCHANGED <<signals, g_running, running_, sock, handles, locks, env>>

InitializeOk ==
  /\ At(Main, "m_socket")
  /\ server_socket_' = TRUE /\ fd_open' = TRUE
  /\ Goto(Main, "m_init_ok")
  /\ UNCHANGED <<signals, flags, handles, locks, env>>

\* socket() fails and leaves -1 behind; setsockopt() or bind() fails and the
\* descriptor is closed while the field keeps its number.
InitializeFails ==
  /\ At(Main, "m_socket")
  /\ server_socket_' \in BOOLEAN /\ UNCHANGED fd_open
  /\ code' = 1
  /\ Goto(Main, "m_init_bad")
  /\ UNCHANGED <<signals, flags, handles, locks, datagrams, proc>>

StartEnter ==
  /\ At(Main, "m_start")
  /\ Goto(Main, IF running_ THEN "m_loop" ELSE "m_start_log")
  /\ UNCHANGED <<signals, flags, sock, handles, locks, env>>

\* Mutant: start() creates the threads before it raises running_.
RaiseRunningLate ==
  /\ At(Main, "m_flag")
  /\ Goto(Main, "m_spawn")
  /\ UNCHANGED <<signals, flags, sock, handles, locks, env>>

RaiseRunning ==
  /\ At(Main, "m_flag")
  /\ running_' = TRUE
  /\ Goto(Main, "m_spawn")
  /\ UNCHANGED <<signals, g_running, g_server, sock, handles, locks, env>>

\* for (i = 0; i < thread_pool_size_; ++i) emplace_back(worker_thread).
SpawnWorker(w) ==
  /\ At(Main, "m_spawn") /\ pc[w] = "off"
  /\ \A v \in 1..(w - 1) : pc[v] # "off"
  /\ joinable' = joinable \cup {w}
  /\ Goto(w, "w_hello")
  /\ UNCHANGED <<signals, flags, sock, joiner, locks, env>>

SpawnServer ==
  /\ At(Main, "m_spawn") /\ \A w \in Workers : pc[w] # "off"
  /\ joinable' = joinable \cup {Server}
  /\ pc' = [pc EXCEPT ![Server] = "s_hello", ![Main] = "m_started"]
  /\ UNCHANGED <<ret, signals, flags, sock, joiner, locks, env>>

\* std::thread throws; main() catches it and returns 1.
SpawnFails ==
  /\ SpawnMayFail /\ At(Main, "m_spawn")
  /\ code' = 1
  /\ Goto(Main, "m_return")
  /\ UNCHANGED <<signals, flags, sock, handles, locks, datagrams, proc>>

\* Mutant: main() leaves the shutdown to the destructor of g_server.
LeaveMainLoopWithoutStop ==
  /\ At(Main, "m_loop") /\ ~g_running
  /\ Goto(Main, "m_return")
  /\ UNCHANGED <<signals, flags, sock, handles, locks, env>>

LeaveMainLoop ==
  /\ At(Main, "m_loop") /\ ~g_running
  /\ CallStop(Main, "m_return")
  /\ UNCHANGED <<signals, flags, sock, handles, locks, env>>

\* main() returns; g_server is destroyed, and ~SNMPServer() calls stop().
DestroyServer ==
  /\ At(Main, "m_return")
  /\ CallStop(Main, "m_members")
  /\ UNCHANGED <<signals, flags, sock, handles, locks, env>>

\* The members go next: destroying a joinable std::thread is std::terminate().
DestroyMembers ==
  /\ At(Main, "m_members")
  /\ proc' = IF joinable = {} THEN "exited" ELSE "aborted"
  /\ UNCHANGED <<flow, signals, flags, sock, handles, locks, datagrams, code>>

-----------------------------------------------------------------------------
(* SNMPServer::stop(), in context c.                                       *)

\* Mutant: stop() does not return early when the server is not running.
StopCheckNothing(c) ==
  /\ At(c, "st_check")
  /\ Goto(c, "st_log")
  /\ UNCHANGED <<signals, flags, sock, handles, locks, env>>

StopCheck(c) ==
  /\ At(c, "st_check")
  /\ Goto(c, IF running_ THEN "st_log" ELSE ret[c])
  /\ UNCHANGED <<signals, flags, sock, handles, locks, env>>

\* Mutant: stop() never lowers running_.
StopKeepsFlag(c) ==
  /\ At(c, "st_flag")
  /\ Goto(c, "st_close")
  /\ UNCHANGED <<signals, flags, sock, handles, locks, env>>

StopLowerFlag(c) ==
  /\ At(c, "st_flag")
  /\ running_' = FALSE
  /\ Goto(c, "st_close")
  /\ UNCHANGED <<signals, g_running, g_server, sock, handles, locks, env>>

StopTestSocket(c) ==
  /\ At(c, "st_close")
  /\ Goto(c, IF server_socket_ THEN "st_close2" ELSE "st_join_s")
  /\ UNCHANGED <<signals, flags, sock, handles, locks, env>>

StopCloseSocket(c) ==
  /\ At(c, "st_close2")
  /\ fd_open' = FALSE
  /\ Goto(c, "st_unset")
  /\ UNCHANGED <<signals, flags, server_socket_, handles, locks, env>>

StopUnsetSocket(c) ==
  /\ At(c, "st_unset")
  /\ server_socket_' = FALSE
  /\ Goto(c, "st_join_s")
  /\ UNCHANGED <<signals, flags, fd_open, handles, locks, env>>

\* The handle that the join statement at c's label comes to next, if any:
\* server_thread_, or the first of worker_threads_ that is joinable.
Joins(c) ==
  IF pc[c] = "st_join_s" THEN joinable \cap {Server}
  ELSE {w \in joinable \cap Workers : \A v \in 1..(w - 1) : v \notin joinable}

AtJoin(c) == Runs(c) /\ pc[c] \in {"st_join_s", "st_join_w"}

\* pthread_join() of oneself (EDEADLK) or of a thread that another context is
\* already joining (EINVAL): std::thread::join() throws.
JoinFails(c, t) == t = ThreadOf(c) \/ joiner[t] \notin {NoCtx, c}

JoinBegin(c, t) ==
  /\ AtJoin(c) /\ t \in Joins(c)
  /\ joiner[t] = NoCtx /\ ~JoinFails(c, t)
  /\ joiner' = [joiner EXCEPT ![t] = c]
  /\ UNCHANGED <<flow, signals, flags, sock, joinable, locks, env>>

\* Mutant: the thread is detached, not joined.
Detach(c, t) ==
  /\ AtJoin(c) /\ t \in Joins(c) /\ joiner[t] = c
  /\ joiner'   = [joiner EXCEPT ![t] = NoCtx]
  /\ joinable' = joinable \ {t}
  /\ UNCHANGED <<flow, signals, flags, sock, locks, env>>

JoinEnd(c, t) ==
  /\ AtJoin(c) /\ t \in Joins(c)
  /\ joiner[t] = c /\ pc[t] = "exit"
  /\ joiner'   = [joiner EXCEPT ![t] = NoCtx]
  /\ joinable' = joinable \ {t}
  /\ UNCHANGED <<flow, signals, flags, sock, locks, env>>

\* The exception of a failed join: main() catches it and returns 1; out of a
\* signal handler or a destructor it is std::terminate().
JoinThrows(c, t) ==
  /\ AtJoin(c) /\ t \in Joins(c) /\ JoinFails(c, t)
  /\ IF c = Main /\ ret[c] = "m_return"
       THEN /\ Goto(c, "m_return")
            /\ code' = 1 /\ UNCHANGED proc
       ELSE /\ proc' = "aborted"
            /\ UNCHANGED <<flow, code>>
  /\ UNCHANGED <<signals, flags, sock, handles, locks, datagrams>>

\* Mutant: stop() joins the server thread but not the workers.
JoinsServerOnly(c) ==
  /\ AtJoin(c) /\ (Joins(c) = {} \/ pc[c] = "st_join_w")
  /\ Goto(c, IF pc[c] = "st_join_s" THEN "st_join_w" ELSE "st_conn")
  /\ UNCHANGED <<signals, flags, sock, handles, locks, env>>

\* Nothing left to join: on to the workers, or clear() and on.
JoinsDone(c) ==
  /\ AtJoin(c) /\ Joins(c) = {}
  /\ Goto(c, IF pc[c] = "st_join_s" THEN "st_join_w" ELSE "st_conn")
  /\ UNCHANGED <<signals, flags, sock, handles, locks, env>>

\* connections_ is empty: nothing in the program ever fills it.
StopLockConnections(c) ==
  /\ At(c, "st_conn")
  /\ connections_mutex_ = NoCtx
  /\ connections_mutex_' = c
  /\ Goto(c, "st_log2")
  /\ UNCHANGED <<signals, flags, sock, handles, logger_mutex, env>>

StopReturn(c) ==
  /\ At(c, "st_unlock")
  /\ connections_mutex_' = NoCtx
  /\ Goto(c, ret[c])
  /\ UNCHANGED <<signals, flags, sock, handles, logger_mutex, env>>

-----------------------------------------------------------------------------
(* signal_handler(), as delivery h on top of context c.                    *)

\* A thread that runs the handler of a signal has that signal blocked.
Blocked(h, t) == \E k \in Deliveries : thr[k] = t /\ SigOf[k] = SigOf[h]

\* The switch over the signal: SIGHUP is printed and does nothing yet.
Entry(h) == IF SigOf[h] = "HUP" THEN "h_ret" ELSE "h_flag"

\* recvfrom() is restarted when the handler returns (SA_RESTART).
Deliver(h, c) ==
  /\ Runs(c) /\ pc[h] = "idle" /\ pc[Main] # "m_setup"
  /\ pc[c] \notin {"off", "exit", "idle", "done"} \cup Masked
  /\ ThreadOf(c) \in Targets /\ ~Blocked(h, ThreadOf(c))
  /\ SpareLogger => logger_mutex # c
  /\ on'  = [on  EXCEPT ![h] = c]
  /\ thr' = [thr EXCEPT ![h] = ThreadOf(c)]
  /\ pc'  = [pc  EXCEPT ![h] = Entry(h),
                        ![c] = IF @ = "s_blocked" THEN "s_recv" ELSE @]
  /\ UNCHANGED <<ret, flags, sock, handles, locks, env>>

\* Mutant: the handler stops the server and leaves main() in its loop.
HandlerKeepsFlag(h) ==
  /\ At(h, "h_flag")
  /\ Goto(h, "h_test")
  /\ UNCHANGED <<signals, flags, sock, handles, locks, env>>

HandlerLowerFlag(h) ==
  /\ At(h, "h_flag")
  /\ g_running' = FALSE
  /\ Goto(h, "h_test")
  /\ UNCHANGED <<signals, g_server, running_, sock, handles, locks, env>>

HandlerStop(h) ==
  /\ At(h, "h_test")
  /\ IF g_server THEN CallStop(h, "h_ret") ELSE Goto(h, "h_ret")
  /\ UNCHANGED <<signals, flags, sock, handles, locks, env>>

HandlerReturn(h) ==
  /\ At(h, "h_ret")
  /\ on'  = [on  EXCEPT ![h] = NoCtx]
  /\ thr' = [thr EXCEPT ![h] = NoCtx]
  /\ Goto(h, "done")
  /\ UNCHANGED <<flags, sock, handles, locks, env>>

-----------------------------------------------------------------------------
(* SNMPServer::server_loop() and SNMPServer::worker_thread().              *)

ServerCheck ==
  /\ At(Server, "s_check")
  /\ Goto(Server, IF running_ THEN "s_recv" ELSE "s_bye")
  /\ UNCHANGED <<signals, flags, sock, handles, locks, env>>

\* recvfrom() failed: logged only while the server runs.
RecvError == Goto(Server, IF running_ THEN "s_err" ELSE "s_check")

ServerRecv ==
  /\ At(Server, "s_recv")
  /\ IF server_socket_ /\ fd_open THEN Goto(Server, "s_blocked") ELSE RecvError
  /\ UNCHANGED <<signals, flags, sock, handles, locks, env>>

ServerWoken ==
  /\ At(Server, "s_blocked") /\ CloseWakes /\ ~fd_open
  /\ RecvError
  /\ UNCHANGED <<signals, flags, sock, handles, locks, env>>

\* Mutant: recvfrom() returning 0 ends the loop, as it would on a stream.
ServerDatagramEnds ==
  /\ At(Server, "s_blocked") /\ (fd_open \/ ~CloseWakes)
  /\ datagrams < MaxDatagrams
  /\ datagrams' = datagrams + 1
  /\ \E l \in {"s_check", "s_err", "s_send", "s_bye"} : Goto(Server, l)
  /\ UNCHANGED <<signals, flags, sock, handles, locks, code, proc>>

\* A datagram arrives: it is empty (ignored), rejected with a log line, or
\* processed up to its response.  A recvfrom() that close() did not wake still
\* holds the socket and receives.
ServerDatagram ==
  /\ At(Server, "s_blocked") /\ (fd_open \/ ~CloseWakes)
  /\ datagrams < MaxDatagrams
  /\ datagrams' = datagrams + 1
  /\ \E l \in {"s_check", "s_err", "s_send"} : Goto(Server, l)
  /\ UNCHANGED <<signals, flags, sock, handles, locks, code, proc>>

ServerSend ==
  /\ At(Server, "s_send")
  /\ Goto(Server, IF server_socket_ /\ fd_open THEN "s_check" ELSE "s_err")
  /\ UNCHANGED <<signals, flags, sock, handles, locks, env>>

WorkerCheck(w) ==
  /\ At(w, "w_check") /\ ~running_
  /\ Goto(w, "w_bye")
  /\ UNCHANGED <<signals, flags, sock, handles, locks, env>>

\* The 100 ms sleeps of main()'s and worker_thread()'s loops.
Sleep(c) ==
  /\ \/ At(c, "m_loop") /\ g_running
     \/ At(c, "w_check") /\ running_
  /\ UNCHANGED vars

Gone == proc # "up" /\ UNCHANGED vars

-----------------------------------------------------------------------------
Log(c) == LogAcquire(c) \/ LogRelease(c) \/ LogSkip(c)

Stop(c) ==
  \/ StopCheck(c) \/ StopLowerFlag(c) \/ StopTestSocket(c)
  \/ StopCloseSocket(c) \/ StopUnsetSocket(c)
  \/ \E t \in Pool : JoinBegin(c, t) \/ JoinEnd(c, t) \/ JoinThrows(c, t)
  \/ JoinsDone(c) \/ StopLockConnections(c) \/ StopReturn(c)

MainStep ==
  \/ SetupSignalHandlers \/ MakeServer \/ InitializeOk \/ InitializeFails
  \/ StartEnter \/ RaiseRunning
  \/ \E w \in Workers : SpawnWorker(w)
  \/ SpawnServer \/ SpawnFails \/ LeaveMainLoop \/ DestroyServer
  \/ DestroyMembers

HandlerStep(h) == HandlerLowerFlag(h) \/ HandlerStop(h) \/ HandlerReturn(h)

ServerStep == ServerCheck \/ ServerRecv \/ ServerWoken \/ ServerSend

Arrival == \E h \in Deliveries, c \in Ctx : Deliver(h, c)

Next ==
  \/ MainStep \/ ServerStep \/ ServerDatagram \/ Arrival \/ Gone
  \/ \E w \in Workers : WorkerCheck(w)
  \/ \E h \in Deliveries : HandlerStep(h)
  \/ \E c \in Ctx : Log(c) \/ Stop(c) \/ Sleep(c)

Spec == Init /\ [][Next]_vars

\* The scheduler runs every context that can take a step; signals and
\* datagrams need not arrive.
Fairness ==
  /\ WF_vars(MainStep) /\ WF_vars(ServerStep)
  /\ \A w \in Workers : WF_vars(WorkerCheck(w))
  /\ \A h \in Deliveries : WF_vars(HandlerStep(h))
  /\ \A c \in Ctx : WF_vars(Log(c)) /\ WF_vars(Stop(c))

FairSpec == Spec /\ Fairness

-----------------------------------------------------------------------------
(* Properties.                                                             *)

TypeOK ==
  /\ pc \in [Ctx -> Label] /\ ret \in [Ctx -> {"h_ret", "m_return", "m_members"}]
  /\ on \in [Deliveries -> Ctx \cup {NoCtx}]
  /\ thr \in [Deliveries -> Threads \cup {NoCtx}]
  /\ g_running \in BOOLEAN /\ g_server \in BOOLEAN /\ running_ \in BOOLEAN
  /\ server_socket_ \in BOOLEAN /\ fd_open \in BOOLEAN
  /\ joinable \subseteq Pool
  /\ joiner \in [Pool -> Ctx \cup {NoCtx}]
  /\ logger_mutex \in Ctx \cup {NoCtx}
  /\ connections_mutex_ \in Ctx \cup {NoCtx}
  /\ datagrams \in 0..MaxDatagrams /\ code \in {0, 1}
  /\ proc \in {"up", "exited", "aborted"}

Live(t) == pc[t] \notin {"off", "exit"}

\* A process that exits, whatever signals interrupted which threads and
\* whichever calls of stop() overlapped, leaves no thread running behind
\* main() and no std::thread unjoined: nobody uses the destroyed SNMPServer.
ExitMeansQuiescent ==
  proc = "exited" => joinable = {} /\ \A t \in Pool : ~Live(t)

\* While main() sleeps in its loop and no shutdown was requested, the daemon
\* really serves: running_ is up, the socket is open and bound to the field,
\* and the server thread and every worker are alive.  (Otherwise the process
\* would look healthy to its supervisor for ever and answer nobody.)
UpMeansServing ==
  pc[Main] = "m_loop" /\ g_running =>
    /\ running_ /\ server_socket_ /\ fd_open
    /\ \A t \in Pool : Live(t) /\ t \in joinable

\* stop() is called by main(), by ~SNMPServer() and by nested signal handlers:
\* at any time at most one of the calls is past `running_ = false'.
StopBody == StopLabel \ {"st_check", "st_log", "st_flag"}
StopOnce ==
  \A c, d \in Ctx : pc[c] \in StopBody /\ pc[d] \in StopBody => c = d

\* The close() of stop() is never applied to a descriptor that another call
\* of stop() has already closed (by then the number may be someone else's).
ClosesOnce == \A c \in Ctx : pc[c] = "st_close2" => fd_open

\* The process never dies of std::terminate(): the shutdown that main.cpp
\* announces and the CLI guide documents is a graceful one.
NeverAborts == proc # "aborted"

\* No handler waits for the Logger's mutex while the thread it interrupted
\* holds it: such a thread would wait for itself for ever.
NoLogSelfDeadlock ==
  \A c \in Ctx : pc[c] \in LogPoint /\ ~Filtered(pc[c]) /\ OnTop(c)
                   /\ logger_mutex \notin {NoCtx, c}
                 => ThreadOf(logger_mutex) # ThreadOf(c)

\* Static destruction runs backwards: the Logger dies before g_server, whose
\* destructor calls stop() once more.  By then stop() has nothing to do and no
\* thread is left, so nobody logs to the destroyed Logger.
LoggerOutlivesUse ==
  ret[Main] = "m_members" => \A c \in Ctx : Runs(c) => pc[c] \notin LogPoint

\* A shutdown that SIGINT or SIGTERM requested completes: the process ends.
ShutdownCompletes == ~g_running ~> proc # "up"

-----------------------------------------------------------------------------
(* The inductive invariant behind ExitMeansQuiescent and UpMeansServing.    *)

\* Each context stays in its own code; pool threads never call stop().
OwnCode ==
  /\ pc[Main] \in MainLabel \cup StopLabel
  /\ pc[Server] \in ServerLabel \cup {"off", "exit"}
  /\ \A w \in Workers : pc[w] \in WorkerLabel \cup {"off", "exit"}
  /\ \A h \in Deliveries : pc[h] \in HandlerLabel \cup StopLabel
  /\ \A h \in Deliveries : ret[h] = "h_ret"
  /\ pc[Main] \in StopLabel => ret[Main] \in {"m_return", "m_members"}

HolderLogs ==
  logger_mutex # NoCtx =>
    pc[logger_mutex] \in LogPoint /\ ~Filtered(pc[logger_mutex])

\* A handler stops the server only after it lowered g_running.
AskedFirst ==
  \A h \in Deliveries : pc[h] \in StopLabel \cup {"h_test"} => ~g_running

\* Where main() is before start() raises running_, and from then on.
Unstarted == {"m_setup", "m_make", "m_init_log", "m_socket", "m_init_ok",
              "m_init_bad", "m_start", "m_start_log", "m_flag"}
Started   == {"m_spawn", "m_started", "m_loop"}
Bound     == {"m_init_ok", "m_start", "m_start_log", "m_flag"} \cup Started

FreshUntilFlag ==
  pc[Main] \in Unstarted => ~running_ /\ \A t \in Pool : pc[t] = "off"

SocketWhileAsked == g_running /\ pc[Main] \in Bound => server_socket_ /\ fd_open

ServingUnlessAsked ==
  g_running /\ pc[Main] \in Started =>
    running_ /\ \A t \in Pool : pc[t] \notin {"s_bye", "w_bye", "exit"}

AllSpawned ==
  pc[Main] \in {"m_started", "m_loop"} => \A t \in Pool : pc[t] # "off"

\* The destructor sees every thread that may still run.
LiveIsJoinable == \A t \in Pool : Live(t) => t \in joinable
ExitIsClean    == proc = "exited" => joinable = {}

IInv == /\ TypeOK /\ OwnCode /\ HolderLogs /\ AskedFirst
        /\ FreshUntilFlag /\ SocketWhileAsked /\ ServingUnlessAsked
        /\ AllSpawned /\ LiveIsJoinable /\ ExitIsClean

=============================================================================
