---------------------------- MODULE WindowsService ----------------------------
(***************************************************************************)
(* The Windows service wrapper: one process that starts the daemon as its  *)
(* child.  Run by the service control manager (SCM) it has three threads:  *)
(* ServiceMain(), ServiceWorkerThread() and the dispatcher's, which calls  *)
(* ServiceCtrlHandler() for one control at a time.  With --console wmain() *)
(* takes the place of the first two and Ctrl+C that of a control.  The     *)
(* threads share the status, the stop event and the child's handle, and no *)
(* lock: each access is a step.                                            *)
(***************************************************************************)
EXTENDS Naturals

CONSTANT Accepted   \* the controls named by dwControlsAccepted.  The code
                    \* never assigns the field: as built this is {}

Stops    == {"STOP", "SHUTDOWN"}
Controls == Stops \cup {"PAUSE", "CONTINUE", "INTERROGATE"}
Threads  == {"main", "worker", "handler"}

ASSUME ServiceAssumption == Accepted \subseteq Controls

VARIABLES
  console,             \* started with --console
  pc,                  \* next statement of each thread
  dwCurrentState,      \* g_ServiceStatus.dwCurrentState
  g_ServiceStopEvent,  \* "none" yet, "null", "unset", "set" or "closed"
  hProcess,            \* g_ProcessInfo.hProcess: "null", "open" or "closed"
  control,             \* what the handler was last called with
  scm,                 \* the state the SCM holds the service to be in
  child,               \* the daemon: "none", "alive", "dying" or "dead"
  wrapper,             \* this process: "up", "exited" or "killed"
  missed               \* StopSNMPDaemon() came before the handle was there

status == <<dwCurrentState, scm>>
shared == <<g_ServiceStopEvent, hProcess>>
procs  == <<child, wrapper>>
hist   == <<console, control, missed>>
vars   == <<console, pc, dwCurrentState, g_ServiceStopEvent, hProcess, control,
            scm, child, wrapper, missed>>

-----------------------------------------------------------------------------
(* Labels.                                                                 *)

Starting    == {"find", "create", "store"}         \* in StartSNMPDaemon()
BeforeRun   == {"m_register", "m_pending", "m_pending_r", "m_event",
                "m_thread", "m_running"}
MainLabel   == BeforeRun \cup {"m_running_r", "m_wait", "m_close", "m_stopped",
                "m_stopped_r", "c_handler", "c_wait", "c_waiting", "c_exit"}
WorkerLabel == {"w_failed", "w_failed_r", "w_wait", "w_check", "w_probe"}
StopLabel   == {"h_check", "h_terminate", "h_wait", "h_close", "h_null",
                "h_signal"}
HandlerLabel == {"h_enter", "h_stopping_r", "h_report", "idle"} \cup StopLabel
Label == Starting \cup MainLabel \cup WorkerLabel \cup HandlerLabel
           \cup {"off", "done", "gaveup"}

\* The statement after SetServiceStatus(g_StatusHandle, &g_ServiceStatus).
ReportPoint == {"m_pending_r", "m_running_r", "m_stopped_r", "w_failed_r",
                "h_stopping_r", "h_report"}
AfterReport(l) ==
  CASE l = "m_pending_r"  -> "m_event"
    [] l = "m_running_r"  -> "m_wait"
    [] l = "m_stopped_r"  -> "done"
    [] l = "w_failed_r"   -> "gaveup"
    [] l = "h_stopping_r" -> "h_check"
    [] OTHER              -> "idle"

Starter == IF console THEN "main" ELSE "worker"

At(t, l)   == wrapper = "up" /\ pc[t] = l
Goto(t, l) == pc' = [pc EXCEPT ![t] = l]

Init ==
  /\ console \in BOOLEAN
  /\ pc = [t \in Threads |-> IF t # "main" THEN "off"
                             ELSE IF console THEN "find" ELSE "m_register"]
  /\ dwCurrentState = "none" /\ scm = "START_PENDING"
  /\ g_ServiceStopEvent = "none" /\ hProcess = "null"
  /\ control = "INTERROGATE" /\ child = "none" /\ wrapper = "up"
  /\ missed = FALSE

-----------------------------------------------------------------------------
(* ServiceMain().                                                          *)

\* StartServiceCtrlDispatcher() fails: wmain() returns 1.
DispatcherFails ==
  /\ At("main", "m_register")
  /\ wrapper' = "exited"
  /\ UNCHANGED <<pc, status, shared, child, hist>>

RegisterHandler ==
  /\ At("main", "m_register")
  /\ pc' = [pc EXCEPT !["main"] = "m_pending", !["handler"] = "idle"]
  /\ UNCHANGED <<status, shared, procs, hist>>

RegisterFails ==
  /\ At("main", "m_register")
  /\ Goto("main", "done")
  /\ UNCHANGED <<status, shared, procs, hist>>

AssignPending ==
  /\ At("main", "m_pending")
  /\ dwCurrentState' = "START_PENDING"
  /\ Goto("main", "m_pending_r")
  /\ UNCHANGED <<scm, shared, procs, hist>>

\* SetServiceStatus() by thread t: the SCM takes over whatever the shared
\* structure holds by now; a stopped service's reports come to nothing.
Report(t) ==
  /\ wrapper = "up" /\ pc[t] \in ReportPoint
  /\ scm' = IF scm = "STOPPED" THEN scm ELSE dwCurrentState
  /\ Goto(t, AfterReport(pc[t]))
  /\ UNCHANGED <<dwCurrentState, shared, procs, hist>>

CreateStopEvent ==
  /\ At("main", "m_event")
  /\ g_ServiceStopEvent' = "unset"
  /\ Goto("main", "m_thread")
  /\ UNCHANGED <<status, hProcess, procs, hist>>

CreateEventFails ==
  /\ At("main", "m_event")
  /\ g_ServiceStopEvent' = "null" /\ dwCurrentState' = "STOPPED"
  /\ Goto("main", "m_stopped_r")
  /\ UNCHANGED <<scm, hProcess, procs, hist>>

StartWorker ==
  /\ At("main", "m_thread")
  /\ pc' = [pc EXCEPT !["main"] = "m_running", !["worker"] = "find"]
  /\ UNCHANGED <<status, shared, procs, hist>>

CreateThreadFails ==
  /\ At("main", "m_thread")
  /\ g_ServiceStopEvent' = "closed" /\ dwCurrentState' = "STOPPED"
  /\ Goto("main", "m_stopped_r")
  /\ UNCHANGED <<scm, hProcess, procs, hist>>

\* The worker may be anywhere in StartSNMPDaemon(), or have failed.
AssignRunning ==
  /\ At("main", "m_running")
  /\ dwCurrentState' = "RUNNING"
  /\ Goto("main", "m_running_r")
  /\ UNCHANGED <<scm, shared, procs, hist>>

WaitForStop ==
  /\ At("main", "m_wait") /\ g_ServiceStopEvent = "set"
  /\ Goto("main", "m_close")
  /\ UNCHANGED <<status, shared, procs, hist>>

CloseEvent ==
  /\ At("main", "m_close")
  /\ g_ServiceStopEvent' = "closed"
  /\ Goto("main", "m_stopped")
  /\ UNCHANGED <<status, hProcess, procs, hist>>

AssignStopped ==
  /\ At("main", "m_stopped")
  /\ dwCurrentState' = "STOPPED"
  /\ Goto("main", "m_stopped_r")
  /\ UNCHANGED <<scm, shared, procs, hist>>

\* The dispatcher returns once the service is stopped, and wmain() after it.
DispatcherReturns ==
  /\ wrapper = "up" /\ ~console /\ scm = "STOPPED"
  /\ wrapper' = "exited"
  /\ UNCHANGED <<pc, status, shared, child, hist>>

-----------------------------------------------------------------------------
(* StartSNMPDaemon(), called by t, and the thread that watches the child.  *)

FindDaemon(t) ==
  /\ At(t, "find")
  /\ Goto(t, "create")
  /\ UNCHANGED <<status, shared, procs, hist>>

\* The executable is missing or CreateProcess() fails.
StartDaemonFails(t) ==
  /\ wrapper = "up" /\ pc[t] \in {"find", "create"}
  /\ Goto(t, IF console THEN "c_exit" ELSE "w_failed")
  /\ UNCHANGED <<status, shared, procs, hist>>

\* CreateProcess(): the child runs before its handle is in g_ProcessInfo.
CreateDaemon(t) ==
  /\ At(t, "create")
  /\ child' = "alive"
  /\ Goto(t, "store")
  /\ UNCHANGED <<status, shared, wrapper, hist>>

StoreHandle(t) ==
  /\ At(t, "store")
  /\ hProcess' = "open"
  /\ Goto(t, IF console THEN "c_handler" ELSE "w_wait")
  /\ UNCHANGED <<status, g_ServiceStopEvent, procs, hist>>

WorkerFails ==
  /\ At("worker", "w_failed")
  /\ dwCurrentState' = "STOPPED"
  /\ Goto("worker", "w_failed_r")
  /\ UNCHANGED <<scm, shared, procs, hist>>

\* Set, or closed by ServiceMain() in the meantime, which fails the wait.
WorkerStops ==
  /\ At("worker", "w_wait") /\ g_ServiceStopEvent \in {"set", "closed"}
  /\ Goto("worker", "done")
  /\ UNCHANGED <<status, shared, procs, hist>>

\* A second has passed; the handle is read twice, to test it and to wait on it.
WorkerTimesOut ==
  /\ At("worker", "w_wait") /\ g_ServiceStopEvent = "unset"
  /\ Goto("worker", "w_check")
  /\ UNCHANGED <<status, shared, procs, hist>>

WorkerTestsHandle ==
  /\ At("worker", "w_check")
  /\ Goto("worker", IF hProcess # "null" THEN "w_probe" ELSE "w_wait")
  /\ UNCHANGED <<status, shared, procs, hist>>

\* A null or closed handle fails the wait, and the loop goes on.
WorkerProbes ==
  /\ At("worker", "w_probe")
  /\ Goto("worker", IF hProcess = "open" /\ child = "dead" THEN "done"
                    ELSE "w_wait")
  /\ UNCHANGED <<status, shared, procs, hist>>

-----------------------------------------------------------------------------
(* ServiceCtrlHandler() and StopSNMPDaemon().                              *)

\* The SCM passes on what the service accepts, while it is running or paused,
\* and one control after the other.
Deliver(c) ==
  /\ wrapper = "up" /\ ~console /\ pc["handler"] = "idle"
  /\ c \in Accepted \cup {"INTERROGATE"} /\ scm \in {"RUNNING", "PAUSED"}
  /\ control' = c
  /\ Goto("handler", "h_enter")
  /\ UNCHANGED <<status, shared, procs, console, missed>>

\* Mutant: a stop is not announced before it is carried out.
StopUnannounced ==
  /\ At("handler", "h_enter") /\ control \in Stops
  /\ Goto("handler", "h_stopping_r")
  /\ UNCHANGED <<status, shared, procs, hist>>

\* Mutant: the event is set before the daemon is stopped.
StopSignalsFirst ==
  /\ At("handler", "h_enter") /\ control \in Stops
  /\ dwCurrentState' = "STOP_PENDING" /\ g_ServiceStopEvent' = "set"
  /\ Goto("handler", "h_stopping_r")
  /\ UNCHANGED <<scm, hProcess, procs, hist>>

\* Mutant: the service says at once that it is stopped.
StoppedAtOnce ==
  /\ At("handler", "h_enter") /\ control \in Stops
  /\ dwCurrentState' = "STOPPED"
  /\ Goto("handler", "h_stopping_r")
  /\ UNCHANGED <<scm, shared, procs, hist>>

StopRequested ==
  /\ At("handler", "h_enter") /\ control \in Stops
  /\ dwCurrentState' = "STOP_PENDING"
  /\ Goto("handler", "h_stopping_r")
  /\ UNCHANGED <<scm, shared, procs, hist>>

PauseOrContinue ==
  /\ At("handler", "h_enter") /\ control \in {"PAUSE", "CONTINUE"}
  /\ dwCurrentState' = IF control = "PAUSE" THEN "PAUSED" ELSE "RUNNING"
  /\ Goto("handler", "h_report")
  /\ UNCHANGED <<scm, shared, procs, hist>>

Interrogated ==
  /\ At("handler", "h_enter") /\ control = "INTERROGATE"
  /\ Goto("handler", "h_report")
  /\ UNCHANGED <<status, shared, procs, hist>>

\* Where StopSNMPDaemon() returns to.
AfterStop == IF console THEN "idle" ELSE "h_signal"

StopTestsHandle ==
  /\ At("handler", "h_check")
  /\ Goto("handler", IF hProcess # "null" THEN "h_terminate" ELSE AfterStop)
  /\ missed' = (missed \/ (hProcess = "null" /\ pc[Starter] \in Starting))
  /\ UNCHANGED <<status, shared, procs, console, control>>

\* TerminateProcess() fails on a process that has ended already.
Terminate ==
  /\ At("handler", "h_terminate")
  /\ \/ child = "alive" /\ child' = "dying" /\ Goto("handler", "h_wait")
     \/ child # "alive" /\ UNCHANGED child /\ Goto("handler", "h_close")
  /\ UNCHANGED <<status, shared, wrapper, hist>>

\* The child has ended or five seconds have passed.
WaitForDaemon ==
  /\ At("handler", "h_wait")
  /\ Goto("handler", "h_close")
  /\ UNCHANGED <<status, shared, procs, hist>>

CloseHandles ==
  /\ At("handler", "h_close")
  /\ hProcess' = "closed"
  /\ Goto("handler", "h_null")
  /\ UNCHANGED <<status, g_ServiceStopEvent, procs, hist>>

\* Mutant: the closed handles stay in g_ProcessInfo.
KeepHandles ==
  /\ At("handler", "h_null")
  /\ Goto("handler", AfterStop)
  /\ UNCHANGED <<status, shared, procs, hist>>

ForgetHandles ==
  /\ At("handler", "h_null")
  /\ hProcess' = "null"
  /\ Goto("handler", AfterStop)
  /\ UNCHANGED <<status, g_ServiceStopEvent, procs, hist>>

\* Mutant: SERVICE_CONTROL_SHUTDOWN only stops the daemon.
SignalStopOnly ==
  /\ At("handler", "h_signal")
  /\ g_ServiceStopEvent' = IF control = "STOP" THEN "set"
                           ELSE g_ServiceStopEvent
  /\ Goto("handler", "idle")
  /\ UNCHANGED <<status, hProcess, procs, hist>>

SignalStop ==
  /\ At("handler", "h_signal")
  /\ g_ServiceStopEvent' = "set"
  /\ Goto("handler", "idle")
  /\ UNCHANGED <<status, hProcess, procs, hist>>

-----------------------------------------------------------------------------
(* wmain() with --console.                                                 *)

SetConsoleHandler ==
  /\ At("main", "c_handler")
  /\ pc' = [pc EXCEPT !["main"] = "c_wait", !["handler"] = "idle"]
  /\ UNCHANGED <<status, shared, procs, hist>>

\* The wait fails at once on a handle that is no longer there.
ConsoleWait ==
  /\ At("main", "c_wait")
  /\ Goto("main", IF hProcess = "open" THEN "c_waiting" ELSE "c_exit")
  /\ UNCHANGED <<status, shared, procs, hist>>

ConsoleWakes ==
  /\ At("main", "c_waiting") /\ child = "dead"
  /\ Goto("main", "c_exit")
  /\ UNCHANGED <<status, shared, procs, hist>>

ConsoleReturns ==
  /\ At("main", "c_exit")
  /\ wrapper' = "exited"
  /\ UNCHANGED <<pc, status, shared, child, hist>>

CtrlC ==
  /\ console /\ At("handler", "idle")
  /\ control' = "STOP"
  /\ Goto("handler", "h_check")
  /\ UNCHANGED <<status, shared, procs, console, missed>>

\* Ctrl+C before the handler is set, or an event it answers with FALSE.
ConsoleKilled ==
  /\ console /\ wrapper = "up" /\ pc["handler"] \in {"off", "idle"}
  /\ wrapper' = "killed"
  /\ UNCHANGED <<pc, status, shared, child, hist>>

-----------------------------------------------------------------------------
(* The daemon, and the specification.                                      *)

DaemonExits ==
  /\ child = "alive" /\ child' = "dead"
  /\ UNCHANGED <<pc, status, shared, wrapper, hist>>

DaemonDies ==
  /\ child = "dying" /\ child' = "dead"
  /\ UNCHANGED <<pc, status, shared, wrapper, hist>>

MainStep ==
  \/ RegisterHandler \/ RegisterFails \/ DispatcherFails \/ AssignPending
  \/ CreateStopEvent \/ CreateEventFails \/ StartWorker \/ CreateThreadFails
  \/ AssignRunning \/ WaitForStop \/ CloseEvent \/ AssignStopped
  \/ SetConsoleHandler \/ ConsoleWait \/ ConsoleWakes \/ ConsoleReturns

WorkerStep == \/ WorkerFails \/ WorkerStops \/ WorkerTimesOut
              \/ WorkerTestsHandle \/ WorkerProbes

HandlerStep ==
  \/ StopRequested \/ PauseOrContinue \/ Interrogated \/ StopTestsHandle
  \/ Terminate \/ WaitForDaemon \/ CloseHandles \/ ForgetHandles \/ SignalStop

StartStep(t) == FindDaemon(t) \/ StartDaemonFails(t) \/ CreateDaemon(t)
                  \/ StoreHandle(t)

Environment == \/ CtrlC \/ ConsoleKilled \/ DaemonExits
               \/ \E c \in Controls : Deliver(c)

Next == \/ MainStep \/ WorkerStep \/ HandlerStep
        \/ \E t \in {"main", "worker"} : StartStep(t)
        \/ \E t \in Threads : Report(t)
        \/ DispatcherReturns \/ DaemonDies \/ Environment

\* Every thread goes on while it can, the dispatcher returns, and a process that
\* was told to terminate does.
Fairness ==
  /\ WF_vars(MainStep \/ StartStep("main") \/ Report("main"))
  /\ WF_vars(WorkerStep \/ StartStep("worker") \/ Report("worker"))
  /\ WF_vars(HandlerStep \/ Report("handler"))
  /\ WF_vars(DispatcherReturns) /\ WF_vars(DaemonDies)

Spec     == Init /\ [][Next]_vars
FairSpec == Spec /\ Fairness

-----------------------------------------------------------------------------
(* Properties.                                                             *)

ServiceState == {"START_PENDING", "RUNNING", "PAUSED", "STOP_PENDING",
                 "STOPPED"}

\* The type of every variable; the SCM only ever hears of a state it knows.
TypeOK ==
  /\ console \in BOOLEAN /\ missed \in BOOLEAN
  /\ pc \in [Threads -> Label]
  /\ dwCurrentState \in ServiceState \cup {"none"} /\ scm \in ServiceState
  /\ g_ServiceStopEvent \in {"none", "null", "unset", "set", "closed"}
  /\ hProcess \in {"null", "open", "closed"}
  /\ control \in Controls
  /\ child \in {"none", "alive", "dying", "dead"}
  /\ wrapper \in {"up", "exited", "killed"}

\* The handler sets the stop event once, and ServiceMain() has not closed it:
\* what ServiceCtrlHandler() relies on, which tests neither.
EventIsOpen == pc["handler"] = "h_signal" => g_ServiceStopEvent = "unset"

\* StopSNMPDaemon() tests the handle once and uses it three times: no use of it
\* is of a handle that is closed, whatever the other threads did in between.
HandleIsOpen ==
  pc["handler"] \in {"h_terminate", "h_wait", "h_close"} => hProcess = "open"

\* The wrapper leaves no daemon running behind it, unless it was told to stop
\* before StartSNMPDaemon() had the handle (the wait after TerminateProcess()
\* may run out, with a child that is sure to die).
ExitedMeansGone == wrapper = "exited" /\ ~missed => child # "alive"

\* Once the handler has begun to stop the service, the wrapper exits.
StopCompletes ==
  (~console /\ pc["handler"] \in StopLabel) ~> (wrapper = "exited")

\* A daemon that ended by itself is not kept from the SCM, whose failure actions
\* are to restart the service (deployment/windows/install-service.bat).
CrashIsReported ==
  [](~console /\ child = "dead" => <>(scm = "STOPPED" \/ wrapper = "exited"))

-----------------------------------------------------------------------------
(* The inductive invariant.                                                *)

\* Each thread is where its mode and its predecessors let it be.
ThreadsFit ==
  /\ pc["worker"] \in Starting \cup WorkerLabel \cup {"off", "done", "gaveup"}
  /\ pc["handler"] \in HandlerLabel \cup {"off"}
  /\ pc["main"] \in MainLabel \cup Starting \cup {"done"}
  /\ console => /\ pc["worker"] = "off"
                /\ pc["main"] \in Starting \cup {"c_handler", "c_wait",
                                                 "c_waiting", "c_exit"}
                /\ pc["handler"] \in StopLabel \cup {"off", "idle"}
                /\ pc["handler"] # "h_signal"
  /\ ~console => pc["main"] \in (BeforeRun \cup {"m_running_r", "m_wait",
                     "m_close", "m_stopped", "m_stopped_r", "done"})
  /\ pc["main"] \in Starting \cup {"c_handler"} => pc["handler"] = "off"

\* The first report follows the first assignment, and until ServiceMain() has
\* assigned RUNNING nobody is called with a control.
QuietUntilRunning ==
  /\ ~console /\ dwCurrentState = "none" =>
       /\ pc["main"] \in {"m_register", "m_pending", "done"}
       /\ pc["worker"] = "off" /\ pc["handler"] \in {"off", "idle"}
       /\ scm = "START_PENDING"
  /\ pc["main"] \in {"m_register", "m_pending"} => dwCurrentState = "none"
  /\ pc["main"] \in BeforeRun =>
       /\ pc["handler"] \in {"off", "idle"}
       /\ dwCurrentState \notin {"RUNNING", "PAUSED", "STOP_PENDING"}
       /\ scm \notin {"RUNNING", "PAUSED", "STOP_PENDING"}
  /\ pc["main"] \in BeforeRun \ {"m_running"} =>
       /\ dwCurrentState # "STOPPED" /\ scm # "STOPPED"
       /\ pc["worker"] = "off"
  /\ pc["main"] \in {"m_register", "m_pending", "m_pending_r", "m_event"} =>
       g_ServiceStopEvent = "none"
  /\ pc["main"] \in {"m_thread", "m_running", "m_running_r"} =>
       g_ServiceStopEvent \in {"unset", "set"}
  /\ pc["main"] \in {"m_thread", "m_running"} => g_ServiceStopEvent = "unset"
  /\ pc["main"] \in {"m_close", "m_stopped"} =>
       g_ServiceStopEvent \in {"set", "closed"}

\* ServiceMain() has made its thread before it goes on, and not when it failed.
WorkerIsThere ==
  /\ pc["main"] \in {"m_running", "m_running_r", "m_wait", "m_close", "m_stopped"}
       => pc["worker"] # "off"
  /\ ~console /\ pc["handler"] \notin {"off", "idle"} => pc["worker"] # "off"
  /\ dwCurrentState \in {"RUNNING", "PAUSED"} \/ scm \in {"RUNNING", "PAUSED"}
       \/ g_ServiceStopEvent = "set" => pc["worker"] # "off"
  /\ g_ServiceStopEvent \in {"none", "null"} => pc["worker"] = "off"

\* While the handler runs nobody has set the event; once a stop is under way no
\* state that lets another control through is assigned or reported.
OneStop ==
  ~console =>
    /\ pc["handler"] \notin {"off", "idle"} => g_ServiceStopEvent = "unset"
    /\ (g_ServiceStopEvent # "unset"
        \/ pc["handler"] \in StopLabel \cup {"h_stopping_r"})
         => dwCurrentState \notin {"RUNNING", "PAUSED"}
    /\ (g_ServiceStopEvent # "unset" \/ pc["handler"] \in StopLabel)
         => scm \notin {"RUNNING", "PAUSED"}

\* A part of the start has failed.
StartFailed ==
  \/ g_ServiceStopEvent = "null"
  \/ g_ServiceStopEvent = "closed" /\ pc["worker"] = "off"
  \/ pc["worker"] \in {"w_failed", "w_failed_r", "gaveup"}

\* How far the SCM may be behind the shared status, and why.
StatusLags ==
  ~console =>
    /\ dwCurrentState = "START_PENDING" =>
         scm = "START_PENDING" /\ pc["worker"] # "w_failed_r"
    /\ dwCurrentState = "RUNNING" =>
         \/ scm \in {"START_PENDING", "RUNNING", "STOPPED"}
         \/ scm = "PAUSED" /\ pc["handler"] = "h_report" /\ control = "CONTINUE"
    /\ dwCurrentState = "PAUSED" =>
         \/ scm \in {"PAUSED", "STOPPED"}
         \/ scm = "RUNNING" /\ pc["handler"] = "h_report" /\ control = "PAUSE"
    /\ dwCurrentState = "STOP_PENDING" =>
         \/ scm \in {"STOP_PENDING", "STOPPED"}
         \/ scm \in {"RUNNING", "PAUSED"} /\ pc["handler"] = "h_stopping_r"
    /\ dwCurrentState = "STOPPED" =>
         scm \in {"STOP_PENDING", "STOPPED"} \/ StartFailed
    /\ pc["handler"] \in {"h_enter", "h_report"} =>
         dwCurrentState # "STOP_PENDING" /\ scm # "STOP_PENDING"
    /\ g_ServiceStopEvent = "set" \/ pc["handler"] \notin {"off", "idle"} =>
         scm # "START_PENDING"
    /\ pc["main"] \in {"m_close", "m_stopped"} => scm # "START_PENDING"
    /\ pc["handler"] \in StopLabel \cup {"h_stopping_r"} => control \in Stops

\* The handle, the child and where its starter and its stopper are.
HandleFits ==
  /\ pc[Starter] \in {"off", "find", "create", "w_failed", "w_failed_r",
                     "gaveup"} => child = "none"
  /\ pc[Starter] \in Starting \cup {"off"} => hProcess = "null"
  /\ child = "alive" => hProcess = "open" \/ pc[Starter] = "store"
  /\ hProcess = "closed" <=> pc["handler"] = "h_null"
  /\ pc["handler"] \in {"h_wait", "h_close", "h_null"} => child # "alive"

\* No daemon runs, and none will be started.
Settled == child # "alive" /\ pc[Starter] \notin Starting

\* Somebody has reported that the service stopped, or may go on to.
StopIsDue ==
  \/ pc["handler"] \in {"h_null", "h_signal"}
  \/ g_ServiceStopEvent \in {"null", "set", "closed"}
  \/ pc["worker"] \in {"w_failed", "w_failed_r", "gaveup"}
  \/ dwCurrentState = "STOPPED" \/ scm = "STOPPED"

\* Whoever may report that the service stopped has seen to the daemon.
StoppedIsSettled ==
  /\ ~console /\ StopIsDue => missed \/ Settled
  /\ console /\ pc["main"] = "c_exit" => Settled

\* The inductive invariant behind the three properties above.
IInv == /\ TypeOK /\ ThreadsFit /\ QuietUntilRunning /\ WorkerIsThere
        /\ OneStop /\ StatusLags /\ HandleFits /\ HandleIsOpen
        /\ StoppedIsSettled /\ ExitedMeansGone
=============================================================================
