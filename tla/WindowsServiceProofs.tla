------------------------- MODULE WindowsServiceProofs -------------------------
(***************************************************************************)
(* Proofs about WindowsService, for every set of accepted controls: its    *)
(* types, the three safety properties from one inductive invariant, and    *)
(* that it implements ServiceContract.                                     *)
(***************************************************************************)
EXTENDS WindowsServiceRefinement, TLAPS

USE DEF Threads, Starting, BeforeRun, MainLabel, WorkerLabel, StopLabel,
        HandlerLabel, Label, Controls, Stops, ServiceState, status, shared,
        procs, hist, At, Goto, Starter, ReportPoint, AfterReport,
        AfterStop, Settled, StopIsDue

-----------------------------------------------------------------------------
(* The inductive invariant.                                                *)

USE DEF IInv, TypeOK, ThreadsFit, QuietUntilRunning, WorkerIsThere, OneStop,
        StartFailed, StatusLags, HandleFits, HandleIsOpen, StoppedIsSettled,
        ExitedMeansGone

LEMMA InitInv == Init => IInv
BY DEF Init

\* ServiceMain() and wmain().
LEMMA MainInv == IInv /\ MainStep => IInv'
<1> SUFFICES ASSUME IInv, MainStep PROVE IInv'
  OBVIOUS
<1>1. CASE RegisterHandler \/ RegisterFails \/ DispatcherFails
  BY <1>1 DEF RegisterHandler, RegisterFails, DispatcherFails
<1>2. CASE AssignPending
  BY <1>2 DEF AssignPending
<1>3. CASE CreateStopEvent
  BY <1>3 DEF CreateStopEvent
<1>4. CASE CreateEventFails
  BY <1>4 DEF CreateEventFails
<1>5. CASE StartWorker
  BY <1>5 DEF StartWorker
<1>6. CASE CreateThreadFails
  BY <1>6 DEF CreateThreadFails
<1>7. CASE AssignRunning
  BY <1>7 DEF AssignRunning
<1>8. CASE WaitForStop
  BY <1>8 DEF WaitForStop
<1>9. CASE CloseEvent
  BY <1>9 DEF CloseEvent
<1>10. CASE AssignStopped
  BY <1>10 DEF AssignStopped
<1>11. CASE SetConsoleHandler
  BY <1>11 DEF SetConsoleHandler
<1>12. CASE ConsoleWait
  BY <1>12 DEF ConsoleWait
<1>13. CASE ConsoleWakes
  BY <1>13 DEF ConsoleWakes
<1>14. CASE ConsoleReturns
  BY <1>14 DEF ConsoleReturns
<1> QED
  BY <1>1, <1>2, <1>3, <1>4, <1>5, <1>6, <1>7, <1>8, <1>9, <1>10, <1>11,
     <1>12, <1>13, <1>14 DEF MainStep

\* StartSNMPDaemon() and the worker's loop.
LEMMA WorkerInv ==
  IInv /\ (WorkerStep \/ \E t \in {"main", "worker"} : StartStep(t)) => IInv'
<1> SUFFICES ASSUME IInv, WorkerStep \/ \E t \in {"main", "worker"} : StartStep(t)
             PROVE  IInv'
  OBVIOUS
<1>1. CASE WorkerFails
  BY <1>1 DEF WorkerFails
<1>2. CASE WorkerStops
  BY <1>2 DEF WorkerStops
<1>3. CASE WorkerTimesOut
  BY <1>3 DEF WorkerTimesOut
<1>4. CASE WorkerTestsHandle
  BY <1>4 DEF WorkerTestsHandle
<1>5. CASE WorkerProbes
  BY <1>5 DEF WorkerProbes
<1>6. ASSUME NEW t \in {"main", "worker"}, FindDaemon(t) PROVE IInv'
  BY <1>6 DEF FindDaemon
<1>7. ASSUME NEW t \in {"main", "worker"}, StartDaemonFails(t) PROVE IInv'
  BY <1>7 DEF StartDaemonFails
<1>8. ASSUME NEW t \in {"main", "worker"}, CreateDaemon(t) PROVE IInv'
  BY <1>8 DEF CreateDaemon
<1>9. ASSUME NEW t \in {"main", "worker"}, StoreHandle(t) PROVE IInv'
  BY <1>9 DEF StoreHandle
<1> QED
  BY <1>1, <1>2, <1>3, <1>4, <1>5, <1>6, <1>7, <1>8, <1>9
  DEF WorkerStep, StartStep

\* ServiceCtrlHandler() and StopSNMPDaemon().
LEMMA HandlerInv == IInv /\ HandlerStep => IInv'
<1> SUFFICES ASSUME IInv, HandlerStep PROVE IInv'
  OBVIOUS
<1>1. CASE StopRequested
  BY <1>1 DEF StopRequested
<1>2. CASE PauseOrContinue
  BY <1>2 DEF PauseOrContinue
<1>3. CASE Interrogated
  BY <1>3 DEF Interrogated
<1>4. CASE StopTestsHandle
  \* The handle is there: nobody closes it but this thread, later.
  <2>1. CASE hProcess # "null"
    BY <1>4, <2>1 DEF StopTestsHandle
  \* It is not: the daemon never was, is gone, or this stop came too early.
  <2>2. CASE hProcess = "null"
    <3>1. child # "alive" \/ pc[Starter] = "store"
      BY <2>2
    <3>2. missed' \/ Settled'
      BY <1>4, <2>2, <3>1 DEF StopTestsHandle
    <3>3. TypeOK' /\ ThreadsFit' /\ QuietUntilRunning'
      BY <1>4, <2>2 DEF StopTestsHandle
    <3>4. OneStop'
      BY <1>4, <2>2 DEF StopTestsHandle
    <3>5. HandleFits' /\ HandleIsOpen' /\ ExitedMeansGone'
      BY <1>4, <2>2 DEF StopTestsHandle
    <3>6. StoppedIsSettled'
      BY <1>4, <3>2, <3>3 DEF StopTestsHandle
    <3>7. WorkerIsThere' /\ StatusLags'
      BY <1>4, <2>2 DEF StopTestsHandle
    <3> QED
      BY <3>3, <3>4, <3>5, <3>6, <3>7
  <2> QED
    BY <2>1, <2>2
<1>5. CASE Terminate
  BY <1>5 DEF Terminate
<1>6. CASE WaitForDaemon
  BY <1>6 DEF WaitForDaemon
<1>7. CASE CloseHandles
  BY <1>7 DEF CloseHandles
<1>8. CASE ForgetHandles
  BY <1>8 DEF ForgetHandles
<1>9. CASE SignalStop
  BY <1>9 DEF SignalStop
<1> QED
  BY <1>1, <1>2, <1>3, <1>4, <1>5, <1>6, <1>7, <1>8, <1>9 DEF HandlerStep

\* SetServiceStatus(), by each thread at each of its places.
LEMMA ReportInv == ASSUME NEW t \in Threads PROVE IInv /\ Report(t) => IInv'
<1> SUFFICES ASSUME IInv, Report(t) PROVE IInv'
  OBVIOUS
<1>1. ~console
  BY DEF Report
<1>2. CASE t = "main"
  BY <1>1, <1>2 DEF Report
<1>3. CASE t = "worker"
  BY <1>1, <1>3 DEF Report
<1>4. CASE t = "handler"
  BY <1>1, <1>4 DEF Report
<1> QED
  BY <1>2, <1>3, <1>4

LEMMA StepInv == IInv /\ [Next]_vars => IInv'
<1> SUFFICES ASSUME IInv, [Next]_vars PROVE IInv'
  OBVIOUS
<1>1. CASE DispatcherReturns
  BY <1>1 DEF DispatcherReturns
<1>2. CASE DaemonDies \/ DaemonExits
  BY <1>2 DEF DaemonDies, DaemonExits
<1>3. CASE CtrlC
  BY <1>3 DEF CtrlC
<1>4. CASE ConsoleKilled
  BY <1>4 DEF ConsoleKilled
<1>5. ASSUME NEW c \in Controls, Deliver(c) PROVE IInv'
  BY <1>5 DEF Deliver
<1>6. CASE UNCHANGED vars
  BY <1>6 DEF vars
<1> QED
  BY <1>1, <1>2, <1>3, <1>4, <1>5, <1>6, MainInv, WorkerInv, HandlerInv,
     ReportInv
  DEF Next, Environment

-----------------------------------------------------------------------------
(* The contract.                                                           *)

USE DEF Contract!Init, Contract!vars, Contract!Order, Contract!Carried,
        Contract!Fail, Contract!MayBecome, Contract!Report, Contract!End,
        Contract!Next

\* Every step of the wrapper is a step of the contract, or none.
LEMMA ContractStep ==
  ASSUME IInv, IInv', [Next]_vars
  PROVE  [Contract!Next]_(Contract!vars)
<1>1. CASE MainStep
  <2>1. CASE DispatcherFails
    BY <2>1 DEF DispatcherFails
  <2>2. CASE CreateEventFails
    BY <2>2 DEF CreateEventFails
  <2>3. CASE CreateThreadFails
    BY <2>3 DEF CreateThreadFails
  <2>4. CASE RegisterHandler \/ RegisterFails \/ AssignPending \/ CreateStopEvent
    BY <2>4 DEF RegisterHandler, RegisterFails, AssignPending, CreateStopEvent
  <2>5. CASE StartWorker \/ AssignRunning \/ WaitForStop
    BY <2>5 DEF StartWorker, AssignRunning, WaitForStop
  <2>6. CASE CloseEvent \/ AssignStopped
    BY <2>6 DEF CloseEvent, AssignStopped
  <2>7. CASE SetConsoleHandler \/ ConsoleWait \/ ConsoleWakes \/ ConsoleReturns
    BY <2>7 DEF SetConsoleHandler, ConsoleWait, ConsoleWakes, ConsoleReturns
  <2> QED
    BY <1>1, <2>1, <2>2, <2>3, <2>4, <2>5, <2>6, <2>7 DEF MainStep
<1>2. CASE WorkerStep
  BY <1>2 DEF WorkerStep, WorkerFails, WorkerStops, WorkerTimesOut,
     WorkerTestsHandle, WorkerProbes
<1>3. ASSUME NEW t \in {"main", "worker"}, StartStep(t)
      PROVE  [Contract!Next]_(Contract!vars)
  BY <1>3 DEF StartStep, FindDaemon, StartDaemonFails, CreateDaemon, StoreHandle
<1>4. CASE HandlerStep
  BY <1>4 DEF HandlerStep, StopRequested, PauseOrContinue, Interrogated,
     StopTestsHandle, Terminate, WaitForDaemon, CloseHandles, ForgetHandles,
     SignalStop
<1>5. ASSUME NEW t \in Threads, Report(t)
      PROVE  [Contract!Next]_(Contract!vars)
  <2>1. ~console
    BY <1>5 DEF Report
  <2>2. CASE t = "main"
    BY <1>5, <2>1, <2>2 DEF Report
  <2>3. CASE t = "worker"
    BY <1>5, <2>1, <2>3 DEF Report
  <2>4. CASE t = "handler"
    BY <1>5, <2>1, <2>4 DEF Report
  <2> QED
    BY <2>2, <2>3, <2>4
<1>6. CASE DispatcherReturns \/ DaemonDies \/ DaemonExits
  BY <1>6 DEF DispatcherReturns, DaemonDies, DaemonExits
<1>7. CASE CtrlC \/ ConsoleKilled
  BY <1>7 DEF CtrlC, ConsoleKilled
<1>8. ASSUME NEW c \in Controls, Deliver(c)
      PROVE  [Contract!Next]_(Contract!vars)
  BY <1>8 DEF Deliver
<1>9. CASE UNCHANGED vars
  BY <1>9 DEF vars
<1> QED
  BY <1>1, <1>2, <1>3, <1>4, <1>5, <1>6, <1>7, <1>8, <1>9
  DEF Next, Environment

HIDE DEF IInv, TypeOK, ThreadsFit, QuietUntilRunning, WorkerIsThere, OneStop,
         StartFailed, StatusLags, HandleFits, HandleIsOpen, StoppedIsSettled,
         ExitedMeansGone, Contract!Next, Contract!vars, Contract!Init

-----------------------------------------------------------------------------
(* The theorems.                                                           *)

\* The inductive invariant holds whatever controls are accepted, at any time.
THEOREM Invariant == Spec => []IInv
<1>1. Init => IInv
  BY InitInv
<1>2. IInv /\ [Next]_vars => IInv'
  BY StepInv
<1> QED
  BY <1>1, <1>2, PTL DEF Spec

\* Types are kept, and the SCM hears of no state but those it knows.
THEOREM TypeCorrect == Spec => []TypeOK
<1>1. IInv => TypeOK
  BY DEF IInv
<1> QED
  BY <1>1, Invariant, PTL

\* SetEvent() in ServiceCtrlHandler() finds the event open and not yet set.
THEOREM OneStopRequest == Spec => []EventIsOpen
<1>1. IInv => EventIsOpen
  BY DEF IInv, ThreadsFit, OneStop, EventIsOpen
<1> QED
  BY <1>1, Invariant, PTL

\* StopSNMPDaemon() uses the child's handle only while it is open.
THEOREM OpenHandle == Spec => []HandleIsOpen
<1>1. IInv => HandleIsOpen
  BY DEF IInv
<1> QED
  BY <1>1, Invariant, PTL

\* No daemon outlives a wrapper that exits, but for a stop that came too early.
THEOREM NothingLeftBehind == Spec => []ExitedMeansGone
<1>1. IInv => ExitedMeansGone
  BY DEF IInv
<1> QED
  BY <1>1, Invariant, PTL

\* The wrapper implements the service's contract, whatever it accepts.
THEOREM Implements == Spec => KeepsServiceContract
<1>1. Init => Contract!Init
  BY DEF Init, Contract!Init, StartFailed
<1>2. IInv /\ IInv' /\ [Next]_vars => [Contract!Next]_(Contract!vars)
  BY ContractStep
<1> QED
  BY <1>1, <1>2, Invariant, PTL DEF Spec, KeepsServiceContract, Contract!Spec
=============================================================================
