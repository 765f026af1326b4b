---------------------- MODULE ServerLifecycleRefinement ----------------------
(***************************************************************************)
(* The process keeps the daemon's contract: how its state is read as that  *)
(* of DaemonContract.                                                      *)
(***************************************************************************)
EXTENDS ServerLifecycle

\* Until start() raises running_ the daemon is fresh.
Contract == INSTANCE DaemonContract WITH
  phase     <- IF running_ THEN "open"
               ELSE IF pc[Main] \in Unstarted THEN "fresh" ELSE "closed",
  requested <- ~g_running,
  life      <- [t \in Pool |-> CASE pc[t] = "off"  -> "unborn"
                                 [] pc[t] = "exit" -> "dead"
                                 [] OTHER          -> "alive"],
  gone      <- proc # "up"

\* Under signals that interrupt main() outside start() and log(), the process
\* is a daemon as the contract has it: no thread is lost, none returns early,
\* stop() closes it only on request and it is gone after its last thread.
KeepsContract == Contract!Spec
=============================================================================
