----------------------- MODULE WindowsServiceRefinement -----------------------
(***************************************************************************)
(* The wrapper keeps the service's contract: how its state is read as that *)
(* of ServiceContract.  Run with --console it is no service, and the       *)
(* contract's state rests.                                                 *)
(***************************************************************************)
EXTENDS WindowsService

Contract == INSTANCE ServiceContract WITH
  state  <- scm,
  order  <- IF console \/ pc["handler"] \in {"off", "idle"} THEN "none"
            ELSE control,
  failed <- StartFailed,
  gone   <- wrapper # "up" /\ ~console

\* With every control accepted and failing starts overtaken by controls, what
\* the SCM hears from three threads that share one status is still what it
\* ordered: no stop is taken back, no state comes unasked.
KeepsServiceContract == Contract!Spec
=============================================================================
