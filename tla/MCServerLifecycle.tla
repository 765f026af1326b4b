-------------------------- MODULE MCServerLifecycle --------------------------
(***************************************************************************)
(* Small instances of ServerLifecycle: one or two of the four workers and  *)
(* one or two signal deliveries.                                           *)
(***************************************************************************)
EXTENDS ServerLifecycleRefinement

CONSTANTS int1, term1

OneSignal  == {int1}
IntAndTerm == {int1, term1}

KindOf == [h \in Deliveries |-> IF h = int1 THEN "INT" ELSE "TERM"]

AllThreads == Threads
MainOnly   == {Main}

\* No signal lands on main() between `running_ = true' and its loop.
StartupLabels == {"m_spawn", "m_started"}
NoLabels      == {}
=============================================================================
