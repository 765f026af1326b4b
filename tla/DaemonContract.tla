---------------------------- MODULE DaemonContract ----------------------------
(***************************************************************************)
(* What a supervisor (systemd, init.d, the Windows service) may rely on,   *)
(* with no program counter, lock, descriptor or signal in it: a daemon     *)
(* opens once with all of its threads, serves until somebody asks it to    *)
(* stop, then lets every thread return and only then is gone.              *)
(***************************************************************************)
CONSTANT Pool          \* the threads that do the daemon's work

VARIABLES
  phase,      \* "fresh", "open" (serving), "closed" (serves no more)
  requested,  \* a shutdown was asked for
  life,       \* each thread: "unborn", "alive" or "dead"
  gone        \* the process has exited

vars == <<phase, requested, life, gone>>

Init ==
  /\ phase = "fresh" /\ requested = FALSE /\ gone = FALSE
  /\ life = [t \in Pool |-> "unborn"]

Open ==
  /\ phase = "fresh" /\ phase' = "open"
  /\ UNCHANGED <<requested, life, gone>>

\* The daemon could not open its port.
GiveUp ==
  /\ phase = "fresh" /\ phase' = "closed"
  /\ UNCHANGED <<requested, life, gone>>

Launch(t) ==
  /\ phase = "open" /\ life[t] = "unborn"
  /\ life' = [life EXCEPT ![t] = "alive"]
  /\ UNCHANGED <<phase, requested, gone>>

Request ==
  /\ ~gone /\ requested' = TRUE
  /\ UNCHANGED <<phase, life, gone>>

\* Never unasked, and never before the daemon has come up completely.
Close ==
  /\ phase = "open" /\ requested
  /\ \A t \in Pool : life[t] = "alive"
  /\ phase' = "closed"
  /\ UNCHANGED <<requested, life, gone>>

Return(t) ==
  /\ phase = "closed" /\ life[t] = "alive"
  /\ life' = [life EXCEPT ![t] = "dead"]
  /\ UNCHANGED <<phase, requested, gone>>

Exit ==
  /\ phase = "closed" /\ \A t \in Pool : life[t] # "alive"
  /\ gone' = TRUE
  /\ UNCHANGED <<phase, requested, life>>

Next == \/ Open \/ GiveUp \/ Request \/ Close \/ Exit
        \/ \E t \in Pool : Launch(t) \/ Return(t)

Spec == Init /\ [][Next]_vars
=============================================================================
