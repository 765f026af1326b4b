---------------------------- MODULE ServiceContract ----------------------------
(***************************************************************************)
(* What the service control manager may rely on, with no thread, event or  *)
(* handle in it: a service moves as it was ordered to, a stop once begun   *)
(* is never taken back, and it is stopped only by order or because it      *)
(* could not be started.                                                   *)
(***************************************************************************)
CONSTANT Controls      \* the controls there are

VARIABLES
  state,    \* the state last reported
  order,    \* the control that the service is carrying out, or "none"
  failed,   \* a part of the start failed
  gone      \* the process has ended

vars == <<state, order, failed, gone>>

Init == state = "START_PENDING" /\ order = "none" /\ ~failed /\ ~gone

Order(c) ==
  /\ ~gone /\ order = "none" /\ state \in {"RUNNING", "PAUSED"}
  /\ order' = c
  /\ UNCHANGED <<state, failed, gone>>

Carried == /\ order # "none" /\ order' = "none"
           /\ UNCHANGED <<state, failed, gone>>

Fail == ~failed /\ failed' = TRUE /\ UNCHANGED <<state, order, gone>>

\* The state the service may report next.
MayBecome(s) ==
  \/ state = "START_PENDING" /\ s = "RUNNING"
  \/ state = "RUNNING" /\ order = "PAUSE" /\ s = "PAUSED"
  \/ state = "PAUSED" /\ order = "CONTINUE" /\ s = "RUNNING"
  \/ state \in {"RUNNING", "PAUSED"} /\ order \in {"STOP", "SHUTDOWN"}
       /\ s = "STOP_PENDING"
  \/ state # "STOPPED" /\ s = "STOPPED" /\ (state = "STOP_PENDING" \/ failed)

\* The report may be the end of what was ordered.
Report(s) ==
  /\ ~gone /\ MayBecome(s) /\ state' = s
  /\ order' \in {order, "none"}
  /\ UNCHANGED <<failed, gone>>

\* Only when stopped, or when it was not started by the SCM after all.
End == /\ state \in {"START_PENDING", "STOPPED"} /\ gone' = TRUE
       /\ UNCHANGED <<state, order, failed>>

Next == \/ \E c \in Controls : Order(c)
        \/ \E s \in {"RUNNING", "PAUSED", "STOP_PENDING", "STOPPED"} : Report(s)
        \/ Carried \/ Fail \/ End

Spec == Init /\ [][Next]_vars
=============================================================================
