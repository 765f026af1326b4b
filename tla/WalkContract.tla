----------------------------- MODULE WalkContract -----------------------------
(***************************************************************************)
(* What snmpwalk asks of an agent, without requests, answers or a network: *)
(* it is led through the objects one by one, each to the very next, and is *)
(* told that it has arrived when no object is left.                        *)
(***************************************************************************)
EXTENDS Naturals, Sequences

CONSTANTS Objects,   \* the objects there are
          Start      \* where the walk begins

VARIABLES visited,   \* the objects the walk came to
          done       \* it was told that there are no more

vars == <<visited, done>>

Place   == IF visited = <<>> THEN Start ELSE visited[Len(visited)]
Ahead   == {o \in Objects : o > Place}

Init == visited = <<>> /\ done = FALSE

Visit == /\ ~done
         /\ \E o \in Ahead : /\ \A p \in Ahead : o <= p
                             /\ visited' = Append(visited, o)
         /\ UNCHANGED done

Arrive == /\ ~done /\ Ahead = {}
          /\ done' = TRUE /\ UNCHANGED visited

Next == Visit \/ Arrive

Spec     == Init /\ [][Next]_vars
FairSpec == Spec /\ WF_vars(Next)
===============================================================================
