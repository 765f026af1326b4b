--------------------------- MODULE MCSnmpExchange ---------------------------
(***************************************************************************)
(* Two objects, 3 with a value and 7 an empty column; two SETs of object   *)
(* 3, to a value and to NULL, and a walk from the beginning.               *)
(***************************************************************************)
EXTENDS SnmpExchange, TLC

CONSTANTS manager, rw, low, high

OneManager   == {manager}
OneCommunity == {rw}
Communities  == {<<rw, manager>>}
RwObjects    == {<<rw, 3>>}
TwoObjects   == {3, 7}
TwoValues    == {low, high}
MibAtStart   == 3 :> low @@ 7 :> Absent
TwoWrites    == <<[oid |-> 3, value |-> high], [oid |-> 3, value |-> NULL]>>

AllExchanged == {WalkRequest(o) : o \in {0, 3, 7}} \cup {WriteRequest(k) : k \in 1..2}
=============================================================================
