----------------------------- MODULE MCSnmpAgent -----------------------------
(***************************************************************************)
(* A small instance of SnmpAgent.  Object 1 is a scalar, 3 and 5 are       *)
(* instances in a table, 7 is a column that has no row; 2 and 9 are no     *)
(* objects.  The community rw may write, but not object 5; ro may read.    *)
(***************************************************************************)
EXTENDS SnmpAgent, TLC

CONSTANTS trusted, stranger, rw, ro, low, high

TwoSources == {trusted, stranger}
OnlyTrusted == {trusted}
Communities == {<<rw, trusted>>, <<ro, trusted>>, <<rw, stranger>>}
OnlyRw == {rw}
RwObjects == {<<rw, o>> : o \in {1, 2, 3, 7}} \cup {<<ro, o>> : o \in {1, 3, 5}}
FourObjects == {1, 3, 5, 7}
OneScalar == {1}
TwoValues == {low, high}
MibAtStart == 1 :> low @@ 3 :> low @@ 5 :> high @@ 7 :> Absent

Bind(o, v) == [oid |-> o, value |-> v]
Names(os)  == [k \in 1..Len(os) |-> Bind(os[k], NULL)]
Ask(ver, com, p, bs) == [version |-> ver, community |-> com, pdu |-> p,
                         id |-> 1, binds |-> bs]

ReadRequests ==
  {Ask("v2c", ro, p, Names(os)) : p \in {"GET", "GET_NEXT", "GET_BULK"},
                                  os \in {<<>>, <<3, 1>>, <<2, 5, 7>>, <<9>>}}
WriteRequests ==
  {Ask("v1", com, "SET", bs) : com \in {rw, ro},
     bs \in {<<Bind(3, high), Bind(1, high), Bind(3, low)>>, <<Bind(2, high), Bind(3, high)>>,
             <<Bind(5, low), Bind(7, low), Bind(3, low)>>, <<Bind(3, NULL), Bind(3, high)>>,
             <<Bind(3, high), Bind(3, NULL), Bind(1, low)>>}}
OtherRequests ==
  {Ask(v, rw, p, Names(<<1>>)) : v \in Versions,
     p \in {"GET_BULK", "TRAP", "TRAP_V2", "INFORM", "GET_RESPONSE"}}

AllRequests == ReadRequests \cup WriteRequests \cup OtherRequests
=============================================================================
