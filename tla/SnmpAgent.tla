------------------------------ MODULE SnmpAgent ------------------------------
(***************************************************************************)
(* SNMPServer::process_snmp_request(): what the server thread does with    *)
(* one parsed request, variable binding by variable binding, up to the     *)
(* datagram it hands to sendto().                                          *)
(*                                                                         *)
(* MIBManager and SecurityManager have no source in the repository.  They  *)
(* appear as their callers use them: a partial map from object to value,   *)
(* and access tables.  An object identifier is a number, since the code    *)
(* only looks it up and asks for the next one in lexicographic order.      *)
(***************************************************************************)
EXTENDS Naturals, Sequences

CONSTANTS
  Sources,        \* addresses that datagrams come from
  AllowedIps,     \* is_ip_allowed()
  Access,         \* is_access_allowed(): pairs <<community, source>>
  Writers,        \* is_write_allowed(): communities
  OidAccess,      \* is_oid_allowed(): pairs <<community, object>>
  MaxRate,        \* requests of one source that check_rate_limit() lets pass
  Oids,           \* the objects get_next_oid() may name
  Scalars,        \* is_scalar(); the others are instances in tables
  Values,         \* values an object may have
  NULL,           \* the value of type 0x05
  Absent,         \* get_value() finds nothing
  InitialMib,     \* what initialize_standard_mibs() registered
  Requests,       \* the requests that managers send
  NoReply         \* nothing was handed to sendto()

Bindings == [oid : Nat, value : Values \cup {NULL}]
Pdus     == {"GET", "GET_NEXT", "GET_BULK", "SET", "TRAP", "TRAP_V2",
             "GET_RESPONSE", "INFORM"}
Versions == {"v1", "v2c", "v3"}
Statuses == {"NO_ERROR", "NO_SUCH_NAME", "READ_ONLY", "NO_ACCESS", "WRONG_VALUE"}

ASSUME AgentAssumption ==
  /\ AllowedIps \subseteq Sources
  /\ Oids \subseteq Nat /\ Scalars \subseteq Oids /\ MaxRate \in Nat
  /\ NULL \notin Values /\ Absent \notin Values /\ Absent # NULL
  /\ InitialMib \in [Oids -> Values \cup {Absent}]
  /\ \A q \in Requests :
       /\ q.version \in Versions /\ q.pdu \in Pdus /\ q.id \in Nat
       /\ q.binds \in Seq(Bindings)

VARIABLES
  step,      \* where process_snmp_request() is
  request,   \* its argument, the request in hand
  source,    \* connection->get_client_address()
  response,  \* its local variable, the response under construction
  reply,     \* the datagram handed to sendto() for this request
  mib,       \* value of each object
  charged,   \* requests charged to each source in its current window
  before     \* history, for the properties: mib when request was admitted

vars == <<step, request, source, response, reply, mib, charged, before>>

\* Mutant: set_request_id() is forgotten.
ResponseWithoutId(q) ==
  [version |-> q.version, community |-> q.community, id |-> 0,
   pdu |-> "GET", status |-> "NO_ERROR", index |-> 0, binds |-> <<>>]

\* SNMPPacket's default constructor, and the three setters after it.
EmptyResponse(q) ==
  [version |-> q.version, community |-> q.community, id |-> q.id,
   pdu |-> "GET", status |-> "NO_ERROR", index |-> 0, binds |-> <<>>]

Init ==
  /\ step = "idle" /\ reply = NoReply
  /\ request \in Requests /\ source \in Sources
  /\ response = EmptyResponse(request)
  /\ mib = InitialMib /\ before = InitialMib
  /\ charged = [s \in Sources |-> 0]

-----------------------------------------------------------------------------
(* The checks before the switch.                                           *)

\* check_rate_limit() counts the request of any source, allowed or not.
WithinRate(s) == charged[s] < MaxRate
Charge(s)     == charged' = [charged EXCEPT ![s] = @ + 1]

Permitted(s, q) == s \in AllowedIps /\ <<q.community, s>> \in Access

DropOverRate(s, q) ==
  /\ step = "idle" /\ ~WithinRate(s)
  /\ UNCHANGED vars

DropDenied(s, q) ==
  /\ step = "idle" /\ WithinRate(s) /\ ~Permitted(s, q)
  /\ Charge(s)
  /\ UNCHANGED <<step, request, source, response, reply, mib, before>>

Admit(s, q) ==
  /\ step = "idle" /\ WithinRate(s) /\ Permitted(s, q)
  /\ Charge(s)
  /\ step' = "dispatch"
  /\ request' = q /\ source' = s
  /\ response' = EmptyResponse(q) /\ reply' = NoReply
  /\ before' = mib /\ UNCHANGED mib

\* A source's window passes and its count restarts.
WindowElapses(s) ==
  /\ charged[s] > 0
  /\ charged' = [charged EXCEPT ![s] = 0]
  /\ UNCHANGED <<step, request, source, response, reply, mib, before>>

-----------------------------------------------------------------------------
(* The switch on the PDU type.                                             *)

Dispatch(next) ==
  /\ step = "dispatch" /\ step' = next
  /\ UNCHANGED <<request, source, reply, mib, charged, before>>

BulkVersion == request.version \in {"v2c", "v3"}

EnterGet ==
  /\ request.pdu = "GET"
  /\ Dispatch("get") /\ response' = [response EXCEPT !.pdu = "GET_RESPONSE"]

\* GET-BULK has a loop of its own that does what GET-NEXT's does.
EnterGetNext ==
  /\ request.pdu = "GET_NEXT" \/ (request.pdu = "GET_BULK" /\ BulkVersion)
  /\ Dispatch("next") /\ response' = [response EXCEPT !.pdu = "GET_RESPONSE"]

\* Mutant: the write permission of the community is not asked for.
EnterSetUnasked ==
  /\ request.pdu = "SET"
  /\ Dispatch("set") /\ response' = [response EXCEPT !.pdu = "GET_RESPONSE"]

EnterSet ==
  /\ request.pdu = "SET" /\ request.community \in Writers
  /\ Dispatch("set") /\ response' = [response EXCEPT !.pdu = "GET_RESPONSE"]

\* Mutant: the refusal falls through into the loop.
RefuseSetGoesOn ==
  /\ request.pdu = "SET" /\ request.community \notin Writers
  /\ Dispatch("set")
  /\ response' = [response EXCEPT !.pdu = "GET_RESPONSE", !.status = "NO_ACCESS"]

RefuseSet ==
  /\ request.pdu = "SET" /\ request.community \notin Writers
  /\ Dispatch("send")
  /\ response' = [response EXCEPT !.pdu = "GET_RESPONSE", !.status = "NO_ACCESS"]

\* A trap is logged and then sent back as it stands, its PDU type untouched.
LogTrap ==
  /\ \/ request.pdu = "TRAP"    /\ request.version = "v1"
     \/ request.pdu = "TRAP_V2" /\ request.version = "v2c"
  /\ Dispatch("send") /\ UNCHANGED response

\* Wrong version for the PDU, or no case for it: the PDU type is untouched.
Reject ==
  /\ \/ request.pdu = "GET_BULK" /\ ~BulkVersion
     \/ request.pdu = "TRAP"     /\ request.version # "v1"
     \/ request.pdu = "TRAP_V2"  /\ request.version # "v2c"
     \/ request.pdu \notin {"GET", "GET_NEXT", "GET_BULK", "SET", "TRAP", "TRAP_V2"}
  /\ Dispatch("send")
  /\ response' = [response EXCEPT !.status = "NO_SUCH_NAME"]

-----------------------------------------------------------------------------
(* The loops over the variable bindings.                                   *)

Asked     == Len(request.binds)
Turn      == Len(response.binds) + 1
Binding   == request.binds[Turn]
Has(o)    == o \in Oids /\ mib[o] # Absent

InLoop(l) == step = l /\ Turn <= Asked

Answer(o, v) == Append(response.binds, [oid |-> o, value |-> v])

\* add_variable_binding() of a good binding, and of one that sets the error.
\* The index is the number of bindings, whichever of them failed.
Good(o, v) == response' = [response EXCEPT !.binds = Answer(o, v)]
Bad(e) == response' = [response EXCEPT !.binds  = Answer(Binding.oid, NULL),
                                       !.status = e, !.index = Asked % 256]

Looping == UNCHANGED <<step, request, source, reply, charged, before>>

GetValue ==
  /\ InLoop("get") /\ Has(Binding.oid)
  /\ Good(Binding.oid, mib[Binding.oid])
  /\ Looping /\ UNCHANGED mib

\* Mutant: the response's error status is not set.
GetMissingSilently ==
  /\ InLoop("get") /\ ~Has(Binding.oid)
  /\ Good(Binding.oid, NULL)
  /\ Looping /\ UNCHANGED mib

GetMissing ==
  /\ InLoop("get") /\ ~Has(Binding.oid)
  /\ Bad("NO_SUCH_NAME")
  /\ Looping /\ UNCHANGED mib

Later(o)     == {p \in Oids : p > o}
IsNext(o, p) == p \in Later(o) /\ \A r \in Later(o) : p <= r

\* Mutant: the binding keeps the OID of the request.
NextValueSameOid ==
  /\ InLoop("next")
  /\ \E p \in Oids : /\ IsNext(Binding.oid, p)
                     /\ Good(Binding.oid, IF Has(p) THEN mib[p] ELSE NULL)
  /\ Looping /\ UNCHANGED mib

\* The next object may have no value: its binding is NULL.
NextValue ==
  /\ InLoop("next")
  /\ \E p \in Oids : /\ IsNext(Binding.oid, p)
                     /\ Good(p, IF Has(p) THEN mib[p] ELSE NULL)
  /\ Looping /\ UNCHANGED mib

\* Mutant: at the end of the MIB the loop goes on to the same binding.
NextAtEndForever ==
  /\ InLoop("next") /\ Later(Binding.oid) = {}
  /\ UNCHANGED response
  /\ Looping /\ UNCHANGED mib

NextAtEnd ==
  /\ InLoop("next") /\ Later(Binding.oid) = {}
  /\ Good(Binding.oid, NULL)
  /\ Looping /\ UNCHANGED mib

OidAllowed == <<request.community, Binding.oid>> \in OidAccess

SetNoAccess ==
  /\ InLoop("set") /\ ~OidAllowed
  /\ Bad("NO_ACCESS")
  /\ Looping /\ UNCHANGED mib

SetMissing ==
  /\ InLoop("set") /\ OidAllowed /\ ~Has(Binding.oid)
  /\ Bad("NO_SUCH_NAME")
  /\ Looping /\ UNCHANGED mib

SetScalar ==
  /\ InLoop("set") /\ OidAllowed /\ Has(Binding.oid) /\ Binding.oid \in Scalars
  /\ Bad("READ_ONLY")
  /\ Looping /\ UNCHANGED mib

Writable == OidAllowed /\ Has(Binding.oid) /\ Binding.oid \notin Scalars

\* Mutant: the response tells the new value, the MIB keeps the old one, as if
\* nobody looked at what set_value() returns.
SetUnstored ==
  /\ InLoop("set") /\ Writable
  /\ Good(Binding.oid, Binding.value)
  /\ Looping /\ UNCHANGED mib

\* The value may be NULL like any other: nothing tests it.
SetValue ==
  /\ InLoop("set") /\ Writable
  /\ mib' = [mib EXCEPT ![Binding.oid] = Binding.value]
  /\ Good(Binding.oid, Binding.value)
  /\ Looping

\* set_value() returns false.
SetFails ==
  /\ InLoop("set") /\ Writable
  /\ Bad("WRONG_VALUE")
  /\ Looping /\ UNCHANGED mib

LoopDone ==
  /\ step \in {"get", "next", "set"} /\ Turn > Asked
  /\ step' = "send"
  /\ UNCHANGED <<request, source, response, reply, mib, charged, before>>

-----------------------------------------------------------------------------
(* send_response(): the datagram leaves, or sendto() fails and it is lost.  *)

SendResponse ==
  /\ step = "send" /\ step' = "idle"
  /\ reply' = response
  /\ UNCHANGED <<request, source, response, mib, charged, before>>

SendFails ==
  /\ step = "send" /\ step' = "idle"
  /\ UNCHANGED <<request, source, response, reply, mib, charged, before>>

\* A scalar's getter computes its value: it may change between two calls.
Tick(o) ==
  /\ o \in Scalars /\ mib[o] # Absent
  /\ \E v \in Values : mib' = [mib EXCEPT ![o] = v]
  /\ UNCHANGED <<step, request, source, response, reply, charged, before>>

-----------------------------------------------------------------------------
Receive == \E s \in Sources, q \in Requests :
             DropOverRate(s, q) \/ DropDenied(s, q) \/ Admit(s, q)

Switch == EnterGet \/ EnterGetNext \/ EnterSet \/ RefuseSet \/ LogTrap \/ Reject

Loop == \/ GetValue \/ GetMissing \/ NextValue \/ NextAtEnd
        \/ SetNoAccess \/ SetMissing \/ SetScalar \/ SetValue \/ SetFails
        \/ LoopDone

Send == SendResponse \/ SendFails

Environment == \/ \E s \in Sources : WindowElapses(s)
               \/ \E o \in Oids : Tick(o)

Next == Receive \/ Switch \/ Loop \/ Send \/ Environment

Spec == Init /\ [][Next]_vars

\* The server thread keeps running; nothing else has to happen.
FairSpec == Spec /\ WF_vars(Switch \/ Loop \/ Send)
-----------------------------------------------------------------------------
(* Properties.                                                             *)

Responses == [version : Versions, community : {q.community : q \in Requests},
              id : Nat, pdu : {"GET", "GET_RESPONSE"}, status : Statuses,
              index : Nat, binds : Seq(Bindings)]

TypeOK ==
  /\ step \in {"idle", "dispatch", "get", "next", "set", "send"}
  /\ request \in Requests /\ source \in Sources
  /\ response \in Responses /\ reply \in Responses \cup {NoReply}
  /\ mib \in [Oids -> Values \cup {NULL, Absent}]
  /\ before \in [Oids -> Values \cup {NULL, Absent}]
  /\ charged \in [Sources -> 0..MaxRate]

\* Binding k of a SET was allowed, and is answered as it asked.
Granted(k, answered) ==
  LET b == request.binds[k]
  IN  /\ answered[k] = b
      /\ <<request.community, b.oid>> \in OidAccess
      /\ Has(b.oid) /\ b.oid \notin Scalars

\* Where the response stands in the request: bindings are answered in order,
\* none twice, none skipped, and a GET or SET answers under the OID it was
\* asked for.  A response that leaves a loop has one binding per binding.
Aligned ==
  /\ Len(response.binds) <= Asked
  /\ request.pdu \in {"GET", "SET"} =>
       \A k \in 1..Len(response.binds) : response.binds[k].oid = request.binds[k].oid
  /\ reply # NoReply => reply = response
  /\ reply # NoReply /\ reply.pdu = "GET_RESPONSE" =>
       \/ Len(reply.binds) = Asked
       \/ request.pdu = "SET" /\ reply.status = "NO_ACCESS"

\* The error status of an answer to GET or SET is the truth about it, although
\* every failed binding overwrites it.  Of a GET: it is set exactly if an object
\* has no value.  Of a SET: NO_ERROR says that every binding was allowed and is
\* answered with the value it asked for, an error that the community may not
\* write or that a binding is answered NULL.
StatusIffFailure ==
  reply # NoReply =>
    /\ request.pdu = "GET" =>
         ((reply.status # "NO_ERROR") <=>
            \E k \in 1..Len(reply.binds) : ~Has(reply.binds[k].oid))
    /\ request.pdu = "SET" =>
         IF reply.status = "NO_ERROR"
         THEN /\ request.community \in Writers
              /\ \A k \in 1..Len(reply.binds) : Granted(k, reply.binds)
         ELSE \/ request.community \notin Writers
              \/ \E k \in 1..Len(reply.binds) : reply.binds[k].value = NULL

\* Bindings answered for o so far, and those among them that carry a value.
AnsweredFor(o) == {k \in 1..Len(response.binds) : response.binds[k].oid = o}
Carried(o)     == {k \in AnsweredFor(o) : response.binds[k].value # NULL}

\* o holds the value of the last of the bindings in K, or what it held before.
Holds(o, K) ==
  IF K = {} THEN mib[o] = before[o]
  ELSE \E k \in K : (\A j \in K : j <= k) /\ mib[o] = response.binds[k].value

\* A binding that asked for NULL was answered NULL: stored, or failed.
Unclear(k) == request.binds[k].value = NULL /\ response.binds[k].value = NULL

\* A SET is not atomic, but its response accounts for it.  As long as nothing
\* failed every object in a table holds the last value answered for it.  Once
\* something did, it holds the last value other than NULL, however often the
\* request names it, or its old value if there is none; except that it may hold
\* NULL where the response is unclear about it: after a SET of NULL, since a
\* stored NULL is answered in the same way as a failure.
SetAccountsForMib ==
  request.pdu = "SET" =>
    \A o \in Oids \ Scalars :
      /\ response.status = "NO_ERROR" => Holds(o, AnsweredFor(o))
      /\ \/ Holds(o, Carried(o))
         \/ /\ mib[o] = NULL
            /\ \E k \in AnsweredFor(o) : Unclear(k) /\ \A j \in Carried(o) : j < k

\* What a GET answers for an object in a table is what the table holds when
\* the answer leaves: nothing else writes it meanwhile.
GetIsCurrent ==
  request.pdu = "GET" =>
    \A k \in 1..Len(response.binds) :
      LET o == response.binds[k].oid
      IN  o \notin Scalars =>
            response.binds[k].value = IF Has(o) THEN mib[o] ELSE NULL

\* GET-NEXT and GET-BULK answer each binding with the very next object and what
\* it holds.  With none left they name the OID asked for, under which no value
\* of an object is told: a walk that stops at an OID that does not increase
\* visits every object once.  What marks the end is left open here: the comments
\* at lines 369 and 408 say endOfMibView, the code sends NULL (README, Findings).
NextIsNext ==
  request.pdu \in {"GET_NEXT", "GET_BULK"} =>
    \A k \in 1..Len(response.binds) :
      LET o == request.binds[k].oid
          b == response.binds[k]
      IN  IF Later(o) = {} THEN b.oid = o /\ b.value \notin Values
          ELSE /\ IsNext(o, b.oid)
               /\ b.oid \notin Scalars =>
                    IF Has(b.oid) THEN b.value = mib[b.oid] ELSE b.value \notin Values

\* An object in a table changes only by the SET of a source and community that
\* every check let pass, under the OID of the binding in hand; a scalar only
\* by its own getter.
OnlyAuthorisedWrites ==
  [][\A o \in Oids \ Scalars : mib'[o] # mib[o] =>
       /\ request.pdu = "SET" /\ step = "set" /\ Turn <= Asked
       /\ Binding.oid = o /\ <<request.community, o>> \in OidAccess
       /\ Permitted(source, request) /\ request.community \in Writers]_vars

\* The server thread always comes back for the next datagram.
ReturnsToIdle == step # "idle" ~> step = "idle"
-----------------------------------------------------------------------------
(* The inductive invariant behind the properties.                           *)

InstancesKept == \A o \in Oids \ Scalars : mib[o] = before[o]

StepFits ==
  /\ step # "idle" => Permitted(source, request) /\ reply = NoReply
  /\ step = "dispatch" => response = EmptyResponse(request) /\ InstancesKept
  /\ step = "get"  => request.pdu = "GET"
  /\ step = "next" => request.pdu \in {"GET_NEXT", "GET_BULK"}
  /\ step = "set"  => request.pdu = "SET" /\ request.community \in Writers
  /\ step \in {"get", "next", "set"} => response.pdu = "GET_RESPONSE"
  /\ step = "send" /\ response.pdu = "GET_RESPONSE" =>
       \/ Len(response.binds) = Asked
       \/ request.pdu = "SET" /\ response.status = "NO_ACCESS"

\* What StatusIffFailure says of the response while it is under construction.
Missed == \E k \in 1..Len(response.binds) : ~Has(response.binds[k].oid)

SetSoFar ==
  IF response.status = "NO_ERROR"
  THEN \A k \in 1..Len(response.binds) : Granted(k, response.binds)
  ELSE \/ request.community \notin Writers
       \/ \E k \in 1..Len(response.binds) : response.binds[k].value = NULL

StatusSoFar ==
  /\ step = "get" \/ (step = "send" /\ request.pdu = "GET") =>
       ((response.status # "NO_ERROR") <=> Missed)
  /\ step = "set" \/ (step = "send" /\ request.pdu = "SET") => SetSoFar
  /\ step = "send" /\ request.pdu = "SET" /\ response.status = "NO_ERROR" =>
       request.community \in Writers

IInv == /\ TypeOK /\ StepFits /\ Aligned
        /\ StatusSoFar /\ StatusIffFailure
        /\ SetAccountsForMib /\ GetIsCurrent /\ NextIsNext

=============================================================================
