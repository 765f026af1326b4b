--------------------------- MODULE SnmpAgentProofs ---------------------------
(***************************************************************************)
(* Proofs about SnmpAgent, for any MIB, any access tables, any requests    *)
(* with any number of variable bindings.                                   *)
(***************************************************************************)
EXTENDS SnmpAgent, TLAPS

\* What a request of the managers looks like.
LEMMA RequestFacts ==
  ASSUME NEW q \in Requests
  PROVE  /\ q.version \in Versions /\ q.id \in Nat
         /\ q.binds \in Seq(Bindings) /\ Len(q.binds) \in Nat
         /\ \A k \in 1..Len(q.binds) : q.binds[k] \in Bindings
         /\ EmptyResponse(q) \in Responses
<1>1. q.version \in Versions /\ q.id \in Nat /\ q.binds \in Seq(Bindings)
  BY AgentAssumption DEF AgentAssumption
<1>2. <<>> \in Seq(Bindings)
  OBVIOUS
<1>3. EmptyResponse(q) \in Responses
  BY <1>1, <1>2 DEF EmptyResponse, Responses, Statuses
<1> QED BY <1>1, <1>3

\* The binding whose turn it is, inside a loop.
LEMMA BindingFacts ==
  ASSUME TypeOK, Turn <= Asked
  PROVE  /\ Turn \in 1..Asked /\ Asked \in Nat /\ Len(response.binds) \in Nat
         /\ Turn = Len(response.binds) + 1
         /\ Binding = request.binds[Turn]
         /\ Binding \in Bindings /\ Binding.oid \in Nat
         /\ Binding.value \in Values \cup {NULL}
<1>1. request \in Requests /\ response.binds \in Seq(Bindings)
  BY DEF TypeOK, Responses
<1>2. Len(response.binds) \in Nat /\ Len(request.binds) \in Nat
  BY <1>1, RequestFacts
<1>3. Turn \in 1..Asked
  BY <1>2 DEF Turn, Asked
<1>4. Binding \in Bindings
  BY <1>1, <1>3, RequestFacts DEF Binding, Asked
<1> QED BY <1>2, <1>3, <1>4 DEF Bindings, Asked, Turn, Binding

\* A loop step appends one binding to the response.
LEMMA AnswerFacts ==
  ASSUME TypeOK, Turn <= Asked, NEW bind \in Bindings, request' = request,
         response'.binds = Append(response.binds, bind)
  PROVE  /\ response'.binds \in Seq(Bindings)
         /\ Len(response'.binds) = Turn /\ Asked' = Asked
         /\ \A k \in 1..Len(response'.binds) :
              \/ k = Turn /\ response'.binds[k] = bind
              \/ /\ k \in 1..Len(response.binds)
                 /\ response'.binds[k] = response.binds[k]
         /\ \A k \in 1..Len(response.binds) :
              k \in 1..Len(response'.binds) /\ response'.binds[k] = response.binds[k]
         /\ Turn \in 1..Len(response'.binds) /\ response'.binds[Turn] = bind
<1>1. response.binds \in Seq(Bindings)
  BY DEF TypeOK, Responses
<1>2. Turn = Len(response.binds) + 1 /\ Len(response.binds) \in Nat
  BY BindingFacts
<1>3. Asked' = Asked
  BY DEF Asked
<1> QED BY <1>1, <1>2, <1>3

\* The loops keep the types, whether a binding is good or bad.
LEMMA GoodType ==
  ASSUME TypeOK, Turn <= Asked, NEW o \in Nat, NEW v \in Values \cup {NULL},
         Good(o, v)
  PROVE  response' \in Responses
<1>1. response.binds \in Seq(Bindings) /\ [oid |-> o, value |-> v] \in Bindings
  BY DEF TypeOK, Responses, Bindings
<1>2. Answer(o, v) \in Seq(Bindings)
  BY <1>1 DEF Answer
<1> QED BY <1>2 DEF TypeOK, Responses, Good

LEMMA BadType ==
  ASSUME TypeOK, Turn <= Asked, NEW e \in Statuses, Bad(e)
  PROVE  response' \in Responses
<1>1. /\ response.binds \in Seq(Bindings) /\ Asked \in Nat
      /\ [oid |-> Binding.oid, value |-> NULL] \in Bindings
  BY BindingFacts DEF TypeOK, Responses, Bindings
<1>2. Answer(Binding.oid, NULL) \in Seq(Bindings)
  BY <1>1 DEF Answer
<1>3. Asked % 256 \in Nat
  BY <1>1
<1> QED BY <1>2, <1>3 DEF TypeOK, Responses, Bad

\* A value that the MIB holds.
LEMMA HasValue == ASSUME TypeOK, NEW o, Has(o) PROVE mib[o] \in Values \cup {NULL}
BY DEF TypeOK, Has

LEMMA TypeInit == Init => TypeOK
<1> SUFFICES ASSUME Init PROVE TypeOK
  OBVIOUS
<1>1. response \in Responses
  BY RequestFacts DEF Init
<1>2. charged \in [Sources -> 0..MaxRate]
  BY AgentAssumption DEF Init, AgentAssumption
<1> QED BY <1>1, <1>2, AgentAssumption DEF Init, TypeOK, AgentAssumption

\* No step breaks a type.
LEMMA TypeStep == TypeOK /\ [Next]_vars => TypeOK'
<1> SUFFICES ASSUME TypeOK, [Next]_vars PROVE TypeOK'
  OBVIOUS
<1> USE DEF TypeOK
<1>1. CASE Receive
  <2>1. PICK s \in Sources, q \in Requests :
          DropOverRate(s, q) \/ DropDenied(s, q) \/ Admit(s, q)
    BY <1>1 DEF Receive
  <2>2. WithinRate(s) => [charged EXCEPT ![s] = @ + 1] \in [Sources -> 0..MaxRate]
    BY AgentAssumption DEF AgentAssumption, WithinRate
  <2>3. CASE DropOverRate(s, q)
    BY <2>3 DEF DropOverRate, vars
  <2>4. CASE DropDenied(s, q)
    BY <2>2, <2>4 DEF DropDenied, Charge
  <2>5. CASE Admit(s, q)
    BY <2>2, <2>5, RequestFacts DEF Admit, Charge
  <2> QED BY <2>1, <2>3, <2>4, <2>5
<1>2. CASE Switch
  <2>1. response' \in Responses
    BY <1>2 DEF Switch, EnterGet, EnterGetNext, EnterSet, RefuseSet, LogTrap,
                Reject, Responses, Statuses
  <2> QED BY <1>2, <2>1 DEF Switch, EnterGet, EnterGetNext, EnterSet, RefuseSet,
                            LogTrap, Reject, Dispatch
<1>3. CASE Loop
  <2> USE DEF InLoop, Looping
  <2>1. CASE GetValue
    BY <2>1, BindingFacts, GoodType, HasValue DEF GetValue
  <2>2. CASE GetMissing
    BY <2>2, BadType DEF GetMissing, Statuses
  <2>3. CASE NextValue
    BY <2>3, BindingFacts, GoodType, HasValue, AgentAssumption
    DEF NextValue, AgentAssumption
  <2>4. CASE NextAtEnd
    BY <2>4, BindingFacts, GoodType DEF NextAtEnd
  <2>5. CASE SetNoAccess \/ SetMissing \/ SetScalar \/ SetFails
    BY <2>5, BadType DEF SetNoAccess, SetMissing, SetScalar, SetFails, Statuses
  <2>6. CASE SetValue
    BY <2>6, BindingFacts, GoodType DEF SetValue
  <2>7. CASE LoopDone
    BY <2>7 DEF LoopDone
  <2> QED BY <1>3, <2>1, <2>2, <2>3, <2>4, <2>5, <2>6, <2>7 DEF Loop
<1>4. CASE Send
  BY <1>4 DEF Send, SendResponse, SendFails
<1>5. CASE Environment
  <2>1. ASSUME NEW s \in Sources, WindowElapses(s) PROVE TypeOK'
    BY <2>1, AgentAssumption DEF WindowElapses, AgentAssumption
  <2>2. ASSUME NEW o \in Oids, Tick(o) PROVE TypeOK'
    BY <2>2 DEF Tick
  <2> QED BY <1>5, <2>1, <2>2 DEF Environment
<1>6. CASE UNCHANGED vars
  BY <1>6 DEF vars
<1> QED BY <1>1, <1>2, <1>3, <1>4, <1>5, <1>6 DEF Next

\* No step takes an object its value, or gives one to an object without: NULL
\* is a value, too.
LEMMA HasKept == ASSUME TypeOK, [Next]_vars, NEW o PROVE Has(o)' <=> Has(o)
<1>1. CASE SetValue
  <2>1. /\ mib' = [mib EXCEPT ![Binding.oid] = Binding.value] /\ Has(Binding.oid)
        /\ Binding.value # Absent
    BY <1>1, BindingFacts, AgentAssumption
    DEF SetValue, InLoop, Writable, AgentAssumption
  <2> QED BY <2>1 DEF Has, TypeOK
<1>2. ASSUME NEW p \in Oids, Tick(p) PROVE Has(o)' <=> Has(o)
  BY <1>2, AgentAssumption DEF Tick, Has, TypeOK, AgentAssumption
<1>3. CASE UNCHANGED mib
  BY <1>3 DEF Has
<1> QED BY <1>1, <1>2, <1>3
  DEF Next, Receive, DropOverRate, DropDenied, Admit, Switch, EnterGet, EnterGetNext,
      EnterSet, RefuseSet, LogTrap, Reject, Dispatch, Loop, GetValue, GetMissing,
      NextValue, NextAtEnd, SetNoAccess, SetMissing, SetScalar, SetFails, LoopDone,
      Send, SendResponse, SendFails, Environment, WindowElapses, vars

\* Every variable keeps its type.
THEOREM TypeCorrect == Spec => []TypeOK
BY TypeInit, TypeStep, PTL DEF Spec

-----------------------------------------------------------------------------
\* Initially no binding has been answered and no object has changed.
LEMMA InvInit == Init => IInv
<1> SUFFICES ASSUME Init PROVE IInv
  OBVIOUS
<1>1. TypeOK
  BY TypeInit
<1>2. Len(response.binds) = 0 /\ Asked \in Nat
  BY RequestFacts DEF Init, EmptyResponse, Asked
<1>4. StepFits /\ StatusSoFar /\ StatusIffFailure
  BY DEF Init, StepFits, StatusSoFar, StatusIffFailure
<1>5. Aligned /\ GetIsCurrent /\ NextIsNext
  BY <1>2 DEF Init, Aligned, GetIsCurrent, NextIsNext
<1>6. SetAccountsForMib
  BY <1>2 DEF Init, SetAccountsForMib, Holds, AnsweredFor, Carried
<1> QED BY <1>1, <1>4, <1>5, <1>6 DEF IInv

\* Steps that leave request, response, reply and the tables of the MIB alone.
LEMMA QuietStep ==
  ASSUME IInv, TypeOK', StepFits', StatusSoFar',
         UNCHANGED <<request, source, response, reply, before>>,
         \A o : Has(o)' <=> Has(o), \A o \in Oids \ Scalars : mib'[o] = mib[o]
  PROVE  IInv'
<1> USE DEF IInv
<1>1. Aligned' /\ StatusIffFailure'
  BY DEF Aligned, Asked, StatusIffFailure, Granted
<1>2. SetAccountsForMib'
  BY DEF SetAccountsForMib, Holds, AnsweredFor, Carried, Unclear
<1>3. GetIsCurrent'
  BY DEF GetIsCurrent, Has
<1>4. NextIsNext'
  BY DEF NextIsNext, IsNext, Later
<1> QED BY <1>1, <1>2, <1>3, <1>4

\* A request that is admitted starts with an empty response.
LEMMA AdmitInv ==
  ASSUME IInv, TypeOK', NEW s \in Sources, NEW q \in Requests, Admit(s, q)
  PROVE  IInv'
<1>1. Len(response'.binds) = 0 /\ Asked' \in Nat /\ reply' = NoReply
  BY RequestFacts DEF Admit, EmptyResponse, Asked
<1>2. StepFits' /\ StatusSoFar' /\ StatusIffFailure'
  BY DEF Admit, IInv, StepFits, Permitted, InstancesKept, StatusSoFar,
         StatusIffFailure
<1>3. Aligned' /\ GetIsCurrent' /\ NextIsNext'
  BY <1>1 DEF Aligned, GetIsCurrent, NextIsNext
<1>4. SetAccountsForMib'
  BY <1>1 DEF Admit, SetAccountsForMib, Holds, AnsweredFor, Carried
<1> QED BY <1>2, <1>3, <1>4 DEF IInv

\* The switch chooses a loop, or sends what it has.
LEMMA SwitchInv == ASSUME IInv, TypeOK', Switch PROVE IInv'
<1> USE DEF IInv
<1>1. /\ step = "dispatch" /\ reply = NoReply /\ response = EmptyResponse(request)
      /\ InstancesKept /\ Permitted(source, request)
  BY DEF Switch, EnterGet, EnterGetNext, EnterSet, RefuseSet, LogTrap, Reject,
         Dispatch, StepFits
<1>2. /\ UNCHANGED <<request, source, reply, mib, before>>
      /\ response'.binds = response.binds /\ Len(response.binds) = 0 /\ Asked \in Nat
  BY <1>1, RequestFacts
  DEF Switch, EnterGet, EnterGetNext, EnterSet, RefuseSet, LogTrap, Reject,
      Dispatch, EmptyResponse, Asked, TypeOK
<1>3. Aligned' /\ GetIsCurrent' /\ NextIsNext' /\ StatusIffFailure'
  BY <1>1, <1>2 DEF Aligned, Asked, GetIsCurrent, NextIsNext, StatusIffFailure
<1>4. SetAccountsForMib'
  BY <1>1, <1>2 DEF SetAccountsForMib, Holds, AnsweredFor, Carried, InstancesKept
<1>5. StepFits'
  <2> USE <1>1, <1>2 DEF StepFits, Dispatch, EmptyResponse, Permitted, Asked
  <2>1. CASE EnterGet
    BY <2>1 DEF EnterGet, TypeOK
  <2>2. CASE EnterGetNext
    BY <2>2 DEF EnterGetNext, TypeOK
  <2>3. CASE EnterSet
    BY <2>3 DEF EnterSet, TypeOK
  <2>4. CASE RefuseSet
    BY <2>4 DEF RefuseSet, TypeOK
  <2>5. CASE LogTrap
    BY <2>5 DEF LogTrap, TypeOK
  <2>6. CASE Reject
    BY <2>6 DEF Reject, TypeOK
  <2> QED BY <2>1, <2>2, <2>3, <2>4, <2>5, <2>6 DEF Switch
<1>6. StatusSoFar'
  <2>1. ~Missed' /\ (response'.status = "NO_ERROR" => SetSoFar')
    BY <1>1, <1>2 DEF Missed, SetSoFar
  <2> USE <1>1, <1>2, <2>1 DEF StatusSoFar, Dispatch, EmptyResponse
  <2>2. CASE EnterGet \/ EnterGetNext \/ EnterSet
    <3>1. response'.status = "NO_ERROR" /\ step' # "send"
      BY <2>2 DEF EnterGet, EnterGetNext, EnterSet
    <3> QED BY <3>1
  <2>3. CASE RefuseSet
    <3>1. /\ response'.status = "NO_ACCESS" /\ step' = "send"
          /\ request.pdu = "SET" /\ request.community \notin Writers
      BY <2>3 DEF RefuseSet
    <3> QED BY <3>1 DEF SetSoFar
  <2>4. CASE LogTrap \/ Reject
    <3>1. step' = "send" /\ request.pdu \notin {"GET", "SET"}
      BY <2>4 DEF LogTrap, Reject
    <3> QED BY <3>1
  <2> QED BY <2>2, <2>3, <2>4 DEF Switch
<1> QED BY <1>3, <1>4, <1>5, <1>6

\* What a loop step does to everything but its own loop's promise: it appends
\* one binding, and sets the error status if that binding failed.
LEMMA AppendInv ==
  ASSUME IInv, TypeOK', step \in {"get", "next", "set"}, Turn <= Asked,
         Looping, NEW bind \in Bindings,
         response'.binds = Append(response.binds, bind),
         response'.pdu = response.pdu, \A o : Has(o)' <=> Has(o),
         step # "next" => bind.oid = Binding.oid,
         step = "get" => ((response'.status # "NO_ERROR") <=>
                            (response.status # "NO_ERROR" \/ ~Has(bind.oid))),
         step = "set" =>
           IF response'.status = "NO_ERROR"
           THEN response.status = "NO_ERROR" /\ bind = Binding /\ Writable
           ELSE response.status # "NO_ERROR" \/ bind.value = NULL
  PROVE  StepFits' /\ Aligned' /\ StatusSoFar' /\ StatusIffFailure'
<1> USE DEF IInv, Looping
<1>1. /\ Len(response'.binds) = Turn /\ Asked' = Asked
      /\ \A k \in 1..Len(response'.binds) :
           \/ k = Turn /\ response'.binds[k] = bind
           \/ k \in 1..Len(response.binds) /\ response'.binds[k] = response.binds[k]
      /\ \A k \in 1..Len(response.binds) :
           k \in 1..Len(response'.binds) /\ response'.binds[k] = response.binds[k]
      /\ Turn \in 1..Len(response'.binds) /\ response'.binds[Turn] = bind
  BY AnswerFacts
<1>2. reply = NoReply /\ reply' = NoReply
  BY DEF StepFits
<1>3. StepFits'
  BY <1>2 DEF StepFits, Permitted
<1>4. Aligned'
  <2>1. ASSUME request.pdu \in {"GET", "SET"}, NEW k \in 1..Len(response'.binds)
        PROVE  response'.binds[k].oid = request.binds[k].oid
    <3>1. step # "next"
      BY <2>1 DEF StepFits
    <3> QED BY <1>1, <2>1, <3>1 DEF Aligned, Binding
  <2> QED BY <1>1, <1>2, <2>1 DEF Aligned
<1>5. StatusSoFar'
  <2>1. CASE step = "get"
    <3>1. Missed' <=> (Missed \/ ~Has(bind.oid))
      BY <1>1 DEF Missed
    <3> QED BY <2>1, <3>1 DEF StatusSoFar
  <2>2. CASE step = "set" /\ response'.status = "NO_ERROR"
    <3>1. \A k \in 1..Len(response.binds) : Granted(k, response.binds)
      BY <2>2 DEF StatusSoFar, SetSoFar
    <3>2. /\ request.binds[Turn] = bind /\ Has(bind.oid) /\ bind.oid \notin Scalars
          /\ <<request.community, bind.oid>> \in OidAccess
      BY <2>2 DEF Binding, Writable, OidAllowed
    <3>3. SetSoFar'
      BY <1>1, <2>2, <3>1, <3>2 DEF SetSoFar, Granted
    <3> QED BY <2>2, <3>3 DEF StatusSoFar
  <2>3. CASE step = "set" /\ response'.status # "NO_ERROR"
    <3>1. SetSoFar'
      BY <1>1, <2>3 DEF StatusSoFar, SetSoFar
    <3> QED BY <2>3, <3>1 DEF StatusSoFar
  <2>4. CASE step = "next"
    BY <2>4 DEF StatusSoFar
  <2> QED BY <2>1, <2>2, <2>3, <2>4
<1>6. StatusIffFailure'
  BY <1>2 DEF StatusIffFailure
<1> QED BY <1>3, <1>4, <1>5, <1>6

\* The loop of GET answers with the values the MIB holds.
LEMMA GetInv == ASSUME IInv, TypeOK', GetValue \/ GetMissing PROVE IInv'
<1> USE DEF IInv
<1>1. /\ step = "get" /\ Turn <= Asked /\ Looping /\ UNCHANGED mib
      /\ request.pdu = "GET" /\ Binding \in Bindings
      /\ Binding.oid \in Nat
  BY BindingFacts DEF GetValue, GetMissing, InLoop, StepFits
<1> DEFINE bind == [oid |-> Binding.oid,
                    value |-> IF Has(Binding.oid) THEN mib[Binding.oid] ELSE NULL]
<1>2. bind \in Bindings
  BY <1>1, HasValue DEF Bindings
<1>3. /\ response'.binds = Append(response.binds, bind)
      /\ response'.pdu = response.pdu
      /\ (response'.status # "NO_ERROR") <=>
           (response.status # "NO_ERROR" \/ ~Has(bind.oid))
  BY <1>2 DEF GetValue, GetMissing, Good, Bad, Answer, TypeOK, Responses
<1> HIDE DEF bind
<1>4. StepFits' /\ Aligned' /\ StatusSoFar' /\ StatusIffFailure'
  <2>1. bind.oid = Binding.oid /\ \A o : Has(o)' <=> Has(o)
    BY <1>1 DEF bind, Has
  <2> QED BY <1>1, <1>2, <1>3, <2>1, AppendInv
<1>5. SetAccountsForMib' /\ NextIsNext'
  BY <1>1 DEF SetAccountsForMib, NextIsNext, Looping
<1>6. GetIsCurrent'
  BY <1>1, <1>2, <1>3, AnswerFacts DEF GetIsCurrent, Has, Looping, bind
<1> QED BY <1>4, <1>5, <1>6

\* The loop of GET-NEXT and GET-BULK answers with the next object.
LEMMA NextInv == ASSUME IInv, TypeOK', NextValue \/ NextAtEnd PROVE IInv'
<1> USE DEF IInv
<1>1. /\ step = "next" /\ Turn <= Asked /\ Looping /\ UNCHANGED mib
      /\ request.pdu \in {"GET_NEXT", "GET_BULK"}
      /\ Binding.oid \in Nat /\ Turn \in 1..Asked /\ Binding = request.binds[Turn]
  BY BindingFacts DEF NextValue, NextAtEnd, InLoop, StepFits
<1>2. PICK bind \in Bindings :
        /\ response'.binds = Append(response.binds, bind)
        /\ response'.pdu = response.pdu
        /\ IF Later(Binding.oid) = {}
           THEN bind.oid = Binding.oid /\ bind.value \notin Values
           ELSE /\ IsNext(Binding.oid, bind.oid)
                /\ IF Has(bind.oid) THEN bind.value = mib[bind.oid]
                   ELSE bind.value \notin Values
  <2>1. CASE NextValue
    <3>1. PICK p \in Oids : /\ IsNext(Binding.oid, p)
                            /\ Good(p, IF Has(p) THEN mib[p] ELSE NULL)
      BY <2>1 DEF NextValue
    <3> DEFINE bind == [oid |-> p, value |-> IF Has(p) THEN mib[p] ELSE NULL]
    <3>2. bind \in Bindings
      BY HasValue, AgentAssumption DEF Bindings, AgentAssumption
    <3>3. /\ Later(Binding.oid) # {} /\ bind.oid = p
          /\ IF Has(p) THEN bind.value = mib[p] ELSE bind.value \notin Values
      BY <3>1, AgentAssumption DEF IsNext, AgentAssumption
    <3>4. response'.binds = Append(response.binds, bind) /\ response'.pdu = response.pdu
      BY <3>1 DEF Good, Answer, TypeOK, Responses
    <3> QED BY <3>1, <3>2, <3>3, <3>4
  <2>2. CASE NextAtEnd
    <3> DEFINE bind == [oid |-> Binding.oid, value |-> NULL]
    <3>1. /\ bind \in Bindings /\ Later(Binding.oid) = {}
          /\ bind.oid = Binding.oid /\ bind.value \notin Values
      BY <1>1, <2>2, AgentAssumption DEF Bindings, NextAtEnd, AgentAssumption
    <3>2. response'.binds = Append(response.binds, bind) /\ response'.pdu = response.pdu
      BY <2>2 DEF NextAtEnd, Good, Answer, TypeOK, Responses
    <3> QED BY <3>1, <3>2
  <2> QED BY <2>1, <2>2
<1>3. StepFits' /\ Aligned' /\ StatusSoFar' /\ StatusIffFailure'
  <2>1. \A o : Has(o)' <=> Has(o)
    BY <1>1 DEF Has
  <2> QED BY <1>1, <1>2, <2>1, AppendInv
<1>4. SetAccountsForMib' /\ GetIsCurrent'
  BY <1>1 DEF SetAccountsForMib, GetIsCurrent, Looping
<1>5. \A k \in 1..Len(response'.binds) :
        \/ k = Turn /\ response'.binds[k] = bind
        \/ k \in 1..Len(response.binds) /\ response'.binds[k] = response.binds[k]
  BY <1>1, <1>2, AnswerFacts DEF Looping
<1>6. NextIsNext'
  BY <1>1, <1>2, <1>5 DEF NextIsNext, Later, IsNext, Has, Looping
<1> QED BY <1>3, <1>4, <1>6

\* A binding of a SET that fails leaves the MIB as the response accounts for it.
LEMMA SetBadInv ==
  ASSUME IInv, TypeOK', SetNoAccess \/ SetMissing \/ SetScalar \/ SetFails
  PROVE  IInv'
<1> USE DEF IInv
<1>1. PICK e \in Statuses \ {"NO_ERROR"} : Bad(e)
  BY DEF SetNoAccess, SetMissing, SetScalar, SetFails, Statuses
<1>2. /\ step = "set" /\ Turn <= Asked /\ Looping /\ UNCHANGED mib
      /\ request.pdu = "SET" /\ Binding.oid \in Nat
  BY BindingFacts DEF SetNoAccess, SetMissing, SetScalar, SetFails, InLoop, StepFits
<1> DEFINE bind == [oid |-> Binding.oid, value |-> NULL]
<1>3. /\ bind \in Bindings /\ bind.oid = Binding.oid /\ bind.value = NULL
      /\ response'.binds = Append(response.binds, bind)
      /\ response'.pdu = response.pdu /\ response'.status # "NO_ERROR"
  BY <1>1, <1>2 DEF Bindings, Bad, Answer, TypeOK, Responses
<1> HIDE DEF bind
<1>4. StepFits' /\ Aligned' /\ StatusSoFar' /\ StatusIffFailure'
  <2>1. \A o : Has(o)' <=> Has(o)
    BY <1>2 DEF Has
  <2> QED BY <1>2, <1>3, <2>1, AppendInv
<1>5. GetIsCurrent' /\ NextIsNext'
  BY <1>2 DEF GetIsCurrent, NextIsNext, Looping
<1>6. /\ \A k \in 1..Len(response'.binds) :
           \/ k = Turn /\ response'.binds[k] = bind
           \/ k \in 1..Len(response.binds) /\ response'.binds[k] = response.binds[k]
      /\ \A k \in 1..Len(response.binds) :
           k \in 1..Len(response'.binds) /\ response'.binds[k] = response.binds[k]
  BY <1>2, <1>3, AnswerFacts DEF Looping
<1>7. ASSUME NEW o
      PROVE  Carried(o)' = Carried(o) /\ AnsweredFor(o) \subseteq AnsweredFor(o)'
  BY <1>3, <1>6 DEF Carried, AnsweredFor
<1>8. \A o : \A k \in AnsweredFor(o) : response'.binds[k] = response.binds[k]
  BY <1>6 DEF AnsweredFor
<1>9. SetAccountsForMib'
  <2> SUFFICES ASSUME NEW o \in Oids \ Scalars
               PROVE  \/ Holds(o, Carried(o))'
                      \/ /\ mib'[o] = NULL
                         /\ \E k \in AnsweredFor(o)' :
                              Unclear(k)' /\ \A j \in Carried(o)' : j < k
    BY <1>3 DEF SetAccountsForMib
  <2>1. CASE Holds(o, Carried(o))
    BY <1>2, <1>7, <1>8, <2>1 DEF Holds, Carried, Looping
  <2>2. CASE ~Holds(o, Carried(o))
    <3>1. mib[o] = NULL
      BY <1>2, <2>2 DEF SetAccountsForMib
    <3>2. PICK k \in AnsweredFor(o) : Unclear(k) /\ \A j \in Carried(o) : j < k
      BY <1>2, <2>2 DEF SetAccountsForMib
    <3>3. Unclear(k)'
      BY <1>2, <1>8, <3>2 DEF Unclear, Looping
    <3> QED BY <1>2, <1>7, <3>1, <3>2, <3>3
  <2> QED BY <2>1, <2>2
<1> QED BY <1>4, <1>5, <1>9

\* A binding of a SET that succeeds is the last word on its object.
LEMMA SetValueInv == ASSUME IInv, TypeOK', SetValue PROVE IInv'
<1> USE DEF IInv
<1>1. /\ step = "set" /\ Turn <= Asked /\ Looping /\ request.pdu = "SET"
      /\ Binding.oid \in Nat /\ Binding.oid \in Oids /\ Turn \in 1..Asked
      /\ Binding = request.binds[Turn] /\ Binding \in Bindings
      /\ Turn = Len(response.binds) + 1 /\ Len(response.binds) \in Nat
      /\ mib' = [mib EXCEPT ![Binding.oid] = Binding.value]
  BY BindingFacts DEF SetValue, InLoop, StepFits, Writable, Has
<1>2. Writable /\ \A o : Has(o)' <=> Has(o)
  BY HasKept DEF SetValue, Next, Loop
<1> DEFINE bind == [oid |-> Binding.oid, value |-> Binding.value]
<1>3. /\ bind \in Bindings /\ bind.oid = Binding.oid /\ bind.value = Binding.value
      /\ bind = Binding
      /\ response'.binds = Append(response.binds, bind)
      /\ response'.pdu = response.pdu /\ response'.status = response.status
  BY <1>1 DEF Bindings, SetValue, Good, Answer, TypeOK, Responses
<1> HIDE DEF bind
<1>4. StepFits' /\ Aligned' /\ StatusSoFar' /\ StatusIffFailure'
  BY <1>1, <1>2, <1>3, AppendInv
<1>5. GetIsCurrent' /\ NextIsNext'
  BY <1>1 DEF GetIsCurrent, NextIsNext, Looping
<1>6. /\ Len(response'.binds) = Turn
      /\ Turn \in 1..Len(response'.binds) /\ response'.binds[Turn] = bind
      /\ \A k \in 1..Len(response'.binds) :
           \/ k = Turn /\ response'.binds[k] = bind
           \/ k \in 1..Len(response.binds) /\ response'.binds[k] = response.binds[k]
      /\ \A k \in 1..Len(response.binds) :
           k \in 1..Len(response'.binds) /\ response'.binds[k] = response.binds[k]
  BY <1>1, <1>3, AnswerFacts DEF Looping
<1>7. SetAccountsForMib'
  <2> SUFFICES ASSUME NEW o \in Oids \ Scalars
               PROVE  /\ response'.status = "NO_ERROR" => Holds(o, AnsweredFor(o))'
                      /\ \/ Holds(o, Carried(o))'
                         \/ /\ mib'[o] = NULL
                            /\ \E k \in AnsweredFor(o)' :
                                 Unclear(k)' /\ \A j \in Carried(o)' : j < k
    BY DEF SetAccountsForMib
  <2>1. CASE o = Binding.oid
    <3>1. Turn \in AnsweredFor(o)' /\ \A j \in AnsweredFor(o)' : j <= Turn
      BY <1>1, <1>3, <1>6, <2>1 DEF AnsweredFor
    <3>2. mib'[o] = response'.binds[Turn].value
      BY <1>1, <1>3, <1>6, <2>1 DEF TypeOK
    <3>3. Holds(o, AnsweredFor(o))'
      BY <3>1, <3>2 DEF Holds
    <3>4. CASE bind.value # NULL
      <4>1. Turn \in Carried(o)' /\ \A j \in Carried(o)' : j <= Turn
        BY <1>6, <3>1, <3>4 DEF Carried
      <4>2. Holds(o, Carried(o))'
        BY <3>2, <4>1 DEF Holds
      <4> QED BY <3>3, <4>2
    <3>5. CASE bind.value = NULL
      <4>1. PICK n \in Nat : n = Turn
        BY <1>1
      <4>2. Unclear(n)' /\ mib'[o] = NULL
        BY <1>1, <1>3, <1>6, <3>2, <3>5, <4>1 DEF Unclear, Looping
      <4>3. \A j \in Carried(o)' : j < n
        BY <1>1, <1>6, <3>5, <4>1 DEF Carried, AnsweredFor
      <4> QED BY <3>1, <3>3, <4>1, <4>2, <4>3
    <3> QED BY <3>4, <3>5
  <2>2. CASE o # Binding.oid
    <3>1. AnsweredFor(o)' = AnsweredFor(o) /\ Carried(o)' = Carried(o)
      BY <1>3, <1>6, <2>2 DEF AnsweredFor, Carried
    <3>2. \A k \in AnsweredFor(o) : response'.binds[k] = response.binds[k]
      BY <1>6 DEF AnsweredFor
    <3>3. mib'[o] = mib[o] /\ before' = before /\ request' = request
      BY <1>1, <2>2 DEF Looping, TypeOK
    <3>4. Holds(o, AnsweredFor(o)) => Holds(o, AnsweredFor(o))'
      BY <3>1, <3>2, <3>3 DEF Holds
    <3>5. Holds(o, Carried(o)) => Holds(o, Carried(o))'
      BY <3>1, <3>2, <3>3 DEF Holds, Carried
    <3>6. \A k \in AnsweredFor(o) : Unclear(k)' <=> Unclear(k)
      BY <3>2, <3>3 DEF Unclear
    <3> QED BY <1>1, <1>3, <3>1, <3>3, <3>4, <3>5, <3>6 DEF SetAccountsForMib
  <2> QED BY <2>1, <2>2
<1> QED BY <1>4, <1>5, <1>7

\* Leaving a loop: every binding has been answered.
LEMMA LoopDoneInv == ASSUME IInv, TypeOK', LoopDone PROVE IInv'
<1> USE DEF IInv
<1>1. Len(response.binds) = Asked
  <2>1. Len(response.binds) \in Nat /\ Asked \in Nat
    BY RequestFacts DEF TypeOK, Responses, Asked
  <2> QED BY <2>1 DEF LoopDone, Turn, Aligned
<1>2. StepFits'
  BY <1>1 DEF LoopDone, StepFits, Asked, Permitted
<1>3. StatusSoFar'
  <2>1. (Missed' <=> Missed) /\ (SetSoFar' <=> SetSoFar)
    BY DEF Missed, SetSoFar, Granted, Has, LoopDone
  <2> QED BY <2>1 DEF StatusSoFar, LoopDone, StepFits
<1>4. (\A o : Has(o)' <=> Has(o)) /\ \A o \in Oids \ Scalars : mib'[o] = mib[o]
  BY DEF LoopDone, Has
<1> QED BY <1>2, <1>3, <1>4, QuietStep DEF LoopDone

\* The reply is the response as it stands, or nothing leaves.
LEMMA SendInv == ASSUME IInv, TypeOK', Send PROVE IInv'
<1> USE DEF IInv
<1>1. /\ step = "send" /\ step' = "idle" /\ reply = NoReply
      /\ UNCHANGED <<request, source, response, mib, before>>
      /\ reply' = response \/ reply' = NoReply
  BY DEF Send, SendResponse, SendFails, StepFits
<1>2. StepFits' /\ StatusSoFar'
  BY <1>1 DEF StepFits, StatusSoFar
<1>3. SetAccountsForMib' /\ GetIsCurrent' /\ NextIsNext'
  BY <1>1 DEF SetAccountsForMib, Holds, AnsweredFor, Carried, Unclear, GetIsCurrent, Has, NextIsNext, Later, IsNext
<1>4. Aligned'
  BY <1>1 DEF Aligned, Asked, StepFits
<1>5. StatusIffFailure'
  BY <1>1 DEF StatusIffFailure, StatusSoFar, SetSoFar, Missed, Granted, Has
<1> QED BY <1>2, <1>3, <1>4, <1>5

\* Clocks and getters change nothing a response has promised.
LEMMA EnvironmentInv == ASSUME IInv, TypeOK', Environment PROVE IInv'
<1> USE DEF IInv
<1>1. /\ UNCHANGED <<step, request, source, response, reply, before>>
      /\ \A o \in Oids \ Scalars : mib'[o] = mib[o]
      /\ \A o : Has(o)' <=> Has(o)
  <2>1. ASSUME NEW s \in Sources, WindowElapses(s)
        PROVE  UNCHANGED <<step, request, source, response, reply, before, mib>>
    BY <2>1 DEF WindowElapses
  <2>2. ASSUME NEW p \in Oids, Tick(p)
        PROVE  /\ UNCHANGED <<step, request, source, response, reply, before>>
               /\ \A o \in Oids \ Scalars : mib'[o] = mib[o]
    BY <2>2 DEF Tick, TypeOK
  <2>3. \A o : Has(o)' <=> Has(o)
    BY HasKept DEF Next
  <2> QED BY <2>1, <2>2, <2>3 DEF Environment
<1>2. StepFits'
  BY <1>1 DEF StepFits, InstancesKept, Permitted, EmptyResponse, Asked
<1>3. StatusSoFar'
  BY <1>1 DEF StatusSoFar, SetSoFar, Missed, Granted
<1> QED BY <1>1, <1>2, <1>3, QuietStep

-----------------------------------------------------------------------------
\* The conjunction of the properties is inductive.
LEMMA InvStep == IInv /\ [Next]_vars => IInv'
<1> SUFFICES ASSUME IInv, [Next]_vars PROVE IInv'
  OBVIOUS
<1>1. TypeOK'
  BY TypeStep DEF IInv
<1>2. CASE Receive
  <2>1. PICK s \in Sources, q \in Requests :
          DropOverRate(s, q) \/ DropDenied(s, q) \/ Admit(s, q)
    BY <1>2 DEF Receive
  <2>2. CASE DropOverRate(s, q) \/ DropDenied(s, q)
    <3>1. UNCHANGED <<step, request, source, response, reply, mib, before>>
      BY <2>2 DEF DropOverRate, DropDenied, vars
    <3>2. StepFits' /\ StatusSoFar' /\ \A o : Has(o)' <=> Has(o)
      BY <3>1 DEF IInv, StepFits, InstancesKept, Permitted, EmptyResponse,
                  Asked, StatusSoFar, SetSoFar, Missed, Granted, Has
    <3> QED BY <1>1, <3>1, <3>2, QuietStep
  <2> QED BY <1>1, <2>1, <2>2, AdmitInv
<1>3. CASE Switch
  BY <1>1, <1>3, SwitchInv
<1>4. CASE Loop
  BY <1>1, <1>4, GetInv, NextInv, SetBadInv, SetValueInv, LoopDoneInv DEF Loop
<1>5. CASE Send
  BY <1>1, <1>5, SendInv
<1>6. CASE Environment
  BY <1>1, <1>6, EnvironmentInv
<1>7. CASE UNCHANGED vars
  <2>1. UNCHANGED <<step, request, source, response, reply, mib, before>>
    BY <1>7 DEF vars
  <2>2. StepFits' /\ StatusSoFar' /\ \A o : Has(o)' <=> Has(o)
    BY <2>1 DEF IInv, StepFits, InstancesKept, Permitted, EmptyResponse,
                Asked, StatusSoFar, SetSoFar, Missed, Granted, Has
  <2> QED BY <1>1, <2>1, <2>2, QuietStep
<1> QED BY <1>2, <1>3, <1>4, <1>5, <1>6, <1>7 DEF Next

\* Every reachable state satisfies the inductive invariant.
THEOREM Invariant == Spec => []IInv
BY InvInit, InvStep, PTL DEF Spec

\* However many bindings a SET has, whatever values they carry, NULL among them,
\* and whichever of them fail, the response says what the tables of the MIB hold,
\* up to the bindings of which it cannot tell NULL from a failure.
THEOREM SetIsAccountedFor == Spec => []SetAccountsForMib
<1>1. IInv => SetAccountsForMib
  BY DEF IInv
<1> QED BY <1>1, Invariant, PTL

\* A manager may believe the error status of an answer to GET or SET.
THEOREM StatusIsTrue == Spec => []StatusIffFailure
<1>1. IInv => StatusIffFailure
  BY DEF IInv
<1> QED BY <1>1, Invariant, PTL

\* Bindings are answered in the order they are asked.
THEOREM AnswersInOrder == Spec => []Aligned
<1>1. IInv => Aligned
  BY DEF IInv
<1> QED BY <1>1, Invariant, PTL

\* A GET is answered with what the tables held while it was served.
THEOREM AnswersAreCurrent == Spec => []GetIsCurrent
<1>1. IInv => GetIsCurrent
  BY DEF IInv
<1> QED BY <1>1, Invariant, PTL

\* A GET-NEXT is answered with the very next object: a walk meets each.
THEOREM WalksMissNothing == Spec => []NextIsNext
<1>1. IInv => NextIsNext
  BY DEF IInv
<1> QED BY <1>1, Invariant, PTL

\* Nobody writes a table who has not passed every check.
THEOREM AuthorisedWrites == Spec => OnlyAuthorisedWrites
<1>1. ASSUME IInv, [Next]_vars, NEW o \in Oids \ Scalars, mib'[o] # mib[o]
      PROVE  /\ request.pdu = "SET" /\ step = "set" /\ Turn <= Asked
             /\ Binding.oid = o /\ <<request.community, o>> \in OidAccess
             /\ Permitted(source, request) /\ request.community \in Writers
  <2>1. ASSUME NEW p \in Oids, Tick(p) PROVE mib'[o] = mib[o]
    BY <2>1 DEF Tick, IInv, TypeOK
  <2>2. SetValue
    BY <1>1, <2>1 DEF Next, Receive, DropOverRate, DropDenied, Admit, Switch,
       EnterGet, EnterGetNext, EnterSet, RefuseSet, LogTrap, Reject, Dispatch, Loop,
       GetValue, GetMissing, NextValue, NextAtEnd, SetNoAccess, SetMissing, SetScalar,
       SetFails, LoopDone, Send, SendResponse, SendFails, Environment,
       WindowElapses, vars
  <2>3. mib' = [mib EXCEPT ![Binding.oid] = Binding.value]
    BY <2>2 DEF SetValue
  <2> QED BY <1>1, <2>2, <2>3 DEF SetValue, InLoop, Writable, OidAllowed, IInv,
                                  StepFits, TypeOK
<1>2. IInv /\ [Next]_vars =>
        [\A o \in Oids \ Scalars : mib'[o] # mib[o] =>
           /\ request.pdu = "SET" /\ step = "set" /\ Turn <= Asked
           /\ Binding.oid = o /\ <<request.community, o>> \in OidAccess
           /\ Permitted(source, request) /\ request.community \in Writers]_vars
  BY <1>1
<1> QED BY <1>2, Invariant, PTL DEF Spec, OnlyAuthorisedWrites

=============================================================================
