-------------------------- MODULE SnmpExchangeProofs --------------------------
(***************************************************************************)
(* Proofs about SnmpExchange, for any MIB, any access tables, any number   *)
(* of SETs and tries, and any losses and delays.  They rest on what        *)
(* SnmpAgentProofs says of the agent, whose steps the exchange takes.      *)
(***************************************************************************)
EXTENDS SnmpExchange, SnmpAgentProofs

Inv == IInv /\ ExchangeInv

\* Every step is one that the agent takes, or none of its own.
LEMMA StepOfAgent == ExchangeInv /\ [ExchangeNext]_all => [Next]_vars
<1> SUFFICES ASSUME ExchangeInv, [ExchangeNext]_all PROVE [Next]_vars
  OBVIOUS
<1>1. CASE SendWrite \/ SendQuery \/ GiveUpWrite
  BY <1>1 DEF SendWrite, SendQuery, GiveUpWrite
<1>2. CASE \E a \in answers : Hear(a) \/ IgnoreAnswer(a)
  BY <1>2 DEF Hear, HearWritten, HearVisited, HearArrived, IgnoreAnswer
<1>3. ASSUME NEW q \in asked, AgentDrops(q) \/ AgentAdmits(q) PROVE [Next]_vars
  <2>1. Manager \in Sources /\ q \in Requests
    BY ExchangeAssumption DEF ExchangeAssumption, ExchangeInv, ExchangeTypeOK
  <2> QED
    BY <1>3, <2>1 DEF AgentDrops, AgentAdmits, Next, Receive
<1>4. CASE Agent
  BY <1>4 DEF Agent, AgentWorks, AgentStores, AgentAnswers, AgentSendFails, Next,
     Loop, Send
<1>5. CASE RateWindowElapses
  BY <1>5, ExchangeAssumption DEF ExchangeAssumption, RateWindowElapses, Next,
     Environment
<1>6. CASE UNCHANGED all
  BY <1>6 DEF all
<1> QED
  BY <1>1, <1>2, <1>3, <1>4, <1>5, <1>6 DEF ExchangeNext

-----------------------------------------------------------------------------
(* Requests and their ids.                                                 *)

LEMMA WriteFacts ==
  ASSUME NEW k \in 1..Len(Writes)
  PROVE  /\ WriteRequest(k) \in Requests /\ k \in Nat /\ Len(Writes) \in Nat
         /\ WriteRequest(k).id = k /\ WriteRequest(k).pdu = "SET"
         /\ WriteRequest(k).version = "v2c"
         /\ Len(WriteRequest(k).binds) = 1 /\ WriteRequest(k).binds[1] = Writes[k]
         /\ Writes[k].oid \in Nat /\ Writes[k].value \in Values \cup {NULL}
<1>1. Writes \in Seq(Bindings) /\ WriteRequest(k) \in Requests
  BY ExchangeAssumption DEF ExchangeAssumption
<1>2. Writes[k] \in Bindings /\ Len(Writes) \in Nat
  BY <1>1
<1>3. Writes[k].oid \in Nat /\ Writes[k].value \in Values \cup {NULL}
  BY <1>2 DEF Bindings
<1> QED
  BY <1>1, <1>2, <1>3 DEF WriteRequest, Ask

LEMMA WalkFacts ==
  ASSUME NEW o \in Places
  PROVE  /\ WalkRequest(o) \in Requests /\ o \in Nat /\ Len(Writes) \in Nat
         /\ WalkRequest(o).id = WalkId(o) /\ WalkRequest(o).pdu = "GET_NEXT"
         /\ WalkRequest(o).version = "v2c"
         /\ Len(WalkRequest(o).binds) = 1 /\ WalkRequest(o).binds[1].oid = o
         /\ WalkId(o) = Len(Writes) + 1 + o
         /\ WalkId(o) > Len(Writes) /\ WalkId(o) \in Nat
<1>1. o \in Nat /\ Len(Writes) \in Nat /\ WalkRequest(o) \in Requests
  BY ExchangeAssumption, AgentAssumption DEF ExchangeAssumption, AgentAssumption, Places
<1> QED
  BY <1>1 DEF WalkRequest, WalkId, Ask

\* The id says which request it is.
LEMMA GenuineFacts ==
  ASSUME ExchangeInv, NEW q, Genuine(q)
  PROVE  /\ q \in Requests /\ q.version = "v2c" /\ Len(q.binds) = 1
         /\ \/ /\ q.id \in SentSets /\ q.id \in 1..Len(Writes)
               /\ q = WriteRequest(q.id) /\ q.pdu = "SET"
            \/ \E o \in Places : /\ q = WalkRequest(o) /\ q.id = WalkId(o)
                                 /\ q.pdu = "GET_NEXT" /\ q.id > Len(Writes)
                                 /\ q.binds[1].oid = o
<1>1. CASE \E k \in SentSets : q = WriteRequest(k)
  BY <1>1, WriteFacts DEF SentSets
<1>2. CASE \E o \in Places : q = WalkRequest(o)
  BY <1>2, WalkFacts
<1> QED
  BY <1>1, <1>2 DEF Genuine

\* A value that stands is only made to fall by a SET that is stored.
LEMMA StandsKept ==
  ASSUME NEW j, Stands(j), mib' = mib, applied \subseteq applied',
         repeated \subseteq repeated',
         \A k \in (accepted' \cup refused') \ (accepted \cup refused) : k > j \/ k = j
  PROVE  Stands(j)'
<1>1. CASE mib[Writes[j].oid] = Writes[j].value
  BY <1>1 DEF Stands
<1>2. CASE \E k \in applied \ {j} :
             /\ Writes[k].oid = Writes[j].oid
             /\ k > j \/ k \in repeated \/ k \notin accepted \cup refused
  BY <1>2 DEF Stands
<1> QED
  BY <1>1, <1>2 DEF Stands

-----------------------------------------------------------------------------
(* What the agent's steps do to the response in hand.                      *)

\* A binding whose turn it is finds an empty response, since a request has one.
LEMMA TurnFacts ==
  ASSUME Inv, step # "idle", Turn <= Asked
  PROVE  Asked = 1 /\ Turn = 1 /\ response.binds = <<>> /\ ~Stored
<1>1. Asked = 1
  BY GenuineFacts DEF Inv, ExchangeInv, RequestsFit, Asked
<1>2. response.binds \in Seq(Bindings)
  BY DEF Inv, IInv, TypeOK, Responses
<1>3. Len(response.binds) = 0
  BY <1>1, <1>2 DEF Turn
<1> QED
  BY <1>1, <1>2, <1>3 DEF Turn, Stored

LEMMA SwitchEffect ==
  ASSUME Inv, Switch
  PROVE  /\ step = "dispatch" /\ step' \notin {"idle", "dispatch"}
         /\ request' = request /\ response'.id = response.id
         /\ response'.pdu = "GET_RESPONSE" /\ mib' = mib /\ ~Stored /\ ~Stored'
<1>1. step = "dispatch" /\ step' \notin {"idle", "dispatch"} /\ request' = request /\ mib' = mib
  BY DEF Switch, EnterGet, EnterGetNext, EnterSet, RefuseSet, LogTrap, Reject, Dispatch
<1>2. request.pdu \in {"SET", "GET_NEXT"}
  BY <1>1, GenuineFacts DEF Inv, ExchangeInv, RequestsFit
<1>3. response = EmptyResponse(request) /\ response \in Responses
  BY <1>1 DEF Inv, IInv, StepFits, TypeOK
<1>4. \/ response' = [response EXCEPT !.pdu = "GET_RESPONSE"]
      \/ response' = [response EXCEPT !.pdu = "GET_RESPONSE", !.status = "NO_ACCESS"]
  BY <1>2 DEF Switch, EnterGet, EnterGetNext, EnterSet, RefuseSet, LogTrap, Reject
<1>5. response.binds = <<>> /\ response'.binds = <<>>
  BY <1>3, <1>4 DEF EmptyResponse, Responses
<1>6. response'.id = response.id /\ response'.pdu = "GET_RESPONSE"
  BY <1>3, <1>4 DEF Responses
<1> QED
  BY <1>1, <1>5, <1>6 DEF Stored

LEMMA LoopEffect ==
  ASSUME Inv, Loop, ~SetValue
  PROVE  /\ step \notin {"idle", "dispatch"} /\ step' \notin {"idle", "dispatch"}
         /\ request' = request /\ response'.id = response.id
         /\ response'.pdu = response.pdu /\ mib' = mib
         /\ request.pdu = "SET" => (Stored' <=> Stored)
<1>1. response \in Responses
  BY DEF Inv, IInv, TypeOK
<1>2. CASE LoopDone
  BY <1>2 DEF LoopDone, Stored
<1>3. CASE GetValue \/ GetMissing \/ NextValue \/ NextAtEnd
  <2>1. step \in {"get", "next"} /\ request.pdu # "SET"
    BY <1>3 DEF GetValue, GetMissing, NextValue, NextAtEnd, InLoop, Inv, IInv, StepFits
  <2> QED
    BY <1>1, <1>3, <2>1 DEF GetValue, GetMissing, NextValue, NextAtEnd, Looping,
       Good, Bad, Responses
<1>4. CASE SetNoAccess \/ SetMissing \/ SetScalar \/ SetFails
  <2>1. step = "set" /\ Turn <= Asked
    BY <1>4 DEF SetNoAccess, SetMissing, SetScalar, SetFails, InLoop
  <2>2. ~Stored
    BY <2>1, TurnFacts
  <2>3. PICK e \in {"NO_ACCESS", "NO_SUCH_NAME", "READ_ONLY", "WRONG_VALUE"} : Bad(e)
    BY <1>4 DEF SetNoAccess, SetMissing, SetScalar, SetFails
  <2>4. /\ response'.status = e /\ response'.id = response.id
        /\ response'.pdu = response.pdu
    BY <1>1, <2>3 DEF Bad, Responses
  <2>5. ~Stored'
    BY <2>4 DEF Stored
  <2> QED
    BY <1>4, <2>1, <2>2, <2>4, <2>5 DEF SetNoAccess, SetMissing, SetScalar, SetFails,
       Looping
<1> QED
  BY <1>2, <1>3, <1>4 DEF Loop

\* SetValue stores the value of the request's only binding.
LEMMA StoreEffect ==
  ASSUME Inv, SetValue
  PROVE  /\ step = "set" /\ step' = step /\ request' = request
         /\ request.id \in SentSets /\ request.id \in 1..Len(Writes)
         /\ request = WriteRequest(request.id)
         /\ response'.id = response.id /\ response'.pdu = response.pdu
         /\ ~Stored /\ Stored'
         /\ mib' = [mib EXCEPT ![Writes[request.id].oid] = Writes[request.id].value]
         /\ Writes[request.id].oid \in Oids
<1>1. step = "set" /\ Turn <= Asked /\ step' = step /\ request' = request
  BY DEF SetValue, InLoop, Looping
<1>2. request.pdu = "SET" /\ Genuine(request)
  BY <1>1 DEF Inv, IInv, StepFits, ExchangeInv, RequestsFit
<1>3. /\ request.id \in SentSets /\ request.id \in 1..Len(Writes)
      /\ request = WriteRequest(request.id)
  BY <1>2, GenuineFacts DEF Inv
<1>4. Turn = 1 /\ response.binds = <<>> /\ ~Stored
  BY <1>1, TurnFacts
<1>5. Binding = Writes[request.id]
  BY <1>3, <1>4, WriteFacts DEF Binding
<1>6. response \in Responses
  BY DEF Inv, IInv, TypeOK
<1>7. response.status = "NO_ERROR"
  <2>1. request.community \in Writers /\ SetSoFar
    BY <1>1 DEF Inv, IInv, StepFits, StatusSoFar
  <2> QED
    BY <1>4, <2>1 DEF SetSoFar
<1>8. /\ response'.status = "NO_ERROR" /\ response'.id = response.id
      /\ response'.pdu = response.pdu
      /\ response'.binds = Answer(Binding.oid, Binding.value)
  BY <1>6, <1>7 DEF SetValue, Good, Responses
<1>9. Len(response'.binds) = 1
  <2>1. Len(response.binds) = 0 /\ response.binds \in Seq(Bindings)
    BY <1>4, <1>6 DEF Responses
  <2>2. [oid |-> Binding.oid, value |-> Binding.value] \in Bindings
    BY <1>3, <1>5, WriteFacts DEF Bindings
  <2> QED
    BY <1>8, <2>1, <2>2 DEF Answer
<1> QED
  BY <1>1, <1>3, <1>4, <1>5, <1>8, <1>9 DEF SetValue, Writable, Has, Stored

-----------------------------------------------------------------------------
(* The manager's steps.                                                    *)

LEMMA SendWriteInv == ASSUME Inv, IInv', SendWrite PROVE ExchangeInv'
<1> DEFINE n == settled + 1
<1>1. /\ n \in 1..Len(Writes) /\ settled \in Nat /\ tries \in Nat /\ Len(Writes) \in Nat
      /\ settled' = settled /\ tries' = tries + 1
      /\ UNCHANGED <<vars, answers, accepted, refused, visited, arrived, applied>>
      /\ repeated \subseteq repeated' /\ repeated' \subseteq repeated \cup {n}
  BY ExchangeAssumption DEF SendWrite, Writing, walk, Inv, ExchangeInv, ExchangeTypeOK,
     ExchangeAssumption
<1>2. asked' \subseteq asked \cup {WriteRequest(n)}
  BY DEF SendWrite, Under
<1>3. SentSets \subseteq SentSets' /\ n \in SentSets'
  BY <1>1 DEF SentSets
<1>4. ExchangeTypeOK'
  <2>1. WriteRequest(n) \in Requests
    BY <1>1, WriteFacts
  <2>2. tries' \in 0..MaxTries
    BY <1>1, ExchangeAssumption DEF SendWrite, ExchangeAssumption
  <2> QED
    BY <1>1, <1>2, <2>1, <2>2 DEF Inv, ExchangeInv, ExchangeTypeOK, IInv
<1>5. RequestsFit'
  <2>1. \A q : Genuine(q) => Genuine(q)'
    BY <1>3 DEF Genuine
  <2>2. \A q : q = WriteRequest(n) => Genuine(q)'
    BY <1>3 DEF Genuine
  <2> QED
    BY <1>1, <1>2, <1>3, <2>1, <2>2 DEF Inv, ExchangeInv, RequestsFit, vars
<1>6. \A j : Stands(j) => Stands(j)'
  BY <1>1, StandsKept DEF vars
<1>7. OneOfEach'
  <2> SUFFICES ASSUME NEW k \in 1..Len(Writes), k \notin repeated'
               PROVE  /\ AskedFor(k)' => ~Serving(k)' /\ ~Answered(k)' /\ k \notin applied'
                      /\ Serving(k)' => ~Answered(k)' /\ (k \in applied' => Stored')
    BY DEF OneOfEach
  <2>1. /\ Serving(k)' <=> Serving(k)
        /\ Answered(k)' <=> Answered(k)
        /\ Stored' <=> Stored
    BY <1>1 DEF Serving, Answered, Stored, vars
  <2>2. /\ AskedFor(k) => ~Serving(k) /\ ~Answered(k) /\ k \notin applied
        /\ Serving(k) => ~Answered(k) /\ (k \in applied => Stored)
    BY <1>1 DEF Inv, ExchangeInv, OneOfEach
  <2>3. CASE k # n
    <3>1. AskedFor(k)' => AskedFor(k)
      BY <1>1, <1>2, <2>3, WriteFacts DEF AskedFor
    <3> QED
      BY <1>1, <2>1, <2>2, <3>1
  <2>4. CASE k = n
    <3>1. tries = 0 /\ n \notin SentSets
      BY <1>1, <2>4 DEF SendWrite, SentSets
    <3>2. ~Serving(k)
      BY <1>1, <2>4, <3>1, GenuineFacts DEF Serving, Inv, ExchangeInv, RequestsFit
    <3>3. k \notin applied
      BY <2>4, <3>1 DEF Inv, ExchangeInv, RequestsFit
    <3>4. ~Answered(k)
      <4>1. k \notin accepted \cup refused
        BY <1>1, <2>4 DEF Inv, ExchangeInv, ExchangeTypeOK
      <4>2. ASSUME NEW a \in answers, a.id = k PROVE FALSE
        BY <1>1, <2>4, <3>1, <4>2, WalkFacts DEF Inv, ExchangeInv, AnswerFits
      <4> QED
        BY <4>1, <4>2 DEF Answered
    <3> QED
      BY <1>1, <2>1, <3>2, <3>3, <3>4
  <2> QED
    BY <2>3, <2>4
<1>8. StoredInHand'
  BY <1>1, <1>6 DEF Inv, ExchangeInv, StoredInHand, Serving, Stored, vars
<1>9. \A a \in answers' : AnswerFits(a)'
  BY <1>1, <1>3, <1>6 DEF Inv, ExchangeInv, AnswerFits
<1>10. AnswerTellsWhatWasStored' /\ ConfirmedValueStands'
  BY <1>1, <1>6 DEF Inv, ExchangeInv, AnswerTellsWhatWasStored, ConfirmedValueStands
<1> QED
  BY <1>4, <1>5, <1>7, <1>8, <1>9, <1>10 DEF ExchangeInv

\* Where the walk has come to is one of its places.
LEMMA PlaceFacts == ASSUME ExchangeInv PROVE Place \in Places /\ Query = WalkRequest(Place)
<1>1. visited \in Seq(Oids)
  BY DEF ExchangeInv, ExchangeTypeOK
<1>2. visited # <<>> => visited[Len(visited)] \in Oids
  BY <1>1
<1> QED
  BY <1>2 DEF Place, Places, Query

\* Steps of the manager after which no request and no response is anywhere new,
\* apart from a query.
LEMMA ManagerKeeps ==
  ASSUME Inv, IInv', UNCHANGED <<vars, writing, history>>,
         asked' \subseteq asked \cup {Query}, answers' \subseteq answers,
         visited' \in Seq(Oids), arrived' \in BOOLEAN
  PROVE  ExchangeInv'
<1>1. Place \in Places /\ Query = WalkRequest(Place)
  BY PlaceFacts DEF Inv
<1>2. /\ Query \in Requests /\ Query.id > Len(Writes) /\ Genuine(Query)
      /\ Len(Writes) \in Nat /\ Query.id \in Nat
  BY <1>1, WalkFacts DEF Genuine
<1>3. UNCHANGED <<SentSets, Stored>> /\ \A q : Genuine(q)' <=> Genuine(q)
  BY DEF SentSets, Stored, Genuine, writing, vars
<1>4. /\ \A j : Stands(j) => Stands(j)'
      /\ \A j : Serving(j)' <=> Serving(j)
      /\ \A j : Answered(j)' => Answered(j)
  BY StandsKept DEF writing, history, vars, Serving, Answered
<1>5. \A j \in 1..Len(Writes) : AskedFor(j)' => AskedFor(j)
  BY <1>2 DEF AskedFor
<1>6. ExchangeTypeOK'
  BY <1>2 DEF Inv, ExchangeInv, ExchangeTypeOK, IInv, writing, history
<1>7. RequestsFit'
  BY <1>2, <1>3 DEF Inv, ExchangeInv, RequestsFit, history, vars
<1>8. OneOfEach' /\ StoredInHand'
  BY <1>3, <1>4, <1>5 DEF Inv, ExchangeInv, OneOfEach, StoredInHand, history
<1>9. \A a \in answers' : AnswerFits(a)'
  BY <1>3, <1>4 DEF Inv, ExchangeInv, AnswerFits, history
<1>10. AnswerTellsWhatWasStored' /\ ConfirmedValueStands'
  BY <1>4 DEF Inv, ExchangeInv, AnswerTellsWhatWasStored, ConfirmedValueStands,
     writing, history
<1> QED
  BY <1>6, <1>7, <1>8, <1>9, <1>10 DEF ExchangeInv

\* The answer to a query leads on: to the next place, or nowhere.
LEMMA QueryAnswered ==
  ASSUME Inv, NEW a \in answers, a.id = WalkId(Place)
  PROVE  Leads(Place, a.binds[1].oid)
<1>1. Place \in Places
  BY PlaceFacts DEF Inv
<1>2. AnswerFits(a)
  BY DEF Inv, ExchangeInv
<1>3. a.id \notin SentSets
  BY <1>1, WalkFacts DEF SentSets
<1>4. PICK o \in Places : a.id = WalkId(o) /\ Leads(o, a.binds[1].oid)
  BY <1>2, <1>3 DEF AnswerFits
<1>5. o = Place
  <2>1. WalkId(o) = Len(Writes) + 1 + o /\ o \in Nat /\ Len(Writes) \in Nat
    BY WalkFacts
  <2>2. WalkId(Place) = Len(Writes) + 1 + Place /\ Place \in Nat
    BY <1>1, WalkFacts
  <2>3. WalkId(o) = WalkId(Place)
    BY <1>4, Zenon
  <2>4. Len(Writes) + 1 + o = Len(Writes) + 1 + Place
    BY <2>1, <2>2, <2>3, Zenon
  <2> QED
    BY <2>1, <2>2, <2>4
<1> QED
  BY <1>4, <1>5

LEMMA WalkInv ==
  ASSUME Inv, IInv',
         SendQuery \/ \E a \in answers : HearVisited(a) \/ HearArrived(a) \/ IgnoreAnswer(a)
  PROVE  ExchangeInv'
<1>1. visited \in Seq(Oids) /\ arrived \in BOOLEAN
  BY DEF Inv, ExchangeInv, ExchangeTypeOK
<1>2. CASE SendQuery
  BY <1>1, <1>2, ManagerKeeps DEF SendQuery, Under, walk
<1>3. ASSUME NEW a \in answers, HearVisited(a) PROVE ExchangeInv'
  <2>1. Leads(Place, a.binds[1].oid) /\ a.binds[1].oid > Place
    BY <1>3, QueryAnswered DEF HearVisited, IsAnswer
  <2>2. Place \in Nat
    BY PlaceFacts, WalkFacts DEF Inv
  <2>3. a.binds[1].oid \in Oids
    BY <2>1, <2>2 DEF Leads, IsNext, Later
  <2>4. visited' \in Seq(Oids)
    BY <1>1, <1>3, <2>3 DEF HearVisited
  <2> QED
    BY <1>1, <1>3, <2>4, ManagerKeeps DEF HearVisited
<1>4. ASSUME NEW a \in answers, HearArrived(a) PROVE ExchangeInv'
  BY <1>1, <1>4, ManagerKeeps DEF HearArrived
<1>5. ASSUME NEW a \in answers, IgnoreAnswer(a) PROVE ExchangeInv'
  BY <1>1, <1>5, ManagerKeeps DEF IgnoreAnswer, walk
<1> QED
  BY <1>2, <1>3, <1>4, <1>5

\* A SET that is answered or given up belongs to the past.
LEMMA SettledInv ==
  ASSUME Inv, IInv', GiveUpWrite \/ \E a \in answers : HearWritten(a)
  PROVE  ExchangeInv'
<1> DEFINE n == settled + 1
<1>1. /\ settled \in Nat /\ Len(Writes) \in Nat /\ n \in 1..Len(Writes)
      /\ tries' = 0 /\ settled' = n /\ answers' \subseteq answers
      /\ UNCHANGED <<vars, asked, visited, arrived, applied, repeated>>
  BY ExchangeAssumption DEF ExchangeAssumption, GiveUpWrite, HearWritten, Writing,
     walk, history, Inv, ExchangeInv, ExchangeTypeOK
\* What was heard: the answer of the SET, or nothing.
<1>2. \/ UNCHANGED <<accepted, refused>> /\ n \in SentSets
      \/ \E a \in answers :
           /\ a.id = n /\ n \in SentSets
           /\ \/ /\ accepted' = accepted \cup {n} /\ UNCHANGED refused
                 /\ n \in applied /\ Stands(n)
              \/ /\ refused' = refused \cup {n} /\ UNCHANGED accepted
                 /\ n \in applied => n \in repeated
  <2>1. CASE GiveUpWrite
    BY <1>1, <2>1, ExchangeAssumption DEF GiveUpWrite, SentSets, ExchangeAssumption
  <2>2. ASSUME NEW a \in answers, HearWritten(a)
        PROVE  /\ a.id = n /\ n \in SentSets
               /\ \/ /\ accepted' = accepted \cup {n} /\ UNCHANGED refused
                     /\ n \in applied /\ Stands(n)
                  \/ /\ refused' = refused \cup {n} /\ UNCHANGED accepted
                     /\ n \in applied => n \in repeated
    <3>1. a.id = n /\ AnswerFits(a)
      BY <2>2 DEF HearWritten, Inv, ExchangeInv
    <3>2. \A o \in Places : a.id # WalkId(o)
      BY <1>1, <3>1, WalkFacts
    <3>3. /\ n \in SentSets
          /\ a.status = "NO_ERROR" => n \in applied /\ Stands(n)
          /\ a.status # "NO_ERROR" /\ n \in applied => n \in repeated
      BY <3>1, <3>2 DEF AnswerFits
    <3> QED
      BY <2>2, <3>1, <3>3 DEF HearWritten
  <2> QED
    BY <2>1, <2>2
<1>3. n \in SentSets /\ SentSets' = SentSets
  BY <1>1, <1>2 DEF SentSets
<1>4. \A j \in SentSets : Stands(j) => Stands(j)'
  <2> SUFFICES ASSUME NEW j \in SentSets, Stands(j) PROVE Stands(j)'
    OBVIOUS
  <2>1. j \in 1..n
    BY <1>1 DEF SentSets
  <2>2. \A k \in (accepted' \cup refused') \ (accepted \cup refused) : k > j \/ k = j
    BY <1>1, <1>2, <2>1
  <2> QED
    BY <1>1, <2>2, StandsKept DEF vars
<1>5. /\ Stored' <=> Stored
      /\ \A q : Genuine(q)' <=> Genuine(q)
      /\ \A j : (Serving(j)' <=> Serving(j)) /\ (AskedFor(j)' <=> AskedFor(j))
  BY <1>1, <1>3 DEF Stored, Genuine, Serving, AskedFor, vars
<1>6. \A j : Answered(j)' => Answered(j)
  BY <1>1, <1>2 DEF Answered
<1>7. ExchangeTypeOK'
  <2>1. accepted' \subseteq 1..n /\ refused' \subseteq 1..n
    <3>1. accepted \subseteq 1..settled /\ refused \subseteq 1..settled
      BY DEF Inv, ExchangeInv, ExchangeTypeOK
    <3>2. 1..settled \subseteq 1..n /\ n \in 1..n
      BY <1>1
    <3>3. accepted' \subseteq accepted \cup {n} /\ refused' \subseteq refused \cup {n}
      BY <1>2
    <3> HIDE DEF n
    <3> QED
      BY <3>1, <3>2, <3>3
  <2>2. tries' \in 0..MaxTries
    BY <1>1, ExchangeAssumption DEF ExchangeAssumption
  <2> QED
    BY <1>1, <2>1, <2>2 DEF Inv, ExchangeInv, ExchangeTypeOK, IInv
<1>8. RequestsFit'
  BY <1>1, <1>3, <1>5 DEF Inv, ExchangeInv, RequestsFit, vars
<1>9. OneOfEach'
  BY <1>1, <1>5, <1>6 DEF Inv, ExchangeInv, OneOfEach
<1>10. StoredInHand'
  <2>1. \A k \in 1..Len(Writes) : Serving(k) => k \in SentSets
    BY GenuineFacts, WalkFacts DEF Serving, Inv, ExchangeInv, RequestsFit
  <2> QED
    BY <1>1, <1>4, <1>5, <2>1 DEF Inv, ExchangeInv, StoredInHand
<1>11. \A a \in answers' : AnswerFits(a)'
  BY <1>1, <1>3, <1>4 DEF Inv, ExchangeInv, AnswerFits
<1>12. AnswerTellsWhatWasStored'
  BY <1>1, <1>2 DEF Inv, ExchangeInv, AnswerTellsWhatWasStored
<1>13. ConfirmedValueStands'
  <2>1. \A j \in accepted : j \in SentSets /\ Stands(j)
    BY DEF Inv, ExchangeInv, ConfirmedValueStands, AnswerTellsWhatWasStored, RequestsFit
  <2> QED
    BY <1>2, <1>3, <1>4, <2>1 DEF ConfirmedValueStands
<1> QED
  BY <1>7, <1>8, <1>9, <1>10, <1>11, <1>12, <1>13 DEF ExchangeInv

-----------------------------------------------------------------------------
(* The agent's steps.                                                      *)

\* Those that take nothing up, store nothing and send nothing.
LEMMA AgentKeeps ==
  ASSUME Inv, IInv', UNCHANGED <<answers, writing, walk, history, mib>>,
         asked' \subseteq asked, \A k : Serving(k)' => Serving(k),
         step' # "idle" => request' = request /\ response'.id = request.id,
         step' \notin {"idle", "dispatch"} => response'.pdu = "GET_RESPONSE",
         step' # "idle" /\ request.pdu = "SET" => (Stored' <=> Stored),
         step' # "idle" => step # "idle"
  PROVE  ExchangeInv'
<1>1. UNCHANGED SentSets /\ \A q : Genuine(q)' <=> Genuine(q)
  BY DEF SentSets, Genuine, writing
<1>2. /\ \A j : Stands(j) => Stands(j)'
      /\ \A j : Answered(j)' <=> Answered(j)
      /\ \A j : AskedFor(j)' => AskedFor(j)
  BY StandsKept DEF writing, history, Answered, AskedFor
<1>3. ExchangeTypeOK'
  BY DEF Inv, ExchangeInv, ExchangeTypeOK, IInv, writing, history, walk
<1>4. RequestsFit'
  BY <1>1 DEF Inv, ExchangeInv, RequestsFit, history
<1>5. \A k \in 1..Len(Writes) : Serving(k)' => (Stored' <=> Stored)
  <2> SUFFICES ASSUME NEW k \in 1..Len(Writes), Serving(k)' PROVE Stored' <=> Stored
    OBVIOUS
  <2>1. step' # "idle" /\ Serving(k)
    BY DEF Serving
  <2>2. request.pdu = "SET"
    BY <2>1, GenuineFacts DEF Serving, Inv, ExchangeInv, RequestsFit
  <2> QED
    BY <2>1, <2>2
<1>6. OneOfEach' /\ StoredInHand'
  BY <1>2, <1>5 DEF Inv, ExchangeInv, OneOfEach, StoredInHand, history
<1>7. \A a \in answers' : AnswerFits(a)'
  BY <1>1, <1>2 DEF Inv, ExchangeInv, AnswerFits, history
<1>8. AnswerTellsWhatWasStored' /\ ConfirmedValueStands'
  BY <1>2 DEF Inv, ExchangeInv, AnswerTellsWhatWasStored, ConfirmedValueStands,
     writing, history
<1> QED
  BY <1>3, <1>4, <1>6, <1>7, <1>8 DEF ExchangeInv

LEMMA AgentQuietInv ==
  ASSUME Inv, IInv',
         \/ AgentWorks \/ AgentSendFails \/ RateWindowElapses
         \/ \E q \in asked : AgentDrops(q)
  PROVE  ExchangeInv'
<1>1. CASE AgentWorks /\ Switch
  BY <1>1, SwitchEffect, AgentKeeps DEF AgentWorks, exchange, writing, walk, history,
     Serving, Inv, ExchangeInv, RequestsFit
<1>2. CASE AgentWorks /\ ~Switch
  BY <1>2, LoopEffect, AgentKeeps DEF AgentWorks, exchange, writing, walk, history,
     Serving, Inv, ExchangeInv, RequestsFit
<1>3. CASE AgentSendFails
  BY <1>3, AgentKeeps DEF AgentSendFails, SendFails, exchange, writing, walk, history,
     Serving
<1>4. CASE RateWindowElapses
  BY <1>4, AgentKeeps DEF RateWindowElapses, WindowElapses, exchange, writing, walk,
     history, Serving, Stored, Inv, ExchangeInv, RequestsFit
<1>5. ASSUME NEW q \in asked, AgentDrops(q) PROVE ExchangeInv'
  BY <1>5, AgentKeeps DEF AgentDrops, DropOverRate, DropDenied, Reception, vars,
     Serving, Stored, Inv, ExchangeInv, RequestsFit
<1> QED
  BY <1>1, <1>2, <1>3, <1>4, <1>5

LEMMA AgentAdmitsInv ==
  ASSUME Inv, IInv', NEW q \in asked, AgentAdmits(q) PROVE ExchangeInv'
<1>1. /\ step = "idle" /\ step' = "dispatch" /\ request' = q /\ mib' = mib
      /\ response' = EmptyResponse(q)
      /\ asked' = asked \ {q} /\ UNCHANGED <<answers, writing, walk, history>>
  BY DEF AgentAdmits, Admit, Reception
<1>2. response'.id = q.id /\ response'.binds = <<>> /\ ~Stored'
  BY <1>1 DEF EmptyResponse, Stored
<1>3. UNCHANGED SentSets /\ \A p : Genuine(p)' <=> Genuine(p)
  BY <1>1 DEF SentSets, Genuine, writing
<1>4. Genuine(q)
  BY DEF Inv, ExchangeInv, RequestsFit
<1>5. /\ \A j : Stands(j) => Stands(j)'
      /\ \A j : Answered(j)' <=> Answered(j)
      /\ \A j : AskedFor(j)' => AskedFor(j)
      /\ \A j : Serving(j)' <=> j = q.id
  BY <1>1, StandsKept DEF writing, history, Answered, AskedFor, Serving
<1>6. \A k \in 1..Len(Writes) : k = q.id => ~AskedFor(k)'
  <2> SUFFICES ASSUME q.id \in 1..Len(Writes), NEW p \in asked', p.id = q.id PROVE FALSE
    BY DEF AskedFor
  <2>1. Genuine(p) /\ p # q
    BY <1>1 DEF Inv, ExchangeInv, RequestsFit
  <2>2. q = WriteRequest(q.id) /\ p = WriteRequest(p.id)
    BY <1>4, <2>1, GenuineFacts DEF Inv
  <2> QED
    BY <2>1, <2>2
<1>7. AskedFor(q.id)
  BY DEF AskedFor
<1>8. ExchangeTypeOK'
  BY <1>1 DEF Inv, ExchangeInv, ExchangeTypeOK, IInv, writing, history, walk
<1>9. RequestsFit'
  BY <1>1, <1>2, <1>3, <1>4 DEF Inv, ExchangeInv, RequestsFit, history
<1>10. OneOfEach'
  <2> SUFFICES ASSUME NEW k \in 1..Len(Writes), k \notin repeated'
               PROVE  /\ AskedFor(k)' => ~Serving(k)' /\ ~Answered(k)' /\ k \notin applied'
                      /\ Serving(k)' => ~Answered(k)' /\ (k \in applied' => Stored')
    BY DEF OneOfEach
  <2>1. AskedFor(k) => ~Answered(k) /\ k \notin applied
    BY <1>1 DEF Inv, ExchangeInv, OneOfEach, history
  <2>2. applied' = applied
    BY <1>1 DEF history
  <2> QED
    BY <1>5, <1>6, <1>7, <2>1, <2>2
<1>11. StoredInHand'
  BY <1>2 DEF StoredInHand
<1>12. \A a \in answers' : AnswerFits(a)'
  BY <1>1, <1>3, <1>5 DEF Inv, ExchangeInv, AnswerFits, history
<1>13. AnswerTellsWhatWasStored' /\ ConfirmedValueStands'
  BY <1>1, <1>5 DEF Inv, ExchangeInv, AnswerTellsWhatWasStored, ConfirmedValueStands,
     writing, history
<1> QED
  BY <1>8, <1>9, <1>10, <1>11, <1>12, <1>13 DEF ExchangeInv

\* The SET in hand is stored: it was answered before only if it was sent twice.
LEMMA AgentStoresInv == ASSUME Inv, IInv', AgentStores PROVE ExchangeInv'
<1> DEFINE n == request.id
<1>1. /\ step = "set" /\ step' = step /\ request' = request
      /\ n \in SentSets /\ n \in 1..Len(Writes)
      /\ response'.id = response.id /\ response'.pdu = response.pdu
      /\ ~Stored /\ Stored'
      /\ mib' = [mib EXCEPT ![Writes[n].oid] = Writes[n].value]
      /\ Writes[n].oid \in Oids
  BY StoreEffect DEF AgentStores
<1>2. /\ applied' = applied \cup {n}
      /\ UNCHANGED <<asked, answers, writing, walk, repeated>>
  BY DEF AgentStores
<1>3. UNCHANGED SentSets /\ \A p : Genuine(p)' <=> Genuine(p)
  BY <1>2 DEF SentSets, Genuine, writing
<1>4. \A j : /\ Answered(j)' <=> Answered(j)
             /\ AskedFor(j)' <=> AskedFor(j)
             /\ Serving(j)' <=> Serving(j)
             /\ Serving(j) <=> j = n
  BY <1>1, <1>2 DEF writing, Answered, AskedFor, Serving
<1>5. n \in repeated \/ (~Answered(n) /\ ~AskedFor(n))
  BY <1>1, <1>4 DEF Inv, ExchangeInv, OneOfEach
<1>6. mib \in [Oids -> Values \cup {NULL, Absent}]
  BY DEF Inv, IInv, TypeOK
<1>7. ASSUME NEW j, j = n PROVE Stands(j)'
  <2>1. mib'[Writes[j].oid] = Writes[j].value
    BY <1>1, <1>6, <1>7
  <2> QED
    BY <2>1 DEF Stands
<1>8. ASSUME NEW j \in 1..Len(Writes), Stands(j) PROVE Stands(j)'
  <2>1. CASE j = n
    BY <1>7, <2>1
  <2>2. CASE j # n /\ Writes[j].oid # Writes[n].oid
    <3>1. mib'[Writes[j].oid] = mib[Writes[j].oid]
      BY <1>1, <1>6, <2>2
    <3> QED
      BY <1>2, <1>8, <3>1 DEF Stands, writing
  <2>3. CASE j # n /\ Writes[j].oid = Writes[n].oid
    <3>1. n > j \/ n < j
      BY <1>1, <2>3
    <3>2. n > j \/ n \in repeated \/ n \notin accepted \cup refused
      BY <1>5 DEF Answered
    <3>3. n > j \/ n \in repeated' \/ n \notin (accepted \cup refused)'
      BY <1>2, <3>2 DEF writing
    <3>4. n \in applied' \ {j}
      BY <1>2, <2>3
    <3>5. \E k \in applied' \ {j} :
             /\ Writes[k].oid = Writes[j].oid
             /\ k > j \/ k \in repeated' \/ k \notin (accepted \cup refused)'
      BY <2>3, <3>3, <3>4
    <3> QED
      BY <3>5 DEF Stands
  <2> QED
    BY <2>1, <2>2, <2>3
<1>9. ExchangeTypeOK'
  BY <1>1, <1>2 DEF Inv, ExchangeInv, ExchangeTypeOK, IInv, writing, walk
<1>10. RequestsFit'
  BY <1>1, <1>2, <1>3 DEF Inv, ExchangeInv, RequestsFit
<1>11. OneOfEach'
  BY <1>1, <1>2, <1>4, <1>5 DEF Inv, ExchangeInv, OneOfEach
<1>12. StoredInHand'
  <2>1. ASSUME NEW k \in 1..Len(Writes), Serving(k)'
        PROVE  k \in applied' /\ Stands(k)'
    BY <1>2, <1>4, <1>7, <2>1
  <2> QED
    BY <2>1 DEF StoredInHand
<1>13. ASSUME NEW a \in answers' PROVE AnswerFits(a)'
  <2>1. a \in answers /\ AnswerFits(a)
    BY <1>2 DEF Inv, ExchangeInv
  <2>2. a.id = n => n \in repeated
    BY <1>5, <2>1 DEF Answered
  <2>3. a.id \in SentSets => a.id \in 1..Len(Writes)
    BY DEF SentSets
  <2> QED
    BY <1>2, <1>3, <1>8, <2>1, <2>2, <2>3 DEF AnswerFits
<1>14. AnswerTellsWhatWasStored'
  <2>1. n \in refused => n \in repeated
    BY <1>5 DEF Answered
  <2> QED
    BY <1>2, <2>1 DEF Inv, ExchangeInv, AnswerTellsWhatWasStored, writing
<1>15. ConfirmedValueStands'
  <2>1. accepted \subseteq 1..Len(Writes)
    BY DEF Inv, ExchangeInv, AnswerTellsWhatWasStored, RequestsFit, SentSets
  <2> QED
    BY <1>2, <1>8, <2>1 DEF Inv, ExchangeInv, ConfirmedValueStands, writing
<1> QED
  BY <1>9, <1>10, <1>11, <1>12, <1>13, <1>14, <1>15 DEF ExchangeInv

\* The response leaves, or is lost.
LEMMA AgentAnswersInv == ASSUME Inv, IInv', AgentAnswers PROVE ExchangeInv'
<1>1. /\ step = "send" /\ step' = "idle"
      /\ UNCHANGED <<asked, writing, walk, history, mib>>
      /\ answers' \subseteq answers \cup {response}
  BY DEF AgentAnswers, SendResponse, Under
<1>2. /\ Genuine(request) /\ response.id = request.id
      /\ response.pdu = "GET_RESPONSE" /\ response \in Responses
  BY <1>1 DEF Inv, IInv, TypeOK, ExchangeInv, RequestsFit
<1>3. Asked = 1
  BY <1>2, GenuineFacts DEF Inv, Asked
<1>4. UNCHANGED SentSets /\ \A p : Genuine(p)' <=> Genuine(p)
  BY <1>1 DEF SentSets, Genuine, writing
<1>5. \A j : Stands(j) => Stands(j)'
  BY <1>1, StandsKept DEF writing, history
<1>6. AnswerFits(response)
  <2>1. CASE request.id \in SentSets /\ request.id \in 1..Len(Writes) /\ request.pdu = "SET"
    <3>1. Serving(request.id)
      BY <1>1 DEF Serving
    <3>2. response.status = "NO_ERROR" => Stored
      BY <1>1, <1>2, <1>3 DEF Inv, IInv, StepFits, Stored
    <3>3. Stored => request.id \in applied /\ Stands(request.id)
      BY <2>1, <3>1 DEF Inv, ExchangeInv, StoredInHand
    <3>4. request.id \in applied /\ request.id \notin repeated => Stored
      BY <2>1, <3>1 DEF Inv, ExchangeInv, OneOfEach
    <3>5. Stored => response.status = "NO_ERROR"
      BY DEF Stored
    <3> QED
      BY <1>2, <2>1, <3>2, <3>3, <3>4, <3>5 DEF AnswerFits
  <2>2. ASSUME NEW o \in Places, request.id = WalkId(o), request.pdu = "GET_NEXT",
               request.binds[1].oid = o
        PROVE  AnswerFits(response)
    <3>1. Len(response.binds) = 1
      BY <1>1, <1>2, <1>3, <2>2 DEF Inv, IInv, StepFits
    <3>2. IF Later(o) = {} THEN response.binds[1].oid = o
                           ELSE IsNext(o, response.binds[1].oid)
      BY <2>2, <3>1 DEF Inv, IInv, NextIsNext
    <3>3. Leads(o, response.binds[1].oid)
      BY <3>2 DEF Leads
    <3> QED
      BY <1>2, <2>2, <3>3 DEF AnswerFits
  <2> QED
    BY <1>2, <2>1, <2>2, GenuineFacts DEF Inv
<1>7. ExchangeTypeOK'
  BY <1>1, <1>2 DEF Inv, ExchangeInv, ExchangeTypeOK, IInv, writing, history, walk
<1>8. RequestsFit'
  BY <1>1, <1>4 DEF Inv, ExchangeInv, RequestsFit, history
<1>9. OneOfEach'
  <2>1. \A j : /\ Answered(j)' => Answered(j) \/ Serving(j)
               /\ AskedFor(j)' <=> AskedFor(j)
               /\ ~Serving(j)'
    BY <1>1, <1>2 DEF Answered, AskedFor, Serving, writing
  <2> QED
    BY <1>1, <2>1 DEF Inv, ExchangeInv, OneOfEach, history
<1>10. StoredInHand'
  BY <1>1 DEF StoredInHand, Serving
<1>11. \A a \in answers' : AnswerFits(a)'
  <2>1. \A a : AnswerFits(a) => AnswerFits(a)'
    BY <1>1, <1>4, <1>5 DEF AnswerFits, history
  <2> QED
    BY <1>1, <1>6, <2>1 DEF Inv, ExchangeInv
<1>12. AnswerTellsWhatWasStored' /\ ConfirmedValueStands'
  BY <1>1, <1>5 DEF Inv, ExchangeInv, AnswerTellsWhatWasStored, ConfirmedValueStands,
     writing, history
<1> QED
  BY <1>7, <1>8, <1>9, <1>10, <1>11, <1>12 DEF ExchangeInv

LEMMA ExchangeInitInv == ExchangeInit => Inv
<1> SUFFICES ASSUME ExchangeInit PROVE Inv
  OBVIOUS
<1>1. IInv /\ step = "idle" /\ asked = {} /\ answers = {}
  BY InvInit DEF ExchangeInit, Init
<1>2. ExchangeTypeOK
  <2>1. 0 \in 0..Len(Writes) /\ 0 \in 0..MaxTries
    BY ExchangeAssumption DEF ExchangeAssumption
  <2>2. visited \in Seq(Oids)
    BY DEF ExchangeInit
  <2> QED
    BY <1>1, <2>1, <2>2 DEF ExchangeInit, ExchangeTypeOK, IInv
<1>3. RequestsFit /\ OneOfEach /\ StoredInHand
  BY <1>1 DEF ExchangeInit, RequestsFit, OneOfEach, StoredInHand, AskedFor, Serving
<1>4. AnswerTellsWhatWasStored /\ ConfirmedValueStands
  BY DEF ExchangeInit, AnswerTellsWhatWasStored, ConfirmedValueStands
<1> QED
  BY <1>1, <1>2, <1>3, <1>4 DEF Inv, ExchangeInv

LEMMA ExchangeStep == Inv /\ [ExchangeNext]_all => Inv'
<1> SUFFICES ASSUME Inv, [ExchangeNext]_all PROVE Inv'
  OBVIOUS
<1>1. [Next]_vars
  BY StepOfAgent DEF Inv
<1>2. IInv'
  BY <1>1, InvStep DEF Inv
<1>3. CASE UNCHANGED all
  <2>1. visited' \in Seq(Oids) /\ arrived' \in BOOLEAN
    BY <1>3 DEF all, exchange, Inv, ExchangeInv, ExchangeTypeOK
  <2>2. UNCHANGED <<vars, writing, history>> /\ asked' \subseteq asked /\ answers' \subseteq answers
    BY <1>3 DEF all, exchange, writing, history
  <2> QED
    BY <1>2, <2>1, <2>2, ManagerKeeps DEF Inv
<1>4. CASE ExchangeNext
  <2>1. ExchangeInv'
    BY <1>2, <1>4, SendWriteInv, WalkInv, SettledInv, AgentQuietInv, AgentAdmitsInv,
       AgentStoresInv, AgentAnswersInv DEF ExchangeNext, Hear, Agent
  <2> QED
    BY <1>2, <2>1 DEF Inv
<1> QED
  BY <1>3, <1>4

\* The invariant of the exchange: requests are genuine, a SET that was sent once
\* is in one place only, and answers under way are true.
THEOREM ExchangeInvariant == ExchangeSpec => []ExchangeInv
<1>1. Inv => ExchangeInv
  BY DEF Inv
<1> HIDE DEF Inv, ExchangeInv, ExchangeInit, ExchangeNext, all
<1> QED
  BY <1>1, ExchangeInitInv, ExchangeStep, PTL DEF ExchangeSpec

\* The types, of the agent's state and the exchange's.
THEOREM ExchangeTyped == ExchangeSpec => []ExchangeTypeOK
<1>1. ExchangeInv => ExchangeTypeOK
  BY DEF ExchangeInv
<1> QED
  BY <1>1, ExchangeInvariant, PTL

\* A SET answered NO_ERROR was stored, one that was sent once and refused was
\* not, whatever the network did to its datagrams.
THEOREM AnswersTellTheTruth == ExchangeSpec => []AnswerTellsWhatWasStored
<1>1. ExchangeInv => AnswerTellsWhatWasStored
  BY DEF ExchangeInv
<1> QED
  BY <1>1, ExchangeInvariant, PTL

\* A confirmed value stands until a SET that may replace it is stored.
THEOREM ConfirmedStands == ExchangeSpec => []ConfirmedValueStands
<1>1. ExchangeInv => ConfirmedValueStands
  BY DEF ExchangeInv
<1> QED
  BY <1>1, ExchangeInvariant, PTL

\* The agent of the exchange is the agent of SnmpAgent: what is proved of the
\* one holds of the other.
THEOREM AgentRuns == ExchangeSpec => Spec
<1>1. ExchangeInit => Init
  BY DEF ExchangeInit
<1> HIDE DEF ExchangeInv, ExchangeInit, ExchangeNext, all, Init, Next, vars
<1> QED
  BY <1>1, ExchangeInvariant, StepOfAgent, PTL DEF ExchangeSpec, Spec

-----------------------------------------------------------------------------
(* The walk implements its contract.                                       *)

LEMMA StepOfWalk == Inv /\ [ExchangeNext]_all => [Contract!Next]_Contract!vars
<1> SUFFICES ASSUME Inv, [ExchangeNext]_all PROVE [Contract!Next]_Contract!vars
  OBVIOUS
<1> USE DEF Contract!vars
<1>1. Contract!Place = Place /\ Contract!Ahead = Later(Place)
  BY DEF Contract!Place, Place, Contract!Ahead, Later
<1>2. CASE SendWrite \/ SendQuery \/ GiveUpWrite
  BY <1>2 DEF SendWrite, SendQuery, GiveUpWrite, walk
<1>3. ASSUME NEW a \in answers, HearWritten(a) \/ IgnoreAnswer(a)
      PROVE  UNCHANGED Contract!vars
  BY <1>3 DEF HearWritten, IgnoreAnswer, walk
<1>4. ASSUME NEW a \in answers, HearVisited(a) PROVE Contract!Visit
  <2> DEFINE o == a.binds[1].oid
  <2>1. Leads(Place, o) /\ o > Place /\ ~arrived
    BY <1>4, QueryAnswered DEF HearVisited, IsAnswer, Walking
  <2>2. Place \in Nat
    BY PlaceFacts, WalkFacts DEF Inv
  <2>3. IsNext(Place, o)
    BY <2>1, <2>2 DEF Leads
  <2>4. visited' = Append(visited, o) /\ UNCHANGED arrived
    BY <1>4 DEF HearVisited
  <2>5. o \in Later(Place) /\ \A p \in Later(Place) : o <= p
    BY <2>3 DEF IsNext
  <2> HIDE DEF o
  <2> QED
    BY <1>1, <2>1, <2>4, <2>5 DEF Contract!Visit
<1>5. ASSUME NEW a \in answers, HearArrived(a) PROVE Contract!Arrive
  <2> DEFINE o == a.binds[1].oid
  <2>1. Leads(Place, o) /\ ~(o > Place) /\ ~arrived
    BY <1>5, QueryAnswered DEF HearArrived, IsAnswer, Walking
  <2>2. IsNext(Place, o) => o > Place
    BY DEF IsNext, Later
  <2>3. Later(Place) = {}
    BY <2>1, <2>2 DEF Leads
  <2> QED
    BY <1>1, <1>5, <2>1, <2>3 DEF Contract!Arrive, HearArrived
<1>6. ASSUME NEW q \in asked, AgentDrops(q) \/ AgentAdmits(q) PROVE UNCHANGED Contract!vars
  BY <1>6 DEF AgentDrops, AgentAdmits, Reception, walk
<1>7. CASE Agent \/ RateWindowElapses
  BY <1>7 DEF Agent, AgentWorks, AgentStores, AgentAnswers, AgentSendFails,
     RateWindowElapses, exchange, walk
<1>8. CASE UNCHANGED all
  BY <1>8 DEF all, exchange
<1> QED
  BY <1>2, <1>3, <1>4, <1>5, <1>6, <1>7, <1>8 DEF ExchangeNext, Hear, Contract!Next

\* Every step of the walk is one of the contract, the safety half of
\* WalksTheMib: it comes to every object, to no other, and in order, whatever the
\* network loses or turns round.
THEOREM WalkImplements == ExchangeSpec => Contract!Spec
<1>1. ExchangeInit => Contract!Init
  BY DEF ExchangeInit, Contract!Init
<1> HIDE DEF Inv, ExchangeInv, ExchangeInit, ExchangeNext, all, Contract!Init,
         Contract!Next, Contract!vars
<1> QED
  BY <1>1, ExchangeInitInv, ExchangeStep, StepOfWalk, PTL DEF ExchangeSpec, Contract!Spec
===============================================================================
