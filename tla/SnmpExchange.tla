---------------------------- MODULE SnmpExchange ----------------------------
(***************************************************************************)
(* The agent and a manager over UDP.  The manager writes objects, one SET  *)
(* after another, then walks the MIB with GET-NEXT, as the documentation   *)
(* does with snmpset and snmpwalk.  It sends a request again until the     *)
(* answer comes, gives up a SET after some tries, and knows an answer by   *)
(* its request id.  A datagram may be lost, or overtaken by later ones; a  *)
(* request reaches the agent several times, and the agent remembers        *)
(* nothing of those it has served.                                         *)
(*                                                                         *)
(* Manager and network are external: SnmpAgent is the repository's part,   *)
(* and every step of it here is one of its own.                            *)
(***************************************************************************)
EXTENDS SnmpAgent, FiniteSets

CONSTANTS
  Manager, Community,  \* its address and its community
  Writes,              \* the bindings that it sets, in order
  Start,               \* where its walk begins
  MaxAsked,            \* bound: requests under way
  MaxAnswers,          \* bound: responses under way
  MaxTries             \* bound: times it sends one SET

Ask(p, n, b) == [version |-> "v2c", community |-> Community, pdu |-> p, id |-> n,
                 binds |-> <<b>>]

\* Each request has an id of its own, also in the walk, which comes to a place
\* only once.
WriteRequest(k) == Ask("SET", k, Writes[k])
WalkId(o)       == Len(Writes) + 1 + o
WalkRequest(o)  == Ask("GET_NEXT", WalkId(o), [oid |-> o, value |-> NULL])

ASSUME ExchangeAssumption ==
  /\ Manager \in Sources /\ Start \in Nat
  /\ Writes \in Seq(Bindings)
  /\ MaxAsked \in Nat /\ MaxAnswers \in Nat /\ MaxTries \in Nat \ {0}
  /\ \A k \in 1..Len(Writes) : WriteRequest(k) \in Requests
  /\ \A o \in Oids \cup {Start} : WalkRequest(o) \in Requests

VARIABLES
  asked,     \* requests under way to the agent
  answers,   \* responses under way to the manager
  settled,   \* SETs the manager is through with: answered or given up
  tries,     \* times it sent the SET after those
  accepted,  \* SETs that were answered NO_ERROR
  refused,   \* SETs that were answered with an error
  visited,   \* the objects it was led to
  arrived,   \* it was told that there are no more
  applied,   \* history: SETs whose value the agent stored
  repeated   \* history: SETs that were sent more than once

writing  == <<settled, tries, accepted, refused>>
walk     == <<visited, arrived>>
history  == <<applied, repeated>>
exchange == <<asked, answers, settled, tries, accepted, refused, visited, arrived,
              applied, repeated>>
all      == <<vars, exchange>>

ExchangeInit ==
  /\ Init
  /\ asked = {} /\ answers = {}
  /\ settled = 0 /\ tries = 0 /\ accepted = {} /\ refused = {}
  /\ visited = <<>> /\ arrived = FALSE
  /\ applied = {} /\ repeated = {}

-----------------------------------------------------------------------------
(* The manager and the network.                                            *)

\* What is under way after d was sent: d or others may be lost.
Under(net, d, n) == {T \in SUBSET (net \cup {d}) : Cardinality(T) <= n}

Writing == settled < Len(Writes)
Walking == ~Writing /\ ~arrived

Place == IF visited = <<>> THEN Start ELSE visited[Len(visited)]
Query == WalkRequest(Place)

SendWrite ==
  /\ Writing /\ tries < MaxTries
  /\ asked' \in Under(asked, WriteRequest(settled + 1), MaxAsked)
  /\ tries' = tries + 1
  /\ repeated' = IF tries = 0 THEN repeated ELSE repeated \cup {settled + 1}
  /\ UNCHANGED <<vars, answers, settled, accepted, refused, walk, applied>>

SendQuery ==
  /\ Walking
  /\ asked' \in Under(asked, Query, MaxAsked)
  /\ UNCHANGED <<vars, answers, writing, walk, history>>

HearWritten(a) ==
  /\ Writing /\ a.id = settled + 1
  /\ answers' = answers \ {a}
  /\ settled' = settled + 1 /\ tries' = 0
  /\ \/ /\ a.status = "NO_ERROR"
        /\ accepted' = accepted \cup {settled + 1} /\ UNCHANGED refused
     \/ /\ a.status # "NO_ERROR"
        /\ refused' = refused \cup {settled + 1} /\ UNCHANGED accepted
  /\ UNCHANGED <<vars, asked, walk, history>>

\* The answer may be on its way, the request may yet reach the agent.
GiveUpWrite ==
  /\ Writing /\ tries = MaxTries
  /\ settled' = settled + 1 /\ tries' = 0
  /\ UNCHANGED <<vars, asked, answers, accepted, refused, walk, history>>

IsAnswer(a) == Walking /\ a.id = WalkId(Place)

HearVisited(a) ==
  /\ IsAnswer(a) /\ a.binds[1].oid > Place
  /\ answers' = answers \ {a}
  /\ visited' = Append(visited, a.binds[1].oid)
  /\ UNCHANGED <<vars, asked, writing, arrived, history>>

\* The walk ends at an object that is not behind the last.
HearArrived(a) ==
  /\ IsAnswer(a) /\ ~(a.binds[1].oid > Place)
  /\ answers' = answers \ {a}
  /\ arrived' = TRUE
  /\ UNCHANGED <<vars, asked, writing, visited, history>>

\* An answer that comes late says nothing any more.
IgnoreAnswer(a) ==
  /\ ~IsAnswer(a) /\ ~(Writing /\ a.id = settled + 1)
  /\ answers' = answers \ {a}
  /\ UNCHANGED <<vars, asked, writing, walk, history>>

-----------------------------------------------------------------------------
(* The agent.                                                              *)

Reception(q) == asked' = asked \ {q} /\ UNCHANGED <<answers, writing, walk, history>>

AgentDrops(q) ==
  (DropOverRate(Manager, q) \/ DropDenied(Manager, q)) /\ Reception(q)

AgentAdmits(q) == Admit(Manager, q) /\ Reception(q)

AgentWorks ==
  /\ Switch \/ (Loop /\ ~SetValue)
  /\ UNCHANGED exchange

AgentStores ==
  /\ SetValue
  /\ applied' = applied \cup {request.id}
  /\ UNCHANGED <<asked, answers, writing, walk, repeated>>

AgentAnswers ==
  /\ SendResponse
  /\ answers' \in Under(answers, response, MaxAnswers)
  /\ UNCHANGED <<asked, writing, walk, history>>

AgentSendFails == SendFails /\ UNCHANGED exchange

RateWindowElapses == WindowElapses(Manager) /\ UNCHANGED exchange

-----------------------------------------------------------------------------
Hear(a) == HearWritten(a) \/ HearVisited(a) \/ HearArrived(a)

Agent == AgentWorks \/ AgentStores \/ AgentAnswers \/ AgentSendFails

ExchangeNext ==
  \/ SendWrite \/ SendQuery \/ GiveUpWrite
  \/ \E a \in answers : Hear(a) \/ IgnoreAnswer(a)
  \/ \E q \in asked : AgentDrops(q) \/ AgentAdmits(q)
  \/ Agent \/ RateWindowElapses

ExchangeSpec == ExchangeInit /\ [][ExchangeNext]_all

\* The agent's thread runs, a window ends, the manager tries again or gives up.
\* What is sent time and again gets through one time.
ExchangeFairness ==
  /\ WF_all(Agent)
  /\ WF_all(RateWindowElapses)
  /\ WF_all(SendWrite) /\ WF_all(GiveUpWrite)
  /\ WF_all(SendQuery /\ Query \in asked')
  /\ SF_all(Query \in asked /\ AgentAdmits(Query))
  /\ SF_all(AgentAnswers /\ response \in answers')
  /\ SF_all(\E a \in answers : Hear(a))

FairExchangeSpec == ExchangeSpec /\ ExchangeFairness
-----------------------------------------------------------------------------
(* Properties.                                                             *)

ExchangeTypeOK ==
  /\ TypeOK
  /\ asked \subseteq Requests /\ answers \subseteq Responses
  /\ settled \in 0..Len(Writes) /\ tries \in 0..MaxTries
  /\ accepted \subseteq 1..settled /\ refused \subseteq 1..settled
  /\ visited \in Seq(Oids) /\ arrived \in BOOLEAN
  /\ applied \subseteq 1..Len(Writes) /\ repeated \subseteq 1..Len(Writes)

Contract == INSTANCE WalkContract WITH Objects <- Oids, done <- arrived

\* Whatever the network loses or turns round, and whatever is still written by
\* SETs that come late, the walk visits every object once and in order, and
\* ends.
WalksTheMib == Contract!FairSpec

\* A SET that was answered NO_ERROR has been stored, and one that was refused
\* has not, unless it was sent twice: then the answer is to one of the two, and
\* the other may have fared otherwise.
AnswerTellsWhatWasStored == accepted \subseteq applied /\ refused \cap applied \subseteq repeated

Stands(j) ==
  \/ mib[Writes[j].oid] = Writes[j].value
  \/ \E k \in applied \ {j} : /\ Writes[k].oid = Writes[j].oid
                              /\ k > j \/ k \in repeated \/ k \notin accepted \cup refused

\* The agent knows no request again.  A confirmed value stands until a later
\* SET replaces it, or an earlier one that was sent twice or given up.
ConfirmedValueStands == \A j \in accepted : Stands(j)

-----------------------------------------------------------------------------
(* The inductive invariant behind the properties.                          *)

AskedFor(i) == \E q \in asked : q.id = i
Serving(i)  == step # "idle" /\ request.id = i
Answered(i) == (\E a \in answers : a.id = i) \/ i \in accepted \cup refused
Stored      == response.status = "NO_ERROR" /\ Len(response.binds) = 1

Places   == Oids \cup {Start}
SentSets == {k \in 1..Len(Writes) : k <= settled \/ (k = settled + 1 /\ tries > 0)}

\* A request the manager may have sent.
Genuine(q) == \/ \E k \in SentSets : q = WriteRequest(k)
              \/ \E o \in Places : q = WalkRequest(o)

\* Nothing is forged, and the response belongs to the request in hand.
RequestsFit ==
  /\ \A q \in asked : Genuine(q)
  /\ step # "idle" => Genuine(request) /\ response.id = request.id
  /\ step \notin {"idle", "dispatch"} => response.pdu = "GET_RESPONSE"
  /\ applied \subseteq SentSets /\ repeated \subseteq SentSets

\* A SET that was sent once is in one place only.
OneOfEach ==
  \A k \in 1..Len(Writes) \ repeated :
    /\ AskedFor(k) => ~Serving(k) /\ ~Answered(k) /\ k \notin applied
    /\ Serving(k) => ~Answered(k) /\ (k \in applied => Stored)

\* A SET in hand that has gone well has been stored.
StoredInHand ==
  \A k \in 1..Len(Writes) : Serving(k) /\ Stored => k \in applied /\ Stands(k)

\* What an answer under way tells.
Leads(o, p) == IF Later(o) = {} THEN p = o ELSE IsNext(o, p)

AnswerFits(a) ==
  \/ /\ a.id \in SentSets
     /\ a.status = "NO_ERROR" => a.id \in applied /\ Stands(a.id)
     /\ a.status # "NO_ERROR" /\ a.id \in applied => a.id \in repeated
  \/ \E o \in Places : a.id = WalkId(o) /\ Leads(o, a.binds[1].oid)

ExchangeInv ==
  /\ ExchangeTypeOK /\ RequestsFit /\ OneOfEach /\ StoredInHand
  /\ \A a \in answers : AnswerFits(a)
  /\ AnswerTellsWhatWasStored /\ ConfirmedValueStands
=============================================================================
