---------------------------- MODULE SnmpConnection ----------------------------
(***************************************************************************)
(* One SNMPConnection from its constructor to its destructor: a socket     *)
(* descriptor, a flag and a time stamp, over a stream whose other end      *)
(* sends, stops and breaks off as it likes.  The process has other         *)
(* descriptors, and a number that was closed is given out again.           *)
(*                                                                         *)
(* A stream knows no messages: each is two fragments here, and recv()      *)
(* returns any number of fragments from the front.  parse() takes a whole  *)
(* message and neither less nor more of it, which SnmpPacketWire shows of  *)
(* messages short enough for their length octet, the only ones a peer      *)
(* sends here.  But what does not begin with such a message may be a       *)
(* packet by its own octets, like a tail that was the value of an OCTET    *)
(* STRING: parse() takes it for a request that nobody sent, a stray.       *)
(***************************************************************************)
EXTENDS Integers, Sequences

CONSTANTS
  Fds,           \* the descriptor numbers of the process
  MaxMessages,   \* bound: messages that the peer sends
  Garbage,       \* those among them that parse() refuses
  Strays,        \* other fragments in a row that parse() accepts
  MaxResponses,  \* bound: responses that the owner sends
  Timeouts,      \* arguments of set_timeout()
  MaxIdle,       \* argument of is_timeout()
  MaxTime,       \* bound: the last time
  PartialSends   \* TRUE: send() may take a part of the buffer

NoFd == -1

Fragments == (1..MaxMessages) \X {"head", "tail"}

\* The fragments of message m.
Message(m) == << <<m, "head">>, <<m, "tail">> >>

ASSUME ConnectionAssumption ==
  /\ Fds \subseteq Nat
  /\ MaxMessages \in Nat /\ MaxResponses \in Nat /\ MaxTime \in Nat
  /\ Timeouts \subseteq Nat /\ MaxIdle \in Nat \ {0}
  /\ PartialSends \in BOOLEAN
  /\ Strays \subseteq Seq(Fragments)
  /\ \A s \in Strays : s # <<>> /\ (s[1][2] = "head" => s[1][1] \in Garbage)
  /\ \A m \in Garbage : Message(m) \notin Strays

VARIABLES
  socket_fd_, connected_, last_activity_,   \* the members
  life,        \* the object: "up" or "destroyed"
  call,        \* the method its owner is in: "none" or "recv"
  table,       \* each descriptor: "free", "ours" or "other"
  rcvtimeo, sndtimeo, nonblocking,          \* options of the socket
  timeout_set, \* what set_timeout() last returned
  peer,        \* the other end: "open", "shut" (sends no more), "reset" (broke
               \* off, not yet reported here) or "broken" (reported)
  sent,        \* messages the peer has sent
  inbox,       \* fragments sent and not yet received
  handled,     \* requests receive_request() returned: what each was parsed from
  torn,        \* history: parse() has refused something
  responses,   \* responses given to send()
  outbox,      \* fragments of them the stream took
  now          \* steady_clock::now()

members == <<socket_fd_, connected_, last_activity_>>
options == <<rcvtimeo, sndtimeo, nonblocking, timeout_set>>
remote  == <<peer, sent, inbox>>
taken   == <<handled, torn>>
result  == <<handled, torn, responses, outbox>>
vars    == <<socket_fd_, connected_, last_activity_, life, call, table, rcvtimeo,
             sndtimeo, nonblocking, timeout_set, peer, sent, inbox, handled, torn,
             responses, outbox, now>>

\* The owner has a socket from accept(), or none: the server's are made with -1.
Init ==
  /\ socket_fd_ \in Fds \cup {NoFd}
  /\ table = [f \in Fds |-> IF f = socket_fd_ THEN "ours" ELSE "free"]
  /\ connected_ = TRUE /\ last_activity_ = 0 /\ now = 0
  /\ life = "up" /\ call = "none"
  /\ rcvtimeo = 0 /\ sndtimeo = 0 /\ nonblocking = FALSE /\ timeout_set = TRUE
  /\ peer = "open" /\ sent = 0 /\ inbox = <<>>
  /\ handled = <<>> /\ torn = FALSE /\ responses = 0 /\ outbox = <<>>

Ready == life = "up" /\ call = "none"
HasSocket == socket_fd_ # NoFd

-----------------------------------------------------------------------------
(* receive_request().                                                      *)

\* recv() on descriptor -1 fails at once, which changes nothing.
ReceiveBegins ==
  /\ Ready /\ connected_ /\ HasSocket
  /\ call' = "recv"
  /\ UNCHANGED <<members, life, table, options, remote, result, now>>

\* Mutant: what parse() returns is not looked at.
AcceptedUnparsed(fragments) == TRUE

\* parse() returns true.
Accepted(fragments) ==
  \/ \E m \in (1..MaxMessages) \ Garbage : fragments = Message(m)
  \/ fragments \in Strays

\* recv() returns the first k fragments.
Take(k) ==
  /\ life = "up" /\ call = "recv" /\ call' = "none"
  /\ k <= Len(inbox)
  /\ inbox' = SubSeq(inbox, k + 1, Len(inbox))
  /\ UNCHANGED <<socket_fd_, connected_, life, table, options, peer, sent,
                 responses, outbox, now>>

ReceiveMessage(k) ==
  /\ Take(k) /\ Accepted(SubSeq(inbox, 1, k))
  /\ handled' = Append(handled, SubSeq(inbox, 1, k)) /\ last_activity_' = now
  /\ UNCHANGED torn

\* Mutant: any octets count as activity.
ReceiveNonsenseRefreshes(k) ==
  /\ Take(k) /\ ~Accepted(SubSeq(inbox, 1, k))
  /\ last_activity_' = now /\ torn' = TRUE /\ UNCHANGED handled

\* parse() fails: what was received is gone.
ReceiveNonsense(k) ==
  /\ Take(k) /\ ~Accepted(SubSeq(inbox, 1, k))
  /\ torn' = TRUE /\ UNCHANGED <<handled, last_activity_>>

ReceiveEnd ==
  /\ life = "up" /\ call = "recv" /\ inbox = <<>>
  /\ peer \in {"shut", "broken"}
  /\ connected_' = FALSE /\ call' = "none"
  /\ UNCHANGED <<socket_fd_, last_activity_, life, table, options, remote,
                 result, now>>

\* Mutant: a timeout is waited out again.
ReceiveWaitsOn ==
  /\ life = "up" /\ call = "recv" /\ inbox = <<>> /\ peer = "open"
  /\ nonblocking \/ rcvtimeo # 0
  /\ UNCHANGED vars

\* Nothing came in time, or nothing was there: the flag stays up.
ReceiveTimesOut ==
  /\ life = "up" /\ call = "recv" /\ inbox = <<>> /\ peer = "open"
  /\ nonblocking \/ rcvtimeo # 0
  /\ call' = "none"
  /\ UNCHANGED <<members, life, table, options, remote, result, now>>

\* ECONNRESET is reported once, after what is still there was received; then
\* the stream is at its end.
ReceiveReset ==
  /\ life = "up" /\ call = "recv" /\ inbox = <<>> /\ peer = "reset"
  /\ call' = "none" /\ peer' = "broken"
  /\ UNCHANGED <<members, life, table, options, sent, inbox, result, now>>

-----------------------------------------------------------------------------
(* send_response().                                                        *)

\* The fragments of response r that send() takes.
Sent(r) == {Message(r)}
             \cup IF PartialSends THEN {<< <<r, "head">> >>} ELSE {}

\* Mutant: connected_ is not tested.
SendOverEnd ==
  /\ Ready /\ HasSocket /\ peer \in {"open", "shut"}
  /\ responses < MaxResponses
  /\ \E s \in Sent(responses + 1) : outbox' = outbox \o s
  /\ responses' = responses + 1 /\ last_activity_' = now
  /\ UNCHANGED <<socket_fd_, connected_, life, call, table, options, remote,
                 taken, now>>

\* A short count is logged, and the response has been sent.
Send ==
  /\ Ready /\ connected_ /\ HasSocket /\ peer \in {"open", "shut"}
  /\ responses < MaxResponses
  /\ \E s \in Sent(responses + 1) : outbox' = outbox \o s
  /\ responses' = responses + 1 /\ last_activity_' = now
  /\ UNCHANGED <<socket_fd_, connected_, life, call, table, options, remote,
                 taken, now>>

\* send() fails without a socket, with a full buffer, and on a broken stream,
\* where main() has SIGPIPE ignored.
SendFails ==
  /\ Ready /\ connected_ /\ responses < MaxResponses
  /\ ~HasSocket \/ nonblocking \/ sndtimeo # 0 \/ peer = "broken"
  /\ responses' = responses + 1
  /\ UNCHANGED <<members, life, call, table, options, remote, taken, outbox,
                 now>>

SendReset ==
  /\ Ready /\ connected_ /\ HasSocket /\ peer = "reset"
  /\ responses < MaxResponses
  /\ responses' = responses + 1 /\ peer' = "broken"
  /\ UNCHANGED <<members, life, call, table, options, sent, inbox, taken,
                 outbox, now>>

-----------------------------------------------------------------------------
(* close(), the destructor and the options.                                *)

\* Mutant: the number stays in the member.
CloseKeepsNumber ==
  /\ table' = IF HasSocket THEN [table EXCEPT ![socket_fd_] = "free"] ELSE table
  /\ connected_' = FALSE
  /\ UNCHANGED <<socket_fd_, last_activity_, call, options, remote, result, now>>

CloseSocket ==
  /\ table' = IF HasSocket THEN [table EXCEPT ![socket_fd_] = "free"] ELSE table
  /\ socket_fd_' = NoFd /\ connected_' = FALSE
  /\ UNCHANGED <<last_activity_, call, options, remote, result, now>>

Close   == Ready /\ CloseSocket /\ UNCHANGED life
Destroy == Ready /\ CloseSocket /\ life' = "destroyed"

SetNonBlocking(b) ==
  /\ Ready /\ HasSocket
  /\ nonblocking' = b
  /\ UNCHANGED <<members, life, call, table, rcvtimeo, sndtimeo, timeout_set,
                 remote, result, now>>

\* Mutant: the second failure is not looked at.
SetTimeoutBlindly(t) ==
  /\ Ready /\ HasSocket
  /\ \/ rcvtimeo' = t /\ sndtimeo' = t /\ timeout_set' = TRUE
     \/ UNCHANGED <<rcvtimeo, sndtimeo>> /\ timeout_set' = FALSE
     \/ rcvtimeo' = t /\ UNCHANGED sndtimeo /\ timeout_set' = TRUE
  /\ UNCHANGED <<members, life, call, table, nonblocking, remote, result, now>>

\* Both options are set, or the first setsockopt() fails, or the second, and
\* then the first keeps its new value.
SetTimeout(t) ==
  /\ Ready /\ HasSocket
  /\ \/ rcvtimeo' = t /\ sndtimeo' = t /\ timeout_set' = TRUE
     \/ UNCHANGED <<rcvtimeo, sndtimeo>> /\ timeout_set' = FALSE
     \/ rcvtimeo' = t /\ UNCHANGED sndtimeo /\ timeout_set' = FALSE
  /\ UNCHANGED <<members, life, call, table, nonblocking, remote, result, now>>

SetTimeoutUnconnected ==
  /\ Ready /\ ~HasSocket
  /\ timeout_set' = FALSE
  /\ UNCHANGED <<members, life, call, table, rcvtimeo, sndtimeo, nonblocking,
                 remote, result, now>>

is_timeout(t) == now - last_activity_ >= t

-----------------------------------------------------------------------------
(* The peer, the rest of the process, and time.                            *)

PeerSends ==
  /\ peer = "open" /\ sent < MaxMessages
  /\ sent' = sent + 1
  /\ inbox' = inbox \o Message(sent + 1)
  /\ UNCHANGED <<members, life, call, table, options, peer, result, now>>

PeerShuts ==
  /\ peer = "open" /\ peer' = "shut"
  /\ UNCHANGED <<members, life, call, table, options, sent, inbox, result, now>>

\* What had arrived may be lost with the stream, or be received all the same.
PeerResets ==
  /\ \/ peer = "open" /\ peer' = "reset"
     \/ peer = "shut" /\ peer' = "broken"
  /\ inbox' \in {inbox, <<>>}
  /\ UNCHANGED <<members, life, call, table, options, sent, result, now>>

OtherOpens(f) ==
  /\ table[f] = "free"
  /\ table' = [table EXCEPT ![f] = "other"]
  /\ UNCHANGED <<members, life, call, options, remote, result, now>>

OtherCloses(f) ==
  /\ table[f] = "other"
  /\ table' = [table EXCEPT ![f] = "free"]
  /\ UNCHANGED <<members, life, call, options, remote, result, now>>

Tick ==
  /\ now < MaxTime /\ now' = now + 1
  /\ UNCHANGED <<members, life, call, table, options, remote, result>>

Receive ==
  \/ \E k \in 1..Len(inbox) : ReceiveMessage(k) \/ ReceiveNonsense(k)
  \/ ReceiveEnd \/ ReceiveTimesOut \/ ReceiveReset

Owner ==
  \/ ReceiveBegins \/ Send \/ SendFails \/ SendReset
  \/ Close \/ Destroy \/ SetTimeoutUnconnected
  \/ \E b \in BOOLEAN : SetNonBlocking(b)
  \/ \E t \in Timeouts : SetTimeout(t)

World == \/ PeerSends \/ PeerShuts \/ PeerResets \/ Tick
         \/ \E f \in Fds : OtherOpens(f) \/ OtherCloses(f)

Next == Receive \/ Owner \/ World

\* The kernel completes a recv() that has something to report.
Spec     == Init /\ [][Next]_vars
FairSpec == Spec /\ WF_vars(Receive)
-----------------------------------------------------------------------------
(* Properties.                                                             *)

\* The type of every variable.
TypeOK ==
  /\ socket_fd_ \in Fds \cup {NoFd} /\ connected_ \in BOOLEAN
  /\ now \in 0..MaxTime /\ last_activity_ \in 0..now
  /\ life \in {"up", "destroyed"} /\ call \in {"none", "recv"}
  /\ table \in [Fds -> {"free", "ours", "other"}]
  /\ rcvtimeo \in Timeouts \cup {0} /\ sndtimeo \in Timeouts \cup {0}
  /\ nonblocking \in BOOLEAN /\ timeout_set \in BOOLEAN
  /\ peer \in {"open", "shut", "reset", "broken"} /\ sent \in 0..MaxMessages
  /\ inbox \in Seq(Fragments)
  /\ handled \in Seq(Seq(Fragments)) /\ torn \in BOOLEAN
  /\ responses \in 0..MaxResponses
  /\ outbox \in Seq((1..MaxResponses) \X {"head", "tail"})

\* The descriptor that the object holds is its own, and it holds one as long as
\* one is open for it: none is closed twice (close() and the destructor), used
\* after its number went to somebody else, or left open by the destructor.
DescriptorIsAccounted ==
  \A f \in Fds : table[f] = "ours" <=> f = socket_fd_

\* No method takes a descriptor from the rest of the process.
LeavesOthersAlone ==
  [][\A f \in Fds : table[f] = "other" /\ table'[f] # "other" => OtherCloses(f)]_vars

\* A connection without a socket exchanges nothing, and one that noticed the end
\* of the peer never revives, although its descriptor is still open.
QuietAfterEnd ==
  [][/\ ~connected_ \/ ~HasSocket => UNCHANGED <<handled, outbox, last_activity_>>
     /\ ~connected_ => ~connected_']_vars

\* Only what parse() accepts, or a response, keeps is_timeout() false: a peer
\* that sends nonsense, or half of something, does not hold the connection.
RevivedByExchange ==
  [][is_timeout(MaxIdle) /\ ~is_timeout(MaxIdle)'
       => handled' # handled \/ outbox' # outbox]_vars

\* Where a fragment stands in all that the peer sends.
Place(f) == IF f[2] = "head" THEN 2 * f[1] - 1 ELSE 2 * f[1]

\* Requests come in the order of the stream, and no part of it is in two of
\* them, however recv() cuts it or glues it together.  Each is a message of the
\* peer or a stray.  Until receive_request() says that it could not parse
\* something there are no strays and nothing is lost: the requests are the first
\* messages, as long as the peer has sent no garbage.
InOrderAtMostOnce ==
  /\ \A j, k \in 1..Len(handled) : j < k =>
       \A i \in 1..Len(handled[j]), l \in 1..Len(handled[k]) :
         Place(handled[j][i]) < Place(handled[k][l])
  /\ \A k \in 1..Len(handled) :
       \/ \E m \in (1..sent) \ Garbage : handled[k] = Message(m)
       \/ handled[k] \in Strays
  /\ ~torn => \A k \in 1..Len(handled) :
                (1..k) \cap Garbage = {} => handled[k] = Message(k)

\* The two timeouts differ only after a set_timeout() that said it failed.
TimeoutsAgree == timeout_set => rcvtimeo = sndtimeo

\* receive_request() returns once there is anything for it to return, or if
\* the socket has a timeout: set_timeout(0) is none.
ReceiveReturns ==
  (call = "recv" /\ (inbox # <<>> \/ peer # "open" \/ nonblocking \/ rcvtimeo # 0))
    ~> (call = "none" \/ life # "up")

-----------------------------------------------------------------------------
(* The inductive invariant.                                                *)

\* recv() is entered only with a socket whose end was not seen, and nothing
\* takes either away before it returns; a destroyed object has no socket.
CallFits == /\ call = "recv" => connected_ /\ HasSocket
            /\ life = "destroyed" => ~HasSocket

\* How many fragments have left the inbox, or were lost with the stream.
Gone == 2 * sent - Len(inbox)

\* Nothing was refused, and the stream is whole.
Intact == ~torn /\ (inbox # <<>> \/ peer \in {"open", "shut"})

\* The inbox is the rest of the stream, and what was handled comes before it.
\* As long as it is intact, what has left it are the messages handled.
StreamInOrder ==
  /\ \A k \in 1..Len(inbox) : Place(inbox[k]) = Gone + k
  /\ \A j \in 1..Len(handled) :
       \A i \in 1..Len(handled[j]) : Place(handled[j][i]) <= Gone
  /\ Intact /\ (1..Len(handled)) \cap Garbage = {} => Gone = 2 * Len(handled)

\* What the three invariants above rest on.
IInv == /\ TypeOK /\ CallFits /\ DescriptorIsAccounted /\ TimeoutsAgree
        /\ StreamInOrder /\ InOrderAtMostOnce
=============================================================================
