------------------------- MODULE SnmpConnectionProofs -------------------------
(***************************************************************************)
(* Proofs about SnmpConnection, for any number of descriptors and          *)
(* messages, any garbage among them, any strays, any timeouts and partial  *)
(* sends.                                                                  *)
(***************************************************************************)
EXTENDS SnmpConnection, SequenceTheorems, TLAPS

USE ConnectionAssumption DEF members, options, remote, result, Ready, HasSocket,
    NoFd, taken

-----------------------------------------------------------------------------
(* The steps that move the stream.                                         *)

\* What is left of a sequence after its first k elements.
LEMMA RestFacts ==
  ASSUME NEW S, NEW s \in Seq(S), NEW k \in 1..Len(s)
  PROVE  /\ SubSeq(s, k + 1, Len(s)) \in Seq(S)
         /\ Len(SubSeq(s, k + 1, Len(s))) = Len(s) - k
         /\ \A j \in 1..(Len(s) - k) : SubSeq(s, k + 1, Len(s))[j] = s[k + j]
OBVIOUS

\* Two elements behind a sequence.
Joined(s, t) == s \o t

LEMMA JoinFacts ==
  ASSUME NEW S, NEW s \in Seq(S), NEW t \in Seq(S), Len(t) = 2
  PROVE  /\ Joined(s, t) \in Seq(S) /\ Len(Joined(s, t)) = Len(s) + 2
         /\ \A k \in 1..Len(s) : Joined(s, t)[k] = s[k]
         /\ Joined(s, t)[Len(s) + 1] = t[1] /\ Joined(s, t)[Len(s) + 2] = t[2]
         /\ \A k \in 1..Len(Joined(s, t)) :
              k \in 1..Len(s) \/ k = Len(s) + 1 \/ k = Len(s) + 2
<1>1. /\ s \o t \in Seq(S) /\ Len(s \o t) = Len(s) + Len(t)
      /\ \A i \in 1 .. Len(s)+Len(t) : (s \o t)[i] = IF i <= Len(s) THEN s[i] ELSE t[i - Len(s)]
  BY ConcatProperties, Zenon
<1>2. PICK u : u = Joined(s, t)
  OBVIOUS
<1>3. /\ u \in Seq(S) /\ Len(u) = Len(s) + Len(t)
      /\ \A i \in 1 .. Len(s)+Len(t) : u[i] = IF i <= Len(s) THEN s[i] ELSE t[i - Len(s)]
  BY ONLY <1>1, <1>2, Zenon DEF Joined
<1>4. Len(s) \in Nat
  OBVIOUS
<1>5. PICK n \in Nat : n = Len(s)
  BY <1>4
<1>6. /\ Len(u) = n + 2
      /\ \A i \in 1 .. (n+2) : u[i] = IF i <= n THEN s[i] ELSE t[i - n]
  BY <1>3, <1>5
<1>7. \A k \in 1..n : u[k] = s[k]
  BY ONLY n \in Nat, <1>6
<1>8. u[n+1] = t[1] /\ u[n+2] = t[2]
  BY ONLY n \in Nat, <1>6
<1>9. \A k \in 1..(n+2) : k \in 1..n \/ k = n + 1 \/ k = n + 2
  OBVIOUS
<1> QED
  BY ONLY <1>2, <1>3, <1>5, <1>6, <1>7, <1>8, <1>9, Zenon

\* How much of the stream is gone, for given counts.
LEMMA GoneFacts ==
  ASSUME NEW a \in Nat, NEW b \in Nat
  PROVE  /\ sent = a /\ Len(inbox) = b => Gone = 2 * a - b
         /\ sent' = a /\ Len(inbox)' = b => Gone' = 2 * a - b
BY DEF Gone

\* Where the fragments of the stream stand.
LEMMA PlaceFacts ==
  ASSUME NEW f \in Fragments
  PROVE  /\ f[1] \in 1..MaxMessages /\ f[2] \in {"head", "tail"} /\ Place(f) \in Int
         /\ f[2] = "head" => Place(f) = 2 * f[1] - 1
         /\ f[2] = "tail" => Place(f) = 2 * f[1]
BY DEF Fragments, Place

LEMMA MessageFacts ==
  ASSUME NEW m \in 1..MaxMessages
  PROVE  /\ Message(m) \in Seq(Fragments) /\ Len(Message(m)) = 2
         /\ Message(m)[1] = <<m, "head">> /\ Message(m)[2] = <<m, "tail">>
         /\ Place(Message(m)[1]) = 2 * m - 1 /\ Place(Message(m)[2]) = 2 * m
<1>1. /\ Message(m) \in Seq(Fragments) /\ Len(Message(m)) = 2
      /\ Message(m)[1] = <<m, "head">> /\ Message(m)[2] = <<m, "tail">>
  BY DEF Message, Fragments
<1>2. Place(<<m, "head">>) = 2 * m - 1 /\ Place(<<m, "tail">>) = 2 * m
  BY DEF Place
<1> QED
  BY <1>1, <1>2

\* The types of what the stream holds, and of every request.
LEMMA StreamFacts ==
  ASSUME IInv
  PROVE  /\ inbox \in Seq(Fragments) /\ handled \in Seq(Seq(Fragments))
         /\ Len(inbox) \in Nat /\ Len(handled) \in Nat /\ sent \in Nat /\ Gone \in Int
         /\ sent \in 0..MaxMessages
         /\ \A k \in 1..Len(inbox) : inbox[k] \in Fragments
         /\ \A j \in 1..Len(handled) :
              /\ handled[j] \in Seq(Fragments) /\ Len(handled[j]) \in Nat
              /\ \A i \in 1..Len(handled[j]) :
                   handled[j][i] \in Fragments /\ Place(handled[j][i]) \in Int
<1>1. /\ inbox \in Seq(Fragments) /\ handled \in Seq(Seq(Fragments))
      /\ sent \in 0..MaxMessages
  BY DEF IInv, TypeOK
<1>2. /\ Len(inbox) \in Nat /\ Len(handled) \in Nat
      /\ \A k \in 1..Len(inbox) : inbox[k] \in Fragments
      /\ \A j \in 1..Len(handled) : handled[j] \in Seq(Fragments)
  BY <1>1
<1>3. \A j \in 1..Len(handled) :
        /\ Len(handled[j]) \in Nat
        /\ \A i \in 1..Len(handled[j]) : handled[j][i] \in Fragments
  BY <1>2
<1> QED
  BY <1>1, <1>2, <1>3, PlaceFacts DEF Gone

\* Taking fragments from the front leaves the rest of the stream.
LEMMA TakeFacts ==
  ASSUME IInv, NEW k \in 1..Len(inbox), inbox' = SubSeq(inbox, k + 1, Len(inbox)),
         UNCHANGED sent
  PROVE  /\ inbox' \in Seq(Fragments) /\ Len(inbox') = Len(inbox) - k
         /\ Gone' = Gone + k
         /\ \A j \in 1..Len(inbox') : Place(inbox'[j]) = Gone + k + j
<1>1. /\ inbox' \in Seq(Fragments) /\ Len(inbox') = Len(inbox) - k
      /\ \A j \in 1..(Len(inbox) - k) : inbox'[j] = inbox[k + j]
  BY StreamFacts, RestFacts
<1>2. Gone' = Gone + k
  BY <1>1, StreamFacts DEF Gone
<1>3. ASSUME NEW j \in 1..Len(inbox') PROVE Place(inbox'[j]) = Gone + k + j
  <2>1. k + j \in 1..Len(inbox) /\ j \in 1..(Len(inbox) - k)
    <3>1. Len(inbox) \in Nat /\ k \in 1..Len(inbox) /\ j \in 1..(Len(inbox) - k)
      BY <1>1, <1>3, StreamFacts
    <3> QED
      BY ONLY <3>1
  <2>2. Place(inbox[k + j]) = Gone + (k + j)
    BY <2>1 DEF IInv, StreamInOrder
  <2> QED
    BY <1>1, <2>1, <2>2, StreamFacts
<1> QED
  BY <1>1, <1>2, <1>3

\* What parse() is given, and what it may take for a request.
LEMMA ParsedFacts ==
  ASSUME IInv, NEW k \in 1..Len(inbox), NEW s, s = SubSeq(inbox, 1, k)
  PROVE  /\ s \in Seq(Fragments) /\ Len(s) = k
         /\ \A i \in 1..k : s[i] \in Fragments /\ Place(s[i]) = Gone + i
         /\ Accepted(s) =>
              \/ \E m \in (1..sent) \ Garbage : s = Message(m)
              \/ s \in Strays
         /\ Accepted(s) /\ ~torn /\ (1..(Len(handled) + 1)) \cap Garbage = {} =>
              s = Message(Len(handled) + 1) /\ k = 2 /\ Gone = 2 * Len(handled)
<1> DEFINE n == Len(handled)
<1>1. /\ s \in Seq(Fragments) /\ Len(s) = k /\ k \in Nat
      /\ \A i \in 1..k : s[i] \in Fragments /\ s[i] = inbox[i] /\ i \in 1..Len(inbox)
  BY StreamFacts
<1>2. ASSUME NEW i \in 1..k PROVE Place(s[i]) = Gone + i
  <2>1. i \in 1..Len(inbox) /\ s[i] = inbox[i]
    BY <1>1
  <2>2. Place(inbox[i]) = Gone + i
    BY <2>1 DEF IInv, StreamInOrder
  <2> QED
    BY <2>1, <2>2
<1>3. Place(s[1]) = Gone + 1 /\ s[1] \in Fragments /\ 1 \in 1..k
  BY <1>1, <1>2, StreamFacts
<1>4. ASSUME NEW m \in 1..MaxMessages, s = Message(m)
      PROVE  m \in 1..sent /\ Gone + 1 = 2 * m - 1 /\ k = 2
  <2>1. Gone + 1 = 2 * m - 1 /\ k = 2
    BY <1>1, <1>3, <1>4, MessageFacts
  <2>2. Gone + 1 <= 2 * sent
    BY <1>1, StreamFacts DEF Gone
  <2> QED
    BY <2>1, <2>2, StreamFacts
<1>5. Accepted(s) =>
        \/ \E m \in (1..sent) \ Garbage : s = Message(m)
        \/ s \in Strays
  BY <1>4 DEF Accepted
<1>6. ASSUME Accepted(s), ~torn, (1..(n + 1)) \cap Garbage = {}
      PROVE  s = Message(n + 1) /\ k = 2 /\ Gone = 2 * n
  <2>1. n \in Nat /\ n + 1 \in 1..(n + 1) /\ 1..n \subseteq 1..(n + 1)
    BY StreamFacts
  <2>2. inbox # <<>>
    BY <1>1
  <2>3. Gone = 2 * n
    BY <1>6, <2>1, <2>2 DEF IInv, StreamInOrder, Intact
  <2>4. s[1][2] = "head" /\ s[1][1] = n + 1
    BY <1>3, <2>1, <2>3, PlaceFacts
  <2>5. n + 1 \notin Garbage
    BY <1>6, <2>1
  <2>6. s \notin Strays
    BY <2>4, <2>5
  <2>7. PICK m \in (1..MaxMessages) \ Garbage : s = Message(m)
    BY <1>6, <2>6 DEF Accepted
  <2>8. m = n + 1 /\ k = 2
    BY <1>4, <2>1, <2>3, <2>7
  <2> QED
    BY <2>3, <2>7, <2>8
<1> QED
  BY <1>1, <1>2, <1>5, <1>6

\* receive_request() on the first k fragments.
LEMMA MessageInv ==
  ASSUME IInv, NEW k \in 1..Len(inbox), ReceiveMessage(k) PROVE IInv'
<1>1. PICK s : s = SubSeq(inbox, 1, k)
  OBVIOUS
<1>2. PICK n : n = Len(handled)
  OBVIOUS
<1>3. /\ handled' = Append(handled, s) /\ Accepted(s)
      /\ UNCHANGED <<sent, torn, peer>> /\ inbox' = SubSeq(inbox, k + 1, Len(inbox))
  BY <1>1 DEF ReceiveMessage, Take
<1>4. /\ s \in Seq(Fragments) /\ Len(s) = k /\ k \in Nat /\ n \in Nat
      /\ \A i \in 1..k : Place(s[i]) = Gone + i
      /\ (\E m \in (1..sent) \ Garbage : s = Message(m)) \/ s \in Strays
      /\ ~torn /\ (1..(n + 1)) \cap Garbage = {} =>
           s = Message(n + 1) /\ k = 2 /\ Gone = 2 * n
  <2>1. n \in Nat
    BY <1>2, StreamFacts
  <2>2. /\ s \in Seq(Fragments) /\ Len(s) = k
        /\ \A i \in 1..k : s[i] \in Fragments /\ Place(s[i]) = Gone + i
        /\ Accepted(s) =>
             \/ \E m \in (1..sent) \ Garbage : s = Message(m)
             \/ s \in Strays
        /\ Accepted(s) /\ ~torn /\ (1..(Len(handled) + 1)) \cap Garbage = {} =>
             s = Message(Len(handled) + 1) /\ k = 2 /\ Gone = 2 * Len(handled)
    BY <1>1, ParsedFacts
  <2>3. k \in Nat
    BY StreamFacts
  <2> QED
    BY ONLY <1>2, <1>3, <2>1, <2>2, <2>3
<1>5. /\ handled' \in Seq(Seq(Fragments)) /\ Len(handled') = n + 1
      /\ handled'[n + 1] = s /\ \A j \in 1..n : handled'[j] = handled[j]
      /\ \A j \in 1..Len(handled') : j \in 1..n \/ j = n + 1
  <2>1. PICK q \in Seq(Seq(Fragments)) : q = handled /\ n = Len(q)
    BY <1>2, StreamFacts
  <2>2. /\ Append(q, s) \in Seq(Seq(Fragments)) /\ Len(Append(q, s)) = Len(q) + 1
        /\ \A j \in 1..Len(q) : Append(q, s)[j] = q[j]
        /\ Append(q, s)[Len(q) + 1] = s
    BY ONLY q \in Seq(Seq(Fragments)), <1>4, AppendProperties
  <2>3. \A j \in 1..(n + 1) : j \in 1..n \/ j = n + 1
    BY ONLY <1>4
  <2>4. handled' = Append(q, s)
    BY <1>3, <2>1
  <2> QED
    BY ONLY <2>1, <2>2, <2>3, <2>4, Zenon
<1>6. /\ inbox' \in Seq(Fragments) /\ Len(inbox') = Len(inbox) - k
      /\ Gone' = Gone + k /\ Gone \in Int
      /\ \A j \in 1..Len(inbox') : Place(inbox'[j]) = Gone + k + j
  BY <1>3, TakeFacts, StreamFacts
<1>7. \A j \in 1..n : \A i \in 1..Len(handled[j]) :
        Place(handled[j][i]) <= Gone /\ Place(handled[j][i]) \in Int
  BY <1>2, StreamFacts DEF IInv, StreamInOrder
<1>8. StreamInOrder'
  <2>1. ASSUME NEW j \in 1..Len(handled'), NEW i \in 1..Len(handled'[j])
        PROVE  Place(handled'[j][i]) <= Gone'
    <3>1. CASE j \in 1..n
      <4>1. handled'[j] = handled[j] /\ i \in 1..Len(handled[j])
        BY <1>5, <2>1, <3>1
      <4>2. Place(handled[j][i]) <= Gone /\ Place(handled[j][i]) \in Int
        BY <1>7, <3>1, <4>1
      <4> QED
        BY <1>4, <1>6, <4>1, <4>2
    <3>2. CASE j = n + 1
      <4>1. handled'[j] = s /\ i \in 1..k
        BY <1>4, <1>5, <2>1, <3>2
      <4> QED
        BY <1>4, <1>6, <4>1
    <3> QED
      BY <1>5, <3>1, <3>2
  <2>2. Intact' /\ (1..Len(handled')) \cap Garbage = {} => Gone' = 2 * Len(handled')
    BY <1>3, <1>4, <1>5, <1>6 DEF Intact
  <2> QED
    BY <1>6, <2>1, <2>2 DEF StreamInOrder
<1>9. InOrderAtMostOnce'
  <2>1. ASSUME NEW j \in 1..Len(handled'), NEW l \in 1..Len(handled'), j < l,
               NEW i \in 1..Len(handled'[j]), NEW h \in 1..Len(handled'[l])
        PROVE  Place(handled'[j][i]) < Place(handled'[l][h])
    <3>1. j \in 1..n
      BY <1>4, <1>5, <2>1
    <3>2. CASE l \in 1..n
      BY <1>2, <1>5, <2>1, <3>1, <3>2 DEF IInv, InOrderAtMostOnce
    <3>3. CASE l = n + 1
      <4>1. Place(handled'[j][i]) <= Gone /\ Place(handled'[j][i]) \in Int
        BY <1>5, <1>7, <2>1, <3>1
      <4>2. Place(handled'[l][h]) = Gone + h /\ h >= 1 /\ h \in Nat
        BY <1>4, <1>5, <2>1, <3>3
      <4> QED
        BY <1>6, <4>1, <4>2
    <3> QED
      BY <1>5, <3>2, <3>3
  <2>2. ASSUME NEW j \in 1..Len(handled')
        PROVE  \/ \E m \in (1..sent') \ Garbage : handled'[j] = Message(m)
               \/ handled'[j] \in Strays
    <3>1. CASE j \in 1..n
      BY <1>2, <1>3, <1>5, <3>1 DEF IInv, InOrderAtMostOnce
    <3>2. CASE j = n + 1
      BY <1>3, <1>4, <1>5, <3>2
    <3> QED
      BY <1>5, <3>1, <3>2
  <2>3. ASSUME ~torn', NEW j \in 1..Len(handled'), (1..j) \cap Garbage = {}
        PROVE  handled'[j] = Message(j)
    <3>1. CASE j \in 1..n
      BY <1>2, <1>3, <1>5, <2>3, <3>1 DEF IInv, InOrderAtMostOnce
    <3>2. CASE j = n + 1
      BY <1>3, <1>4, <1>5, <2>3, <3>2
    <3> QED
      BY <1>5, <3>1, <3>2
  <2> QED
    BY <2>1, <2>2, <2>3 DEF InOrderAtMostOnce
<1>10. TypeOK'
  <2>1. now' = now /\ last_activity_' = now /\ now \in 0..MaxTime
    BY DEF IInv, TypeOK, ReceiveMessage, Take
  <2>2. now' \in 0..MaxTime /\ last_activity_' \in 0..now'
    BY <2>1
  <2> QED
    BY <1>5, <1>6, <2>2 DEF IInv, TypeOK, ReceiveMessage, Take
<1>11. CallFits' /\ DescriptorIsAccounted' /\ TimeoutsAgree'
  BY DEF IInv, CallFits, DescriptorIsAccounted, TimeoutsAgree, ReceiveMessage, Take
<1> QED
  BY <1>8, <1>9, <1>10, <1>11 DEF IInv

LEMMA NonsenseInv ==
  ASSUME IInv, NEW k \in 1..Len(inbox), ReceiveNonsense(k) PROVE IInv'
<1>1. UNCHANGED <<sent, handled>> /\ torn' = TRUE
  BY DEF ReceiveNonsense, Take
<1>2. /\ inbox' \in Seq(Fragments) /\ Len(inbox') = Len(inbox) - k
      /\ Gone' = Gone + k
      /\ \A j \in 1..Len(inbox') : Place(inbox'[j]) = Gone + k + j
  BY <1>1, TakeFacts DEF ReceiveNonsense, Take
<1>3. StreamInOrder'
  <2>1. ASSUME NEW j \in 1..Len(handled), NEW i \in 1..Len(handled[j])
        PROVE  Place(handled[j][i]) <= Gone'
    <3>1. Place(handled[j][i]) <= Gone
      BY <2>1 DEF IInv, StreamInOrder
    <3>2. Place(handled[j][i]) \in Int /\ Gone \in Int /\ k \in Nat
      BY <2>1, StreamFacts
    <3> QED
      BY <1>2, <3>1, <3>2
  <2> QED
    BY <1>1, <1>2, <2>1 DEF StreamInOrder, Intact
<1>4. TypeOK'
  BY <1>1, <1>2 DEF IInv, TypeOK, ReceiveNonsense, Take
<1>5. InOrderAtMostOnce'
  BY <1>1 DEF IInv, InOrderAtMostOnce
<1>6. CallFits' /\ DescriptorIsAccounted' /\ TimeoutsAgree'
  BY DEF IInv, CallFits, DescriptorIsAccounted, TimeoutsAgree, ReceiveNonsense, Take
<1> QED
  BY <1>3, <1>4, <1>5, <1>6 DEF IInv

\* The peer's next message goes behind everything it sent before.
LEMMA PeerSendsInv == IInv /\ PeerSends => IInv'
<1> SUFFICES ASSUME IInv, PeerSends PROVE IInv'
  OBVIOUS
<1>1. PICK m : m = sent + 1
  OBVIOUS
<1>2. PICK n : n = Len(inbox)
  OBVIOUS
<1>3. /\ m \in 1..MaxMessages /\ n \in Nat /\ inbox \in Seq(Fragments)
      /\ Message(m) \in Seq(Fragments) /\ Len(Message(m)) = 2
      /\ Place(Message(m)[1]) = 2 * m - 1 /\ Place(Message(m)[2]) = 2 * m
  <2>1. m \in 1..MaxMessages
    BY <1>1, StreamFacts DEF PeerSends
  <2> QED
    BY <1>2, <2>1, StreamFacts, MessageFacts
<1>4. inbox' = inbox \o Message(m) /\ UNCHANGED <<handled, torn, peer>> /\ sent' = m
  BY <1>1 DEF PeerSends
<1>5. /\ inbox' \in Seq(Fragments) /\ Len(inbox') = n + 2
      /\ \A k \in 1..n : inbox'[k] = inbox[k]
      /\ inbox'[n + 1] = Message(m)[1] /\ inbox'[n + 2] = Message(m)[2]
      /\ \A k \in 1..Len(inbox') : k \in 1..n \/ k = n + 1 \/ k = n + 2
  <2>1. inbox' = Joined(inbox, Message(m))
    BY <1>4 DEF Joined
  <2>2. PICK t \in Seq(Fragments) : t = Message(m) /\ Len(t) = 2
    BY <1>3
  <2>3. PICK s \in Seq(Fragments) : s = inbox
    BY <1>3
  <2>4. /\ Joined(s, t) \in Seq(Fragments) /\ Len(Joined(s, t)) = Len(s) + 2
        /\ \A k \in 1..Len(s) : Joined(s, t)[k] = s[k]
        /\ Joined(s, t)[Len(s) + 1] = t[1] /\ Joined(s, t)[Len(s) + 2] = t[2]
        /\ \A k \in 1..Len(Joined(s, t)) :
             k \in 1..Len(s) \/ k = Len(s) + 1 \/ k = Len(s) + 2
    <3>1. Len(t) = 2
      BY <2>2
    <3> QED
      BY ONLY t \in Seq(Fragments), s \in Seq(Fragments), <3>1, JoinFacts
  <2> QED
    BY ONLY <1>2, <2>1, <2>2, <2>3, <2>4, Zenon
<1>6. Gone' = Gone /\ Gone = 2 * m - 2 - n
  <2>1. PICK a \in Nat : a = sent
    BY StreamFacts
  <2>2. Gone = 2 * a - n
    BY ONLY <1>2, <2>1, n \in Nat, GoneFacts
  <2>3. sent' = a + 1 /\ Len(inbox)' = n + 2 /\ a + 1 \in Nat /\ n + 2 \in Nat
    BY <1>1, <1>3, <1>4, <1>5, <2>1
  <2>4. Gone' = 2 * (a + 1) - (n + 2)
    BY ONLY <2>3, GoneFacts
  <2> QED
    BY ONLY <1>1, <1>3, <2>1, <2>2, <2>4
<1>7. StreamInOrder'
  <2>1. ASSUME NEW k \in 1..Len(inbox') PROVE Place(inbox'[k]) = Gone' + k
    <3>1. CASE k \in 1..n
      BY <1>2, <1>5, <1>6, <3>1 DEF IInv, StreamInOrder
    <3>2. CASE k = n + 1
      BY <1>3, <1>5, <1>6, <3>2
    <3>3. CASE k = n + 2
      BY <1>3, <1>5, <1>6, <3>3
    <3> QED
      BY <1>5, <3>1, <3>2, <3>3
  <2>2. Intact' => Intact
    BY <1>4 DEF Intact, PeerSends
  <2> QED
    BY <1>4, <1>6, <2>1, <2>2 DEF IInv, StreamInOrder
<1>8. InOrderAtMostOnce'
  <2>1. 1..sent \subseteq 1..sent'
    BY <1>1, <1>4, StreamFacts
  <2> QED
    BY <1>4, <2>1 DEF IInv, InOrderAtMostOnce
<1>9. TypeOK' /\ CallFits' /\ DescriptorIsAccounted' /\ TimeoutsAgree'
  <2>1. sent' \in 0..MaxMessages
    BY <1>3, <1>4
  <2> QED
    BY <1>5, <2>1 DEF IInv, TypeOK, CallFits, DescriptorIsAccounted, TimeoutsAgree,
       PeerSends
<1> QED
  BY <1>7, <1>8, <1>9 DEF IInv

-----------------------------------------------------------------------------
(* The steps that leave the stream's fragments and their order alone.      *)

StreamTypes == /\ inbox \in Seq(Fragments) /\ handled \in Seq(Seq(Fragments))
               /\ torn \in BOOLEAN
               /\ outbox \in Seq((1..MaxResponses) \X {"head", "tail"})

PlainTypes ==
  /\ socket_fd_ \in Fds \cup {NoFd} /\ connected_ \in BOOLEAN
  /\ now \in 0..MaxTime /\ last_activity_ \in 0..now
  /\ life \in {"up", "destroyed"} /\ call \in {"none", "recv"}
  /\ table \in [Fds -> {"free", "ours", "other"}]
  /\ rcvtimeo \in Timeouts \cup {0} /\ sndtimeo \in Timeouts \cup {0}
  /\ nonblocking \in BOOLEAN /\ timeout_set \in BOOLEAN
  /\ peer \in {"open", "shut", "reset", "broken"} /\ sent \in 0..MaxMessages
  /\ responses \in 0..MaxResponses

\* The two halves of the invariant: what the stream holds, and the rest.
StreamInv == StreamTypes /\ StreamInOrder /\ InOrderAtMostOnce
PlainInv  == PlainTypes /\ CallFits /\ DescriptorIsAccounted /\ TimeoutsAgree

LEMMA Halves == /\ IInv <=> StreamInv /\ PlainInv
                /\ IInv' <=> StreamInv' /\ PlainInv'
BY DEF IInv, StreamInv, PlainInv, TypeOK, StreamTypes, PlainTypes

LEMMA StreamKept ==
  ASSUME IInv, UNCHANGED <<sent, handled, torn, outbox>>,
         peer' \in {"open", "shut"} => peer \in {"open", "shut"},
         inbox' = inbox \/ (inbox' = <<>> /\ peer' \notin {"open", "shut"})
  PROVE  StreamInv'
<1>1. StreamInv
  BY Halves
<1>2. CASE inbox' = inbox
  BY <1>1, <1>2 DEF StreamInv, StreamTypes, StreamInOrder, InOrderAtMostOnce, Gone, Intact
<1>3. CASE inbox' = <<>> /\ peer' \notin {"open", "shut"}
  <2>1. inbox' \in Seq(Fragments) /\ Len(inbox') = 0 /\ ~Intact'
    BY <1>3 DEF Intact
  <2>2. Gone <= Gone' /\ Gone \in Int /\ Gone' \in Int
    BY <2>1, StreamFacts DEF Gone
  <2>3. \A j \in 1..Len(handled) :
          \A i \in 1..Len(handled[j]) : Place(handled[j][i]) <= Gone'
    BY <2>2, StreamFacts DEF IInv, StreamInOrder
  <2>4. StreamInOrder'
    BY <2>1, <2>3 DEF StreamInOrder
  <2> QED
    BY <1>1, <2>1, <2>4 DEF StreamInv, StreamTypes, InOrderAtMostOnce
<1> QED
  BY <1>2, <1>3

LEMMA InitInv == Init => IInv
<1> SUFFICES ASSUME Init PROVE IInv
  OBVIOUS
<1>1. PlainInv
  <2>1. table \in [Fds -> {"free", "ours", "other"}]
    BY DEF Init
  <2>2. 0 \in 0..0 /\ 0 \in 0..MaxTime /\ 0 \in 0..MaxMessages /\ 0 \in 0..MaxResponses
    OBVIOUS
  <2>3. PlainTypes
    BY <2>1, <2>2 DEF Init, PlainTypes
  <2>4. CallFits /\ DescriptorIsAccounted /\ TimeoutsAgree
    BY DEF Init, CallFits, DescriptorIsAccounted, TimeoutsAgree
  <2> QED
    BY <2>3, <2>4 DEF PlainInv
<1>2. /\ inbox \in Seq(Fragments) /\ Len(inbox) = 0
      /\ handled \in Seq(Seq(Fragments)) /\ Len(handled) = 0 /\ torn \in BOOLEAN
      /\ Gone = 0
      /\ outbox \in Seq((1..MaxResponses) \X {"head", "tail"})
  <2>1. inbox = <<>> /\ handled = <<>> /\ outbox = <<>> /\ sent = 0 /\ torn = FALSE
    BY DEF Init
  <2>2. /\ inbox \in Seq(Fragments) /\ handled \in Seq(Seq(Fragments))
        /\ outbox \in Seq((1..MaxResponses) \X {"head", "tail"})
    BY <2>1
  <2>3. Len(inbox) = 0 /\ Len(handled) = 0
    BY <2>1
  <2>4. Gone = 0
    BY ONLY <2>1, <2>3, GoneFacts, 0 \in Nat
  <2> QED
    BY <2>1, <2>2, <2>3, <2>4
<1>3. StreamInv
  BY <1>2 DEF StreamInv, StreamTypes, StreamInOrder, InOrderAtMostOnce
<1> QED
  BY <1>1, <1>3, Halves

\* receive_request() that returns no message.
LEMMA ReceiveRestInv ==
  ASSUME IInv, ReceiveEnd \/ ReceiveTimesOut \/ ReceiveReset PROVE IInv'
<1> USE DEF PlainInv, PlainTypes, CallFits, DescriptorIsAccounted, TimeoutsAgree
<1>1. StreamInv'
  BY Halves, StreamKept DEF ReceiveEnd, ReceiveTimesOut, ReceiveReset
<1>2. CASE ReceiveEnd
  BY <1>1, <1>2, Halves DEF ReceiveEnd
<1>3. CASE ReceiveTimesOut
  BY <1>1, <1>3, Halves DEF ReceiveTimesOut
<1>4. CASE ReceiveReset
  BY <1>1, <1>4, Halves DEF ReceiveReset
<1> QED
  BY <1>2, <1>3, <1>4

LEMMA SendInv == ASSUME IInv, Send PROVE IInv'
<1> DEFINE R == (1..MaxResponses) \X {"head", "tail"}
<1>1. responses + 1 \in 1..MaxResponses /\ responses + 1 \in 0..MaxResponses
  BY Halves DEF PlainInv, PlainTypes, Send
<1>2. outbox \in Seq(R)
  BY Halves DEF StreamInv, StreamTypes
<1>3. ASSUME NEW s \in Sent(responses + 1) PROVE s \in Seq(R)
  <2>1. <<responses + 1, "head">> \in R /\ <<responses + 1, "tail">> \in R
    BY <1>1
  <2>2. \/ s = << <<responses + 1, "head">>, <<responses + 1, "tail">> >>
        \/ s = << <<responses + 1, "head">> >>
    BY <1>3 DEF Sent, Message
  <2>3. /\ << <<responses + 1, "head">>, <<responses + 1, "tail">> >> \in Seq(R)
        /\ << <<responses + 1, "head">> >> \in Seq(R)
    <3> HIDE DEF R
    <3> QED
      BY <2>1
  <2> QED
    BY <2>2, <2>3
<1>4. outbox' \in Seq(R)
  <2>1. PICK s \in Sent(responses + 1) : outbox' = outbox \o s
    BY DEF Send
  <2>2. s \in Seq(R)
    BY <1>3
  <2> HIDE DEF R
  <2> QED
    BY <1>2, <2>1, <2>2
<1>5. StreamInv'
  BY <1>4, Halves DEF StreamInv, StreamTypes, StreamInOrder, InOrderAtMostOnce, Gone,
     Intact, Send
<1>6. PlainInv'
  BY <1>1, Halves DEF PlainInv, PlainTypes, CallFits, DescriptorIsAccounted,
     TimeoutsAgree, Send
<1> QED
  BY <1>5, <1>6, Halves

\* close() and the destructor free the number, if there is one.
LEMMA CloseInv == ASSUME IInv, Close \/ Destroy PROVE IInv'
<1>1. StreamInv'
  BY Halves, StreamKept DEF Close, Destroy, CloseSocket
<1>2. table' \in [Fds -> {"free", "ours", "other"}]
  BY Halves DEF PlainInv, PlainTypes, Close, Destroy, CloseSocket
<1>3. PlainTypes'
  BY <1>2, Halves DEF PlainInv, PlainTypes, Close, Destroy, CloseSocket
<1>4. CallFits' /\ TimeoutsAgree'
  BY Halves DEF PlainInv, CallFits, TimeoutsAgree, Close, Destroy, CloseSocket
<1>5. ASSUME NEW f \in Fds PROVE table'[f] # "ours" /\ f # socket_fd_'
  <2>1. socket_fd_' = NoFd /\ f \in Nat
    BY DEF Close, Destroy, CloseSocket
  <2>2. CASE f = socket_fd_
    BY <2>1, <2>2, Halves DEF PlainInv, PlainTypes, Close, Destroy, CloseSocket
  <2>3. CASE f # socket_fd_
    BY <2>1, <2>3, Halves DEF PlainInv, PlainTypes, DescriptorIsAccounted, Close,
       Destroy, CloseSocket
  <2> QED
    BY <2>2, <2>3, <2>1
<1>6. DescriptorIsAccounted'
  BY <1>5 DEF DescriptorIsAccounted
<1> QED
  BY <1>1, <1>3, <1>4, <1>6, Halves DEF PlainInv

\* Every other method of the object, and its end.
LEMMA OwnerInv == ASSUME IInv, Owner PROVE IInv'
<1> USE DEF PlainInv, PlainTypes, CallFits, DescriptorIsAccounted, TimeoutsAgree
<1>1. CASE Send
  BY <1>1, SendInv
<1>2. CASE ReceiveBegins
  BY <1>2, Halves, StreamKept DEF ReceiveBegins
<1>3. CASE SendFails
  BY <1>3, Halves, StreamKept DEF SendFails
<1>4. CASE SendReset
  BY <1>4, Halves, StreamKept DEF SendReset
<1>5. CASE Close \/ Destroy
  BY <1>5, CloseInv
<1>6. CASE SetTimeoutUnconnected
  BY <1>6, Halves, StreamKept DEF SetTimeoutUnconnected
<1>7. ASSUME NEW b \in BOOLEAN, SetNonBlocking(b) PROVE IInv'
  BY <1>7, Halves, StreamKept DEF SetNonBlocking
<1>8. ASSUME NEW t \in Timeouts, SetTimeout(t) PROVE IInv'
  BY <1>8, Halves, StreamKept DEF SetTimeout
<1> QED
  BY <1>1, <1>2, <1>3, <1>4, <1>5, <1>6, <1>7, <1>8 DEF Owner

LEMMA WorldInv == ASSUME IInv, World PROVE IInv'
<1> USE DEF PlainInv, PlainTypes, CallFits, DescriptorIsAccounted, TimeoutsAgree
<1>1. CASE PeerSends
  BY <1>1, PeerSendsInv
<1>2. CASE PeerShuts
  BY <1>2, Halves, StreamKept DEF PeerShuts
<1>3. CASE PeerResets
  BY <1>3, Halves, StreamKept DEF PeerResets
<1>4. CASE Tick
  BY <1>4, Halves, StreamKept DEF Tick
<1>5. ASSUME NEW f \in Fds, OtherOpens(f) PROVE IInv'
  BY <1>5, Halves, StreamKept DEF OtherOpens
<1>6. ASSUME NEW f \in Fds, OtherCloses(f) PROVE IInv'
  BY <1>6, Halves, StreamKept DEF OtherCloses
<1> QED
  BY <1>1, <1>2, <1>3, <1>4, <1>5, <1>6 DEF World

LEMMA StepInv == IInv /\ [Next]_vars => IInv'
<1> SUFFICES ASSUME IInv, [Next]_vars PROVE IInv'
  OBVIOUS
<1>1. CASE Receive
  <2>1. ASSUME NEW k \in 1..Len(inbox), ReceiveMessage(k) \/ ReceiveNonsense(k)
        PROVE  IInv'
    BY <2>1, MessageInv, NonsenseInv
  <2> QED
    BY <1>1, <2>1, ReceiveRestInv DEF Receive
<1>2. CASE Owner
  BY <1>2, OwnerInv
<1>3. CASE World
  BY <1>3, WorldInv
<1>4. CASE UNCHANGED vars
  <2>1. StreamInv'
    BY <1>4, Halves, StreamKept DEF vars
  <2>2. PlainInv'
    BY <1>4, Halves DEF vars, PlainInv, PlainTypes, CallFits,
       DescriptorIsAccounted, TimeoutsAgree
  <2> QED
    BY <2>1, <2>2, Halves
<1> QED
  BY <1>1, <1>2, <1>3, <1>4 DEF Next

-----------------------------------------------------------------------------
(* The theorems.                                                           *)

\* The inductive invariant.
THEOREM Invariant == Spec => []IInv
<1> QED
  BY InitInv, StepInv, PTL DEF Spec

\* Types are kept; no clock value lies in the future.
THEOREM TypeCorrect == Spec => []TypeOK
<1>1. IInv => TypeOK
  BY DEF IInv
<1> QED
  BY <1>1, Invariant, PTL

\* One descriptor, closed once, by close() or by the destructor.
THEOREM Accounted == Spec => []DescriptorIsAccounted
<1>1. IInv => DescriptorIsAccounted
  BY DEF IInv
<1> QED
  BY <1>1, Invariant, PTL

\* Whatever recv() makes of the stream, requests come in order and once, each a
\* message or a stray, and the first messages until parse() refuses something.
THEOREM InOrder == Spec => []InOrderAtMostOnce
<1>1. IInv => InOrderAtMostOnce
  BY DEF IInv
<1> QED
  BY <1>1, Invariant, PTL

\* set_timeout() that returned true has set both timeouts.
THEOREM Timed == Spec => []TimeoutsAgree
<1>1. IInv => TimeoutsAgree
  BY DEF IInv
<1> QED
  BY <1>1, Invariant, PTL

\* After its end the connection exchanges nothing and stays at its end.
THEOREM Quiet == Spec => QuietAfterEnd
<1>1. IInv /\ [Next]_vars =>
        [/\ ~connected_ \/ ~HasSocket => UNCHANGED <<handled, outbox, last_activity_>>
         /\ ~connected_ => ~connected_']_vars
  <2> SUFFICES ASSUME IInv, [Next]_vars, ~connected_ \/ ~HasSocket
               PROVE  /\ UNCHANGED <<handled, outbox, last_activity_>>
                      /\ ~connected_ => ~connected_'
    OBVIOUS
  <2>1. CASE Receive
    BY <2>1 DEF IInv, CallFits, Receive, ReceiveMessage, ReceiveNonsense, Take,
       ReceiveEnd, ReceiveTimesOut, ReceiveReset
  <2>2. CASE Owner
    BY <2>2 DEF Owner, ReceiveBegins, Send, SendFails, SendReset,
       Close, Destroy, CloseSocket, SetTimeoutUnconnected,
       SetNonBlocking, SetTimeout
  <2>3. CASE World
    BY <2>3 DEF World, PeerSends, PeerShuts, PeerResets, Tick, OtherOpens,
       OtherCloses
  <2>4. CASE UNCHANGED vars
    BY <2>4 DEF vars
  <2> QED
    BY <2>1, <2>2, <2>3, <2>4 DEF Next
<1> QED
  BY <1>1, Invariant, PTL DEF Spec, QuietAfterEnd

\* Nothing but a whole message or a response makes an idle connection fresh.
THEOREM Revived == Spec => RevivedByExchange
<1> DEFINE Fresh == is_timeout(MaxIdle) /\ ~is_timeout(MaxIdle)'
<1>1. IInv /\ [Next]_vars => [Fresh => handled' # handled \/ outbox' # outbox]_vars
  <2> SUFFICES ASSUME IInv, [Next]_vars, Fresh
               PROVE  handled' # handled \/ outbox' # outbox
    OBVIOUS
  <2>1. /\ now \in Nat /\ last_activity_ \in Nat
        /\ now' \in Nat => now' < now \/ last_activity_' # last_activity_
    BY DEF is_timeout, IInv, TypeOK
  <2>2. CASE Receive
    <3>1. PICK k \in 1..Len(inbox) : ReceiveMessage(k)
      BY <2>1, <2>2 DEF Receive, ReceiveNonsense, Take, ReceiveEnd, ReceiveTimesOut,
         ReceiveReset
    <3>2. PICK s : s = SubSeq(inbox, 1, k)
      OBVIOUS
    <3>3. s \in Seq(Fragments) /\ handled' = Append(handled, s)
      BY <3>1, <3>2, ParsedFacts DEF ReceiveMessage
    <3>4. Len(handled') = Len(handled) + 1 /\ Len(handled) \in Nat
      BY <3>3, StreamFacts
    <3> QED
      BY <3>4
  <2>3. CASE Send
    <3>1. PICK s \in Sent(responses + 1) : outbox' = outbox \o s
      BY <2>3 DEF Send
    <3>2. \/ s = << <<responses + 1, "head">>, <<responses + 1, "tail">> >>
          \/ s = << <<responses + 1, "head">> >>
      BY <3>1 DEF Sent, Message
    <3>3. /\ outbox \in Seq((1..MaxResponses) \X {"head", "tail"})
          /\ responses \in Nat
      BY DEF IInv, TypeOK
    <3>4. s \in Seq(Nat \X {"head", "tail"}) /\ Len(s) \in 1..2
      <4> DEFINE h == <<responses + 1, "head">>
                 q == <<responses + 1, "tail">>
      <4>1. h \in Nat \X {"head", "tail"} /\ q \in Nat \X {"head", "tail"}
        BY <3>3
      <4>2. s = <<h, q>> \/ s = <<h>>
        BY <3>2
      <4> HIDE DEF h, q
      <4>3. CASE s = <<h, q>>
        BY <4>1, <4>3
      <4>4. CASE s = <<h>>
        BY <4>1, <4>4
      <4> QED
        BY <4>2, <4>3, <4>4
    <3>5. outbox \in Seq(Nat \X {"head", "tail"})
      BY <3>3
    <3>6. Len(outbox \o s) = Len(outbox) + Len(s)
      BY <3>4, <3>5
    <3>7. Len(outbox') = Len(outbox) + Len(s)
      BY <3>1, <3>6, Zenon
    <3>8. Len(outbox) + Len(s) # Len(outbox)
      <4>1. Len(outbox) \in Nat /\ Len(s) \in 1..2
        BY <3>4, <3>5
      <4> QED
        BY <4>1
    <3> QED
      BY <3>7, <3>8, Zenon
  <2>4. CASE Owner /\ ~Send
    BY <2>1, <2>4 DEF Owner, ReceiveBegins, SendFails, SendReset,
       Close, Destroy, CloseSocket, SetTimeoutUnconnected,
       SetNonBlocking, SetTimeout
  <2>5. CASE World
    BY <2>1, <2>5 DEF World, PeerSends, PeerShuts, PeerResets, Tick, OtherOpens,
       OtherCloses
  <2>6. CASE UNCHANGED vars
    BY <2>1, <2>6 DEF vars
  <2> QED
    BY <2>2, <2>3, <2>4, <2>5, <2>6 DEF Next
<1> QED
  BY <1>1, Invariant, PTL DEF Spec, RevivedByExchange

\* The object closes no descriptor but its own.
THEOREM OthersKept == Spec => LeavesOthersAlone
<1> DEFINE Kept == \A f \in Fds : table[f] = "other" /\ table'[f] # "other"
                                    => OtherCloses(f)
<1>1. IInv /\ [Next]_vars => [Kept]_vars
  <2> SUFFICES ASSUME IInv, [Next]_vars, NEW f \in Fds, table[f] = "other",
                      table'[f] # "other"
               PROVE  OtherCloses(f)
    OBVIOUS
  <2>1. /\ table \in [Fds -> {"free", "ours", "other"}]
        /\ f # socket_fd_
    BY DEF IInv, TypeOK, DescriptorIsAccounted
  <2>2. CASE Receive
    BY <2>2 DEF Receive, ReceiveMessage, ReceiveNonsense, Take, ReceiveEnd,
       ReceiveTimesOut, ReceiveReset
  <2>3. CASE Owner
    BY <2>1, <2>3 DEF Owner, ReceiveBegins, Send, SendFails, SendReset,
       Close, Destroy, CloseSocket, SetTimeoutUnconnected,
       SetNonBlocking, SetTimeout
  <2>4. CASE \E g \in Fds : OtherOpens(g) \/ OtherCloses(g)
    BY <2>1, <2>4 DEF OtherOpens, OtherCloses
  <2>5. CASE PeerSends \/ PeerShuts \/ PeerResets \/ Tick
    BY <2>5 DEF PeerSends, PeerShuts, PeerResets, Tick
  <2>6. CASE UNCHANGED vars
    BY <2>6 DEF vars
  <2> QED
    BY <2>2, <2>3, <2>4, <2>5, <2>6 DEF Next, World
<1> QED
  BY <1>1, Invariant, PTL DEF Spec, LeavesOthersAlone
=============================================================================
