----------------------------- MODULE PeerProofs -----------------------------
(***************************************************************************)
(* PeerInv is an invariant of the connection, and the connection           *)
(* implements PeerService, for answers of any size and any number of       *)
(* requests and of messages of the peer's own.                             *)
(*                                                                         *)
(* That a fetch collects its own answer is not inductive by itself: it     *)
(* rests on what may be in the two streams when a request is made.  The    *)
(* pong that ends keep_alive comes after everything sent before it         *)
(* (PongInv), so that nothing is left of older answers when it has been    *)
(* read (IdleInv); from there on each answer is read to its last message   *)
(* (InOrder, ToCome) before the next request, or the call fails and the    *)
(* next one is a keep_alive.                                               *)
(***************************************************************************)
EXTENDS Peer, TLAPS

-----------------------------------------------------------------------------
(* Streams, requests and answers *)

\* The elements of a sequence and one more.
LEMMA AppendFacts ==
  ASSUME NEW S, NEW s \in Seq(S), NEW x \in S
  PROVE  /\ Append(s, x) \in Seq(S)
         /\ Len(s) \in Nat /\ Len(Append(s, x)) = Len(s) + 1
         /\ \A i \in 1 .. Len(s) : Append(s, x)[i] = s[i] /\ s[i] \in S
         /\ Append(s, x)[Len(s) + 1] = x
OBVIOUS

\* The elements of a sequence without the first.
LEMMA TailFacts ==
  ASSUME NEW S, NEW s \in Seq(S), s # <<>>
  PROVE  /\ Tail(s) \in Seq(S)
         /\ Len(s) \in Nat /\ Len(s) >= 1 /\ Len(Tail(s)) = Len(s) - 1
         /\ \A i \in 1 .. Len(s) - 1 : Tail(s)[i] = s[i + 1]
         /\ \A i \in 1 .. Len(s) : s[i] \in S
         /\ Head(s) = s[1]
OBVIOUS

\* Requests and answers.
LEMMA AnswerFacts ==
  /\ \A c \in {"verack", "tx", "other", "bad", "notfound", "pong"} : c \notin Asked
  /\ "ping" \in Asked /\ "version" \in Asked
  /\ Answer("ping") = "pong" /\ Answer("version") = "version"
  /\ \A c \in Asked : Answer(c) \in Command /\ c \in Command /\ (Answer(c) = "pong" => c = "ping")
BY DEF Answer, Asked, Command

\* The request of a fetch is one the peer answers, and not with a message of the handshake.
LEMMA RequestFacts ==
  ASSUME NEW c \in Fetch
  PROVE  /\ Request(c) \in Asked /\ Request(c) \notin {"version", "ping"}
         /\ Answer(Request(c)) \notin {"none", "other", "bad", "notfound", "pong", "version", "verack"}
         /\ (c = "tx") = (Answer(Request(c)) = "getdata")
BY DEF Answer, Asked, Request, Fetch

\* PeerInit: no message has been sent.
LEMMA InitInv == PeerInit => PeerInv
<1> SUFFICES ASSUME PeerInit PROVE PeerInv
  OBVIOUS
<1> USE DEF PeerInit
<1>1. toPeer \in Seq(Message) /\ fromPeer \in Seq(Message) /\ got \in Seq(Message)
  OBVIOUS
<1>2. item \in Nat /\ requests \in Nat /\ size \in Nat
  OBVIOUS
<1>3. behind \in BOOLEAN /\ synced \in BOOLEAN
  BY Zenon
<1>4. StreamInv
  BY DEF StreamInv, From, To
<1>5. CallInv
  BY DEF CallInv, Fetch
<1>6. PongInv /\ IdleInv
  BY DEF PongInv, IdleInv
<1>7. FetchInv /\ AnswersCurrent
  BY DEF FetchInv, AnswersCurrent, Fetch
<1> QED
  BY Zenon, <1>1, <1>2, <1>3, <1>4, <1>5, <1>6, <1>7 DEF PeerInv, PeerTypes

\* What a read does to the stream: the first message leaves it.
LEMMA ReadFacts ==
  ASSUME PeerTypes, NEW m, Read(m)
  PROVE  /\ fromPeer' \in Seq(Message) /\ Len(fromPeer) \in Nat /\ Len(fromPeer) >= 1
         /\ Len(fromPeer') = Len(fromPeer) - 1
         /\ From' = 1 .. Len(fromPeer) - 1
         /\ m = fromPeer[1] /\ m \in Message
         /\ \A i \in From : fromPeer[i] \in Message
         /\ \A i \in From' : i + 1 \in From /\ fromPeer'[i] = fromPeer[i + 1]
         /\ \A i \in From : i > 1 => i - 1 \in From' /\ fromPeer'[i - 1] = fromPeer[i]
<1>1. fromPeer \in Seq(Message) /\ fromPeer # <<>> /\ fromPeer' = Tail(fromPeer) /\ m = Head(fromPeer)
  BY DEF Read, PeerTypes
<1> DEFINE f == fromPeer
<1>2. /\ Tail(f) \in Seq(Message) /\ Len(f) \in Nat /\ Len(f) >= 1 /\ Len(Tail(f)) = Len(f) - 1
      /\ \A i \in 1 .. Len(f) - 1 : Tail(f)[i] = f[i + 1]
      /\ \A i \in 1 .. Len(f) : f[i] \in Message
      /\ Head(f) = f[1]
  BY Zenon, <1>1, TailFacts
<1>3. From' = 1 .. Len(fromPeer) - 1
  BY Zenon, <1>1, <1>2 DEF From
<1> HIDE DEF f
<1> QED
  BY <1>1, <1>2, <1>3 DEF From, f

\* A message that is no answer leaves the stream.
LEMMA DropOther ==
  ASSUME PeerTypes, NEW m, Read(m), InOrder, ~ IsAnswer(m), UNCHANGED <<awaited, size, got, requests>>
  PROVE  InOrder'
<1>1. ASSUME NEW i \in From', IsAnswer(fromPeer'[i])
      PROVE  /\ fromPeer'[i].req = requests
             /\ fromPeer'[i].cmd \in {awaited, "notfound"}
             /\ fromPeer'[i].n \in Len(got) + 1 .. size
             /\ \/ fromPeer'[i].n = Len(got) + 1
                \/ \E k \in From' : k < i /\ IsAnswer(fromPeer'[k]) /\ fromPeer'[k].n + 1 = fromPeer'[i].n
  <2>1. i + 1 \in From /\ fromPeer'[i] = fromPeer[i + 1]
    BY Zenon, ReadFacts
  <2>2. /\ fromPeer[i + 1].req = requests
        /\ fromPeer[i + 1].cmd \in {awaited, "notfound"}
        /\ fromPeer[i + 1].n \in Len(got) + 1 .. size
        /\ \/ fromPeer[i + 1].n = Len(got) + 1
           \/ \E k \in From : k < i + 1 /\ IsAnswer(fromPeer[k]) /\ fromPeer[k].n + 1 = fromPeer[i + 1].n
    BY Zenon, <1>1, <2>1 DEF InOrder
  <2>3. ASSUME NEW k \in From, k < i + 1, IsAnswer(fromPeer[k]), fromPeer[k].n + 1 = fromPeer[i + 1].n
        PROVE  \E l \in From' : l < i /\ IsAnswer(fromPeer'[l]) /\ fromPeer'[l].n + 1 = fromPeer'[i].n
    <3>1. k # 1
      BY Zenon, <2>3, ReadFacts
    <3>2. k - 1 \in From' /\ fromPeer'[k - 1] = fromPeer[k] /\ k - 1 < i
      BY <2>3, <3>1, ReadFacts DEF From
    <3> QED
      BY Zenon, <2>1, <2>3, <3>2
  <2> QED
    BY <2>1, <2>2, <2>3
<1>2. ASSUME NEW i \in From', NEW k \in From', i < k, IsAnswer(fromPeer'[i]), IsAnswer(fromPeer'[k])
      PROVE  fromPeer'[i].n < fromPeer'[k].n
  <2>1. i + 1 < k + 1
    BY <1>2, ReadFacts
  <2> QED
    BY ZenonT(40), <1>2, <2>1, ReadFacts DEF InOrder
<1> QED
  BY Zenon, <1>1, <1>2 DEF InOrder, IsAnswer

\* A message that is no answer was before the rest of an answer.
LEMMA DropBeforeRest ==
  ASSUME PeerTypes, NEW m, Read(m), ToCome, ~ IsAnswer(m),
         UNCHANGED <<toPeer, item, call, size, got, requests>>
  PROVE  ToCome'
<1>1. ASSUME NEW j \in To, IsAsked(toPeer[j]), j = 1
      PROVE  /\ \A i \in From' : IsAnswer(fromPeer'[i]) => fromPeer'[i].n < item
             /\ \/ item = Len(got) + 1
                \/ \E i \in From' : IsAnswer(fromPeer'[i]) /\ fromPeer'[i].n + 1 = item
  <2>1. \A i \in From' : IsAnswer(fromPeer'[i]) => fromPeer'[i].n < item
    BY Zenon, <1>1, ReadFacts DEF ToCome
  <2>2. ASSUME NEW i \in From, IsAnswer(fromPeer[i]), fromPeer[i].n + 1 = item
        PROVE  \E l \in From' : IsAnswer(fromPeer'[l]) /\ fromPeer'[l].n + 1 = item
    <3>1. i # 1
      BY Zenon, <2>2, ReadFacts
    <3>2. i - 1 \in From' /\ fromPeer'[i - 1] = fromPeer[i]
      BY <3>1, ReadFacts DEF From
    <3> QED
      BY Zenon, <2>2, <3>2
  <2> QED
    BY Zenon, <1>1, <2>1, <2>2 DEF ToCome
<1>2. ASSUME NEW j \in To, IsAsked(toPeer[j]), j # 1
      PROVE  \A i \in From' : ~ IsAnswer(fromPeer'[i])
  BY Zenon, <1>2, ReadFacts DEF ToCome
<1> QED
  BY Zenon, <1>1, <1>2 DEF ToCome, To, IsAsked, IsAnswer

\* ReadOther: what nobody waits for leaves the stream.
LEMMA ReadOtherStep == ASSUME PeerInv, NEW m, ReadOther(m) PROVE PeerInv'
<1> USE DEF PeerInv
<1>1. Read(m) /\ m.cmd \notin {awaited, "notfound", "bad"}
      /\ UNCHANGED <<toPeer, item, awaited, status, call, size, got, synced, requests, behind>>
  BY DEF ReadOther, call_vars
<1>2. PeerTypes'
  BY Zenon, <1>1, ReadFacts DEF PeerTypes
<1>3. StreamInv'
  BY Zenon, <1>1, ReadFacts DEF StreamInv, To, IsAnswer, IsAsked, AnswerLen
<1>4. CallInv'
  BY Zenon, <1>1 DEF CallInv, Sizes
<1>5. PongInv'
  <2> SUFFICES ASSUME awaited = "pong" PROVE PongInv'
    BY Zenon, <1>1 DEF PongInv
  <2>1. \A i \in From' : fromPeer'[i].req = requests =>
         /\ fromPeer'[i].cmd = "pong"
         /\ \A k \in From' : k > i => ~ IsAnswer(fromPeer'[k])
         /\ \A j \in To : ~ IsAsked(toPeer[j])
    <3> TAKE i \in From'
    <3> HAVE fromPeer'[i].req = requests
    <3>1. i + 1 \in From /\ fromPeer[i + 1].req = requests /\ fromPeer'[i] = fromPeer[i + 1]
      BY <1>1, ReadFacts
    <3>2. \A k \in From' : k > i => ~ IsAnswer(fromPeer'[k])
      <4> TAKE k \in From'
      <4> HAVE k > i
      <4>1. k + 1 \in From /\ fromPeer'[k] = fromPeer[k + 1]
        BY Zenon, <1>1, ReadFacts
      <4>2. k + 1 > i + 1
        BY <1>1, ReadFacts
      <4> QED
        BY Zenon, <3>1, <4>1, <4>2 DEF PongInv
    <3> QED
      BY Zenon, <3>1, <3>2 DEF PongInv
  <2> QED
    BY Zenon, <1>1, <2>1 DEF PongInv, To, IsAsked, IsAnswer
<1>6. IdleInv'
  BY <1>1, ReadFacts DEF IdleInv, To, IsAnswer, IsAsked
<1>7. FetchInv'
  <2> SUFFICES ASSUME ~ behind, call \in Fetch PROVE FetchInv'
    BY Zenon, <1>1 DEF FetchInv
  <2>1. InOrder /\ ToCome /\ Len(got) < size
        /\ \A i \in 1 .. Len(got) : got[i].req = requests /\ got[i].n = i
    BY Zenon DEF FetchInv
  <2>2. ~ IsAnswer(fromPeer[1]) /\ m = fromPeer[1] /\ 1 \in From
    BY <1>1, <2>1, ReadFacts DEF InOrder, From
  <2>3. InOrder'
    BY <1>1, <2>1, <2>2, DropOther DEF PeerTypes
  <2>4. ToCome'
    BY Zenon, <1>1, <2>1, <2>2, DropBeforeRest
  <2> QED
    BY Zenon, <1>1, <2>1, <2>3, <2>4 DEF FetchInv
<1>8. AnswersCurrent'
  BY Zenon, <1>1 DEF AnswersCurrent
<1> QED
  BY Zenon, <1>2, <1>3, <1>4, <1>5, <1>6, <1>7, <1>8 

-----------------------------------------------------------------------------
(* The peer *)

\* What a message of the peer does to the stream.
LEMMA GainFacts ==
  ASSUME PeerTypes, NEW x \in Message, fromPeer' = Append(fromPeer, x)
  PROVE  /\ fromPeer' \in Seq(Message) /\ Len(fromPeer) \in Nat
         /\ From' = 1 .. Len(fromPeer) + 1
         /\ \A i \in From : i \in From' /\ fromPeer'[i] = fromPeer[i] /\ i < Len(fromPeer) + 1
         /\ \A i \in From' : i \in From \/ i = Len(fromPeer) + 1
         /\ Len(fromPeer) + 1 \in From' /\ fromPeer'[Len(fromPeer) + 1] = x
         /\ \A k \in From' : ~ (k > Len(fromPeer) + 1)
<1>1. fromPeer \in Seq(Message)
  BY DEF PeerTypes
<1>2. /\ fromPeer' \in Seq(Message)
      /\ Len(fromPeer) \in Nat /\ Len(fromPeer') = Len(fromPeer) + 1
      /\ \A i \in 1 .. Len(fromPeer) : fromPeer'[i] = fromPeer[i]
      /\ fromPeer'[Len(fromPeer) + 1] = x
  BY <1>1, AppendFacts
<1>3. From' = 1 .. Len(fromPeer) + 1
  BY Zenon, <1>2 DEF From
<1> QED
  BY <1>2, <1>3 DEF From

\* What the peer does to the requests when it is done with one.
LEMMA TakeFacts ==
  ASSUME PeerTypes, toPeer # <<>>, toPeer' = Tail(toPeer)
  PROVE  /\ toPeer' \in Seq(Message) /\ Len(toPeer) \in Nat /\ Len(toPeer) >= 1
         /\ Len(toPeer') = Len(toPeer) - 1 /\ To' = 1 .. Len(toPeer) - 1
         /\ \A j \in To' : j + 1 \in To /\ toPeer'[j] = toPeer[j + 1]
<1>1. toPeer \in Seq(Message)
  BY DEF PeerTypes
<1>2. /\ toPeer' \in Seq(Message)
      /\ Len(toPeer) \in Nat /\ Len(toPeer) >= 1 /\ Len(toPeer') = Len(toPeer) - 1
      /\ \A i \in 1 .. Len(toPeer) - 1 : toPeer'[i] = toPeer[i + 1]
  BY Zenon, <1>1, TailFacts
<1>3. To' = 1 .. Len(toPeer) - 1
  BY Zenon, <1>2 DEF To
<1> QED
  BY <1>2, <1>3 DEF To

\* The oldest request.
LEMMA HeadFacts ==
  ASSUME PeerTypes, toPeer # <<>>
  PROVE  /\ Head(toPeer) = toPeer[1] /\ toPeer[1] \in Message /\ 1 \in To
         /\ toPeer[1].req \in Nat /\ toPeer[1].n \in Nat /\ Len(toPeer) \in Nat
<1>1. /\ Head(toPeer) = toPeer[1] /\ toPeer[1] \in Message
      /\ Len(toPeer) \in Nat /\ Len(toPeer) >= 1
  BY DEF PeerTypes
<1> QED
  BY <1>1 DEF To, Message

\* A request has been sent when its answer is awaited.
LEMMA PongAsked == ASSUME CallInv, awaited = "pong" PROVE call \in {"connect", "keep_alive", "handshake"}
BY RequestFacts DEF CallInv, Call

\* The types of the messages in the stream.
LEMMA FromTypes ==
  ASSUME PeerTypes
  PROVE  \A i \in From : fromPeer[i] \in Message /\ fromPeer[i].n \in Nat /\ fromPeer[i].req \in Nat
<1>1. \A i \in From : fromPeer[i] \in Message
  BY DEF PeerTypes, From
<1> QED
  BY <1>1 DEF Message

\* The next message of an answer joins the stream.
LEMMA GainInOrder ==
  ASSUME PeerTypes, InOrder, NEW x \in Message, fromPeer' = Append(fromPeer, x),
         UNCHANGED <<awaited, size, got, requests>>,
         IsAnswer(x) =>
           /\ x.req = requests
           /\ x.cmd \in {awaited, "notfound"}
           /\ x.n \in Len(got) + 1 .. size
           /\ \A i \in From : IsAnswer(fromPeer[i]) => fromPeer[i].n < x.n
           /\ \/ x.n = Len(got) + 1
              \/ \E i \in From : IsAnswer(fromPeer[i]) /\ fromPeer[i].n + 1 = x.n
  PROVE  InOrder'
<1> DEFINE last == Len(fromPeer) + 1
<1>1. ASSUME NEW i \in From', IsAnswer(fromPeer'[i])
      PROVE  /\ fromPeer'[i].req = requests
             /\ fromPeer'[i].cmd \in {awaited, "notfound"}
             /\ fromPeer'[i].n \in Len(got) + 1 .. size
             /\ \/ fromPeer'[i].n = Len(got) + 1
                \/ \E k \in From' : k < i /\ IsAnswer(fromPeer'[k]) /\ fromPeer'[k].n + 1 = fromPeer'[i].n
  <2>1. CASE i \in From
    <3>1. /\ fromPeer[i].req = requests
          /\ fromPeer[i].cmd \in {awaited, "notfound"}
          /\ fromPeer[i].n \in Len(got) + 1 .. size
          /\ \/ fromPeer[i].n = Len(got) + 1
             \/ \E k \in From : k < i /\ IsAnswer(fromPeer[k]) /\ fromPeer[k].n + 1 = fromPeer[i].n
      BY Zenon, <1>1, <2>1, GainFacts DEF InOrder
    <3> QED
      BY <2>1, <3>1, GainFacts
  <2>2. CASE i = last
    BY SMTT(30), <1>1, <2>2, GainFacts
  <2> QED
    BY Zenon, <2>1, <2>2, GainFacts
<1>2. ASSUME NEW i \in From', NEW k \in From', i < k, IsAnswer(fromPeer'[i]), IsAnswer(fromPeer'[k])
      PROVE  fromPeer'[i].n < fromPeer'[k].n
  <2>1. i \in From
    BY <1>2, GainFacts DEF From
  <2>2. CASE k \in From
    BY ZenonT(40), <1>2, <2>1, <2>2, GainFacts DEF InOrder
  <2>3. CASE k = last
    BY Zenon, <1>2, <2>1, <2>3, GainFacts
  <2> QED
    BY Zenon, <2>2, <2>3, GainFacts
<1> QED
  BY Zenon, <1>1, <1>2 DEF InOrder, IsAnswer

\* PeerAnswers: the answer to a request stays behind what was sent before.
LEMMA PeerAnswersStep == ASSUME PeerInv, PeerAnswers PROVE PeerInv'
<1> USE DEF PeerInv
<1> DEFINE q == toPeer[1]
           x == [cmd |-> AnswerCmd(q, item), req |-> q.req, n |-> item]
<1>1. /\ toPeer # <<>> /\ q \in Message /\ q.req \in Nat /\ q.n \in Nat /\ 1 \in To /\ IsAsked(q)
      /\ Len(toPeer) \in Nat
      /\ fromPeer' = Append(fromPeer, x)
      /\ UNCHANGED <<awaited, status, call, size, got, synced, requests, behind>>
  BY HeadFacts DEF PeerAnswers, receive_vars, call_vars, IsAsked
<1>2. \/ item < AnswerLen(q) /\ item' = item + 1 /\ toPeer' = toPeer
      \/ ~ (item < AnswerLen(q)) /\ item' = 1 /\ toPeer' = Tail(toPeer)
  BY HeadFacts, <1>1 DEF PeerAnswers
<1>3. x \in Message /\ x.req = q.req /\ x.n = item /\ x.cmd = AnswerCmd(q, item)
  <2>1. AnswerCmd(q, item) \in Command
    BY <1>1, AnswerFacts DEF AnswerCmd, IsAsked, Command
  <2> QED
    BY <1>1, <2>1 DEF Message, PeerTypes
<1>4. q.req \in 1 .. requests /\ item \in Nat /\ item >= 1 /\ requests \in Nat
      /\ (item = 1 \/ item <= AnswerLen(q))
  BY <1>1 DEF StreamInv, PeerTypes
<1> HIDE DEF q, x
<1>5. PeerTypes'
  <2>1. toPeer' \in Seq(Message) /\ fromPeer' \in Seq(Message)
    BY Zenon, <1>1, <1>2, <1>3, GainFacts, TakeFacts DEF PeerTypes
  <2>2. item' \in Nat
    BY <1>2, <1>4
  <2> QED
    BY Zenon, <1>1, <2>1, <2>2 DEF PeerTypes
<1>6. StreamInv'
  <2>1. \A i \in From' : fromPeer'[i].req <= requests
                         /\ (~ IsAnswer(fromPeer'[i]) => fromPeer'[i].cmd \in {"other", "bad"})
    <3>1. x.req <= requests /\ IsAnswer(x)
      BY <1>3, <1>4 DEF IsAnswer
    <3> QED
      BY <1>1, <1>3, <3>1, GainFacts DEF StreamInv
  <2>2. CASE item < AnswerLen(q) /\ item' = item + 1 /\ toPeer' = toPeer
    <3>1. item' >= 1 /\ item' <= AnswerLen(q)
      BY <1>3, <1>4, <2>2, <1>1 DEF AnswerLen
    <3> QED
      BY Zenon, <1>1, <2>1, <2>2, <3>1 DEF StreamInv, IsAnswer, IsAsked, To, q, AnswerLen
  <2>3. CASE item' = 1 /\ toPeer' = Tail(toPeer)
    <3>1. \A j \in To' : toPeer'[j].req \in 1 .. requests
      BY Zenon, <1>1, <2>3, TakeFacts DEF StreamInv
    <3>2. item' >= 1
      BY <2>3
    <3> QED
      BY Zenon, <1>1, <2>1, <2>3, <3>1, <3>2 DEF StreamInv, IsAnswer
  <2> QED
    BY Zenon, <1>2, <2>2, <2>3
<1>7. CallInv'
  BY Zenon, <1>1 DEF CallInv, Sizes
<1>8. PongInv'
  <2> SUFFICES ASSUME awaited = "pong" PROVE PongInv'
    BY Zenon, <1>1 DEF PongInv
  <2>1. \A i \in From : fromPeer[i].req # requests
    BY Zenon, <1>1 DEF PongInv, q
  <2>2. CASE q.req = requests
    <3>1. q.cmd = "ping" /\ q.n = 1 /\ Len(toPeer) = 1
      BY Zenon, <1>1, <2>2 DEF PongInv, q
    <3>2. x.cmd = "pong" /\ AnswerLen(q) = 1
      BY <1>3, <3>1, AnswerFacts DEF AnswerCmd, AnswerLen
    <3>3. To' = {}
      BY <1>1, <1>2, <1>4, <3>1, <3>2, TakeFacts
    <3>4. \A i \in From' : fromPeer'[i].req = requests => i = Len(fromPeer) + 1
      BY Zenon, <1>1, <1>3, <2>1, GainFacts
    <3> QED
      <4>1. fromPeer'[Len(fromPeer) + 1].cmd = "pong" /\ \A k \in From' : ~ (k > Len(fromPeer) + 1)
        BY Zenon, <1>1, <1>3, <3>2, GainFacts
      <4> QED
        BY Zenon, <1>1, <3>3, <3>4, <4>1 DEF PongInv
  <2>3. CASE q.req # requests
    <3>1. \A i \in From' : fromPeer'[i].req # requests
      BY Zenon, <1>1, <1>3, <2>1, <2>3, GainFacts
    <3>2. \A j \in To' : toPeer'[j].req = requests /\ IsAsked(toPeer'[j]) =>
            toPeer'[j].cmd = "ping" /\ toPeer'[j].n = 1 /\ j = Len(toPeer')
      <4>1. CASE toPeer' = toPeer
        BY Zenon, <4>1 DEF PongInv, To
      <4>2. CASE toPeer' = Tail(toPeer)
        BY <1>1, <4>2, TakeFacts DEF PongInv
      <4> QED
        BY Zenon, <1>2, <4>1, <4>2
    <3> QED
      BY Zenon, <1>1, <3>1, <3>2 DEF PongInv, IsAsked
  <2> QED
    BY Zenon, <2>2, <2>3
<1>9. IdleInv'
  BY Zenon, <1>1 DEF IdleInv, q
<1>10. FetchInv'
  <2> SUFFICES ASSUME ~ behind, call \in Fetch PROVE FetchInv'
    BY Zenon, <1>1 DEF FetchInv
  <2>1. InOrder /\ ToCome /\ Len(got) < size
        /\ \A i \in 1 .. Len(got) : got[i].req = requests /\ got[i].n = i
    BY Zenon DEF FetchInv
  <2>2. /\ Len(toPeer) = 1 /\ q.cmd = Request(call) /\ q.req = requests /\ q.n = size
        /\ \A i \in From : IsAnswer(fromPeer[i]) => fromPeer[i].n < item
        /\ \/ item = Len(got) + 1
           \/ \E i \in From : IsAnswer(fromPeer[i]) /\ fromPeer[i].n + 1 = item
    BY Zenon, <1>1, <2>1 DEF ToCome, q
  <2>3. x.cmd = awaited /\ AnswerLen(q) = size
    BY <1>1, <1>3, <2>2, RequestFacts DEF CallInv, AnswerCmd, AnswerLen
  <2>4. item \in Len(got) + 1 .. size
    BY <1>4, <2>1, <2>2, <2>3 DEF PeerTypes, InOrder
  <2>5. InOrder'
    BY Zenon, <1>1, <1>3, <2>1, <2>2, <2>3, <2>4, GainInOrder
  <2>6. CASE item' = item + 1 /\ toPeer' = toPeer
    <3>1. \A i \in From' : IsAnswer(fromPeer'[i]) => fromPeer'[i].n < item'
      <4>1. \A i \in From : IsAnswer(fromPeer[i]) => fromPeer[i].n < item'
        BY <1>4, <2>2, <2>6, FromTypes
      <4>2. x.n < item'
        BY <1>3, <1>4, <2>6
      <4> QED
        BY Zenon, <1>1, <1>3, <4>1, <4>2, GainFacts
    <3>2. \E i \in From' : IsAnswer(fromPeer'[i]) /\ fromPeer'[i].n + 1 = item'
      <4>1. IsAnswer(x) /\ x.n + 1 = item'
        BY <1>3, <1>4, <2>6 DEF IsAnswer
      <4> QED
        BY Zenon, <1>1, <1>3, <4>1, GainFacts
    <3>3. To' = To /\ \A j \in To : j = 1
      <4>1. To' = To
        BY Zenon, <2>6 DEF To
      <4>2. \A j \in To : j = 1
        BY <2>2 DEF To
      <4> QED
        BY Zenon, <4>1, <4>2
    <3>4. ToCome'
      BY Zenon, <1>1, <2>2, <2>6, <3>1, <3>2, <3>3 DEF ToCome, IsAnswer, q
    <3> QED
      BY Zenon, <1>1, <2>1, <2>5, <3>4 DEF FetchInv
  <2>7. CASE toPeer' = Tail(toPeer)
    <3>1. To' = {}
      BY <1>1, <2>2, <2>7, TakeFacts
    <3>2. ToCome'
      BY Zenon, <3>1 DEF ToCome
    <3> QED
      BY Zenon, <1>1, <2>1, <2>5, <3>2 DEF FetchInv
  <2> QED
    BY Zenon, <1>2, <2>6, <2>7
<1>11. AnswersCurrent'
  BY Zenon, <1>1 DEF AnswersCurrent
<1> QED
  BY Zenon, <1>5, <1>6, <1>7, <1>8, <1>9, <1>10, <1>11

\* PeerIgnores: a request leaves the stream, for a notfound or for nothing.
LEMMA PeerIgnoresStep == ASSUME PeerInv, PeerIgnores PROVE PeerInv'
<1> USE DEF PeerInv
<1> DEFINE q == toPeer[1]
           x == [cmd |-> "notfound", req |-> q.req, n |-> item]
<1>1. /\ toPeer # <<>> /\ q \in Message /\ q.req \in Nat /\ q.n \in Nat /\ 1 \in To
      /\ Len(toPeer) \in Nat
      /\ toPeer' = Tail(toPeer) /\ item' = 1
      /\ UNCHANGED <<awaited, status, call, size, got, synced, requests, behind>>
  BY HeadFacts DEF PeerIgnores, receive_vars, call_vars
<1>2. \/ fromPeer' = fromPeer
      \/ fromPeer' = Append(fromPeer, x) /\ q.cmd = "getdata"
  BY HeadFacts, <1>1 DEF PeerIgnores
<1>3. x \in Message /\ x.req = q.req /\ x.n = item /\ x.cmd = "notfound"
  BY <1>1 DEF Message, PeerTypes, Command
<1>4. q.req \in 1 .. requests /\ item \in Nat /\ item >= 1 /\ requests \in Nat
      /\ (item = 1 \/ item <= AnswerLen(q))
  BY <1>1 DEF StreamInv, PeerTypes
<1>5. q.cmd = "getdata" => IsAsked(q)
  BY DEF IsAsked, Asked
<1> HIDE DEF q, x
<1>6. PeerTypes'
  <2>1. toPeer' \in Seq(Message) /\ fromPeer' \in Seq(Message)
    BY Zenon, <1>1, <1>2, <1>3, GainFacts, TakeFacts DEF PeerTypes
  <2>2. item' \in Nat
    BY <1>1
  <2> QED
    BY Zenon, <1>1, <2>1, <2>2 DEF PeerTypes
<1>7. StreamInv'
  <2>1. \A i \in From' : fromPeer'[i].req <= requests
                         /\ (~ IsAnswer(fromPeer'[i]) => fromPeer'[i].cmd \in {"other", "bad"})
    <3>1. x.req <= requests /\ IsAnswer(x)
      BY <1>3, <1>4 DEF IsAnswer
    <3>2. CASE fromPeer' = fromPeer
      BY Zenon, <3>2 DEF StreamInv, From
    <3>3. CASE fromPeer' = Append(fromPeer, x)
      BY <1>1, <1>3, <3>1, <3>3, GainFacts DEF StreamInv
    <3> QED
      BY Zenon, <1>2, <3>2, <3>3
  <2>2. \A j \in To' : toPeer'[j].req \in 1 .. requests
    BY Zenon, <1>1, TakeFacts DEF StreamInv
  <2>3. item' >= 1
    BY <1>1
  <2> QED
    BY Zenon, <1>1, <2>1, <2>2, <2>3 DEF StreamInv, IsAnswer
<1>8. CallInv'
  BY Zenon, <1>1 DEF CallInv, Sizes
<1>9. PongInv'
  <2> SUFFICES ASSUME awaited = "pong" PROVE PongInv'
    BY Zenon, <1>1 DEF PongInv
  <2>1. \A j \in To' : toPeer'[j].req = requests /\ IsAsked(toPeer'[j]) =>
          toPeer'[j].cmd = "ping" /\ toPeer'[j].n = 1 /\ j = Len(toPeer')
    BY <1>1, TakeFacts DEF PongInv
  <2>2. CASE fromPeer' = fromPeer
    <3>1. \A i \in From : fromPeer[i].req = requests => \A j \in To' : ~ IsAsked(toPeer'[j])
      BY Zenon, <1>1, TakeFacts DEF PongInv
    <3> QED
      BY ZenonT(40), <1>1, <2>1, <2>2, <3>1 DEF PongInv, From, IsAnswer
  <2>3. CASE fromPeer' = Append(fromPeer, x) /\ q.cmd = "getdata"
    <3>1. q.req # requests /\ \A i \in From : fromPeer[i].req # requests
      BY Zenon, <1>1, <1>5, <2>3 DEF PongInv, q
    <3>2. \A i \in From' : fromPeer'[i].req # requests
      BY ZenonT(40), <1>1, <1>3, <2>3, <3>1, GainFacts
    <3> QED
      BY Zenon, <1>1, <2>1, <3>2 DEF PongInv
  <2> QED
    BY Zenon, <1>2, <2>2, <2>3
<1>10. IdleInv'
  <2> SUFFICES ASSUME ~ behind, call = "none", synced PROVE IdleInv'
    BY Zenon, <1>1 DEF IdleInv
  <2>1. fromPeer' = fromPeer
    BY Zenon, <1>1, <1>2, <1>5 DEF IdleInv, q
  <2>2. \A j \in To' : ~ IsAsked(toPeer'[j])
    BY Zenon, <1>1, TakeFacts DEF IdleInv
  <2> QED
    BY Zenon, <1>1, <2>1, <2>2 DEF IdleInv, From, IsAnswer
<1>11. FetchInv'
  <2> SUFFICES ASSUME ~ behind, call \in Fetch PROVE FetchInv'
    BY Zenon, <1>1 DEF FetchInv
  <2>1. InOrder /\ ToCome /\ Len(got) < size
        /\ \A i \in 1 .. Len(got) : got[i].req = requests /\ got[i].n = i
    BY Zenon DEF FetchInv
  <2>2. CASE IsAsked(q)
    <3>1. /\ Len(toPeer) = 1 /\ q.cmd = Request(call) /\ q.req = requests /\ q.n = size
          /\ \A i \in From : IsAnswer(fromPeer[i]) => fromPeer[i].n < item
          /\ \/ item = Len(got) + 1
             \/ \E i \in From : IsAnswer(fromPeer[i]) /\ fromPeer[i].n + 1 = item
      BY Zenon, <1>1, <2>1, <2>2 DEF ToCome, q
    <3>2. AnswerLen(q) = size
      BY <3>1, RequestFacts DEF AnswerLen
    <3>3. item \in Len(got) + 1 .. size
      BY <1>4, <2>1, <3>1, <3>2 DEF PeerTypes, InOrder
    <3>4. InOrder'
      <4>1. CASE fromPeer' = fromPeer
        BY Zenon, <1>1, <2>1, <4>1 DEF InOrder, From, IsAnswer
      <4>2. CASE fromPeer' = Append(fromPeer, x)
        BY Zenon, <1>1, <1>3, <2>1, <3>1, <3>3, <4>2, GainInOrder
      <4> QED
        BY Zenon, <1>2, <4>1, <4>2
    <3>5. To' = {}
      BY <1>1, <3>1, TakeFacts
    <3>6. ToCome'
      BY Zenon, <3>5 DEF ToCome
    <3> QED
      BY Zenon, <1>1, <2>1, <3>4, <3>6 DEF FetchInv
  <2>3. CASE ~ IsAsked(q)
    <3>1. fromPeer' = fromPeer /\ From' = From
      BY Zenon, <1>2, <1>5, <2>3 DEF From
    <3>2. InOrder'
      BY Zenon, <1>1, <2>1, <3>1 DEF InOrder, IsAnswer
    <3>3. ASSUME NEW j \in To', IsAsked(toPeer'[j])
          PROVE  /\ j = Len(toPeer')
                 /\ toPeer'[j].cmd = Request(call) /\ toPeer'[j].req = requests /\ toPeer'[j].n = size
                 /\ got = <<>> /\ \A i \in From : ~ IsAnswer(fromPeer[i])
      <4>1. j + 1 \in To /\ toPeer'[j] = toPeer[j + 1]
        BY Zenon, <1>1, TakeFacts
      <4>2. j + 1 # 1
        BY <1>1, TakeFacts
      <4>3. /\ j + 1 = Len(toPeer)
            /\ toPeer[j + 1].cmd = Request(call) /\ toPeer[j + 1].req = requests /\ toPeer[j + 1].n = size
            /\ got = <<>> /\ \A i \in From : ~ IsAnswer(fromPeer[i])
        BY Zenon, <2>1, <3>3, <4>1, <4>2 DEF ToCome
      <4>4. j = Len(toPeer')
        BY <1>1, <4>3, TakeFacts
      <4> QED
        BY Zenon, <4>1, <4>3, <4>4
    <3>4. got = <<>> => item' = Len(got) + 1
      BY <1>1
    <3>5. ToCome'
      BY Zenon, <1>1, <3>1, <3>3, <3>4 DEF ToCome, IsAsked, IsAnswer
    <3> QED
      BY Zenon, <1>1, <2>1, <3>2, <3>5 DEF FetchInv
  <2> QED
    BY Zenon, <2>2, <2>3
<1>12. AnswersCurrent'
  BY Zenon, <1>1 DEF AnswersCurrent
<1> QED
  BY Zenon, <1>6, <1>7, <1>8, <1>9, <1>10, <1>11, <1>12

\* PeerSendsOther: a message that is no answer joins the stream.
LEMMA PeerSendsOtherStep ==
  ASSUME PeerInv, NEW cmd \in {"other", "bad"}, PeerSendsOther(cmd)
  PROVE  PeerInv'
<1> USE DEF PeerInv
<1> DEFINE x == [cmd |-> cmd, req |-> 0, n |-> 0]
<1>1. /\ fromPeer' = Append(fromPeer, x)
      /\ UNCHANGED <<toPeer, item, awaited, status, call, size, got, synced, requests, behind>>
  BY DEF PeerSendsOther, receive_vars, call_vars
<1>2. x \in Message /\ ~ IsAnswer(x) /\ x.cmd \in {"other", "bad"} /\ x.req = 0
  BY DEF Message, Command, IsAnswer
<1> HIDE DEF x
<1>3. PeerTypes'
  BY Zenon, <1>1, <1>2, GainFacts DEF PeerTypes
<1>4. StreamInv'
  <2>1. x.req <= requests
    BY <1>2 DEF PeerTypes
  <2>2. \A i \in From' : fromPeer'[i].req <= requests
                         /\ (~ IsAnswer(fromPeer'[i]) => fromPeer'[i].cmd \in {"other", "bad"})
    BY ZenonT(40), <1>1, <1>2, <2>1, GainFacts DEF StreamInv
  <2> QED
    BY Zenon, <1>1, <2>2 DEF StreamInv, To, IsAnswer, IsAsked, AnswerLen
<1>5. CallInv'
  BY Zenon, <1>1 DEF CallInv, Sizes
<1>6. PongInv'
  <2> SUFFICES ASSUME awaited = "pong" PROVE PongInv'
    BY Zenon, <1>1 DEF PongInv
  <2>1. ASSUME NEW i \in From', fromPeer'[i].req = requests
        PROVE  /\ fromPeer'[i].cmd = "pong"
               /\ \A k \in From' : k > i => ~ IsAnswer(fromPeer'[k])
               /\ \A j \in To : ~ IsAsked(toPeer[j])
    <3>1. requests > 0
      BY Zenon, PongAsked DEF CallInv
    <3>2. requests # x.req
      BY <1>2, <3>1 DEF PeerTypes
    <3>3. i \in From /\ fromPeer[i].req = requests
      BY Zenon, <1>1, <1>2, <2>1, <3>2, GainFacts
    <3>4. /\ fromPeer[i].cmd = "pong"
          /\ \A k \in From : k > i => ~ IsAnswer(fromPeer[k])
          /\ \A j \in To : ~ IsAsked(toPeer[j])
      BY Zenon, <3>3 DEF PongInv
    <3>5. \A k \in From' : k > i => ~ IsAnswer(fromPeer'[k])
      BY Zenon, <1>1, <1>2, <3>4, GainFacts
    <3> QED
      BY Zenon, <1>1, <1>2, <3>3, <3>4, <3>5, GainFacts
  <2> QED
    BY Zenon, <1>1, <2>1 DEF PongInv, To, IsAsked, IsAnswer
<1>7. IdleInv'
  BY Zenon, <1>1, <1>2, GainFacts DEF IdleInv, To, IsAsked, IsAnswer
<1>8. FetchInv'
  <2> SUFFICES ASSUME ~ behind, call \in Fetch PROVE FetchInv'
    BY Zenon, <1>1 DEF FetchInv
  <2>1. InOrder /\ ToCome /\ Len(got) < size
        /\ \A i \in 1 .. Len(got) : got[i].req = requests /\ got[i].n = i
    BY Zenon DEF FetchInv
  <2>2. InOrder'
    BY Zenon, <1>1, <1>2, <2>1, GainInOrder
  <2>3. ASSUME NEW j \in To, IsAsked(toPeer[j]), j = 1
        PROVE  /\ \A i \in From' : IsAnswer(fromPeer'[i]) => fromPeer'[i].n < item
               /\ \/ item = Len(got) + 1
                  \/ \E i \in From' : IsAnswer(fromPeer'[i]) /\ fromPeer'[i].n + 1 = item
    <3>1. /\ \A i \in From : IsAnswer(fromPeer[i]) => fromPeer[i].n < item
          /\ \/ item = Len(got) + 1
             \/ \E i \in From : IsAnswer(fromPeer[i]) /\ fromPeer[i].n + 1 = item
      BY Zenon, <2>1, <2>3 DEF ToCome
    <3> QED
      BY Zenon, <1>1, <1>2, <3>1, GainFacts
  <2>4. ASSUME NEW j \in To, IsAsked(toPeer[j]), j # 1
        PROVE  \A i \in From' : ~ IsAnswer(fromPeer'[i])
    <3>1. \A i \in From : ~ IsAnswer(fromPeer[i])
      BY Zenon, <2>1, <2>4 DEF ToCome
    <3> QED
      BY Zenon, <1>1, <1>2, <3>1, GainFacts
  <2>5. ToCome'
    BY Zenon, <1>1, <2>1, <2>3, <2>4 DEF ToCome, To, IsAsked, IsAnswer
  <2> QED
    BY Zenon, <1>1, <2>1, <2>2, <2>5 DEF FetchInv
<1>9. AnswersCurrent'
  BY Zenon, <1>1 DEF AnswersCurrent
<1> QED
  BY Zenon, <1>3, <1>4, <1>5, <1>6, <1>7, <1>8, <1>9

\* PeerCloses: the requests are lost.
LEMMA PeerClosesStep == ASSUME PeerInv, PeerCloses PROVE PeerInv'
<1> USE DEF PeerInv
<1>1. /\ toPeer' = <<>> /\ item' = 1
      /\ UNCHANGED <<fromPeer, awaited, status, call, size, got, synced, requests, behind>>
  BY DEF PeerCloses, receive_vars, call_vars
<1>2. To' = {} /\ From' = From /\ toPeer' \in Seq(Message) /\ item' \in Nat /\ item' >= 1
  BY <1>1 DEF To, From
<1>3. PeerTypes'
  BY Zenon, <1>1, <1>2 DEF PeerTypes
<1>4. StreamInv'
  BY Zenon, <1>1, <1>2 DEF StreamInv, IsAnswer
<1>5. CallInv'
  BY Zenon, <1>1 DEF CallInv, Sizes
<1>6. PongInv' /\ IdleInv'
  BY Zenon, <1>1, <1>2 DEF PongInv, IdleInv, IsAnswer
<1>7. FetchInv'
  BY Zenon, <1>1, <1>2 DEF FetchInv, InOrder, ToCome, IsAnswer
<1>8. AnswersCurrent'
  BY Zenon, <1>1 DEF AnswersCurrent
<1> QED
  BY Zenon, <1>3, <1>4, <1>5, <1>6, <1>7, <1>8

-----------------------------------------------------------------------------
(* Calls *)

\* Steps that leave the streams and the call alone.
LEMMA UnchangedStep ==
  ASSUME PeerInv,
         UNCHANGED <<toPeer, fromPeer, item, awaited, status, call, size, got, synced, requests, behind>>
  PROVE  PeerInv'
<1> USE DEF PeerInv
<1>1. From' = From /\ To' = To
  BY Zenon DEF From, To
<1>2. PeerTypes' /\ AnswersCurrent' /\ CallInv'
  BY Zenon DEF PeerTypes, AnswersCurrent, CallInv, Sizes
<1>3. StreamInv'
  BY Zenon, <1>1 DEF StreamInv, IsAnswer, IsAsked, AnswerLen
<1>4. PongInv' /\ IdleInv'
  BY Zenon, <1>1 DEF PongInv, IdleInv, IsAnswer, IsAsked
<1>5. FetchInv'
  BY ZenonT(40), <1>1 DEF FetchInv, InOrder, ToCome, IsAnswer, IsAsked
<1> QED
  BY Zenon, <1>2, <1>3, <1>4, <1>5

-----------------------------------------------------------------------------
(* The client *)

\* The messages of the stream were there before.
FromKept ==
  fromPeer' \in Seq(Message) /\ \A i \in From' : \E k \in From : fromPeer'[i] = fromPeer[k]

\* A read keeps the messages behind the first.
LEMMA ReadKept == ASSUME PeerTypes, NEW m, Read(m) PROVE FromKept
BY Zenon, ReadFacts DEF FromKept

\* And so does a step that reads nothing.
LEMMA SameKept == ASSUME PeerTypes, fromPeer' = fromPeer PROVE FromKept
BY Zenon DEF FromKept, From, PeerTypes

\* What a request does to the stream.
LEMMA SendFacts ==
  ASSUME PeerTypes, NEW q \in Message, toPeer' = Append(toPeer, q)
  PROVE  /\ toPeer' \in Seq(Message) /\ Len(toPeer) \in Nat /\ Len(toPeer') = Len(toPeer) + 1
         /\ \A j \in To : j \in To' /\ toPeer'[j] = toPeer[j]
         /\ \A j \in To' : j \in To \/ j = Len(toPeer) + 1
         /\ toPeer'[Len(toPeer) + 1] = q
         /\ toPeer # <<>> => toPeer'[1] = toPeer[1]
         /\ toPeer' # <<>>
<1>1. toPeer \in Seq(Message)
  BY DEF PeerTypes
<1>2. /\ toPeer' \in Seq(Message)
      /\ Len(toPeer) \in Nat /\ Len(toPeer') = Len(toPeer) + 1
      /\ \A i \in 1 .. Len(toPeer) : toPeer'[i] = toPeer[i]
      /\ toPeer'[Len(toPeer) + 1] = q
  BY <1>1, AppendFacts
<1>3. To' = 1 .. Len(toPeer) + 1
  BY Zenon, <1>2 DEF To
<1>4. toPeer # <<>> => 1 \in 1 .. Len(toPeer)
  BY <1>1
<1>5. toPeer' # <<>>
  BY <1>2
<1> QED
  BY <1>2, <1>3, <1>4, <1>5 DEF To

\* StreamInv for the steps of the client.
LEMMA StreamKept ==
  ASSUME PeerTypes, StreamInv, FromKept, item' = item, requests' \in Nat, requests' >= requests,
         \A j \in To' : (j \in To /\ toPeer'[j] = toPeer[j]) \/ toPeer'[j].req \in 1 .. requests',
         toPeer # <<>> => toPeer' # <<>> /\ toPeer'[1] = toPeer[1]
  PROVE  StreamInv'
<1>1. \A i \in From' : fromPeer'[i].req <= requests'
  <2>1. \A k \in From : fromPeer[k].req <= requests'
    BY FromTypes DEF StreamInv, PeerTypes
  <2> QED
    BY Zenon, <2>1 DEF FromKept
<1>2. \A i \in From' : ~ IsAnswer(fromPeer'[i]) => fromPeer'[i].cmd \in {"other", "bad"}
  BY Zenon DEF FromKept, StreamInv
<1>3. \A j \in To' : toPeer'[j].req \in 1 .. requests'
  BY DEF StreamInv, PeerTypes
<1>4. item' >= 1 /\ (toPeer' = <<>> => item' = 1)
  BY Zenon DEF StreamInv
<1>5. toPeer' # <<>> => item' = 1 \/ (IsAsked(toPeer'[1]) /\ item' <= AnswerLen(toPeer'[1]))
  BY Zenon DEF StreamInv
<1> QED
  BY Zenon, <1>1, <1>2, <1>3, <1>4, <1>5 DEF StreamInv, IsAnswer, IsAsked, AnswerLen

\* A request.
LEMMA AskFacts ==
  ASSUME PeerTypes, NEW cmd \in Asked, NEW k \in Nat, Ask(cmd, k)
  PROVE  LET q == [cmd |-> cmd, req |-> requests + 1, n |-> k]
         IN /\ q \in Message /\ q.cmd = cmd /\ q.req = requests + 1 /\ q.n = k /\ IsAsked(q)
            /\ toPeer' = Append(toPeer, q)
            /\ requests' = requests + 1 /\ requests' \in Nat /\ requests' >= requests
            /\ awaited' = Answer(cmd)
<1> DEFINE q == [cmd |-> cmd, req |-> requests + 1, n |-> k]
<1>1. requests' = requests + 1 /\ requests' \in Nat /\ requests' >= requests
  BY DEF Ask, PeerTypes
<1>2. q \in Message /\ q.cmd = cmd /\ q.req = requests + 1 /\ q.n = k
  BY AnswerFacts DEF Message, PeerTypes
<1>3. toPeer' = Append(toPeer, q) /\ awaited' = Answer(cmd)
  BY DEF Ask, Receive
<1>4. IsAsked(q)
  BY Zenon, <1>2 DEF IsAsked
<1> QED
  BY Zenon, <1>1, <1>2, <1>3, <1>4

\* StreamInv for a request.
LEMMA AskStream ==
  ASSUME PeerTypes, StreamInv, FromKept, item' = item, NEW cmd \in Asked, NEW k \in Nat, Ask(cmd, k)
  PROVE  StreamInv' /\ toPeer' \in Seq(Message) /\ requests' \in Nat
<1> DEFINE q == [cmd |-> cmd, req |-> requests + 1, n |-> k]
<1>1. /\ q \in Message /\ q.req = requests + 1 /\ toPeer' = Append(toPeer, q)
      /\ requests' = requests + 1 /\ requests' \in Nat /\ requests' >= requests
  BY Zenon, AskFacts
<1>2. q.req \in 1 .. requests'
  BY <1>1 DEF PeerTypes
<1> HIDE DEF q
<1>3. \A j \in To' : (j \in To /\ toPeer'[j] = toPeer[j]) \/ toPeer'[j].req \in 1 .. requests'
  BY Zenon, <1>1, <1>2, SendFacts
<1> QED
  BY Zenon, <1>1, <1>3, SendFacts, StreamKept

\* A call fails.
LEMMA ErrorStep ==
  ASSUME PeerInv, Return("error"), FromKept, UNCHANGED <<toPeer, item, got, requests>>,
         behind' \in BOOLEAN, behind => behind'
  PROVE  PeerInv'
<1> USE DEF PeerInv
<1>1. /\ call' = "none" /\ size' = 1 /\ awaited' = "none" /\ synced' = FALSE
      /\ status' = "new" => status = "new"
  BY Zenon DEF Return, Receive
<1>2. PeerTypes'
  <2>1. size' \in Nat
    BY <1>1
  <2>2. synced' \in BOOLEAN
    BY Zenon, <1>1
  <2> QED
    BY Zenon, <2>1, <2>2 DEF PeerTypes, FromKept
<1>3. StreamInv'
  <2>1. requests' \in Nat /\ requests' >= requests
    BY DEF PeerTypes
  <2>2. To' = To
    BY Zenon DEF To
  <2> QED
    BY Zenon, <2>1, <2>2, StreamKept
<1>4. CallInv'
  BY <1>1 DEF CallInv, Fetch, Call
<1>5. PongInv' /\ IdleInv' /\ FetchInv'
  BY <1>1 DEF PongInv, IdleInv, FetchInv, Fetch
<1>6. AnswersCurrent'
  BY Zenon DEF AnswersCurrent
<1> QED
  BY Zenon, <1>2, <1>3, <1>4, <1>5, <1>6

\* A handshake begins: connect_peer, or keep_alive after a ping that failed.
LEMMA HandshakeStep ==
  ASSUME PeerInv, Ask("version", 1), FromKept, UNCHANGED <<item, size, got, synced>>,
         got = <<>>, size = 1, call' \in {"connect", "handshake"},
         call' = "handshake" => status' # "new", behind' \in BOOLEAN
  PROVE  PeerInv'
<1> USE DEF PeerInv
<1>1. awaited' = "version" /\ requests' = requests + 1
  BY Zenon, AskFacts, AnswerFacts, 1 \in Nat
<1>2. PeerTypes' /\ StreamInv'
  BY Zenon, AskStream, AnswerFacts, 1 \in Nat DEF PeerTypes, FromKept
<1>3. CallInv'
  <2>1. requests' > 0
    BY <1>1 DEF PeerTypes
  <2> QED
    BY <1>1, <2>1 DEF CallInv, Fetch, Call
<1>4. PongInv' /\ IdleInv' /\ FetchInv'
  BY <1>1 DEF PongInv, IdleInv, FetchInv, Fetch
<1>5. AnswersCurrent'
  BY DEF AnswersCurrent
<1> QED
  BY Zenon, <1>2, <1>3, <1>4, <1>5

\* A receive fails: ReceiveFails, from a timeout or a message that does not decode.
LEMMA ReceiveFailsStep == ASSUME PeerInv, FromKept, ReceiveFails PROVE PeerInv'
<1> USE DEF PeerInv
<1>1. behind' \in BOOLEAN /\ (behind => behind') /\ UNCHANGED <<item, got>>
  BY Zenon DEF ReceiveFails, PeerTypes
<1>2. CASE call = "keep_alive" /\ open
  <2>1. call' = "handshake" /\ Ask("version", 1) /\ UNCHANGED <<status, size, synced>>
    BY Zenon, <1>2 DEF ReceiveFails
  <2>2. got = <<>> /\ size = 1 /\ status # "new"
    BY <1>2 DEF CallInv
  <2> QED
    BY <1>1, <2>1, <2>2, HandshakeStep
<1>3. CASE ~ (call = "keep_alive" /\ open)
  <2>1. Return("error") /\ UNCHANGED <<toPeer, requests>>
    BY Zenon, <1>3 DEF ReceiveFails
  <2> QED
    BY Zenon, <1>1, <2>1, ErrorStep
<1> QED
  BY Zenon, <1>2, <1>3

\* ConnectPeer
LEMMA ConnectStep == ASSUME PeerInv, ConnectPeer PROVE PeerInv'
<1> USE DEF PeerInv
<1>1. /\ status = "new" /\ call = "none"
      /\ UNCHANGED <<fromPeer, item, size, got, synced, behind>>
  BY Zenon DEF ConnectPeer
<1>2. got = <<>> /\ size = 1 /\ FromKept /\ behind' \in BOOLEAN
  BY Zenon, <1>1, SameKept DEF CallInv, PeerTypes
<1>3. CASE call' = "connect" /\ Ask("version", 1)
  BY <1>1, <1>2, <1>3, HandshakeStep
<1>4. CASE status' = "dead" /\ UNCHANGED <<call, requests, toPeer, awaited>>
  <2>1. From' = From /\ To' = To
    BY Zenon, <1>1, <1>4 DEF From, To
  <2>2. PeerTypes' /\ AnswersCurrent'
    BY Zenon, <1>1, <1>4 DEF PeerTypes, AnswersCurrent
  <2>3. CallInv'
    BY <1>1, <1>4 DEF CallInv, Fetch, Call
  <2>4. StreamInv'
    BY Zenon, <1>1, <1>4, <2>1 DEF StreamInv, IsAnswer, IsAsked, AnswerLen
  <2>5. PongInv' /\ IdleInv'
    BY Zenon, <1>1, <1>4, <2>1 DEF PongInv, IdleInv, IsAnswer, IsAsked
  <2>6. FetchInv'
    BY <1>1, <1>4 DEF FetchInv, Fetch
  <2> QED
    BY Zenon, <2>2, <2>3, <2>4, <2>5, <2>6
<1> QED
  BY Zenon, <1>3, <1>4 DEF ConnectPeer, receive_vars

\* KeepAlive: its ping is behind all that was sent before.
LEMMA KeepAliveStep == ASSUME PeerInv, KeepAlive PROVE PeerInv'
<1> USE DEF PeerInv
<1> DEFINE q == [cmd |-> "ping", req |-> requests + 1, n |-> 1]
<1>1. /\ status = "up" /\ call = "none" /\ call' = "keep_alive" /\ got' = <<>> /\ Ask("ping", 1)
      /\ UNCHANGED <<fromPeer, item, status, size, synced, behind>>
  BY Zenon DEF KeepAlive
<1>2. /\ q \in Message /\ q.cmd = "ping" /\ q.req = requests + 1 /\ q.n = 1
      /\ toPeer' = Append(toPeer, q) /\ awaited' = "pong" /\ requests' = requests + 1
  BY Zenon, <1>1, AskFacts, AnswerFacts, 1 \in Nat
<1> HIDE DEF q
<1>3. PeerTypes' /\ StreamInv'
  <2>1. FromKept /\ got' \in Seq(Message)
    BY <1>1, SameKept
  <2> QED
    BY Zenon, <1>1, <2>1, AskStream, AnswerFacts, 1 \in Nat DEF PeerTypes, FromKept
<1>4. CallInv'
  <2>1. requests' > 0 /\ size = 1
    BY <1>1, <1>2 DEF PeerTypes, CallInv
  <2> QED
    BY <1>1, <1>2, <2>1 DEF CallInv, Fetch, Call
<1>5. PongInv'
  <2>1. \A i \in From : fromPeer[i].req # requests'
    BY <1>2, FromTypes DEF StreamInv, PeerTypes
  <2>2. From' = From
    BY Zenon, <1>1 DEF From
  <2>3. \A j \in To : toPeer[j].req # requests'
    BY <1>2 DEF StreamInv, PeerTypes
  <2>4. \A j \in To' : toPeer'[j].req = requests' =>
          toPeer'[j].cmd = "ping" /\ toPeer'[j].n = 1 /\ j = Len(toPeer')
    BY Zenon, <1>2, <2>3, SendFacts
  <2> QED
    BY ZenonT(40), <1>1, <2>1, <2>2, <2>4 DEF PongInv
<1>6. IdleInv' /\ FetchInv'
  BY <1>1 DEF IdleInv, FetchInv, Fetch
<1>7. AnswersCurrent'
  BY <1>1 DEF AnswersCurrent
<1> QED
  BY Zenon, <1>3, <1>4, <1>5, <1>6, <1>7

\* FetchOrSend: nothing is left of an answer when a request is made.
LEMMA FetchStep ==
  ASSUME PeerInv, NEW c \in Fetch, NEW k \in Sizes(c), FetchOrSend(c, k)
  PROVE  PeerInv'
<1> USE DEF PeerInv
<1> DEFINE q == [cmd |-> Request(c), req |-> requests + 1, n |-> k]
<1>1. /\ status = "up" /\ call = "none" /\ synced /\ call' = c /\ size' = k /\ got' = <<>>
      /\ Ask(Request(c), k)
      /\ UNCHANGED <<fromPeer, item, status, synced, behind>>
  BY Zenon DEF FetchOrSend
<1>2. k \in Nat /\ k >= 1 /\ Request(c) \in Asked
  BY PeerAssumption, RequestFacts DEF PeerAssumption, Sizes
<1>3. /\ q \in Message /\ q.cmd = Request(c) /\ q.req = requests + 1 /\ q.n = k
      /\ toPeer' = Append(toPeer, q) /\ awaited' = Answer(Request(c)) /\ requests' = requests + 1
  BY Zenon, <1>1, <1>2, AskFacts
<1> HIDE DEF q
<1>4. PeerTypes' /\ StreamInv'
  <2>1. FromKept /\ got' \in Seq(Message)
    BY <1>1, SameKept
  <2> QED
    BY Zenon, <1>1, <1>2, <2>1, AskStream DEF PeerTypes, FromKept
<1>5. CallInv'
  BY SMTT(30), <1>1, <1>3 DEF CallInv, Fetch, Call, Sizes
<1>6. PongInv' /\ IdleInv'
  BY <1>1, <1>3, RequestFacts DEF PongInv, IdleInv, Fetch
<1>7. FetchInv'
  <2> SUFFICES ASSUME ~ behind PROVE FetchInv'
    BY Zenon, <1>1 DEF FetchInv
  <2>1. /\ \A i \in From : ~ IsAnswer(fromPeer[i])
        /\ \A j \in To : ~ IsAsked(toPeer[j])
    BY Zenon, <1>1 DEF IdleInv
  <2>2. From' = From /\ \A i \in From' : ~ IsAnswer(fromPeer'[i])
    BY Zenon, <1>1, <2>1 DEF From
  <2>3. InOrder'
    BY Zenon, <2>2 DEF InOrder, IsAnswer
  <2>4. Len(got') = 0 /\ Len(got') < size'
    BY <1>1, <1>2
  <2>5. ASSUME NEW j \in To', IsAsked(toPeer'[j])
        PROVE  /\ j = Len(toPeer')
               /\ toPeer'[j].cmd = Request(c) /\ toPeer'[j].req = requests' /\ toPeer'[j].n = k
    BY ZenonT(40), <1>3, <2>1, <2>5, SendFacts
  <2>6. ASSUME NEW j \in To', IsAsked(toPeer'[j]), j = 1 PROVE item' = Len(got') + 1
    <3>1. toPeer = <<>>
      BY <1>3, <2>5, <2>6, SendFacts DEF PeerTypes
    <3> QED
      BY <1>1, <2>4, <3>1 DEF StreamInv
  <2>7. ToCome'
    BY Zenon, <1>1, <2>2, <2>5, <2>6 DEF ToCome, IsAsked, IsAnswer
  <2>8. \A i \in 1 .. Len(got') : got'[i].req = requests' /\ got'[i].n = i
    BY <2>4
  <2> QED
    BY Zenon, <2>3, <2>4, <2>7, <2>8 DEF FetchInv
<1>8. AnswersCurrent'
  BY <1>1 DEF AnswersCurrent
<1> QED
  BY Zenon, <1>4, <1>5, <1>6, <1>7, <1>8

\* SendFails
LEMMA SendFailsStep == ASSUME PeerInv, SendFails PROVE PeerInv'
<1> USE DEF PeerInv
<1>1. /\ call = "none" /\ synced' = FALSE /\ got' = <<>> /\ status' # "new"
      /\ UNCHANGED <<toPeer, fromPeer, item, awaited, call, size, requests, behind>>
  BY DEF SendFails, stream_vars, receive_vars
<1>2. From' = From /\ To' = To
  BY Zenon, <1>1 DEF From, To
<1>3. PeerTypes'
  <2>1. got' \in Seq(Message)
    BY <1>1
  <2>2. synced' \in BOOLEAN
    BY Zenon, <1>1
  <2> QED
    BY Zenon, <1>1, <2>1, <2>2 DEF PeerTypes
<1>4. StreamInv'
  BY Zenon, <1>1, <1>2 DEF StreamInv, IsAnswer, IsAsked, AnswerLen
<1>5. CallInv'
  BY <1>1 DEF CallInv, Fetch, Call
<1>6. PongInv'
  BY ZenonT(40), <1>1, <1>2 DEF PongInv, IsAnswer, IsAsked
<1>7. IdleInv' /\ FetchInv'
  BY SMTT(30), <1>1 DEF IdleInv, FetchInv, Fetch
<1>8. AnswersCurrent'
  BY <1>1 DEF AnswersCurrent
<1> QED
  BY Zenon, <1>3, <1>4, <1>5, <1>6, <1>7, <1>8

-----------------------------------------------------------------------------
(* Answers *)

\* ReadPong: nothing of an answer is behind the pong.
LEMMA ReadPongStep == ASSUME PeerInv, NEW m, ReadPong(m) PROVE PeerInv'
<1> USE DEF PeerInv
<1>1. /\ Read(m) /\ awaited = "pong" /\ Return("ok")
      /\ behind' = (behind \/ ~ (m.cmd = "pong" /\ m.req = requests))
      /\ UNCHANGED <<toPeer, item, got, requests>>
  BY Zenon DEF ReadPong
<1>2. call \in {"connect", "keep_alive", "handshake"} /\ got = <<>> /\ size = 1
  BY Zenon, <1>1, PongAsked DEF CallInv
<1>3. call' = "none" /\ size' = 1 /\ awaited' = "none" /\ status' = "up"
  BY <1>1 DEF Return, Receive
<1>4. PeerTypes'
  <2>1. size' \in Nat
    BY <1>3
  <2>2. synced' \in BOOLEAN /\ behind' \in BOOLEAN
    BY Zenon, <1>1 DEF Return
  <2> QED
    BY Zenon, <1>1, <2>1, <2>2, ReadFacts DEF PeerTypes
<1>5. StreamInv'
  <2>1. requests' \in Nat /\ requests' >= requests
    BY <1>1 DEF PeerTypes
  <2>2. To' = To
    BY Zenon, <1>1 DEF To
  <2> QED
    BY Zenon, <1>1, <2>1, <2>2, ReadKept, StreamKept
<1>6. CallInv'
  BY SMTT(30), <1>1, <1>2, <1>3 DEF CallInv, Fetch, Call
<1>7. PongInv' /\ FetchInv'
  BY <1>3 DEF PongInv, FetchInv, Fetch
<1>8. IdleInv'
  <2> SUFFICES ASSUME ~ behind' PROVE IdleInv'
    BY Zenon DEF IdleInv
  <2>1. m = fromPeer[1] /\ 1 \in From /\ fromPeer[1].req = requests
    <3>1. m = fromPeer[1] /\ 1 \in From
      BY <1>1, ReadFacts DEF From
    <3> QED
      BY Zenon, <1>1, <3>1
  <2>2. /\ \A k \in From : k > 1 => ~ IsAnswer(fromPeer[k])
        /\ \A j \in To : ~ IsAsked(toPeer[j])
    BY Zenon, <1>1, <2>1 DEF PongInv
  <2>3. ASSUME NEW i \in From' PROVE ~ IsAnswer(fromPeer'[i])
    <3>1. i + 1 \in From /\ fromPeer'[i] = fromPeer[i + 1] /\ i + 1 > 1
      BY <1>1, ReadFacts
    <3> QED
      BY Zenon, <2>2, <3>1
  <2> QED
    BY Zenon, <1>1, <2>2, <2>3 DEF IdleInv, To, IsAnswer, IsAsked
<1>9. AnswersCurrent'
  BY <1>1, <1>2 DEF AnswersCurrent
<1> QED
  BY Zenon, <1>4, <1>5, <1>6, <1>7, <1>8, <1>9

\* ReadVersion
LEMMA ReadVersionStep == ASSUME PeerInv, NEW m, ReadVersion(m) PROVE PeerInv'
<1> USE DEF PeerInv
<1>1. /\ Read(m) /\ awaited = "version" /\ awaited' = "verack"
      /\ UNCHANGED <<toPeer, item, status, call, size, got, synced, requests, behind>>
  BY DEF ReadVersion, Receive, call_vars
<1>2. call \in {"connect", "handshake"}
  BY <1>1, RequestFacts DEF CallInv, Call
<1>3. PeerTypes'
  BY Zenon, <1>1, ReadFacts DEF PeerTypes
<1>4. StreamInv'
  <2>1. requests' \in Nat /\ requests' >= requests
    BY <1>1 DEF PeerTypes
  <2>2. To' = To
    BY Zenon, <1>1 DEF To
  <2> QED
    BY Zenon, <1>1, <2>1, <2>2, ReadKept, StreamKept
<1>5. CallInv'
  BY SMTT(30), <1>1, <1>2 DEF CallInv, Fetch, Call
<1>6. PongInv' /\ IdleInv' /\ FetchInv'
  BY <1>1, <1>2 DEF PongInv, IdleInv, FetchInv, Fetch
<1>7. AnswersCurrent'
  BY Zenon, <1>1 DEF AnswersCurrent
<1> QED
  BY Zenon, <1>3, <1>4, <1>5, <1>6, <1>7

\* Two messages are sent: the verack and the ping of a handshake.
LEMMA SendTwoFacts ==
  ASSUME PeerTypes, NEW p \in Message, NEW q \in Message, toPeer' = Append(Append(toPeer, p), q)
  PROVE  /\ toPeer' \in Seq(Message) /\ Len(toPeer') = Len(toPeer) + 2 /\ Len(toPeer) \in Nat
         /\ \A j \in To' : \/ j \in To /\ toPeer'[j] = toPeer[j]
                           \/ j = Len(toPeer) + 1 /\ toPeer'[j] = p
                           \/ j = Len(toPeer) + 2 /\ toPeer'[j] = q
         /\ toPeer' # <<>> /\ (toPeer # <<>> => toPeer'[1] = toPeer[1])
<1> DEFINE t == Append(toPeer, p)
<1>1. toPeer \in Seq(Message)
  BY DEF PeerTypes
<1>2. /\ t \in Seq(Message) /\ Len(toPeer) \in Nat /\ Len(t) = Len(toPeer) + 1
      /\ \A i \in 1 .. Len(toPeer) : t[i] = toPeer[i]
      /\ t[Len(toPeer) + 1] = p
  BY <1>1, AppendFacts
<1> HIDE DEF t
<1>3. toPeer' = Append(t, q)
  BY Zenon DEF t
<1>4. /\ toPeer' \in Seq(Message) /\ Len(toPeer') = Len(t) + 1
      /\ \A i \in 1 .. Len(t) : toPeer'[i] = t[i]
      /\ toPeer'[Len(t) + 1] = q
  BY <1>2, <1>3, AppendFacts
<1>5. Len(toPeer') = Len(toPeer) + 2 /\ To' = 1 .. Len(toPeer) + 2
  BY <1>2, <1>4 DEF To
<1>6. toPeer # <<>> => 1 \in 1 .. Len(toPeer)
  BY <1>1
<1>7. toPeer' # <<>>
  BY <1>2, <1>4
<1>8. toPeer # <<>> => toPeer'[1] = toPeer[1]
  BY <1>2, <1>4, <1>6
<1>9. \A j \in To' : \/ j \in To /\ toPeer'[j] = toPeer[j]
                     \/ j = Len(toPeer) + 1 /\ toPeer'[j] = p
                     \/ j = Len(toPeer) + 2 /\ toPeer'[j] = q
  BY <1>2, <1>4, <1>5 DEF To
<1> QED
  BY Zenon, <1>2, <1>4, <1>5, <1>7, <1>8, <1>9

\* ReadVerack: the ping of the handshake is behind all that was sent before.
LEMMA ReadVerackStep == ASSUME PeerInv, NEW m, ReadVerack(m) PROVE PeerInv'
<1> USE DEF PeerInv
<1>1. /\ Read(m) /\ awaited = "verack" /\ UNCHANGED <<item, got, behind>>
  BY Zenon DEF ReadVerack
<1>2. call \in {"connect", "handshake"}
  BY <1>1, RequestFacts DEF CallInv, Call
<1>3. CASE open
  <2> DEFINE p == [cmd |-> "verack", req |-> requests + 1, n |-> 1]
             q == [cmd |-> "ping", req |-> requests + 1, n |-> 1]
  <2>1. /\ requests' = requests + 1 /\ toPeer' = Append(Append(toPeer, p), q) /\ awaited' = "pong"
        /\ UNCHANGED <<status, call, size, synced>>
    BY <1>3 DEF ReadVerack, Receive
  <2>2. /\ p \in Message /\ p.req = requests + 1 /\ p.cmd = "verack"
        /\ q \in Message /\ q.req = requests + 1 /\ q.cmd = "ping" /\ q.n = 1
    BY AnswerFacts DEF Message, Command, PeerTypes
  <2>3. ~ IsAsked(p)
    BY <2>2, AnswerFacts DEF IsAsked
  <2> HIDE DEF p, q
  <2>4. requests' \in Nat /\ requests' >= requests /\ requests' > 0 /\ requests + 1 \in 1 .. requests'
    BY <2>1 DEF PeerTypes
  <2>5. PeerTypes'
    BY Zenon, <1>1, <2>1, <2>2, <2>4, ReadFacts, SendTwoFacts DEF PeerTypes
  <2>6. StreamInv'
    <3>1. \A j \in To' : (j \in To /\ toPeer'[j] = toPeer[j]) \/ toPeer'[j].req \in 1 .. requests'
      BY Zenon, <2>1, <2>2, <2>4, SendTwoFacts
    <3> QED
      BY Zenon, <1>1, <2>1, <2>2, <2>4, <3>1, SendTwoFacts, ReadKept, StreamKept
  <2>7. CallInv'
    BY <1>1, <1>2, <2>1, <2>4 DEF CallInv, Fetch, Call
  <2>8. PongInv'
    <3>1. \A i \in From : fromPeer[i].req # requests'
      BY <2>1, FromTypes DEF StreamInv, PeerTypes
    <3>2. \A i \in From' : fromPeer'[i].req # requests'
      BY Zenon, <1>1, <3>1, ReadKept DEF FromKept
    <3>3. \A j \in To : toPeer[j].req # requests'
      BY <2>1 DEF StreamInv, PeerTypes
    <3>4. \A j \in To' : toPeer'[j].req = requests' /\ IsAsked(toPeer'[j]) =>
            toPeer'[j].cmd = "ping" /\ toPeer'[j].n = 1 /\ j = Len(toPeer')
      BY Zenon, <2>1, <2>2, <2>3, <3>3, SendTwoFacts
    <3> QED
      BY Zenon, <3>2, <3>4 DEF PongInv, IsAsked
  <2>9. IdleInv' /\ FetchInv'
    BY <1>2, <2>1 DEF IdleInv, FetchInv, Fetch
  <2>10. AnswersCurrent'
    BY <1>1, <1>2 DEF AnswersCurrent, CallInv
  <2> QED
    BY Zenon, <2>5, <2>6, <2>7, <2>8, <2>9, <2>10
<1>4. CASE ~ open
  <2>1. Return("error") /\ UNCHANGED <<toPeer, requests>> /\ behind' \in BOOLEAN
    BY Zenon, <1>1, <1>4 DEF ReadVerack, PeerTypes
  <2> QED
    BY Zenon, <1>1, <2>1, ReadKept, ErrorStep
<1> QED
  BY Zenon, <1>3, <1>4

\* ReadWrong
LEMMA ReadWrongStep == ASSUME PeerInv, NEW m, ReadWrong(m) PROVE PeerInv'
<1>1. Read(m) /\ Return("error") /\ UNCHANGED <<toPeer, item, got, requests, behind>>
  BY Zenon DEF ReadWrong
<1>2. behind' \in BOOLEAN /\ FromKept
  BY Zenon, <1>1, ReadKept DEF PeerInv, PeerTypes
<1> QED
  BY Zenon, <1>1, <1>2, ErrorStep

\* The first message of the stream, when it is an answer, is the next one of the answer.
LEMMA NextOfAnswer ==
  ASSUME PeerInv, ~ behind, call \in Fetch, NEW m, Read(m), IsAnswer(m)
  PROVE  /\ m.req = requests /\ m.n = Len(got) + 1 /\ Len(got) + 1 <= size
         /\ \A i \in From' : IsAnswer(fromPeer'[i]) => fromPeer'[i].n > m.n
<1> USE DEF PeerInv
<1>1. m = fromPeer[1] /\ 1 \in From /\ (\A k \in From : ~ (k < 1)) /\ InOrder /\ Len(got) < size
  BY ReadFacts DEF From, FetchInv
<1>2. m.req = requests /\ m.n = Len(got) + 1
  BY Zenon, <1>1 DEF InOrder
<1>3. Len(got) + 1 <= size
  BY <1>1 DEF PeerTypes
<1>4. ASSUME NEW i \in From', IsAnswer(fromPeer'[i]) PROVE fromPeer'[i].n > m.n
  <2>1. i + 1 \in From /\ 1 < i + 1 /\ fromPeer'[i] = fromPeer[i + 1]
    BY ReadFacts
  <2>2. fromPeer[1].n < fromPeer[i + 1].n
    BY Zenon, <1>1, <1>4, <2>1 DEF InOrder
  <2> QED
    BY <1>1, <2>1, <2>2, FromTypes
<1> QED
  BY Zenon, <1>2, <1>3, <1>4

\* An answer is complete: nothing is left of it.
LEMMA NothingLeft ==
  ASSUME PeerInv, ~ behind, call \in Fetch, NEW m, Read(m), IsAnswer(m), Len(got) + 1 = size
  PROVE  /\ \A i \in From' : ~ IsAnswer(fromPeer'[i])
         /\ \A j \in To : ~ IsAsked(toPeer[j])
<1> USE DEF PeerInv
<1>1. m.n = size
  BY Zenon, NextOfAnswer
<1>2. InOrder /\ ToCome
  BY Zenon DEF FetchInv
<1>3. ASSUME NEW i \in From', IsAnswer(fromPeer'[i]) PROVE FALSE
  <2>1. i + 1 \in From /\ fromPeer'[i] = fromPeer[i + 1]
    BY Zenon, ReadFacts
  <2>2. fromPeer[i + 1].n \in Len(got) + 1 .. size
    BY Zenon, <1>2, <1>3, <2>1 DEF InOrder
  <2>3. fromPeer[i + 1].n > m.n
    BY Zenon, <1>3, <2>1, NextOfAnswer
  <2> QED
    BY <1>1, <2>2, <2>3 DEF PeerTypes
<1>4. ASSUME NEW j \in To, IsAsked(toPeer[j]) PROVE FALSE
  <2>1. m = fromPeer[1] /\ 1 \in From
    BY ReadFacts DEF From
  <2>2. /\ j = Len(toPeer) /\ toPeer[j].n = size /\ toPeer[j].cmd = Request(call)
        /\ j = 1 => fromPeer[1].n < item
        /\ j # 1 => ~ IsAnswer(fromPeer[1])
    BY Zenon, <1>2, <1>4, <2>1 DEF ToCome
  <2>3. j = 1 /\ size < item
    BY Zenon, <1>1, <2>1, <2>2
  <2>4. toPeer # <<>> /\ AnswerLen(toPeer[1]) = size
    <3>1. toPeer # <<>>
      BY <2>3 DEF To, PeerTypes
    <3>2. toPeer[1].cmd # "version" /\ toPeer[1].n = size
      <4>1. toPeer[1].cmd = Request(call) /\ toPeer[1].n = size
        BY <2>2, <2>3
      <4>2. Request(call) # "version"
        BY RequestFacts
      <4> QED
        BY <4>1, <4>2
    <3> QED
      BY Zenon, <3>1, <3>2 DEF AnswerLen
  <2>5. item = 1 \/ item <= size
    BY Zenon, <2>4 DEF StreamInv
  <2> QED
    BY <2>3, <2>5, NextOfAnswer DEF PeerTypes
<1> QED
  BY Zenon, <1>3, <1>4

\* The stream after the next message of an answer has been collected.
LEMMA CollectInOrder ==
  ASSUME PeerInv, ~ behind, call \in Fetch, NEW m, Read(m), IsAnswer(m),
         got' \in Seq(Message), Len(got') = Len(got) + 1,
         UNCHANGED <<toPeer, item, awaited, call, size, requests>>
  PROVE  InOrder' /\ ToCome'
<1> USE DEF PeerInv
<1>1. InOrder /\ ToCome /\ m = fromPeer[1] /\ 1 \in From /\ Len(got) \in Nat
  BY ReadFacts DEF FetchInv, From, PeerTypes
<1>2. m.n = Len(got) + 1
  BY Zenon, NextOfAnswer
<1>3. ASSUME NEW k \in From, k # 1 PROVE k - 1 \in From' /\ fromPeer'[k - 1] = fromPeer[k]
  BY <1>3, ReadFacts DEF From
<1>4. ASSUME NEW i \in From', IsAnswer(fromPeer'[i])
      PROVE  /\ fromPeer'[i].req = requests
             /\ fromPeer'[i].cmd \in {awaited, "notfound"}
             /\ fromPeer'[i].n \in Len(got') + 1 .. size
             /\ \/ fromPeer'[i].n = Len(got') + 1
                \/ \E k \in From' : k < i /\ IsAnswer(fromPeer'[k]) /\ fromPeer'[k].n + 1 = fromPeer'[i].n
  <2>1. i + 1 \in From /\ fromPeer'[i] = fromPeer[i + 1]
    BY Zenon, ReadFacts
  <2>2. /\ fromPeer[i + 1].req = requests
        /\ fromPeer[i + 1].cmd \in {awaited, "notfound"}
        /\ fromPeer[i + 1].n \in Len(got) + 1 .. size
        /\ \/ fromPeer[i + 1].n = Len(got) + 1
           \/ \E k \in From : k < i + 1 /\ IsAnswer(fromPeer[k]) /\ fromPeer[k].n + 1 = fromPeer[i + 1].n
    BY Zenon, <1>1, <1>4, <2>1 DEF InOrder
  <2>3. fromPeer[i + 1].n > m.n
    BY Zenon, <1>4, <2>1, NextOfAnswer
  <2>4. fromPeer[i + 1].n \in Len(got') + 1 .. size /\ fromPeer[i + 1].n # Len(got) + 1
    BY <1>1, <1>2, <2>2, <2>3 DEF PeerTypes
  <2>5. ASSUME NEW k \in From, k < i + 1, IsAnswer(fromPeer[k]), fromPeer[k].n + 1 = fromPeer[i + 1].n
        PROVE  \/ fromPeer'[i].n = Len(got') + 1
               \/ \E l \in From' : l < i /\ IsAnswer(fromPeer'[l]) /\ fromPeer'[l].n + 1 = fromPeer'[i].n
    <3>1. CASE k = 1
      BY Zenon, <1>1, <1>2, <2>1, <2>5, <3>1
    <3>2. CASE k # 1
      <4>1. k - 1 < i
        BY <2>5, ReadFacts DEF From
      <4> QED
        BY Zenon, <1>3, <2>1, <2>5, <3>2, <4>1
    <3> QED
      BY Zenon, <3>1, <3>2
  <2> QED
    BY Zenon, <2>1, <2>2, <2>4, <2>5
<1>5. ASSUME NEW i \in From', NEW k \in From', i < k, IsAnswer(fromPeer'[i]), IsAnswer(fromPeer'[k])
      PROVE  fromPeer'[i].n < fromPeer'[k].n
  <2>1. i + 1 < k + 1
    BY <1>5, ReadFacts
  <2> QED
    BY ZenonT(40), <1>1, <1>5, <2>1, ReadFacts DEF InOrder
<1>6. InOrder'
  BY Zenon, <1>4, <1>5 DEF InOrder, IsAnswer
<1>7. ASSUME NEW j \in To, IsAsked(toPeer[j])
      PROVE  /\ j = 1
             /\ \A i \in From' : IsAnswer(fromPeer'[i]) => fromPeer'[i].n < item
             /\ \/ item = Len(got') + 1
                \/ \E i \in From' : IsAnswer(fromPeer'[i]) /\ fromPeer'[i].n + 1 = item
  <2>1. j = 1
    BY Zenon, <1>1, <1>7 DEF ToCome
  <2>2. /\ \A i \in From : IsAnswer(fromPeer[i]) => fromPeer[i].n < item
        /\ \/ item = Len(got) + 1
           \/ \E i \in From : IsAnswer(fromPeer[i]) /\ fromPeer[i].n + 1 = item
    BY Zenon, <1>1, <1>7, <2>1 DEF ToCome
  <2>3. item # Len(got) + 1
    <3>1. fromPeer[1].n < item
      BY Zenon, <1>1, <2>2
    <3> QED
      BY <1>1, <1>2, <3>1
  <2>4. ASSUME NEW i \in From, IsAnswer(fromPeer[i]), fromPeer[i].n + 1 = item
        PROVE  \/ item = Len(got') + 1
               \/ \E l \in From' : IsAnswer(fromPeer'[l]) /\ fromPeer'[l].n + 1 = item
    <3>1. CASE i = 1
      BY Zenon, <1>1, <1>2, <2>4, <3>1
    <3>2. CASE i # 1
      BY Zenon, <1>3, <2>4, <3>2
    <3> QED
      BY Zenon, <3>1, <3>2
  <2>5. \A i \in From' : IsAnswer(fromPeer'[i]) => fromPeer'[i].n < item
    BY Zenon, <2>2, ReadFacts
  <2> QED
    BY Zenon, <2>1, <2>2, <2>3, <2>4, <2>5
<1>8. ToCome'
  BY Zenon, <1>1, <1>7 DEF ToCome, To, IsAsked, IsAnswer
<1> QED
  BY Zenon, <1>6, <1>8

\* An answer that is waited for is one, and is collected after those before it.
LEMMA CollectFacts ==
  ASSUME PeerInv, call \in Fetch, NEW m, Read(m), m.cmd = awaited, got' = Append(got, m)
  PROVE  /\ IsAnswer(m)
         /\ got' \in Seq(Message) /\ Len(got) \in Nat /\ Len(got') = Len(got) + 1
         /\ ~ behind => \A i \in 1 .. Len(got') : got'[i].req = requests /\ got'[i].n = i
         /\ ~ behind /\ LastAnswer(m) => Len(got) + 1 = size
<1> USE DEF PeerInv
<1>1. IsAnswer(m)
  <2>1. awaited \notin {"other", "bad"}
    BY RequestFacts DEF CallInv
  <2>2. m = fromPeer[1] /\ 1 \in From
    BY ReadFacts DEF From
  <2> QED
    BY Zenon, <2>1, <2>2 DEF StreamInv
<1>2. got \in Seq(Message) /\ m \in Message
  BY Zenon, ReadFacts DEF PeerTypes
<1>3. /\ got' \in Seq(Message) /\ Len(got) \in Nat /\ Len(got') = Len(got) + 1
      /\ \A i \in 1 .. Len(got) : got'[i] = got[i]
      /\ got'[Len(got) + 1] = m
  BY <1>2, AppendFacts
<1>4. ASSUME ~ behind
      PROVE  m.req = requests /\ m.n = Len(got) + 1 /\ Len(got) + 1 <= size
  BY Zenon, <1>1, <1>4, NextOfAnswer
<1>5. ASSUME ~ behind, NEW i \in 1 .. Len(got')
      PROVE  got'[i].req = requests /\ got'[i].n = i
  <2>1. CASE i \in 1 .. Len(got)
    BY Zenon, <1>3, <1>5, <2>1 DEF FetchInv
  <2>2. CASE i = Len(got) + 1
    BY <1>3, <1>4, <1>5, <2>2
  <2> QED
    BY <1>3, <2>1, <2>2
<1>6. ASSUME ~ behind, LastAnswer(m) PROVE Len(got) + 1 = size
  <2>1. Len(got) < size /\ size \in Sizes(call)
    BY Zenon, <1>6 DEF FetchInv, CallInv
  <2> QED
    BY <1>3, <1>4, <1>6, <2>1 DEF LastAnswer, Sizes, Fetch
<1> QED
  BY Zenon, <1>1, <1>3, <1>5, <1>6

\* ReadAnswer: the message is the next one of the answer, and the last one ends it.
LEMMA ReadAnswerStep == ASSUME PeerInv, NEW m, ReadAnswer(m) PROVE PeerInv'
<1> USE DEF PeerInv
<1>1. /\ Read(m) /\ call \in Fetch /\ m.cmd = awaited /\ got' = Append(got, m)
      /\ UNCHANGED <<toPeer, item, requests, behind>>
  BY Zenon DEF ReadAnswer
<1>2. got' \in Seq(Message) /\ Len(got) \in Nat /\ Len(got') = Len(got) + 1
  BY Zenon, <1>1, CollectFacts
<1>3. IsAnswer(m)
  BY Zenon, <1>1, CollectFacts
<1>4. StreamInv'
  <2>1. requests' \in Nat /\ requests' >= requests
    BY <1>1 DEF PeerTypes
  <2>2. To' = To
    BY Zenon, <1>1 DEF To
  <2> QED
    BY Zenon, <1>1, <2>1, <2>2, ReadKept, StreamKept
<1>5. ~ behind => \A i \in 1 .. Len(got') : got'[i].req = requests /\ got'[i].n = i
  BY Zenon, <1>1, CollectFacts
<1>6. AnswersCurrent'
  BY Zenon, <1>1, <1>5 DEF AnswersCurrent
<1>7. CASE LastAnswer(m)
  <2>1. Return("ok")
    BY Zenon, <1>7 DEF ReadAnswer
  <2>2. call' = "none" /\ size' = 1 /\ awaited' = "none" /\ status' = "up"
    BY <2>1 DEF Return, Receive
  <2>3. PeerTypes'
    <3>1. size' \in Nat
      BY <2>2
    <3>2. synced' \in BOOLEAN /\ behind' \in BOOLEAN
      BY Zenon, <1>1, <2>1 DEF Return, PeerTypes
    <3> QED
      BY Zenon, <1>1, <1>2, <3>1, <3>2, ReadFacts DEF PeerTypes
  <2>4. CallInv'
    BY <2>2 DEF CallInv, Fetch, Call
  <2>5. PongInv' /\ FetchInv'
    BY <2>2 DEF PongInv, FetchInv, Fetch
  <2>6. IdleInv'
    <3> SUFFICES ASSUME ~ behind PROVE IdleInv'
      BY Zenon, <1>1 DEF IdleInv
    <3>1. Len(got) + 1 = size
      BY Zenon, <1>1, <1>7, CollectFacts
    <3> QED
      BY Zenon, <1>1, <1>3, <3>1, NothingLeft DEF IdleInv, To, IsAnswer, IsAsked
  <2> QED
    BY Zenon, <1>4, <1>6, <2>3, <2>4, <2>5, <2>6
<1>8. CASE ~ LastAnswer(m)
  <2>1. UNCHANGED <<awaited, status, call, size, synced>>
    BY Zenon, <1>8 DEF ReadAnswer, Receive
  <2>2. PeerTypes'
    BY Zenon, <1>1, <1>2, <2>1, ReadFacts DEF PeerTypes
  <2>3. CallInv'
    <3>1. status # "new"
      BY SMTT(30), <1>1 DEF CallInv, Fetch
    <3> QED
      BY <1>1, <2>1, <3>1 DEF CallInv, Fetch, Sizes
  <2>4. PongInv' /\ IdleInv'
    BY <1>1, <2>1, RequestFacts DEF PongInv, IdleInv, CallInv, Fetch
  <2>5. FetchInv'
    <3> SUFFICES ASSUME ~ behind PROVE FetchInv'
      BY Zenon, <1>1 DEF FetchInv
    <3>1. Len(got') < size
      <4>1. m.n = Len(got) + 1 /\ Len(got) + 1 <= size
        BY Zenon, <1>1, <1>3, NextOfAnswer
      <4> QED
        BY <1>2, <1>8, <4>1 DEF LastAnswer, PeerTypes
    <3>2. InOrder' /\ ToCome'
      BY Zenon, <1>1, <1>2, <1>3, <2>1, CollectInOrder
    <3> QED
      BY Zenon, <1>1, <1>5, <2>1, <3>1, <3>2 DEF FetchInv
  <2> QED
    BY Zenon, <1>4, <1>6, <2>2, <2>3, <2>4, <2>5
<1> QED
  BY Zenon, <1>7, <1>8

\* ReadGetData: the transaction follows the request for it, and nothing answers it.
LEMMA ReadGetDataStep == ASSUME PeerInv, NEW m, ReadGetData(m) PROVE PeerInv'
<1> USE DEF PeerInv
<1>1. /\ Read(m) /\ call = "tx" /\ call \in Fetch /\ m.cmd = "getdata" /\ m.req = requests
      /\ UNCHANGED <<item, requests, behind>>
  BY DEF ReadGetData, Fetch
<1>2. CASE open
  <2> DEFINE q == [cmd |-> "tx", req |-> requests, n |-> 1]
  <2>1. toPeer' = Append(toPeer, q) /\ got' = <<m>> /\ Return("ok")
    BY Zenon, <1>2 DEF ReadGetData
  <2>2. call' = "none" /\ size' = 1 /\ awaited' = "none" /\ status' = "up"
    BY <2>1 DEF Return, Receive
  <2>3. IsAnswer(m)
    <3>1. m = fromPeer[1] /\ 1 \in From
      BY <1>1, ReadFacts DEF From
    <3>2. m.cmd \notin {"other", "bad"}
      BY <1>1
    <3> QED
      BY Zenon, <3>1, <3>2 DEF StreamInv
  <2>4. requests \in Nat /\ requests >= 1
    BY <1>1, <2>3 DEF IsAnswer, PeerTypes
  <2>5. q \in Message /\ q.req \in 1 .. requests /\ ~ IsAsked(q)
    BY <2>4 DEF Message, Command, IsAsked, Asked
  <2>6. m \in Message
    BY Zenon, <1>1, ReadFacts
  <2>7. got' \in Seq(Message) /\ Len(got') = 1 /\ got'[1] = m
    BY <2>1, <2>6
  <2> HIDE DEF q
  <2>8. PeerTypes'
    <3>1. size' \in Nat
      BY <2>2
    <3>2. synced' \in BOOLEAN /\ behind' \in BOOLEAN
      BY Zenon, <1>1, <2>1 DEF Return, PeerTypes
    <3>3. toPeer' \in Seq(Message)
      BY <2>1, <2>5 DEF PeerTypes
    <3> QED
      BY Zenon, <1>1, <2>7, <3>1, <3>2, <3>3, ReadFacts DEF PeerTypes
  <2>9. StreamInv'
    <3>1. \A j \in To' : (j \in To /\ toPeer'[j] = toPeer[j]) \/ toPeer'[j].req \in 1 .. requests'
      BY Zenon, <1>1, <2>1, <2>5, SendFacts
    <3>2. toPeer # <<>> => toPeer' # <<>> /\ toPeer'[1] = toPeer[1]
      BY Zenon, <2>1, <2>5, SendFacts
    <3>3. requests' \in Nat /\ requests' >= requests
      BY <1>1, <2>4
    <3> QED
      BY Zenon, <1>1, <3>1, <3>2, <3>3, ReadKept, StreamKept
  <2>10. CallInv'
    BY <2>2 DEF CallInv, Fetch, Call
  <2>11. PongInv' /\ FetchInv'
    BY <2>2 DEF PongInv, FetchInv, Fetch
  <2>12. AnswersCurrent'
    BY <1>1, <2>7 DEF AnswersCurrent
  <2>13. IdleInv'
    <3> SUFFICES ASSUME ~ behind PROVE IdleInv'
      BY Zenon, <1>1 DEF IdleInv
    <3>1. Len(got) + 1 = size
      BY <1>1 DEF FetchInv, CallInv, Sizes, Fetch, PeerTypes
    <3>2. \A j \in To' : ~ IsAsked(toPeer'[j])
      BY Zenon, <1>1, <2>1, <2>3, <2>5, <3>1, NothingLeft, SendFacts
    <3> QED
      BY Zenon, <1>1, <2>3, <3>1, <3>2, NothingLeft DEF IdleInv, IsAnswer, IsAsked
  <2> QED
    BY Zenon, <2>8, <2>9, <2>10, <2>11, <2>12, <2>13
<1>3. CASE ~ open
  <2>1. Return("error") /\ UNCHANGED <<toPeer, got>> /\ behind' \in BOOLEAN
    BY Zenon, <1>1, <1>3 DEF ReadGetData, PeerTypes
  <2> QED
    BY Zenon, <1>1, <2>1, ReadKept, ErrorStep
<1> QED
  BY Zenon, <1>2, <1>3

-----------------------------------------------------------------------------
(* The invariant *)

\* Every outcome of a read keeps the invariant.
LEMMA ReadStep == ASSUME PeerInv, ReadNext PROVE PeerInv'
<1>1. PICK m : \/ ReadOther(m) \/ ReadBad(m) \/ ReadPong(m) \/ ReadVersion(m)
               \/ ReadVerack(m) \/ ReadWrong(m) \/ ReadAnswer(m) \/ ReadGetData(m)
  BY Zenon DEF ReadNext
<1>2. CASE ReadBad(m)
  <2>1. Read(m) /\ ReceiveFails
    BY Zenon, <1>2 DEF ReadBad
  <2> QED
    BY Zenon, <2>1, ReadKept, ReceiveFailsStep DEF PeerInv
<1> QED
  BY Zenon, <1>1, <1>2, ReadOtherStep, ReadPongStep, ReadVersionStep, ReadVerackStep,
     ReadWrongStep, ReadAnswerStep, ReadGetDataStep

\* And so does every step.
LEMMA NextStep == ASSUME PeerInv, [PeerNext]_peer_vars PROVE PeerInv'
<1>1. CASE ConnectPeer
  BY Zenon, <1>1, ConnectStep
<1>2. CASE KeepAlive
  BY Zenon, <1>2, KeepAliveStep
<1>3. ASSUME NEW c \in Fetch, NEW k \in Sizes(c), FetchOrSend(c, k) PROVE PeerInv'
  BY Zenon, <1>3, FetchStep
<1>4. CASE SendFails
  BY Zenon, <1>4, SendFailsStep
<1>5. CASE EnterRead \/ ReadClosed \/ UNCHANGED peer_vars
  <2>1. UNCHANGED <<toPeer, fromPeer, item, awaited, status, call, size, got, synced, requests, behind>>
    BY Zenon, <1>5 DEF EnterRead, ReadClosed, peer_vars, stream_vars, receive_vars, call_vars
  <2> QED
    BY Zenon, <2>1, UnchangedStep
<1>6. CASE Timeout
  <2>1. fromPeer' = fromPeer /\ ReceiveFails
    BY Zenon, <1>6 DEF Timeout
  <2> QED
    BY Zenon, <2>1, SameKept, ReceiveFailsStep DEF PeerInv
<1>7. CASE ReadNext
  BY Zenon, <1>7, ReadStep
<1>8. CASE PeerAnswers \/ PeerIgnores \/ PeerCloses
  BY Zenon, <1>8, PeerAnswersStep, PeerIgnoresStep, PeerClosesStep
<1>9. ASSUME NEW cmd \in {"other", "bad"}, PeerSendsOther(cmd) PROVE PeerInv'
  BY Zenon, <1>9, PeerSendsOtherStep
<1> QED
  BY Zenon, <1>1, <1>2, <1>3, <1>4, <1>5, <1>6, <1>7, <1>8, <1>9 DEF PeerNext

\* PeerInv holds in every state of a connection, however many requests are made and
\* however long their answers are.
THEOREM PeerInvariance == PeerSpec => []PeerInv
<1>1. PeerInit => PeerInv
  BY Zenon, InitInv
<1>2. PeerInv /\ [PeerNext]_peer_vars => PeerInv'
  BY Zenon, NextStep
<1> QED
  BY <1>1, <1>2, PTL DEF PeerSpec

\* What the fetches of p2p.rs collect belongs to the last request, as long as every pong
\* was waited for.
THEOREM PeerAnswersCurrent == PeerSpec => []AnswersCurrent
<1>1. PeerInv => AnswersCurrent
  BY Zenon DEF PeerInv
<1> QED
  BY <1>1, PeerInvariance, PTL

-----------------------------------------------------------------------------
(* The refinement *)

\* A step that ends no call and makes no request is none of the service.
LEMMA ServiceStutter ==
  ASSUME UNCHANGED <<call, size, requests, result, behind>>,
         call = "none" => got' = got
  PROVE  UNCHANGED Service!service_vars
BY Zenon DEF Service!service_vars

\* Return("error")
LEMMA ServiceFails ==
  ASSUME Return("error"), requests' = requests, behind => behind'
  PROVE  Service!ServiceNext
BY DEF Service!ServiceNext, Service!Fail, Return

\* A request within a call: the handshake of keep_alive, and its ping.
LEMMA ServiceAsksAgain ==
  ASSUME call # "none", call' # "none", requests' = requests + 1, behind => behind',
         UNCHANGED <<size, result>>
  PROVE  Service!ServiceNext
BY DEF Service!ServiceNext, Service!Again

\* The first request of a call.
LEMMA ServiceBegins ==
  ASSUME call = "none", call' # "none", requests' = requests + 1,
         UNCHANGED <<result, behind>>
  PROVE  Service!ServiceNext
BY DEF Service!ServiceNext, Service!Begin

\* A receive that fails ends the call, or starts the handshake of keep_alive.
LEMMA ServiceReceiveFails == ASSUME ReceiveFails PROVE Service!ServiceNext
<1>1. behind => behind'
  BY Zenon DEF ReceiveFails
<1>2. CASE call = "keep_alive" /\ open
  <2>1. call' = "handshake" /\ requests' = requests + 1 /\ UNCHANGED <<size, result>>
    BY <1>2 DEF ReceiveFails, Ask
  <2>2. call # "none" /\ call' # "none"
    BY <1>2, <2>1
  <2> QED
    BY Zenon, <1>1, <2>1, <2>2, ServiceAsksAgain
<1>3. CASE ~ (call = "keep_alive" /\ open)
  <2>1. Return("error") /\ requests' = requests
    BY Zenon, <1>3 DEF ReceiveFails
  <2> QED
    BY Zenon, <1>1, <2>1, ServiceFails
<1> QED
  BY Zenon, <1>2, <1>3

\* A fetch returns: its answer is complete, unless the connection has lost its place.
LEMMA ServiceSucceeds ==
  ASSUME call \in Fetch, Return("ok"), UNCHANGED <<requests, behind>>,
         ~ behind => /\ Len(got') = size
                     /\ \A i \in 1 .. Len(got') : got'[i].req = requests /\ got'[i].n = i
  PROVE  Service!ServiceNext
<1>1. call' = "none" /\ result' = "ok" /\ size' = 1
  BY Zenon DEF Return
<1>2. call \notin {"connect", "keep_alive", "handshake"}
  BY DEF Fetch
<1>3. behind' \/ Service!Complete(got', size)
  BY Zenon DEF Service!Complete
<1>4. Service!Succeed
  BY Zenon, <1>1, <1>2, <1>3 DEF Service!Succeed
<1> QED
  BY Zenon, <1>4 DEF Service!ServiceNext

\* A message is read.
LEMMA ServiceRead ==
  ASSUME PeerInv, ReadNext PROVE Service!ServiceNext \/ UNCHANGED Service!service_vars
<1> USE DEF PeerInv
<1>1. PICK m : \/ ReadOther(m) \/ ReadBad(m) \/ ReadPong(m) \/ ReadVersion(m)
               \/ ReadVerack(m) \/ ReadWrong(m) \/ ReadAnswer(m) \/ ReadGetData(m)
  BY Zenon DEF ReadNext
<1>2. CASE ReadOther(m) \/ ReadVersion(m)
  <2>1. UNCHANGED <<call, size, got, requests, result, behind>>
    BY Zenon, <1>2 DEF ReadOther, ReadVersion, call_vars
  <2> QED
    BY Zenon, <2>1, ServiceStutter
<1>3. CASE ReadBad(m)
  BY Zenon, <1>3, ServiceReceiveFails DEF ReadBad
<1>4. CASE ReadPong(m)
  <2>1. /\ call' = "none" /\ result' = "ok" /\ size' = 1 /\ requests' = requests
        /\ got' = got /\ (behind => behind')
    BY Zenon, <1>4 DEF ReadPong, Return
  <2>2. call \in {"connect", "keep_alive", "handshake"}
    <3>1. awaited = "pong"
      BY Zenon, <1>4 DEF ReadPong
    <3>2. call # "none" /\ call \notin Fetch /\ (call = "none" \/ call \in Call)
      BY <3>1, RequestFacts DEF CallInv
    <3> QED
      BY Zenon, <3>2 DEF Call
  <2>3. got = <<>>
    BY Zenon, <2>2 DEF CallInv
  <2>4. Service!Succeed
    BY Zenon, <2>1, <2>2, <2>3 DEF Service!Succeed
  <2> QED
    BY Zenon, <2>4 DEF Service!ServiceNext
<1>5. CASE ReadVerack(m)
  <2>1. CASE open
    <3>1. requests' = requests + 1 /\ UNCHANGED <<call, size, result, behind>> /\ awaited = "verack"
      BY Zenon, <1>5, <2>1 DEF ReadVerack
    <3>2. call # "none" /\ call' # "none"
      BY <3>1 DEF CallInv
    <3> QED
      BY Zenon, <3>1, <3>2, ServiceAsksAgain
  <2>2. CASE ~ open
    BY Zenon, <1>5, <2>2, ServiceFails DEF ReadVerack
  <2> QED
    BY Zenon, <2>1, <2>2
<1>6. CASE ReadWrong(m)
  BY Zenon, <1>6, ServiceFails DEF ReadWrong
<1>7. CASE ReadAnswer(m)
  <2>1. /\ Read(m) /\ call \in Fetch /\ m.cmd = awaited /\ got' = Append(got, m)
        /\ UNCHANGED <<requests, behind>>
    BY Zenon, <1>7 DEF ReadAnswer
  <2>2. CASE LastAnswer(m)
    <3>1. Return("ok")
      BY Zenon, <1>7, <2>2 DEF ReadAnswer
    <3>2. ~ behind => /\ Len(got') = size
                      /\ \A i \in 1 .. Len(got') : got'[i].req = requests /\ got'[i].n = i
      BY Zenon, <2>1, <2>2, CollectFacts
    <3> QED
      BY Zenon, <2>1, <3>1, <3>2, ServiceSucceeds
  <2>3. CASE ~ LastAnswer(m)
    <3>1. UNCHANGED <<call, size, result>>
      BY Zenon, <1>7, <2>3 DEF ReadAnswer
    <3>2. call # "none"
      BY <2>1 DEF Fetch
    <3> QED
      BY Zenon, <2>1, <3>1, <3>2, ServiceStutter
  <2> QED
    BY Zenon, <2>2, <2>3
<1>8. CASE ReadGetData(m)
  <2>1. /\ Read(m) /\ call = "tx" /\ m.cmd = "getdata" /\ m.req = requests
        /\ UNCHANGED <<requests, behind>>
    BY Zenon, <1>8 DEF ReadGetData
  <2>2. CASE open
    <3>1. got' = <<m>> /\ Return("ok")
      BY Zenon, <1>8, <2>2 DEF ReadGetData
    <3>2. call \in Fetch /\ size = 1
      BY <2>1 DEF Fetch, CallInv, Sizes
    <3>3. m.n = 1 \/ behind
      <4>1. 1 \in From /\ m = fromPeer[1] /\ m.cmd \notin {"other", "bad"}
        BY <2>1, ReadFacts DEF From
      <4>2. IsAnswer(m)
        BY Zenon, <4>1 DEF StreamInv
      <4>3. ~ behind => m.n = Len(got) + 1 /\ Len(got) + 1 <= size
        BY Zenon, <2>1, <3>2, <4>2, NextOfAnswer
      <4> QED
        BY <3>2, <4>3 DEF PeerTypes
    <3>4. ~ behind => /\ Len(got') = size
                      /\ \A i \in 1 .. Len(got') : got'[i].req = requests /\ got'[i].n = i
      BY <2>1, <3>1, <3>2, <3>3
    <3> QED
      BY Zenon, <2>1, <3>1, <3>2, <3>4, ServiceSucceeds
  <2>3. CASE ~ open
    <3>1. Return("error") /\ requests' = requests /\ (behind => behind')
      BY Zenon, <1>8, <2>3 DEF ReadGetData
    <3> QED
      BY Zenon, <3>1, ServiceFails
  <2> QED
    BY Zenon, <2>2, <2>3
<1> QED
  BY Zenon, <1>1, <1>2, <1>3, <1>4, <1>5, <1>6, <1>7, <1>8

\* Every step of the connection is a step of the service, or none.
LEMMA ServiceStep ==
  ASSUME PeerInv, [PeerNext]_peer_vars
  PROVE  Service!ServiceNext \/ UNCHANGED Service!service_vars
<1> USE DEF PeerInv
<1>1. CASE ConnectPeer
  <2>1. CASE open' = TRUE /\ call' = "connect" /\ Ask("version", 1)
    <3>1. call = "none" /\ call' # "none" /\ requests' = requests + 1 /\ UNCHANGED <<result, behind>>
      BY <1>1, <2>1 DEF ConnectPeer, Ask
    <3> QED
      BY ZenonT(40), <3>1, ServiceBegins
  <2>2. CASE UNCHANGED <<call, requests>>
    <3>1. UNCHANGED <<call, size, got, requests, result, behind>>
      BY Zenon, <1>1, <2>2 DEF ConnectPeer
    <3> QED
      BY Zenon, <3>1, ServiceStutter
  <2> QED
    BY Zenon, <1>1, <2>1, <2>2 DEF ConnectPeer
<1>2. CASE KeepAlive
  <2>1. call = "none" /\ call' # "none" /\ requests' = requests + 1 /\ UNCHANGED <<result, behind>>
    BY <1>2 DEF KeepAlive, Ask
  <2> QED
    BY Zenon, <2>1, ServiceBegins
<1>3. ASSUME NEW c \in Fetch, NEW k \in Sizes(c), FetchOrSend(c, k) PROVE Service!ServiceNext
  <2>1. call = "none" /\ call' # "none" /\ requests' = requests + 1 /\ UNCHANGED <<result, behind>>
    BY <1>3 DEF FetchOrSend, Ask, Fetch
  <2> QED
    BY Zenon, <2>1, ServiceBegins
<1>4. CASE SendFails
  <2>1. call' = "none" /\ result' = "error" /\ size' = 1 /\ UNCHANGED <<requests, behind>>
    BY Zenon, <1>4 DEF SendFails, CallInv
  <2> QED
    BY Zenon, <2>1 DEF Service!ServiceNext, Service!Fail
<1>5. CASE EnterRead \/ ReadClosed \/ UNCHANGED peer_vars
  <2>1. UNCHANGED <<call, size, got, requests, result, behind>>
    BY Zenon, <1>5 DEF EnterRead, ReadClosed, peer_vars, call_vars
  <2> QED
    BY Zenon, <2>1, ServiceStutter
<1>6. CASE Timeout
  BY Zenon, <1>6, ServiceReceiveFails DEF Timeout
<1>7. CASE ReadNext
  BY Zenon, <1>7, ServiceRead
<1>8. CASE PeerAnswers \/ PeerIgnores \/ PeerCloses \/ \E cmd \in {"other", "bad"} : PeerSendsOther(cmd)
  <2>1. UNCHANGED <<call, size, got, requests, result, behind>>
    BY Zenon, <1>8 DEF PeerAnswers, PeerIgnores, PeerCloses, PeerSendsOther, call_vars
  <2> QED
    BY Zenon, <2>1, ServiceStutter
<1> QED
  BY Zenon, <1>1, <1>2, <1>3, <1>4, <1>5, <1>6, <1>7, <1>8 DEF PeerNext

\* The connection implements what chain.rs relies on: a call of p2p.rs ends with the
\* complete answer to it, in order, or with an error, as long as every pong was waited for.
THEOREM PeerImplementsService == PeerSpec => ImplementsService
<1>1. PeerInit => Service!ServiceInit
  BY DEF PeerInit, Service!ServiceInit
<1>2. PeerInv /\ [PeerNext]_peer_vars => [Service!ServiceNext]_(Service!service_vars)
  BY Zenon, ServiceStep
<1> QED
  BY <1>1, <1>2, PeerInvariance, PTL DEF PeerSpec, ImplementsService, Service!ServiceSpec

-----------------------------------------------------------------------------
(* Types and bounds *)

\* A request is sent: it is a message, and its answer is one to wait for.
LEMMA AskTypes ==
  ASSUME PeerTypeOK, NEW cmd \in Asked, NEW n \in 1 .. MaxSize, requests + 1 <= MaxRequests, Ask(cmd, n)
  PROVE  /\ toPeer' \in Seq(Msg) /\ requests' = requests + 1 /\ requests' \in 0 .. MaxRequests
         /\ awaited' = Answer(cmd) /\ awaited' \in {"none", "verack"} \cup {Answer(c) : c \in Asked}
         /\ reading' \in BOOLEAN
<1>1. [cmd |-> cmd, req |-> requests + 1, n |-> n] \in Msg
  BY PeerAssumption, AnswerFacts DEF PeerTypeOK, Msg
<1>2. toPeer' \in Seq(Msg)
  BY ZenonT(40), <1>1, AppendFacts DEF Ask, PeerTypeOK
<1>3. awaited' = Answer(cmd) /\ reading' = FALSE /\ requests' = requests + 1
  BY Zenon DEF Ask, Receive
<1>4. requests' \in 0 .. MaxRequests
  BY <1>3, PeerAssumption DEF PeerTypeOK
<1>5. awaited' \in {Answer(c) : c \in Asked}
  BY Zenon, <1>3
<1> QED
  BY Zenon, <1>2, <1>3, <1>4, <1>5

\* A message leaves the stream.
LEMMA ReadTypes ==
  ASSUME PeerTypeOK, NEW m, Read(m)
  PROVE  m \in Msg /\ fromPeer' \in Seq(Msg)
BY TailFacts DEF Read, PeerTypeOK

\* A call returns.
LEMMA ReturnTypes ==
  ASSUME PeerTypeOK, NEW r \in {"ok", "error"}, Return(r)
  PROVE  /\ status' \in {"new", "up", "dead"} /\ reading' \in BOOLEAN /\ synced' \in BOOLEAN
         /\ call' = "none" /\ size' \in 1 .. MaxSize /\ result' \in {"ok", "error"}
         /\ awaited' \in {"none", "verack"} \cup {Answer(c) : c \in Asked}
<1>1. call' = "none" /\ size' = 1 /\ result' = r /\ awaited' = "none" /\ reading' = FALSE
  BY Zenon DEF Return, Receive
<1>2. synced' \in BOOLEAN
  BY Zenon DEF Return
<1>3. status' \in {"new", "up", "dead"}
  BY Zenon DEF Return, PeerTypeOK
<1>4. 1 \in 1 .. MaxSize
  BY PeerAssumption
<1> QED
  BY Zenon, <1>1, <1>2, <1>3, <1>4

\* A receive fails, within the requests that its call has reserved.
LEMMA ReceiveFailsTypes ==
  ASSUME PeerInv, BoundsInv, fromPeer' \in Seq(Msg), ReceiveFails
  PROVE  BoundsInv'
<1>1. /\ open' = open /\ item' = item /\ others' = others /\ got' = got
      /\ behind' \in BOOLEAN
  BY Zenon DEF ReceiveFails
<1>2. CASE call = "keep_alive" /\ open
  <2>1. call' = "handshake" /\ Ask("version", 1) /\ UNCHANGED <<status, size, result, synced>>
    BY Zenon, <1>2 DEF ReceiveFails
  <2>2. requests \in Nat /\ requests + 2 <= MaxRequests
    BY <1>2 DEF BoundsInv, Reserved, PeerTypeOK
  <2>3. /\ toPeer' \in Seq(Msg) /\ requests' = requests + 1 /\ requests' \in 0 .. MaxRequests
        /\ awaited' = Answer("version") /\ awaited' \in {"none", "verack"} \cup {Answer(c) : c \in Asked}
        /\ reading' \in BOOLEAN
    BY <2>1, <2>2, AskTypes, AnswerFacts, PeerAssumption DEF BoundsInv
  <2>4. requests' + Reserved' <= MaxRequests
    BY <2>1, <2>2, <2>3, PeerAssumption DEF Reserved
  <2> QED
    BY Zenon, <1>1, <2>1, <2>3, <2>4 DEF BoundsInv, PeerTypeOK, Call
<1>3. CASE ~(call = "keep_alive" /\ open)
  <2>1. Return("error") /\ UNCHANGED <<toPeer, requests>>
    BY Zenon, <1>3 DEF ReceiveFails
  <2>2. /\ status' \in {"new", "up", "dead"} /\ reading' \in BOOLEAN /\ synced' \in BOOLEAN
        /\ call' = "none" /\ size' \in 1 .. MaxSize /\ result' \in {"ok", "error"}
        /\ awaited' \in {"none", "verack"} \cup {Answer(c) : c \in Asked}
    BY Zenon, <2>1, ReturnTypes DEF BoundsInv
  <2>3. requests' + Reserved' <= MaxRequests
    BY <2>1, <2>2, PeerAssumption DEF Reserved, BoundsInv, PeerTypeOK
  <2> QED
    BY Zenon, <1>1, <2>1, <2>2, <2>3 DEF BoundsInv, PeerTypeOK
<1> QED
  BY Zenon, <1>2, <1>3

\* The steps of a read.
LEMMA ReadBounds == ASSUME PeerInv, BoundsInv, ReadNext PROVE BoundsInv'
<1>1. PICK m : \/ ReadOther(m) \/ ReadBad(m) \/ ReadPong(m) \/ ReadVersion(m)
               \/ ReadVerack(m) \/ ReadWrong(m) \/ ReadAnswer(m) \/ ReadGetData(m)
  BY Zenon DEF ReadNext
<1>2. Read(m)
  BY Zenon, <1>1 DEF ReadOther, ReadBad, ReadPong, ReadVersion, ReadVerack, ReadWrong, ReadAnswer, ReadGetData
<1>3. m \in Msg /\ fromPeer' \in Seq(Msg)
  BY Zenon, <1>2, ReadTypes DEF BoundsInv
<1>4. CASE ReadOther(m)
  BY ZenonT(40), <1>3, <1>4 DEF ReadOther, BoundsInv, PeerTypeOK, Reserved, call_vars
<1>5. CASE ReadBad(m)
  BY Zenon, <1>3, <1>5, ReceiveFailsTypes DEF ReadBad
<1>6. ASSUME NEW r \in {"ok", "error"}, Return(r), UNCHANGED <<open, item, others, requests>>,
             toPeer' \in Seq(Msg), got' \in Seq(Msg), behind' \in BOOLEAN
      PROVE  BoundsInv'
  <2>1. /\ status' \in {"new", "up", "dead"} /\ reading' \in BOOLEAN /\ synced' \in BOOLEAN
        /\ call' = "none" /\ size' \in 1 .. MaxSize /\ result' \in {"ok", "error"}
        /\ awaited' \in {"none", "verack"} \cup {Answer(c) : c \in Asked}
    BY Zenon, <1>6, ReturnTypes DEF BoundsInv
  <2>2. requests' + Reserved' <= MaxRequests
    BY <1>6, <2>1, PeerAssumption DEF Reserved, BoundsInv, PeerTypeOK
  <2> QED
    BY Zenon, <1>3, <1>6, <2>1, <2>2 DEF BoundsInv, PeerTypeOK
<1>7. CASE ReadPong(m)
  <2>1. /\ Return("ok") /\ UNCHANGED <<open, item, others, requests>>
        /\ toPeer' = toPeer /\ got' = got /\ behind' \in BOOLEAN
    BY Zenon, <1>7 DEF ReadPong
  <2> QED
    BY Zenon, <1>6, <2>1 DEF BoundsInv, PeerTypeOK
<1>8. CASE ReadVersion(m)
  <2>1. Reserved' = Reserved /\ awaited' = "verack" /\ reading' = FALSE
    BY Zenon, <1>8 DEF ReadVersion, Receive, Reserved, call_vars
  <2> QED
    BY Zenon, <1>3, <1>8, <2>1 DEF ReadVersion, BoundsInv, PeerTypeOK, call_vars
<1>9. CASE ReadVerack(m)
  <2>1. awaited = "verack" /\ UNCHANGED <<open, item, others, got, behind>>
    BY Zenon, <1>9 DEF ReadVerack
  <2>2. CASE ~open
    BY Zenon, <1>6, <1>9, <2>1, <2>2 DEF ReadVerack, BoundsInv, PeerTypeOK
  <2>3. CASE open
    <3>1. call \in {"connect", "handshake"}
      BY ZenonT(40), <2>1, RequestFacts DEF PeerInv, CallInv, Call
    <3>2. requests \in Nat /\ requests + 1 <= MaxRequests /\ MaxRequests \in Nat /\ MaxSize \in Nat \ {0}
      BY <2>1, <3>1, PeerAssumption DEF BoundsInv, Reserved, PeerTypeOK
    <3>3. /\ [cmd |-> "verack", req |-> requests + 1, n |-> 1] \in Msg
          /\ [cmd |-> "ping", req |-> requests + 1, n |-> 1] \in Msg
      BY <3>2 DEF Msg, Command, Asked
    <3>4. toPeer' \in Seq(Msg)
      <4>1. toPeer \in Seq(Msg)
        BY Zenon DEF BoundsInv, PeerTypeOK
      <4>2. toPeer' = Append(Append(toPeer, [cmd |-> "verack", req |-> requests + 1, n |-> 1]),
                             [cmd |-> "ping", req |-> requests + 1, n |-> 1])
        BY Zenon, <1>9, <2>3 DEF ReadVerack
      <4> QED
        BY Zenon, <3>3, <4>1, <4>2, AppendFacts
    <3>5. /\ requests' = requests + 1 /\ awaited' = "pong" /\ reading' = FALSE
          /\ UNCHANGED <<status, call, size, result, synced>>
      BY Zenon, <1>9, <2>3 DEF ReadVerack, Receive
    <3>6. requests' + Reserved' <= MaxRequests /\ requests' \in 0 .. MaxRequests
      BY <3>1, <3>2, <3>5 DEF Reserved
    <3>7. awaited' \in {Answer(c) : c \in Asked}
      BY Zenon, <3>5, AnswerFacts
    <3> QED
      BY ZenonT(40), <1>3, <2>1, <3>4, <3>5, <3>6, <3>7 DEF BoundsInv, PeerTypeOK
  <2> QED
    BY Zenon, <2>2, <2>3
<1>10. CASE ReadWrong(m)
  BY Zenon, <1>6, <1>10 DEF ReadWrong, BoundsInv, PeerTypeOK
<1>11. CASE ReadAnswer(m)
  <2>1. got' \in Seq(Msg) /\ UNCHANGED <<open, toPeer, item, others, requests, behind>>
    BY Zenon, <1>3, <1>11, AppendFacts DEF ReadAnswer, BoundsInv, PeerTypeOK
  <2>2. CASE LastAnswer(m)
    BY Zenon, <1>6, <1>11, <2>1, <2>2 DEF ReadAnswer, BoundsInv, PeerTypeOK
  <2>3. CASE ~ LastAnswer(m)
    <3>1. awaited' = awaited /\ reading' = FALSE /\ UNCHANGED <<status, call, size, result, synced>>
      BY Zenon, <1>11, <2>3 DEF ReadAnswer, Receive
    <3>2. Reserved' = Reserved
      BY Zenon, <3>1 DEF Reserved
    <3> QED
      BY Zenon, <1>3, <2>1, <3>1, <3>2 DEF BoundsInv, PeerTypeOK
  <2> QED
    BY Zenon, <2>2, <2>3
<1>12. CASE ReadGetData(m)
  <2>1. [cmd |-> "tx", req |-> requests, n |-> 1] \in Msg /\ <<m>> \in Seq(Msg)
    BY <1>3, PeerAssumption DEF BoundsInv, PeerTypeOK, Msg, Command
  <2>2. toPeer' \in Seq(Msg) /\ got' \in Seq(Msg) /\ UNCHANGED <<open, item, others, requests, behind>>
    <3>1. toPeer \in Seq(Msg) /\ got \in Seq(Msg)
      BY Zenon DEF BoundsInv, PeerTypeOK
    <3>2. Append(toPeer, [cmd |-> "tx", req |-> requests, n |-> 1]) \in Seq(Msg)
      BY Zenon, <2>1, <3>1, AppendFacts
    <3> QED
      BY Zenon, <1>12, <2>1, <3>1, <3>2 DEF ReadGetData
  <2> QED
    BY ZenonT(40), <1>6, <1>12, <2>2 DEF ReadGetData, BoundsInv, PeerTypeOK
<1> QED
  BY Zenon, <1>1, <1>4, <1>5, <1>7, <1>8, <1>9, <1>10, <1>11, <1>12

\* The steps of the peer.
LEMMA AnswerBounds == ASSUME PeerInv, BoundsInv, PeerAnswers \/ PeerIgnores PROVE BoundsInv'
<1> DEFINE q == Head(toPeer)
<1>1. /\ toPeer \in Seq(Msg) /\ toPeer # <<>> /\ fromPeer \in Seq(Msg)
      /\ item \in 1 .. MaxSize + 1 /\ MaxSize \in Nat \ {0}
      /\ UNCHANGED <<open, others, awaited, reading, status, call, size, got, result, synced, requests, behind>>
  BY Zenon, PeerAssumption DEF BoundsInv, PeerTypeOK, PeerAnswers, PeerIgnores, receive_vars, call_vars
<1>2. q \in Msg /\ Tail(toPeer) \in Seq(Msg)
  BY <1>1, TailFacts
<1>3. fromPeer' \in Seq(Msg) /\ item' \in 1 .. MaxSize + 1 /\ toPeer' \in Seq(Msg)
  <2>1. CASE PeerAnswers
    <3>1. AnswerCmd(q, item) \in Command
      BY ZenonT(40), <2>1, AnswerFacts DEF PeerAnswers, AnswerCmd, Command
    <3>2. [cmd |-> AnswerCmd(q, item), req |-> q.req, n |-> item] \in Msg
      BY <1>1, <1>2, <3>1 DEF Msg
    <3>3. fromPeer' \in Seq(Msg)
      BY ZenonT(40), <1>1, <2>1, <3>2, AppendFacts DEF PeerAnswers
    <3>4. AnswerLen(q) \in Nat /\ AnswerLen(q) <= MaxSize + 1
      BY <1>1, <1>2 DEF AnswerLen, Msg
    <3>5. item' \in 1 .. MaxSize + 1 /\ toPeer' \in Seq(Msg)
      <4>1. \/ item < AnswerLen(q) /\ item' = item + 1 /\ toPeer' = toPeer
            \/ item' = 1 /\ toPeer' = Tail(toPeer)
        BY Zenon, <2>1 DEF PeerAnswers
      <4>2. item' \in 1 .. MaxSize + 1
        BY <1>1, <3>4, <4>1
      <4> QED
        BY Zenon, <1>1, <1>2, <4>1, <4>2
    <3> QED
      BY Zenon, <3>3, <3>5
  <2>2. CASE PeerIgnores
    <3>1. [cmd |-> "notfound", req |-> q.req, n |-> item] \in Msg
      BY <1>1, <1>2 DEF Msg, Command
    <3>2. Append(fromPeer, [cmd |-> "notfound", req |-> q.req, n |-> item]) \in Seq(Msg)
      BY Zenon, <1>1, <3>1, AppendFacts
    <3>3. fromPeer' = fromPeer \/ fromPeer' = Append(fromPeer, [cmd |-> "notfound", req |-> q.req, n |-> item])
      BY Zenon, <2>2 DEF PeerIgnores
    <3>4. item' = 1 /\ toPeer' = Tail(toPeer)
      BY Zenon, <2>2 DEF PeerIgnores
    <3>5. 1 \in 1 .. MaxSize + 1
      BY <1>1
    <3> QED
      BY ZenonT(40), <1>1, <1>2, <3>2, <3>3, <3>4, <3>5
  <2> QED
    BY Zenon, <2>1, <2>2
<1>4. Reserved' = Reserved
  BY Zenon, <1>1 DEF Reserved
<1> QED
  BY ZenonT(40), <1>1, <1>3, <1>4 DEF BoundsInv, PeerTypeOK

\* Every step keeps the types and the room for requests.
LEMMA NextBounds == ASSUME PeerInv, BoundsInv, [PeerNext]_peer_vars PROVE BoundsInv'
<1>0. /\ requests \in Nat /\ MaxRequests \in Nat /\ MaxSize \in Nat /\ 1 \in 1 .. MaxSize
      /\ 1 \in 1 .. MaxSize + 1
  BY PeerAssumption DEF BoundsInv, PeerTypeOK
<1>1. CASE ConnectPeer
  <2>1. UNCHANGED <<fromPeer, item, others, size, got, result, synced, behind>>
    BY Zenon, <1>1 DEF ConnectPeer
  <2>2. CASE status' = "dead" /\ UNCHANGED <<open, call, requests, toPeer, receive_vars>>
    <3>1. Reserved' = Reserved /\ awaited' = awaited /\ reading' = reading
      BY Zenon, <2>2 DEF Reserved, receive_vars
    <3> QED
      BY Zenon, <2>1, <2>2, <3>1 DEF BoundsInv, PeerTypeOK
  <2>3. CASE /\ requests + 2 <= MaxRequests /\ open' = TRUE /\ call' = "connect"
             /\ Ask("version", 1) /\ UNCHANGED status
    <3>1. requests + 1 <= MaxRequests
      BY <1>0, <2>3
    <3>2. /\ toPeer' \in Seq(Msg) /\ requests' = requests + 1 /\ requests' \in 0 .. MaxRequests
          /\ awaited' \in {"none", "verack"} \cup {Answer(c) : c \in Asked}
          /\ reading' \in BOOLEAN
      BY Zenon, <1>0, <2>3, <3>1, AskTypes, AnswerFacts DEF BoundsInv
    <3>3. requests' + Reserved' <= MaxRequests
      BY <1>0, <2>3, <3>2 DEF Reserved
    <3> QED
      BY Zenon, <2>1, <2>3, <3>2, <3>3 DEF BoundsInv, PeerTypeOK, Call
  <2> QED
    BY Zenon, <1>1, <2>2, <2>3 DEF ConnectPeer
<1>2. CASE KeepAlive
  <2>1. /\ requests + 3 <= MaxRequests /\ call' = "keep_alive" /\ got' = <<>> /\ Ask("ping", 1)
        /\ UNCHANGED <<open, fromPeer, item, others, status, size, result, synced, behind>>
    BY Zenon, <1>2 DEF KeepAlive
  <2>2. requests + 1 <= MaxRequests
    BY <1>0, <2>1
  <2>3. /\ toPeer' \in Seq(Msg) /\ requests' = requests + 1 /\ requests' \in 0 .. MaxRequests
        /\ awaited' \in {"none", "verack"} \cup {Answer(c) : c \in Asked}
        /\ reading' \in BOOLEAN
    BY Zenon, <1>0, <2>1, <2>2, AskTypes, AnswerFacts DEF BoundsInv
  <2>4. requests' + Reserved' <= MaxRequests
    BY <1>0, <2>1, <2>3 DEF Reserved
  <2>5. got' \in Seq(Msg)
    BY <2>1
  <2> QED
    BY Zenon, <2>1, <2>3, <2>4, <2>5 DEF BoundsInv, PeerTypeOK, Call
<1>3. ASSUME NEW c \in Fetch, NEW k \in Sizes(c), FetchOrSend(c, k) PROVE BoundsInv'
  <2>1. k \in 1 .. MaxSize /\ Request(c) \in Asked
    BY Zenon, <1>0, RequestFacts DEF Sizes
  <2>2. /\ requests < MaxRequests /\ call' = c /\ size' = k /\ got' = <<>> /\ Ask(Request(c), k)
        /\ UNCHANGED <<open, fromPeer, item, others, status, result, synced, behind>>
    BY Zenon, <1>3 DEF FetchOrSend
  <2>3. requests + 1 <= MaxRequests
    BY <1>0, <2>2
  <2>4. /\ toPeer' \in Seq(Msg) /\ requests' = requests + 1 /\ requests' \in 0 .. MaxRequests
        /\ awaited' \in {"none", "verack"} \cup {Answer(d) : d \in Asked}
        /\ reading' \in BOOLEAN
    BY Zenon, <2>1, <2>2, <2>3, AskTypes DEF BoundsInv
  <2>5. requests' + Reserved' <= MaxRequests
    BY <1>0, <2>2, <2>3, <2>4 DEF Reserved, Fetch
  <2>6. got' \in Seq(Msg)
    BY <2>2
  <2> QED
    BY Zenon, <2>1, <2>2, <2>4, <2>5, <2>6 DEF BoundsInv, PeerTypeOK, Call
<1>4. CASE SendFails
  <2>1. /\ status' \in {"up", "dead"} /\ result' = "error" /\ synced' = FALSE /\ got' = <<>>
        /\ UNCHANGED <<open, toPeer, fromPeer, item, others, awaited, reading, call, size, requests, behind>>
    BY Zenon, <1>4 DEF SendFails, stream_vars, receive_vars
  <2>2. got' \in Seq(Msg)
    BY <2>1
  <2>3. Reserved' = Reserved
    BY Zenon, <2>1 DEF Reserved
  <2> QED
    BY Zenon, <2>1, <2>2, <2>3 DEF BoundsInv, PeerTypeOK
<1>5. CASE EnterRead \/ ReadClosed \/ UNCHANGED peer_vars
  <2>1. /\ reading' \in BOOLEAN
        /\ UNCHANGED <<open, toPeer, fromPeer, item, others, awaited, status, call, size, got, result,
                       synced, requests, behind>>
    BY Zenon, <1>5 DEF EnterRead, ReadClosed, BoundsInv, PeerTypeOK, peer_vars, stream_vars, receive_vars, call_vars
  <2> QED
    BY Zenon, <2>1 DEF BoundsInv, PeerTypeOK, Reserved
<1>6. CASE Timeout
  BY Zenon, <1>6, ReceiveFailsTypes DEF Timeout, BoundsInv, PeerTypeOK
<1>7. CASE ReadNext
  BY Zenon, <1>7, ReadBounds
<1>8. CASE PeerAnswers \/ PeerIgnores
  BY Zenon, <1>8, AnswerBounds
<1>9. ASSUME NEW cmd \in {"other", "bad"}, PeerSendsOther(cmd) PROVE BoundsInv'
  <2>1. [cmd |-> cmd, req |-> 0, n |-> 0] \in Msg
    BY <1>0 DEF Msg, Command
  <2>2. fromPeer' \in Seq(Msg)
    BY Zenon, <1>9, <2>1, AppendFacts DEF PeerSendsOther, BoundsInv, PeerTypeOK
  <2>3. /\ others < MaxOther /\ others' = others + 1
        /\ UNCHANGED <<open, toPeer, item, awaited, reading, status, call, size, got, result, synced,
                       requests, behind>>
    BY Zenon, <1>9 DEF PeerSendsOther, receive_vars, call_vars
  <2>4. others' \in 0 .. MaxOther
    BY <2>3, PeerAssumption DEF BoundsInv, PeerTypeOK
  <2>5. Reserved' = Reserved
    BY Zenon, <2>3 DEF Reserved
  <2> QED
    BY ZenonT(40), <2>2, <2>3, <2>4, <2>5 DEF BoundsInv, PeerTypeOK
<1>10. CASE PeerCloses
  <2>1. /\ open' = FALSE /\ toPeer' = <<>> /\ item' = 1
        /\ UNCHANGED <<fromPeer, others, awaited, reading, status, call, size, got, result, synced,
                       requests, behind>>
    BY Zenon, <1>10 DEF PeerCloses, receive_vars, call_vars
  <2>2. toPeer' \in Seq(Msg)
    BY <2>1
  <2>3. Reserved' = Reserved /\ item' \in 1 .. MaxSize + 1
    BY Zenon, <1>0, <2>1 DEF Reserved
  <2> QED
    BY ZenonT(40), <2>1, <2>2, <2>3 DEF BoundsInv, PeerTypeOK
<1> QED
  BY ZenonT(40), <1>1, <1>2, <1>3, <1>4, <1>5, <1>6, <1>7, <1>8, <1>9, <1>10 DEF PeerNext

\* The connection's state keeps its types, and no call of p2p.rs makes more requests than
\* were left when it began: a keep_alive at most three, a connection two, a fetch one.
THEOREM PeerTypeCorrect == PeerSpec => []PeerTypeOK
<1>1. PeerInit => BoundsInv
  <2> SUFFICES ASSUME PeerInit PROVE BoundsInv
    OBVIOUS
  <2>1. toPeer \in Seq(Msg) /\ fromPeer \in Seq(Msg) /\ got \in Seq(Msg)
    BY DEF PeerInit
  <2>2. /\ item \in 1 .. MaxSize + 1 /\ others \in 0 .. MaxOther /\ size \in 1 .. MaxSize
        /\ requests \in 0 .. MaxRequests /\ requests + Reserved <= MaxRequests
    BY PeerAssumption DEF PeerInit, Reserved
  <2> QED
    BY Zenon, <2>1, <2>2 DEF PeerInit, BoundsInv, PeerTypeOK
<1>2. PeerInv /\ BoundsInv /\ [PeerNext]_peer_vars => BoundsInv'
  BY Zenon, NextBounds
<1>3. BoundsInv => PeerTypeOK
  BY Zenon DEF BoundsInv
<1> QED
  BY <1>1, <1>2, <1>3, PeerInvariance, PTL DEF PeerSpec

=============================================================================
