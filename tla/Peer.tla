-------------------------------- MODULE Peer --------------------------------
(***************************************************************************)
(* The connection to the Bitcoin peer (node/src/p2p.rs): the client sends  *)
(* a request and reads messages until one has the command it waits for.    *)
(* Nothing in an answer names the request it answers.  A receive that      *)
(* times out leaves its answer in the stream, for a later receive to find. *)
(*                                                                         *)
(* Abstractions.                                                           *)
(*  - A message is its command, the number of the request it answers,      *)
(*    which the client does not see, and its place in the answer.          *)
(*  - The calls come from chain.rs and node.rs: keep_alive first, and      *)
(*    when it succeeds any requests until one fails or sync_state ends.    *)
(*  - The peer and the TCP streams are external: both streams are FIFO,    *)
(*    the peer answers requests in order, at its own pace, and may send    *)
(*    messages of its own, close the connection, or ignore a second        *)
(*    version message.  Reading blocks while the stream is empty and open. *)
(***************************************************************************)
EXTENDS Naturals, Sequences

CONSTANTS
  MaxSize,      \* objects asked for by one request
  MaxRequests,  \* bound: requests sent over the connection
  MaxOther      \* bound: messages the peer sends of its own

ASSUME PeerAssumption ==
  /\ MaxSize \in Nat \ {0}
  /\ MaxRequests \in Nat \ {0}
  /\ MaxOther \in Nat

VARIABLES
  status,    \* "new", "up", or "dead" once an unwrap has panicked
  open,      \* the TCP connection and its two streams
  toPeer,
  fromPeer,
  item,      \* the peer: the next message of its answer to Head(toPeer)
  others,    \*   and how many messages it has sent of its own
  call,      \* the running call, and the number of objects it asks for
  size,
  awaited,   \* message_type of the receive it is in
  reading,   \*   that receive is in Message::read, not at the head of its loop
  got,       \* the answers collected by the call
  result,    \* how the last call ended
  synced,    \* keep_alive succeeded, and so did all calls since
  requests,  \* history: the number of requests sent
  behind     \* history: a receive(PONG) has ended without the pong of its ping

stream_vars == <<open, toPeer, fromPeer, item, others>>
receive_vars == <<awaited, reading>>
call_vars == <<status, call, size, got, result, synced, requests, behind>>
peer_vars == <<stream_vars, receive_vars, call_vars>>

Fetch == {"headers", "cfheaders", "cfilters", "blocks", "tx"}

Call == Fetch \cup {"connect", "keep_alive", "handshake"}

Request(c) ==
  CASE c = "headers" -> "getheaders" [] c = "cfheaders" -> "getcfheaders"
    [] c = "cfilters" -> "getcfilters" [] c = "blocks" -> "getdata" [] c = "tx" -> "inv"

\* The messages that the peer answers, and the command of the answer.
Asked == {"getheaders", "getcfheaders", "getcfilters", "getdata", "inv", "ping", "version"}

Answer(cmd) ==
  CASE cmd = "getheaders" -> "headers" [] cmd = "getcfheaders" -> "cfheaders"
    [] cmd = "getcfilters" -> "cfilter" [] cmd = "getdata" -> "block" [] cmd = "inv" -> "getdata"
    [] cmd = "ping" -> "pong" [] cmd = "version" -> "version"

Command ==
  Asked \cup {"headers", "cfheaders", "cfilter", "block", "pong", "verack", "tx", "notfound",
             "other", "bad"}

Msg == [cmd : Command, req : 0 .. MaxRequests, n : 0 .. MaxSize + 1]

PeerInit ==
  /\ status = "new" /\ open = FALSE
  /\ toPeer = <<>> /\ fromPeer = <<>> /\ item = 1 /\ others = 0
  /\ call = "none" /\ size = 1 /\ got = <<>> /\ result = "ok" /\ synced = FALSE
  /\ awaited = "none" /\ reading = FALSE
  /\ requests = 0 /\ behind = FALSE

-----------------------------------------------------------------------------
(* Calls *)

\* receive starts, with a new deadline.
Receive(cmd) == awaited' = cmd /\ reading' = FALSE

\* Mutant: the command of the request is awaited, not that of its answer.
AskOwn(cmd, n) ==
  /\ requests' = requests + 1
  /\ toPeer' = Append(toPeer, [cmd |-> cmd, req |-> requests + 1, n |-> n])
  /\ Receive(cmd)

\* A request for n objects is sent, and its answer awaited.
Ask(cmd, n) ==
  /\ requests' = requests + 1
  /\ toPeer' = Append(toPeer, [cmd |-> cmd, req |-> requests + 1, n |-> n])
  /\ Receive(Answer(cmd))

\* The call ends.  An error ends sync_state; that of Peer::new or of
\* send_transaction is unwrapped.
Return(r) ==
  /\ call' = "none" /\ size' = 1 /\ result' = r
  /\ Receive("none")
  /\ synced' = (r = "ok" /\ call # "connect")
  /\ status' = IF r = "ok" THEN "up"
               ELSE IF call \in {"connect", "tx"} THEN "dead" ELSE status

\* connect_peer: the connection and the handshake, or an error for expect
ConnectPeer ==
  /\ status = "new" /\ call = "none"
  /\ \/ /\ requests + 2 <= MaxRequests
        /\ open' = TRUE
        /\ call' = "connect"
        /\ Ask("version", 1)
        /\ UNCHANGED status
     \/ /\ status' = "dead"
        /\ UNCHANGED <<open, call, requests, toPeer, receive_vars>>
  /\ UNCHANGED <<fromPeer, item, others, size, got, result, synced, behind>>

\* keep_alive, at the start of sync_state
KeepAlive ==
  /\ status = "up" /\ call = "none" /\ open
  /\ requests + 3 <= MaxRequests
  /\ call' = "keep_alive" /\ got' = <<>>
  /\ Ask("ping", 1)
  /\ UNCHANGED <<open, fromPeer, item, others, status, size, result, synced, behind>>

\* Mutant: requests are made whatever became of keep_alive and of those before.
FetchUnsynced(c, k) ==
  /\ status = "up" /\ call = "none" /\ open
  /\ requests < MaxRequests
  /\ call' = c /\ size' = k /\ got' = <<>>
  /\ Ask(Request(c), k)
  /\ UNCHANGED <<open, fromPeer, item, others, status, result, synced, behind>>

\* fetch_headers, fetch_compact_filter_headers, fetch_compact_filters, fetch_blocks
\* and send_transaction
FetchOrSend(c, k) ==
  /\ status = "up" /\ call = "none" /\ synced /\ open
  /\ requests < MaxRequests
  /\ call' = c /\ size' = k /\ got' = <<>>
  /\ Ask(Request(c), k)
  /\ UNCHANGED <<open, fromPeer, item, others, status, result, synced, behind>>

\* Only filters and blocks come in answers of several messages.
Sizes(c) == IF c \in {"cfilters", "blocks"} THEN 1 .. MaxSize ELSE {1}

\* send fails, because the connection is closed, and ? returns the error.
SendFails ==
  /\ status = "up" /\ call = "none" /\ ~open
  /\ status' \in {"up"} \cup {s \in {"dead"} : synced}
  /\ result' = "error" /\ synced' = FALSE /\ got' = <<>>
  /\ UNCHANGED <<stream_vars, receive_vars, call, size, requests, behind>>

-----------------------------------------------------------------------------
(* receive *)

\* The deadline has not passed: while monotonic_clock::now() < duration
EnterRead ==
  /\ call # "none" /\ ~reading
  /\ reading' = TRUE
  /\ UNCHANGED <<stream_vars, awaited, call_vars>>

\* The receive fails.  A keep_alive whose ping failed goes on to a handshake.
ReceiveFails ==
  /\ behind' = (behind \/ awaited = "pong")
  /\ IF call = "keep_alive" /\ open
       THEN /\ call' = "handshake"
            /\ Ask("version", 1)
            /\ UNCHANGED <<status, size, result, synced>>
       ELSE /\ Return("error")
            /\ UNCHANGED <<toPeer, requests>>
  /\ UNCHANGED <<open, item, others, got>>

\* Mutant: a receive on a closed connection reads on whatever the time.
TimeoutOpen ==
  /\ call # "none" /\ ~reading /\ open
  /\ ReceiveFails
  /\ UNCHANGED fromPeer

\* It has: Err(Error::Timeout)
Timeout ==
  /\ call # "none" /\ ~reading
  /\ ReceiveFails
  /\ UNCHANGED fromPeer

\* Message::read fails with an IOError, and the loop goes on.
ReadClosed ==
  /\ reading /\ ~open /\ fromPeer = <<>>
  /\ reading' = FALSE
  /\ UNCHANGED <<stream_vars, awaited, call_vars>>

\* Message::read returns m, or the error of decoding it.
Read(m) ==
  /\ reading /\ fromPeer # <<>>
  /\ m = Head(fromPeer)
  /\ fromPeer' = Tail(fromPeer)

\* A message nobody waits for is dropped.
ReadOther(m) ==
  /\ Read(m)
  /\ m.cmd \notin {awaited, "notfound", "bad"}
  /\ reading' = FALSE
  /\ UNCHANGED <<open, toPeer, item, others, awaited, call_vars>>

\* An error other than an IOError ends the receive.
ReadBad(m) ==
  /\ Read(m)
  /\ m.cmd = "bad"
  /\ ReceiveFails

\* receive(PONG) returns: nobody looks at the message, be it a notfound.
ReadPong(m) ==
  /\ Read(m)
  /\ awaited = "pong" /\ m.cmd \in {"pong", "notfound"}
  /\ behind' = (behind \/ ~(m.cmd = "pong" /\ m.req = requests))
  /\ Return("ok")
  /\ UNCHANGED <<open, toPeer, item, others, got, requests>>

\* handshake: version, then verack, then a ping of its own
ReadVersion(m) ==
  /\ Read(m)
  /\ awaited = "version" /\ m.cmd = "version"
  /\ Receive("verack")
  /\ UNCHANGED <<open, toPeer, item, others, call_vars>>

\* Mutant: the ping of the handshake goes out before the verack.
ReadVerackPingFirst(m) ==
  /\ Read(m)
  /\ awaited = "verack" /\ m.cmd = "verack"
  /\ IF open
       THEN /\ requests' = requests + 1
            /\ toPeer' = Append(Append(toPeer, [cmd |-> "ping", req |-> requests + 1, n |-> 1]),
                                [cmd |-> "verack", req |-> requests + 1, n |-> 1])
            /\ Receive("pong")
            /\ UNCHANGED <<status, call, size, result, synced>>
       ELSE /\ Return("error")
            /\ UNCHANGED <<toPeer, requests>>
  /\ UNCHANGED <<open, item, others, got, behind>>

ReadVerack(m) ==
  /\ Read(m)
  /\ awaited = "verack" /\ m.cmd = "verack"
  /\ IF open
       THEN /\ requests' = requests + 1
            /\ toPeer' = Append(Append(toPeer, [cmd |-> "verack", req |-> requests + 1, n |-> 1]),
                                [cmd |-> "ping", req |-> requests + 1, n |-> 1])
            /\ Receive("pong")
            /\ UNCHANGED <<status, call, size, result, synced>>
       ELSE /\ Return("error")
            /\ UNCHANGED <<toPeer, requests>>
  /\ UNCHANGED <<open, item, others, got, behind>>

\* Anything but what was asked for: Error::WrongP2PMessage
ReadWrong(m) ==
  /\ Read(m)
  /\ \/ m.cmd = "notfound" /\ awaited # "pong"
     \/ m.cmd = awaited /\ call = "tx" /\ m.req # requests
  /\ Return("error")
  /\ UNCHANGED <<open, toPeer, item, others, got, requests, behind>>

\* Mutant: the first filter ends the loop.
LastAnswerFirst(m) == call = "blocks" => Len(got) + 1 = size

\* Filters are read up to that of hash_stop, blocks until there are as many as
\* were asked for.
LastAnswer(m) ==
  /\ call = "cfilters" => m.n = size
  /\ call = "blocks" => Len(got) + 1 = size

\* An answer to a request, taken for the answer to this one.
ReadAnswer(m) ==
  /\ Read(m)
  /\ call \in Fetch \ {"tx"} /\ m.cmd = awaited
  /\ got' = Append(got, m)
  /\ IF LastAnswer(m)
       THEN Return("ok")
       ELSE Receive(awaited) /\ UNCHANGED <<status, call, size, result, synced>>
  /\ UNCHANGED <<open, toPeer, item, others, requests, behind>>

\* send_transaction: the peer asks for the transaction it was told of.
ReadGetData(m) ==
  /\ Read(m)
  /\ call = "tx" /\ m.cmd = "getdata" /\ m.req = requests
  /\ IF open
       THEN /\ toPeer' = Append(toPeer, [cmd |-> "tx", req |-> requests, n |-> 1])
            /\ got' = <<m>>
            /\ Return("ok")
       ELSE /\ Return("error")
            /\ UNCHANGED <<toPeer, got>>
  /\ UNCHANGED <<open, item, others, requests, behind>>

-----------------------------------------------------------------------------
(* The peer *)

\* The messages that answer a request, and the command of each.
AnswerLen(q) == IF q.cmd = "version" THEN 2 ELSE q.n

AnswerCmd(q, i) == IF q.cmd = "version" /\ i = 2 THEN "verack" ELSE Answer(q.cmd)

\* The next message of the answer to the oldest request.
PeerAnswers ==
  /\ open /\ toPeer # <<>>
  /\ Head(toPeer).cmd \in Asked
  /\ fromPeer' = Append(fromPeer, [cmd |-> AnswerCmd(Head(toPeer), item),
                                   req |-> Head(toPeer).req, n |-> item])
  /\ IF item < AnswerLen(Head(toPeer))
       THEN item' = item + 1 /\ UNCHANGED toPeer
       ELSE item' = 1 /\ toPeer' = Tail(toPeer)
  /\ UNCHANGED <<open, others, receive_vars, call_vars>>

\* No answer, or none to the rest of a request: notfound for a block.
PeerIgnores ==
  /\ open /\ toPeer # <<>>
  /\ fromPeer' \in {fromPeer} \cup
       {Append(fromPeer, [cmd |-> "notfound", req |-> Head(toPeer).req, n |-> item]) :
          q \in {q \in {Head(toPeer)} : q.cmd = "getdata"}}
  /\ item' = 1 /\ toPeer' = Tail(toPeer)
  /\ UNCHANGED <<open, others, receive_vars, call_vars>>

\* A message of the peer's own, or one that does not decode.
PeerSendsOther(cmd) ==
  /\ open /\ others < MaxOther
  /\ others' = others + 1
  /\ fromPeer' = Append(fromPeer, [cmd |-> cmd, req |-> 0, n |-> 0])
  /\ UNCHANGED <<open, toPeer, item, receive_vars, call_vars>>

PeerCloses ==
  /\ open
  /\ open' = FALSE /\ toPeer' = <<>> /\ item' = 1
  /\ UNCHANGED <<fromPeer, others, receive_vars, call_vars>>

-----------------------------------------------------------------------------

ReadNext ==
  \E m \in {fromPeer[i] : i \in 1 .. Len(fromPeer)} :
    \/ ReadOther(m)
    \/ ReadBad(m)
    \/ ReadPong(m)
    \/ ReadVersion(m)
    \/ ReadVerack(m)
    \/ ReadWrong(m)
    \/ ReadAnswer(m)
    \/ ReadGetData(m)

PeerNext ==
  \/ ConnectPeer
  \/ KeepAlive
  \/ \E c \in Fetch : \E k \in Sizes(c) : FetchOrSend(c, k)
  \/ SendFails
  \/ EnterRead
  \/ Timeout
  \/ ReadClosed
  \/ ReadNext
  \/ PeerAnswers
  \/ PeerIgnores
  \/ \E cmd \in {"other", "bad"} : PeerSendsOther(cmd)
  \/ PeerCloses

PeerSpec == PeerInit /\ [][PeerNext]_peer_vars

\* A receive goes on, its deadline passes, and a peer that does not answer sends something
\* of its own or closes the connection in the end.
FairPeerSpec ==
  /\ PeerSpec
  /\ WF_peer_vars(EnterRead \/ ReadNext \/ ReadClosed)
  /\ SF_peer_vars(Timeout)
  /\ WF_peer_vars(PeerAnswers \/ PeerSendsOther("other") \/ PeerCloses)

-----------------------------------------------------------------------------
(* Properties *)

\* The types of the connection's state.
PeerTypeOK ==
  /\ status \in {"new", "up", "dead"}
  /\ open \in BOOLEAN /\ reading \in BOOLEAN
  /\ synced \in BOOLEAN /\ behind \in BOOLEAN
  /\ toPeer \in Seq(Msg) /\ fromPeer \in Seq(Msg) /\ got \in Seq(Msg)
  /\ item \in 1 .. MaxSize + 1
  /\ others \in 0 .. MaxOther
  /\ call \in Call \cup {"none"}
  /\ size \in 1 .. MaxSize
  /\ awaited \in {"none", "verack"} \cup {Answer(c) : c \in Asked}
  /\ result \in {"ok", "error"}
  /\ requests \in 0 .. MaxRequests

\* The requests that the running call may still make: the version and the ping of the
\* handshake that a keep_alive falls back on, and the ping that ends a handshake.
Reserved ==
  IF call = "keep_alive" THEN 2
  ELSE IF call \in {"connect", "handshake"} /\ awaited # "pong" THEN 1 ELSE 0

\* The types, with the room that the guards of the calls leave for these requests.
BoundsInv == PeerTypeOK /\ requests + Reserved <= MaxRequests

\* A message accepted as the answer to a request is the answer to that request, and
\* not one that came too late for an earlier request of its kind: the pong that
\* keep_alive waits for comes after everything the peer had still to send.  The one
\* exception is a connection on which a receive(PONG) has ended without its pong,
\* by a timeout or with a late notfound.
AnswersCurrent == ~behind => \A i \in 1 .. Len(got) : got[i].req = requests

Message == [cmd : Command, req : Nat, n : Nat]

\* The types the argument needs; no bound is among them.
PeerTypes ==
  /\ toPeer \in Seq(Message) /\ fromPeer \in Seq(Message) /\ got \in Seq(Message)
  /\ item \in Nat /\ requests \in Nat /\ size \in Nat
  /\ behind \in BOOLEAN /\ synced \in BOOLEAN

From == 1 .. Len(fromPeer)
To == 1 .. Len(toPeer)

IsAnswer(m) == m.req # 0
IsAsked(q) == q.cmd \in Asked

\* Messages belong to requests that were sent, and the peer is within its answer.
StreamInv ==
  /\ \A i \in From : fromPeer[i].req <= requests
  /\ \A i \in From : ~ IsAnswer(fromPeer[i]) => fromPeer[i].cmd \in {"other", "bad"}
  /\ \A j \in To : toPeer[j].req \in 1 .. requests
  /\ item >= 1
  /\ toPeer = <<>> => item = 1
  /\ toPeer # <<>> => item = 1 \/ (IsAsked(toPeer[1]) /\ item <= AnswerLen(toPeer[1]))

\* Which receive a call is in, and what it has collected.
CallInv ==
  /\ call = "none" \/ call \in Call
  /\ call = "none" => awaited = "none" /\ size = 1
  /\ call \in Fetch => awaited = Answer(Request(call)) /\ size \in Sizes(call)
  /\ call = "keep_alive" => awaited = "pong"
  /\ call \in {"connect", "handshake"} => awaited \in {"version", "verack", "pong"}
  /\ call \in {"connect", "keep_alive", "handshake"} => got = <<>> /\ size = 1 /\ requests > 0
  /\ call \notin {"none", "connect"} => status # "new"
  /\ status = "new" => got = <<>>

\* Nothing comes after the pong that a receive waits for.
PongInv ==
  awaited = "pong" =>
    /\ \A i \in From : fromPeer[i].req = requests =>
         /\ fromPeer[i].cmd = "pong"
         /\ \A k \in From : k > i => ~ IsAnswer(fromPeer[k])
         /\ \A j \in To : ~ IsAsked(toPeer[j])
    /\ \A j \in To : toPeer[j].req = requests /\ IsAsked(toPeer[j]) =>
         toPeer[j].cmd = "ping" /\ toPeer[j].n = 1 /\ j = Len(toPeer)

\* Between the calls of a sync nothing is left of an answer.
IdleInv ==
  ~ behind /\ call = "none" /\ synced =>
    /\ \A i \in From : ~ IsAnswer(fromPeer[i])
    /\ \A j \in To : ~ IsAsked(toPeer[j])

\* An answer under way: its messages in the stream follow those collected.
InOrder ==
  /\ \A i \in From : IsAnswer(fromPeer[i]) =>
       /\ fromPeer[i].req = requests
       /\ fromPeer[i].cmd \in {awaited, "notfound"}
       /\ fromPeer[i].n \in Len(got) + 1 .. size
       /\ \/ fromPeer[i].n = Len(got) + 1
          \/ \E k \in From : k < i /\ IsAnswer(fromPeer[k]) /\ fromPeer[k].n + 1 = fromPeer[i].n
  /\ \A i, k \in From :
       i < k /\ IsAnswer(fromPeer[i]) /\ IsAnswer(fromPeer[k]) => fromPeer[i].n < fromPeer[k].n

\* And those still to come follow these.
ToCome ==
  \A j \in To : IsAsked(toPeer[j]) =>
    /\ j = Len(toPeer)
    /\ toPeer[j].cmd = Request(call) /\ toPeer[j].req = requests /\ toPeer[j].n = size
    /\ j = 1 => /\ \A i \in From : IsAnswer(fromPeer[i]) => fromPeer[i].n < item
                /\ \/ item = Len(got) + 1
                   \/ \E i \in From : IsAnswer(fromPeer[i]) /\ fromPeer[i].n + 1 = item
    /\ j # 1 => got = <<>> /\ \A i \in From : ~ IsAnswer(fromPeer[i])

\* While an answer is collected, the streams have the next messages of it and no others.
FetchInv ==
  ~ behind /\ call \in Fetch =>
    /\ Len(got) < size
    /\ \A i \in 1 .. Len(got) : got[i].req = requests /\ got[i].n = i
    /\ InOrder /\ ToCome

\* The inductive invariant: what is in the streams belongs to the call that runs, as long
\* as no pong was missed (Peer::receive, keep_alive and the requests that follow it).
PeerInv ==
  PeerTypes /\ StreamInv /\ CallInv /\ PongInv /\ IdleInv /\ FetchInv /\ AnswersCurrent

\* What chain.rs relies on: a call returns the complete answer to it, in order, or an
\* error.
Service == INSTANCE PeerService WITH
  running <- call, id <- requests, degraded <- behind,
  answer <- IF call = "none" THEN got ELSE <<>>

ImplementsService == Service!ServiceSpec

\* Every call ends, whatever the peer sends and whether it answers, as long as it
\* does not keep silent.
CallsEnd == call # "none" ~> call = "none"

=============================================================================
