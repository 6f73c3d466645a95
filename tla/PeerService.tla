---------------------------- MODULE PeerService ----------------------------
(***************************************************************************)
(* What the synchronisation expects of the connection (node/src/chain.rs,  *)
(* the calls of self.p2p): a call runs for a while and ends, with an error *)
(* or with the complete answer to it.  CompactChain is written against     *)
(* this service: its requests are answered as the protocol says, or fail.  *)
(***************************************************************************)
EXTENDS Naturals, Sequences

VARIABLES
  running,   \* the call that runs, or "none"
  size,      \* the number of objects it asks for
  id,        \* the number of requests sent
  answer,    \* what the last call returned
  result,
  degraded   \* the connection has lost its place

service_vars == <<running, size, id, answer, result, degraded>>

ServiceInit ==
  /\ running = "none" /\ size = 1 /\ id = 0 /\ answer = <<>>
  /\ result = "ok" /\ degraded = FALSE

\* A call starts with a request.
Begin ==
  /\ running = "none" /\ running' # "none"
  /\ id' = id + 1 /\ answer' = <<>>
  /\ UNCHANGED <<result, degraded>>

\* Within a call there may be further requests.
Again ==
  /\ running # "none" /\ running' # "none"
  /\ id' = id + 1 /\ answer' = <<>>
  /\ degraded => degraded'
  /\ UNCHANGED <<size, result>>

\* The whole answer to the last request: its messages, in order.
Complete(s, k) == Len(s) = k /\ \A i \in 1 .. k : s[i].req = id /\ s[i].n = i

Succeed ==
  /\ running' = "none" /\ result' = "ok" /\ size' = 1
  /\ id' = id /\ (degraded => degraded')
  /\ IF running \in {"connect", "keep_alive", "handshake"}
       THEN answer' = <<>>
       ELSE degraded' \/ Complete(answer', size)

\* A call may fail before it has sent anything.
Fail ==
  /\ running' = "none" /\ result' = "error" /\ size' = 1
  /\ id' = id /\ (degraded => degraded')

ServiceNext == Begin \/ Again \/ Succeed \/ Fail

ServiceSpec == ServiceInit /\ [][ServiceNext]_service_vars

=============================================================================
