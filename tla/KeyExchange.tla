---------------------------- MODULE KeyExchange ----------------------------
(***************************************************************************)
(* key_exchange_routine on both ends of a new connection between the       *)
(* gateways: first the RSA public keys, in clear, then ephemeral ECC public*)
(* keys signed with them.  The addresses of the two ends decide who sends  *)
(* first.  The sockets have no timeout yet, and nothing frames the         *)
(* messages: a message is what one recv returns.                           *)
(*                                                                         *)
(* Atomicity.  A step is one call on the socket with the computation that  *)
(* follows it; sendall puts a whole message into the stream.               *)
(*                                                                         *)
(* Data abstraction.  A message is two chunks, the least that can be cut;  *)
(* recv takes any chunks that are there, of one message or of several.  A  *)
(* key names the gateway it belongs to.  Signatures are not forged: what   *)
(* verifies begins with the peer's whole message, and pickle ignores what  *)
(* follows it.                                                             *)
(***************************************************************************)
EXTENDS Naturals, Sequences

CONSTANTS Client, Server,   \* the two gateways
          Addresses         \* IP addresses, as numbers: the code compares strings

ASSUME GatewayAssumption == Client # Server
ASSUME AddressAssumption == Addresses \subseteq Nat

VARIABLES
    address,  \* address[g]: the address of g's end of the connection
    trusted,  \* trusted[g]: g has stored the public key of the other
    hasKey,   \* hasKey[g]: g has an RSA key of its own
    pc,       \* pc[g]: the step g is at, or how its exchange ended
    stream,   \* stream[g]: chunks on their way to g
    received, \* received[g]: what the last recv of g returned
    closed,   \* closed[g]: g has closed its end, or its program has ended
    short     \* history: some recv returned a message in part

vars == <<address, trusted, hasKey, pc, stream, received, closed, short>>

Gateways == {Client, Server}
Peer(g) == IF g = Client THEN Server ELSE Client

Kinds == {"RSA", "ECC", "packet"}
Chunk == [from : Gateways, kind : Kinds, part : {1, 2}]
Message(g, kind) == <<[from |-> g, kind |-> kind, part |-> 1],
                      [from |-> g, kind |-> kind, part |-> 2]>>

Steps == {"load", "send RSA", "recv RSA", "auth", "send ECC", "recv ECC", "verify"}
Outcomes == {"key", "none", "crashed"}

TypeOK ==
    /\ address  \in [Gateways -> Addresses]
    /\ trusted  \in [Gateways -> BOOLEAN]
    /\ hasKey   \in [Gateways -> BOOLEAN]
    /\ pc       \in [Gateways -> Steps \cup Outcomes \cup {"sent"}]
    /\ stream   \in [Gateways -> Seq(Chunk)]
    /\ received \in [Gateways -> Seq(Chunk)]
    /\ closed   \in [Gateways -> BOOLEAN]
    /\ short    \in BOOLEAN

Init ==
    /\ address \in [Gateways -> Addresses]
    /\ trusted \in [Gateways -> BOOLEAN]
    /\ hasKey \in [Gateways -> BOOLEAN]
    /\ pc = [g \in Gateways |-> "load"]
    /\ stream = [g \in Gateways |-> <<>>]
    /\ received = [g \in Gateways |-> <<>>]
    /\ closed = [g \in Gateways |-> FALSE]
    /\ short = FALSE

----------------------------------------------------------------------------

\* BUG: with equal addresses both wait for the other's key.
BugSendsFirst(g) == address[g] < address[Peer(g)]

\* BUG: the addresses are not compared.
BugBothSendFirst(g) == TRUE

SendsFirst(g) == address[g] <= address[Peer(g)]

\* BUG: the signed ECC key is sent before the peer's RSA key is looked at.
BugAfter(g, step) ==
    CASE step = "load"     -> IF SendsFirst(g) THEN "send RSA" ELSE "recv RSA"
      [] step = "send RSA" -> IF SendsFirst(g) THEN "recv RSA" ELSE "send ECC"
      [] step = "recv RSA" -> IF SendsFirst(g) THEN "auth" ELSE "send RSA"
      [] step = "auth"     -> IF SendsFirst(g) THEN "send ECC" ELSE "recv ECC"
      [] step = "send ECC" -> IF SendsFirst(g) THEN "recv ECC" ELSE "auth"
      [] step = "recv ECC" -> "verify"

\* The step after one that went well.
After(g, step) ==
    CASE step = "load"     -> IF SendsFirst(g) THEN "send RSA" ELSE "recv RSA"
      [] step = "send RSA" -> IF SendsFirst(g) THEN "recv RSA" ELSE "auth"
      [] step = "recv RSA" -> IF SendsFirst(g) THEN "auth" ELSE "send RSA"
      [] step = "auth"     -> IF SendsFirst(g) THEN "send ECC" ELSE "recv ECC"
      [] step = "send ECC" -> IF SendsFirst(g) THEN "recv ECC" ELSE "verify"
      [] step = "recv ECC" -> IF SendsFirst(g) THEN "verify" ELSE "send ECC"

\* Without a key in the TPM the load raises, outside any try.
Load(g) ==
    /\ pc[g] = "load"
    /\ pc' = [pc EXCEPT ![g] = IF hasKey[g] THEN After(g, "load") ELSE "crashed"]
    /\ UNCHANGED <<address, trusted, hasKey, stream, received, closed, short>>

SendTo(g, kind) ==
    stream' = IF closed[Peer(g)] THEN stream
              ELSE [stream EXCEPT ![Peer(g)] = @ \o Message(g, kind)]

SendRSA(g) ==
    /\ pc[g] = "send RSA"
    /\ SendTo(g, "RSA")
    /\ pc' = [pc EXCEPT ![g] = After(g, "send RSA")]
    /\ UNCHANGED <<address, trusted, hasKey, received, closed, short>>

SendECC(g) ==
    /\ pc[g] = "send ECC"
    /\ SendTo(g, "ECC")
    /\ pc' = [pc EXCEPT ![g] = After(g, "send ECC")]
    /\ UNCHANGED <<address, trusted, hasKey, received, closed, short>>

IsPart(chunks) == chunks[1].part = 2 \/ chunks[Len(chunks)].part = 1

\* recv(SOCKET_RECEIVE_SIZE): at least one byte, or b'' at the end.
Recv(g) ==
    /\ pc[g] \in {"recv RSA", "recv ECC"}
    /\ \/ \E n \in 1..Len(stream[g]) :
             /\ received' = [received EXCEPT ![g] = SubSeq(stream[g], 1, n)]
             /\ stream' = [stream EXCEPT ![g] = SubSeq(@, n + 1, Len(@))]
             /\ short' = (short \/ IsPart(SubSeq(stream[g], 1, n)))
       \/ /\ stream[g] = <<>> /\ closed[Peer(g)]
          /\ received' = [received EXCEPT ![g] = <<>>]
          /\ UNCHANGED <<stream, short>>
    /\ pc' = [pc EXCEPT ![g] = After(g, pc[g])]
    /\ UNCHANGED <<address, trusted, hasKey, closed>>

\* BrokenPipeError or ConnectionResetError: nothing catches it.
SocketRaises(g) ==
    /\ pc[g] \in {"send RSA", "recv RSA", "send ECC", "recv ECC"}
    /\ closed[Peer(g)]
    /\ pc' = [pc EXCEPT ![g] = "crashed"]
    /\ UNCHANGED <<address, trusted, hasKey, stream, received, closed, short>>

Auth(g) ==
    /\ pc[g] = "auth"
    /\ pc' = [pc EXCEPT ![g] =
                IF trusted[g] /\ received[g] = Message(Peer(g), "RSA")
                THEN After(g, "auth") ELSE "none"]
    /\ UNCHANGED <<address, trusted, hasKey, stream, received, closed, short>>

\* BUG: the signature is verified with the gateway's own key.
BugVerifies(g) ==
    Len(received[g]) >= 2 /\ SubSeq(received[g], 1, 2) = Message(g, "ECC")

Verifies(g) ==
    Len(received[g]) >= 2 /\ SubSeq(received[g], 1, 2) = Message(Peer(g), "ECC")

\* Where pickle cannot load the message, its error is not a ValueError.
Verify(g) ==
    /\ pc[g] = "verify"
    /\ pc' = [pc EXCEPT ![g] = IF Verifies(g) THEN "key" ELSE "crashed"]
    /\ UNCHANGED <<address, trusted, hasKey, stream, received, closed, short>>

\* The session starts: the first packet follows on the same socket.
Transfer(g) ==
    /\ pc[g] = "key"
    /\ SendTo(g, "packet")
    /\ pc' = [pc EXCEPT ![g] = "sent"]
    /\ UNCHANGED <<address, trusted, hasKey, received, closed, short>>

\* main closes the socket, or ends with its program.
Close(g) ==
    /\ pc[g] \in {"none", "crashed"} /\ ~closed[g]
    /\ closed' = [closed EXCEPT ![g] = TRUE]
    /\ stream' = [stream EXCEPT ![g] = <<>>]
    /\ UNCHANGED <<address, trusted, hasKey, pc, received, short>>

Exchange(g) == \/ Load(g) \/ SendRSA(g) \/ SendECC(g) \/ Recv(g) \/ SocketRaises(g)
               \/ Auth(g) \/ Verify(g) \/ Transfer(g) \/ Close(g)

Next == \E g \in Gateways : Exchange(g)

SafetySpec == Init /\ [][Next]_vars

\* Both programs run, and TCP delivers.
Spec == SafetySpec /\ \A g \in Gateways : WF_vars(Exchange(g))

----------------------------------------------------------------------------

HasSessionKey(g) == pc[g] \in {"key", "sent"}
HasFailed(g) == pc[g] \in {"none", "crashed"}

\* A gateway that comes out with a key has stored the peer's RSA key, and the
\* peer has stored its own: the last signature only comes from a gateway that
\* has authorized the other.
KeyMeansMutualTrust == \A g \in Gateways : HasSessionKey(g) => trusted[g] /\ trusted[Peer(g)]

\* An exchange only ends the program for a reason that lies with the TPM, the
\* network or the other end, which has failed before.
CrashHasCause ==
    \A g \in Gateways : pc[g] = "crashed" => ~hasKey[g] \/ short \/ HasFailed(Peer(g))

\* Whoever the two are and whoever they trust, neither waits for ever.
EveryExchangeEnds == \A g \in Gateways : <>(HasSessionKey(g) \/ HasFailed(g))

\* Two gateways that trust each other get their key, also if TCP joins what
\* was sent apart, unless it takes apart what was sent as one.
Paired == \A g \in Gateways : trusted[g] /\ hasKey[g]
TrustedPeersGetKey ==
    Paired /\ address[Client] # address[Server] => <>(short \/ \A g \in Gateways : HasSessionKey(g))

\* No gateway starts a session alone.
NobodyStartsAlone == \A g \in Gateways : HasSessionKey(g) ~> (short \/ HasSessionKey(Peer(g)))
=============================================================================
