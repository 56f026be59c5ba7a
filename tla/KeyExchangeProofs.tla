------------------------- MODULE KeyExchangeProofs -------------------------
(***************************************************************************)
(* Theorems of KeyExchange, for any addresses.                             *)
(***************************************************************************)
EXTENDS KeyExchange, SequenceTheorems, TLAPS

LEMMA PeerType == \A g \in Gateways : Peer(g) \in Gateways /\ Peer(g) # g /\ Peer(Peer(g)) = g
BY GatewayAssumption DEF Gateways, Peer

\* A gateway past the authorization trusts its peer.
Authorized(g) ==
    pc[g] \in {"send ECC", "recv ECC", "verify", "key", "sent"} => trusted[g]

\* A signed ECC key comes from a gateway that trusts its peer.
Vouched(chunks) ==
    \A i \in 1..Len(chunks) : chunks[i].kind = "ECC" => trusted[chunks[i].from]

TrustInv ==
    /\ TypeOK
    /\ \A g \in Gateways : /\ Authorized(g)
                           /\ Vouched(stream[g]) /\ Vouched(received[g])
                           /\ HasSessionKey(g) => trusted[Peer(g)]

----------------------------------------------------------------------------
LEMMA MessageType ==
    ASSUME NEW g \in Gateways, NEW kind \in Kinds
    PROVE  /\ Message(g, kind) \in Seq(Chunk) /\ Len(Message(g, kind)) = 2
           /\ \A i \in 1..2 : Message(g, kind)[i].from = g /\ Message(g, kind)[i].kind = kind
BY DEF Message, Chunk

LEMMA ConcatTwo ==
    ASSUME NEW S, NEW s \in Seq(S), NEW m \in Seq(S), Len(m) = 2
    PROVE  /\ s \o m \in Seq(S) /\ Len(s \o m) = Len(s) + 2
           /\ \A i \in 1..Len(s) : (s \o m)[i] = s[i]
           /\ \A i \in Len(s) + 1..Len(s) + 2 : (s \o m)[i] = m[i - Len(s)]
<1>1. /\ s \o m \in Seq(S) /\ Len(s \o m) = Len(s) + Len(m)
      /\ \A i \in 1..Len(s) + Len(m) : (s \o m)[i] = IF i <= Len(s) THEN s[i] ELSE m[i - Len(s)]
  BY ConcatProperties
<1>2. Len(s) \in Nat
  OBVIOUS
<1> DEFINE c == s \o m
<1> HIDE DEF c
<1>3. \A i \in 1..Len(s) + 2 : c[i] = IF i <= Len(s) THEN s[i] ELSE m[i - Len(s)]
  BY <1>1 DEF c
<1>4. /\ \A i \in 1..Len(s) : c[i] = s[i]
      /\ \A i \in Len(s) + 1..Len(s) + 2 : c[i] = m[i - Len(s)]
  BY <1>2, <1>3
<1> QED BY <1>1, <1>4 DEF c

LEMMA AppendMessage ==
    ASSUME NEW s \in Seq(Chunk), Vouched(s), NEW g \in Gateways, NEW kind \in Kinds,
           kind = "ECC" => trusted[g]
    PROVE  s \o Message(g, kind) \in Seq(Chunk) /\ Vouched(s \o Message(g, kind))
<1> DEFINE m == Message(g, kind)
<1>1. /\ m \in Seq(Chunk) /\ Len(m) = 2
      /\ \A i \in 1..2 : m[i].from = g /\ m[i].kind = kind
  BY MessageType
<1> HIDE DEF m
<1>2. /\ s \o m \in Seq(Chunk)
      /\ Len(s \o m) = Len(s) + 2
      /\ \A i \in 1..Len(s) : (s \o m)[i] = s[i]
      /\ \A i \in Len(s) + 1..Len(s) + 2 : (s \o m)[i] = m[i - Len(s)]
  BY <1>1, ConcatTwo
<1>3. ASSUME NEW i \in 1..Len(s) + 2, (s \o m)[i].kind = "ECC"
      PROVE  trusted[(s \o m)[i].from]
  <2>1. CASE i <= Len(s)
    <3>1. i \in 1..Len(s) /\ (s \o m)[i] = s[i]
      BY <1>2, <2>1
    <3> QED BY <1>3, <3>1 DEF Vouched
  <2>2. CASE i > Len(s)
    <3>1. i \in Len(s) + 1..Len(s) + 2 /\ i - Len(s) \in 1..2
      BY <2>2
    <3>2. (s \o m)[i] = m[i - Len(s)]
      BY <1>2, <3>1
    <3>3. (s \o m)[i].from = g /\ (s \o m)[i].kind = kind
      BY <1>1, <3>1, <3>2
    <3>4. kind = "ECC"
      BY <1>3, <3>3
    <3>5. trusted[g]
      BY <3>4
    <3> QED BY <3>3, <3>5, Zenon
  <2>3. i <= Len(s) \/ i > Len(s)
    OBVIOUS
  <2> QED BY <2>1, <2>2, <2>3
<1> QED
  BY <1>2, <1>3 DEF Vouched, m

LEMMA Cut ==
    ASSUME NEW s \in Seq(Chunk), Vouched(s), NEW n \in 1..Len(s)
    PROVE  /\ SubSeq(s, 1, n) \in Seq(Chunk) /\ Vouched(SubSeq(s, 1, n))
           /\ SubSeq(s, n + 1, Len(s)) \in Seq(Chunk) /\ Vouched(SubSeq(s, n + 1, Len(s)))
<1>1. /\ SubSeq(s, 1, n) \in Seq(Chunk) /\ Len(SubSeq(s, 1, n)) = n
      /\ \A i \in 1..n : SubSeq(s, 1, n)[i] = s[i]
  BY SubSeqProperties
<1>2. /\ SubSeq(s, n + 1, Len(s)) \in Seq(Chunk)
      /\ Len(SubSeq(s, n + 1, Len(s))) = Len(s) - n
      /\ \A i \in 1..Len(s) - n : SubSeq(s, n + 1, Len(s))[i] = s[n + i]
  BY SubSeqProperties
<1> QED
  BY <1>1, <1>2 DEF Vouched

LEMMA AfterSteps ==
    ASSUME NEW g \in Gateways, NEW step \in Steps \ {"verify"}
    PROVE  /\ After(g, step) \in Steps
           /\ After(g, step) \in {"send ECC", "recv ECC", "verify"} =>
                step \in {"auth", "send ECC", "recv ECC"}
<1>1. SendsFirst(g) \in BOOLEAN
  BY DEF SendsFirst
<1> QED BY <1>1 DEF After, Steps

LEMMA TrustInit == Init => TrustInv
<1> SUFFICES ASSUME Init PROVE TrustInv
  OBVIOUS
<1>1. <<>> \in Seq(Chunk) /\ Len(<<>>) = 0
  OBVIOUS
<1>2. TypeOK
  BY <1>1 DEF Init, TypeOK, Steps, Outcomes
<1>3. \A g \in Gateways : pc[g] = "load" /\ stream[g] = <<>> /\ received[g] = <<>>
  BY DEF Init
<1>4. Vouched(<<>>)
  BY <1>1 DEF Vouched
<1> QED
  BY <1>2, <1>3, <1>4 DEF TrustInv, Authorized, HasSessionKey

\* A message put into the peer's stream.
LEMMA SendKeeps ==
    ASSUME TrustInv, NEW g \in Gateways, NEW kind \in Kinds, SendTo(g, kind),
           kind = "ECC" => trusted[g], UNCHANGED trusted
    PROVE  stream' \in [Gateways -> Seq(Chunk)] /\ \A h \in Gateways : Vouched(stream[h])'
<1>1. Peer(g) \in Gateways
  BY PeerType
<1>2. stream[Peer(g)] \in Seq(Chunk) /\ Vouched(stream[Peer(g)])
  BY <1>1 DEF TrustInv, TypeOK
<1>3. /\ stream[Peer(g)] \o Message(g, kind) \in Seq(Chunk)
      /\ Vouched(stream[Peer(g)] \o Message(g, kind))
  BY <1>2, AppendMessage
<1>4. \A h \in Gateways : stream'[h] = stream[h] \/ stream'[h] = stream[Peer(g)] \o Message(g, kind)
  BY DEF SendTo, TrustInv, TypeOK
<1> QED
  BY <1>1, <1>3, <1>4 DEF SendTo, TrustInv, TypeOK, Vouched

LEMMA TrustNext == TrustInv /\ [Next]_vars => TrustInv'
<1> SUFFICES ASSUME TrustInv, [Next]_vars PROVE TrustInv'
  OBVIOUS
<1>1. CASE UNCHANGED vars
  BY <1>1 DEF vars, TrustInv, TypeOK, Authorized, Vouched, HasSessionKey
\* What an action shows that leaves the messages alone.
<1>2. ASSUME NEW g \in Gateways, NEW to \in Steps \cup Outcomes \cup {"sent"},
             pc' = [pc EXCEPT ![g] = to],
             to \in {"send ECC", "recv ECC", "verify", "key", "sent"} => trusted[g],
             to \in {"key", "sent"} => trusted[Peer(g)],
             UNCHANGED <<address, trusted, hasKey>>,
             closed' \in [Gateways -> BOOLEAN], short' \in BOOLEAN,
             stream' \in [Gateways -> Seq(Chunk)], received' \in [Gateways -> Seq(Chunk)],
             \A h \in Gateways : Vouched(stream[h])' /\ Vouched(received[h])'
      PROVE  TrustInv'
  <2>1. TypeOK'
    BY <1>2 DEF TrustInv, TypeOK
  <2>2. \A h \in Gateways : pc'[h] = IF h = g THEN to ELSE pc[h]
    BY <1>2 DEF TrustInv, TypeOK
  <2>3. \A h \in Gateways : Authorized(h)' /\ (HasSessionKey(h) => trusted[Peer(h)])'
    BY <1>2, <2>2 DEF TrustInv, Authorized, HasSessionKey
  <2> QED
    BY <1>2, <2>1, <2>3 DEF TrustInv
<1>3. UNCHANGED <<trusted, stream, received>> =>
        \A h \in Gateways : Vouched(stream[h])' /\ Vouched(received[h])'
  BY DEF TrustInv, Vouched
<1>4. ASSUME NEW g \in Gateways, Load(g) PROVE TrustInv'
  <2>1. After(g, "load") \in Steps \ {"send ECC", "recv ECC", "verify"}
    BY DEF After, SendsFirst, Steps
  <2> DEFINE to == IF hasKey[g] THEN After(g, "load") ELSE "crashed"
  <2>2. to \in Steps \cup Outcomes /\ to \notin {"send ECC", "recv ECC", "verify", "key", "sent"}
    BY <2>1 DEF Outcomes, Steps
  <2>3. pc' = [pc EXCEPT ![g] = to]
    BY <1>4 DEF Load
  <2> HIDE DEF to
  <2> QED
    BY <1>2, <1>3, <1>4, <2>2, <2>3 DEF Load, TrustInv, TypeOK
<1>5. ASSUME NEW g \in Gateways, NEW kind \in {"RSA", "ECC"}, NEW step \in {"send RSA", "send ECC"},
             kind = "ECC" <=> step = "send ECC",
             pc[g] = step, SendTo(g, kind), pc' = [pc EXCEPT ![g] = After(g, step)],
             UNCHANGED <<address, trusted, hasKey, received, closed, short>>
      PROVE  TrustInv'
  <2>1. kind = "ECC" => trusted[g]
    BY <1>5 DEF TrustInv, Authorized
  <2>2. After(g, step) \in Steps
        /\ (After(g, step) \in {"send ECC", "recv ECC", "verify"} => step = "send ECC")
    BY <1>5, AfterSteps DEF Steps
  <2>3. stream' \in [Gateways -> Seq(Chunk)] /\ \A h \in Gateways : Vouched(stream[h])'
    BY <1>5, <2>1, SendKeeps DEF Kinds
  <2>4. \A h \in Gateways : Vouched(received[h])'
    BY <1>5 DEF TrustInv, Vouched
  <2>5. After(g, step) \notin {"key", "sent"}
    BY <2>2 DEF Steps
  <2> QED
    BY <1>2, <1>5, <2>1, <2>2, <2>3, <2>4, <2>5 DEF TrustInv, TypeOK
<1>6. ASSUME NEW g \in Gateways, SendRSA(g) \/ SendECC(g) PROVE TrustInv'
  BY <1>5, <1>6 DEF SendRSA, SendECC
<1>7. ASSUME NEW g \in Gateways, Recv(g) PROVE TrustInv'
  <2> DEFINE to == After(g, pc[g])
  <2>1. to \in Steps /\ (to \in {"send ECC", "recv ECC", "verify"} => trusted[g])
    BY <1>7, AfterSteps DEF Recv, Steps, TrustInv, Authorized
  <2>2. to \notin {"key", "sent"} /\ pc' = [pc EXCEPT ![g] = to]
    BY <1>7, <2>1 DEF Steps, Recv
  <2>3. stream[g] \in Seq(Chunk) /\ Vouched(stream[g]) /\ UNCHANGED trusted
    BY <1>7 DEF Recv, TrustInv, TypeOK
  <2> HIDE DEF to
  <2>4. CASE \E n \in 1..Len(stream[g]) :
               /\ received' = [received EXCEPT ![g] = SubSeq(stream[g], 1, n)]
               /\ stream' = [stream EXCEPT ![g] = SubSeq(@, n + 1, Len(@))]
               /\ short' = (short \/ IsPart(SubSeq(stream[g], 1, n)))
    <3>1. PICK n \in 1..Len(stream[g]) :
               /\ received' = [received EXCEPT ![g] = SubSeq(stream[g], 1, n)]
               /\ stream' = [stream EXCEPT ![g] = SubSeq(@, n + 1, Len(@))]
               /\ short' = (short \/ IsPart(SubSeq(stream[g], 1, n)))
      BY <2>4
    <3> DEFINE a == SubSeq(stream[g], 1, n)
               b == SubSeq(stream[g], n + 1, Len(stream[g]))
    <3>2. a \in Seq(Chunk) /\ b \in Seq(Chunk) /\ Vouched(a) /\ Vouched(b)
      BY <2>3, Cut
    <3>3. /\ received' \in [Gateways -> Seq(Chunk)] /\ stream' \in [Gateways -> Seq(Chunk)]
          /\ \A h \in Gateways : received'[h] = received[h] \/ received'[h] = a
          /\ \A h \in Gateways : stream'[h] = stream[h] \/ stream'[h] = b
      BY <3>1, <3>2 DEF TrustInv, TypeOK
    <3> HIDE DEF a, b
    <3>4. \A h \in Gateways : Vouched(stream[h])' /\ Vouched(received[h])'
      BY <2>3, <3>2, <3>3 DEF TrustInv, Vouched
    <3>5. short' \in BOOLEAN
      BY <3>1 DEF TrustInv, TypeOK, IsPart
    <3> QED
      BY <1>2, <1>7, <2>1, <2>2, <3>3, <3>4, <3>5 DEF Recv, TrustInv, TypeOK
  <2>5. CASE received' = [received EXCEPT ![g] = <<>>] /\ UNCHANGED <<stream, short>>
    <3>1. <<>> \in Seq(Chunk) /\ Len(<<>>) = 0
      OBVIOUS
    <3>2. received' \in [Gateways -> Seq(Chunk)]
          /\ \A h \in Gateways : received'[h] = received[h] \/ received'[h] = <<>>
      BY <2>5, <3>1 DEF TrustInv, TypeOK
    <3>3. \A h \in Gateways : Vouched(stream[h])' /\ Vouched(received[h])'
      BY <2>3, <2>5, <3>1, <3>2 DEF TrustInv, Vouched
    <3> QED
      BY <1>2, <1>7, <2>1, <2>2, <2>5, <3>2, <3>3 DEF Recv, TrustInv, TypeOK
  <2> QED
    BY <1>7, <2>4, <2>5 DEF Recv
<1>8. ASSUME NEW g \in Gateways, SocketRaises(g) PROVE TrustInv'
  BY <1>2, <1>3, <1>8 DEF SocketRaises, Outcomes, TrustInv, TypeOK
<1>9. ASSUME NEW g \in Gateways, Auth(g) PROVE TrustInv'
  <2> DEFINE to == IF trusted[g] /\ received[g] = Message(Peer(g), "RSA")
                   THEN After(g, "auth") ELSE "none"
  <2>1. After(g, "auth") \in Steps
    BY AfterSteps DEF Steps
  <2>2. /\ to \in Steps \cup Outcomes /\ to \notin {"key", "sent"}
        /\ to \in {"send ECC", "recv ECC", "verify"} => trusted[g]
    BY <2>1 DEF Outcomes, Steps
  <2>3. pc' = [pc EXCEPT ![g] = to]
    BY <1>9 DEF Auth
  <2> HIDE DEF to
  <2> QED
    BY <1>2, <1>3, <1>9, <2>2, <2>3 DEF Auth, TrustInv, TypeOK
\* The signature the key depends on.
<1>10. ASSUME NEW g \in Gateways, Verify(g) PROVE TrustInv'
  <2> DEFINE to == IF Verifies(g) THEN "key" ELSE "crashed"
  <2>1. Peer(g) \in Gateways /\ received[g] \in Seq(Chunk) /\ trusted[g]
    BY <1>10, PeerType DEF Verify, TrustInv, TypeOK, Authorized
  <2>2. Verifies(g) => trusted[Peer(g)]
    <3> SUFFICES ASSUME Verifies(g) PROVE trusted[Peer(g)]
      OBVIOUS
    <3>1. Len(received[g]) >= 2 /\ SubSeq(received[g], 1, 2) = Message(Peer(g), "ECC")
      BY DEF Verifies
    <3>2. SubSeq(received[g], 1, 2)[1] = received[g][1]
      BY <2>1, <3>1, SubSeqProperties
    <3>3. received[g][1].kind = "ECC" /\ received[g][1].from = Peer(g)
      BY <2>1, <3>1, <3>2, MessageType DEF Kinds
    <3> QED
      BY <2>1, <3>1, <3>3 DEF TrustInv, Vouched
  <2>3. /\ to \in Outcomes /\ (to = "key" => trusted[g] /\ trusted[Peer(g)])
        /\ to \notin {"send ECC", "recv ECC", "verify", "sent"}
        /\ pc' = [pc EXCEPT ![g] = to]
    BY <1>10, <2>1, <2>2 DEF Verify, Outcomes
  <2> HIDE DEF to
  <2> QED
    BY <1>2, <1>3, <1>10, <2>3 DEF Verify, TrustInv, TypeOK
<1>11. ASSUME NEW g \in Gateways, Transfer(g) PROVE TrustInv'
  <2>1. trusted[g] /\ trusted[Peer(g)]
    BY <1>11 DEF Transfer, TrustInv, Authorized, HasSessionKey
  <2>2. stream' \in [Gateways -> Seq(Chunk)] /\ \A h \in Gateways : Vouched(stream[h])'
    BY <1>11, SendKeeps DEF Transfer, Kinds
  <2>3. \A h \in Gateways : Vouched(received[h])'
    BY <1>11 DEF Transfer, TrustInv, Vouched
  <2> QED
    BY <1>2, <1>11, <2>1, <2>2, <2>3 DEF Transfer, TrustInv, TypeOK
<1>12. ASSUME NEW g \in Gateways, Close(g) PROVE TrustInv'
  <2>1. <<>> \in Seq(Chunk) /\ Len(<<>>) = 0
    OBVIOUS
  <2>2. stream' \in [Gateways -> Seq(Chunk)] /\ closed' \in [Gateways -> BOOLEAN]
        /\ \A h \in Gateways : stream'[h] = stream[h] \/ stream'[h] = <<>>
    BY <1>12, <2>1 DEF Close, TrustInv, TypeOK
  <2>3. \A h \in Gateways : Vouched(stream[h])' /\ Vouched(received[h])'
    BY <1>12, <2>1, <2>2 DEF Close, TrustInv, Vouched
  <2> QED
    BY <1>12, <2>2, <2>3 DEF Close, TrustInv, TypeOK, Authorized, HasSessionKey
<1> QED
  BY <1>1, <1>4, <1>6, <1>7, <1>8, <1>9, <1>10, <1>11, <1>12 DEF Next, Exchange

LEMMA TrustInvariant == SafetySpec => []TrustInv
BY TrustInit, TrustNext, PTL DEF SafetySpec

\* Every variable keeps its type: the streams hold chunks of messages only.
THEOREM ExchangeTypeCorrect == SafetySpec => []TypeOK
<1>1. TrustInv => TypeOK
  BY DEF TrustInv
<1> QED BY <1>1, TrustInvariant, PTL

\* A session key is agreed only between gateways that have stored each other's
\* RSA key, however recv cuts or joins the messages and whoever fails when.
THEOREM KeyNeedsMutualTrust == SafetySpec => []KeyMeansMutualTrust
<1>1. TrustInv => KeyMeansMutualTrust
  BY DEF TrustInv, KeyMeansMutualTrust, Authorized, HasSessionKey
<1> QED BY <1>1, TrustInvariant, PTL


----------------------------------------------------------------------------
(* Unless a message is torn, a gateway takes whole messages, in the order  *)
(* its peer sends them.                                                    *)

\* The chunks a gateway sends, one message after the other.
Script(p, i) == [from |-> p,
                 kind |-> IF i <= 2 THEN "RSA" ELSE IF i <= 4 THEN "ECC" ELSE "packet",
                 part |-> IF i \in {1, 3, 5} THEN 1 ELSE 2]

\* s is the messages after the first k, up to number n, of p.
Messages(s, p, k, n) ==
    /\ s \in Seq(Chunk) /\ Len(s) = 2 * (n - k)
    /\ \A i \in 1 .. Len(s) : s[i] = Script(p, 2 * k + i)

\* How many messages p has sent.
SentBy(p) ==
    IF pc[p] = "sent" THEN 3
    ELSE IF pc[p] \in {"verify", "key"} \/ (pc[p] = "recv ECC" /\ SendsFirst(p)) THEN 2
    ELSE IF pc[p] \in {"auth", "send ECC", "recv ECC"} \/ (pc[p] = "recv RSA" /\ SendsFirst(p)) THEN 1
    ELSE 0

\* What g has got and still has to get.
AwaitsRSA(g) == pc[g] \in {"load", "recv RSA"} \/ (pc[g] = "send RSA" /\ SendsFirst(g))
HasRSA(g)    == pc[g] = "auth" \/ (pc[g] = "send RSA" /\ ~SendsFirst(g))
AwaitsECC(g) == pc[g] = "recv ECC" \/ (pc[g] = "send ECC" /\ SendsFirst(g))
HasECC(g)    == pc[g] = "verify" \/ (pc[g] = "send ECC" /\ ~SendsFirst(g))

InOrder(g, p, n) ==
    /\ AwaitsRSA(g) => Messages(stream[g], p, 0, n)
    /\ HasRSA(g) => \E m \in 1 .. n : /\ Messages(received[g], p, 0, m)
                                      /\ Messages(stream[g], p, m, n)
    /\ AwaitsECC(g) => n >= 1 /\ Messages(stream[g], p, 1, n)
    /\ HasECC(g) => \E m \in 2 .. n : /\ Messages(received[g], p, 1, m)
                                      /\ Messages(stream[g], p, m, n)

Claim(g) == short \/ HasFailed(Peer(g)) \/ InOrder(g, Peer(g), SentBy(Peer(g)))

ScriptInv ==
    /\ TypeOK /\ CrashHasCause
    /\ \A g \in Gateways : (closed[g] => HasFailed(g)) /\ Claim(g)

LEMMA ScriptFacts ==
    ASSUME NEW p \in Gateways, NEW n \in 0 .. 2, NEW kind \in Kinds,
           kind = IF n = 0 THEN "RSA" ELSE IF n = 1 THEN "ECC" ELSE "packet"
    PROVE  /\ Message(p, kind) \in Seq(Chunk) /\ Len(Message(p, kind)) = 2
           /\ \A i \in 1 .. 2 : Message(p, kind)[i] = Script(p, 2 * n + i)
<1>1. Message(p, kind) \in Seq(Chunk) /\ Len(Message(p, kind)) = 2
  BY MessageType
<1>2. /\ Message(p, kind)[1] = [from |-> p, kind |-> kind, part |-> 1]
      /\ Message(p, kind)[2] = [from |-> p, kind |-> kind, part |-> 2]
  BY DEF Message
<1>3. \A i \in 1 .. 2 : Message(p, kind)[i] = Script(p, 2 * n + i)
  <2>1. n = 0 \/ n = 1 \/ n = 2
    OBVIOUS
  <2> QED BY <1>2, <2>1 DEF Script
<1> QED BY <1>1, <1>3

\* The next message of the script is put into the stream.
LEMMA MessageArrives ==
    ASSUME NEW p \in Gateways, NEW n \in 0 .. 2, NEW k \in 0 .. n, NEW kind \in Kinds,
           kind = IF n = 0 THEN "RSA" ELSE IF n = 1 THEN "ECC" ELSE "packet",
           NEW s, Messages(s, p, k, n)
    PROVE  Messages(s \o Message(p, kind), p, k, n + 1)
<1> DEFINE m == Message(p, kind)
           c == s \o m
<1>1. m \in Seq(Chunk) /\ Len(m) = 2 /\ \A i \in 1 .. 2 : m[i] = Script(p, 2 * n + i)
  BY ScriptFacts
<1> HIDE DEF m
<1>2. s \in Seq(Chunk) /\ Len(s) = 2 * (n - k) /\ \A i \in 1 .. Len(s) : s[i] = Script(p, 2 * k + i)
  BY DEF Messages
<1>3. /\ c \in Seq(Chunk) /\ Len(c) = Len(s) + 2
      /\ \A i \in 1 .. Len(s) : c[i] = s[i]
      /\ \A i \in Len(s) + 1 .. Len(s) + 2 : c[i] = m[i - Len(s)]
  BY <1>1, <1>2, ConcatTwo
<1> HIDE DEF c
<1>4. \A i \in 1 .. Len(c) : c[i] = Script(p, 2 * k + i)
  <2> SUFFICES ASSUME NEW i \in 1 .. Len(c) PROVE c[i] = Script(p, 2 * k + i)
    OBVIOUS
  <2>1. CASE i <= Len(s)
    BY <1>2, <1>3, <2>1
  <2>2. CASE i > Len(s)
    <3>1. i \in Nat /\ i > 2 * (n - k) /\ i <= 2 * (n - k) + 2 /\ Len(s) = 2 * (n - k)
      BY <1>2, <1>3, <2>2
    <3>2. i - 2 * (n - k) \in 1 .. 2 /\ 2 * n + (i - 2 * (n - k)) = 2 * k + i
      BY <3>1
    <3>3. i - Len(s) \in 1 .. 2 /\ 2 * n + (i - Len(s)) = 2 * k + i /\ i \in Len(s) + 1 .. Len(s) + 2
      BY <3>1, <3>2
    <3> QED BY <1>1, <1>3, <3>3
  <2>3. i <= Len(s) \/ i > Len(s)
    BY <1>2, <1>3
  <2> QED BY <2>1, <2>2, <2>3
<1> QED BY <1>2, <1>3, <1>4 DEF Messages, c, m

\* A recv that does not tear a message takes whole ones.
LEMMA MessagesTaken ==
    ASSUME NEW p \in Gateways, NEW n \in 0 .. 3, NEW k \in 0 .. n, NEW s, Messages(s, p, k, n),
           NEW l \in 1 .. Len(s), ~IsPart(SubSeq(s, 1, l))
    PROVE  \E m \in k + 1 .. n : /\ Messages(SubSeq(s, 1, l), p, k, m)
                                 /\ Messages(SubSeq(s, l + 1, Len(s)), p, m, n)
<1> DEFINE a == SubSeq(s, 1, l)
           b == SubSeq(s, l + 1, Len(s))
<1>1. s \in Seq(Chunk) /\ Len(s) = 2 * (n - k) /\ \A i \in 1 .. Len(s) : s[i] = Script(p, 2 * k + i)
  BY DEF Messages
<1>2. /\ a \in Seq(Chunk) /\ Len(a) = l /\ \A i \in 1 .. l : a[i] = s[i]
      /\ b \in Seq(Chunk) /\ Len(b) = Len(s) - l /\ \A i \in 1 .. Len(s) - l : b[i] = s[l + i]
  BY <1>1, SubSeqProperties
<1>3. a[Len(a)].part # 1
  BY DEF IsPart
<1> HIDE DEF a, b
<1>4. 2 * k + l \in 1 .. 6 /\ Script(p, 2 * k + l).part # 1
  <2>1. l \in 1 .. Len(s) /\ l \in 1 .. l
    BY <1>1
  <2>2. a[Len(a)] = s[l] /\ s[l] = Script(p, 2 * k + l)
    BY <1>1, <1>2, <2>1
  <2>3. 2 * k + l \in 1 .. 6
    BY <1>1, <2>1
  <2> QED BY <1>3, <2>2, <2>3
<1>5. 2 * k + l \in {2, 4, 6}
  BY <1>4 DEF Script
<1>6. PICK m \in k + 1 .. n : l = 2 * (m - k)
  <2>1. \E m \in 1 .. 3 : 2 * k + l = 2 * m
    BY <1>5
  <2>2. PICK m \in 1 .. 3 : 2 * k + l = 2 * m
    BY <2>1
  <2>3. m \in k + 1 .. n /\ l = 2 * (m - k)
    BY <1>1, <2>2
  <2> QED BY <2>3
<1>7. Messages(a, p, k, m)
  <2>1. \A i \in 1 .. Len(a) : a[i] = Script(p, 2 * k + i)
    BY <1>1, <1>2
  <2> QED BY <1>2, <1>6, <2>1 DEF Messages
<1>8. Messages(b, p, m, n)
  <2>1. Len(b) = 2 * (n - m)
    BY <1>1, <1>2, <1>6
  <2>2. \A i \in 1 .. Len(b) : b[i] = Script(p, 2 * m + i)
    <3> SUFFICES ASSUME NEW i \in 1 .. Len(b) PROVE b[i] = Script(p, 2 * m + i)
      OBVIOUS
    <3>1. l + i \in 1 .. Len(s) /\ i \in 1 .. Len(s) - l /\ 2 * k + (l + i) = 2 * m + i
      BY <1>1, <1>2, <1>6
    <3> QED BY <1>1, <1>2, <3>1
  <2> QED BY <1>2, <2>1, <2>2 DEF Messages
<1> QED BY <1>6, <1>7, <1>8 DEF a, b

LEMMA EccVerifies ==
    ASSUME NEW g \in Gateways, NEW m \in 2 .. 3, Messages(received[g], Peer(g), 1, m)
    PROVE  Verifies(g)
<1> DEFINE p == Peer(g)
           s == received[g]
           e == Message(p, "ECC")
           a == SubSeq(s, 1, 2)
<1>1. p \in Gateways
  BY PeerType
<1> HIDE DEF p, s
<1>2. s \in Seq(Chunk) /\ Len(s) = 2 * (m - 1) /\ \A i \in 1 .. Len(s) : s[i] = Script(p, 2 * 1 + i)
  BY DEF Messages, s, p
<1>3. e \in Seq(Chunk) /\ Len(e) = 2 /\ \A i \in 1 .. 2 : e[i] = Script(p, 2 * 1 + i)
  BY <1>1, ScriptFacts DEF Kinds
<1>4. Len(s) >= 2
  BY <1>2
<1>5. a \in Seq(Chunk) /\ Len(a) = 2 /\ \A i \in 1 .. 2 : a[i] = s[i]
  BY <1>2, <1>4, SubSeqProperties
<1> HIDE DEF a, e
<1>6. a = e
  BY <1>2, <1>3, <1>4, <1>5, SeqEqual
<1> QED BY <1>4, <1>6 DEF Verifies, a, e, s, p

LEMMA ScriptStart == Init => ScriptInv
<1> SUFFICES ASSUME Init PROVE ScriptInv
  OBVIOUS
<1>1. TypeOK
  BY TrustInit DEF TrustInv
<1>2. \A g \in Gateways : pc[g] = "load" /\ stream[g] = <<>> /\ ~closed[g]
  BY DEF Init
<1>3. \A p \in Gateways : Messages(<<>>, p, 0, 0)
  BY DEF Messages
<1>4. \A g \in Gateways : Peer(g) \in Gateways /\ SentBy(Peer(g)) = 0
  BY <1>2, PeerType DEF SentBy
<1>5. \A g \in Gateways : InOrder(g, Peer(g), SentBy(Peer(g)))
  BY <1>2, <1>3, <1>4 DEF InOrder, AwaitsRSA, HasRSA, AwaitsECC, HasECC
<1> QED BY <1>1, <1>2, <1>5 DEF ScriptInv, CrashHasCause, Claim

\* What every step of a leaves as it is, and the other gateway with it.
LEMMA OneMoves ==
    ASSUME TypeOK, NEW a \in Gateways, Exchange(a)
    PROVE  /\ address' = address /\ hasKey' = hasKey /\ (short => short')
           /\ \A g \in Gateways : SendsFirst(g)' = SendsFirst(g)
           /\ \A g \in Gateways \ {a} : pc'[g] = pc[g] /\ received'[g] = received[g] /\ closed'[g] = closed[g]
<1>1. address' = address /\ hasKey' = hasKey
  BY DEF Exchange, Load, SendRSA, SendECC, Recv, SocketRaises, Auth, Verify, Transfer, Close
<1>0. short => short'
  <2>1. CASE Recv(a)
    BY <2>1, Zenon DEF Recv
  <2>2. CASE ~Recv(a)
    <3>1. short' = short
      BY <2>2 DEF Exchange, Load, SendRSA, SendECC, SocketRaises, Auth, Verify, Transfer, Close
    <3> QED BY <3>1
  <2> QED BY <2>1, <2>2
<1>2. \A g \in Gateways \ {a} : pc'[g] = pc[g]
  BY DEF TypeOK, Exchange, Load, SendRSA, SendECC, Recv, SocketRaises, Auth, Verify, Transfer, Close
<1>3. \A g \in Gateways \ {a} : received'[g] = received[g]
  BY DEF TypeOK, Exchange, Load, SendRSA, SendECC, Recv, SocketRaises, Auth, Verify, Transfer, Close
<1>4. \A g \in Gateways \ {a} : closed'[g] = closed[g]
  BY DEF TypeOK, Exchange, Load, SendRSA, SendECC, Recv, SocketRaises, Auth, Verify, Transfer, Close
<1> QED BY <1>0, <1>1, <1>2, <1>3, <1>4 DEF SendsFirst

\* A message put into the stream of the other, unless its end is closed.
LEMMA SendAppends ==
    ASSUME TypeOK, NEW a \in Gateways, NEW kind \in Kinds, SendTo(a, kind)
    PROVE  /\ stream'[a] = stream[a]
           /\ ~closed[Peer(a)] => stream'[Peer(a)] = stream[Peer(a)] \o Message(a, kind)
BY PeerType DEF SendTo, TypeOK

\* The end that a step of its peer is about.
LEMMA PeerSteps ==
    ASSUME ScriptInv, NEW a \in Gateways, Exchange(a)
    PROVE  Claim(Peer(a))'
<1> DEFINE g == Peer(a)
<1>1. g \in Gateways /\ Peer(g) = a /\ g # a
  BY PeerType
<1> SUFFICES Claim(g)'
  OBVIOUS
<1> HIDE DEF g
<1>2. TypeOK /\ (closed[g] => HasFailed(g)) /\ Claim(g)
  BY <1>1 DEF ScriptInv
<1>3. /\ (short => short') /\ SendsFirst(g)' = SendsFirst(g) /\ SendsFirst(a)' = SendsFirst(a)
      /\ pc'[g] = pc[g] /\ received'[g] = received[g]
  BY <1>1, <1>2, OneMoves
<1>4. ASSUME HasFailed(a)' PROVE Claim(g)'
  BY <1>1, <1>4 DEF Claim
<1>5. ASSUME SentBy(a)' = SentBy(a), stream'[g] = stream[g], ~HasFailed(a) PROVE Claim(g)'
  BY <1>1, <1>2, <1>3, <1>5 DEF Claim, InOrder, AwaitsRSA, HasRSA, AwaitsECC, HasECC
<1>6. ASSUME NEW n \in 0 .. 2, NEW kind \in Kinds, SendTo(a, kind), ~HasFailed(a),
             kind = IF n = 0 THEN "RSA" ELSE IF n = 1 THEN "ECC" ELSE "packet",
             SentBy(a) = n, SentBy(a)' = n + 1, short' = short
      PROVE  Claim(g)'
  <2>1. CASE short
    BY <1>6, <2>1 DEF Claim
  <2>2. CASE closed[g]
    <3>1. HasFailed(g)
      BY <1>2, <2>2
    <3>2. InOrder(g, a, n + 1)'
      BY <1>3, <3>1 DEF InOrder, AwaitsRSA, HasRSA, AwaitsECC, HasECC, HasFailed
    <3> QED BY <1>1, <1>6, <3>2 DEF Claim
  <2>3. CASE ~short /\ ~closed[g]
    <3>1. InOrder(g, a, n)
      BY <1>1, <1>2, <1>6, <2>3 DEF Claim
    <3>2. stream'[g] = stream[g] \o Message(a, kind)
      BY <1>1, <1>2, <1>6, <2>3, SendAppends DEF g
    <3>3. \A k \in 0 .. n : Messages(stream[g], a, k, n) => Messages(stream'[g], a, k, n + 1)
      BY <1>6, <3>2, MessageArrives
    <3>4. InOrder(g, a, n + 1)'
      <4>1. AwaitsRSA(g) => Messages(stream'[g], a, 0, n + 1)
        BY <3>1, <3>3 DEF InOrder
      <4>2. HasRSA(g) => \E m \in 1 .. n + 1 : /\ Messages(received[g], a, 0, m)
                                               /\ Messages(stream'[g], a, m, n + 1)
        BY <3>1, <3>3 DEF InOrder
      <4>3. AwaitsECC(g) => n + 1 >= 1 /\ Messages(stream'[g], a, 1, n + 1)
        BY <3>1, <3>3 DEF InOrder
      <4>4. HasECC(g) => \E m \in 2 .. n + 1 : /\ Messages(received[g], a, 1, m)
                                               /\ Messages(stream'[g], a, m, n + 1)
        BY <3>1, <3>3 DEF InOrder
      <4> QED
        BY <1>3, <4>1, <4>2, <4>3, <4>4 DEF InOrder, AwaitsRSA, HasRSA, AwaitsECC, HasECC
    <3> QED BY <1>1, <1>6, <3>4 DEF Claim
  <2> QED BY <2>1, <2>2, <2>3
<1>7. ASSUME NEW to, pc' = [pc EXCEPT ![a] = to] PROVE pc'[a] = to
  BY <1>2, <1>7 DEF TypeOK
<1>8. CASE Load(a)
  <2>1. stream' = stream /\ pc[a] = "load" /\ pc'[a] \in {"crashed", "send RSA", "recv RSA"}
        /\ (pc'[a] = "recv RSA" => ~SendsFirst(a))
    BY <1>2, <1>8 DEF Load, After, TypeOK
  <2> QED BY <1>3, <1>4, <1>5, <2>1 DEF SentBy, HasFailed
<1>9. CASE SendRSA(a)
  <2>1. SentBy(a) = 0 /\ SentBy(a)' = 1 /\ ~HasFailed(a)
    BY <1>2, <1>3, <1>9 DEF SendRSA, After, SentBy, HasFailed, TypeOK
  <2>2. SendTo(a, "RSA") /\ short' = short /\ "RSA" \in Kinds
    BY <1>9 DEF SendRSA, Kinds
  <2>3. "RSA" = (IF 0 = 0 THEN "RSA" ELSE IF 0 = 1 THEN "ECC" ELSE "packet") /\ 0 \in 0 .. 2 /\ 1 = 0 + 1
    OBVIOUS
  <2> QED BY <1>6, <2>1, <2>2, <2>3
<1>10. CASE SendECC(a)
  <2>1. SentBy(a) = 1 /\ SentBy(a)' = 2 /\ ~HasFailed(a)
    BY <1>2, <1>3, <1>10 DEF SendECC, After, SentBy, HasFailed, TypeOK
  <2>2. SendTo(a, "ECC") /\ short' = short /\ "ECC" \in Kinds
    BY <1>10 DEF SendECC, Kinds
  <2>3. "ECC" = (IF 1 = 0 THEN "RSA" ELSE IF 1 = 1 THEN "ECC" ELSE "packet") /\ 1 \in 0 .. 2 /\ 2 = 1 + 1
    OBVIOUS
  <2> QED BY <1>6, <2>1, <2>2, <2>3
<1>11. CASE Recv(a)
  <2>1. stream'[g] = stream[g]
    BY <1>1, <1>2, <1>11 DEF Recv, TypeOK
  <2>2. SentBy(a)' = SentBy(a) /\ ~HasFailed(a)
    BY <1>2, <1>3, <1>11 DEF Recv, After, SentBy, HasFailed, TypeOK
  <2> QED BY <1>5, <2>1, <2>2
<1>12. CASE SocketRaises(a)
  <2>1. HasFailed(a)'
    BY <1>7, <1>12 DEF SocketRaises, HasFailed
  <2> QED BY <1>4, <2>1
<1>13. CASE Auth(a)
  <2>1. pc[a] = "auth" /\ stream' = stream /\ pc'[a] \in {"none", "send ECC", "recv ECC"}
        /\ (pc'[a] = "recv ECC" => ~SendsFirst(a))
    BY <1>2, <1>13 DEF Auth, After, TypeOK
  <2> QED BY <1>3, <1>4, <1>5, <2>1 DEF SentBy, HasFailed
<1>14. CASE Verify(a)
  <2>1. pc[a] = "verify" /\ stream' = stream /\ pc'[a] \in {"key", "crashed"}
    BY <1>2, <1>14 DEF Verify, TypeOK
  <2> QED BY <1>4, <1>5, <2>1 DEF SentBy, HasFailed
<1>15. CASE Transfer(a)
  <2>1. SentBy(a) = 2 /\ SentBy(a)' = 3 /\ ~HasFailed(a)
    BY <1>2, <1>15 DEF Transfer, SentBy, HasFailed, TypeOK
  <2> QED BY <1>6, <1>15, <2>1 DEF Transfer, Kinds
<1>16. CASE Close(a)
  BY <1>4, <1>16 DEF Close, HasFailed
<1> QED
  BY <1>8, <1>9, <1>10, <1>11, <1>12, <1>13, <1>14, <1>15, <1>16 DEF Exchange

\* The end that moves.
LEMMA OwnSteps ==
    ASSUME ScriptInv, NEW g \in Gateways, Exchange(g)
    PROVE  Claim(g)'
<1> DEFINE p == Peer(g)
<1>1. TypeOK /\ p \in Gateways /\ p # g /\ (closed[p] => HasFailed(p)) /\ Claim(g)
  BY PeerType DEF ScriptInv
<1>2. /\ (short => short') /\ SendsFirst(g)' = SendsFirst(g) /\ SendsFirst(p)' = SendsFirst(p)
      /\ pc'[p] = pc[p]
  BY <1>1, OneMoves
<1>3. (HasFailed(p)' <=> HasFailed(p)) /\ SentBy(p)' = SentBy(p)
  BY <1>2 DEF HasFailed, SentBy
<1>4. PICK n \in 0 .. 3 : SentBy(p) = n
  BY DEF SentBy
<1> SUFFICES ASSUME ~short', ~HasFailed(p) PROVE InOrder(g, p, n)'
  BY <1>3, <1>4 DEF Claim
<1>5. ~closed[p] /\ InOrder(g, p, n)
  BY <1>1, <1>2, <1>4, Zenon DEF Claim
<1>6. \A to : pc' = [pc EXCEPT ![g] = to] => pc'[g] = to
  BY <1>1 DEF TypeOK
<1>7. \A kind \in Kinds : SendTo(g, kind) => stream'[g] = stream[g]
  BY <1>1, SendAppends
<1> HIDE DEF p
\* A step that leaves what is there to be taken, and what was.
<1>8. ASSUME stream'[g] = stream[g], received'[g] = received[g],
             AwaitsRSA(g)' => AwaitsRSA(g), HasRSA(g)' => HasRSA(g),
             AwaitsECC(g)' => AwaitsECC(g), HasECC(g)' => HasECC(g)
      PROVE  InOrder(g, p, n)'
  BY <1>5, <1>8 DEF InOrder
<1>9. CASE Load(g)
  <2>1. /\ UNCHANGED <<stream, received>> /\ pc[g] = "load"
        /\ pc'[g] = IF hasKey[g] THEN After(g, "load") ELSE "crashed"
    BY <1>6, <1>9 DEF Load
  <2> QED BY <1>2, <1>8, <2>1 DEF After, AwaitsRSA, HasRSA, AwaitsECC, HasECC
<1>10. CASE SendRSA(g)
  <2>1. /\ stream'[g] = stream[g] /\ UNCHANGED received /\ pc[g] = "send RSA"
        /\ pc'[g] = After(g, "send RSA")
    BY <1>6, <1>7, <1>10 DEF SendRSA, Kinds
  <2> QED BY <1>2, <1>8, <2>1 DEF After, AwaitsRSA, HasRSA, AwaitsECC, HasECC
<1>11. CASE SendECC(g)
  <2>1. /\ stream'[g] = stream[g] /\ UNCHANGED received /\ pc[g] = "send ECC"
        /\ pc'[g] = After(g, "send ECC")
    BY <1>6, <1>7, <1>11 DEF SendECC, Kinds
  <2> QED BY <1>2, <1>8, <2>1 DEF After, AwaitsRSA, HasRSA, AwaitsECC, HasECC
<1>12. CASE Recv(g)
  <2>1. pc[g] \in {"recv RSA", "recv ECC"} /\ pc'[g] = After(g, pc[g])
    BY <1>6, <1>12 DEF Recv
  <2>2. PICK l \in 1 .. Len(stream[g]) :
             /\ received' = [received EXCEPT ![g] = SubSeq(stream[g], 1, l)]
             /\ stream' = [stream EXCEPT ![g] = SubSeq(@, l + 1, Len(@))]
             /\ short' = (short \/ IsPart(SubSeq(stream[g], 1, l)))
    BY <1>5, <1>12, Zenon DEF Recv, p
  <2> DEFINE s == stream[g]
  <2>3. received'[g] = SubSeq(s, 1, l) /\ stream'[g] = SubSeq(s, l + 1, Len(s))
    BY <1>1, <2>2 DEF TypeOK
  <2>4. ~IsPart(SubSeq(s, 1, l))
    BY <2>2, Zenon
  <2>5. \A k \in 0 .. n : Messages(s, p, k, n) =>
            \E m \in k + 1 .. n : /\ Messages(received'[g], p, k, m)
                                  /\ Messages(stream'[g], p, m, n)
    BY <1>1, <2>2, <2>3, <2>4, MessagesTaken
  <2>6. CASE pc[g] = "recv RSA"
    <3>1. \E m \in 1 .. n : /\ Messages(received'[g], p, 0, m)
                            /\ Messages(stream'[g], p, m, n)
      <4>1. Messages(stream[g], p, 0, n)
        BY <1>5, <2>6, Zenon DEF InOrder, AwaitsRSA
      <4>2. 0 \in 0 .. n /\ 0 + 1 = 1
        OBVIOUS
      <4> QED BY <2>5, <4>1, <4>2
    <3>2. pc'[g] = IF SendsFirst(g) THEN "auth" ELSE "send RSA"
      BY <2>1, <2>6 DEF After
    <3> QED BY <1>2, <3>1, <3>2 DEF InOrder, AwaitsRSA, HasRSA, AwaitsECC, HasECC
  <2>7. CASE pc[g] = "recv ECC"
    <3>1. \E m \in 2 .. n : /\ Messages(received'[g], p, 1, m)
                            /\ Messages(stream'[g], p, m, n)
      <4>1. n >= 1 /\ Messages(stream[g], p, 1, n)
        BY <1>5, <2>7, Zenon DEF InOrder, AwaitsECC
      <4>2. 1 \in 0 .. n /\ 1 + 1 = 2
        BY <4>1
      <4> QED BY <2>5, <4>1, <4>2
    <3>2. pc'[g] = IF SendsFirst(g) THEN "verify" ELSE "send ECC"
      BY <2>1, <2>7 DEF After
    <3> QED BY <1>2, <3>1, <3>2 DEF InOrder, AwaitsRSA, HasRSA, AwaitsECC, HasECC
  <2> QED BY <2>1, <2>6, <2>7
<1>13. CASE Auth(g)
  <2>1. /\ UNCHANGED <<stream, received>> /\ pc[g] = "auth"
        /\ pc'[g] = IF trusted[g] /\ received[g] = Message(p, "RSA") THEN After(g, "auth") ELSE "none"
    BY <1>6, <1>13 DEF Auth, p
  <2>2. CASE pc'[g] = "none"
    BY <1>8, <2>1, <2>2 DEF AwaitsRSA, HasRSA, AwaitsECC, HasECC
  <2>3. CASE pc'[g] # "none"
    <3>1. received[g] = Message(p, "RSA") /\ pc'[g] = IF SendsFirst(g) THEN "send ECC" ELSE "recv ECC"
      BY <2>1, <2>3 DEF After
    <3>2. PICK m \in 1 .. n : Messages(received[g], p, 0, m) /\ Messages(stream[g], p, m, n)
      BY <1>5, <2>1 DEF InOrder, HasRSA
    <3>3. m = 1
      <4>1. Len(received[g]) = 2
        <5>1. Len(Message(p, "RSA")) = 2
          BY <1>1 DEF Message
        <5> QED BY <3>1, <5>1
      <4> QED BY <3>2, <4>1 DEF Messages
    <3>4. n >= 1 /\ Messages(stream'[g], p, 1, n)
      BY <2>1, <3>2, <3>3
    <3> QED BY <1>2, <3>1, <3>4 DEF InOrder, AwaitsRSA, HasRSA, AwaitsECC, HasECC
  <2> QED BY <2>2, <2>3
<1>14. CASE pc'[g] \in {"key", "sent", "none", "crashed"}
  BY <1>14 DEF InOrder, AwaitsRSA, HasRSA, AwaitsECC, HasECC
<1>15. SocketRaises(g) \/ Verify(g) \/ Transfer(g) \/ Close(g)
         => pc'[g] \in {"key", "sent", "none", "crashed"}
  BY <1>6 DEF SocketRaises, Verify, Transfer, Close
<1> QED
  BY <1>9, <1>10, <1>11, <1>12, <1>13, <1>14, <1>15 DEF Exchange

LEMMA ScriptNext == ScriptInv /\ TypeOK' /\ [Next]_vars => ScriptInv'
<1> SUFFICES ASSUME ScriptInv, TypeOK', [Next]_vars PROVE ScriptInv'
  OBVIOUS
<1>1. CASE UNCHANGED vars
  <2>1. UNCHANGED <<address, pc, stream, received, closed, short, hasKey>>
    BY <1>1 DEF vars
  <2>2. \A g \in Gateways : SentBy(Peer(g))' = SentBy(Peer(g)) /\ (HasFailed(g)' <=> HasFailed(g))
                           /\ (HasFailed(Peer(g))' <=> HasFailed(Peer(g)))
    BY <2>1 DEF SentBy, SendsFirst, HasFailed
  <2>3. \A g \in Gateways : Claim(g)'
    BY <2>1, <2>2 DEF ScriptInv, Claim, InOrder, SendsFirst, AwaitsRSA, HasRSA, AwaitsECC, HasECC
  <2> QED BY <2>1, <2>2, <2>3 DEF ScriptInv, CrashHasCause
<1>2. ASSUME NEW a \in Gateways, Exchange(a) PROVE ScriptInv'
  <2>1. TypeOK
    BY DEF ScriptInv
  <2>2. /\ hasKey' = hasKey /\ (short => short')
        /\ \A g \in Gateways \ {a} : pc'[g] = pc[g] /\ closed'[g] = closed[g]
    BY <1>2, <2>1, OneMoves
  <2>3. \A g \in Gateways : g = a \/ g = Peer(a)
    BY DEF Gateways, Peer
  <2>4. \A g \in Gateways : Claim(g)'
    BY <1>2, <2>3, OwnSteps, PeerSteps
  <2>5. HasFailed(a) => HasFailed(a)'
    BY <1>2, <2>1 DEF HasFailed, TypeOK, Exchange, Load, SendRSA, SendECC, Recv, SocketRaises, Auth,
                      Verify, Transfer, Close
  <2>6. \A g \in Gateways : HasFailed(g) => HasFailed(g)'
    BY <2>2, <2>5 DEF HasFailed
  <2>7. closed'[a] => closed[a] \/ HasFailed(a)
    BY <1>2, <2>1 DEF HasFailed, TypeOK, Exchange, Load, SendRSA, SendECC, Recv, SocketRaises, Auth,
                      Verify, Transfer, Close
  <2>8. \A g \in Gateways : closed'[g] => HasFailed(g)'
    BY <2>2, <2>6, <2>7 DEF ScriptInv
  <2>9. CrashHasCause'
    <3> SUFFICES ASSUME NEW g \in Gateways, pc'[g] = "crashed"
                 PROVE  ~hasKey'[g] \/ short' \/ HasFailed(Peer(g))'
      BY DEF CrashHasCause
    <3>1. Peer(g) \in Gateways
      BY PeerType
    <3>2. SUFFICES ~hasKey[g] \/ short \/ HasFailed(Peer(g))
      BY <2>2, <2>6, <3>1, Zenon
    <3>3. CASE pc[g] = "crashed"
      BY <3>3 DEF ScriptInv, CrashHasCause
    <3>4. CASE pc[g] # "crashed"
      <4>1. g = a
        BY <2>2, <3>4
      <4>2. (Load(g) /\ ~hasKey[g]) \/ SocketRaises(g) \/ (Verify(g) /\ ~Verifies(g))
        <5>1. \A to : pc' = [pc EXCEPT ![g] = to] => to = "crashed"
          BY <2>1 DEF TypeOK
        <5>2. ~SendRSA(g) /\ ~SendECC(g) /\ ~Auth(g) /\ ~Transfer(g)
          BY <5>1 DEF SendRSA, SendECC, Auth, Transfer, After
        <5>3. ~Recv(g) /\ ~Close(g)
          BY <3>4, <5>1 DEF Recv, Close, After
        <5>4. Load(g) => ~hasKey[g]
          BY <5>1 DEF Load, After
        <5>5. Verify(g) => ~Verifies(g)
          BY <5>1 DEF Verify
        <5> QED BY <1>2, <4>1, <5>2, <5>3, <5>4, <5>5 DEF Exchange
      <4>3. SocketRaises(g) => HasFailed(Peer(g))
        BY <3>1 DEF SocketRaises, ScriptInv
      <4>4. ASSUME Verify(g), ~Verifies(g), ~short, ~HasFailed(Peer(g)) PROVE FALSE
        <5>1. InOrder(g, Peer(g), SentBy(Peer(g))) /\ pc[g] = "verify"
          BY <4>4 DEF ScriptInv, Claim, Verify
        <5>2. SentBy(Peer(g)) \in 0 .. 3
          BY DEF SentBy
        <5>3. \E m \in 2 .. 3 : Messages(received[g], Peer(g), 1, m)
          BY <5>1, <5>2 DEF InOrder, HasECC
        <5> QED BY <4>4, <5>3, EccVerifies
      <4> QED BY <4>2, <4>3, <4>4
    <3> QED BY <3>3, <3>4
  <2> QED BY <2>4, <2>8, <2>9 DEF ScriptInv
<1> QED BY <1>1, <1>2 DEF Next

\* The program of a gateway only ends in the exchange without a key in its TPM, after a
\* message was torn, or after its peer has failed (key_exchange_routine): the two ends
\* never take each other's messages out of step, whatever recv joins.
THEOREM CrashesHaveCause == SafetySpec => []CrashHasCause
<1>1. TrustInv => TypeOK
  BY DEF TrustInv
<1>2. ScriptInv => CrashHasCause
  BY DEF ScriptInv
<1>3. Init => ScriptInv
  BY ScriptStart
<1>4. ScriptInv /\ TypeOK' /\ [Next]_vars => ScriptInv'
  BY ScriptNext
<1>5. SafetySpec => []TypeOK
  BY <1>1, TrustInvariant, PTL
<1> QED BY <1>2, <1>3, <1>4, <1>5, PTL DEF SafetySpec
=============================================================================
