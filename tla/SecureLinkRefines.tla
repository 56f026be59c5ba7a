------------------------- MODULE SecureLinkRefines -------------------------
(***************************************************************************)
(* SecureLink implements ReliableLink: what the devices see, step by step, *)
(* for every window, every set of payloads and of ephemeral keys.          *)
(***************************************************************************)
EXTENDS SecureLinkProofs

Data(w) == [i \in 1..Len(w) |-> w[i].data]

LEMMA DataType ==
    ASSUME NEW w \in Seq(Packet)
    PROVE  Data(w) \in Seq(Payloads) /\ Len(Data(w)) = Len(w)
<1>1. \A i \in 1..Len(w) : w[i].data \in Payloads
  <2>1. \A i \in 1..Len(w) : w[i] \in Packet
    BY ElementOfSeq
  <2> QED BY <2>1 DEF Packet
<1> QED BY <1>1 DEF Data

LEMMA DataAppend ==
    ASSUME NEW w \in Seq(Packet), NEW p \in Packet
    PROVE  Data(Append(w, p)) = Append(Data(w), p.data)
<1>1. Data(w) \in Seq(Payloads) /\ Len(Data(w)) = Len(w) /\ p.data \in Payloads
  BY DataType DEF Packet
<1>2. /\ Append(w, p) \in Seq(Packet)
      /\ Len(Append(w, p)) = Len(w) + 1
      /\ \A i \in 1..Len(w) : Append(w, p)[i] = w[i]
      /\ Append(w, p)[Len(w) + 1] = p
  BY AppendProperties
<1>3. /\ Data(Append(w, p)) \in Seq(Payloads)
      /\ Len(Data(Append(w, p))) = Len(w) + 1
  BY <1>2, DataType
<1>4. /\ Append(Data(w), p.data) \in Seq(Payloads)
      /\ Len(Append(Data(w), p.data)) = Len(w) + 1
      /\ \A i \in 1..Len(w) : Append(Data(w), p.data)[i] = Data(w)[i]
      /\ Append(Data(w), p.data)[Len(w) + 1] = p.data
  BY <1>1, AppendProperties
<1>5. \A i \in 1..Len(w) + 1 : Data(Append(w, p))[i] = Append(Data(w), p.data)[i]
  BY <1>1, <1>2, <1>3, <1>4 DEF Data
<1> QED BY <1>3, <1>4, <1>5, SeqEqual

LEMMA DataTail ==
    ASSUME NEW w \in Seq(Packet), w # <<>>
    PROVE  /\ Data(w) # <<>>
           /\ Head(Data(w)) = Head(w).data
           /\ Tail(Data(w)) = Data(Tail(w))
<1>1. Data(w) \in Seq(Payloads) /\ Len(Data(w)) = Len(w) /\ Len(w) # 0
  BY DataType, EmptySeq
<1>2. Data(w) # <<>>
  BY <1>1, EmptySeq
<1>3. /\ Tail(w) \in Seq(Packet) /\ Len(Tail(w)) = Len(w) - 1
      /\ \A i \in 1..Len(Tail(w)) : Tail(w)[i] = w[i + 1]
  BY HeadTailProperties
<1>4. /\ Tail(Data(w)) \in Seq(Payloads) /\ Len(Tail(Data(w))) = Len(w) - 1
      /\ \A i \in 1..Len(Tail(Data(w))) : Tail(Data(w))[i] = Data(w)[i + 1]
  BY <1>1, <1>2, HeadTailProperties
<1>5. Data(Tail(w)) \in Seq(Payloads) /\ Len(Data(Tail(w))) = Len(w) - 1
  BY <1>3, DataType
<1>6. \A i \in 1..Len(w) - 1 : Tail(Data(w))[i] = Data(Tail(w))[i]
  BY <1>1, <1>3, <1>4, <1>5 DEF Data
<1>7. Head(Data(w)) = Head(w).data
  BY <1>1 DEF Data
<1> QED BY <1>2, <1>4, <1>5, <1>6, <1>7, SeqEqual

LEMMA ConcatAppend ==
    ASSUME NEW S, NEW s \in Seq(S), NEW t \in Seq(S), NEW d \in S
    PROVE  s \o Append(t, d) = Append(s \o t, d)
OBVIOUS

LEMMA ConcatMove ==
    ASSUME NEW S, NEW s \in Seq(S), NEW t \in Seq(S), t # <<>>
    PROVE  Append(s, Head(t)) \o Tail(t) = s \o t
OBVIOUS

LEMMA ConcatTail ==
    ASSUME NEW S, NEW s \in Seq(S), NEW t \in Seq(S), s # <<>>
    PROVE  s \o t # <<>> /\ Tail(s \o t) = Tail(s) \o t
OBVIOUS

-----------------------------------------------------------------------------
(***************************************************************************)
(* Steps of the devices' view.                                             *)
(***************************************************************************)
LEMMA QueueType ==
    ASSUME TypeOK, NEW g \in Gateways
    PROVE  /\ LinkQueue[g] = Data(wire[g]) \o outbox[Peer(g)]
           /\ Data(wire[g]) \in Seq(Payloads)
           /\ outbox[Peer(g)] \in Seq(Payloads)
BY PeerType, DataType DEF TypeOK, LinkQueue, Data

\* Neither thread's work inside the cipher is seen.
LEMMA QueueUnchanged ==
    ASSUME UNCHANGED <<wire, outbox>>
    PROVE  LinkQueue' = LinkQueue
BY DEF LinkQueue

\* A payload leaves the queue of g when its packet leaves the wire.
LEMMA QueueTail ==
    ASSUME TypeOK, NEW g \in Gateways, wire[g] # <<>>,
           wire' = [wire EXCEPT ![g] = Tail(@)], UNCHANGED outbox
    PROVE  LinkQueue[g] # <<>> /\ LinkQueue' = [LinkQueue EXCEPT ![g] = Tail(@)]
<1>1. /\ Data(wire[g]) # <<>> /\ Data(Tail(wire[g])) = Tail(Data(wire[g]))
  BY DataTail DEF TypeOK
<1>2. LinkQueue[g] = Data(wire[g]) \o outbox[Peer(g)]
  BY QueueType
<1>3. /\ LinkQueue[g] # <<>>
      /\ Tail(LinkQueue[g]) = Data(Tail(wire[g])) \o outbox[Peer(g)]
  BY <1>1, <1>2, QueueType, ConcatTail
<1>4. wire'[g] = Tail(wire[g]) /\ \A y \in Gateways : y # g => wire'[y] = wire[y]
  BY DEF TypeOK
<1>5. LinkQueue' = [y \in Gateways |-> Data(wire'[y]) \o outbox[Peer(y)]]
  BY DEF LinkQueue, Data
<1>6. LinkQueue = [y \in Gateways |-> Data(wire[y]) \o outbox[Peer(y)]]
  BY DEF LinkQueue, Data
<1>7. LinkQueue'[g] = Tail(LinkQueue[g]) /\ \A y \in Gateways : y # g => LinkQueue'[y] = LinkQueue[y]
  <2>1. LinkQueue'[g] = Data(Tail(wire[g])) \o outbox[Peer(g)]
    BY <1>4, <1>5
  <2>2. \A y \in Gateways : y # g => LinkQueue'[y] = Data(wire[y]) \o outbox[Peer(y)]
    BY <1>4, <1>5
  <2> QED BY <1>3, <1>6, <2>1, <2>2
<1> HIDE DEF LinkQueue
<1>8. LinkQueue' = [LinkQueue EXCEPT ![g] = Tail(@)]
  BY <1>5, <1>6, <1>7
<1> QED BY <1>3, <1>8

LEMMA LinkSubmit ==
    ASSUME TypeOK, NEW g \in Gateways, Submit(g)
    PROVE  Link!Submit(g)
<1>1. PICK d \in Payloads : outbox' = [outbox EXCEPT ![g] = Append(@, d)]
  BY DEF Submit
<1>2. Peer(g) \in Gateways /\ Peer(Peer(g)) = g
      /\ \A y \in Gateways : y # Peer(g) => Peer(y) # g
  BY PeerType DEF Gateways, Peer
<1>3. outbox'[g] = Append(outbox[g], d)
      /\ \A y \in Gateways : y # g => outbox'[y] = outbox[y]
  BY <1>1 DEF TypeOK
<1>4. Data(wire[Peer(g)]) \o Append(outbox[g], d) = Append(LinkQueue[Peer(g)], d)
  <2>1. /\ Data(wire[Peer(g)]) \in Seq(Payloads) /\ outbox[g] \in Seq(Payloads)
        /\ LinkQueue[Peer(g)] = Data(wire[Peer(g)]) \o outbox[g]
    BY <1>2, QueueType
  <2>2. \A s, t \in Seq(Payloads) : s \o Append(t, d) = Append(s \o t, d)
    BY <1>1, ConcatAppend
  <2> QED BY <2>1, <2>2
<1>5. LinkQueue' = [y \in Gateways |-> Data(wire[y]) \o outbox'[Peer(y)]]
  BY DEF LinkQueue, Data, Submit
<1>6. LinkQueue = [y \in Gateways |-> Data(wire[y]) \o outbox[Peer(y)]]
  BY DEF LinkQueue, Data
<1>7. \A y \in Gateways : Peer(y) \in Gateways
  BY PeerType
<1>8. LinkQueue' = [LinkQueue EXCEPT ![Peer(g)] = Append(@, d)]
  BY <1>2, <1>3, <1>4, <1>5, <1>6, <1>7
<1>9. owed[g] > 0 /\ owed' = [owed EXCEPT ![g] = @ - 1]
  BY DEF Submit
<1> QED BY <1>8, <1>9 DEF Link!Submit, Link!Peer, Peer

\* Sealing moves the payload from the outbox to the wire: the queue is the same.
LEMMA LinkSeal ==
    ASSUME TypeInv, NEW g \in Gateways, EncSealAndSend(g)
    PROVE  LinkQueue' = LinkQueue
<1> DEFINE h == Peer(g)
           p == [flag |-> enc[g].flag, pub |-> enc[g].pub,
                 key |-> key[g], data |-> Head(outbox[g])]
<1>1. outbox[g] # <<>> /\ outbox[g] \in Seq(Payloads) /\ Head(outbox[g]) \in Payloads
  BY DEF EncSealAndSend, TypeInv, ThreadsHaveInput, TypeOK
<1>2. p \in Packet /\ p.data = Head(outbox[g])
  BY <1>1 DEF Packet, TypeInv, TypeOK, EncState
<1>3. h \in Gateways /\ Peer(h) = g /\ \A y \in Gateways : y # h => Peer(y) # g
  BY PeerType DEF Gateways, Peer
<1>4. wire[h] \in Seq(Packet) /\ Data(wire[h]) \in Seq(Payloads)
  BY <1>3, DataType DEF TypeInv, TypeOK
<1>5. /\ wire'[h] = Append(wire[h], p) /\ outbox'[g] = Tail(outbox[g])
      /\ \A y \in Gateways : y # h => wire'[y] = wire[y]
      /\ \A y \in Gateways : y # g => outbox'[y] = outbox[y]
  BY <1>3 DEF EncSealAndSend, TypeInv, TypeOK
<1> HIDE DEF p
<1>6. Data(Append(wire[h], p)) = Append(Data(wire[h]), Head(outbox[g]))
  BY <1>2, <1>4, DataAppend
<1>7. Append(Data(wire[h]), Head(outbox[g])) \o Tail(outbox[g]) = Data(wire[h]) \o outbox[g]
  BY <1>1, <1>4, ConcatMove
<1> HIDE DEF h
<1>8. Data(wire'[h]) \o outbox'[g] = Data(wire[h]) \o outbox[g]
  BY <1>5, <1>6, <1>7
<1>9. LinkQueue' = [y \in Gateways |-> Data(wire'[y]) \o outbox'[Peer(y)]]
  BY DEF LinkQueue, Data
<1>10. LinkQueue = [y \in Gateways |-> Data(wire[y]) \o outbox[Peer(y)]]
  BY DEF LinkQueue, Data
<1>11. \A y \in Gateways : Peer(y) \in Gateways
  BY PeerType
<1> QED BY <1>3, <1>5, <1>8, <1>9, <1>10, <1>11

LEMMA LinkDeliver ==
    ASSUME TypeInv, NEW g \in Gateways, dec[g] # "idle", HandToDevice(g), UNCHANGED outbox
    PROVE  Link!Deliver(g)
<1>1. wire[g] # <<>>
  BY DEF TypeInv, ThreadsHaveInput
<1> QED BY <1>1, QueueTail DEF HandToDevice, TypeInv, Link!Deliver

LEMMA LinkLose ==
    ASSUME TypeInv, NEW g \in Gateways, wire[g] # <<>>,
           wire' = [wire EXCEPT ![g] = Tail(@)], UNCHANGED <<outbox, owed>>
    PROVE  Link!Lose(g)
BY QueueTail DEF TypeInv, Link!Lose

LEMMA LinkRetry ==
    ASSUME TypeInv, Retry
    PROVE  Link!Retry
<1> DEFINE a == Len(outbox[Server])
           b == Len(outbox[Client])
           c == Len(wire[Client])
           d == Len(wire[Server])
<1>1. Client \in Gateways /\ Server \in Gateways /\ Peer(Client) = Server /\ Peer(Server) = Client
  BY GatewayAssumption DEF Gateways, Peer
<1>2. \A g \in Gateways : Len(LinkQueue[g]) = Len(wire[g]) + Len(outbox[Peer(g)])
  <2> SUFFICES ASSUME NEW g \in Gateways
               PROVE  Len(LinkQueue[g]) = Len(wire[g]) + Len(outbox[Peer(g)])
    OBVIOUS
  <2>1. Len(Data(wire[g])) = Len(wire[g])
    BY DataType DEF TypeInv, TypeOK
  <2>2. Len(LinkQueue[g]) = Len(Data(wire[g])) + Len(outbox[Peer(g)])
    BY QueueType, ConcatProperties DEF TypeInv
  <2> QED BY <2>1, <2>2
<1>3. Len(LinkQueue[Client]) = c + a /\ Len(LinkQueue[Server]) = d + b
  BY <1>1, <1>2
<1>4. a \in Nat /\ b \in Nat /\ c \in Nat /\ d \in Nat /\ owed[Client] \in Nat /\ owed[Server] \in Nat
  BY <1>1 DEF TypeInv, TypeOK
<1>5. owed[Client] + owed[Server] + b + a + c + d < Window
  BY DEF Retry, Tokens
<1> HIDE DEF a, b, c, d
<1>6. owed[Client] + owed[Server] + (c + a) + (d + b) < Window
  BY <1>4, <1>5
<1>7. Link!Outstanding < Window
  BY <1>3, <1>6 DEF Link!Outstanding
<1> QED BY <1>7, QueueUnchanged DEF Retry, Link!Retry

\* What each step of the gateways is to the devices.
LEMMA StepMaps ==
    ASSUME TypeInv, [Next]_vars
    PROVE  \/ UNCHANGED <<owed, LinkQueue>>
           \/ Link!Next
           \/ Link!Retry /\ MayBeLate
           \/ \E g \in Gateways : /\ Link!Lose(g)
                                  /\ DecHandleRekey(g) \/ DecReject(g) \/ DecTooLate(g)
<1>1. CASE UNCHANGED vars
  BY <1>1, QueueUnchanged DEF vars
<1>2. CASE Retry
  BY <1>2, LinkRetry DEF Retry
<1>3. ASSUME NEW g \in Gateways, Submit(g) PROVE Link!Next
  BY <1>3, LinkSubmit DEF Link!Next, TypeInv, Link!Gateways, Gateways
<1>4. ASSUME NEW g \in Gateways, Elapse(g) PROVE UNCHANGED <<owed, LinkQueue>>
  BY <1>4, QueueUnchanged DEF Elapse
<1>5. ASSUME NEW g \in Gateways, Encrypt(g) PROVE UNCHANGED <<owed, LinkQueue>>
  <2>1. CASE EncSealAndSend(g)
    BY <2>1, LinkSeal DEF EncSealAndSend
  <2> QED
    BY <1>5, <2>1, QueueUnchanged
    DEF Encrypt, EncUpdateKey, EncGetSendState, EncGetOwnPublicSecret
<1>6. ASSUME NEW g \in Gateways, DecOpen(g) \/ DecRevert(g) PROVE Link!Next
  <2>1. Link!Deliver(g)
    BY <1>6, LinkDeliver DEF DecOpen, DecRevert
  <2> QED BY <2>1 DEF Link!Next, Link!Gateways, Gateways
<1>7. ASSUME NEW g \in Gateways, DecReject(g) \/ DecTooLate(g) PROVE Link!Lose(g)
  BY <1>7, LinkLose DEF DecReject, DecTooLate, TypeInv, ThreadsHaveInput
<1>8. ASSUME NEW g \in Gateways, DecHandleRekey(g)
      PROVE  Link!Lose(g) \/ UNCHANGED <<owed, LinkQueue>>
  <2>1. CASE wire' = wire
    BY <1>8, <2>1, QueueUnchanged DEF DecHandleRekey
  <2>2. CASE wire' = [wire EXCEPT ![g] = Tail(@)]
    BY <1>8, <2>2, LinkLose DEF DecHandleRekey
  <2> QED BY <1>8, <2>1, <2>2 DEF DecHandleRekey
<1>9. ASSUME NEW g \in Gateways,
             \/ DecUpdateKey(g) \/ DecOpenFails(g) \/ DecOpenWithOldKey(g)
             \/ DecSetFailFlag(g) \/ DecDies(g)
      PROVE  UNCHANGED <<owed, LinkQueue>>
  BY <1>9, QueueUnchanged
  DEF DecUpdateKey, DecOpenFails, DecOpenWithOldKey, DecSetFailFlag, DecDies
<1> QED
  BY <1>1, <1>2, <1>3, <1>4, <1>5, <1>6, <1>7, <1>8, <1>9 DEF Next, Decrypt

LEMMA LinkInit == Init => Link!Init
<1> SUFFICES ASSUME Init PROVE Link!Init
  OBVIOUS
<1>1. \A g \in Gateways : wire[g] = <<>> /\ outbox[Peer(g)] = <<>>
  BY PeerType DEF Init
<1>2. \A w : w = <<>> => [i \in 1..Len(w) |-> w[i].data] \o <<>> = <<>>
  OBVIOUS
<1>3. LinkQueue = [g \in Gateways |-> <<>>]
  BY <1>1, <1>2 DEF LinkQueue
<1> QED BY <1>3 DEF Link!Init, Init, Link!Gateways, Gateways

\* Whatever the window, the rekeyings, their failures and the packets that come
\* late, and however the threads interleave: the devices see a channel that may
\* lose a payload, but never swaps, repeats or alters one.
THEOREM NeverMisorders == SafetySpec => LinkNeverMisorders
<1>1. TypeInv /\ [Next]_vars =>
        [Link!Next \/ Link!Retry \/ \E g \in Link!Gateways : Link!Lose(g)]_(Link!vars)
  BY StepMaps DEF Link!vars, Link!Gateways, Gateways
<1> QED BY <1>1, LinkInit, TypeInvariant, PTL DEF SafetySpec, LinkNeverMisorders, Link!LossySpec

-----------------------------------------------------------------------------
(***************************************************************************)
(* In lockstep nothing is lost, and keys change in step.                   *)
(***************************************************************************)

\* In lockstep no packet raises at one of the assertions of handle_rekey.
LEMMA LockstepNeverRaises ==
    ASSUME TypeInv, LockstepInv, NEW g \in Gateways, DecHandleRekey(g)
    PROVE  ~HandleRekeyRaises(rk[g], Head(wire[g]).flag, Head(wire[g]).pub)
<1> DEFINE h == Peer(g)
           p == Head(wire[g])
<1>1. h \in Gateways /\ Peer(h) = g
  BY PeerType
<1> HIDE DEF h
<1>2. wire[g] # <<>> /\ dec[g] = "idle"
  BY DEF DecHandleRekey
<1>3. enc[h].pc = "idle" /\ enc[g].pc = "idle" /\ dec[h] = "idle"
  BY <1>1, <1>2, AloneInCipher DEF TypeInv, h
<1>4. TurnInv(h) /\ ~rk[h].fail_flag
  <2>1. HasTurn(h) /\ TurnInv(h)
    BY <1>1, <1>2 DEF HasTurn, LockstepInv
  <2>2. dec[h] = "idle"
    BY <1>2, AloneInCipher DEF TypeInv, h
  <2> QED BY <2>1, <2>2 DEF TurnInv
<1>5. /\ p.flag = rk[h].send_state /\ p.pub = OwnPublicSecret(rk[h])
      /\ Handshake(rk[h], key[h], rk[g], key[g])
      /\ rk[h].send_state = "SWITCH" => key[h] = rk[h].new_key
      /\ rk[h].send_state # "SWITCH" => key[g] = key[h]
  BY <1>1, <1>2, <1>3, <1>4 DEF TurnInv, SaysItsState, KeysInStep, Sending
<1>6. PICK fresh \in Secrets \ Live : TRUE
  BY DEF DecHandleRekey
<1>7. /\ rk[g] \in RekeyerState /\ rk[h] \in RekeyerState /\ key[g] \in Keys /\ key[h] \in Keys
  BY <1>1 DEF TypeInv, TypeOK
<1>8. ~HandleRekeyRaises(rk[g], rk[h].send_state, OwnPublicSecret(rk[h]))
  BY <1>4, <1>5, <1>6, <1>7, HandleContinues
<1> QED
  BY <1>5, <1>8

\* While the master keeps one transaction outstanding and no packet is late,
\* the devices see a reliable FIFO channel: no rekeying, agreed or failed,
\* loses, repeats, swaps or alters a payload.
THEOREM LockstepImplementsLink ==
    ASSUME Window = 1, ~MayBeLate PROVE SafetySpec => LinkSafety
<1>1. TypeInv /\ LockstepInv /\ [Next]_vars => [Link!Next]_(Link!vars)
  <2> SUFFICES ASSUME TypeInv, LockstepInv, [Next]_vars
               PROVE  Link!Next \/ UNCHANGED Link!vars
    OBVIOUS
  <2>1. ASSUME NEW g \in Gateways, DecHandleRekey(g) PROVE ~Link!Lose(g)
    <3>1. wire' = wire /\ outbox' = outbox
      BY <2>1, LockstepNeverRaises DEF DecHandleRekey
    <3>2. wire[g] # <<>> /\ LinkQueue' = LinkQueue
      BY <2>1, <3>1, QueueUnchanged DEF DecHandleRekey
    <3>3. ASSUME Link!Lose(g) PROVE FALSE
      <4>1. LinkQueue[g] # <<>> /\ LinkQueue' = [LinkQueue EXCEPT ![g] = Tail(@)]
        BY <3>3 DEF Link!Lose
      <4>2. LinkQueue[g] = Tail(LinkQueue[g])
        <5>1. LinkQueue'[g] = Tail(LinkQueue[g])
          BY <4>1 DEF LinkQueue
        <5> QED BY <3>2, <5>1
      <4>3. LinkQueue[g] \in Seq(Payloads)
        BY QueueType, ConcatProperties DEF TypeInv
      <4> HIDE DEF LinkQueue
      <4>4. Len(Tail(LinkQueue[g])) = Len(LinkQueue[g]) - 1 /\ Len(LinkQueue[g]) \in Nat
        BY <4>1, <4>3, HeadTailProperties
      <4>5. Len(LinkQueue[g]) = Len(Tail(LinkQueue[g]))
        BY <4>2
      <4> QED BY <4>4, <4>5
    <3> QED BY <3>3
  <2>2. ASSUME NEW g \in Gateways PROVE ~DecReject(g) /\ ~DecTooLate(g)
    BY DEF LockstepInv, DecReject, DecTooLate
  <2> QED BY <2>1, <2>2, StepMaps DEF Link!vars
<1> QED
  BY <1>1, LinkInit, TypeInvariant, Lockstep, PTL DEF SafetySpec, LinkSafety, Link!SafetySpec

\* In lockstep a key only changes to one the peer uses, or holds as replier:
\* neither gateway switches alone.
THEOREM LockstepSwitchesToPeerKey ==
    ASSUME Window = 1, ~MayBeLate PROVE SafetySpec => SwitchesToPeerKey
<1> DEFINE Known(g) ==
        \/ key'[g] = key[Peer(g)]
        \/ key'[g] = rk[Peer(g)].new_key /\ rk[Peer(g)].role = "replier"
<1>1. ASSUME TypeInv, LockstepInv, [Next]_vars, NEW g \in Gateways, key'[g] # key[g]
      PROVE  Known(g)
  <2> DEFINE h == Peer(g)
  <2>1. h \in Gateways /\ h # g /\ Peer(h) = g
    BY PeerType
  <2>2. TypeOK /\ rk[g] \in RekeyerState /\ rk[h] \in RekeyerState /\ key[g] \in Keys /\ key[h] \in Keys
    BY <1>1, <2>1 DEF TypeInv, TypeOK
  <2> HIDE DEF h
  <2>3. CASE EncUpdateKey(g)
    <3> DEFINE n == GetNewKey(rk[g], TRUE)
               m == IF n = NoKey THEN key[g] ELSE n
    <3>1. outbox[g] # <<>> /\ enc[g].pc = "idle"
      BY <2>3 DEF EncUpdateKey
    <3>2. TurnInv(g) /\ dec[g] = "idle" /\ dec[h] = "idle" /\ wire[h] = <<>>
      BY <1>1, <2>2, <3>1, AloneInCipher DEF LockstepInv, HasTurn, AtOutbox, h
    <3>3. key[g] = key[h] /\ ~rk[g].fail_flag /\ Handshake(rk[g], key[g], rk[h], key[h])
      BY <3>1, <3>2 DEF TurnInv, KeysInStep, Sending, h
    <3>4. m = IF rk[g].send_state = "SWITCH" THEN rk[g].new_key ELSE key[g]
      BY <2>2, <3>3, UpdateBeforeSend
    <3>5. key'[g] = m
      BY <2>2, <2>3 DEF EncUpdateKey, UpdateKey, TypeOK
    <3> HIDE DEF m
    <3>6. rk[g].send_state = "SWITCH"
      BY <1>1, <3>4, <3>5
    <3>7. HandshakeSwitch(rk[g], rk[h])
      BY <3>3, <3>6 DEF Handshake, Undoing
    <3> QED BY <3>4, <3>5, <3>6, <3>7 DEF HandshakeSwitch, h
  <2>4. CASE DecUpdateKey(g)
    <3> DEFINE n == GetNewKey(rk[g], FALSE)
               m == IF n = NoKey THEN key[g] ELSE n
    <3>1. wire[g] # <<>> /\ dec[g] = "update"
      BY <1>1, <2>4 DEF DecUpdateKey, TypeInv, ThreadsHaveInput
    <3>2. TurnInv(g) /\ enc[g].pc = "idle" /\ wire[h] = <<>>
      BY <1>1, <2>2, <3>1, AloneInCipher DEF LockstepInv, HasTurn, AtWire, h
    <3>3. /\ Handshake(rk[g], key[g], rk[h], key[h])
          /\ IF rk[g].send_state = "SWITCH_ACK" THEN key[h] = rk[g].new_key ELSE key[g] = key[h]
      BY <3>1, <3>2 DEF TurnInv, KeysInStep, Sending, h
    <3>4. m = key[h]
      BY <2>2, <3>3, UpdateAfterReceive
    <3>5. key'[g] = m
      BY <2>2, <2>4 DEF DecUpdateKey, UpdateKey, TypeOK
    <3> QED BY <3>4, <3>5 DEF h
  <2>5. CASE DecRevert(g)
    BY <1>1, <2>5 DEF DecRevert, LockstepInv
  <2>6. ASSUME NEW x \in Gateways, x # g, EncUpdateKey(x) \/ DecUpdateKey(x) \/ DecRevert(x)
        PROVE  FALSE
    BY <1>1, <2>2, <2>6 DEF EncUpdateKey, DecUpdateKey, UpdateKey, DecRevert, TypeOK
  <2>7. CASE \A x \in Gateways : ~EncUpdateKey(x) /\ ~DecUpdateKey(x) /\ ~DecRevert(x)
    BY <1>1, <2>7
    DEF Next, vars, Retry, Submit, Elapse, Encrypt, Decrypt, EncGetSendState,
        EncGetOwnPublicSecret, EncSealAndSend, DecHandleRekey, DecOpen, DecOpenFails,
        DecOpenWithOldKey, DecSetFailFlag, DecTooLate, DecDies, DecReject
  <2> QED BY <2>3, <2>4, <2>5, <2>6, <2>7
<1>2. TypeInv /\ LockstepInv /\ [Next]_vars =>
        [\A g \in Gateways : key'[g] # key[g] => Known(g)]_vars
  BY <1>1
<1> QED
  BY <1>2, TypeInvariant, Lockstep, PTL DEF SafetySpec, SwitchesToPeerKey

-----------------------------------------------------------------------------
(***************************************************************************)
(* Without rekeying.                                                       *)
(***************************************************************************)
SessionKeyOnly ==
    /\ \A g \in Gateways : rk[g] = InitRekeyer /\ key[g] = SessionKey
    /\ \A g \in Gateways : dec[g] \in {"idle", "update", "open"}
    /\ \A g \in Gateways : \A i \in 1..Len(wire[g]) : wire[g][i].key = SessionKey

LEMMA SessionKeyOnlyNext ==
    ASSUME ~Rekeying, ~MayBeLate, TypeInv, SessionKeyOnly, [Next]_vars
    PROVE  SessionKeyOnly'
<1>1. CASE UNCHANGED vars
  BY <1>1 DEF vars, SessionKeyOnly
<1>2. ASSUME NEW g \in Gateways, Submit(g) PROVE SessionKeyOnly'
  BY <1>2 DEF Submit, SessionKeyOnly
<1>3. ASSUME NEW g \in Gateways, EncUpdateKey(g) \/ DecUpdateKey(g) PROVE SessionKeyOnly'
  <2>1. \A b \in BOOLEAN : GetNewKey(InitRekeyer, b) = NoKey /\ AfterGetNewKey(InitRekeyer) = InitRekeyer
    BY DEF GetNewKey, AfterGetNewKey, MaySwitch, InitRekeyer
  <2>2. rk' = rk /\ key' = key
    <3>1. PICK b \in BOOLEAN : UpdateKey(g, b)
      BY <1>3 DEF EncUpdateKey, DecUpdateKey
    <3>2. rk[g] = InitRekeyer /\ rk \in [Gateways -> RekeyerState] /\ key \in [Gateways -> Keys]
      BY DEF SessionKeyOnly, TypeInv, TypeOK
    <3>3. rk' = [rk EXCEPT ![g] = rk[g]] /\ key' = [key EXCEPT ![g] = key[g]]
      BY <2>1, <3>1, <3>2 DEF UpdateKey
    <3> QED BY <3>2, <3>3
  <2>3. wire' = wire /\ \A y \in Gateways : dec'[y] = dec[y] \/ dec'[y] = "open"
    BY <1>3 DEF EncUpdateKey, DecUpdateKey, TypeInv, TypeOK
  <2> QED BY <2>2, <2>3 DEF SessionKeyOnly
<1>4. ASSUME NEW g \in Gateways, EncGetSendState(g) \/ EncGetOwnPublicSecret(g) PROVE SessionKeyOnly'
  BY <1>4 DEF EncGetSendState, EncGetOwnPublicSecret, SessionKeyOnly
<1>5. ASSUME NEW g \in Gateways, EncSealAndSend(g) PROVE SessionKeyOnly'
  <2> DEFINE h == Peer(g)
             p == [flag |-> enc[g].flag, pub |-> enc[g].pub,
                   key |-> key[g], data |-> Head(outbox[g])]
  <2>1. p \in Packet /\ p.key = SessionKey
    <3>1. outbox[g] # <<>> /\ outbox[g] \in Seq(Payloads)
      BY <1>5 DEF EncSealAndSend, TypeInv, ThreadsHaveInput, TypeOK
    <3> QED BY <3>1 DEF Packet, TypeInv, TypeOK, EncState, SessionKeyOnly
  <2>2. h \in Gateways /\ wire[h] \in Seq(Packet)
    BY PeerType DEF TypeInv, TypeOK
  <2>3. wire'[h] = Append(wire[h], p) /\ \A y \in Gateways : y # h => wire'[y] = wire[y]
    BY <1>5, <2>2 DEF EncSealAndSend, TypeInv, TypeOK
  <2> HIDE DEF p, h
  <2>4. \A i \in 1..Len(Append(wire[h], p)) : Append(wire[h], p)[i].key = SessionKey
    <3>1. /\ Len(Append(wire[h], p)) = Len(wire[h]) + 1
          /\ \A i \in 1..Len(wire[h]) : Append(wire[h], p)[i] = wire[h][i]
          /\ Append(wire[h], p)[Len(wire[h]) + 1] = p
      BY <2>1, <2>2, AppendProperties
    <3> QED BY <2>1, <2>2, <3>1 DEF SessionKeyOnly
  <2> QED BY <1>5, <2>3, <2>4 DEF EncSealAndSend, SessionKeyOnly
<1>6. ASSUME NEW g \in Gateways, wire[g] # <<>>, wire' = wire \/ wire' = [wire EXCEPT ![g] = Tail(@)],
             UNCHANGED <<rk, key>>, \A y \in Gateways : dec'[y] \in {"idle", "update", "open"}
      PROVE  SessionKeyOnly'
  <2>1. wire[g] \in Seq(Packet)
    BY DEF TypeInv, TypeOK
  <2>2. Len(Tail(wire[g])) = Len(wire[g]) - 1
        /\ \A i \in 1..Len(Tail(wire[g])) : Tail(wire[g])[i] = wire[g][i + 1]
    BY <1>6, <2>1, HeadTailProperties
  <2>3. \A i \in 1..Len(Tail(wire[g])) : Tail(wire[g])[i].key = SessionKey
    BY <2>1, <2>2 DEF SessionKeyOnly
  <2>4. \A y \in Gateways : wire'[y] = wire[y] \/ wire'[y] = Tail(wire[g])
    BY <1>6 DEF TypeInv, TypeOK
  <2> QED BY <1>6, <2>3, <2>4 DEF SessionKeyOnly
<1>7. ASSUME NEW g \in Gateways, DecHandleRekey(g) PROVE SessionKeyOnly'
  BY <1>6, <1>7 DEF DecHandleRekey, SessionKeyOnly, TypeInv, TypeOK
<1>8. ASSUME NEW g \in Gateways, DecOpen(g) PROVE SessionKeyOnly'
  <2>1. wire[g] # <<>>
    BY <1>8 DEF DecOpen, TypeInv, ThreadsHaveInput
  <2> QED BY <1>6, <1>8, <2>1 DEF DecOpen, HandToDevice, SessionKeyOnly, TypeInv, TypeOK
<1>9. ASSUME NEW g \in Gateways, DecOpenFails(g) PROVE FALSE
  <2>1. wire[g] # <<>> /\ wire[g] \in Seq(Packet)
    BY <1>9 DEF DecOpenFails, TypeInv, ThreadsHaveInput, TypeOK
  <2>2. 1 \in 1..Len(wire[g]) /\ Head(wire[g]) = wire[g][1]
    BY <2>1, EmptySeq
  <2> QED BY <1>9, <2>2 DEF DecOpenFails, SessionKeyOnly
<1>10. ASSUME NEW g \in Gateways
       PROVE  /\ ~DecReject(g) /\ ~DecOpenWithOldKey(g) /\ ~DecSetFailFlag(g) /\ ~DecRevert(g)
              /\ ~DecTooLate(g) /\ ~DecDies(g) /\ ~Elapse(g)
  BY DEF SessionKeyOnly, DecReject, DecOpenWithOldKey, DecSetFailFlag, DecRevert, DecTooLate,
         DecDies, Elapse
<1> QED
  BY <1>1, <1>2, <1>3, <1>4, <1>5, <1>7, <1>8, <1>9, <1>10 DEF Next, Retry, Encrypt, Decrypt

\* Under --disable-rekeying, and with no packet late, the devices see a
\* reliable FIFO channel whatever the master keeps outstanding.
THEOREM NoRekeyingImplementsLink ==
    ASSUME ~Rekeying, ~MayBeLate PROVE SafetySpec => LinkSafety
<1>1. Init => SessionKeyOnly
  <2>1. \A w : w = <<>> => Len(w) = 0
    OBVIOUS
  <2> QED BY <2>1 DEF Init, SessionKeyOnly
<1>2. TypeInv /\ SessionKeyOnly /\ [Next]_vars => [Link!Next]_(Link!vars)
  <2> SUFFICES ASSUME TypeInv, SessionKeyOnly, [Next]_vars
               PROVE  Link!Next \/ UNCHANGED Link!vars
    OBVIOUS
  <2>1. ASSUME NEW g \in Gateways, DecHandleRekey(g) PROVE UNCHANGED <<owed, LinkQueue>>
    BY <2>1, QueueUnchanged DEF DecHandleRekey
  <2>2. ASSUME NEW g \in Gateways PROVE ~DecReject(g) /\ ~DecTooLate(g)
    BY DEF SessionKeyOnly, DecReject, DecTooLate
  <2> QED BY <2>1, <2>2, StepMaps DEF Link!vars
<1>3. TypeInv /\ SessionKeyOnly /\ [Next]_vars => SessionKeyOnly'
  BY SessionKeyOnlyNext
<1> QED
  BY <1>1, <1>2, <1>3, LinkInit, TypeInvariant, PTL DEF SafetySpec, LinkSafety, Link!SafetySpec

============================================================================
