-------------------------- MODULE SecureLinkProofs --------------------------
(***************************************************************************)
(* Theorems of SecureLink for any set of ephemeral keys and payloads.      *)
(***************************************************************************)
EXTENDS SecureLink, SequenceTheorems, TLAPS

(***************************************************************************)
(* The operators of Rekeyer preserve the type of its state.                *)
(***************************************************************************)
LEMMA ResetType ==
    ASSUME NEW r \in RekeyerState
    PROVE  ResetAll(r) \in RekeyerState /\ ResetMost(r) \in RekeyerState
             /\ ResetSym(r) \in RekeyerState
BY DEF ResetAll, ResetMost, ResetSym, RekeyerState, Roles

LEMMA AnswerType ==
    ASSUME NEW r \in RekeyerState, NEW flag \in Flags
    PROVE  Answer(r, flag) \in RekeyerState
BY DEF Answer, RekeyerState

LEMMA GenerateType ==
    ASSUME NEW r \in RekeyerState, r.own_secret # NoSecret, r.peer_secret # NoSecret
    PROVE  GenerateNewKey(r) \in RekeyerState
<1>1. SharedKey(r.own_secret, r.peer_secret) \in Keys
  BY DEF RekeyerState, SharedKey, Keys
<1> QED
  BY <1>1 DEF RekeyerState, GenerateNewKey

LEMMA HandleRekeyType ==
    ASSUME NEW r \in RekeyerState, NEW k \in Keys, NEW flag \in Flags,
           NEW pub \in Secrets \cup {NoSecret}, NEW fresh \in Secrets, NEW agreed \in BOOLEAN
    PROVE  HandleRekey(r, k, flag, pub, fresh, agreed) \in RekeyerState
<1> DEFINE s == Received(r, k, pub)
<1>1. s \in RekeyerState
  BY DEF Received, RekeyerState
<1>2. [r EXCEPT !.old_key = k] \in RekeyerState
  BY DEF RekeyerState
<1>3. OnNone(s, fresh) \in RekeyerState
  <2>1. Answer(s, "INIT") \in RekeyerState /\ Answer(s, "NONE") \in RekeyerState
    BY <1>1, AnswerType DEF Flags
  <2>2. [Answer(s, "INIT") EXCEPT !.role = "initiator", !.own_secret = fresh] \in RekeyerState
    BY <2>1 DEF RekeyerState, Roles
  <2>3. ResetSym(Answer(s, "NONE")) \in RekeyerState
    BY <2>1, ResetType
  <2> QED BY <2>2, <2>3 DEF OnNone
<1>4. OnFail(s) \in RekeyerState
  BY <1>1, AnswerType, ResetType DEF OnFail, Flags
<1>5. OnInit(s, fresh, agreed) \in RekeyerState
  <2> DEFINE t == [Answer(s, "REPLY") EXCEPT !.role = "replier", !.own_secret = fresh]
  <2>1. Answer(s, "REPLY") \in RekeyerState
    BY <1>1, AnswerType DEF Flags
  <2>2. t \in RekeyerState
    BY <2>1 DEF RekeyerState, Roles
  <2>3. Generates(t, agreed) => GenerateNewKey(t) \in RekeyerState
    BY <2>2, GenerateType DEF Generates
  <2>4. ResetAll(Answer(t, "FAIL")) \in RekeyerState
    BY <2>2, AnswerType, ResetType DEF Flags
  <2> QED BY <2>3, <2>4 DEF OnInit
<1>6. InitiatorOnReply(s, agreed) \in RekeyerState
  <2> DEFINE t == Answer(s, "SWITCH")
  <2>1. t \in RekeyerState /\ t.own_secret = s.own_secret /\ t.peer_secret = s.peer_secret
    BY <1>1, AnswerType DEF Flags, Answer, RekeyerState
  <2>2. Generates(s, agreed) => GenerateNewKey(t) \in RekeyerState
    BY <2>1, GenerateType DEF Generates
  <2>3. Generates(s, agreed) => [GenerateNewKey(t) EXCEPT !.clear = TRUE] \in RekeyerState
    BY <2>2 DEF RekeyerState
  <2>4. Answer(s, "FAIL") \in RekeyerState
    BY <1>1, AnswerType DEF Flags
  <2>5. SetFailFlag(Answer(s, "FAIL")) \in RekeyerState
    BY <2>4 DEF SetFailFlag, RekeyerState
  <2> QED BY <2>3, <2>5 DEF InitiatorOnReply
<1>7. InitiatorOnAck(s) \in RekeyerState
  <2>1. Answer(s, "NONE") \in RekeyerState
    BY <1>1, AnswerType DEF Flags
  <2>2. [Answer(s, "NONE") EXCEPT !.due = FALSE] \in RekeyerState
    BY <2>1 DEF RekeyerState
  <2> QED BY <2>2, ResetType DEF InitiatorOnAck
<1>8. ReplierOnSwitch(s) \in RekeyerState
  <2>1. Answer(s, "SWITCH_ACK") \in RekeyerState /\ Answer(s, "FAIL") \in RekeyerState
    BY <1>1, AnswerType DEF Flags
  <2>2. [Answer(s, "SWITCH_ACK") EXCEPT !.clear = TRUE, !.due = FALSE] \in RekeyerState
    BY <2>1 DEF RekeyerState
  <2> QED BY <2>1, <2>2, ResetType DEF ReplierOnSwitch
<1>9. OnReplySwitchOrAck(s, flag, agreed) \in RekeyerState
  BY <1>1, <1>4, <1>6, <1>7, <1>8 DEF OnReplySwitchOrAck
<1> QED
  BY <1>2, <1>3, <1>4, <1>5, <1>9 DEF HandleRekey

LEMMA GetNewKeyType ==
    ASSUME NEW r \in RekeyerState, NEW beforeSend \in BOOLEAN
    PROVE  /\ GetNewKey(r, beforeSend) \in Keys \cup {NoKey}
           /\ AfterGetNewKey(r) \in RekeyerState
BY ResetType DEF GetNewKey, AfterGetNewKey, RekeyerState

-----------------------------------------------------------------------------
(***************************************************************************)
(* Type correctness.  The heads and tails the threads take are defined     *)
(* because a thread inside the cipher has an input.                        *)
(***************************************************************************)
TypeInv == TypeOK /\ ThreadsHaveInput

LEMMA PeerType == \A g \in Gateways : Peer(g) \in Gateways /\ Peer(g) # g /\ Peer(Peer(g)) = g
BY GatewayAssumption DEF Gateways, Peer

LEMMA UpdateKeyType ==
    ASSUME TypeOK, NEW g \in Gateways, NEW beforeSend \in BOOLEAN, UpdateKey(g, beforeSend)
    PROVE  rk' \in [Gateways -> RekeyerState] /\ key' \in [Gateways -> Keys]
<1>1. /\ GetNewKey(rk[g], beforeSend) \in Keys \cup {NoKey}
      /\ AfterGetNewKey(rk[g]) \in RekeyerState
  BY GetNewKeyType DEF TypeOK
<1> QED
  BY <1>1 DEF UpdateKey, TypeOK

LEMMA TypeInvInit == Init => TypeInv
<1> SUFFICES ASSUME Init PROVE TypeInv
  OBVIOUS
<1>1. \A S : <<>> \in Seq(S)
  OBVIOUS
<1>2. InitRekeyer \in RekeyerState
  BY DEF InitRekeyer, RekeyerState, Flags, Roles
<1>3. IdleEnc \in EncState
  BY DEF IdleEnc, EncState, Flags
<1>4. SessionKey \in Keys
  BY DEF SessionKey, Keys
<1>5. Window \in Nat
  BY WindowAssumption
<1> QED
  BY <1>1, <1>2, <1>3, <1>4, <1>5 DEF Init, TypeInv, TypeOK, ThreadsHaveInput, IdleEnc, DecState

LEMMA TypeInvNext == TypeInv /\ [Next]_vars => TypeInv'
<1> SUFFICES ASSUME TypeInv, [Next]_vars PROVE TypeInv'
  OBVIOUS
<1> USE DEF TypeInv, DecState
<1>1. CASE UNCHANGED vars
  BY <1>1 DEF vars, TypeOK, ThreadsHaveInput
<1>2. ASSUME NEW g \in Gateways, Submit(g) PROVE TypeInv'
  <2>1. PICK d \in Payloads : outbox' = [outbox EXCEPT ![g] = Append(@, d)]
    BY <1>2 DEF Submit
  <2>2. Append(outbox[g], d) \in Seq(Payloads) /\ Append(outbox[g], d) # <<>>
    <3>1. outbox[g] \in Seq(Payloads)
      BY DEF TypeOK
    <3> QED BY <3>1, AppendProperties
  <2> QED
    BY <1>2, <2>1, <2>2 DEF Submit, TypeOK, ThreadsHaveInput
<1>3. ASSUME NEW g \in Gateways, Elapse(g) PROVE TypeInv'
  <2>1. [rk[g] EXCEPT !.due = TRUE] \in RekeyerState
    BY DEF TypeOK, RekeyerState
  <2> QED
    BY <1>3, <2>1 DEF Elapse, TypeOK, ThreadsHaveInput
<1>4. ASSUME NEW g \in Gateways, EncUpdateKey(g) PROVE TypeInv'
  <2>1. rk' \in [Gateways -> RekeyerState] /\ key' \in [Gateways -> Keys]
    BY <1>4, UpdateKeyType DEF EncUpdateKey
  <2>2. [enc[g] EXCEPT !.pc = "flag"] \in EncState
    BY DEF TypeOK, EncState
  <2> QED
    BY <1>4, <2>1, <2>2 DEF EncUpdateKey, TypeOK, ThreadsHaveInput
<1>5. ASSUME NEW g \in Gateways, EncGetSendState(g) PROVE TypeInv'
  <2>1. [enc[g] EXCEPT !.flag = rk[g].send_state, !.pc = "secret"] \in EncState
    BY DEF TypeOK, EncState, RekeyerState
  <2> QED
    BY <1>5, <2>1 DEF EncGetSendState, TypeOK, ThreadsHaveInput
<1>6. ASSUME NEW g \in Gateways, EncGetOwnPublicSecret(g) PROVE TypeInv'
  <2>1. OwnPublicSecret(rk[g]) \in Secrets \cup {NoSecret}
    BY DEF OwnPublicSecret, TypeOK, RekeyerState
  <2>2. enc'[g] \in EncState
    BY <1>6, <2>1 DEF EncGetOwnPublicSecret, TypeOK, EncState
  <2> QED
    BY <1>6, <2>2 DEF EncGetOwnPublicSecret, TypeOK, ThreadsHaveInput
<1>7. ASSUME NEW g \in Gateways, EncSealAndSend(g) PROVE TypeInv'
  <2> DEFINE p == [flag |-> enc[g].flag, pub |-> enc[g].pub,
                   key |-> key[g], data |-> Head(outbox[g])]
  <2>1. outbox[g] # <<>> /\ outbox[g] \in Seq(Payloads)
    BY <1>7 DEF EncSealAndSend, ThreadsHaveInput, TypeOK
  <2>2. Head(outbox[g]) \in Payloads /\ Tail(outbox[g]) \in Seq(Payloads)
    BY <2>1
  <2>3. p \in Packet
    BY <2>2 DEF Packet, TypeOK, EncState
  <2>4. Append(wire[Peer(g)], p) \in Seq(Packet) /\ Append(wire[Peer(g)], p) # <<>>
    <3>1. wire[Peer(g)] \in Seq(Packet)
      BY PeerType DEF TypeOK
    <3> HIDE DEF p
    <3> QED BY <2>3, <3>1, AppendProperties
  <2>5. IdleEnc \in EncState /\ IdleEnc.pc = "idle"
    BY DEF IdleEnc, EncState, Flags
  <2> QED
    BY <1>7, <2>2, <2>4, <2>5, PeerType DEF EncSealAndSend, TypeOK, ThreadsHaveInput
<1>8. ASSUME NEW g \in Gateways, DecHandleRekey(g) PROVE TypeInv'
  <2> DEFINE p == Head(wire[g])
  <2>1. p \in Packet /\ Tail(wire[g]) \in Seq(Packet)
    BY <1>8 DEF DecHandleRekey, TypeOK
  <2>2. PICK fresh \in Secrets \ Live, agreed \in {TRUE, ~AgreementMayFail} :
          rk' = IF Rekeying
                THEN [rk EXCEPT ![g] = HandleRekey(@, key[g], p.flag, p.pub, fresh, agreed)]
                ELSE rk
    BY <1>8 DEF DecHandleRekey
  <2>3. HandleRekey(rk[g], key[g], p.flag, p.pub, fresh, agreed) \in RekeyerState
    BY <2>1, HandleRekeyType DEF TypeOK, Packet
  <2>4. rk' \in [Gateways -> RekeyerState]
    BY <2>2, <2>3 DEF TypeOK
  <2>5. wire' \in [Gateways -> Seq(Packet)] /\ dec' \in [Gateways -> DecState]
    BY <1>8, <2>1 DEF DecHandleRekey, TypeOK
  <2>6. ThreadsHaveInput'
    BY <1>8 DEF DecHandleRekey, TypeOK, ThreadsHaveInput
  <2> QED
    BY <1>8, <2>4, <2>5, <2>6 DEF DecHandleRekey, TypeOK
<1>9. ASSUME NEW g \in Gateways, DecUpdateKey(g) PROVE TypeInv'
  <2>1. rk' \in [Gateways -> RekeyerState] /\ key' \in [Gateways -> Keys]
    BY <1>9, UpdateKeyType DEF DecUpdateKey
  <2> QED
    BY <1>9, <2>1 DEF DecUpdateKey, TypeOK, ThreadsHaveInput
<1>10. ASSUME NEW g \in Gateways, HandToDevice(g), dec[g] # "idle",
              rk' \in [Gateways -> RekeyerState], key' \in [Gateways -> Keys],
              UNCHANGED <<outbox, enc>>
       PROVE TypeInv'
  <2>1. wire[g] # <<>> /\ Tail(wire[g]) \in Seq(Packet)
    BY <1>10 DEF ThreadsHaveInput, TypeOK
  <2> QED
    BY <1>10, <2>1 DEF HandToDevice, TypeOK, ThreadsHaveInput
<1>11. ASSUME NEW g \in Gateways, DecOpen(g) PROVE TypeInv'
  BY <1>10, <1>11 DEF DecOpen, TypeOK
<1>12. ASSUME NEW g \in Gateways, DecOpenFails(g) PROVE TypeInv'
  BY <1>12 DEF DecOpenFails, TypeOK, ThreadsHaveInput
<1>13. ASSUME NEW g \in Gateways, DecOpenWithOldKey(g) \/ DecSetFailFlag(g) PROVE TypeInv'
  <2>1. SetFailFlag(rk[g]) \in RekeyerState
    BY DEF TypeOK, SetFailFlag, RekeyerState
  <2> QED
    BY <1>13, <2>1 DEF DecOpenWithOldKey, DecSetFailFlag, TypeOK, ThreadsHaveInput
<1>15. ASSUME NEW g \in Gateways, DecRevert(g) PROVE TypeInv'
  <2>1. wire[g] # <<>>
    BY <1>15 DEF DecRevert, ThreadsHaveInput
  <2>2. Head(wire[g]).key \in Keys
    <3>1. Head(wire[g]) \in Packet
      BY <2>1 DEF TypeOK
    <3> QED BY <3>1 DEF Packet
  <2> QED
    BY <1>10, <1>15, <2>2 DEF DecRevert, TypeOK
<1>14. ASSUME NEW g \in Gateways, DecReject(g) \/ DecTooLate(g) PROVE TypeInv'
  <2>1. wire[g] # <<>> /\ Tail(wire[g]) \in Seq(Packet)
    BY <1>14 DEF DecReject, DecTooLate, ThreadsHaveInput, TypeOK
  <2> QED
    BY <1>14, <2>1 DEF DecReject, DecTooLate, TypeOK, ThreadsHaveInput
<1>16. ASSUME NEW g \in Gateways, DecDies(g) PROVE TypeInv'
  BY <1>16 DEF DecDies, TypeOK, ThreadsHaveInput
<1>17. ASSUME Retry PROVE TypeInv'
  <2>1. owed[Client] + 1 \in Nat
    BY DEF TypeOK, Gateways
  <2> QED
    BY <1>17, <2>1 DEF Retry, TypeOK, ThreadsHaveInput
<1> QED
  BY <1>1, <1>2, <1>3, <1>4, <1>5, <1>6, <1>7, <1>8, <1>9, <1>11, <1>12, <1>13, <1>14,
     <1>15, <1>16, <1>17
  DEF Next, Encrypt, Decrypt

LEMMA TypeInvariant == SafetySpec => []TypeInv
BY TypeInvInit, TypeInvNext, PTL DEF SafetySpec

\* Every variable keeps its type, for every set of secrets and payloads and
\* every window: no gateway ever holds a key that is not one (None, or the
\* b'' of a packet), whatever the threads' interleaving.
THEOREM TypeCorrect == SafetySpec => []TypeOK
BY TypeInvariant, PTL DEF TypeInv

-----------------------------------------------------------------------------
(***************************************************************************)
(* The handshake, as steps of the Rekeyer alone: r0 is the receiver's, q   *)
(* the sender's, k and l the keys they hold.                               *)
(***************************************************************************)
LEMMA NoKeyFacts == NoKey \notin Keys /\ \A s \in Secrets : s # NoSecret
BY SecretAssumption DEF NoKey, Keys

\* What the receiver makes of the sender's flag continues the handshake.
LEMMA HandleContinues ==
    ASSUME NEW r0 \in RekeyerState, NEW q \in RekeyerState, NEW k \in Keys, NEW l \in Keys,
           NEW fresh \in Secrets, NEW agreed \in BOOLEAN,
           Handshake(q, l, r0, k), ~q.fail_flag,
           q.send_state = "SWITCH" => l = q.new_key,
           q.send_state # "SWITCH" => k = l
    PROVE  LET flag == q.send_state
               pub == OwnPublicSecret(q)
               r == HandleRekey(r0, k, flag, pub, fresh, agreed)
           IN  /\ ~HandleRekeyRaises(r0, flag, pub)
               /\ Handshake(r, k, q, l)
               /\ IF r.send_state = "SWITCH_ACK" THEN l = r.new_key ELSE k = l
<1> DEFINE flag == q.send_state
           pub == OwnPublicSecret(q)
           s == Received(r0, k, pub)
           r == HandleRekey(r0, k, flag, pub, fresh, agreed)
<1>1. /\ ~r0.fail_flag
      /\ flag = "NONE"       => HandshakeNone(q, l, r0)
      /\ flag = "INIT"       => HandshakeInit(q, l, r0)
      /\ flag = "REPLY"      => HandshakeReply(q, r0, k)
      /\ flag = "SWITCH"     => HandshakeSwitch(q, r0)
      /\ flag = "SWITCH_ACK" => HandshakeAck(q, r0, k)
      /\ flag = "FAIL"       => HandshakeFail(q, r0, k)
  BY DEF Handshake, Undoing
<1>2. FlagMatchesSecret(flag, pub) /\ (flag \in SharedSecretFlags => pub = q.own_secret)
  BY <1>1 DEF FlagMatchesSecret, OwnPublicSecret, HandshakeInit, HandshakeReply, SharedSecretFlags
<1>3. /\ s \in RekeyerState
      /\ s.own_secret = r0.own_secret /\ s.old_key = k /\ s.new_key = r0.new_key
      /\ s.role = r0.role /\ ~s.fail_flag /\ s.clear = r0.clear
      /\ flag \in SharedSecretFlags => s.peer_secret = q.own_secret
  <2>1. pub \in Secrets \cup {NoSecret}
    BY DEF OwnPublicSecret, RekeyerState
  <2>2. s \in RekeyerState
    BY <2>1 DEF Received, RekeyerState
  <2>3. flag \in SharedSecretFlags => pub # NoSecret
    BY <1>2 DEF FlagMatchesSecret
  <2> QED BY <1>1, <1>2, <2>2, <2>3 DEF Received, RekeyerState
<1>4. flag \in Flags
  BY DEF RekeyerState
<1> HIDE DEF s, pub, flag
<1> SUFFICES /\ ~HandleRekeyRaises(r0, flag, pub)
             /\ Handshake(r, k, q, l)
             /\ IF r.send_state = "SWITCH_ACK" THEN l = r.new_key ELSE k = l
  BY DEF flag, pub
<1>5. CASE flag = "NONE"
  <2>1. r = OnNone(s, fresh)
    BY <1>2, <1>5 DEF HandleRekey, s
  <2>2. k = l
    BY <1>5 DEF flag
  <2>3. CASE s.due
    <3>1. /\ r.send_state = "INIT" /\ r.role = "initiator" /\ r.own_secret = fresh
          /\ r.clear = s.clear /\ r.new_key = s.new_key /\ ~r.fail_flag
      BY <1>3, <2>1, <2>3 DEF OnNone, Answer, RekeyerState
    <3> QED
      BY <1>1, <1>2, <1>3, <1>5, <2>2, <3>1, NoKeyFacts
      DEF HandleRekeyRaises, RoleMissing, NewKeyMissing, Handshake, HandshakeNone,
          HandshakeInit, Quiet, NothingToSwitch
  <2>4. CASE ~s.due
    <3>1. /\ r.send_state = "NONE" /\ r.role = s.role /\ ~r.clear /\ ~r.fail_flag
      BY <1>3, <2>1, <2>4 DEF OnNone, Answer, ResetSym, RekeyerState
    <3> QED
      BY <1>1, <1>2, <1>3, <1>5, <2>2, <3>1
      DEF HandleRekeyRaises, RoleMissing, NewKeyMissing, Handshake, HandshakeNone,
          Quiet, NothingToSwitch
  <2> QED BY <2>3, <2>4
<1>6. CASE flag = "INIT"
  <2> DEFINE t == [Answer(s, "REPLY") EXCEPT !.role = "replier", !.own_secret = fresh]
  <2>1. r = IF Generates(t, agreed) THEN GenerateNewKey(t) ELSE ResetAll(Answer(t, "FAIL"))
    BY <1>2, <1>6 DEF HandleRekey, OnInit, s
  <2>2. k = l /\ q.own_secret # NoSecret
    BY <1>1, <1>6 DEF flag, HandshakeInit
  <2>3. /\ t \in RekeyerState /\ t.send_state = "REPLY" /\ t.role = "replier"
        /\ t.own_secret = fresh /\ t.peer_secret = q.own_secret
        /\ t.clear = s.clear /\ ~t.fail_flag
    BY <1>3, <1>6 DEF Answer, RekeyerState, Flags, Roles, SharedSecretFlags
  <2>4. ~s.clear
    BY <1>1, <1>3, <1>6 DEF HandshakeInit, Quiet
  <2> HIDE DEF t
  <2>5. CASE Generates(t, agreed)
    <3>1. /\ r.send_state = "REPLY" /\ r.role = "replier" /\ r.own_secret = fresh
          /\ r.new_key = SharedKey(fresh, q.own_secret) /\ ~r.clear /\ ~r.fail_flag
      BY <2>1, <2>3, <2>4, <2>5 DEF GenerateNewKey, RekeyerState
    <3> QED
      BY <1>1, <1>2, <1>6, <2>2, <3>1, NoKeyFacts
      DEF HandleRekeyRaises, RoleMissing, NewKeyMissing, Handshake, HandshakeInit, HandshakeReply
  <2>6. CASE ~Generates(t, agreed)
    <3>1. r.send_state = "FAIL" /\ r.role = "none" /\ ~r.clear /\ ~r.fail_flag
      BY <2>1, <2>3, <2>6 DEF ResetAll, ResetMost, ResetSym, Answer, RekeyerState
    <3> QED
      BY <1>1, <1>2, <1>6, <2>2, <3>1
      DEF HandleRekeyRaises, RoleMissing, NewKeyMissing, Handshake, HandshakeInit, HandshakeFail, Quiet
  <2> QED BY <2>5, <2>6
<1>7. CASE flag = "FAIL"
  <2>1. r = OnFail(s)
    BY <1>2, <1>7 DEF HandleRekey, s
  <2>2. k = l
    BY <1>7 DEF flag
  <2>3. r.send_state = "NONE" /\ r.role = "none" /\ ~r.clear /\ ~r.fail_flag
    BY <1>3, <2>1 DEF OnFail, ResetAll, ResetMost, ResetSym, Answer, RekeyerState
  <2> QED
    BY <1>1, <1>2, <1>7, <2>2, <2>3
    DEF HandleRekeyRaises, RoleMissing, NewKeyMissing, Handshake, HandshakeNone, HandshakeFail,
        Quiet, NothingToSwitch
<1>8. CASE flag = "REPLY"
  <2>1. r = InitiatorOnReply(s, agreed)
    BY <1>1, <1>2, <1>3, <1>8 DEF HandleRekey, OnReplySwitchOrAck, HandshakeReply, s
  <2>2. k = l
    BY <1>8 DEF flag
  <2>3. CASE Generates(s, agreed)
    <3>1. /\ r.send_state = "SWITCH" /\ r.role = "initiator" /\ r.clear /\ ~r.fail_flag
          /\ r.new_key = SharedKey(r0.own_secret, q.own_secret)
      BY <1>1, <1>3, <1>8, <2>1, <2>3
      DEF InitiatorOnReply, GenerateNewKey, Answer, RekeyerState, HandshakeReply, SharedSecretFlags
    <3>2. q.new_key = r.new_key
      BY <1>1, <1>8, <3>1 DEF HandshakeReply, SharedKey
    <3>3. r.new_key # NoKey
      <4>1. r0.own_secret \in Secrets /\ r0.own_secret # NoSecret
        BY <1>1, <1>8 DEF HandshakeReply, RekeyerState
      <4> QED BY <3>1, <4>1 DEF SharedKey, NoKey
    <3> QED
      BY <1>1, <1>2, <1>8, <2>2, <3>1, <3>2, <3>3
      DEF HandleRekeyRaises, RoleMissing, NewKeyMissing, Handshake, HandshakeReply, HandshakeSwitch
  <2>4. CASE ~Generates(s, agreed)
    <3>1. r.send_state = "FAIL" /\ r.fail_flag /\ r.old_key = k
      BY <1>3, <2>1, <2>4 DEF InitiatorOnReply, SetFailFlag, Answer, RekeyerState
    <3> QED
      BY <1>1, <1>2, <1>8, <2>2, <3>1
      DEF HandleRekeyRaises, RoleMissing, NewKeyMissing, Handshake, HandshakeReply, Undoing, NothingToSwitch
  <2> QED BY <2>3, <2>4
<1>9. CASE flag = "SWITCH"
  <2>1. r = ReplierOnSwitch(s)
    BY <1>1, <1>2, <1>3, <1>9 DEF HandleRekey, OnReplySwitchOrAck, HandshakeSwitch, s
  <2>2. l = q.new_key
    BY <1>9 DEF flag
  <2>3. s.new_key # NoKey /\ s.new_key = l
    BY <1>1, <1>3, <1>9, <2>2 DEF HandshakeSwitch
  <2>4. /\ r.send_state = "SWITCH_ACK" /\ r.role = "none" /\ r.clear /\ ~r.fail_flag
        /\ r.new_key = l
    BY <1>3, <2>1, <2>3 DEF ReplierOnSwitch, ResetMost, Answer, RekeyerState
  <2> QED
    BY <1>1, <1>2, <1>9, <2>2, <2>4
    DEF HandleRekeyRaises, RoleMissing, NewKeyMissing, Handshake, HandshakeSwitch, HandshakeAck
<1>10. CASE flag = "SWITCH_ACK"
  <2>1. r = InitiatorOnAck(s)
    BY <1>1, <1>2, <1>3, <1>10 DEF HandleRekey, OnReplySwitchOrAck, HandshakeAck, s
  <2>2. k = l
    BY <1>10 DEF flag
  <2>3. r.send_state = "NONE" /\ r.role = "none" /\ ~r.clear /\ ~r.fail_flag
    BY <1>3, <2>1 DEF InitiatorOnAck, ResetAll, ResetMost, ResetSym, Answer, RekeyerState
  <2> QED
    BY <1>1, <1>2, <1>10, <2>2, <2>3
    DEF HandleRekeyRaises, RoleMissing, NewKeyMissing, Handshake, HandshakeNone, HandshakeAck,
        Quiet, NothingToSwitch
<1> QED
  BY <1>4, <1>5, <1>6, <1>7, <1>8, <1>9, <1>10 DEF Flags

\* __update_key of the receiver: the replier applies the new key, a failed
\* initiator is reset, nobody else changes.
LEMMA UpdateAfterReceive ==
    ASSUME NEW r \in RekeyerState, NEW q \in RekeyerState, NEW k \in Keys, NEW l \in Keys,
           Handshake(r, k, q, l),
           IF r.send_state = "SWITCH_ACK" THEN l = r.new_key ELSE k = l
    PROVE  LET n == GetNewKey(r, FALSE)
               s == AfterGetNewKey(r)
           IN  /\ Handshake(s, l, q, l) /\ ~s.fail_flag
               /\ (IF n = NoKey THEN k ELSE n) = l
<1> DEFINE n == GetNewKey(r, FALSE)
           s == AfterGetNewKey(r)
<1>1. CASE r.fail_flag
  <2>1. Undoing(r, k) /\ NothingToSwitch(q, l) /\ ~q.fail_flag /\ k = l
    BY <1>1 DEF Handshake, Undoing
  <2>2. s.send_state = "FAIL" /\ s.role = "none" /\ ~s.clear /\ ~s.fail_flag
    BY <1>1, <2>1 DEF Undoing, AfterGetNewKey, ResetAll, ResetMost, ResetSym, RekeyerState
  <2>3. n = k
    BY <1>1, <2>1 DEF GetNewKey, Undoing
  <2> HIDE DEF s, n
  <2>4. Handshake(s, l, q, l)
    BY <2>1, <2>2 DEF Handshake, HandshakeFail, Quiet
  <2> QED BY <2>1, <2>2, <2>3, <2>4 DEF s, n
<1>2. CASE ~r.fail_flag
  <2>1. s = r /\ n = IF MaySwitch(r, FALSE) THEN r.new_key ELSE NoKey
    BY <1>2 DEF AfterGetNewKey, GetNewKey
  <2>2. r.send_state \in Flags
    BY DEF RekeyerState
  <2>3. CASE r.send_state = "SWITCH_ACK"
    BY <1>2, <2>1, <2>3, NoKeyFacts DEF Handshake, Undoing, HandshakeAck, MaySwitch
  <2>4. CASE r.send_state # "SWITCH_ACK"
    <3>1. k = l
      BY <2>4
    <3>2. ~MaySwitch(r, FALSE)
      BY <1>2, <2>2, <2>4
      DEF Flags, Handshake, Undoing, HandshakeNone, HandshakeInit, HandshakeReply,
          HandshakeSwitch, HandshakeFail, Quiet, MaySwitch
    <3> QED BY <1>2, <2>1, <3>1, <3>2
  <2> QED BY <2>3, <2>4
<1> QED BY <1>1, <1>2

\* __update_key of the sender: the initiator that is about to say SWITCH
\* applies the new key, nobody else changes.
LEMMA UpdateBeforeSend ==
    ASSUME NEW r \in RekeyerState, NEW q \in RekeyerState, NEW k \in Keys,
           Handshake(r, k, q, k), ~r.fail_flag
    PROVE  LET n == GetNewKey(r, TRUE)
               m == IF n = NoKey THEN k ELSE n
           IN  /\ AfterGetNewKey(r) = r
               /\ Handshake(r, m, q, k)
               /\ m = IF r.send_state = "SWITCH" THEN r.new_key ELSE k
<1>1. /\ AfterGetNewKey(r) = r
      /\ GetNewKey(r, TRUE) = IF MaySwitch(r, TRUE) THEN r.new_key ELSE NoKey
  BY DEF AfterGetNewKey, GetNewKey
<1>2. r.send_state \in Flags
  BY DEF RekeyerState
<1>3. CASE r.send_state = "SWITCH"
  <2>1. MaySwitch(r, TRUE) /\ r.new_key # NoKey
    BY <1>3 DEF Handshake, Undoing, HandshakeSwitch, MaySwitch
  <2> QED BY <1>1, <1>3, <2>1 DEF Handshake, Undoing
<1>4. CASE r.send_state = "INIT"
  BY <1>1, <1>4 DEF Handshake, Undoing, HandshakeInit, NothingToSwitch, MaySwitch
<1>5. CASE r.send_state \notin {"SWITCH", "INIT"}
  <2>1. ~MaySwitch(r, TRUE)
    BY <1>2, <1>5
    DEF Flags, Handshake, Undoing, HandshakeNone, HandshakeReply, HandshakeAck,
        HandshakeFail, Quiet, MaySwitch
  <2> QED BY <1>1, <1>5, <2>1
<1> QED BY <1>3, <1>4, <1>5

\* The clock takes no part in the handshake.
LEMMA DueIsIrrelevant ==
    ASSUME NEW r \in RekeyerState, NEW q \in RekeyerState, NEW k \in Keys, NEW l \in Keys,
           Handshake(r, k, q, l)
    PROVE  /\ Handshake([r EXCEPT !.due = TRUE], k, q, l)
           /\ Handshake(r, k, [q EXCEPT !.due = TRUE], l)
<1> DEFINE rd == [r EXCEPT !.due = TRUE]
           qd == [q EXCEPT !.due = TRUE]
<1>1. /\ rd.send_state = r.send_state /\ rd.own_secret = r.own_secret /\ rd.role = r.role
      /\ rd.old_key = r.old_key /\ rd.new_key = r.new_key
      /\ rd.fail_flag = r.fail_flag /\ rd.clear = r.clear
  BY DEF RekeyerState
<1>2. /\ qd.send_state = q.send_state /\ qd.own_secret = q.own_secret /\ qd.role = q.role
      /\ qd.old_key = q.old_key /\ qd.new_key = q.new_key
      /\ qd.fail_flag = q.fail_flag /\ qd.clear = q.clear
  BY DEF RekeyerState
<1> HIDE DEF rd, qd
<1>3. Handshake(rd, k, q, l)
  BY <1>1
  DEF Handshake, HandshakeNone, HandshakeInit, HandshakeReply, HandshakeSwitch, HandshakeAck,
      HandshakeFail, Quiet, NothingToSwitch, Undoing
<1>4. Handshake(r, k, qd, l)
  BY <1>2
  DEF Handshake, HandshakeNone, HandshakeInit, HandshakeReply, HandshakeSwitch, HandshakeAck,
      HandshakeFail, Quiet, NothingToSwitch, Undoing
<1> QED BY <1>3, <1>4 DEF rd, qd

-----------------------------------------------------------------------------
(***************************************************************************)
(* One message outstanding: where it is decides who has the turn.          *)
(***************************************************************************)
LEMMA TokensByPeer ==
    ASSUME TypeOK, NEW g \in Gateways
    PROVE  /\ Tokens = owed[g] + owed[Peer(g)] + Len(outbox[g]) + Len(outbox[Peer(g)])
                         + Len(wire[g]) + Len(wire[Peer(g)])
           /\ owed[g] \in Nat /\ Len(outbox[g]) \in Nat /\ Len(wire[g]) \in Nat
           /\ outbox[g] # <<>> <=> Len(outbox[g]) # 0
           /\ wire[g] # <<>> <=> Len(wire[g]) # 0
<1>1. \A x \in Gateways : /\ owed[x] \in Nat
                          /\ Len(outbox[x]) \in Nat /\ Len(wire[x]) \in Nat
                          /\ outbox[x] # <<>> <=> Len(outbox[x]) # 0
                          /\ wire[x] # <<>> <=> Len(wire[x]) # 0
  <2> TAKE x \in Gateways
  <2>1. outbox[x] \in Seq(Payloads) /\ wire[x] \in Seq(Packet) /\ owed[x] \in Nat
    BY DEF TypeOK
  <2> QED BY <2>1, EmptySeq, LenProperties
<1>2. CASE g = Client
  BY <1>1, <1>2 DEF Tokens, Peer, Gateways
<1>3. CASE g = Server
  <2>1. Peer(g) = Client
    BY <1>3, GatewayAssumption DEF Peer
  <2>2. Tokens = owed[Server] + owed[Client] + Len(outbox[Server]) + Len(outbox[Client])
                   + Len(wire[Server]) + Len(wire[Client])
    <3> DEFINE a == owed[Client]          b == owed[Server]
               c == Len(outbox[Client])   d == Len(outbox[Server])
               e == Len(wire[Client])     f == Len(wire[Server])
    <3>1. a \in Nat /\ b \in Nat /\ c \in Nat /\ d \in Nat /\ e \in Nat /\ f \in Nat
      BY <1>1 DEF Gateways
    <3>2. Tokens = a + b + c + d + e + f
      BY DEF Tokens
    <3> HIDE DEF a, b, c, d, e, f
    <3>3. a + b + c + d + e + f = b + a + d + c + f + e
      BY <3>1
    <3> QED BY <3>2, <3>3 DEF a, b, c, d, e, f
  <2> QED BY <1>1, <1>3, <2>1, <2>2
<1> QED BY <1>1, <1>2, <1>3 DEF Gateways

\* The three places the message can be, seen from g.
AtDevice(g) ==
    /\ owed[g] = 1 /\ owed[Peer(g)] = 0
    /\ outbox[g] = <<>> /\ outbox[Peer(g)] = <<>>
    /\ wire[g] = <<>> /\ wire[Peer(g)] = <<>>

AtOutbox(g) ==
    /\ owed[g] = 0 /\ owed[Peer(g)] = 0
    /\ Len(outbox[g]) = 1 /\ outbox[g] # <<>> /\ outbox[Peer(g)] = <<>>
    /\ wire[g] = <<>> /\ wire[Peer(g)] = <<>>

AtWire(g) ==
    /\ owed[g] = 0 /\ owed[Peer(g)] = 0
    /\ outbox[g] = <<>> /\ outbox[Peer(g)] = <<>>
    /\ Len(wire[g]) = 1 /\ wire[g] # <<>> /\ wire[Peer(g)] = <<>>

LEMMA OneMessage ==
    ASSUME TypeOK, Tokens = 1, NEW g \in Gateways
    PROVE  /\ owed[g] > 0 => AtDevice(g)
           /\ outbox[g] # <<>> => AtOutbox(g)
           /\ wire[g] # <<>> => AtWire(g)
<1> DEFINE h == Peer(g)
<1>1. h \in Gateways
  BY PeerType
<1> HIDE DEF h
<1>2. /\ Tokens = owed[g] + owed[h] + Len(outbox[g]) + Len(outbox[h])
                    + Len(wire[g]) + Len(wire[h])
      /\ owed[g] \in Nat /\ Len(outbox[g]) \in Nat /\ Len(wire[g]) \in Nat
      /\ outbox[g] # <<>> <=> Len(outbox[g]) # 0
      /\ wire[g] # <<>> <=> Len(wire[g]) # 0
  BY TokensByPeer DEF h
<1>3. /\ owed[h] \in Nat /\ Len(outbox[h]) \in Nat /\ Len(wire[h]) \in Nat
      /\ outbox[h] # <<>> <=> Len(outbox[h]) # 0
      /\ wire[h] # <<>> <=> Len(wire[h]) # 0
  BY <1>1, TokensByPeer
<1>4. /\ owed[g] # 0 => /\ owed[g] = 1 /\ owed[h] = 0
                        /\ Len(outbox[g]) = 0 /\ Len(outbox[h]) = 0
                        /\ Len(wire[g]) = 0 /\ Len(wire[h]) = 0
      /\ Len(outbox[g]) # 0 => /\ owed[g] = 0 /\ owed[h] = 0
                               /\ Len(outbox[g]) = 1 /\ Len(outbox[h]) = 0
                               /\ Len(wire[g]) = 0 /\ Len(wire[h]) = 0
      /\ Len(wire[g]) # 0 => /\ owed[g] = 0 /\ owed[h] = 0
                             /\ Len(outbox[g]) = 0 /\ Len(outbox[h]) = 0
                             /\ Len(wire[g]) = 1 /\ Len(wire[h]) = 0
  <2> DEFINE a == owed[g]          b == owed[h]
             c == Len(outbox[g])   d == Len(outbox[h])
             e == Len(wire[g])     f == Len(wire[h])
  <2>1. a + b + c + d + e + f = 1
    BY <1>2
  <2>2. a \in Nat /\ b \in Nat /\ c \in Nat /\ d \in Nat /\ e \in Nat /\ f \in Nat
    BY <1>2, <1>3
  <2> HIDE DEF a, b, c, d, e, f
  <2>3. /\ a # 0 => a = 1 /\ b = 0 /\ c = 0 /\ d = 0 /\ e = 0 /\ f = 0
        /\ c # 0 => a = 0 /\ b = 0 /\ c = 1 /\ d = 0 /\ e = 0 /\ f = 0
        /\ e # 0 => a = 0 /\ b = 0 /\ c = 0 /\ d = 0 /\ e = 1 /\ f = 0
    BY <2>1, <2>2
  <2> QED BY <2>3 DEF a, b, c, d, e, f
<1>5. owed[g] > 0 => owed[g] # 0
  BY <1>2
<1> QED BY <1>2, <1>3, <1>4, <1>5 DEF AtDevice, AtOutbox, AtWire, h

LEMMA OnePlaceIsOneToken ==
    ASSUME NEW o \in [Gateways -> Nat], NEW b \in [Gateways -> Seq(Payloads)],
           NEW w \in [Gateways -> Seq(Packet)], NEW g \in Gateways,
           o[Peer(g)] = 0, b[Peer(g)] = <<>>, w[Peer(g)] = <<>>,
           \/ o[g] = 1 /\ Len(b[g]) = 0 /\ Len(w[g]) = 0
           \/ o[g] = 0 /\ Len(b[g]) = 1 /\ Len(w[g]) = 0
           \/ o[g] = 0 /\ Len(b[g]) = 0 /\ Len(w[g]) = 1
    PROVE  o[Client] + o[Server] + Len(b[Client]) + Len(b[Server])
             + Len(w[Client]) + Len(w[Server]) = 1
<1> DEFINE a == o[Client]         c == o[Server]
           d == Len(b[Client])    e == Len(b[Server])
           f == Len(w[Client])    h == Len(w[Server])
<1>1. Len(<<>>) = 0
  OBVIOUS
<1>2. Len(b[Peer(g)]) = 0 /\ Len(w[Peer(g)]) = 0 /\ o[Peer(g)] = 0
  BY <1>1
<1>3. CASE g = Client
  <2>1. Peer(g) = Server
    BY <1>3 DEF Peer
  <2>2. c = 0 /\ e = 0 /\ h = 0
    BY <1>2, <2>1
  <2>3. \/ a = 1 /\ d = 0 /\ f = 0
        \/ a = 0 /\ d = 1 /\ f = 0
        \/ a = 0 /\ d = 0 /\ f = 1
    BY <1>3
  <2> HIDE DEF a, c, d, e, f, h
  <2>4. a + c + d + e + f + h = 1
    BY <2>2, <2>3
  <2> QED BY <2>4 DEF a, c, d, e, f, h
<1>4. CASE g = Server
  <2>1. Peer(g) = Client
    BY <1>4, GatewayAssumption DEF Peer
  <2>2. a = 0 /\ d = 0 /\ f = 0
    BY <1>2, <2>1
  <2>3. \/ c = 1 /\ e = 0 /\ h = 0
        \/ c = 0 /\ e = 1 /\ h = 0
        \/ c = 0 /\ e = 0 /\ h = 1
    BY <1>4
  <2> HIDE DEF a, c, d, e, f, h
  <2>4. a + c + d + e + f + h = 1
    BY <2>2, <2>3
  <2> QED BY <2>4 DEF a, c, d, e, f, h
<1> QED BY <1>3, <1>4 DEF Gateways

LEMMA SingletonFacts ==
    ASSUME NEW S
    PROVE  /\ \A x \in S : /\ Append(<<>>, x) # <<>> /\ Len(Append(<<>>, x)) = 1
                           /\ Head(Append(<<>>, x)) = x
           /\ \A s \in Seq(S) : Len(s) = 1 => Tail(s) = <<>>
<1>1. ASSUME NEW x \in S
      PROVE  Append(<<>>, x) # <<>> /\ Len(Append(<<>>, x)) = 1 /\ Head(Append(<<>>, x)) = x
  <2>1. <<>> \in Seq(S) /\ Len(<<>>) = 0
    OBVIOUS
  <2> QED BY <2>1, AppendProperties
<1>2. ASSUME NEW s \in Seq(S), Len(s) = 1
      PROVE  Tail(s) = <<>>
  <2>1. s # <<>>
    BY <1>2, EmptySeq
  <2>2. Tail(s) \in Seq(S) /\ Len(Tail(s)) = 0
    BY <1>2, <2>1, HeadTailProperties
  <2> QED BY <2>2, EmptySeq
<1> QED BY <1>1, <1>2

\* In lockstep, a thread inside the cipher is alone in it.
LEMMA AloneInCipher ==
    ASSUME TypeOK, LockstepInv, NEW g \in Gateways
    PROVE  /\ outbox[g] # <<>> => /\ AtOutbox(g) /\ enc[Peer(g)].pc = "idle"
                                  /\ dec[g] = "idle" /\ dec[Peer(g)] = "idle"
           /\ wire[g] # <<>> => /\ AtWire(g) /\ dec[Peer(g)] = "idle"
                                /\ enc[g].pc = "idle" /\ enc[Peer(g)].pc = "idle"
           /\ owed[g] > 0 => /\ AtDevice(g) /\ dec[g] = "idle" /\ dec[Peer(g)] = "idle"
                             /\ enc[g].pc = "idle" /\ enc[Peer(g)].pc = "idle"
BY PeerType, OneMessage DEF LockstepInv, ThreadsHaveInput, AtDevice, AtOutbox, AtWire

-----------------------------------------------------------------------------
(***************************************************************************)
(* LockstepInv is inductive when the master keeps one transaction          *)
(* outstanding.                                                            *)
(***************************************************************************)
LEMMA LockstepInit == ASSUME Window = 1 PROVE Init => LockstepInv
<1> SUFFICES ASSUME Init PROVE LockstepInv
  OBVIOUS
<1>1. Tokens = 1
  <2>1. TypeOK
    BY TypeInvInit DEF TypeInv
  <2>2. /\ owed[Client] = 1 /\ owed[Server] = 0 /\ Peer(Client) = Server
        /\ \A g \in Gateways : outbox[g] = <<>> /\ wire[g] = <<>>
    BY GatewayAssumption DEF Init, Gateways, Peer
  <2>3. Client \in Gateways /\ Server \in Gateways /\ Len(<<>>) = 0
    BY DEF Gateways
  <2> QED BY <2>1, <2>2, <2>3, OnePlaceIsOneToken DEF Tokens, TypeOK
<1>2. \A g \in Gateways : TurnInv(g)
  <2> TAKE g \in Gateways
  <2>1. Peer(g) \in Gateways
    BY PeerType
  <2> QED
    BY <2>1 DEF Init, TurnInv, Handshake, HandshakeNone, Quiet, NothingToSwitch, InitRekeyer,
                KeysInStep, Sending, SaysItsState, IdleEnc
<1> QED
  BY <1>1, <1>2 DEF Init, LockstepInv, ThreadsHaveInput, IdleEnc

\* What an action needs to show: where it leaves the message, and that the
\* handshake goes on for the one gateway that has the turn.
LEMMA LockstepStep ==
    ASSUME TypeInv', NEW g \in Gateways, NEW x \in Gateways,
           (owed[Peer(x)] = 0 /\ outbox[Peer(x)] = <<>> /\ wire[Peer(x)] = <<>>)',
           \/ owed'[x] = 1 /\ Len(outbox'[x]) = 0 /\ Len(wire'[x]) = 0
           \/ owed'[x] = 0 /\ Len(outbox'[x]) = 1 /\ Len(wire'[x]) = 0
           \/ owed'[x] = 0 /\ Len(outbox'[x]) = 0 /\ Len(wire'[x]) = 1,
           \A y \in Gateways : enc'[y].pc # "dead" /\ dec'[y] \in {"idle", "update", "open"},
           (wire[x] # <<>> => Head(wire[x]).key = key[Peer(x)])',
           ~Rekeying => \A y \in Gateways : rk'[y] = InitRekeyer,
           HasTurn(Peer(g))' => FALSE,
           TurnInv(g)'
    PROVE  LockstepInv'
<1>1. Tokens' = 1
  BY OnePlaceIsOneToken DEF TypeInv, TypeOK, Tokens
<1>2. \A y \in Gateways : y = g \/ y = Peer(g)
  BY DEF Gateways, Peer
<1>3. \A y \in Gateways : y = x \/ y = Peer(x)
  BY DEF Gateways, Peer
<1>4. (\A y \in Gateways : wire[y] # <<>> => Head(wire[y]).key = key[Peer(y)])'
  BY <1>3
<1>5. (\A y \in Gateways : HasTurn(y) => TurnInv(y))'
  BY <1>2
<1> QED
  BY <1>1, <1>4, <1>5 DEF LockstepInv, TypeInv

\* The encrypting thread's and the environment's steps.
LEMMA LockstepEncrypt ==
    ASSUME TypeInv, TypeInv', LockstepInv, NEW g \in Gateways,
           Submit(g) \/ Encrypt(g)
    PROVE  LockstepInv'
<1> DEFINE h == Peer(g)
<1>0. h \in Gateways /\ h # g /\ Peer(h) = g /\ \A y \in Gateways : y = g \/ y = h
  BY PeerType DEF Gateways, Peer
<1> HIDE DEF h
<1>1. TypeOK /\ TypeOK' /\ Len(<<>>) = 0
  BY DEF TypeInv
<1>2. CASE Submit(g)
  <2>1. AtDevice(g) /\ (\A y \in Gateways : enc[y].pc = "idle" /\ dec[y] = "idle") /\ TurnInv(g)
    BY <1>0, <1>1, <1>2, AloneInCipher DEF Submit, LockstepInv, HasTurn, h
  <2>2. PICK d \in Payloads : outbox' = [outbox EXCEPT ![g] = Append(@, d)]
    BY <1>2 DEF Submit
  <2>3. outbox'[g] = Append(<<>>, d) /\ outbox'[h] = <<>>
    BY <1>0, <1>1, <2>1, <2>2 DEF AtDevice, TypeOK, h
  <2>4. Len(outbox'[g]) = 1
    BY <2>3, SingletonFacts
  <2>5. /\ owed'[g] = 0 /\ owed'[h] = 0 /\ wire' = wire /\ wire[g] = <<>> /\ wire[h] = <<>>
        /\ UNCHANGED <<wire, rk, key, enc, dec>>
    BY <1>0, <1>1, <1>2, <2>1 DEF Submit, AtDevice, TypeOK, h
  <2>6. ~HasTurn(h)'
    BY <1>0, <2>3, <2>5 DEF HasTurn
  <2>7. TurnInv(g)'
    BY <2>1, <2>5 DEF TurnInv, KeysInStep, Sending, SaysItsState
  <2> QED
    BY <1>0, <1>1, <2>3, <2>4, <2>5, <2>6, <2>7, LockstepStep DEF LockstepInv, h
<1>3. ASSUME Encrypt(g)
      PROVE  /\ outbox[g] # <<>> /\ AtOutbox(g) /\ TurnInv(g)
             /\ enc[h].pc = "idle" /\ dec[g] = "idle" /\ dec[h] = "idle"
             /\ ~rk[g].fail_flag
  <2>1. outbox[g] # <<>>
    BY <1>3
    DEF Encrypt, EncUpdateKey, EncGetSendState, EncGetOwnPublicSecret, EncSealAndSend,
        TypeInv, ThreadsHaveInput
  <2> QED BY <1>1, <2>1, AloneInCipher DEF LockstepInv, HasTurn, TurnInv, h
\* While the message stays in the outbox, only g's turn needs to be shown.
<1>4. ASSUME Encrypt(g), UNCHANGED <<owed, outbox, wire, dec>>, TurnInv(g)',
             enc'[g].pc # "dead", \A y \in Gateways : y # g => enc'[y] = enc[y],
             ~Rekeying => \A y \in Gateways : rk'[y] = InitRekeyer
      PROVE  LockstepInv'
  <2>1. owed'[g] = 0 /\ owed'[h] = 0 /\ Len(outbox'[g]) = 1 /\ outbox'[h] = <<>>
        /\ wire'[g] = <<>> /\ wire'[h] = <<>>
    BY <1>3, <1>4 DEF AtOutbox, h
  <2>2. ~HasTurn(h)'
    BY <1>0, <2>1 DEF HasTurn
  <2>3. \A y \in Gateways : enc'[y].pc # "dead" /\ dec'[y] \in {"idle", "update", "open"}
    BY <1>3, <1>4 DEF LockstepInv
  <2> QED
    BY <1>0, <1>1, <1>4, <2>1, <2>2, <2>3, LockstepStep DEF h
<1>5. CASE EncUpdateKey(g)
  <2> DEFINE n == GetNewKey(rk[g], TRUE)
             m == IF n = NoKey THEN key[g] ELSE n
  <2>1. Encrypt(g)
    BY <1>5 DEF Encrypt
  <2>2. Handshake(rk[g], key[g], rk[h], key[h]) /\ key[g] = key[h] /\ ~rk[g].fail_flag
    BY <1>3, <1>5, <2>1 DEF TurnInv, KeysInStep, Sending, AtOutbox, EncUpdateKey, h
  <2>3. /\ AfterGetNewKey(rk[g]) = rk[g]
        /\ Handshake(rk[g], m, rk[h], key[h])
        /\ m = IF rk[g].send_state = "SWITCH" THEN rk[g].new_key ELSE key[h]
    BY <1>0, <1>1, <2>2, UpdateBeforeSend DEF TypeOK
  <2>4. rk' = rk
    BY <1>1, <1>5, <2>3 DEF EncUpdateKey, UpdateKey, TypeOK
  <2>5. key'[g] = m /\ key'[h] = key[h]
    BY <1>0, <1>1, <1>5 DEF EncUpdateKey, UpdateKey, TypeOK
  <2>6. /\ enc'[g].pc = "flag" /\ \A y \in Gateways : y # g => enc'[y] = enc[y]
        /\ UNCHANGED <<owed, outbox, wire, dec>>
    BY <1>1, <1>5 DEF EncUpdateKey, TypeOK, EncState
  <2> HIDE DEF m
  <2>7. TurnInv(g)'
    <3>1. wire[h] = <<>>
      BY <1>3, <2>1 DEF AtOutbox, h
    <3> QED
      BY <1>3, <2>1, <2>2, <2>3, <2>4, <2>5, <2>6, <3>1 DEF TurnInv, KeysInStep, Sending, SaysItsState, h
  <2> QED
    BY <1>4, <2>1, <2>4, <2>6, <2>7 DEF LockstepInv
<1>6. CASE EncGetSendState(g)
  <2>1. Encrypt(g)
    BY <1>6 DEF Encrypt
  <2>2. /\ enc'[g].pc = "secret" /\ enc'[g].flag = rk[g].send_state
        /\ \A y \in Gateways : y # g => enc'[y] = enc[y]
        /\ enc[g].pc = "flag" /\ UNCHANGED <<owed, outbox, wire, rk, key, dec>>
    BY <1>1, <1>6 DEF EncGetSendState, TypeOK, EncState
  <2>3. TurnInv(g)'
    <3>1. wire[h] = <<>>
      BY <1>3, <2>1 DEF AtOutbox, h
    <3> QED
      BY <1>3, <2>1, <2>2, <3>1 DEF TurnInv, KeysInStep, Sending, SaysItsState, h
  <2> QED
    BY <1>4, <2>1, <2>2, <2>3 DEF LockstepInv
<1>7. CASE EncGetOwnPublicSecret(g)
  <2>1. Encrypt(g)
    BY <1>7 DEF Encrypt
  <2>2. ~LacksOwnSecret(rk[g])
    BY <1>3, <2>1
    DEF TurnInv, Handshake, Undoing, HandshakeInit, HandshakeReply, LacksOwnSecret, SharedSecretFlags
  <2>3. /\ enc'[g].pc = "seal" /\ enc'[g].flag = enc[g].flag
        /\ enc'[g].pub = OwnPublicSecret(rk[g])
        /\ \A y \in Gateways : y # g => enc'[y] = enc[y]
        /\ enc[g].pc = "secret" /\ UNCHANGED <<owed, outbox, wire, rk, key, dec>>
    BY <1>1, <1>7, <2>2 DEF EncGetOwnPublicSecret, TypeOK, EncState
  <2>4. TurnInv(g)'
    <3>1. wire[h] = <<>>
      BY <1>3, <2>1 DEF AtOutbox, h
    <3> QED
      BY <1>3, <2>1, <2>3, <3>1 DEF TurnInv, KeysInStep, Sending, SaysItsState, h
  <2> QED
    BY <1>4, <2>1, <2>3, <2>4 DEF LockstepInv
<1>8. CASE EncSealAndSend(g)
  <2> DEFINE p == [flag |-> enc[g].flag, pub |-> enc[g].pub,
                   key |-> key[g], data |-> Head(outbox[g])]
  <2>1. Encrypt(g)
    BY <1>8 DEF Encrypt
  <2>2. /\ wire[h] = <<>> /\ wire[g] = <<>> /\ owed[g] = 0 /\ owed[h] = 0
        /\ outbox[h] = <<>> /\ Len(outbox[g]) = 1
    BY <1>3, <2>1 DEF AtOutbox, h
  <2>3. wire'[h] = Append(<<>>, p) /\ wire'[g] = <<>>
    BY <1>0, <1>1, <1>8, <2>2 DEF EncSealAndSend, TypeOK, h
  <2>4. /\ p.flag = rk[g].send_state /\ p.pub = OwnPublicSecret(rk[g]) /\ p.key = key[g]
    BY <1>3, <1>8, <2>1 DEF EncSealAndSend, TurnInv, SaysItsState
  <2> HIDE DEF p
  <2>5. wire'[h] # <<>> /\ Len(wire'[h]) = 1 /\ Head(wire'[h]) = p
    <3>1. \A x \in {p} : /\ Append(<<>>, x) # <<>> /\ Len(Append(<<>>, x)) = 1
                         /\ Head(Append(<<>>, x)) = x
      BY SingletonFacts
    <3> QED BY <2>3, <3>1
  <2>6. outbox'[g] = <<>> /\ outbox'[h] = <<>>
    <3>1. Tail(outbox[g]) = <<>>
      BY <1>1, <2>2, SingletonFacts DEF TypeOK
    <3> QED BY <1>0, <1>1, <1>8, <2>2, <3>1 DEF EncSealAndSend, TypeOK
  <2>7. /\ enc'[g] = IdleEnc /\ \A y \in Gateways : y # g => enc'[y] = enc[y]
        /\ enc[g].pc = "seal" /\ UNCHANGED <<owed, rk, key, dec>>
    BY <1>1, <1>8 DEF EncSealAndSend, TypeOK
  <2>8. ~HasTurn(h)'
    BY <1>0, <1>3, <2>1, <2>2, <2>3, <2>6, <2>7 DEF HasTurn
  <2>9. TurnInv(g)'
    BY <1>3, <2>1, <2>4, <2>5, <2>7 DEF TurnInv, KeysInStep, Sending, SaysItsState, IdleEnc, h
  <2>10. /\ \A y \in Gateways : enc'[y].pc # "dead" /\ dec'[y] \in {"idle", "update", "open"}
         /\ ~Rekeying => \A y \in Gateways : rk'[y] = InitRekeyer
    BY <1>3, <2>1, <2>7 DEF LockstepInv, IdleEnc
  <2> QED
    BY <1>0, <1>1, <2>2, <2>3, <2>4, <2>5, <2>6, <2>7, <2>8, <2>9, <2>10, LockstepStep DEF h
<1> QED
  BY <1>2, <1>5, <1>6, <1>7, <1>8 DEF Encrypt

\* The clock's step.
LEMMA LockstepElapse ==
    ASSUME TypeInv, LockstepInv, NEW x \in Gateways, Elapse(x)
    PROVE  LockstepInv'
<1>1. /\ UNCHANGED <<owed, outbox, wire, key, enc, dec>> /\ Rekeying
      /\ rk'[x] = [rk[x] EXCEPT !.due = TRUE]
      /\ \A y \in Gateways : y # x => rk'[y] = rk[y]
  BY DEF Elapse, TypeInv, TypeOK
<1>2. \A y \in Gateways : /\ rk'[y].send_state = rk[y].send_state
                          /\ rk'[y].fail_flag = rk[y].fail_flag
                          /\ rk'[y].new_key = rk[y].new_key
                          /\ OwnPublicSecret(rk'[y]) = OwnPublicSecret(rk[y])
  <2>1. ASSUME NEW r \in RekeyerState
        PROVE  LET d == [r EXCEPT !.due = TRUE]
               IN  /\ d.send_state = r.send_state /\ d.fail_flag = r.fail_flag
                   /\ d.new_key = r.new_key /\ d.own_secret = r.own_secret
    BY DEF RekeyerState
  <2>2. rk[x] \in RekeyerState
    BY DEF TypeInv, TypeOK
  <2>3. /\ rk'[x].send_state = rk[x].send_state /\ rk'[x].fail_flag = rk[x].fail_flag
        /\ rk'[x].new_key = rk[x].new_key /\ rk'[x].own_secret = rk[x].own_secret
    BY <1>1, <2>1, <2>2
  <2> QED BY <1>1, <2>3 DEF OwnPublicSecret
<1>3. ASSUME NEW y \in Gateways, HasTurn(y)'
      PROVE  TurnInv(y)'
  <2> DEFINE z == Peer(y)
  <2>1. z \in Gateways /\ z # y /\ (x = y \/ x = z)
    BY PeerType DEF Gateways, Peer
  <2> HIDE DEF z
  <2>2. TurnInv(y)
    BY <1>1, <1>3 DEF HasTurn, LockstepInv
  <2>3. /\ rk[y] \in RekeyerState /\ rk[z] \in RekeyerState
        /\ key[y] \in Keys /\ key[z] \in Keys
        /\ Handshake(rk[y], key[y], rk[z], key[z])
    BY <2>1, <2>2 DEF TypeInv, TypeOK, TurnInv, z
  <2>4. /\ Handshake([rk[y] EXCEPT !.due = TRUE], key[y], rk[z], key[z])
        /\ Handshake(rk[y], key[y], [rk[z] EXCEPT !.due = TRUE], key[z])
    BY <2>3, DueIsIrrelevant
  <2>5. Handshake(rk'[y], key'[y], rk'[z], key'[z])
    <3>1. CASE x = y
      BY <1>1, <2>1, <2>4, <3>1
    <3>2. CASE x = z
      BY <1>1, <2>1, <2>4, <3>2
    <3> QED BY <2>1, <3>1, <3>2
  <2>6. KeysInStep(y)' /\ SaysItsState(y)' /\ (rk[y].fail_flag => dec[y] = "update")'
    BY <1>1, <1>2, <2>1, <2>2 DEF TurnInv, KeysInStep, Sending, SaysItsState
  <2> QED BY <2>5, <2>6 DEF TurnInv, z
<1> QED
  BY <1>1, <1>3 DEF LockstepInv, Tokens, ThreadsHaveInput

\* The decrypting thread's steps.
LEMMA LockstepDecrypt ==
    ASSUME ~MayBeLate, TypeInv, TypeInv', LockstepInv, NEW g \in Gateways, Decrypt(g)
    PROVE  LockstepInv'
<1> DEFINE h == Peer(g)
<1>0. h \in Gateways /\ h # g /\ Peer(h) = g /\ \A y \in Gateways : y = g \/ y = h
  BY PeerType DEF Gateways, Peer
<1> HIDE DEF h
<1>1. /\ TypeOK /\ TypeOK' /\ Len(<<>>) = 0
      /\ rk[g] \in RekeyerState /\ rk[h] \in RekeyerState /\ key[g] \in Keys /\ key[h] \in Keys
  BY <1>0 DEF TypeInv, TypeOK
<1>2. wire[g] # <<>>
  BY DEF Decrypt, DecHandleRekey, DecUpdateKey, DecOpen, DecOpenFails, DecReject,
         DecOpenWithOldKey, DecSetFailFlag, DecRevert, DecTooLate, DecDies,
         TypeInv, ThreadsHaveInput
<1>3. /\ owed[g] = 0 /\ owed[h] = 0 /\ outbox[g] = <<>> /\ outbox[h] = <<>>
      /\ Len(wire[g]) = 1 /\ wire[h] = <<>>
      /\ enc[g].pc = "idle" /\ enc[h].pc = "idle" /\ dec[h] = "idle"
      /\ Head(wire[g]).key = key[h]
  BY <1>1, <1>2, AloneInCipher DEF AtWire, LockstepInv, h
\* While the packet stays at the head of the wire, only g's turn needs to be shown.
<1>4. ASSUME UNCHANGED <<owed, outbox, wire, enc>>, TurnInv(g)', key'[h] = key[h],
             dec'[g] \in {"update", "open"}, \A y \in Gateways : y # g => dec'[y] = dec[y],
             ~Rekeying => \A y \in Gateways : rk'[y] = InitRekeyer
      PROVE  LockstepInv'
  <2>1. ~HasTurn(h)'
    BY <1>0, <1>3, <1>4 DEF HasTurn
  <2>2. \A y \in Gateways : enc'[y].pc # "dead" /\ dec'[y] \in {"idle", "update", "open"}
    BY <1>4 DEF LockstepInv
  <2> QED
    BY <1>0, <1>1, <1>2, <1>3, <1>4, <2>1, <2>2, LockstepStep DEF h
<1>5. CASE DecHandleRekey(g)
  <2> DEFINE p == Head(wire[g])
  <2>1. /\ dec[g] = "idle" /\ TurnInv(h) /\ ~rk[h].fail_flag
    BY <1>0, <1>2, <1>3, <1>5 DEF DecHandleRekey, LockstepInv, HasTurn, TurnInv
  <2>2. /\ p.flag = rk[h].send_state /\ p.pub = OwnPublicSecret(rk[h])
        /\ Handshake(rk[h], key[h], rk[g], key[g])
        /\ rk[h].send_state = "SWITCH" => key[h] = rk[h].new_key
        /\ rk[h].send_state # "SWITCH" => key[g] = key[h]
    BY <1>0, <1>2, <1>3, <2>1 DEF TurnInv, SaysItsState, KeysInStep, Sending
  <2>3. PICK fresh \in Secrets \ Live, agreed \in {TRUE, ~AgreementMayFail} :
          rk' = IF Rekeying
                THEN [rk EXCEPT ![g] = HandleRekey(@, key[g], p.flag, p.pub, fresh, agreed)]
                ELSE rk
    BY <1>5 DEF DecHandleRekey
  <2> DEFINE r == HandleRekey(rk[g], key[g], p.flag, p.pub, fresh, agreed)
  <2>4. agreed \in BOOLEAN /\ fresh \in Secrets
    BY ModeAssumption
  <2>5. /\ ~HandleRekeyRaises(rk[g], p.flag, p.pub)
        /\ Handshake(r, key[g], rk[h], key[h])
        /\ IF r.send_state = "SWITCH_ACK" THEN key[h] = r.new_key ELSE key[g] = key[h]
    BY <1>1, <2>1, <2>2, <2>4, HandleContinues
  <2>6. /\ UNCHANGED <<owed, outbox, wire, key, enc>> /\ dec'[g] = "update"
        /\ \A y \in Gateways : y # g => dec'[y] = dec[y]
    BY <1>1, <1>5, <2>5 DEF DecHandleRekey, TypeOK
  <2> HIDE DEF r, p
  <2>7. Handshake(rk'[g], key[g], rk'[h], key[h])
        /\ IF rk'[g].send_state = "SWITCH_ACK" THEN key[h] = rk'[g].new_key ELSE key[g] = key[h]
    <3>1. CASE Rekeying
      <4>1. rk'[g] = r /\ rk'[h] = rk[h]
        BY <1>0, <1>1, <2>3, <3>1 DEF TypeOK, r
      <4> QED BY <2>5, <4>1
    <3>2. CASE ~Rekeying
      <4>1. rk'[g] = InitRekeyer /\ rk'[h] = InitRekeyer /\ rk[h] = InitRekeyer
        BY <1>0, <2>3, <3>2 DEF LockstepInv
      <4>2. key[g] = key[h]
        BY <2>2, <4>1 DEF InitRekeyer
      <4> QED
        BY <4>1, <4>2 DEF InitRekeyer, Handshake, HandshakeNone, Quiet, NothingToSwitch
    <3> QED BY <3>1, <3>2
  <2>8. TurnInv(g)'
    BY <1>3, <2>6, <2>7 DEF TurnInv, KeysInStep, Sending, SaysItsState, h
  <2>9. ~Rekeying => \A y \in Gateways : rk'[y] = InitRekeyer
    BY <2>3 DEF LockstepInv
  <2> QED
    BY <1>4, <2>6, <2>8, <2>9
<1>6. CASE DecUpdateKey(g)
  <2> DEFINE n == GetNewKey(rk[g], FALSE)
             m == IF n = NoKey THEN key[g] ELSE n
             s == AfterGetNewKey(rk[g])
  <2>1. TurnInv(g) /\ dec[g] = "update"
    BY <1>2, <1>6 DEF DecUpdateKey, LockstepInv, HasTurn
  <2>2. /\ Handshake(rk[g], key[g], rk[h], key[h])
        /\ IF rk[g].send_state = "SWITCH_ACK" THEN key[h] = rk[g].new_key ELSE key[g] = key[h]
    BY <1>3, <2>1 DEF TurnInv, KeysInStep, Sending, h
  <2>3. Handshake(s, key[h], rk[h], key[h]) /\ ~s.fail_flag /\ m = key[h]
    BY <1>1, <2>2, UpdateAfterReceive
  <2>4. /\ rk'[g] = s /\ rk'[h] = rk[h] /\ key'[g] = m /\ key'[h] = key[h]
        /\ dec'[g] = "open" /\ \A y \in Gateways : y # g => dec'[y] = dec[y]
        /\ UNCHANGED <<owed, outbox, wire, enc>>
    BY <1>0, <1>1, <1>6 DEF DecUpdateKey, UpdateKey, TypeOK
  <2>5. ~Rekeying => \A y \in Gateways : rk'[y] = InitRekeyer
    <3> SUFFICES ASSUME ~Rekeying PROVE \A y \in Gateways : rk'[y] = InitRekeyer
      OBVIOUS
    <3>1. rk[g] = InitRekeyer /\ rk[h] = InitRekeyer
      BY <1>0 DEF LockstepInv
    <3>2. s = InitRekeyer
      BY <3>1 DEF AfterGetNewKey, InitRekeyer
    <3> QED BY <1>0, <2>4, <3>1, <3>2
  <2> HIDE DEF m, s
  <2>6. TurnInv(g)'
    BY <1>3, <2>3, <2>4 DEF TurnInv, KeysInStep, Sending, SaysItsState, h
  <2> QED
    BY <1>4, <2>4, <2>5, <2>6
<1>7. ASSUME dec[g] = "open"
      PROVE  TurnInv(g) /\ key[g] = key[h] /\ ~rk[g].fail_flag
  BY <1>2, <1>3, <1>7 DEF LockstepInv, HasTurn, TurnInv, KeysInStep, Sending, h
<1>8. CASE DecOpen(g)
  <2>1. /\ owed'[g] = 1 /\ owed'[h] = 0 /\ dec'[g] = "idle"
        /\ \A y \in Gateways : y # g => dec'[y] = dec[y]
        /\ wire'[h] = <<>> /\ wire'[g] = Tail(wire[g])
        /\ UNCHANGED <<outbox, rk, key, enc>> /\ dec[g] = "open"
    BY <1>0, <1>1, <1>3, <1>8 DEF DecOpen, HandToDevice, TypeOK
  <2>2. wire'[g] = <<>>
    BY <1>1, <1>3, <2>1, SingletonFacts DEF TypeOK
  <2>3. ~HasTurn(h)'
    <3>1. owed'[h] = 0 /\ outbox'[h] = <<>> /\ wire'[h] = <<>> /\ wire'[g] = <<>>
      BY <1>3, <2>1, <2>2
    <3> QED BY <1>0, <3>1 DEF HasTurn
  <2>4. TurnInv(g)'
    BY <1>3, <1>7, <2>1, <2>2 DEF TurnInv, KeysInStep, Sending, SaysItsState, h
  <2>5. /\ \A y \in Gateways : enc'[y].pc # "dead" /\ dec'[y] \in {"idle", "update", "open"}
        /\ ~Rekeying => \A y \in Gateways : rk'[y] = InitRekeyer
    BY <2>1 DEF LockstepInv
  <2> QED
    BY <1>0, <1>1, <1>3, <2>1, <2>2, <2>3, <2>4, <2>5, LockstepStep DEF h
<1>9. CASE DecOpenFails(g)
  BY <1>3, <1>7, <1>9 DEF DecOpenFails
<1>10. CASE DecOpenWithOldKey(g) \/ DecSetFailFlag(g) \/ DecRevert(g) \/ DecReject(g)
  BY <1>10 DEF DecOpenWithOldKey, DecSetFailFlag, DecRevert, DecReject, LockstepInv
<1> QED
  BY <1>5, <1>6, <1>8, <1>9, <1>10 DEF Decrypt, DecTooLate, DecDies

LEMMA LockstepNext ==
    ASSUME ~MayBeLate, TypeInv, TypeInv', LockstepInv, [Next]_vars
    PROVE  LockstepInv'
<1>1. CASE UNCHANGED vars
  BY <1>1
  DEF vars, LockstepInv, Tokens, ThreadsHaveInput, HasTurn, TurnInv, KeysInStep, Sending,
      SaysItsState
<1>2. CASE Next
  BY <1>2, LockstepElapse, LockstepEncrypt, LockstepDecrypt DEF Next, Retry
<1> QED BY <1>1, <1>2

\* With one transaction outstanding, as a polling Modbus master has, and no
\* packet late (sequence numbers, or clocks in step and a quick network), the two
\* Rekeyers never disagree on where the handshake is, and the two gateways
\* never disagree on the key, whatever the number of rekeyings and failures.
THEOREM Lockstep ==
    ASSUME Window = 1, ~MayBeLate PROVE SafetySpec => []LockstepInv
<1>1. Init => TypeInv /\ LockstepInv
  BY TypeInvInit, LockstepInit
<1>2. (TypeInv /\ LockstepInv) /\ [Next]_vars => (TypeInv /\ LockstepInv)'
  BY TypeInvNext, LockstepNext
<1> QED BY <1>1, <1>2, PTL DEF SafetySpec

\* The two threads of a gateway share the cipher without a lock, and in
\* lockstep need none: nobody else is inside a cipher while a thread is.
THEOREM LockstepNeedsNoLock ==
    ASSUME Window = 1, ~MayBeLate PROVE SafetySpec => []ThreadsExcludeEachOther
<1>1. TypeInv /\ LockstepInv => ThreadsExcludeEachOther
  BY PeerType, AloneInCipher DEF ThreadsExcludeEachOther, TypeInv, LockstepInv, ThreadsHaveInput
<1> QED BY <1>1, Lockstep, TypeInvariant, PTL

\* In lockstep every packet opens under the key tried first: no rekeying
\* costs a payload and the fallback to the old key is never taken.
THEOREM LockstepOpensAtFirstTry ==
    ASSUME Window = 1, ~MayBeLate PROVE SafetySpec => []OpensAtFirstTry
<1>1. TypeInv /\ LockstepInv => OpensAtFirstTry
  <2> SUFFICES ASSUME TypeInv, LockstepInv, NEW g \in Gateways, dec[g] = "open"
               PROVE  Head(wire[g]).key = key[g]
    BY DEF OpensAtFirstTry
  <2>1. wire[g] # <<>> /\ TurnInv(g)
    BY DEF TypeInv, ThreadsHaveInput, LockstepInv, HasTurn
  <2>2. key[g] = key[Peer(g)]
    BY <2>1, AloneInCipher, PeerType DEF TypeInv, AtWire, TurnInv, KeysInStep, Sending
  <2> QED BY <2>1, <2>2 DEF LockstepInv
<1> QED BY <1>1, Lockstep, TypeInvariant, PTL


-----------------------------------------------------------------------------
(***************************************************************************)
(* Rekeyings that overlap: whatever is outstanding, late or lost.          *)
(*                                                                         *)
(* The messages of one rekeying after the other are numbered through, five *)
(* to a rekeying.  With several packets under way each gateway may be at a *)
(* number of its own, and repeat it, but neither ever goes back, and what  *)
(* it says next is bounded by the last packet it has handled.              *)
(***************************************************************************)

\* Message n of the sequence says flag; a FAIL takes the place of a REPLY or a SWITCH.
Carries(n, flag) ==
    \/ flag = "NONE"       /\ n % 5 = 0
    \/ flag = "INIT"       /\ n % 5 = 1
    \/ flag = "REPLY"      /\ n % 5 = 2
    \/ flag = "SWITCH"     /\ n % 5 = 3
    \/ flag = "SWITCH_ACK" /\ n % 5 = 4
    \/ flag = "FAIL"       /\ n % 5 \in {2, 3}

NextRekeying(n) == n + (5 - (n % 5))

\* The last message a gateway may be at that has heard message n.
Reach(n) == IF n % 5 \in {0, 1} THEN n + 1 ELSE NextRekeying(n)

\* A Rekeyer that is at message n and has heard message m.  A replier without
\* a new key has heard the NONE with which its peer gave the rekeying up.
AtMessage(r, n, m) ==
    /\ Carries(n, r.send_state) /\ n <= Reach(m)
    /\ r.role = "initiator" \/ r.send_state = "INIT" => r.due
    /\ r.role = "initiator" => n % 5 \in {1, 3}
    /\ r.role = "replier" => IF r.new_key = NoKey THEN n % 5 = 0 /\ n <= m ELSE n % 5 = 2

\* The packets of w say messages ns, none before `low`, none after `high`.
Line(w, ns, low, high) ==
    /\ low <= high /\ ns \in Seq(Nat) /\ Len(ns) = Len(w)
    /\ \A i \in 1 .. Len(ns) :
          /\ Carries(ns[i], w[i].flag) /\ low <= ns[i] /\ ns[i] <= high
          /\ \A j \in 1 .. i : ns[j] <= ns[i]

\* g is at message at[g], has last begun to send said[g] and has heard
\* heard[g]; the packets on the wire to it say sent[g].
Numbering(sent, said, at, heard) ==
    \A g \in Gateways :
        /\ Line(wire[g], sent[g], heard[g], said[Peer(g)])
        /\ said[g] <= at[g]
        /\ enc[g].pc \in {"secret", "seal"} => Carries(said[g], enc[g].flag)
        /\ AtMessage(rk[g], at[g], heard[g])

OverlapInv ==
    \E sent \in [Gateways -> Seq(Nat)], said, at, heard \in [Gateways -> Nat] :
        Numbering(sent, said, at, heard)

LEMMA MessageFacts ==
    ASSUME NEW n \in Nat
    PROVE  /\ n % 5 \in 0 .. 4
           /\ n % 5 # 4 => (n + 1) % 5 = (n % 5) + 1
           /\ NextRekeying(n) \in Nat /\ NextRekeying(n) % 5 = 0 /\ n < NextRekeying(n)
           /\ Reach(n) \in Nat /\ n < Reach(n)
BY DEF NextRekeying, Reach

LEMMA ReachMonotone ==
    ASSUME NEW m \in Nat, NEW n \in Nat, m <= n
    PROVE  Reach(m) <= Reach(n)
BY DEF NextRekeying, Reach

\* A replier without a new key is at a NONE, and no SWITCH is within reach of it.
LEMMA SwitchHasKey ==
    ASSUME NEW r \in RekeyerState, NEW flag \in Flags, NEW n \in Nat, NEW l \in Nat, NEW m \in Nat,
           AtMessage(r, n, l), l <= m, Carries(m, flag), m <= Reach(n)
    PROVE  ~NewKeyMissing(r, flag)
BY DEF NewKeyMissing, AtMessage, Carries, Reach

\* A Rekeyer at message n that hears message m is at no earlier one then.
LEMMA HandleIsNumbered ==
    ASSUME NEW r \in RekeyerState, NEW k \in Keys, NEW flag \in Flags,
           NEW pub \in Secrets \cup {NoSecret}, NEW fresh \in Secrets, NEW agreed \in BOOLEAN,
           NEW n \in Nat, NEW l \in Nat, NEW m \in Nat,
           AtMessage(r, n, l), l <= m, Carries(m, flag), m <= Reach(n)
    PROVE  \E i \in Nat : n <= i /\ AtMessage(HandleRekey(r, k, flag, pub, fresh, agreed), i, m)
<1> DEFINE s == Received(r, k, pub)
           h == HandleRekey(r, k, flag, pub, fresh, agreed)
<1>1. /\ s \in RekeyerState
      /\ s.send_state = r.send_state /\ s.role = r.role /\ s.new_key = r.new_key
      /\ s.due = r.due /\ s.fail_flag = r.fail_flag
  BY DEF Received, RekeyerState
<1>2. n <= Reach(m)
  <2>1. n <= Reach(l) /\ Reach(l) <= Reach(m)
    BY ReachMonotone DEF AtMessage
  <2> QED BY <2>1, MessageFacts
<1>3. AtMessage(r, n, m) /\ AtMessage(s, n, m)
  BY <1>1, <1>2 DEF AtMessage
<1>4. ~NewKeyMissing(r, flag)
  BY SwitchHasKey
<1> HIDE DEF s
<1>5. CASE ~FlagMatchesSecret(flag, pub)
  <2>1. h = [r EXCEPT !.old_key = k]
    BY <1>5 DEF HandleRekey
  <2>2. AtMessage(h, n, m)
    BY <1>3, <2>1 DEF AtMessage, RekeyerState
  <2> QED BY <2>2
<1>6. CASE FlagMatchesSecret(flag, pub) /\ flag = "NONE"
  <2>1. h = OnNone(s, fresh) /\ m % 5 = 0
    BY <1>6 DEF HandleRekey, Carries, s
  <2>2. CASE s.due
    <3>1. AtMessage(h, m + 1, m) /\ n <= m + 1
      BY <1>1, <1>2, <2>1, <2>2 DEF OnNone, Answer, AtMessage, Carries, RekeyerState, Reach
    <3> QED BY <3>1
  <2>3. CASE ~s.due
    <3>1. n <= m
      BY <1>2, <1>3, <2>1, <2>3 DEF AtMessage, Carries, Reach, RekeyerState, Flags
    <3>2. AtMessage(h, m, m)
      BY <1>1, <1>3, <2>1, <2>3 DEF OnNone, ResetSym, Answer, AtMessage, Carries, RekeyerState, Reach
    <3> QED BY <3>1, <3>2
  <2> QED BY <2>2, <2>3
<1>7. CASE FlagMatchesSecret(flag, pub) /\ flag = "INIT"
  <2>1. h = OnInit(s, fresh, agreed) /\ m % 5 = 1
    BY <1>7 DEF HandleRekey, Carries, s
  <2>2. n <= m + 1 /\ (m + 1) % 5 = 2 /\ m + 1 <= Reach(m)
    BY <1>2, <2>1 DEF Reach
  <2> DEFINE t == [Answer(s, "REPLY") EXCEPT !.role = "replier", !.own_secret = fresh]
  <2>3. t \in RekeyerState /\ t.role = "replier" /\ t.send_state = "REPLY"
    BY <1>1, AnswerType DEF Flags, Answer, RekeyerState, Roles
  <2>4. h = IF Generates(t, agreed) THEN GenerateNewKey(t) ELSE ResetAll(Answer(t, "FAIL"))
    BY <2>1 DEF OnInit
  <2> HIDE DEF t
  <2>5. CASE Generates(t, agreed)
    <3>1. h = GenerateNewKey(t)
      BY <2>4, <2>5
    <3>2. SharedKey(t.own_secret, t.peer_secret) \in Keys
      BY <2>3, <2>5 DEF Generates, RekeyerState, SharedKey, Keys
    <3>3. h.role = "replier" /\ h.send_state = "REPLY" /\ h.new_key # NoKey
      BY <2>3, <3>1, <3>2, NoKeyFacts DEF GenerateNewKey, RekeyerState
    <3>4. AtMessage(h, m + 1, m)
      BY <2>2, <3>3 DEF AtMessage, Carries
    <3> QED BY <2>2, <3>4
  <2>6. CASE ~Generates(t, agreed)
    <3>1. h.role = "none" /\ h.send_state = "FAIL"
      BY <2>3, <2>4, <2>6 DEF ResetAll, ResetMost, ResetSym, Answer, RekeyerState
    <3>2. AtMessage(h, m + 1, m)
      BY <2>2, <3>1 DEF AtMessage, Carries
    <3> QED BY <2>2, <3>2
  <2> QED BY <2>5, <2>6
<1>8. ASSUME h.role = "none", h.send_state = "NONE", m % 5 \in {2, 3, 4}
      PROVE  \E i \in Nat : n <= i /\ AtMessage(h, i, m)
  <2>1. Reach(m) = NextRekeying(m)
    BY <1>8 DEF Reach
  <2>2. AtMessage(h, NextRekeying(m), m)
    BY <1>8, <2>1, MessageFacts DEF AtMessage, Carries
  <2> QED BY <1>2, <2>1, <2>2, MessageFacts
<1>9. OnFail(s).role = "none" /\ OnFail(s).send_state = "NONE"
  BY <1>1 DEF OnFail, ResetAll, ResetMost, ResetSym, Answer, RekeyerState
<1>10. CASE FlagMatchesSecret(flag, pub) /\ flag = "FAIL"
  <2>1. h = OnFail(s) /\ m % 5 \in {2, 3, 4}
    BY <1>10 DEF HandleRekey, Carries, s
  <2> QED BY <1>8, <1>9, <2>1
<1>11. CASE FlagMatchesSecret(flag, pub) /\ flag \in {"REPLY", "SWITCH", "SWITCH_ACK"}
  <2>1. h = OnReplySwitchOrAck(s, flag, agreed) /\ m % 5 \in {2, 3, 4}
    BY <1>11 DEF HandleRekey, Carries, s
  <2>2. CASE s.fail_flag
    <3>1. h = OnFail(s)
      BY <2>1, <2>2 DEF OnReplySwitchOrAck
    <3> QED BY <1>8, <1>9, <2>1, <3>1
  <2>3. CASE ~s.fail_flag /\ s.role = "initiator" /\ flag = "REPLY"
    <3>1. h = InitiatorOnReply(s, agreed)
      BY <2>1, <2>3 DEF OnReplySwitchOrAck
    <3>2. m % 5 = 2 /\ n % 5 \in {1, 3} /\ s.due
      BY <1>3, <2>3 DEF AtMessage, Carries
    <3>3. n <= m + 1 /\ (m + 1) % 5 = 3 /\ m + 1 <= Reach(m)
      BY <1>2, <3>2 DEF Reach, NextRekeying
    <3>4. h.role = "initiator" /\ h.due /\ h.send_state \in {"SWITCH", "FAIL"}
      BY <1>1, <2>3, <3>1, <3>2
      DEF InitiatorOnReply, SetFailFlag, GenerateNewKey, Answer, RekeyerState
    <3>5. AtMessage(h, m + 1, m)
      BY <3>3, <3>4 DEF AtMessage, Carries
    <3> QED BY <3>3, <3>5
  <2>4. CASE ~s.fail_flag /\ s.role = "initiator" /\ flag = "SWITCH_ACK"
    <3>1. h = InitiatorOnAck(s)
      BY <2>1, <2>4 DEF OnReplySwitchOrAck
    <3>2. h.role = "none" /\ h.send_state = "NONE"
      BY <1>1, <3>1 DEF InitiatorOnAck, ResetAll, ResetMost, ResetSym, Answer, RekeyerState
    <3> QED BY <1>8, <2>1, <3>2
  <2>5. CASE ~s.fail_flag /\ s.role = "replier" /\ flag = "SWITCH"
    <3>1. h = ReplierOnSwitch(s) /\ s.new_key # NoKey
      BY <1>1, <1>4, <2>1, <2>5 DEF OnReplySwitchOrAck, NewKeyMissing
    <3>2. m % 5 = 3 /\ n % 5 = 2
      BY <1>3, <2>5, <3>1 DEF AtMessage, Carries
    <3>3. n <= m + 1 /\ (m + 1) % 5 = 4 /\ m + 1 <= Reach(m)
      BY <1>2, <3>2 DEF Reach, NextRekeying
    <3>4. h.role = "none" /\ h.send_state = "SWITCH_ACK"
      BY <1>1, <3>1 DEF ReplierOnSwitch, ResetMost, Answer, RekeyerState
    <3>5. AtMessage(h, m + 1, m)
      BY <3>3, <3>4 DEF AtMessage, Carries
    <3> QED BY <3>3, <3>5
  <2>6. CASE /\ ~s.fail_flag
             /\ ~(s.role = "initiator" /\ flag \in {"REPLY", "SWITCH_ACK"})
             /\ ~(s.role = "replier" /\ flag = "SWITCH")
    <3>1. h = s
      BY <2>1, <2>6 DEF OnReplySwitchOrAck
    <3> QED BY <1>3, <3>1
  <2> QED BY <1>1, <1>11, <2>2, <2>3, <2>4, <2>5, <2>6 DEF RekeyerState
<1>12. flag = "NONE" \/ flag = "INIT" \/ flag = "FAIL" \/ flag \in {"REPLY", "SWITCH", "SWITCH_ACK"}
  BY DEF Flags
<1> QED BY <1>5, <1>6, <1>7, <1>10, <1>11, <1>12

LEMMA LineSent ==
    ASSUME NEW w \in Seq(Packet), NEW ns, NEW low \in Nat, NEW high \in Nat, NEW p \in Packet,
           Line(w, ns, low, high), Carries(high, p.flag)
    PROVE  Line(Append(w, p), Append(ns, high), low, high)
<1> DEFINE v  == Append(w, p)
           ms == Append(ns, high)
<1>1. ns \in Seq(Nat) /\ Len(ns) = Len(w) /\ Len(w) \in Nat /\ low <= high
  BY DEF Line
<1>2. /\ Len(v) = Len(w) + 1 /\ v[Len(w) + 1] = p /\ \A i \in 1 .. Len(w) : v[i] = w[i]
      /\ ms \in Seq(Nat) /\ Len(ms) = Len(w) + 1
      /\ ms[Len(w) + 1] = high /\ \A i \in 1 .. Len(w) : ms[i] = ns[i]
  BY <1>1, AppendProperties
<1> HIDE DEF v, ms
<1>3. ASSUME NEW i \in 1 .. Len(ms)
      PROVE  /\ Carries(ms[i], v[i].flag) /\ low <= ms[i] /\ ms[i] <= high
             /\ \A j \in 1 .. i : ms[j] <= ms[i]
  <2>1. \A j \in 1 .. Len(w) : Carries(ns[j], w[j].flag) /\ low <= ns[j] /\ ns[j] <= high
    BY <1>1 DEF Line
  <2>2. CASE i = Len(w) + 1
    <3>1. v[i] = p /\ ms[i] = high
      BY <1>2, <2>2
    <3>2. \A j \in 1 .. i : j \in 1 .. Len(w) \/ j = Len(w) + 1
      BY <1>1, <2>2
    <3>3. \A j \in 1 .. i : ms[j] <= high
      BY <1>2, <2>1, <3>2
    <3> QED BY <1>1, <3>1, <3>3
  <2>3. CASE i \in 1 .. Len(w)
    <3>1. v[i] = w[i] /\ ms[i] = ns[i]
      BY <1>2, <2>3
    <3>2. \A j \in 1 .. i : j \in 1 .. Len(w) /\ ns[j] <= ns[i]
      BY <1>1, <2>3 DEF Line
    <3>3. \A j \in 1 .. i : ms[j] <= ms[i]
      BY <1>2, <3>1, <3>2
    <3> QED BY <2>1, <2>3, <3>1, <3>3
  <2>4. i = Len(w) + 1 \/ i \in 1 .. Len(w)
    BY <1>1, <1>2
  <2> QED BY <2>2, <2>3, <2>4
<1>4. Line(v, ms, low, high)
  BY <1>1, <1>2, <1>3 DEF Line
<1> QED BY <1>4 DEF v, ms

LEMMA LineTaken ==
    ASSUME NEW w \in Seq(Packet), NEW ns, NEW low \in Nat, NEW high \in Nat,
           Line(w, ns, low, high), w # <<>>
    PROVE  Line(Tail(w), Tail(ns), low, high)
<1> DEFINE v  == Tail(w)
           ms == Tail(ns)
<1>1. ns \in Seq(Nat) /\ Len(ns) = Len(w) /\ Len(w) \in Nat \ {0} /\ low <= high
  BY EmptySeq DEF Line
<1>2. /\ Len(v) = Len(w) - 1 /\ \A i \in 1 .. Len(w) - 1 : v[i] = w[i + 1]
      /\ ms \in Seq(Nat) /\ Len(ms) = Len(w) - 1 /\ \A i \in 1 .. Len(w) - 1 : ms[i] = ns[i + 1]
  BY <1>1, HeadTailProperties, EmptySeq
<1> HIDE DEF v, ms
<1>3. ASSUME NEW i \in 1 .. Len(ms)
      PROVE  /\ Carries(ms[i], v[i].flag) /\ low <= ms[i] /\ ms[i] <= high
             /\ \A j \in 1 .. i : ms[j] <= ms[i]
  <2>1. i + 1 \in 1 .. Len(w)
    BY <1>1, <1>2
  <2>2. /\ Carries(ns[i + 1], w[i + 1].flag) /\ low <= ns[i + 1] /\ ns[i + 1] <= high
        /\ \A j \in 1 .. i + 1 : ns[j] <= ns[i + 1]
    BY <1>1, <2>1 DEF Line
  <2>3. \A j \in 1 .. i : j + 1 \in 1 .. i + 1 /\ j \in 1 .. Len(w) - 1
    BY <1>1, <1>2
  <2> QED BY <1>1, <1>2, <2>2, <2>3
<1>4. Line(v, ms, low, high)
  BY <1>1, <1>2, <1>3 DEF Line
<1> QED BY <1>4 DEF v, ms

\* What has been heard is the first packet; what is sent next comes after it.
LEMMA LineHeard ==
    ASSUME NEW w \in Seq(Packet), NEW ns, NEW low \in Nat, NEW high \in Nat,
           Line(w, ns, low, high), w # <<>>
    PROVE  /\ ns[1] \in Nat /\ low <= ns[1] /\ ns[1] <= high /\ Carries(ns[1], Head(w).flag)
           /\ Line(w, ns, ns[1], high)
<1>1. ns \in Seq(Nat) /\ Len(ns) = Len(w) /\ Len(w) \in Nat \ {0} /\ Head(w) = w[1]
  BY EmptySeq DEF Line
<1>2. 1 \in 1 .. Len(ns) /\ ns[1] \in Nat
  BY <1>1
<1>3. low <= ns[1] /\ ns[1] <= high /\ Carries(ns[1], w[1].flag)
  BY <1>2 DEF Line
<1>4. \A i \in 1 .. Len(ns) : 1 \in 1 .. i
  BY <1>1
<1>5. \A i \in 1 .. Len(ns) : ns[1] <= ns[i]
  BY <1>4 DEF Line
<1> QED BY <1>1, <1>2, <1>3, <1>5 DEF Line

LEMMA LineRaised ==
    ASSUME NEW w, NEW ns, NEW low \in Nat, NEW high \in Nat, NEW high2 \in Nat,
           Line(w, ns, low, high), high <= high2
    PROVE  Line(w, ns, low, high2)
<1>1. \A i \in 1 .. Len(ns) : ns[i] \in Nat
  BY DEF Line
<1> QED BY <1>1 DEF Line

\* The cipher's other calls leave the Rekeyer at its message.
LEMMA KeepsMessage ==
    ASSUME NEW r \in RekeyerState, NEW n \in Nat, NEW m \in Nat, AtMessage(r, n, m)
    PROVE  /\ AtMessage(AfterGetNewKey(r), n, m)
           /\ AtMessage(SetFailFlag(r), n, m)
           /\ AtMessage([r EXCEPT !.due = TRUE], n, m)
<1>1. AtMessage(ResetAll(r), n, m)
  <2>1. /\ ResetAll(r).send_state = r.send_state /\ ResetAll(r).role = "none"
        /\ ResetAll(r).due = r.due
    BY DEF ResetAll, ResetMost, ResetSym, RekeyerState
  <2> QED BY <2>1 DEF AtMessage
<1> QED BY <1>1 DEF AfterGetNewKey, SetFailFlag, AtMessage, RekeyerState

LEMMA OverlapInit == Init => OverlapInv
<1> SUFFICES ASSUME Init PROVE OverlapInv
  OBVIOUS
<1> DEFINE none == [g \in Gateways |-> <<>>]
           zero == [g \in Gateways |-> 0]
<1>1. none \in [Gateways -> Seq(Nat)] /\ zero \in [Gateways -> Nat]
  OBVIOUS
<1>2. Line(<<>>, <<>>, 0, 0)
  BY DEF Line
<1>3. AtMessage(InitRekeyer, 0, 0)
  BY DEF AtMessage, InitRekeyer, Carries, Reach
<1>4. Numbering(none, zero, zero, zero)
  <2>1. \A g \in Gateways : /\ wire[g] = <<>> /\ rk[g] = InitRekeyer /\ enc[g].pc = "idle"
                            /\ none[g] = <<>> /\ zero[g] = 0 /\ zero[Peer(g)] = 0
    BY PeerType DEF Init, IdleEnc
  <2> HIDE DEF none, zero
  <2> QED BY <1>2, <1>3, <2>1 DEF Numbering
<1> HIDE DEF none, zero
<1> QED BY <1>1, <1>4 DEF OverlapInv

\* The first packet to g is within reach of g: what its peer says is bounded by what the
\* peer has heard, and that is no more than g has said.
LEMMA FirstWithinReach ==
    ASSUME TypeInv, NEW g \in Gateways, wire[g] # <<>>,
           NEW sent \in [Gateways -> Seq(Nat)], NEW said \in [Gateways -> Nat],
           NEW at \in [Gateways -> Nat], NEW heard \in [Gateways -> Nat],
           Numbering(sent, said, at, heard)
    PROVE  /\ sent[g][1] \in Nat /\ heard[g] <= sent[g][1] /\ sent[g][1] <= Reach(at[g])
           /\ Carries(sent[g][1], Head(wire[g]).flag)
           /\ Line(wire[g], sent[g], sent[g][1], said[Peer(g)])
<1> DEFINE q == Peer(g)
           m == sent[g][1]
<1>1. q \in Gateways /\ Peer(q) = g /\ wire[g] \in Seq(Packet)
  BY PeerType DEF TypeInv, TypeOK
<1>2. /\ heard[g] \in Nat /\ heard[q] \in Nat /\ at[g] \in Nat /\ at[q] \in Nat
      /\ said[g] \in Nat /\ said[q] \in Nat
  BY <1>1
<1>3. /\ Line(wire[g], sent[g], heard[g], said[q]) /\ said[g] <= at[g] /\ said[q] <= at[q]
      /\ AtMessage(rk[q], at[q], heard[q]) /\ Line(wire[q], sent[q], heard[q], said[g])
  BY <1>1 DEF Numbering
<1>4. /\ m \in Nat /\ heard[g] <= m /\ m <= said[q] /\ Carries(m, Head(wire[g]).flag)
      /\ Line(wire[g], sent[g], m, said[q])
  BY <1>1, <1>2, <1>3, LineHeard
<1>5. heard[q] <= said[g] /\ at[q] <= Reach(heard[q])
  BY <1>3 DEF Line, AtMessage
<1>6. Reach(heard[q]) <= Reach(at[g]) /\ Reach(heard[q]) \in Nat /\ Reach(at[g]) \in Nat
  <2>1. heard[q] <= at[g]
    <3> HIDE DEF q
    <3> QED BY <1>2, <1>3, <1>5
  <2> QED BY <1>2, <2>1, ReachMonotone, MessageFacts
<1> HIDE DEF m, q
<1>7. m <= Reach(at[g])
  BY <1>2, <1>3, <1>4, <1>5, <1>6
<1> QED BY <1>4, <1>7 DEF m, q

\* g handles its first packet, which stays on the wire or is dropped.
LEMMA OverlapHeard ==
    ASSUME TypeInv, NEW g \in Gateways, DecHandleRekey(g), Rekeying,
           NEW sent \in [Gateways -> Seq(Nat)], NEW said \in [Gateways -> Nat],
           NEW at \in [Gateways -> Nat], NEW heard \in [Gateways -> Nat],
           Numbering(sent, said, at, heard)
    PROVE  OverlapInv'
<1> DEFINE w == wire[g]
           p == Head(w)
           m == sent[g][1]
           q == Peer(g)
<1>1. /\ q \in Gateways /\ q # g /\ Peer(q) = g
      /\ w \in Seq(Packet) /\ w # <<>> /\ p \in Packet
      /\ rk[g] \in RekeyerState /\ key[g] \in Keys
  BY PeerType DEF DecHandleRekey, TypeInv, TypeOK
<1>2. PICK fresh \in Secrets \ Live, agreed \in {TRUE, ~AgreementMayFail} :
        rk' = [rk EXCEPT ![g] = HandleRekey(@, key[g], p.flag, p.pub, fresh, agreed)]
  BY DEF DecHandleRekey
<1> DEFINE h == HandleRekey(rk[g], key[g], p.flag, p.pub, fresh, agreed)
<1>3. rk' = [rk EXCEPT ![g] = h] /\ rk \in [Gateways -> RekeyerState]
  BY <1>2 DEF TypeInv, TypeOK
<1>4. /\ said[g] <= at[g] /\ said[q] <= at[q]
      /\ AtMessage(rk[g], at[g], heard[g]) /\ AtMessage(rk[q], at[q], heard[q])
      /\ Line(wire[q], sent[q], heard[q], said[g])
  BY <1>1 DEF Numbering
<1>5. /\ heard[g] \in Nat /\ said[q] \in Nat /\ at[g] \in Nat /\ said[g] \in Nat
  BY <1>1
<1>6. /\ m \in Nat /\ heard[g] <= m /\ m <= Reach(at[g]) /\ Carries(m, p.flag)
      /\ Line(w, sent[g], m, said[q])
  BY <1>1, FirstWithinReach
<1>7. PICK i \in Nat : at[g] <= i /\ AtMessage(h, i, m)
  <2>1. /\ p.flag \in Flags /\ p.pub \in Secrets \cup {NoSecret}
        /\ fresh \in Secrets /\ agreed \in BOOLEAN
    BY <1>1, ModeAssumption DEF Packet
  <2> HIDE DEF p, m
  <2> QED BY <1>1, <1>4, <1>5, <1>6, <2>1, HandleIsNumbered
<1> DEFINE at2    == [at EXCEPT ![g] = i]
           heard2 == [heard EXCEPT ![g] = m]
<1>8. at2 \in [Gateways -> Nat] /\ heard2 \in [Gateways -> Nat]
  BY <1>6
<1>9. PICK ns \in Seq(Nat) : wire' = [wire EXCEPT ![g] = wire'[g]] /\ Line(wire'[g], ns, m, said[q])
  <2>1. wire' = wire \/ wire' = [wire EXCEPT ![g] = Tail(w)]
    BY DEF DecHandleRekey
  <2>2. wire \in [Gateways -> Seq(Packet)] /\ sent[g] \in Seq(Nat)
    BY DEF TypeInv, TypeOK
  <2>3. Line(Tail(w), Tail(sent[g]), m, said[q]) /\ Tail(sent[g]) \in Seq(Nat)
    <3>1. Line(Tail(w), Tail(sent[g]), m, said[q])
      BY <1>1, <1>5, <1>6, LineTaken
    <3> QED BY <3>1 DEF Line
  <2> QED BY <1>6, <2>1, <2>2, <2>3
<1> DEFINE sent2 == [sent EXCEPT ![g] = ns]
<1>10. sent2 \in [Gateways -> Seq(Nat)]
  OBVIOUS
<1>11. /\ enc' = enc /\ rk'[g] = h /\ rk'[q] = rk[q] /\ wire'[q] = wire[q]
       /\ at2[g] = i /\ at2[q] = at[q] /\ heard2[g] = m /\ heard2[q] = heard[q]
       /\ sent2[g] = ns /\ sent2[q] = sent[q]
  BY <1>1, <1>3, <1>9 DEF DecHandleRekey, TypeInv, TypeOK
<1>12. \A x \in Gateways : enc[x].pc \in {"secret", "seal"} => Carries(said[x], enc[x].flag)
  BY DEF Numbering
<1>13. \A x \in Gateways : x = g \/ x = q
  BY <1>1 DEF Gateways
<1> HIDE DEF at2, heard2, sent2, h, m, w
<1>14. said[g] <= i
  BY <1>4, <1>5, <1>7
<1>15. Numbering(sent2, said, at2, heard2)'
  BY <1>1, <1>4, <1>7, <1>9, <1>11, <1>12, <1>13, <1>14 DEF Numbering
<1> QED BY <1>8, <1>10, <1>15 DEF OverlapInv

LEMMA OverlapNext == TypeInv /\ OverlapInv /\ [Next]_vars => OverlapInv'
<1> SUFFICES ASSUME TypeInv, OverlapInv, [Next]_vars PROVE OverlapInv'
  OBVIOUS
<1>1. PICK sent \in [Gateways -> Seq(Nat)], said \in [Gateways -> Nat],
           at \in [Gateways -> Nat], heard \in [Gateways -> Nat] : Numbering(sent, said, at, heard)
  BY DEF OverlapInv
<1>2. \A g \in Gateways :
        /\ Peer(g) \in Gateways /\ Peer(g) # g /\ Peer(Peer(g)) = g
        /\ wire[g] \in Seq(Packet) /\ rk[g] \in RekeyerState /\ enc[g] \in EncState
        /\ sent[g] \in Seq(Nat) /\ said[g] \in Nat /\ at[g] \in Nat /\ heard[g] \in Nat
        /\ Line(wire[g], sent[g], heard[g], said[Peer(g)]) /\ said[g] <= at[g]
        /\ enc[g].pc \in {"secret", "seal"} => Carries(said[g], enc[g].flag)
        /\ AtMessage(rk[g], at[g], heard[g])
  BY <1>1, PeerType DEF Numbering, TypeInv, TypeOK
<1>3. /\ wire \in [Gateways -> Seq(Packet)] /\ rk \in [Gateways -> RekeyerState]
      /\ enc \in [Gateways -> EncState]
  BY DEF TypeInv, TypeOK
\* Steps after which every number is still right.
<1>4. ASSUME wire' = wire,
             \A g \in Gateways : AtMessage(rk'[g], at[g], heard[g]),
             \A g \in Gateways : enc'[g].pc \in {"secret", "seal"} => Carries(said[g], enc'[g].flag)
      PROVE  OverlapInv'
  <2>1. Numbering(sent, said, at, heard)'
    BY <1>2, <1>4 DEF Numbering
  <2> QED BY <1>1, <2>1 DEF OverlapInv
\* The first packet to g is done with.
<1>5. ASSUME NEW g \in Gateways, wire' = [wire EXCEPT ![g] = Tail(@)], wire[g] # <<>>,
             rk' = rk, enc' = enc
      PROVE  OverlapInv'
  <2> DEFINE sent2 == [sent EXCEPT ![g] = Tail(@)]
  <2>1. Line(Tail(wire[g]), Tail(sent[g]), heard[g], said[Peer(g)])
    BY <1>2, <1>5, LineTaken
  <2>2. sent2 \in [Gateways -> Seq(Nat)]
    BY <1>1, <2>1 DEF Line
  <2>3. \A h \in Gateways : Line(wire'[h], sent2[h], heard[h], said[Peer(h)])
    BY <1>1, <1>2, <1>3, <1>5, <2>1
  <2> HIDE DEF sent2
  <2>4. Numbering(sent2, said, at, heard)'
    BY <1>2, <1>5, <2>3 DEF Numbering
  <2> QED BY <1>1, <2>2, <2>4 DEF OverlapInv
<1>6. CASE UNCHANGED vars
  BY <1>2, <1>4, <1>6 DEF vars
<1>7. CASE Retry
  BY <1>2, <1>4, <1>7 DEF Retry
<1>8. ASSUME NEW g \in Gateways, Submit(g) PROVE OverlapInv'
  BY <1>2, <1>4, <1>8 DEF Submit
<1>9. ASSUME NEW g \in Gateways, Elapse(g) PROVE OverlapInv'
  <2>1. \A h \in Gateways : AtMessage(rk'[h], at[h], heard[h])
    BY <1>2, <1>3, <1>9, KeepsMessage DEF Elapse
  <2> QED BY <1>2, <1>4, <1>9, <2>1 DEF Elapse
<1>10. ASSUME NEW g \in Gateways, NEW b \in BOOLEAN, UpdateKey(g, b)
       PROVE  \A h \in Gateways : AtMessage(rk'[h], at[h], heard[h])
  BY <1>2, <1>3, <1>10, KeepsMessage DEF UpdateKey
<1>11. ASSUME NEW g \in Gateways, EncUpdateKey(g) PROVE OverlapInv'
  <2>1. \A h \in Gateways : AtMessage(rk'[h], at[h], heard[h])
    BY <1>10, <1>11 DEF EncUpdateKey
  <2>2. \A h \in Gateways : enc'[h].pc \in {"secret", "seal"} => Carries(said[h], enc'[h].flag)
    BY <1>2, <1>3, <1>11 DEF EncUpdateKey, EncState
  <2> QED BY <1>4, <1>11, <2>1, <2>2 DEF EncUpdateKey
<1>12. ASSUME NEW g \in Gateways, EncGetSendState(g) PROVE OverlapInv'
  <2> DEFINE said2 == [said EXCEPT ![g] = at[g]]
             p == Peer(g)
  <2>1. said2 \in [Gateways -> Nat]
    BY <1>1
  <2>2. Line(wire[p], sent[p], heard[p], at[g])
    BY <1>2, LineRaised
  <2>3. /\ p \in Gateways /\ p # g /\ Peer(p) = g /\ said2[g] = at[g] /\ said2[p] = said[p]
        /\ \A h \in Gateways : h = g \/ h = p
    BY <1>1, <1>2 DEF Gateways
  <2>4. /\ wire' = wire /\ rk' = rk /\ enc'[p] = enc[p]
        /\ enc'[g].flag = rk[g].send_state /\ Carries(at[g], rk[g].send_state)
    <3>1. enc'[p] = enc[p] /\ enc'[g].flag = rk[g].send_state
      BY <1>3, <1>12, <2>3 DEF EncGetSendState, EncState
    <3> QED BY <1>2, <1>12, <3>1 DEF EncGetSendState, AtMessage
  <2> HIDE DEF said2, p
  <2>5. at[g] <= at[g]
    BY <1>2
  <2>6. Numbering(sent, said2, at, heard)'
    <3>1. Line(wire[g], sent[g], heard[g], said2[p]) /\ Line(wire[p], sent[p], heard[p], said2[g])
      BY <1>2, <2>2, <2>3 DEF p
    <3>2. Peer(g) = p /\ said[p] <= at[p]
      BY <1>2, <2>3 DEF p
    <3> QED BY <1>2, <2>3, <2>4, <2>5, <3>1, <3>2 DEF Numbering
  <2> QED BY <1>1, <2>1, <2>6 DEF OverlapInv
<1>13. ASSUME NEW g \in Gateways, EncGetOwnPublicSecret(g) PROVE OverlapInv'
  <2>1. \A h \in Gateways : enc'[h].flag = enc[h].flag
    BY <1>3, <1>13 DEF EncGetOwnPublicSecret, EncState
  <2>2. \A h \in Gateways : enc'[h].pc \in {"secret", "seal"} => enc[h].pc \in {"secret", "seal"}
    BY <1>3, <1>13 DEF EncGetOwnPublicSecret, EncState
  <2> QED BY <1>2, <1>4, <1>13, <2>1, <2>2 DEF EncGetOwnPublicSecret
<1>14. ASSUME NEW g \in Gateways, EncSealAndSend(g) PROVE OverlapInv'
  <2> DEFINE p == Peer(g)
             sent2 == [sent EXCEPT ![p] = Append(@, said[g])]
  <2>1. PICK x \in Packet : wire' = [wire EXCEPT ![p] = Append(@, x)] /\ x.flag = enc[g].flag
    <3> DEFINE x == [flag |-> enc[g].flag, pub |-> enc[g].pub, key |-> key[g], data |-> Head(outbox[g])]
    <3>1. Head(outbox[g]) \in Payloads
      BY <1>14 DEF EncSealAndSend, TypeInv, TypeOK, ThreadsHaveInput
    <3>2. x \in Packet
      BY <1>2, <3>1 DEF EncState, Packet, TypeInv, TypeOK
    <3> QED BY <1>14, <3>2 DEF EncSealAndSend
  <2>2. p \in Gateways /\ p # g /\ Peer(p) = g /\ \A h \in Gateways : h = g \/ h = p
    BY <1>2 DEF Gateways
  <2>3. Line(Append(wire[p], x), Append(sent[p], said[g]), heard[p], said[g])
    <3>1. Carries(said[g], x.flag)
      BY <1>2, <1>14, <2>1 DEF EncSealAndSend
    <3>2. Line(wire[p], sent[p], heard[p], said[g]) /\ wire[p] \in Seq(Packet)
      BY <1>2, <2>2
    <3> HIDE DEF p
    <3> QED BY <1>2, <2>2, <3>1, <3>2, LineSent
  <2>4. sent2 \in [Gateways -> Seq(Nat)] /\ sent2[g] = sent[g] /\ sent2[p] = Append(sent[p], said[g])
    BY <1>1, <1>2, <2>2
  <2>5. wire'[g] = wire[g] /\ wire'[p] = Append(wire[p], x)
    BY <1>3, <2>1, <2>2
  <2>6. enc'[g].pc = "idle" /\ enc'[p] = enc[p] /\ rk' = rk
    BY <1>3, <1>14, <2>2 DEF EncSealAndSend, IdleEnc
  <2> HIDE DEF sent2
  <2>7. Numbering(sent2, said, at, heard)'
    <3>1. Line(wire[g], sent[g], heard[g], said[p])
      BY <1>2
    <3> QED BY <1>2, <2>2, <2>3, <2>4, <2>5, <2>6, <3>1 DEF Numbering
  <2> QED BY <1>1, <2>4, <2>7 DEF OverlapInv
<1>15. ASSUME NEW g \in Gateways, DecHandleRekey(g) PROVE OverlapInv'
  <2>1. CASE Rekeying
    BY <1>1, <1>15, <2>1, OverlapHeard
  <2>2. CASE ~Rekeying
    BY <1>2, <1>4, <1>15, <2>2 DEF DecHandleRekey
  <2> QED BY <2>1, <2>2
<1>16. ASSUME NEW g \in Gateways, DecUpdateKey(g) PROVE OverlapInv'
  <2>1. \A h \in Gateways : AtMessage(rk'[h], at[h], heard[h])
    BY <1>10, <1>16 DEF DecUpdateKey
  <2> QED BY <1>2, <1>4, <1>16, <2>1 DEF DecUpdateKey
<1>17. ASSUME NEW g \in Gateways, DecOpenFails(g) \/ DecOpenWithOldKey(g) \/ DecDies(g) PROVE OverlapInv'
  BY <1>2, <1>4, <1>17 DEF DecOpenFails, DecOpenWithOldKey, DecDies
<1>18. ASSUME NEW g \in Gateways, DecSetFailFlag(g) PROVE OverlapInv'
  <2>1. \A h \in Gateways : AtMessage(rk'[h], at[h], heard[h])
    BY <1>2, <1>3, <1>18, KeepsMessage DEF DecSetFailFlag
  <2> QED BY <1>2, <1>4, <1>18, <2>1 DEF DecSetFailFlag
<1>19. ASSUME NEW g \in Gateways, DecOpen(g) \/ DecRevert(g) \/ DecTooLate(g) \/ DecReject(g)
       PROVE  OverlapInv'
  <2>1. wire[g] # <<>>
    BY <1>19 DEF DecOpen, DecRevert, DecTooLate, DecReject, TypeInv, ThreadsHaveInput
  <2> QED BY <1>5, <1>19, <2>1 DEF DecOpen, DecRevert, DecTooLate, DecReject, HandToDevice
<1> QED
  BY <1>6, <1>7, <1>8, <1>9, <1>11, <1>12, <1>13, <1>14, <1>15, <1>16, <1>17, <1>18, <1>19
  DEF Next, Encrypt, Decrypt

\* Whatever is outstanding, late or failed, and however the threads are interleaved, a
\* replier that is told to switch has the new key: the ValueError of rekeyer.py:225
\* is never raised.
THEOREM SwitchFindsNewKey == SafetySpec => []NewKeyIsBytes
<1>1. ASSUME TypeInv, OverlapInv, NEW g \in Gateways, wire[g] # <<>>
      PROVE  ~NewKeyMissing(rk[g], Head(wire[g]).flag)
  <2>1. PICK sent \in [Gateways -> Seq(Nat)], said \in [Gateways -> Nat],
             at \in [Gateways -> Nat], heard \in [Gateways -> Nat] : Numbering(sent, said, at, heard)
    BY <1>1 DEF OverlapInv
  <2>2. /\ rk[g] \in RekeyerState /\ Head(wire[g]).flag \in Flags
        /\ at[g] \in Nat /\ heard[g] \in Nat /\ AtMessage(rk[g], at[g], heard[g])
    <3>1. wire[g] \in Seq(Packet) /\ rk[g] \in RekeyerState
      BY <1>1 DEF TypeInv, TypeOK
    <3>2. Head(wire[g]) \in Packet
      BY <1>1, <3>1
    <3> QED BY <2>1, <3>1, <3>2 DEF Numbering, Packet
  <2>3. /\ sent[g][1] \in Nat /\ heard[g] <= sent[g][1] /\ sent[g][1] <= Reach(at[g])
        /\ Carries(sent[g][1], Head(wire[g]).flag)
    BY <1>1, <2>1, FirstWithinReach
  <2> QED BY <2>2, <2>3, SwitchHasKey
<1>2. TypeInv /\ OverlapInv => NewKeyIsBytes
  BY <1>1 DEF NewKeyIsBytes
<1> QED BY <1>2, TypeInvariant, OverlapInit, OverlapNext, PTL DEF SafetySpec
============================================================================
