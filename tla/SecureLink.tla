----------------------------- MODULE SecureLink -----------------------------
(***************************************************************************)
(* A session between the client gateway and the server gateway, from the   *)
(* moment both hold the session key to its reset.  Each gateway runs two   *)
(* threads that share one SymCipher without a lock (gateway_client.py:114):*)
(* one encrypts what the local device sends, the other decrypts what the   *)
(* peer gateway sends.  Rekeying messages travel on the payload packets.   *)
(*                                                                         *)
(* Atomicity.  A step of a thread is one call on the shared Rekeyer with   *)
(* the assignment of its result to __key or to a local, or one read of     *)
(* __key with the socket call that follows.  Between any two such steps    *)
(* the other thread may run.                                               *)
(*                                                                         *)
(* Data abstraction.  A packet records the key it was sealed with: AEAD    *)
(* decryption succeeds exactly under that key, since the flag and public   *)
(* key authenticated are the ones sent.  The sockets between the gateways  *)
(* are TCP and lose nothing.  The replay data is not in the packet: with   *)
(* timestamps, the default, any packet may turn out too old once it has    *)
(* been opened (MayBeLate); sequence numbers always pass (Channel).        *)
(* A thread's current input stays at the head of its queue until the       *)
(* thread is done with it.                                                 *)
(***************************************************************************)
EXTENDS Naturals, Sequences, Rekeyer

CONSTANTS Client, Server,   \* the two gateways
          Payloads,         \* what a device sends
          Window,           \* outstanding transactions of the Modbus master
          Rekeying,         \* FALSE under --disable-rekeying (RekeyerDisabler)
          AgreementMayFail, \* whether __generate_new_key may raise ValueError
          MayBeLate         \* whether verify_replay_data may raise TimeoutError

ASSUME GatewayAssumption == Client # Server
ASSUME WindowAssumption  == Window \in Nat \ {0}
ASSUME ModeAssumption    ==
    Rekeying \in BOOLEAN /\ AgreementMayFail \in BOOLEAN /\ MayBeLate \in BOOLEAN

VARIABLES
    owed,    \* owed[g]: messages the device behind g may still send
    outbox,  \* outbox[g]: payloads sent by that device, not yet forwarded
    wire,    \* wire[g]: packets on the socket to gateway g
    rk,      \* rk[g]: the Rekeyer of g
    key,     \* key[g]: SymCipher.__key of g
    enc,     \* enc[g]: program counter and locals of the encrypting thread
    dec      \* dec[g]: program counter of the decrypting thread

vars == <<owed, outbox, wire, rk, key, enc, dec>>

Gateways == {Client, Server}
Peer(g) == IF g = Client THEN Server ELSE Client

Packet == [flag : Flags, pub : Secrets \cup {NoSecret}, key : Keys, data : Payloads]

EncState == [pc   : {"idle", "flag", "secret", "seal", "dead"},
             flag : Flags,
             pub  : Secrets \cup {NoSecret}]
IdleEnc == [pc |-> "idle", flag |-> "NONE", pub |-> NoSecret]

DecState == {"idle", "update", "open", "fallback", "fail_flag", "revert", "dead"}

TypeOK ==
    /\ owed   \in [Gateways -> Nat]
    /\ outbox \in [Gateways -> Seq(Payloads)]
    /\ wire   \in [Gateways -> Seq(Packet)]
    /\ rk     \in [Gateways -> RekeyerState]
    /\ key    \in [Gateways -> Keys]
    /\ enc    \in [Gateways -> EncState]
    /\ dec    \in [Gateways -> DecState]

Init ==
    /\ owed   = [g \in Gateways |-> IF g = Client THEN Window ELSE 0]
    /\ outbox = [g \in Gateways |-> <<>>]
    /\ wire   = [g \in Gateways |-> <<>>]
    /\ rk     = [g \in Gateways |-> InitRekeyer]
    /\ key    = [g \in Gateways |-> SessionKey]
    /\ enc    = [g \in Gateways |-> IdleEnc]
    /\ dec    = [g \in Gateways |-> "idle"]

----------------------------------------------------------------------------
(* The environment: the devices and the clock. *)

Submit(g) ==
    /\ owed[g] > 0
    /\ \E d \in Payloads : outbox' = [outbox EXCEPT ![g] = Append(@, d)]
    /\ owed' = [owed EXCEPT ![g] = @ - 1]
    /\ UNCHANGED <<wire, rk, key, enc, dec>>

\* Messages and turns to send one, wherever they are.
Tokens == owed[Client] + owed[Server]
            + Len(outbox[Client]) + Len(outbox[Server])
            + Len(wire[Client]) + Len(wire[Server])

\* A payload was dropped: the master gives the transaction up and has its
\* turn again.  Its timeout is longer than a round trip.
Retry ==
    /\ MayBeLate /\ Tokens < Window
    /\ owed' = [owed EXCEPT ![Client] = @ + 1]
    /\ UNCHANGED <<outbox, wire, rk, key, enc, dec>>

\* The rekey interval of g runs out.
Elapse(g) ==
    /\ Rekeying /\ ~rk[g].due
    /\ rk' = [rk EXCEPT ![g].due = TRUE]
    /\ UNCHANGED <<owed, outbox, wire, key, enc, dec>>

----------------------------------------------------------------------------
(* The encrypting thread: SymCipher.encrypt_and_digest and the send. *)

\* BUG: "is not None" is not tested.
BugUpdateKey(g, beforeSend) ==
    /\ rk' = [rk EXCEPT ![g] = AfterGetNewKey(@)]
    /\ key' = [key EXCEPT ![g] = GetNewKey(rk[g], beforeSend)]

\* __update_key on the shared cipher.
UpdateKey(g, beforeSend) ==
    LET k == GetNewKey(rk[g], beforeSend)
    IN  /\ rk' = [rk EXCEPT ![g] = AfterGetNewKey(@)]
        /\ key' = [key EXCEPT ![g] = IF k = NoKey THEN @ ELSE k]

EncUpdateKey(g) ==
    /\ enc[g].pc = "idle" /\ outbox[g] # <<>>
    /\ UpdateKey(g, TRUE)
    /\ enc' = [enc EXCEPT ![g].pc = "flag"]
    /\ UNCHANGED <<owed, outbox, wire, dec>>

EncGetSendState(g) ==
    /\ enc[g].pc = "flag"
    /\ enc' = [enc EXCEPT ![g].flag = rk[g].send_state, ![g].pc = "secret"]
    /\ UNCHANGED <<owed, outbox, wire, rk, key, dec>>

\* A ValueError here is not caught: the thread ends.
EncGetOwnPublicSecret(g) ==
    /\ enc[g].pc = "secret"
    /\ enc' = [enc EXCEPT
                 ![g].pub = IF LacksOwnSecret(rk[g]) THEN @ ELSE OwnPublicSecret(rk[g]),
                 ![g].pc = IF LacksOwnSecret(rk[g]) THEN "dead" ELSE "seal"]
    /\ UNCHANGED <<owed, outbox, wire, rk, key, dec>>

\* BUG: the payload is not consumed.
BugEncSealAndSend(g) ==
    /\ enc[g].pc = "seal"
    /\ wire' = [wire EXCEPT ![Peer(g)] =
                  Append(@, [flag |-> enc[g].flag, pub |-> enc[g].pub,
                             key |-> key[g], data |-> Head(outbox[g])])]
    /\ enc' = [enc EXCEPT ![g] = IdleEnc]
    /\ UNCHANGED <<owed, outbox, rk, key, dec>>

EncSealAndSend(g) ==
    /\ enc[g].pc = "seal"
    /\ wire' = [wire EXCEPT ![Peer(g)] =
                  Append(@, [flag |-> enc[g].flag, pub |-> enc[g].pub,
                             key |-> key[g], data |-> Head(outbox[g])])]
    /\ outbox' = [outbox EXCEPT ![g] = Tail(@)]
    /\ enc' = [enc EXCEPT ![g] = IdleEnc]
    /\ UNCHANGED <<owed, rk, key, dec>>

----------------------------------------------------------------------------
(* The decrypting thread: SymCipher.decrypt_and_verify and the delivery.   *)

\* Ephemeral keys some variable still depends on.  ECC_key_gen never
\* returns one of them; a forgotten one may be drawn again, so that few
\* secrets stand for an unbounded supply.
KeySecrets(k) == IF k = NoKey THEN {} ELSE k

Live ==
    UNION { KeySecrets(key[g]) \cup KeySecrets(rk[g].old_key) \cup KeySecrets(rk[g].new_key)
              \cup {rk[g].own_secret, rk[g].peer_secret, enc[g].pub}
              \cup UNION { wire[g][i].key \cup {wire[g][i].pub} : i \in 1..Len(wire[g]) }
            : g \in Gateways }

\* handle_rekey runs before the packet is authenticated; when it raises,
\* the thread reports a tampered message and takes the next packet.
DecHandleRekey(g) ==
    /\ dec[g] = "idle" /\ wire[g] # <<>>
    /\ LET p == Head(wire[g])
           raises == Rekeying /\ HandleRekeyRaises(rk[g], p.flag, p.pub)
       IN  /\ \E fresh \in Secrets \ Live, agreed \in {TRUE, ~AgreementMayFail} :
                rk' = IF Rekeying
                      THEN [rk EXCEPT ![g] = HandleRekey(@, key[g], p.flag, p.pub, fresh, agreed)]
                      ELSE rk
           /\ dec' = IF raises THEN dec ELSE [dec EXCEPT ![g] = "update"]
           /\ wire' = IF raises THEN [wire EXCEPT ![g] = Tail(@)] ELSE wire
    /\ UNCHANGED <<owed, outbox, key, enc>>

DecUpdateKey(g) ==
    /\ dec[g] = "update"
    /\ UpdateKey(g, FALSE)
    /\ dec' = [dec EXCEPT ![g] = "open"]
    /\ UNCHANGED <<owed, outbox, wire, enc>>

\* BUG: the packet is decrypted and delivered again.
BugHandToDevice(g) ==
    /\ owed' = [owed EXCEPT ![g] = @ + 1]
    /\ dec' = [dec EXCEPT ![g] = "idle"]
    /\ UNCHANGED wire

\* The packet has been decrypted: its payload goes to the device behind g.
HandToDevice(g) ==
    /\ wire' = [wire EXCEPT ![g] = Tail(@)]
    /\ owed' = [owed EXCEPT ![g] = @ + 1]
    /\ dec' = [dec EXCEPT ![g] = "idle"]

DecOpen(g) ==
    /\ dec[g] = "open"
    /\ Head(wire[g]).key = key[g]
    /\ HandToDevice(g)
    /\ UNCHANGED <<outbox, rk, key, enc>>

DecOpenFails(g) ==
    /\ dec[g] = "open"
    /\ Head(wire[g]).key # key[g]
    /\ dec' = [dec EXCEPT ![g] = "fallback"]
    /\ UNCHANGED <<owed, outbox, wire, rk, key, enc>>

\* "Maybe peer has failed key exchange": the old key opens the packet.
DecOpenWithOldKey(g) ==
    /\ dec[g] = "fallback"
    /\ rk[g].old_key = Head(wire[g]).key
    /\ dec' = [dec EXCEPT ![g] = "fail_flag"]
    /\ UNCHANGED <<owed, outbox, wire, rk, key, enc>>

DecSetFailFlag(g) ==
    /\ dec[g] = "fail_flag"
    /\ rk' = [rk EXCEPT ![g] = SetFailFlag(@)]
    /\ dec' = [dec EXCEPT ![g] = "revert"]
    /\ UNCHANGED <<owed, outbox, wire, key, enc>>

\* The local old_sym_key is the key that opened the packet.
DecRevert(g) ==
    /\ dec[g] = "revert"
    /\ key' = [key EXCEPT ![g] = Head(wire[g]).key]
    /\ HandToDevice(g)
    /\ UNCHANGED <<outbox, rk, enc>>

\* The packet opens but is too old: the TimeoutError becomes a ValueError and
\* the payload is dropped.  What handle_rekey did stays done.
DecTooLate(g) ==
    /\ MayBeLate
    /\ dec[g] = "open"
    /\ Head(wire[g]).key = key[g]
    /\ wire' = [wire EXCEPT ![g] = Tail(@)]
    /\ dec' = [dec EXCEPT ![g] = "idle"]
    /\ UNCHANGED <<owed, outbox, rk, key, enc>>

\* The same inside the fallback: there the TimeoutError is caught neither by
\* the inner except, nor by its sibling, nor by the loop.  The thread ends.
DecDies(g) ==
    /\ MayBeLate
    /\ dec[g] = "fallback"
    /\ rk[g].old_key = Head(wire[g]).key
    /\ dec' = [dec EXCEPT ![g] = "dead"]
    /\ UNCHANGED <<owed, outbox, wire, rk, key, enc>>

\* Neither key opens it: the payload is dropped.
DecReject(g) ==
    /\ dec[g] = "fallback"
    /\ rk[g].old_key # Head(wire[g]).key
    /\ wire' = [wire EXCEPT ![g] = Tail(@)]
    /\ dec' = [dec EXCEPT ![g] = "idle"]
    /\ UNCHANGED <<owed, outbox, rk, key, enc>>

----------------------------------------------------------------------------

Encrypt(g) == \/ EncUpdateKey(g) \/ EncGetSendState(g)
              \/ EncGetOwnPublicSecret(g) \/ EncSealAndSend(g)

Decrypt(g) == \/ DecHandleRekey(g) \/ DecUpdateKey(g)
              \/ DecOpen(g) \/ DecOpenFails(g) \/ DecReject(g)
              \/ DecOpenWithOldKey(g) \/ DecSetFailFlag(g) \/ DecRevert(g)
              \/ DecTooLate(g) \/ DecDies(g)

Next == Retry \/ \E g \in Gateways : Submit(g) \/ Elapse(g) \/ Encrypt(g) \/ Decrypt(g)

SafetySpec == Init /\ [][Next]_vars

\* The operating system runs both threads of both gateways and TCP delivers.
ThreadFairness == \A g \in Gateways : WF_vars(Encrypt(g)) /\ WF_vars(Decrypt(g))

Spec == SafetySpec /\ ThreadFairness

\* The master polls and the slave answers.
PollingSpec == Spec /\ WF_vars(Retry) /\ \A g \in Gateways : WF_vars(Submit(g))

----------------------------------------------------------------------------
(* Lockstep: what holds when one message is outstanding (Window = 1). *)

\* g decrypts what it received, or its device has the turn, or g encrypts,
\* or what g sent is on the wire: the next send_state to act on is g's.
HasTurn(g) ==
    \/ owed[g] > 0 \/ outbox[g] # <<>>
    \/ wire[g] # <<>> /\ dec[g] # "idle"
    \/ wire[Peer(g)] # <<>> /\ dec[Peer(g)] = "idle"

\* A thread is inside the cipher only while it has an input.
ThreadsHaveInput ==
    \A g \in Gateways : /\ enc[g].pc # "idle" => outbox[g] # <<>>
                        /\ dec[g] # "idle" => wire[g] # <<>>

Quiet(r) == r.role = "none" /\ ~r.clear /\ ~r.fail_flag

\* The key cleared for use, if there is one, is already in use.
NothingToSwitch(r, k) == r.clear => r.new_key = k

\* The states of the two Rekeyers, r about to say r.send_state to q, and the
\* keys k and l their gateways hold.
HandshakeNone(r, k, q) ==
    /\ Quiet(r)
    /\ q.role = "none" /\ NothingToSwitch(q, k)

HandshakeInit(r, k, q) ==
    /\ r.role = "initiator" /\ r.own_secret # NoSecret /\ NothingToSwitch(r, k)
    /\ Quiet(q)

HandshakeReply(r, q, l) ==
    /\ r.role = "replier" /\ ~r.clear
    /\ q.role = "initiator" /\ q.own_secret # NoSecret /\ NothingToSwitch(q, l)
    /\ r.own_secret # NoSecret
    /\ r.new_key = SharedKey(r.own_secret, q.own_secret)

HandshakeSwitch(r, q) ==
    /\ r.role = "initiator" /\ r.clear
    /\ q.role = "replier" /\ ~q.clear
    /\ r.new_key = q.new_key /\ r.new_key # NoKey

HandshakeAck(r, q, l) ==
    /\ r.role = "none" /\ r.clear /\ r.new_key = l
    /\ q.role = "initiator" /\ q.clear /\ q.new_key = l

HandshakeFail(r, q, l) ==
    /\ Quiet(r)
    /\ NothingToSwitch(q, l)

\* The initiator's failed agreement, before __update_key undoes it.
Undoing(r, k) == r.fail_flag /\ r.old_key = k /\ r.send_state = "FAIL"

Handshake(r, k, q, l) ==
    /\ ~q.fail_flag
    /\ \/ Undoing(r, k) /\ NothingToSwitch(q, l)
       \/ /\ ~r.fail_flag
          /\ r.send_state = "NONE"       => HandshakeNone(r, k, q)
          /\ r.send_state = "INIT"       => HandshakeInit(r, k, q)
          /\ r.send_state = "REPLY"      => HandshakeReply(r, q, l)
          /\ r.send_state = "SWITCH"     => HandshakeSwitch(r, q)
          /\ r.send_state = "SWITCH_ACK" => HandshakeAck(r, q, l)
          /\ r.send_state = "FAIL"       => HandshakeFail(r, q, l)

\* g encrypts, or what it sent is on the wire.
Sending(g) ==
    \/ enc[g].pc # "idle"
    \/ wire[Peer(g)] # <<>> /\ dec[Peer(g)] = "idle"

\* The gateways hold the same key, except that the initiator sends the
\* SWITCH under the new one and the replier applies it in __update_key.
KeysInStep(g) ==
    IF rk[g].send_state = "SWITCH" /\ Sending(g)
    THEN key[g] = rk[g].new_key
    ELSE IF rk[g].send_state = "SWITCH_ACK" /\ dec[g] = "update"
         THEN key[Peer(g)] = rk[g].new_key
         ELSE key[g] = key[Peer(g)]

\* The locals of the encrypting thread and the packet in flight say what
\* the Rekeyer still says.
SaysItsState(g) ==
    LET sent == Head(wire[Peer(g)])
    IN  /\ enc[g].pc \in {"secret", "seal"} => enc[g].flag = rk[g].send_state
        /\ enc[g].pc = "seal" => enc[g].pub = OwnPublicSecret(rk[g])
        /\ wire[Peer(g)] # <<>> /\ dec[Peer(g)] = "idle" =>
              sent.flag = rk[g].send_state /\ sent.pub = OwnPublicSecret(rk[g])

TurnInv(g) ==
    /\ Handshake(rk[g], key[g], rk[Peer(g)], key[Peer(g)])
    /\ rk[g].fail_flag => dec[g] = "update"
    /\ KeysInStep(g)
    /\ SaysItsState(g)

LockstepInv ==
    /\ Tokens = 1
    /\ ThreadsHaveInput
    /\ \A g \in Gateways : enc[g].pc # "dead" /\ dec[g] \in {"idle", "update", "open"}
    /\ \A g \in Gateways : wire[g] # <<>> => Head(wire[g]).key = key[Peer(g)]
    /\ ~Rekeying => \A g \in Gateways : rk[g] = InitRekeyer
    /\ \A g \in Gateways : HasTurn(g) => TurnInv(g)

\* The atomicity this module assumes is not needed in lockstep: at most one
\* thread of the two gateways is inside the shared cipher, although nothing
\* in the code excludes the other (gateway_client.py:114, no lock).
ThreadsExcludeEachOther ==
    \A g \in Gateways :
        /\ enc[g].pc # "idle" => dec[g] = "idle" /\ enc[Peer(g)].pc = "idle"
        /\ dec[g] # "idle" => enc[Peer(g)].pc = "idle" /\ dec[Peer(g)] = "idle"

\* The key the receiver tries first opens every packet, before, during and
\* after a rekeying, agreed or failed: the fallback to the old key of
\* sym_cipher.py:311 is never taken.
OpensAtFirstTry ==
    \A g \in Gateways : dec[g] = "open" => Head(wire[g]).key = key[g]

\* A gateway only switches to the key its peer uses already or holds as its
\* new key, and the replier only to one the initiator has sealed a packet with.
SwitchesToPeerKey ==
    [][\A g \in Gateways : key'[g] # key[g] =>
          \/ key'[g] = key[Peer(g)]
          \/ key'[g] = rk[Peer(g)].new_key /\ rk[Peer(g)].role = "replier"]_vars

\* The devices see a reliable FIFO channel.
LinkQueue == [g \in Gateways |->
                [i \in 1..Len(wire[g]) |-> wire[g][i].data] \o outbox[Peer(g)]]

Link == INSTANCE ReliableLink WITH queue <- LinkQueue

LinkSafety == Link!SafetySpec
LinkDelivers == Link!Fairness

\* With more than one message outstanding the promise is weaker: payloads
\* may be lost, but what arrives is in order and arrives once.
LinkNeverMisorders == Link!LossySpec
----------------------------------------------------------------------------
(* Liveness, under PollingSpec. *)

\* "Set custom rekey interval for forward secrecy support" (parse_args.py:19):
\* once agreements no longer fail, a gateway whose interval has run out gets a
\* new key, whatever failed before.
AgreementsSucceed == <>[](\A g \in Gateways : rk[g].send_state # "FAIL")
RekeyingCompletes == AgreementsSucceed => \A g \in Gateways : rk[g].due ~> ~rk[g].due

\* The same where payloads may be lost, asked only of behaviours in which
\* the master goes on sending and being answered.
TrafficFlows == []<>(owed[Client] = 0) /\ []<>(owed[Client] > 0)
RekeyingCompletesUnderTraffic == TrafficFlows => RekeyingCompletes

\* Forward secrecy: an ephemeral key, and a symmetric key no longer in use,
\* are forgotten.
SecretsForgotten ==
    \A g \in Gateways :
        /\ rk[g].own_secret # NoSecret ~> rk[g].own_secret = NoSecret
        /\ rk[g].old_key \notin {NoKey, key[g]} ~> rk[g].old_key \in {NoKey, key[g]}
        /\ rk[g].new_key \notin {NoKey, key[g]} ~> rk[g].new_key \in {NoKey, key[g]}

----------------------------------------------------------------------------
(* The assertions of the code itself: what "should have been". *)

\* rekeyer.py:168: a REPLY, SWITCH or SWITCH_ACK finds __is_initiator set.
RoleIsBool ==
    \A g \in Gateways : dec[g] = "idle" /\ wire[g] # <<>> =>
        ~RoleMissing(rk[g], Head(wire[g]).flag)

\* rekeyer.py:225: a replier that is told to switch has derived the new key.
NewKeyIsBytes ==
    \A g \in Gateways : dec[g] = "idle" /\ wire[g] # <<>> =>
        ~NewKeyMissing(rk[g], Head(wire[g]).flag)
=============================================================================
