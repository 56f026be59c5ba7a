------------------------------ MODULE Channel ------------------------------
(***************************************************************************)
(* One direction of a session, byte by byte: replay data and nonces of the *)
(* sender, packing, framing on a TCP stream, exact reads under a socket    *)
(* timeout, unpacking, and the replay check of the receiver.               *)
(*                                                                         *)
(* Atomicity.  A step is one recv, one sendall, or the code between two of *)
(* them; a packet is sealed in two steps, as two threads of the client may *)
(* seal at once.                                                           *)
(*                                                                         *)
(* Data abstraction.  Bytes are digits to a small base, with short fields; *)
(* a message is its number, and so is a random nonce: none is drawn twice. *)
(* The key does not change (SecureLink): a packet opens if its fields and  *)
(* its nonce are those of one the sender sealed.                           *)
(***************************************************************************)
EXTENDS PacketFormat, ByteNumbers, Integers, FiniteSets

CONSTANTS HeaderSize,   \* bytes in the "!H" before a packet
          NonceSize,    \* bytes of a random nonce
          DataSize,     \* bytes of the shortest ciphertext; the others have one more
          Second,       \* ticks in a second
          MaxSent,      \* bound on the packets sealed
          MaxRepeats,   \* bound on the packets the network repeats
          MaxSkew,      \* ticks by which the clocks of the two hosts may differ
          MaxTicks,     \* bound on the clock
          TornModes     \* in which modes the rest of a message may be late

\* 1 << (size * 8) - 1: the first bit of the client's sequence numbers.
ClientMask == Place[SeqNumSize] \div 2

ASSUME ChannelAssumption ==
    /\ HeaderSize \in Nat \ {0} /\ NonceSize \in Bytes /\ DataSize \in Nat /\ Second \in Nat \ {0}
    /\ TimestampSize > 0 /\ SeqNumSize > 0
    /\ \A mode \in Modes :
          FixedSize(mode) + NonceSize + DataSize + 1 + SecretSize < Place[HeaderSize]

\* The bounds stay below what the fields of a packet can tell apart.
ASSUME ChannelBounds ==
    /\ MaxSent \in Nat /\ MaxRepeats \in Nat
    /\ MaxTicks \in Nat /\ MaxSkew \in 0 .. MaxTicks
    /\ MaxSent < ClientMask /\ MaxSent <= Place[DataSize] /\ MaxSent <= Place[NonceSize]
    /\ MaxTicks \div Second < Place[TimestampSize]
    /\ TornModes \subseteq Modes

VARIABLES
    conf,       \* how the two gateways were started, and what the network does
    counter,    \* __send_seq_num of the sender
    held,       \* held[t]: what thread t has got for the packet it seals
    sealed,     \* every packet sealed, in order (history)
    wire,       \* the bytes on their way
    repeats,    \* packets repeated so far
    now,        \* the clock of the sending host, in ticks
    rd,         \* the receiver inside NetComm.receive
    expected,   \* __expected_seq_num of the receiver
    seen,       \* what became of the packets that opened (history)
    outcome     \* what became of the last message read

vars == <<conf, counter, held, sealed, wire, repeats, now, rd, expected, seen, outcome>>

Threads == {"forward", "reset"}

\* BUG: the client's numbers start like the server's.
BugFirstCounter(mode, sender) == 0

FirstCounter(mode, sender) == IF mode = "seq-num" /\ sender = "client" THEN ClientMask ELSE 0

\* parse_args sets it whatever was asked for.
Tolerance == 1

Idle == [replay |-> <<>>, at |-> 0, alone |-> TRUE]
Fresh == [stage |-> "header", got |-> <<>>, size |-> 0]

Init ==
    /\ conf \in [mode : Modes, sender : {"client", "server"}, resist : BOOLEAN, prompt : BOOLEAN,
                 skew : -MaxSkew .. MaxSkew]
    /\ conf.prompt \/ conf.mode \in TornModes
    /\ conf.mode = "seq-num" => conf.skew = 0  \* only timestamps look at the clocks
    /\ counter = FirstCounter(conf.mode, conf.sender)
    /\ held = [t \in Threads |-> Idle]
    /\ sealed = <<>> /\ wire = <<>> /\ repeats = 0
    /\ now = MaxSkew  \* so that the other host's clock is no earlier than 0
    /\ rd = Fresh
    /\ expected = FirstCounter(conf.mode, conf.sender)
    /\ seen = <<>> /\ outcome = "none"

Closed == rd.stage = "closed"

----------------------------------------------------------------------------
(* The sender. *)

\* The threads that are sealing a packet.
Sealing == {t \in Threads : held[t] # Idle}

\* The client's decrypting thread seals one reset message when it reads nothing,
\* whatever the encrypting thread is doing: on a closed connection or, where messages
\* may be torn, an empty message of an open one (in the other direction, ReadNothing).
MaySeal(t) ==
    /\ held[t] = Idle /\ Len(sealed) + Cardinality(Sealing) < MaxSent
    /\ t = "reset" => /\ conf.sender = "client" /\ (Closed \/ ~conf.prompt)
                      /\ \A i \in DOMAIN sealed : sealed[i].by # "reset"

\* get_replay_resistance_data.  A packet is sealed alone if no other thread is
\* between this and Seal meanwhile.
GetReplayData(t) ==
    /\ MaySeal(t)
    /\ counter' = IF conf.mode = "seq-num" THEN counter + 1 ELSE counter
    /\ held' = [u \in Threads |->
                  IF u # t THEN [held[u] EXCEPT !.alone = u \notin Sealing]
                  ELSE [replay |-> IF conf.mode = "seq-num" THEN Digits(counter', SeqNumSize)
                                   ELSE Digits(now \div Second, TimestampSize),
                        at |-> now, alone |-> Sealing = {}]]
    /\ UNCHANGED <<conf, sealed, wire, repeats, now, rd, expected, seen, outcome>>

\* The fields of the next packet; the rekey flag and the public secret are
\* the Rekeyer's (SecureLink), here every other packet has one.
NextFields(t) ==
    LET n == Len(sealed)
    IN  [rekey  |-> n % 2,
         replay |-> held[t].replay,
         nonce  |-> IF conf.mode = "timestamp" THEN Digits(n, NonceSize) ELSE <<>>,
         cipher |-> Digits(n, DataSize + (n % 2)),
         mac    |-> Digits(n, MacSize),
         secret |-> IF n % 2 = 1 THEN [i \in 1 .. SecretSize |-> 1] ELSE <<>>]

\* get_cipher: the nonce is random or, without the salt, the counter now.
CipherNonce(f) == IF conf.mode = "timestamp" THEN f.nonce ELSE Digits(counter, SeqNumSize)

\* BUG: the length counts the header.
BugFrame(b) == Digits(Len(b) + HeaderSize, HeaderSize) \o b

Frame(b) == Digits(Len(b), HeaderSize) \o b

\* Encrypt, pack and sendall.  What is sent after the receiver has closed the
\* connection is on the network, or refused by the socket, but read by nobody.
Seal(t) ==
    /\ held[t] # Idle
    /\ LET f == NextFields(t) IN
       /\ sealed' = Append(sealed, [f |-> f, nonce |-> CipherNonce(f), at |-> held[t].at,
                                    by |-> t, alone |-> held[t].alone])
       /\ wire' = IF Closed THEN wire ELSE wire \o Frame(Pack(conf.mode, f))
    /\ held' = [held EXCEPT ![t] = Idle]
    /\ UNCHANGED <<conf, counter, repeats, now, rd, expected, seen, outcome>>

----------------------------------------------------------------------------
(* The network and the clocks. *)

\* A packet arrives once more.
Repeat ==
    /\ repeats < MaxRepeats /\ ~Closed
    /\ \E i \in DOMAIN sealed : wire' = wire \o Frame(Pack(conf.mode, sealed[i].f))
    /\ repeats' = repeats + 1
    /\ UNCHANGED <<conf, counter, held, sealed, now, rd, expected, seen, outcome>>

\* Only timestamps look at the clock.
Tick ==
    /\ conf.mode = "timestamp" /\ now < MaxTicks
    /\ now' = now + 1
    /\ UNCHANGED <<conf, counter, held, sealed, wire, repeats, rd, expected, seen, outcome>>

----------------------------------------------------------------------------
(* NetComm.receive *)

Wanted == CASE rd.stage = "header" -> HeaderSize
            [] rd.stage = "body"   -> rd.size
            [] OTHER               -> 0

\* BUG: recv(num) in the loop, whatever has been received.
BugMissing == IF Len(rd.got) < Wanted THEN Wanted ELSE 0

Missing == Wanted - Len(rd.got)

\* recv returns as much as has arrived, up to what is missing.
RecvSegment ==
    /\ \E k \in 1 .. Len(wire) :
          /\ k <= Missing
          /\ rd' = [rd EXCEPT !.got = @ \o SubSeq(wire, 1, k)]
          /\ wire' = SubSeq(wire, k + 1, Len(wire))
    /\ UNCHANGED <<conf, counter, held, sealed, repeats, now, expected, seen, outcome>>

\* recv raises TimeoutError: the forwarding loop starts receive anew.
TimesOut ==
    /\ Missing > 0
    /\ conf.prompt => rd = Fresh
    /\ rd' = Fresh
    /\ UNCHANGED <<conf, counter, held, sealed, wire, repeats, now, expected, seen, outcome>>

ReadSize ==
    /\ rd.stage = "header" /\ Missing = 0
    /\ rd' = [stage |-> "body", got |-> <<>>, size |-> Value(rd.got)]
    /\ UNCHANGED <<conf, counter, held, sealed, wire, repeats, now, expected, seen, outcome>>

----------------------------------------------------------------------------
(* The receiver. *)

HasRead == rd.stage = "body" /\ Missing = 0

Read == Unpack(conf.mode, rd.got)

\* unpack_encrypted_data: sequence numbers are the nonce, without the salt.
RebuiltNonce == IF conf.mode = "timestamp" THEN Read.nonce ELSE Read.replay

\* The packets that rd.got is.
Opens == {i \in DOMAIN sealed : sealed[i].f = Read /\ sealed[i].nonce = RebuiltNonce}

Distance(m, n) == IF m > n THEN m - n ELSE n - m

\* The stamp of one host and the clock of the other, in whole seconds.
Apart == Distance((now + conf.skew) \div Second, Value(Read.replay))

\* BUG: the tolerance itself is late.
BugStampTooLate == Apart >= Tolerance

StampTooLate == Apart > Tolerance

\* BUG: the last number is not late.
BugNumberTooLate ==
    LexLeq(Read.replay, Digits(expected, SeqNumSize)) /\ Value(Read.replay) # expected

NumberTooLate == LexLeq(Read.replay, Digits(expected, SeqNumSize))

\* verify_replay_data raises TimeoutError.
TooLate == conf.resist /\ IF conf.mode = "timestamp" THEN StampTooLate ELSE NumberTooLate

\* receive returns b'', which the loop takes for the end of the connection: nothing
\* more is read from it, and it is still open.
ReadNothing ==
    /\ HasRead /\ rd.got = <<>>
    /\ rd' = [Fresh EXCEPT !.stage = "ended"]
    /\ outcome' = "empty"
    /\ UNCHANGED <<conf, counter, held, sealed, wire, repeats, now, expected, seen>>

\* struct.error, which nobody catches: the thread ends.
OpenMalformed ==
    /\ HasRead /\ rd.got # <<>> /\ ~WellFormed(conf.mode, rd.got)
    /\ rd' = [Fresh EXCEPT !.stage = "dead"]
    /\ outcome' = "malformed"
    /\ UNCHANGED <<conf, counter, held, sealed, wire, repeats, now, expected, seen>>

MessageRead ==
    /\ HasRead /\ rd.got # <<>> /\ WellFormed(conf.mode, rd.got)
    /\ rd' = Fresh
    /\ UNCHANGED <<conf, counter, held, sealed, wire, repeats, now>>

\* ValueError: the message is dropped.
OpenFails ==
    /\ MessageRead /\ Opens = {}
    /\ outcome' = "unopened"
    /\ UNCHANGED <<expected, seen>>

OpenTooLate ==
    /\ MessageRead /\ Opens # {} /\ TooLate
    /\ outcome' = "late"
    /\ \E i \in Opens : seen' = Append(seen, [msg |-> i, at |-> now, taken |-> FALSE])
    /\ UNCHANGED expected

Open ==
    /\ MessageRead /\ Opens # {} /\ ~TooLate
    /\ outcome' = "taken"
    /\ \E i \in Opens : seen' = Append(seen, [msg |-> i, at |-> now, taken |-> TRUE])
    /\ expected' = IF conf.mode = "seq-num" /\ conf.resist THEN Value(Read.replay) ELSE expected

\* The receiver ends the session, wherever its thread is.
Close ==
    /\ ~Closed
    /\ rd' = [Fresh EXCEPT !.stage = "closed"]
    /\ wire' = <<>>
    /\ UNCHANGED <<conf, counter, held, sealed, repeats, now, expected, seen, outcome>>

Receive == RecvSegment \/ ReadSize \/ ReadNothing \/ OpenMalformed \/ OpenFails \/ OpenTooLate \/ Open

Next ==
    \/ \E t \in Threads : GetReplayData(t) \/ Seal(t)
    \/ Repeat
    \/ Tick
    \/ TimesOut
    \/ Receive
    \/ Close

\* The decrypting thread and the network go on.
Spec == Init /\ [][Next]_vars /\ WF_vars(Receive)

----------------------------------------------------------------------------

\* What follows a header is as long as the header says: the receiver is in
\* frame with what the sender sent.
SizeIsOfPacket ==
    rd.stage = "body" =>
        /\ Missing <= Len(wire)
        /\ \E i \in DOMAIN sealed : rd.got \o SubSeq(wire, 1, Missing) = Pack(conf.mode, sealed[i].f)

\* While no message is torn by the timeout, the receiver stays in frame,
\* whatever segments TCP delivers.
FramesKept == conf.prompt => SizeIsOfPacket

\* Then every message opens: no packet ends the thread that decrypts, or the
\* session, and none is dropped as tampered with.
EveryPacketOpens == conf.prompt => outcome \notin {"empty", "malformed", "unopened"}

\* A packet sealed alone has its number for a nonce and shares it with no packet of
\* the connection, be it sealed before or after, by another thread, or by the other
\* gateway: the nonces of the client start with the first bit.  What two threads seal
\* at once is the exception (NonceIsRebuilt).
NoncesNeverShared ==
    conf.mode = "seq-num" =>
        \A i \in DOMAIN sealed :
            /\ Value(sealed[i].nonce) >= ClientMask <=> conf.sender = "client"
            /\ sealed[i].alone =>
                  /\ sealed[i].nonce = sealed[i].f.replay
                  /\ \A j \in DOMAIN sealed : sealed[i].nonce = sealed[j].nonce => i = j

\* sym_cipher.py:175: the nonce is reconstructed from the number in the packet, so
\* every packet sent on an open connection was sealed with it.
NonceIsRebuilt ==
    conf.mode = "seq-num" /\ ~Closed =>
        \A i \in DOMAIN sealed : sealed[i].nonce = sealed[i].f.replay

Taken == {j \in DOMAIN seen : seen[j].taken}

\* With sequence numbers each message is taken at most once and in the order
\* of sending, repeated or torn as they may be.
OnceInOrder ==
    conf.mode = "seq-num" /\ conf.resist =>
        \A j, k \in Taken : j < k => seen[j].msg < seen[k].msg

Delay(j) == seen[j].at - sealed[seen[j].msg].at

\* How old the message looked to the receiver: its delay, and what the clock
\* of the receiver's host is ahead of the sender's.
Age(j) == Delay(j) + conf.skew

\* With sequence numbers no message is dropped as late but a repeated one.  With
\* timestamps none is if its delay and the skew together are within the tolerance,
\* and none is taken if they exceed it by a second, in either direction, although both
\* clocks are cut to seconds.
LateForCause ==
    \A j \in DOMAIN seen :
        IF conf.mode = "timestamp"
        THEN /\ ~seen[j].taken => Distance(Age(j), 0) > Tolerance * Second
             /\ seen[j].taken /\ conf.resist => Distance(Age(j), 0) < (Tolerance + 1) * Second
        ELSE seen[j].taken \/ \E k \in Taken : k < j /\ seen[k].msg >= seen[j].msg

IsRead(i) == \E j \in DOMAIN seen : seen[j].msg = i /\ (seen[j].taken \/ conf.mode = "timestamp")

\* Every message sent is looked at, and taken unless it is late by its
\* timestamp, while the connection lasts and no message is torn: again and again
\* none is outstanding.
EverySentIsRead == conf.prompt => []<>(Closed \/ \A i \in DOMAIN sealed : IsRead(i))
=============================================================================
