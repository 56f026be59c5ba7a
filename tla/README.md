# Modbus-TPM-security in TLA+

Models of a pair of bump-in-the-wire gateways that encrypt Modbus TCP between a
master and a slave: the key exchange that opens a session, the packets and the
rekeying inside it, its end and the next one, and the TPM-backed store of the
peers a gateway trusts. Every definition is translated from the code;
`PROJECT.json` maps it to its lines. Paths below are relative to
`src/src/modbus_tpm_security/`, C files to `src/TPM/`.

    master --TCP--> client gateway ==encrypted TCP==> server gateway --TCP--> slave

## 1. The system

| Component | State | Operations | Talks to |
|---|---|---|---|
| Rekeyer (`rekeyer.py`) | send state, role, own and peer secret, old and new key, fail flag, clear flag, time of the last switch | `handle_rekey`, `get_new_key`, `get_send_state`, `get_own_public_secret`, `set_fail_flag`, `get_old_key` | called by SymCipher from both threads |
| SymCipher (`sym_cipher.py`) | current key, a Rekeyer, a replay processor | `encrypt_and_digest`, `decrypt_and_verify` with fallback to the old key | called by the two forwarding threads |
| Gateways (`gateway/`) | `exit_flag`, `reset_flag`, two sockets, two threads, one shared cipher | the two forwarding loops, `handle_transfer`, accept/connect/close in `main` | device, peer gateway |
| Replay processors (`sym_cipher.py:90-185`) | send and expected sequence number and salt, or a tolerance | build and check replay data | SymCipher |
| Packet format (`packet_format.py`) | none | `pack`, `unpack` for both replay modes | replay processors |
| NetComm (`netcomm.py`) | none beyond the socket | framed or blind `send`, `receive`, exact reads | gateways, pairing |
| Key exchange (`key_exchange.py`) | none | authenticated exchange of RSA and ECC keys, order by address | gateways, peer store, own key |
| Pairing (`rsa_key_exchange/`) | `peers.csv` | pair a peer, authenticate a key, reset all | NetComm, TPM |
| Own key (`rsa_keygen.py`) | TPM NV index 0 | delete, generate, store | TPM |
| TPM layer (`tpm_security.py`, `tpm_api.c`, `tpm_operations.c`) | NV indexes | store (create, one or two writes), read, delete | hardware |
| Latency meter (`perf_measure/`) | running averages | `measure_latency`, export | gateways, `--measure-perf` only |
| Arguments, addresses (`parse_args.py`, `utils.py`) | none | parse | all programs |

What is hard in it:

* **Two threads, one cipher, no lock** (`gateway_client.py:114`). One thread
  encrypts what the device sends while the other decrypts what the peer sends;
  both read and write the same Rekeyer and the same key.
* **A five-message handshake on the back of the payload.** NONE, INIT, REPLY,
  SWITCH, SWITCH_ACK travel as the flag of ordinary packets. Each gateway says
  its current state on *every* packet, so what one state means depends on how
  many packets are in flight, and on none being dropped. Modbus devices normally
  alternate, which is what makes it work; nothing in the gateway enforces it.
* **Failure on one side.** A key agreement may raise on either side after the
  other has derived the key; a key exchange may be refused by one side while the
  other waits.
* **Two stores, no transaction.** A trusted peer is a TPM index and a row of a
  file, written and deleted one after the other; the own key is two NV writes.
* **Sessions.** Three threads share two flags; what ends a session is a flag, a
  reset message or a closed connection, whichever is noticed first, or an
  exception nobody notices.
* **A byte stream under a timeout.** Exact reads of framed packets, on sockets
  that raise `TimeoutError` after two seconds.

What makes each component correct:

* Rekeyer and SymCipher: both ends use the same key for the same packet; nothing
  is lost; a due rekeying completes; old secrets go.
* Gateways: the devices see a reliable FIFO link; both gateways leave a session
  that one has left, and no session ends for another.
* Replay processors and format: no nonce twice under one key (which two threads of
  the client can break, see `v_nonce`); honest packets are
  accepted, repeated ones are not; what was packed is unpacked.
* NetComm: a packet is read as it was sent, or not at all.
* Peer store: exactly the confirmed peers are accepted, whatever is interrupted.
* Key exchange: a key means mutual trust; nobody waits for ever or starts alone.
* Own key: a key that can be read is whole.

How they interact: `main` takes a connection, `key_exchange_routine` reads the own
key and the peer store from the TPM and returns a session key, `handle_transfer`
gives it to one SymCipher shared by two threads, which call the Rekeyer, the
replay processor, the format and NetComm for every packet until a flag ends them.
The modules are cut along these calls: each takes what it is given by the one
before as a choice that the other is shown to make (an outcome of the key
exchange in `GatewaySession`, whole messages in `SecureLink`, a fixed key in
`Channel`).

## 2. Modules

| Module | What it is |
|---|---|
| `Rekeyer` | the class as a record and its methods as operators, for `Rekeyer` and the condition under which each `ValueError` is raised |
| `SecureLink` | two gateways with two threads each, the wire between them, the shared Rekeyer and key |
| `ReliableLink` | the abstract specification: what the two devices may assume, reliable or lossy |
| `Channel` | one direction of a session byte by byte: replay data, packing, framing, segments, timeouts, the replay check |
| `ByteNumbers` | numbers as byte strings of a fixed length, and their order |
| `PacketFormat` | `pack` and `unpack`, as functions on sequences of bytes |
| `KeyExchange` | `key_exchange_routine` on both ends of a connection |
| `GatewaySession` | the main and forwarding threads of both programs through session after session |
| `PeerStore` | `peers.csv`, the TPM indexes, the own key and the programs that change them |
| `MCSecureLink`, `MCPeerStore` | symmetry sets for TLC |
| `SecureLinkProofs`, `SecureLinkRefines`, `ByteNumbersProofs`, `PacketFormatProofs`, `ChannelProofs`, `KeyExchangeProofs`, `GatewaySessionProofs`, `PeerStoreProofs` | the theorems |

Operators named `Bug...` are plausible mistakes in the definition that follows;
they show that a property can fail and are not part of any specification.

### Rekeyer and SecureLink

`rk[g]` is the `Rekeyer` of gateway `g` and `key[g]` its `SymCipher.__key`;
`enc[g]` and `dec[g]` are where the two threads are and what their locals hold.
The class writes `__recv_state` once per call and never reads it elsewhere, so it
is the argument `flag`. The clock appears as `due`, the one thing it is asked.

A thread's step is one call on the shared Rekeyer, with what is done to the
result at once, or one use of the key with the socket call after it:

| Action | Code |
|---|---|
| `EncUpdateKey` | `__update_key(called_before_send=True)`, `sym_cipher.py:256` |
| `EncGetSendState` | `get_send_state`, `:258` |
| `EncGetOwnPublicSecret` | `get_own_public_secret`, `:259`, which reads the state again and may end the thread |
| `EncSealAndSend` | seal with the key as it is by then, `:261-265`, and send |
| `DecHandleRekey` | unpack and `handle_rekey`, `:299-306`, before the packet is authenticated |
| `DecUpdateKey` | `__update_key(called_before_send=False)`, `:307` |
| `DecOpen`, `DecOpenFails` | first attempt, `:310-311` |
| `DecOpenWithOldKey`, `DecSetFailFlag`, `DecRevert` | fallback, `:312-320` |
| `DecReject` | neither key, `:321-324`; the gateway prints and goes on (`gateway_client.py:105`) |
| `DecTooLate` | the packet opens and is refused by its timestamp, `:325-327`; `handle_rekey` has run |
| `DecDies` | the same inside the fallback, `:315`, which no handler catches |
| `Submit`, `Retry`, `Elapse` | a device sends; the master gives a lost transaction up; the rekey interval runs out |

Abstractions. A symmetric key is the set of secrets it was agreed from, so
agreement is symmetric because X25519 is, and two handshakes never yield the same
key. AEAD opens a packet exactly under the key that sealed it. Messages are whole
and in order (TCP; `Channel` says when). `MayBeLate` says whether the replay check may refuse a
packet: with timestamps any packet may be too old, sequence numbers refuse none of
an undisturbed connection (`Channel`, `LateForCause`). `Window` is how many
transactions the master keeps outstanding: the master starts with that many turns
to send and the receipt of an answer gives one back. Secrets that no variable
depends on any more may be drawn again, so that a handful stand for an unlimited
supply (see the bounds).

The atomicity is a real limit with `Window > 1`: Python may switch threads inside
a method, and the model does not. With `Window = 1` and no late packet it is no limit
at all, since no two threads are ever inside the cipher at the same time
(`LockstepNeedsNoLock`, proved).

### ByteNumbers, PacketFormat and Channel

`ByteNumbers` is `int.to_bytes`, `int.from_bytes` and the comparison of `bytes` objects.
`PacketFormat` gives the layout with the field sizes as constants; `WellFormed` is
where `unpack` does not raise. `Channel` runs it: a sender seals packets in two
steps, `GetReplayData` (`get_replay_resistance_data`) and `Seal` (cipher, pack,
header, `sendall`), on up to two threads; the receiver's `rd` is its place in
`NetComm.receive`.

| Action | Code |
|---|---|
| `GetReplayData`, `Seal` | `sym_cipher.py:238-263` with the counter, or the sender's clock cut to seconds; `netcomm.py:59-70` |
| `RecvSegment`, `ReadSize` | `__recv_exact` and the header, `netcomm.py:41-54`, `:76-84` |
| `TimesOut` | `TimeoutError` out of `recv` and `continue` in the loop, `gateway_client.py:74-77` |
| `ReadNothing` | an empty message is taken for a closed connection, which is still open, `gateway_client.py:72-82` |
| `OpenMalformed` | `struct.error` ends the thread |
| `Open`, `OpenTooLate`, `OpenFails` | `decrypt_and_verify` returns, or raises and the packet is dropped |
| `Repeat`, `Tick`, `Close` | a packet delivered once more, the clocks of both hosts, the end of the session |

`conf` is how the two programs were started and what the network does: the replay
mode, which gateway sends, `--disable-replay-resistance`, whether the rest of a
message always comes in time (`prompt`), and by how much the receiver's clock is ahead of
the sender's or behind it (`skew`). `now` is the sender's clock, `now + conf.skew` the
receiver's, and each is cut to whole seconds by itself before `abs()` compares them.

Two threads of the client seal at once in one case: the decrypting one reads an empty
message and sends a reset message, while the encrypting one sends a packet or its own
reset message. `MaySeal` allows it once the connection is closed, and at any time where
messages may be torn: then the other direction may read a size of 0 on an open connection,
which is what `ReadNothing` shows of this one. `alone` says of a packet whether another
thread was between the two steps of sealing meanwhile. Every packet sealed counts, those
after the peer's close too, since the first of them still go onto the network.

The client starts its numbers at
`ClientMask`, half the range, as the code does at 2^63. The session salt is the same
for all packets and left out.
`ChannelAssumption` says what the code's field sizes satisfy: the largest packet's length
fits into a header. `ChannelBounds` keeps the run within what the fields can
tell apart: fewer packets than half the sequence numbers, no more than
nonces and payloads there are, a clock that fits into a timestamp.

### KeyExchange

One action per call on the socket (`SendRSA`, `SendECC`, `Recv`, `SocketRaises`) and per
decision (`Load`, `Auth`, `Verify`); `After` is the order of the calls in
`key_exchange.py:22-36` and `:66-79`, by the address of each end. There are no frames:
`Recv` takes any part of what has arrived, `b''` on a closed connection. `Auth` is
`auth_RSA_public_key` as `trusted[g]` (`PeerStore` keeps it). Every outcome is there:
a key, `None`, or an exception that ends the program.

### GatewaySession

`main[g]` is the main thread's place in `main` and `handle_transfer`, `enc[g]` and `dec[g]`
the forwarding threads, `reset[g]` and `exit[g]` the flags. The connection between
the gateways is a number, so that one end may be in a later one than the other:
the server's backlog holds connections it has not accepted.

| Action | Code (client; the server's is its mirror image) |
|---|---|
| `AcceptDevice`, `ConnectGateway` / `AcceptGateway`, `ConnectDevice` | `gateway_client.py:194-199` / `gateway_server.py:193-207`; the server connects even after a failed exchange |
| `ExchangeSucceeds`, `ExchangeFails`, `ExchangeRaises` | the outcomes of `key_exchange_routine`, at each end by itself |
| `EncStops`, `EncDeviceGone`, `EncLinkBroken`, `EncSendsReset` | the loop of the encrypting thread and its tail, `:23-61` |
| `DecStops`, `DecLinkGone`, `DecReadsReset`, `DecDropsReset`, `DecDeviceBroken` | the loop of the decrypting thread, `:69-110` |
| `DecReadsNothing` | an empty message on an open connection, `:72-73`, as `Channel` shows it after a torn one; `torn[g]` remembers it as a cause |
| `DecSendsReset` | the reset message of the client's decrypting thread, `:81`; the server's thread sends none |
| `EncDies`, `DecDies` | an exception outside every handler |
| `Join`, `Close`, `CloseAndExit`, `NextSession` | `:141-144`, `:221-235`, `:188-190` |
| `InterruptTransfer`, `Interrupt`, `Restart`, `DeviceLeaves` | Ctrl+C where it is caught and where it is not, the operator, the device |

### PeerStore

`rows` is `peers.csv`, `nv` the TPM indexes of peers, `own` the two halves of index 0,
`tool` the program that runs (key generation, pairing or reset) and its locals; `paired` is
a history of what the operator confirmed. A step is one TPM command that changes NV
memory or one pass over the file. `Crash` ends a program between any two steps;
`StoreFails`, `DeleteFails`, `DeleteOwnFails` and `GenerateFails` are TPM commands that
fail. `Authorized(k)` is `auth_RSA_public_key`. An own key is the number of the
generation that made it; `OwnKeyLoads` is the two-part `TPM_ReadNV` followed by
`RSA.import_key`, which refuses halves that do not belong together: a serialized 2048-bit key
is longer than one NV write, and the boundary falls into a prime. A pairing needs a
key that loads. The exchange of the keys over the
network is the one step `Confirm`: the operator compares fingerprints and accepts.
One program runs at a time. A row is written whole, and an empty `peers.csv` is
not told from a missing one (with an empty file a reset removes it and purges
nothing; in the model it purges). The reset is offered for every file that does
not exist; an operator who declines the purge is an interruption of it.

## 3. Runs

| Run | Instance | What it shows |
|---|---|---|
| `lockstep` | 1 outstanding, 6 secrets, 2 payloads, agreements may fail, no late packet, fairness | type, the inductive invariant `LockstepInv`, `ThreadsExcludeEachOther`, `OpensAtFirstTry`, `SwitchesToPeerKey`; SecureLink implements `ReliableLink` (`LinkSafety`, and its fairness: `LinkDelivers`); `RekeyingCompletes`; `SecretsForgotten` |
| `pipelined` | 2 outstanding, 6 secrets, 2 payloads, late packets | payloads may be lost and threads die, nothing is reordered, duplicated or corrupted (`LinkNeverMisorders`); a replier told to switch has its key (`NewKeyIsBytes`) |
| `channel` | 3 packets, 1 repeated, byte base 4, 5 ticks, 2 to a second, clocks up to 3 ticks apart | `FramesKept`, `EveryPacketOpens`, `NoncesNeverShared`, `OnceInOrder`, `LateForCause`, `EverySentIsRead` |
| `key_exchange` | 2 addresses, every assignment of trust, keys and addresses | `KeyMeansMutualTrust`, `CrashHasCause`, `EveryExchangeEnds`, `TrustedPeersGetKey`, `NobodyStartsAlone` |
| `session` | 3 connections, threads may die | type, `NoSpuriousReset`, `DeviceLossEndsSession`, `SessionsEndTogether`, `ExitIsHonoured`, `ResetReturns` |
| `peers` | 3 peers, 2 indexes, purge of 1, 3 own keys, 2 failures, 2 interruptions | type, `RowsNeverSwapped`, `AuthorizedWasPaired`, `OnlyResetRevokes`, `KeyOfOneRun` |
| `peers_retry` | 2 peers, 2 indexes, 5 own keys, no resets, fairness | `KnownIsAuthorized`, `EveryPeerJoins` |
| `v_role` | 1 outstanding, late packets | violated, see below |
| `v_livelock` | 2 outstanding, fairness | violated |
| `v_known` | 2 peers, 1 interruption, resets | violated |
| `v_framing` | as `channel` | violated |
| `v_nonce` | as `channel` | violated |

Bounds.

* *Link.* A run has enough secrets when one is free whenever a packet is handled. Six
  are enough for `lockstep`. With two outstanding transactions more may be in use
  at once: both gateways in a handshake with the packets, locals and keys of the one
  before. `pipelined` has six, which leaves out the behaviours that would draw a seventh;
  `LinkNeverMisorders` and `NewKeyIsBytes` are proved without any bound. Two payloads tell a reordered or
  repeated payload from the right one. One outstanding transaction is how a Modbus
  master that waits for its answer behaves; two is the least that puts packets in
  both directions at once. Sessions of the link need no bound on their length: the
  state space closes by itself.
* *Channel.* A byte has four values and the fields are one or two bytes long: a
  header of 2 digits says sizes up to 15, sequence numbers of 2 digits go to 15 with
  the client's from 8 on, timestamps of 1 digit go to 3. No behaviour wraps around within the bounds, as none does in 2^63 packets.
  Three packets, one of them with a public key, are enough for a repetition, an
  overtaking, a torn message followed by a whole one, and two packets that two threads seal at
  once with one before or after them. Clocks 3 ticks apart differ by more than the
  tolerance of 2 ticks, so that a packet is refused without any delay, and one with a
  stamp ahead of the receiver's clock is taken or refused; the clock starts at 3 ticks, so that
  neither host's is before 0, and 2 ticks of delay add to or make up for the difference. Torn messages are allowed with sequence numbers only
  (`TornModes`): the properties about them do not look at the clock.
* *Sessions.* Three connections let what is left of the first meet the third, with the
  server still in the first when the client is in the second.
* *Peers.* More peers than indexes and more indexes than the purge reaches, so that the
  store fills up and keys survive a purge; two failures and two interruptions let one
  follow on the other's leftovers. `MaxKeys` bounds the generations of the own key:
  in `peers_retry` it is one more than the failures and interruptions can spoil.

Fairness. The operating system runs the threads of both gateways, and TCP delivers:
weak fairness of `Encrypt(g)` and `Decrypt(g)` in `SecureLink`, of `Main(g)`,
`Encrypting(g)` and `Decrypting(g)` in `GatewaySession`, of the program in `KeyExchange`, of
`Receive` in `Channel`. `Submit` and `Retry` are fair in
`PollingSpec` only, since a Modbus master polls and a slave answers; rekeying
rides on this traffic and cannot progress without it. `Elapse` is not fair: the
interval may run out at any time or never. In `GatewaySession` nothing is assumed of
devices, users, errors and traffic: `Encrypting(g)` holds only what the thread does
on its own, so that a broken pipe, which takes a packet to notice, is no help to
`SessionsEndTogether`. In `PeerStore` a program that is not
interrupted goes on (weak fairness), and the operator repeats the generation of a key
that does not load and the pairing of
every peer (strong fairness, as other programs run in between).

`CHECK_DEADLOCK FALSE` is said where the system may stop: in `pipelined` and `v_livelock`, where a thread can die or, without late packets, a lost request is never answered; in
`key_exchange`, which ends; in `channel`, `v_framing` and `v_nonce`, where the bounds on packets and
clock are reached.

## 4. What the violated runs show

All five are disagreements with an assertion, message or comment of the code, with honest
peers.

* `v_role`: a SWITCH packet opens but is refused by its timestamp, after `handle_rekey` has
  run. The replier has switched and forgotten its role, the initiator says SWITCH
  again, and `rekeyer.py:168` raises before the packet is opened, at the next packet
  and at every one after it. Two SWITCH packets under way at once do the same.
* `v_livelock`: both gateways say INIT, each becomes a replier on hearing the other's,
  and both say REPLY for ever (`rekeyer.py:150`, `:200`). Traffic flows; a due
  rekeying never completes. Four secrets are enough for this counterexample.
* `v_known`: `keyvault_reset.py` interrupted between the NV keys and `peers.csv`
  leaves rows without keys; pairing calls the peer known, authentication rejects
  it, and pairing again does not help.
* `v_framing`: a timeout between two segments of a message discards the first, and the
  next bytes are read as a header (`netcomm.py:42`, `gateway_client.py:74-77`).
* `v_nonce`: on the client two threads seal at once. Both raise the counter (`sym_cipher.py:166`)
  before the first reads it again for its nonce (`:161`), and the first packet gets the
  nonce of the second: two packets under one key and nonce, and the receiver, which rebuilds the
  nonce from the number in the packet (`:175`), cannot open the first. `NoncesNeverShared` says
  that this stays between the two packets.

A master with one outstanding transaction and packets within the tolerance meets
none of the first two: `lockstep` checks it, and the theorems below prove it for what causes the first. It also shows
that the fallback to the old key (`sym_cipher.py:311`) is never taken then.

Three things seen on the way that no run is about. `get_new_key` resets the ephemeral key and
leaves the send state at INIT or REPLY; `get_own_public_secret` then raises in a thread nobody
watches (`rekeyer.py:120`, `gateway_client.py:43`): `EncGetOwnPublicSecret` ends the thread,
which `pipelined` reaches, with two outstanding transactions and a packet too late. `parse_args.py:37` sets the timestamp
tolerance to 1 whatever `--set-timestamp-tolerance` (`:16`) asked for; `Tolerance` is therefore
1. With two outstanding transactions the flag and the public key of a packet may be
of two states (`sym_cipher.py:258`, `rekeyer.py:116`), and the receiver drops it; `SecureLink` has the
two reads as two steps, and `LinkNeverMisorders` says that nothing worse comes of it.

## 5. What is proved

TLAPS, for every value of the constants:

| Theorem | Says |
|---|---|
| `TypeCorrect` | `SecureLink`: `TypeOK`, any `Window` |
| `Lockstep` | `Window = 1`, no late packets: `LockstepInv` |
| `LockstepNeedsNoLock` | the same: no two threads are in the cipher at once |
| `LockstepOpensAtFirstTry` | the same: the first key tried opens every packet |
| `LockstepSwitchesToPeerKey` | the same: `SwitchesToPeerKey` |
| `LockstepImplementsLink` | the same: SecureLink implements the safety of `ReliableLink` |
| `NoRekeyingImplementsLink` | the same under `--disable-rekeying`, for any `Window` |
| `NeverMisorders` | any `Window`, late packets or not: SecureLink implements the lossy link |
| `SwitchFindsNewKey` | any `Window`, late packets or not, agreements failing or not: `NewKeyIsBytes` |
| `BytesCompareAsNumbers` | two numbers that fit compare as their byte strings do |
| `BytesKeepNumbers`, `NumbersKeepBytes` | `from_bytes` inverts `to_bytes` on numbers that fit, and `to_bytes` inverts `from_bytes` |
| `UnpackInvertsPack` | `unpack` of `pack` is what was packed, and does not raise |
| `ChannelInvariant` | `Channel`: the inductive invariant `ChannelInv` |
| `ReceiverStaysInFrame`, `PacketsOpen` | `FramesKept`, `EveryPacketOpens` |
| `NoncesDiffer`, `TakenInOrder`, `DropsHaveCause` | `NoncesNeverShared`, `OnceInOrder`, `LateForCause` |
| `ExchangeTypeCorrect`, `KeyNeedsMutualTrust`, `CrashesHaveCause` | `KeyExchange`: `TypeOK`, `KeyMeansMutualTrust`, `CrashHasCause` |
| `SessionTypeCorrect`, `NoSessionEndsForAnother` | `GatewaySession`: `TypeOK`, `NoSpuriousReset`, any number of sessions |
| `StoreTypeCorrect` | `PeerStore`: `TypeOK` |
| `RowsKeepTheirKeys`, `OnlyPairedAreAuthorized`, `PairingRevokesNothing` | `RowsNeverSwapped`, `AuthorizedWasPaired`, `OnlyResetRevokes` |
| `HalvesMatch` | `KeyOfOneRun` |
| `KnownWithoutResets` | where nobody resets: `KnownIsAuthorized` |

Assumptions: only those named in the modules, and what the table says.

*Lockstep.* `ThreadsExcludeEachOther` is not inductive: it needs that there is one
message in the whole system (`Tokens = 1`) and that a thread is in the cipher only
while it has an input. `OpensAtFirstTry` needs to know what the two Rekeyers hold
at each point of the handshake. `LockstepInv` says it by turns: the gateway `g`
that has the message is about to say `rk[g].send_state`, and `Handshake` gives, for
each of the six flags, the role, secrets, new key and clear flag on both sides;
`KeysInStep` says that the keys agree except for the initiator's SWITCH packet and
the replier's packet in hand; `SaysItsState` ties the thread's locals and the packet
in flight to the Rekeyer. The proof goes action by action; `HandleContinues` is the
heart of it: whatever state is received, the receiver's next state fits again.

*Refinement.* The queue of the abstract link to a gateway is the payloads on the wire
followed by those its peer has not forwarded (`LinkQueue`). The lemmas of
`SecureLinkRefines` say what each way of changing the two sequences does to the queue: sealing moves a
payload from one to the other and is a stutter, delivery and loss take the head.
`NeverMisorders` needs no more than that. For the reliable link the steps that
lose a payload must be excluded: `handle_rekey` never raises in lockstep
(`LockstepNeverRaises`) and the fallback is never entered; without rekeying both keys stay the
session key.

*Overlapping rekeyings.* `NewKeyIsBytes` is the assertion of `rekeyer.py:225`: a replier that
hears SWITCH has a new key. It looks at one packet and one Rekeyer, and with
several packets under way nothing local relates the two. `OverlapInv` numbers the
messages of all rekeyings through, five to a rekeying (`Carries`; a FAIL takes the place of
a REPLY or a SWITCH), and says that some numbering fits: of the packets on each wire, of
what each thread is about to say, of what each Rekeyer is at and last heard
(`Numbering`). The numbers on a wire never decrease (`Line`), no Rekeyer goes back
(`HandleIsNumbered`), and none is further on than `Reach` of what it heard. A replier
without a new key is at a NONE, and no SWITCH is within reach of that (`SwitchHasKey`). The numbers are
no variables of the model; each step of the proof names the next ones. TLC checked
the numbering beforehand on a copy of the model that kept them as variables.

*KeyExchange.* Trust travels backwards: a signed ECC key is in a stream, or has been
received, only if its sender has authorized the receiver. The invariant says so for
both orders of sending at once; `Cut` and `AppendMessage` say what `recv` and `sendall` do to
a stream of chunks. `CrashHasCause` needs that the two ends stay in step though nothing delimits the
messages: `ScriptInv` says that what an end has received and what is under way to it are
together the chunks its peer has sent so far, in the order of the script, until a
message is cut or a peer has failed (`Claim`).

*ByteNumbers.* What holds for every length is proved by induction over the length with the
set of lengths for which it holds, which the provers can instantiate where they cannot
instantiate a predicate.

*Channel.* None of the five properties is inductive. `ChannelInv` adds what the sender
has sealed, and that it can be packed into a frame (`SealInv`), with
which timestamp (`StampInv`) or number (`NumberInv`); and that the receiver expects the first number or
one it has taken (`ReplayInv`). Numbers are unique whoever seals, and a nonce is a
number: `NumberInv` says for the packets sealed and those being sealed that no nonce is below its
number or above the counter, and that a packet sealed alone parts the earlier from the
later: the numbers and nonces before it are below its own, those after it above. Only
while no message is torn, and the connection lasts, does one thread seal at a time
(`OpenInv`); that is used for `EveryPacketOpens` alone, which speaks of that case.
The two clocks meet in `CutDistance`: what cutting both to seconds does to the distance of two
times. `FrameInv` says what being in frame means: the bytes read and
those on the wire are the rest of one packet and a stream of whole frames. `Streams` is the least
set of byte strings closed under adding a frame, which takes the place of an
induction over the stream. What `recv` returned so far is a prefix of it, however it was cut.

*GatewaySession.* `SessionInv` adds to `NoSpuriousReset` that flags, messages and open connections
belong to a session (`Tidy`), that whatever has stopped has a cause in its own
session (`Caused`), and that the server is never ahead of the client.

*PacketFormat.* A slice of a concatenation whose parts have known lengths is the part
(`UnpackConcat`); `HeaderFacts` gives the lengths the receiver reads from the header.

*PeerStore.* None of the properties is inductive alone. `StoreInv` adds that the ids
of rows are unique and their keys confirmed, that the id a running pairing has chosen
is above every row's and its key in none, that the index about to be entered in the
file holds the key, and that a purge only runs without rows. The choice of the next id rests on the
maximum of a bounded set, proved in `MaxOfBounded`. `OwnInv` follows the own key through the
four steps of its generation.

Only model-checked: liveness (`LinkDelivers`, `RekeyingCompletes`, `SecretsForgotten`,
`EveryPeerJoins`, `EveryExchangeEnds`, `TrustedPeersGetKey`, `NobodyStartsAlone`, `DeviceLossEndsSession`,
`SessionsEndTogether`, `ExitIsHonoured`, `ResetReturns`, `EverySentIsRead`: fairness is
out of the prover's reach). Every invariant a passing run checks is also proved.

## 6. Not modelled

* Cryptography beyond what it promises, the choice among the ciphers (`sym_cipher.py:16-87`,
  `:330-393`), and hostile peers or networks, apart from a repeated packet.
* Switches of threads inside one method of the Rekeyer when more than one message is
  outstanding, and under which key a reset message is sealed (`rekeyer.py:105-107`): its
  receiver may drop it for any reason.
* The repetition of the key exchange under `--measure-perf` (`gateway_client.py:202-206`) and the latency
  meter: measured times in floating point.
* NetComm's limit of 1 MB: a device's message is one `recv` of 4096 bytes and a
  received size is two bytes, so that neither reaches it. Blind mode is one call on the
  device's socket.
* A peer that stays connected and silent during the key exchange, where the sockets have no timeout.
* Two pairing programs at once, and a torn row of `peers.csv`. After a new own key, the peers keep
  the old public key and must be paired again; the stores of two gateways are not composed.
* Clocks that are set, or drift apart, during a session: `Channel` has any constant difference.
* The bytes of two `sendall` calls of two threads mixed on the wire, and a switch of threads inside
  `get_replay_resistance_data` that gives both packets one number: a worse
  form of `v_nonce`.
* The first packet of a session, if a `recv` of the exchange takes it together with the ECC key
  (`key_exchange.py:71`); `KeyExchange` ends with the keys.
* Two gateways whose addresses are translated on the way, so that each sees another order.
* Argument parsing, address lookup, logging and the manual test scripts, which have no
  state of their own.
