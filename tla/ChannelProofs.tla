---------------------------- MODULE ChannelProofs ----------------------------
(***************************************************************************)
(* Theorems of Channel, for any base, field sizes, bounds and segments.    *)
(***************************************************************************)
EXTENDS Channel, ByteNumbersProofs, PacketFormatProofs, SequenceTheorems, FiniteSetTheorems

----------------------------------------------------------------------------
(* What a receiver in frame has before it: whole frames. *)

\* The concatenations of members of F, as the least set closed under adding one.
Streams(F) ==
    {s \in Seq(Bytes) : \A T \in SUBSET Seq(Bytes) :
        <<>> \in T /\ (\A t \in T, f \in F : t \o f \in T) => s \in T}

LEMMA StreamEmpty == \A F : <<>> \in Streams(F)
BY DEF Streams

LEMMA StreamAppend ==
    ASSUME NEW F \in SUBSET Seq(Bytes), NEW s \in Streams(F), NEW f \in F
    PROVE  s \o f \in Streams(F)
<1>1. s \o f \in Seq(Bytes)
  BY DEF Streams
<1>2. ASSUME NEW T \in SUBSET Seq(Bytes), <<>> \in T, \A t \in T, g \in F : t \o g \in T
      PROVE  s \o f \in T
  <2>1. s \in T
    BY <1>2, Zenon DEF Streams
  <2> QED BY <1>2, <2>1
<1> QED BY <1>1, <1>2, Zenon DEF Streams

LEMMA StreamMonotonic ==
    ASSUME NEW F, NEW G, F \subseteq G
    PROVE  Streams(F) \subseteq Streams(G)
BY Zenon DEF Streams

\* A stream that is not at its end begins with a frame.
LEMMA StreamFirst ==
    ASSUME NEW F \in SUBSET Seq(Bytes), NEW s \in Streams(F), s # <<>>
    PROVE  \E f \in F, r \in Streams(F) : s = f \o r
<1> DEFINE T == {t \in Seq(Bytes) : t = <<>> \/ \E f \in F, r \in Streams(F) : t = f \o r}
<1>1. <<>> \in T
  OBVIOUS
<1>2. ASSUME NEW t \in T, NEW g \in F PROVE t \o g \in T
  <2>1. t \in Seq(Bytes) /\ g \in Seq(Bytes) /\ t \o g \in Seq(Bytes)
    OBVIOUS
  <2>2. CASE t = <<>>
    <3>1. t \o g = g /\ g = g \o <<>>
      BY <2>1, <2>2, ConcatEmptySeq
    <3> QED BY <2>1, <3>1, StreamEmpty
  <2>3. CASE \E f \in F, r \in Streams(F) : t = f \o r
    <3>1. PICK f \in F, r \in Streams(F) : t = f \o r
      BY <2>3
    <3>2. f \in Seq(Bytes) /\ r \in Seq(Bytes)
      BY DEF Streams
    <3>3. t \o g = f \o (r \o g)
      BY <2>1, <3>1, <3>2, ConcatAssociative
    <3>4. r \o g \in Streams(F)
      BY StreamAppend
    <3> QED BY <2>1, <3>3, <3>4
  <2> QED BY <1>2, <2>2, <2>3
<1>3. T \in SUBSET Seq(Bytes)
  OBVIOUS
<1> HIDE DEF T
<1>4. s \in T
  BY <1>1, <1>2, <1>3, Zenon DEF Streams
<1> QED BY <1>4 DEF T

----------------------------------------------------------------------------
(* The inductive invariant, in named parts. *)

Packet == [f : Fields(Bytes), nonce : Seq(Bytes), at : Nat, by : Threads, alone : BOOLEAN]
Hold   == [replay : Seq(Bytes), at : Nat, alone : BOOLEAN]
Look   == [msg : Nat, at : Nat, taken : BOOLEAN]
Stages == {"header", "body", "closed", "ended", "dead"}

TypeInv ==
    /\ conf \in [mode : Modes, sender : {"client", "server"}, resist : BOOLEAN, prompt : BOOLEAN,
                 skew : -MaxSkew .. MaxSkew]
    /\ counter \in Nat
    /\ held \in [Threads -> Hold]
    /\ sealed \in Seq(Packet)
    /\ wire \in Seq(Bytes)
    /\ repeats \in Nat
    /\ now \in MaxSkew .. MaxTicks
    /\ rd \in [stage : Stages, got : Seq(Bytes), size : Nat]
    /\ expected \in Nat
    /\ seen \in Seq(Look)
    /\ outcome \in {"none", "empty", "malformed", "unopened", "late", "taken"}

\* What the sender seals can be packed, and its length fits into a header.
Sendable(mode, f) ==
    /\ Packable(mode, f) /\ Len(f.nonce) \in Bytes
    /\ Len(Pack(mode, f)) < Place[HeaderSize]

ReplayFits(mode, r) == Len(r) = ReplaySize(mode)

\* No packet is stamped later than it is sealed, and the bound on their number holds.
SealInv ==
    /\ Len(sealed) + Cardinality(Sealing) <= MaxSent
    /\ \A t \in Threads : /\ held[t].at <= now
                          /\ held[t] # Idle => ReplayFits(conf.mode, held[t].replay)
    /\ \A i \in DOMAIN sealed : sealed[i].at <= now /\ Sendable(conf.mode, sealed[i].f)

\* A timestamp is that of its packet's stamping, and its nonce is in the packet.
StampInv ==
    conf.mode = "timestamp" =>
        /\ \A t \in Threads :
              held[t] # Idle => held[t].replay = Digits(held[t].at \div Second, TimestampSize)
        /\ \A i \in DOMAIN sealed :
              /\ sealed[i].f.replay = Digits(sealed[i].at \div Second, TimestampSize)
              /\ sealed[i].nonce = sealed[i].f.nonce

\* Without a torn message no thread seals beside another one while the connection lasts.
OpenInv ==
    conf.prompt /\ ~Closed => /\ held["reset"] = Idle /\ held["forward"].alone
                              /\ \A i \in DOMAIN sealed : sealed[i].alone

First == FirstCounter(conf.mode, conf.sender)

Num(t)    == Value(held[t].replay)
Number(i) == Value(sealed[i].f.replay)
Nonce(i)  == Value(sealed[i].nonce)

\* The numbers given so far.
Numbers == First + 1 .. counter

\* One has been given to each packet, and a thread that seals alone has the last one.
HeldNumbers ==
    /\ counter = First + Len(sealed) + Cardinality(Sealing)
    /\ \A t \in Sealing :
          /\ Num(t) \in Numbers
          /\ \A u \in Sealing \ {t} : Num(u) # Num(t)
          /\ held[t].alone => Sealing = {t} /\ Num(t) = counter

\* A nonce is the counter at a later time than its packet's number, or the same; those
\* of a packet sealed alone are equal, and part what is before it from what is after.
SealedNumbers ==
    \A i \in DOMAIN sealed :
        /\ Number(i) \in Numbers /\ Nonce(i) \in Numbers /\ Number(i) <= Nonce(i)
        /\ sealed[i].alone => sealed[i].nonce = sealed[i].f.replay
        /\ \A j \in DOMAIN sealed :
              /\ i # j => Number(i) # Number(j)
              /\ i < j => /\ Nonce(i) <= Nonce(j)
                          /\ sealed[i].alone \/ sealed[j].alone => Nonce(i) < Nonce(j)
        /\ \A t \in Sealing : /\ Number(i) # Num(t)
                              /\ sealed[i].alone => Number(i) < Num(t)
                              /\ held[t].alone => Nonce(i) < Num(t)

NumberInv == conf.mode = "seq-num" => HeldNumbers /\ SealedNumbers

Packs  == {Pack(conf.mode, sealed[i].f) : i \in DOMAIN sealed}
Frames == {Frame(b) : b \in Packs}

\* Without a torn message, what is read and what is on the wire are the rest
\* of one packet, and whole frames.
FrameInv ==
    conf.prompt =>
        /\ rd.stage \notin {"ended", "dead"} /\ EveryPacketOpens
        /\ rd.stage = "header" => rd.got \o wire \in Streams(Frames)
        /\ rd.stage = "body" =>
              \E b \in Packs, r \in Streams(Frames) :
                  rd.got \o wire = b \o r /\ rd.size = Len(b) /\ Len(rd.got) <= Len(b)

\* The receiver expects no number but one it took, or the first.
ReplayInv ==
    /\ \A j \in DOMAIN seen : seen[j].msg \in DOMAIN sealed
    /\ conf.mode = "seq-num" /\ conf.resist =>
          /\ \A j \in Taken : Number(seen[j].msg) <= expected
          /\ \A j \in Taken : Number(seen[j].msg) = Nonce(seen[j].msg)
          /\ expected = First \/ \E j \in Taken : expected = Number(seen[j].msg)
    /\ OnceInOrder /\ LateForCause

ChannelInv ==
    TypeInv /\ SealInv /\ StampInv /\ OpenInv /\ NumberInv /\ FrameInv /\ ReplayInv

----------------------------------------------------------------------------
(* Facts about bytes, fields and frames. *)

LEMMA ByteFacts == {0, 1} \subseteq Bytes /\ Bytes \subseteq Nat
BY BaseAssumption DEF Bytes

LEMMA SixLength ==
    ASSUME NEW S, NEW h \in Seq(S), NEW r \in Seq(S), NEW n \in Seq(S),
           NEW c \in Seq(S), NEW m \in Seq(S), NEW x \in Seq(S)
    PROVE  /\ h \o r \o n \o c \o m \o x \in Seq(S)
           /\ Len(h \o r \o n \o c \o m \o x) =
                Len(h) + Len(r) + Len(n) + Len(c) + Len(m) + Len(x)
OBVIOUS

LEMMA PackLength ==
    ASSUME NEW mode, NEW f \in Fields(Bytes), NEW h \in Seq(Bytes), h = Header(mode, f)
    PROVE  /\ Pack(mode, f) \in Seq(Bytes)
           /\ Len(Pack(mode, f)) =
                Len(h) + Len(f.replay) + Len(f.nonce) + Len(f.cipher) + Len(f.mac) + Len(f.secret)
<1>1. /\ f.replay \in Seq(Bytes) /\ f.nonce \in Seq(Bytes) /\ f.cipher \in Seq(Bytes)
      /\ f.mac \in Seq(Bytes) /\ f.secret \in Seq(Bytes)
  BY DEF Fields
<1>2. Pack(mode, f) = h \o f.replay \o f.nonce \o f.cipher \o f.mac \o f.secret
  BY DEF Pack
<1>3. /\ h \o f.replay \o f.nonce \o f.cipher \o f.mac \o f.secret \in Seq(Bytes)
      /\ Len(h \o f.replay \o f.nonce \o f.cipher \o f.mac \o f.secret) =
           Len(h) + Len(f.replay) + Len(f.nonce) + Len(f.cipher) + Len(f.mac) + Len(f.secret)
  BY <1>1, SixLength DEF Fields
<1> QED BY <1>2, <1>3, Zenon

LEMMA PackFacts ==
    ASSUME NEW mode \in Modes, NEW f \in Fields(Bytes), Len(f.nonce) \in Bytes
    PROVE  /\ Pack(mode, f) \in Seq(Bytes)
           /\ Len(Pack(mode, f)) = HeaderLength(mode) + Len(f.replay) + Len(f.nonce)
                                     + Len(f.cipher) + Len(f.mac) + Len(f.secret)
<1>1. Header(mode, f) \in Seq(Bytes) /\ Len(Header(mode, f)) = HeaderLength(mode)
  BY ByteFacts, HeaderFacts
<1> QED BY <1>1, PackLength, Zenon

LEMMA FrameFacts ==
    ASSUME NEW b \in Seq(Bytes)
    PROVE  /\ Digits(Len(b), HeaderSize) \in Seq(Bytes) /\ Len(Digits(Len(b), HeaderSize)) = HeaderSize
           /\ Frame(b) = Digits(Len(b), HeaderSize) \o b /\ Frame(b) \in Seq(Bytes)
BY ChannelAssumption, DigitsType DEF Frame

LEMMA FitsBelow ==
    ASSUME NEW l, NEW q \in Nat, NEW hl \in Nat, NEW rl \in Nat, NEW nl \in Nat, NEW cl \in Nat,
           NEW ml \in Nat, NEW xl \in Nat, NEW n \in Nat, NEW d \in Nat, NEW x \in Nat,
           l = hl + rl + nl + cl + ml + xl, nl <= n, cl <= d + 1, xl <= x,
           hl + rl + ml + n + d + 1 + x < q
    PROVE  l < q
OBVIOUS

\* What NextFields puts together can be sent.
LEMMA NextFieldsFacts ==
    ASSUME TypeInv, NEW t \in Threads, ReplayFits(conf.mode, held[t].replay)
    PROVE  /\ NextFields(t) \in Fields(Bytes) /\ NextFields(t).replay = held[t].replay
           /\ Sendable(conf.mode, NextFields(t))
<1> DEFINE n == Len(sealed)
           f == NextFields(t)
           e == n % 2
<1>1. n \in Nat /\ e \in {0, 1} /\ conf.mode \in Modes /\ held[t].replay \in Seq(Bytes)
  BY DEF TypeInv, Hold
<1>2. /\ NonceSize \in Nat /\ NonceSize \in Bytes /\ DataSize \in Nat /\ MacSize \in Nat
      /\ SecretSize \in Nat \ {0} /\ TimestampSize \in Nat /\ SeqNumSize \in Nat
  BY ChannelAssumption, SizeAssumption, ByteFacts
<1> DEFINE c == Digits(n, DataSize + e)
           m == Digits(n, MacSize)
           o == Digits(n, NonceSize)
           x == [i \in 1 .. SecretSize |-> 1]
<1>3. /\ c \in Seq(Bytes) /\ Len(c) = DataSize + e /\ m \in Seq(Bytes) /\ Len(m) = MacSize
      /\ o \in Seq(Bytes) /\ Len(o) = NonceSize
  <2>1. DataSize + e \in Nat
    BY <1>1, <1>2
  <2> HIDE DEF n, e
  <2> QED BY <1>1, <1>2, <2>1, DigitsType, Zenon
<1>4. x \in Seq(Bytes) /\ Len(x) = SecretSize
  BY <1>2, ByteFacts
<1>5. f = [rekey |-> e, replay |-> held[t].replay,
           nonce |-> IF conf.mode = "timestamp" THEN o ELSE <<>>, cipher |-> c, mac |-> m,
           secret |-> IF e = 1 THEN x ELSE <<>>]
  BY DEF NextFields
<1> HIDE DEF c, m, o, x, e, n, f
<1>6. <<>> \in Seq(Bytes) /\ Len(<<>>) = 0
  OBVIOUS
<1>7. f \in Fields(Bytes)
  BY <1>1, <1>3, <1>4, <1>5, <1>6, ByteFacts DEF Fields
<1>8. /\ f.replay = held[t].replay /\ Len(f.replay) = ReplaySize(conf.mode)
      /\ Len(f.cipher) = DataSize + e /\ Len(f.mac) = MacSize
      /\ Len(f.nonce) = IF conf.mode = "timestamp" THEN NonceSize ELSE 0
      /\ conf.mode # "timestamp" => f.nonce = <<>>
      /\ Len(f.secret) = IF e = 1 THEN SecretSize ELSE 0
  BY <1>1, <1>3, <1>4, <1>5, <1>6 DEF ReplayFits
<1>9. Len(f.nonce) \in Bytes
  BY <1>2, <1>8, ByteFacts
<1>10. Packable(conf.mode, f)
  BY <1>1, <1>8 DEF Packable, Modes
<1>11. Len(Pack(conf.mode, f)) < Place[HeaderSize]
  <2>1. Len(Pack(conf.mode, f)) = HeaderLength(conf.mode) + Len(f.replay) + Len(f.nonce)
                                     + Len(f.cipher) + Len(f.mac) + Len(f.secret)
    BY <1>1, <1>7, <1>9, PackFacts
  <2>2. FixedSize(conf.mode) + NonceSize + DataSize + 1 + SecretSize < Place[HeaderSize]
    BY <1>1, ChannelAssumption
  <2>3. FixedSize(conf.mode) = HeaderLength(conf.mode) + ReplaySize(conf.mode) + MacSize
    BY DEF FixedSize
  <2>4. HeaderLength(conf.mode) \in Nat /\ ReplaySize(conf.mode) \in Nat /\ Place[HeaderSize] \in Nat
    BY <1>2, ChannelAssumption, PlaceFacts DEF HeaderLength, ReplaySize
  <2>5. /\ Len(f.replay) = ReplaySize(conf.mode)
        /\ Len(f.cipher) \in Nat /\ Len(f.cipher) <= DataSize + 1 /\ Len(f.mac) = MacSize
        /\ Len(f.nonce) \in Nat /\ Len(f.nonce) <= NonceSize
        /\ Len(f.secret) \in Nat /\ Len(f.secret) <= SecretSize
    BY <1>1, <1>2, <1>8
  <2> DEFINE l == Len(Pack(conf.mode, f))
             q == Place[HeaderSize]
             hl == HeaderLength(conf.mode)
             rl == ReplaySize(conf.mode)
             nl == Len(f.nonce)
             cl == Len(f.cipher)
             xl == Len(f.secret)
  <2>6. l = hl + rl + nl + cl + MacSize + xl
    BY <2>1, <2>5, Zenon
  <2>7. /\ nl \in Nat /\ nl <= NonceSize /\ cl \in Nat /\ cl <= DataSize + 1
        /\ xl \in Nat /\ xl <= SecretSize
        /\ hl + rl + MacSize + NonceSize + DataSize + 1 + SecretSize < q
        /\ q \in Nat /\ hl \in Nat /\ rl \in Nat
    <3>1. hl + rl + MacSize + NonceSize + DataSize + 1 + SecretSize < q
      BY <2>2, <2>3, Zenon
    <3> QED BY <2>4, <2>5, <3>1, Zenon
  <2> HIDE DEF l, q, hl, rl, nl, cl, xl
  <2>8. l < q
    BY <1>2, <2>6, <2>7, FitsBelow
  <2> QED BY <2>8 DEF l, q
<1> QED BY <1>7, <1>8, <1>9, <1>10, <1>11 DEF Sendable, f

\* The numbers of a connection fit into their bytes, and the client's are those
\* with the first bit.
LEMMA FirstFacts ==
    ASSUME conf.mode = "seq-num", conf.sender \in {"client", "server"}
    PROVE  /\ First \in Nat
           /\ \A i \in 0 .. MaxSent : First + i \in 0 .. Place[SeqNumSize] - 1
           /\ \A i \in 0 .. MaxSent : First + i >= ClientMask <=> conf.sender = "client"
<1>1. SeqNumSize \in Nat /\ MaxSent \in Nat
  BY SizeAssumption, ChannelBounds
<1>2. Place[SeqNumSize] \in Nat
  BY <1>1, PlaceFacts
<1>3. ClientMask \in Nat /\ ClientMask + ClientMask <= Place[SeqNumSize]
  BY <1>2 DEF ClientMask
<1>4. MaxSent < ClientMask
  BY ChannelBounds
<1> QED BY <1>1, <1>2, <1>3, <1>4 DEF First, FirstCounter

----------------------------------------------------------------------------
(* The initial states. *)

LEMMA StartInv == Init => ChannelInv
<1> SUFFICES ASSUME Init PROVE ChannelInv
  OBVIOUS
<1>1. <<>> \in Seq(Bytes) /\ Len(<<>>) = 0 /\ <<>> \o <<>> = <<>>
  OBVIOUS
<1>2. /\ MaxTicks \in Nat /\ MaxSkew \in Nat /\ MaxSkew <= MaxTicks
      /\ MaxSent \in Nat /\ ClientMask \in Nat
  BY SizeAssumption, ChannelBounds, PlaceFacts DEF ClientMask
<1>3. TypeInv
  <2>1. held \in [Threads -> Hold]
    BY <1>1 DEF Init, Idle, Hold
  <2>2. now \in MaxSkew .. MaxTicks
    BY <1>2 DEF Init
  <2> QED BY <1>1, <1>2, <2>1, <2>2 DEF Init, TypeInv, FirstCounter, Fresh, Stages
<1>4. DOMAIN sealed = {} /\ DOMAIN seen = {} /\ Len(sealed) = 0
  BY DEF Init
<1>5. \A t \in Threads : held[t] = Idle /\ held[t].at = 0 /\ held[t].alone
  BY DEF Init, Idle
<1>6. SealInv
  <2>1. Sealing = {}
    BY <1>5 DEF Sealing
  <2>2. Len(sealed) + Cardinality(Sealing) <= MaxSent
    BY <1>2, <1>4, <2>1, FS_EmptySet
  <2>3. 0 <= now
    BY <1>2 DEF Init
  <2> QED BY <1>4, <1>5, <2>2, <2>3 DEF SealInv
<1>7. StampInv /\ OpenInv
  BY <1>4, <1>5 DEF StampInv, OpenInv, Threads
<1>8. NumberInv
  <2>1. Sealing = {}
    BY <1>5 DEF Sealing
  <2>2. Cardinality(Sealing) = 0 /\ counter = First /\ First \in Nat
    BY <1>2, <2>1, FS_EmptySet DEF Init, First, FirstCounter
  <2>3. HeldNumbers
    BY <1>4, <2>1, <2>2 DEF HeldNumbers
  <2> QED BY <1>4, <2>3 DEF NumberInv, SealedNumbers
<1>9. FrameInv
  <2>1. rd.stage = "header" /\ rd.got \o wire = <<>> /\ outcome = "none"
    BY <1>1 DEF Init, Fresh
  <2> QED BY <2>1, StreamEmpty DEF FrameInv, EveryPacketOpens
<1>10. ReplayInv
  BY <1>4 DEF ReplayInv, OnceInOrder, LateForCause, Taken, First, Init
<1> QED BY <1>3, <1>6, <1>7, <1>8, <1>9, <1>10 DEF ChannelInv

----------------------------------------------------------------------------
(* The types are kept. *)

LEMMA SealedType ==
    ASSUME TypeInv, NEW i \in DOMAIN sealed
    PROVE  /\ i \in 1 .. Len(sealed) /\ i \in Nat
           /\ sealed[i].f \in Fields(Bytes) /\ sealed[i].f.replay \in Seq(Bytes)
           /\ sealed[i].nonce \in Seq(Bytes) /\ sealed[i].at \in Nat /\ sealed[i].alone \in BOOLEAN
<1>1. sealed \in Seq(Packet)
  BY DEF TypeInv
<1>2. i \in 1 .. Len(sealed) /\ sealed[i] \in Packet /\ i \in Nat
  BY <1>1, LenProperties
<1>3. /\ sealed[i].f \in Fields(Bytes) /\ sealed[i].nonce \in Seq(Bytes)
      /\ sealed[i].at \in Nat /\ sealed[i].alone \in BOOLEAN
  BY <1>2 DEF Packet
<1>4. sealed[i].f.replay \in Seq(Bytes)
  BY <1>3 DEF Fields
<1> QED BY <1>2, <1>3, <1>4

LEMMA Cut ==
    ASSUME NEW s \in Seq(Bytes), NEW k \in 1 .. Len(s)
    PROVE  /\ SubSeq(s, 1, k) \in Seq(Bytes) /\ Len(SubSeq(s, 1, k)) = k
           /\ SubSeq(s, k + 1, Len(s)) \in Seq(Bytes)
           /\ SubSeq(s, 1, k) \o SubSeq(s, k + 1, Len(s)) = s
OBVIOUS

LEMMA TypeStep ==
    ASSUME ChannelInv, [Next]_vars
    PROVE  TypeInv'
<1>1. TypeInv
  BY DEF ChannelInv
<1> DEFINE Reader == [stage : Stages, got : Seq(Bytes), size : Nat]
<1>0. /\ rd \in Reader /\ Fresh \in Reader
      /\ \A stage \in Stages : [Fresh EXCEPT !.stage = stage] \in Reader
  <2>1. <<>> \in Seq(Bytes)
    OBVIOUS
  <2>2. Fresh \in Reader /\ \A stage \in Stages : [Fresh EXCEPT !.stage = stage] \in Reader
    BY <2>1 DEF Fresh, Stages
  <2> QED BY <1>1, <2>2 DEF TypeInv
<1>2. /\ MaxTicks \in Nat /\ SeqNumSize \in Nat /\ TimestampSize \in Nat /\ Second \in Nat \ {0}
      /\ now \in Nat /\ MaxSkew \in Nat
  BY <1>1, SizeAssumption, ChannelAssumption, ChannelBounds DEF TypeInv
<1>3. ASSUME NEW t \in Threads, GetReplayData(t)
      PROVE  TypeInv'
  <2>1. counter' \in Nat
    BY <1>1, <1>3 DEF GetReplayData, TypeInv
  <2>2. now \div Second \in Nat
    BY <1>2, Division
  <2>3. Digits(counter', SeqNumSize) \in Seq(Bytes) /\ Digits(now \div Second, TimestampSize) \in Seq(Bytes)
    BY <1>2, <2>1, <2>2, DigitsType
  <2>4. held' \in [Threads -> Hold]
    BY <1>1, <1>2, <1>3, <2>3 DEF GetReplayData, TypeInv, Hold
  <2> QED BY <1>1, <1>3, <2>1, <2>4 DEF GetReplayData, TypeInv
<1>4. ASSUME NEW t \in Threads, Seal(t)
      PROVE  TypeInv'
  <2> DEFINE f == NextFields(t)
  <2>1. ReplayFits(conf.mode, held[t].replay)
    BY <1>4 DEF ChannelInv, SealInv, Seal
  <2>2. f \in Fields(Bytes) /\ Sendable(conf.mode, f)
    BY <1>1, <2>1, NextFieldsFacts
  <2>3. CipherNonce(f) \in Seq(Bytes)
    <3>1. Digits(counter, SeqNumSize) \in Seq(Bytes)
      BY <1>1, <1>2, DigitsType DEF TypeInv
    <3> QED BY <2>2, <3>1 DEF CipherNonce, Fields
  <2>4. Frame(Pack(conf.mode, f)) \in Seq(Bytes)
    BY <1>1, <2>2, PackFacts, FrameFacts DEF Sendable, TypeInv
  <2> HIDE DEF f
  <2>5. [f |-> f, nonce |-> CipherNonce(f), at |-> held[t].at, by |-> t,
         alone |-> held[t].alone] \in Packet
    BY <1>1, <2>2, <2>3 DEF TypeInv, Packet, Hold
  <2>6. sealed' \in Seq(Packet)
    BY <1>1, <1>4, <2>5 DEF TypeInv, Seal, f
  <2>7. wire' \in Seq(Bytes)
    BY <1>1, <1>4, <2>4 DEF TypeInv, Seal, f
  <2>8. held' \in [Threads -> Hold]
    BY <1>1, <1>4 DEF TypeInv, Seal, Idle, Hold
  <2> QED BY <1>1, <1>4, <2>6, <2>7, <2>8 DEF Seal, TypeInv
<1>5. CASE Repeat
  <2>1. PICK i \in DOMAIN sealed : wire' = wire \o Frame(Pack(conf.mode, sealed[i].f))
    BY <1>5 DEF Repeat
  <2>2. Sendable(conf.mode, sealed[i].f)
    BY DEF ChannelInv, SealInv
  <2>3. sealed[i].f \in Fields(Bytes)
    BY <1>1, SealedType
  <2>4. Frame(Pack(conf.mode, sealed[i].f)) \in Seq(Bytes)
    BY <1>1, <2>2, <2>3, PackFacts, FrameFacts DEF Sendable, TypeInv
  <2>5. wire' \in Seq(Bytes)
    BY <1>1, <2>1, <2>4 DEF TypeInv
  <2> QED BY <1>1, <1>5, <2>5 DEF Repeat, TypeInv
<1>6. CASE Tick
  BY <1>1, <1>2, <1>6 DEF Tick, TypeInv
<1>7. CASE TimesOut \/ Close
  <2>1. rd' \in Reader
    BY <1>0, <1>7 DEF TimesOut, Close, Stages
  <2>2. wire' \in Seq(Bytes)
    <3>1. <<>> \in Seq(Bytes) /\ wire \in Seq(Bytes)
      BY <1>1 DEF TypeInv
    <3> QED BY <1>7, <3>1 DEF TimesOut, Close
  <2> QED BY <1>1, <1>7, <2>1, <2>2 DEF TimesOut, Close, TypeInv
<1>8. CASE RecvSegment
  <2>1. PICK k \in 1 .. Len(wire) : /\ rd' = [rd EXCEPT !.got = @ \o SubSeq(wire, 1, k)]
                                    /\ wire' = SubSeq(wire, k + 1, Len(wire))
    BY <1>8 DEF RecvSegment
  <2>2. SubSeq(wire, 1, k) \in Seq(Bytes) /\ wire' \in Seq(Bytes)
    BY <1>1, <2>1, Cut DEF TypeInv
  <2>3. rd.got \o SubSeq(wire, 1, k) \in Seq(Bytes)
    BY <1>0, <2>2
  <2>4. rd' \in Reader
    BY <1>0, <2>1, <2>3
  <2> QED BY <1>1, <1>8, <2>2, <2>4 DEF RecvSegment, TypeInv
<1>9. CASE ReadSize
  <2>1. Value(rd.got) \in Nat
    <3>1. rd.got \in Seq(Bytes)
      BY <1>1 DEF TypeInv
    <3>2. Place[Len(rd.got)] \in Nat
      BY <3>1, PlaceFacts
    <3>3. Value(rd.got) \in 0 .. Place[Len(rd.got)] - 1
      BY <3>1, NumbersKeepBytes
    <3> QED BY <3>2, <3>3
  <2> QED BY <1>1, <1>9, <2>1 DEF ReadSize, TypeInv, Stages
<1>10. CASE ReadNothing \/ OpenMalformed \/ OpenFails
  <2>1. rd' \in Reader
    BY <1>0, <1>10 DEF ReadNothing, OpenMalformed, OpenFails, MessageRead, Stages
  <2>2. wire' \in Seq(Bytes)
    BY <1>1, <1>10 DEF ReadNothing, OpenMalformed, OpenFails, MessageRead, TypeInv
  <2> QED
    BY <1>1, <1>10, <2>1, <2>2 DEF ReadNothing, OpenMalformed, OpenFails, MessageRead, TypeInv
<1>11. CASE OpenTooLate \/ Open
  <2>1. PICK i \in Opens, b \in BOOLEAN : seen' = Append(seen, [msg |-> i, at |-> now, taken |-> b])
    BY <1>11 DEF OpenTooLate, Open
  <2>2. i \in DOMAIN sealed /\ sealed[i].f = Read
    BY DEF Opens
  <2>3. i \in Nat /\ Read.replay \in Seq(Bytes)
    BY <1>1, <2>2, SealedType, Zenon
  <2>4. Value(Read.replay) \in Nat
    <3> DEFINE r == Read.replay
    <3>1. r \in Seq(Bytes)
      BY <2>3
    <3> HIDE DEF r
    <3>2. Len(r) \in Nat /\ Place[Len(r)] \in Nat
      BY <3>1, PlaceFacts
    <3>3. Value(r) \in 0 .. Place[Len(r)] - 1
      BY <3>1, NumbersKeepBytes
    <3>4. Value(r) \in Nat
      BY <3>2, <3>3
    <3> QED BY <3>4 DEF r
  <2>5. seen' \in Seq(Look)
    BY <1>1, <1>2, <2>1, <2>3 DEF TypeInv, Look
  <2>6. expected' \in Nat
    BY <1>1, <1>11, <2>4 DEF TypeInv, OpenTooLate, Open
  <2>7. rd' \in Reader
    BY <1>0, <1>11 DEF OpenTooLate, Open, MessageRead
  <2> QED
    BY <1>1, <1>11, <2>5, <2>6, <2>7 DEF OpenTooLate, Open, MessageRead, TypeInv
<1>12. CASE UNCHANGED vars
  BY <1>1, <1>12 DEF vars, TypeInv
<1> QED
  BY <1>3, <1>4, <1>5, <1>6, <1>7, <1>8, <1>9, <1>10, <1>11, <1>12 DEF Next, Receive

----------------------------------------------------------------------------
(* The sender's side. *)

\* Only these two actions change what the sender has.
Rests == UNCHANGED <<counter, held, sealed>>

LEMMA SenderMoves ==
    ASSUME [Next]_vars
    PROVE  /\ conf' = conf
           /\ (\E t \in Threads : GetReplayData(t)) \/ (\E t \in Threads : Seal(t)) \/ Rests
BY DEF Next, vars, Rests, GetReplayData, Seal, Repeat, Tick, TimesOut, Receive, RecvSegment, ReadSize,
       ReadNothing, OpenMalformed, OpenFails, OpenTooLate, Open, MessageRead, Close

LEMMA ClockMoves ==
    ASSUME TypeInv, [Next]_vars
    PROVE  now \in Nat /\ now' \in Nat /\ now <= now'
<1>1. now \in Nat
  BY ChannelBounds DEF TypeInv
<1>2. now' = now \/ now' = now + 1
  BY DEF Next, vars, GetReplayData, Seal, Repeat, Tick, TimesOut, Receive, RecvSegment, ReadSize,
         ReadNothing, OpenMalformed, OpenFails, OpenTooLate, Open, MessageRead, Close
<1> QED BY <1>1, <1>2

\* A packet appended to those sealed.
LEMMA SealedGrows ==
    ASSUME TypeInv, NEW t \in Threads, Seal(t)
    PROVE  /\ Len(sealed) \in Nat /\ Len(sealed') = Len(sealed) + 1
           /\ DOMAIN sealed' = DOMAIN sealed \cup {Len(sealed) + 1}
           /\ \A i \in DOMAIN sealed : sealed'[i] = sealed[i]
           /\ sealed'[Len(sealed) + 1].f = NextFields(t)
           /\ sealed'[Len(sealed) + 1].nonce = CipherNonce(NextFields(t))
           /\ sealed'[Len(sealed) + 1].at = held[t].at
           /\ sealed'[Len(sealed) + 1].alone = held[t].alone
           /\ held'[t] = Idle /\ \A u \in Threads \ {t} : held'[u] = held[u]
<1>1. sealed \in Seq(Packet) /\ held \in [Threads -> Hold]
  BY DEF TypeInv
<1> DEFINE p == [f |-> NextFields(t), nonce |-> CipherNonce(NextFields(t)), at |-> held[t].at,
                 by |-> t, alone |-> held[t].alone]
<1>2. sealed' = Append(sealed, p) /\ held' = [held EXCEPT ![t] = Idle]
  BY DEF Seal
<1> HIDE DEF p
<1>3. /\ Len(sealed) \in Nat /\ Len(sealed') = Len(sealed) + 1
      /\ DOMAIN sealed' = 1 .. Len(sealed) + 1 /\ DOMAIN sealed = 1 .. Len(sealed)
      /\ \A i \in 1 .. Len(sealed) : sealed'[i] = sealed[i]
      /\ sealed'[Len(sealed) + 1] = p
  BY <1>1, <1>2
<1>4. 1 .. Len(sealed) + 1 = 1 .. Len(sealed) \cup {Len(sealed) + 1}
  BY <1>3
<1>5. /\ p.f = NextFields(t) /\ p.nonce = CipherNonce(NextFields(t)) /\ p.at = held[t].at
      /\ p.alone = held[t].alone
  BY DEF p
<1> QED BY <1>1, <1>2, <1>3, <1>4, <1>5

LEMMA HoldFields ==
    ASSUME NEW x, NEW r, NEW a, NEW b \in BOOLEAN, x = [replay |-> r, at |-> a, alone |-> b]
    PROVE  x.replay = r /\ x.at = a /\ (x.alone <=> b)
OBVIOUS

\* Replay data is as long as the mode wants it, and never empty.
LEMMA ReplayDataFacts ==
    ASSUME ChannelInv, NEW t \in Threads, GetReplayData(t), conf' = conf
    PROVE  /\ \A u \in Threads \ {t} : /\ held'[u].replay = held[u].replay /\ held'[u].at = held[u].at
                                       /\ held'[u].alone <=> u \notin Sealing
                                       /\ held[u] = Idle => held'[u] = Idle
           /\ Sealing' = Sealing \cup {t} /\ t \notin Sealing /\ (held'[t].alone <=> Sealing = {})
           /\ held'[t].at = now /\ ReplayFits(conf.mode, held'[t].replay)
           /\ held'[t].replay = IF conf.mode = "seq-num" THEN Digits(counter', SeqNumSize)
                                ELSE Digits(now \div Second, TimestampSize)
<1>1. TypeInv
  BY DEF ChannelInv
<1> DEFINE r == IF conf.mode = "seq-num" THEN Digits(counter', SeqNumSize)
                ELSE Digits(now \div Second, TimestampSize)
<1>2. /\ SeqNumSize \in Nat /\ TimestampSize \in Nat /\ SeqNumSize > 0 /\ TimestampSize > 0
      /\ now \in Nat /\ Second \in Nat \ {0} /\ conf.mode \in Modes
  BY <1>1, SizeAssumption, ChannelAssumption, ChannelBounds DEF TypeInv
<1>3. counter' \in Nat /\ now \div Second \in Nat
  <2>1. now \div Second \in Nat
    BY <1>2, Division
  <2> QED BY <1>1, <2>1 DEF TypeInv, GetReplayData
<1>4. /\ Len(Digits(counter', SeqNumSize)) = SeqNumSize
      /\ Len(Digits(now \div Second, TimestampSize)) = TimestampSize
  BY <1>2, <1>3, DigitsType
<1>5. Len(r) = ReplaySize(conf.mode) /\ ReplaySize(conf.mode) > 0
  BY <1>2, <1>4 DEF ReplaySize, Modes
<1>6. /\ held' = [u \in Threads |-> IF u # t THEN [held[u] EXCEPT !.alone = u \notin Sealing]
                                     ELSE [replay |-> r, at |-> now, alone |-> Sealing = {}]]
      /\ held[t] = Idle
  BY DEF GetReplayData, MaySeal
<1> HIDE DEF r
<1>7. held'[t] = [replay |-> r, at |-> now, alone |-> Sealing = {}]
  BY <1>6
<1>8. r # <<>>
  BY <1>5
<1>9. /\ held'[t] # Idle /\ held'[t].at = now /\ held'[t].replay = r
      /\ held'[t].alone <=> Sealing = {}
  <2>1. /\ held'[t].at = now /\ held'[t].replay = r
        /\ held'[t].alone <=> Sealing = {}
    <3> DEFINE b == Sealing = {}
    <3>1. b \in BOOLEAN /\ held'[t] = [replay |-> r, at |-> now, alone |-> b]
      BY <1>7
    <3> HIDE DEF b
    <3>2. held'[t].replay = r /\ held'[t].at = now /\ (held'[t].alone <=> b)
      BY <3>1, HoldFields
    <3> QED BY <3>2 DEF b
  <2>2. Idle.replay = <<>>
    BY DEF Idle
  <2> QED BY <1>8, <2>1, <2>2, Zenon
<1>10. ASSUME NEW u \in Threads \ {t}
       PROVE  /\ held'[u].replay = held[u].replay /\ held'[u].at = held[u].at
              /\ held'[u].alone <=> u \notin Sealing
              /\ held[u] = Idle => held'[u] = Idle
  <2>1. held[u] \in Hold
    BY <1>1 DEF TypeInv
  <2>2. held'[u] = [replay |-> held[u].replay, at |-> held[u].at, alone |-> u \notin Sealing]
    BY <1>6, <2>1 DEF Hold
  <2>3. /\ held'[u].replay = held[u].replay /\ held'[u].at = held[u].at
        /\ held'[u].alone <=> u \notin Sealing
    <3> DEFINE b == u \notin Sealing
    <3>1. /\ b \in BOOLEAN
          /\ held'[u] = [replay |-> held[u].replay, at |-> held[u].at, alone |-> b]
      BY <2>2
    <3> HIDE DEF b
    <3>2. /\ held'[u].replay = held[u].replay /\ held'[u].at = held[u].at
          /\ held'[u].alone <=> b
      BY <3>1, HoldFields
    <3> QED BY <3>2 DEF b
  <2>4. ASSUME held[u] = Idle PROVE held'[u] = Idle
    <3>1. (u \notin Sealing) = TRUE
      BY <2>4 DEF Sealing
    <3>2. held'[u] = [replay |-> held[u].replay, at |-> held[u].at, alone |-> TRUE]
      BY <2>2, <3>1, Zenon
    <3> QED BY <2>4, <3>2 DEF Idle
  <2> QED BY <2>3, <2>4
<1>11. \A u \in Threads \ {t} : u \in Sealing => held'[u] # Idle
  BY <1>10 DEF Idle
<1>12. Sealing' = Sealing \cup {t} /\ t \notin Sealing
  BY <1>6, <1>9, <1>10, <1>11 DEF Sealing
<1> QED BY <1>5, <1>9, <1>10, <1>12 DEF ReplayFits, r

LEMMA SealingFinite == IsFiniteSet(Sealing) /\ Cardinality(Sealing) \in Nat
<1>1. IsFiniteSet({"forward"})
  BY FS_Singleton
<1>2. Threads = {"forward"} \cup {"reset"}
  BY DEF Threads
<1>3. IsFiniteSet(Threads)
  BY <1>1, <1>2, FS_AddElement
<1>4. Sealing \subseteq Threads
  BY DEF Sealing
<1> QED BY <1>3, <1>4, FS_Subset, FS_CardinalityType

LEMMA SealStep ==
    ASSUME ChannelInv, [Next]_vars
    PROVE  SealInv'
<1>1. TypeInv /\ SealInv
  BY DEF ChannelInv
<1>2. conf' = conf
  BY SenderMoves
<1>3. now \in Nat /\ now' \in Nat /\ now <= now'
  BY <1>1, ClockMoves
<1>4. IsFiniteSet(Sealing) /\ Cardinality(Sealing) \in Nat /\ Len(sealed) \in Nat /\ MaxSent \in Nat
  BY <1>1, SealingFinite, ChannelBounds DEF TypeInv
<1>5. \A t \in Threads : held[t].at \in Nat
  BY <1>1 DEF TypeInv, Hold
<1>6. \A t \in Threads : /\ held[t].at <= now'
                         /\ held[t] # Idle => ReplayFits(conf'.mode, held[t].replay)
  <2>1. \A t \in Threads : /\ held[t].at <= now
                           /\ held[t] # Idle => ReplayFits(conf.mode, held[t].replay)
    BY <1>1 DEF SealInv
  <2> QED BY <1>2, <1>3, <1>5, <2>1
<1>7. \A i \in DOMAIN sealed : sealed[i].at <= now' /\ Sendable(conf'.mode, sealed[i].f)
  <2> SUFFICES ASSUME NEW i \in DOMAIN sealed
               PROVE  sealed[i].at <= now' /\ Sendable(conf'.mode, sealed[i].f)
    OBVIOUS
  <2>1. sealed[i].at \in Nat /\ sealed[i].at <= now /\ Sendable(conf.mode, sealed[i].f)
    BY <1>1, SealedType DEF SealInv
  <2> QED BY <1>2, <1>3, <2>1
<1>8. ASSUME NEW t \in Threads, GetReplayData(t)
      PROVE  SealInv'
  <2>1. sealed' = sealed /\ now' = now /\ Len(sealed) + Cardinality(Sealing) < MaxSent
    BY <1>8 DEF GetReplayData, MaySeal
  <2>2. /\ \A u \in Threads \ {t} : /\ held'[u].replay = held[u].replay /\ held'[u].at = held[u].at
                                    /\ held[u] = Idle => held'[u] = Idle
        /\ held'[t].at = now /\ ReplayFits(conf.mode, held'[t].replay)
    BY <1>2, <1>8, ReplayDataFacts
  <2>3. Sealing' = Sealing \cup {t} /\ t \notin Sealing
    BY <1>2, <1>8, ReplayDataFacts
  <2>4. Cardinality(Sealing') = Cardinality(Sealing) + 1
    BY <1>4, <2>3, FS_AddElement
  <2>5. Len(sealed') + Cardinality(Sealing') <= MaxSent
    BY <1>4, <2>1, <2>4
  <2>6. \A u \in Threads : /\ held'[u].at <= now'
                           /\ held'[u] # Idle => ReplayFits(conf'.mode, held'[u].replay)
    <3> SUFFICES ASSUME NEW u \in Threads
                 PROVE  /\ held'[u].at <= now'
                        /\ held'[u] # Idle => ReplayFits(conf'.mode, held'[u].replay)
      OBVIOUS
    <3>1. CASE u = t
      BY <1>2, <1>3, <2>1, <2>2, <3>1
    <3>2. CASE u # t
      BY <1>6, <2>2, <3>2
    <3> QED BY <3>1, <3>2
  <2> QED BY <1>7, <2>1, <2>5, <2>6 DEF SealInv
<1>9. ASSUME NEW t \in Threads, Seal(t)
      PROVE  SealInv'
  <2>1. held[t] # Idle /\ now' = now
    BY <1>9 DEF Seal
  <2>2. /\ Len(sealed') = Len(sealed) + 1
        /\ DOMAIN sealed' = DOMAIN sealed \cup {Len(sealed) + 1}
        /\ \A i \in DOMAIN sealed : sealed'[i] = sealed[i]
        /\ sealed'[Len(sealed) + 1].f = NextFields(t) /\ sealed'[Len(sealed) + 1].at = held[t].at
        /\ held'[t] = Idle /\ \A u \in Threads \ {t} : held'[u] = held[u]
    BY <1>1, <1>9, SealedGrows, Zenon
  <2>3. Sealing' = Sealing \ {t} /\ t \in Sealing
    BY <2>1, <2>2 DEF Sealing
  <2>4. Cardinality(Sealing') = Cardinality(Sealing) - 1
    BY <1>4, <2>3, FS_RemoveElement
  <2>5. Len(sealed') + Cardinality(Sealing') <= MaxSent
    <3>1. Len(sealed) + Cardinality(Sealing) <= MaxSent
      BY <1>1 DEF SealInv
    <3> QED BY <1>4, <2>2, <2>4, <3>1
  <2>6. Sendable(conf.mode, NextFields(t)) /\ held[t].at <= now'
    BY <1>1, <1>6, <2>1, NextFieldsFacts DEF SealInv
  <2>7. \A i \in DOMAIN sealed' : sealed'[i].at <= now' /\ Sendable(conf'.mode, sealed'[i].f)
    BY <1>2, <1>7, <2>2, <2>6
  <2>8. Idle.at <= now'
    BY <1>3 DEF Idle
  <2>9. \A u \in Threads : /\ held'[u].at <= now'
                           /\ held'[u] # Idle => ReplayFits(conf'.mode, held'[u].replay)
    BY <1>6, <2>2, <2>8
  <2> QED BY <2>5, <2>7, <2>9 DEF SealInv
<1>10. CASE Rests
  <2>1. sealed' = sealed /\ held' = held /\ Sealing' = Sealing
    BY <1>10 DEF Rests, Sealing
  <2>2. Len(sealed) + Cardinality(Sealing) <= MaxSent
    BY <1>1 DEF SealInv
  <2> QED BY <1>6, <1>7, <2>1, <2>2 DEF SealInv
<1> QED BY <1>8, <1>9, <1>10, SenderMoves

LEMMA StampStep ==
    ASSUME ChannelInv, [Next]_vars
    PROVE  StampInv'
<1> SUFFICES ASSUME conf.mode = "timestamp" PROVE StampInv'
  BY SenderMoves DEF StampInv
<1>1. TypeInv /\ conf' = conf
  BY SenderMoves DEF ChannelInv
<1>2. /\ \A t \in Threads :
            held[t] # Idle => held[t].replay = Digits(held[t].at \div Second, TimestampSize)
      /\ \A i \in DOMAIN sealed :
            /\ sealed[i].f.replay = Digits(sealed[i].at \div Second, TimestampSize)
            /\ sealed[i].nonce = sealed[i].f.nonce
  BY DEF ChannelInv, StampInv
<1>3. ASSUME NEW t \in Threads, GetReplayData(t)
      PROVE  StampInv'
  <2>1. /\ \A u \in Threads \ {t} : /\ held'[u].replay = held[u].replay /\ held'[u].at = held[u].at
                                    /\ held[u] = Idle => held'[u] = Idle
        /\ held'[t].at = now /\ held'[t].replay = Digits(now \div Second, TimestampSize)
    BY <1>1, <1>3, ReplayDataFacts
  <2>2. sealed' = sealed
    BY <1>3 DEF GetReplayData
  <2>3. \A u \in Threads :
          held'[u] # Idle => held'[u].replay = Digits(held'[u].at \div Second, TimestampSize)
    BY <1>2, <2>1
  <2> QED BY <1>2, <2>2, <2>3 DEF StampInv
<1>4. ASSUME NEW t \in Threads, Seal(t)
      PROVE  StampInv'
  <2>1. /\ DOMAIN sealed' = DOMAIN sealed \cup {Len(sealed) + 1}
        /\ \A i \in DOMAIN sealed : sealed'[i] = sealed[i]
        /\ sealed'[Len(sealed) + 1].f = NextFields(t)
        /\ sealed'[Len(sealed) + 1].nonce = CipherNonce(NextFields(t))
        /\ sealed'[Len(sealed) + 1].at = held[t].at
        /\ held'[t] = Idle /\ \A u \in Threads \ {t} : held'[u] = held[u]
    BY <1>1, <1>4, SealedGrows, Zenon
  <2>2. NextFields(t).replay = held[t].replay /\ held[t] # Idle
    BY <1>4 DEF NextFields, Seal
  <2>3. CipherNonce(NextFields(t)) = NextFields(t).nonce
    BY DEF CipherNonce
  <2>4. \A u \in Threads :
          held'[u] # Idle => held'[u].replay = Digits(held'[u].at \div Second, TimestampSize)
    BY <1>2, <2>1
  <2>5. \A i \in DOMAIN sealed' :
            /\ sealed'[i].f.replay = Digits(sealed'[i].at \div Second, TimestampSize)
            /\ sealed'[i].nonce = sealed'[i].f.nonce
    BY <1>2, <2>1, <2>2, <2>3
  <2> QED BY <2>4, <2>5 DEF StampInv
<1>5. CASE Rests
  BY <1>2, <1>5 DEF Rests, StampInv
<1> QED BY <1>3, <1>4, <1>5, SenderMoves

\* A connection that is closed stays so.
LEMMA ClosedStays ==
    ASSUME TypeInv, [Next]_vars, Closed
    PROVE  Closed'
<1>1. rd \in [stage : Stages, got : Seq(Bytes), size : Nat]
  BY DEF TypeInv
<1>2. Len(rd.got) \in Nat
  BY <1>1
<1>3. Missing <= 0
  BY <1>2 DEF Closed, Missing, Wanted
<1>4. CASE RecvSegment
  <2>1. PICK k \in 1 .. Len(wire) : k <= Missing
    BY <1>4 DEF RecvSegment
  <2> QED BY <1>2, <1>3, <2>1 DEF Missing, Wanted, Closed
<1>5. CASE TimesOut
  BY <1>2, <1>3, <1>5 DEF TimesOut, Missing, Wanted, Closed
<1>6. CASE ReadSize \/ ReadNothing \/ OpenMalformed \/ OpenFails \/ OpenTooLate \/ Open \/ Close
  BY <1>6 DEF ReadSize, ReadNothing, OpenMalformed, OpenFails, OpenTooLate, Open, MessageRead, Close,
              HasRead, Closed
<1>7. CASE UNCHANGED rd
  BY <1>7 DEF Closed
<1> QED
  BY <1>4, <1>5, <1>6, <1>7 DEF Next, Receive, GetReplayData, Seal, Repeat, Tick, vars

LEMMA OpenStep ==
    ASSUME ChannelInv, [Next]_vars
    PROVE  OpenInv'
<1> SUFFICES ASSUME conf.prompt, ~Closed' PROVE OpenInv'
  BY SenderMoves DEF OpenInv
<1>1. TypeInv /\ ~Closed
  BY ClosedStays DEF ChannelInv
<1>2. /\ held["reset"] = Idle /\ held["forward"].alone
      /\ \A i \in DOMAIN sealed : sealed[i].alone
  BY <1>1 DEF ChannelInv, OpenInv
<1>3. ASSUME NEW t \in Threads, GetReplayData(t)
      PROVE  OpenInv'
  <2>1. t = "forward" /\ sealed' = sealed /\ held[t] = Idle
    BY <1>1, <1>3 DEF GetReplayData, MaySeal, Threads
  <2>2. Sealing = {}
    BY <1>2, <2>1 DEF Sealing, Threads
  <2>3. held'["reset"] = Idle /\ held'["forward"].alone
    BY <1>2, <1>3, <2>1, <2>2, SenderMoves, ReplayDataFacts DEF Threads
  <2> QED BY <1>2, <2>1, <2>3 DEF OpenInv
<1>4. ASSUME NEW t \in Threads, Seal(t)
      PROVE  OpenInv'
  <2>1. t = "forward"
    BY <1>2, <1>4 DEF Seal, Threads
  <2>2. /\ DOMAIN sealed' = DOMAIN sealed \cup {Len(sealed) + 1}
        /\ \A i \in DOMAIN sealed : sealed'[i] = sealed[i]
        /\ sealed'[Len(sealed) + 1].alone = held[t].alone
        /\ held'[t] = Idle /\ \A u \in Threads \ {t} : held'[u] = held[u]
    BY <1>1, <1>4, SealedGrows, Zenon
  <2>3. held'["reset"] = Idle /\ held'["forward"].alone
    BY <1>2, <2>1, <2>2 DEF Threads, Idle
  <2>4. \A i \in DOMAIN sealed' : sealed'[i].alone
    BY <1>2, <2>1, <2>2
  <2> QED BY <2>3, <2>4 DEF OpenInv
<1>5. CASE Rests
  BY <1>2, <1>5 DEF Rests, OpenInv
<1> QED BY <1>3, <1>4, <1>5, SenderMoves

\* The numbers of a connection fit into their bytes.
LEMMA NumberFacts ==
    ASSUME ChannelInv, conf.mode = "seq-num"
    PROVE  /\ First \in Nat /\ counter \in Nat /\ First <= counter /\ counter <= First + MaxSent
           /\ \A n \in First .. counter : n \in 0 .. Place[SeqNumSize] - 1
           /\ \A t \in Sealing : Num(t) \in Nat /\ Digits(Num(t), SeqNumSize) = held[t].replay
           /\ \A i \in DOMAIN sealed :
                 Number(i) \in Nat /\ Nonce(i) \in Nat /\ Digits(Number(i), SeqNumSize) = sealed[i].f.replay
<1>1. TypeInv /\ SealInv /\ HeldNumbers /\ SealedNumbers
  BY DEF ChannelInv, NumberInv
<1>2. /\ First \in Nat /\ MaxSent \in Nat
      /\ \A i \in 0 .. MaxSent : First + i \in 0 .. Place[SeqNumSize] - 1
  BY <1>1, FirstFacts, ChannelBounds DEF TypeInv
<1>3. First <= counter /\ counter <= First + MaxSent /\ counter \in Nat
  <2>1. Len(sealed) \in Nat /\ Cardinality(Sealing) \in Nat
    BY <1>1, SealingFinite DEF TypeInv
  <2>2. Len(sealed) + Cardinality(Sealing) <= MaxSent
    BY <1>1 DEF SealInv
  <2>3. counter = First + Len(sealed) + Cardinality(Sealing)
    BY <1>1 DEF HeldNumbers
  <2> QED BY <1>2, <2>1, <2>2, <2>3
<1>4. \A n \in First .. counter : n \in 0 .. Place[SeqNumSize] - 1
  <2> SUFFICES ASSUME NEW n \in First .. counter PROVE n \in 0 .. Place[SeqNumSize] - 1
    OBVIOUS
  <2>1. n - First \in 0 .. MaxSent /\ n = First + (n - First)
    BY <1>2, <1>3
  <2> QED BY <1>2, <2>1, Zenon
<1>5. Numbers \subseteq Nat
  BY <1>2, <1>3 DEF Numbers
<1>6. ASSUME NEW t \in Sealing
      PROVE  Num(t) \in Nat /\ Digits(Num(t), SeqNumSize) = held[t].replay
  <2>1. held[t].replay \in Seq(Bytes) /\ Len(held[t].replay) = SeqNumSize
    BY <1>1 DEF Sealing, SealInv, ReplayFits, ReplaySize, TypeInv, Hold
  <2> QED BY <1>1, <1>5, <2>1, NumbersKeepBytes DEF HeldNumbers, Num
<1>7. ASSUME NEW i \in DOMAIN sealed
      PROVE  Number(i) \in Nat /\ Nonce(i) \in Nat /\ Digits(Number(i), SeqNumSize) = sealed[i].f.replay
  <2>1. sealed[i].f.replay \in Seq(Bytes)
    BY <1>1, SealedType
  <2>2. Len(sealed[i].f.replay) = SeqNumSize
    BY <1>1 DEF SealInv, Sendable, Packable, ReplaySize
  <2> QED BY <1>1, <1>5, <2>1, <2>2, NumbersKeepBytes DEF SealedNumbers, Number
<1> QED BY <1>2, <1>3, <1>4, <1>6, <1>7

\* A thread gets the number after all others.
LEMMA NumberIsGiven ==
    ASSUME ChannelInv, [Next]_vars, conf.mode = "seq-num", NEW t \in Threads, GetReplayData(t)
    PROVE  HeldNumbers' /\ SealedNumbers'
<1>1. TypeInv /\ SealInv /\ HeldNumbers /\ SealedNumbers /\ conf' = conf /\ First' = First
  BY SenderMoves DEF ChannelInv, NumberInv, First
<1>2. /\ First \in Nat /\ counter \in Nat /\ First <= counter
      /\ \A u \in Sealing : Num(u) \in Nat
      /\ \A i \in DOMAIN sealed : Number(i) \in Nat /\ Nonce(i) \in Nat
  BY NumberFacts
<1>3. sealed' = sealed /\ counter' = counter + 1 /\ Len(sealed) + Cardinality(Sealing) < MaxSent
  BY DEF GetReplayData, MaySeal
<1>4. /\ \A u \in Threads \ {t} : /\ held'[u].replay = held[u].replay
                                  /\ held'[u].alone <=> u \notin Sealing
      /\ Sealing' = Sealing \cup {t} /\ t \notin Sealing /\ (held'[t].alone <=> Sealing = {})
      /\ held'[t].replay = Digits(counter', SeqNumSize)
  BY <1>1, ReplayDataFacts
<1>5. /\ IsFiniteSet(Sealing) /\ Cardinality(Sealing) \in Nat /\ Len(sealed) \in Nat
      /\ Cardinality(Sealing') = Cardinality(Sealing) + 1 /\ Sealing \subseteq Threads
  <2>1. IsFiniteSet(Sealing) /\ Cardinality(Sealing) \in Nat
    BY SealingFinite
  <2>2. Cardinality(Sealing') = Cardinality(Sealing) + 1
    BY <1>4, <2>1, FS_AddElement
  <2>3. Len(sealed) \in Nat /\ Sealing \subseteq Threads
    BY <1>1 DEF TypeInv, Sealing
  <2> QED BY <2>1, <2>2, <2>3
<1>6. counter' = First + Len(sealed) + Cardinality(Sealing')
  BY <1>1, <1>2, <1>3, <1>5 DEF HeldNumbers
<1>7. Num(t)' = counter'
  <2>1. /\ SeqNumSize \in Nat /\ MaxSent \in Nat
        /\ \A i \in 0 .. MaxSent : First + i \in 0 .. Place[SeqNumSize] - 1
    BY <1>1, FirstFacts, SizeAssumption, ChannelBounds DEF TypeInv
  <2>2. Len(sealed) + Cardinality(Sealing') \in 0 .. MaxSent
    BY <1>3, <1>5, <2>1
  <2>3. counter' = First + (Len(sealed) + Cardinality(Sealing'))
    BY <1>2, <1>5, <1>6
  <2>4. counter' \in 0 .. Place[SeqNumSize] - 1
    BY <2>1, <2>2, <2>3, Zenon
  <2> QED BY <1>4, <2>1, <2>4, BytesKeepNumbers DEF Num
<1>8. \A u \in Sealing : u # t /\ Num(u)' = Num(u) /\ ~held'[u].alone
  BY <1>4, <1>5 DEF Num
<1>9. \A i \in DOMAIN sealed : Number(i)' = Number(i) /\ Nonce(i)' = Nonce(i)
  BY <1>3 DEF Number, Nonce
<1>10. Numbers \subseteq Numbers' /\ counter' \in Numbers' /\ \A n \in Numbers : n < counter'
  BY <1>1, <1>2, <1>3 DEF Numbers
<1>11. \A u \in Sealing : Num(u) \in Numbers
  BY <1>1 DEF HeldNumbers
<1>12. HeldNumbers'
  <2> SUFFICES ASSUME NEW u \in Sealing'
               PROVE  /\ Num(u)' \in Numbers'
                      /\ \A v \in Sealing' \ {u} : Num(v)' # Num(u)'
                      /\ held'[u].alone => Sealing' = {u} /\ Num(u)' = counter'
    BY <1>1, <1>3, <1>6 DEF HeldNumbers
  <2>1. CASE u = t
    BY <1>2, <1>4, <1>7, <1>8, <1>10, <1>11, <2>1
  <2>2. CASE u # t
    <3>1. u \in Sealing
      BY <1>4, <2>2
    <3>2. \A v \in Sealing \ {u} : Num(v) # Num(u)
      BY <1>1, <3>1 DEF HeldNumbers
    <3>3. Num(u) \in Numbers /\ Num(u) # counter'
      BY <1>2, <1>10, <1>11, <3>1
    <3>4. \A v \in Sealing' \ {u} : Num(v)' # Num(u)'
      BY <1>4, <1>7, <1>8, <3>1, <3>2, <3>3
    <3> QED BY <1>8, <1>10, <3>1, <3>3, <3>4
  <2> QED BY <2>1, <2>2
<1>13. SealedNumbers'
  <2> SUFFICES ASSUME NEW i \in DOMAIN sealed
      PROVE  /\ Number(i)' \in Numbers' /\ Nonce(i)' \in Numbers' /\ Number(i)' <= Nonce(i)'
             /\ sealed'[i].alone => sealed'[i].nonce = sealed'[i].f.replay
             /\ \A j \in DOMAIN sealed' :
                   /\ i # j => Number(i)' # Number(j)'
                   /\ i < j => /\ Nonce(i)' <= Nonce(j)'
                               /\ sealed'[i].alone \/ sealed'[j].alone => Nonce(i)' < Nonce(j)'
             /\ \A u \in Sealing' : /\ Number(i)' # Num(u)'
                                    /\ sealed'[i].alone => Number(i)' < Num(u)'
                                    /\ held'[u].alone => Nonce(i)' < Num(u)'
    BY <1>3 DEF SealedNumbers
  <2>1. /\ Number(i) \in Numbers /\ Nonce(i) \in Numbers /\ Number(i) <= Nonce(i)
        /\ sealed[i].alone => sealed[i].nonce = sealed[i].f.replay
        /\ \A j \in DOMAIN sealed :
              /\ i # j => Number(i) # Number(j)
              /\ i < j => /\ Nonce(i) <= Nonce(j)
                          /\ sealed[i].alone \/ sealed[j].alone => Nonce(i) < Nonce(j)
        /\ \A u \in Sealing : /\ Number(i) # Num(u)
                              /\ sealed[i].alone => Number(i) < Num(u)
    BY <1>1 DEF SealedNumbers
  <2>2. Number(i) < counter' /\ Nonce(i) < counter' /\ Number(i) # counter'
    BY <1>2, <1>10, <2>1
  <2>3. \A u \in Sealing' : /\ Number(i)' # Num(u)'
                            /\ sealed'[i].alone => Number(i)' < Num(u)'
                            /\ held'[u].alone => Nonce(i)' < Num(u)'
    BY <1>3, <1>4, <1>7, <1>8, <1>9, <2>1, <2>2
  <2>4. \A j \in DOMAIN sealed' :
            /\ i # j => Number(i)' # Number(j)'
            /\ i < j => /\ Nonce(i)' <= Nonce(j)'
                        /\ sealed'[i].alone \/ sealed'[j].alone => Nonce(i)' < Nonce(j)'
    BY <1>3, <1>9, <2>1
  <2> QED BY <1>3, <1>9, <1>10, <2>1, <2>3, <2>4
<1> QED BY <1>12, <1>13

\* A packet gets a nonce that is no lower than those before it.
LEMMA NonceIsGiven ==
    ASSUME ChannelInv, [Next]_vars, conf.mode = "seq-num", NEW t \in Threads, Seal(t)
    PROVE  HeldNumbers' /\ SealedNumbers'
<1>1. TypeInv /\ SealInv /\ HeldNumbers /\ SealedNumbers /\ conf' = conf /\ First' = First
  BY SenderMoves DEF ChannelInv, NumberInv, First
<1>2. /\ First \in Nat /\ counter \in Nat /\ First <= counter
      /\ \A k \in First .. counter : k \in 0 .. Place[SeqNumSize] - 1
      /\ \A u \in Sealing : Num(u) \in Nat /\ Digits(Num(u), SeqNumSize) = held[u].replay
      /\ \A i \in DOMAIN sealed : Number(i) \in Nat /\ Nonce(i) \in Nat
  BY NumberFacts
<1>0. PICK n \in Nat : n = Len(sealed) + 1
  BY <1>1 DEF TypeInv
<1>3. /\ Len(sealed) \in Nat /\ Len(sealed') = n /\ DOMAIN sealed = 1 .. Len(sealed)
      /\ DOMAIN sealed' = DOMAIN sealed \cup {n}
      /\ \A i \in DOMAIN sealed : sealed'[i] = sealed[i]
      /\ sealed'[n].f = NextFields(t) /\ sealed'[n].nonce = CipherNonce(NextFields(t))
      /\ sealed'[n].alone = held[t].alone
      /\ held'[t] = Idle /\ \A u \in Threads \ {t} : held'[u] = held[u]
  <2>1. Len(sealed) \in Nat /\ DOMAIN sealed = 1 .. Len(sealed)
    BY <1>1 DEF TypeInv
  <2>2. /\ Len(sealed') = Len(sealed) + 1 /\ DOMAIN sealed' = DOMAIN sealed \cup {Len(sealed) + 1}
        /\ \A i \in DOMAIN sealed : sealed'[i] = sealed[i]
        /\ sealed'[Len(sealed) + 1].f = NextFields(t)
        /\ sealed'[Len(sealed) + 1].nonce = CipherNonce(NextFields(t))
        /\ sealed'[Len(sealed) + 1].alone = held[t].alone
        /\ held'[t] = Idle /\ \A u \in Threads \ {t} : held'[u] = held[u]
    BY <1>1, SealedGrows, Zenon
  <2> QED BY <1>0, <2>1, <2>2
<1>4. counter' = counter /\ Numbers' = Numbers /\ Sealing' = Sealing \ {t} /\ t \in Sealing
  <2>1. counter' = counter /\ held[t] # Idle
    BY DEF Seal
  <2> QED BY <1>1, <1>3, <2>1 DEF Numbers, Sealing
<1>5. /\ Cardinality(Sealing') = Cardinality(Sealing) - 1 /\ Cardinality(Sealing) \in Nat
      /\ Sealing \subseteq Threads
  BY <1>4, SealingFinite, FS_RemoveElement DEF Sealing
<1>6. sealed'[n].f.replay = held[t].replay /\ sealed'[n].nonce = Digits(counter, SeqNumSize)
  BY <1>3 DEF NextFields, CipherNonce
<1>7. Number(n)' = Num(t) /\ Nonce(n)' = counter
  <2>1. SeqNumSize \in Nat /\ counter \in 0 .. Place[SeqNumSize] - 1
    BY <1>2, SizeAssumption
  <2> QED BY <1>6, <2>1, BytesKeepNumbers DEF Number, Nonce, Num
<1>8. \A u \in Sealing' : u \in Sealing /\ u # t /\ Num(u)' = Num(u) /\ held'[u] = held[u]
  BY <1>3, <1>4, <1>5 DEF Num
<1>9. \A i \in DOMAIN sealed : Number(i)' = Number(i) /\ Nonce(i)' = Nonce(i) /\ i < n
  BY <1>0, <1>3 DEF Number, Nonce
<1>10. \A u \in Sealing : /\ Num(u) \in Numbers
                          /\ \A v \in Sealing \ {u} : Num(v) # Num(u)
                          /\ held[u].alone => Sealing = {u} /\ Num(u) = counter
  BY <1>1 DEF HeldNumbers
<1>11. \A k \in Numbers : k <= counter
  BY <1>2 DEF Numbers
<1>12. HeldNumbers'
  <2>1. counter = First + n + (Cardinality(Sealing) - 1)
    BY <1>0, <1>1, <1>2, <1>3, <1>5 DEF HeldNumbers
  <2>2. \A u \in Sealing' : /\ Num(u)' \in Numbers'
                            /\ \A v \in Sealing' \ {u} : Num(v)' # Num(u)'
                            /\ held'[u].alone => Sealing' = {u} /\ Num(u)' = counter'
    BY <1>4, <1>8, <1>10
  <2> QED BY <1>1, <1>3, <1>4, <1>5, <2>1, <2>2 DEF HeldNumbers
<1>13. ASSUME NEW i \in DOMAIN sealed
       PROVE  /\ Number(i) \in Numbers /\ Nonce(i) \in Numbers /\ Number(i) <= Nonce(i)
              /\ sealed[i].alone => sealed[i].nonce = sealed[i].f.replay /\ Number(i) = Nonce(i)
              /\ \A j \in DOMAIN sealed :
                    /\ i # j => Number(i) # Number(j)
                    /\ i < j => /\ Nonce(i) <= Nonce(j)
                                /\ sealed[i].alone \/ sealed[j].alone => Nonce(i) < Nonce(j)
              /\ \A u \in Sealing : /\ Number(i) # Num(u)
                                    /\ sealed[i].alone => Number(i) < Num(u)
                                    /\ held[u].alone => Nonce(i) < Num(u)
  BY <1>1 DEF SealedNumbers, Number, Nonce
<1>14. ASSUME NEW i \in DOMAIN sealed
       PROVE  Number(i) # Num(t) /\ Nonce(i) <= counter /\ (sealed[i].alone \/ held[t].alone => Nonce(i) < counter)
  <2>1. Number(i) # Num(t) /\ Nonce(i) <= counter /\ Num(t) <= counter
    BY <1>4, <1>10, <1>11, <1>13
  <2>2. ASSUME sealed[i].alone PROVE Nonce(i) < counter
    BY <1>2, <1>4, <1>13, <2>1, <2>2
  <2>3. ASSUME held[t].alone PROVE Nonce(i) < counter
    BY <1>4, <1>10, <1>13, <2>3
  <2> QED BY <2>1, <2>2, <2>3
<1>15. held[t].alone => sealed'[n].nonce = sealed'[n].f.replay /\ Sealing' = {}
  BY <1>2, <1>4, <1>6, <1>10
<1>16. \A u \in Sealing' : Num(t) # Num(u) /\ ~held[u].alone
  BY <1>4, <1>8, <1>10
<1>17. SealedNumbers'
  <2> SUFFICES ASSUME NEW i \in DOMAIN sealed'
      PROVE  /\ Number(i)' \in Numbers /\ Nonce(i)' \in Numbers /\ Number(i)' <= Nonce(i)'
             /\ sealed'[i].alone => sealed'[i].nonce = sealed'[i].f.replay
             /\ \A j \in DOMAIN sealed' :
                   /\ i # j => Number(i)' # Number(j)'
                   /\ i < j => /\ Nonce(i)' <= Nonce(j)'
                               /\ sealed'[i].alone \/ sealed'[j].alone => Nonce(i)' < Nonce(j)'
             /\ \A u \in Sealing' : /\ Number(i)' # Num(u)'
                                    /\ sealed'[i].alone => Number(i)' < Num(u)'
                                    /\ held'[u].alone => Nonce(i)' < Num(u)'
    BY <1>4 DEF SealedNumbers
  <2>1. CASE i \in DOMAIN sealed
    <3>1. /\ Number(i)' \in Numbers /\ Nonce(i)' \in Numbers /\ Number(i)' <= Nonce(i)'
          /\ sealed'[i].alone => sealed'[i].nonce = sealed'[i].f.replay
      BY <1>3, <1>9, <1>13, <2>1
    <3>2. ASSUME NEW j \in DOMAIN sealed'
          PROVE  /\ i # j => Number(i)' # Number(j)'
                 /\ i < j => /\ Nonce(i)' <= Nonce(j)'
                             /\ sealed'[i].alone \/ sealed'[j].alone => Nonce(i)' < Nonce(j)'
      <4>1. CASE j \in DOMAIN sealed
        BY <1>3, <1>9, <1>13, <2>1, <4>1
      <4>2. CASE j = n
        BY <1>3, <1>7, <1>9, <1>14, <2>1, <4>2
      <4> QED BY <1>3, <4>1, <4>2
    <3>3. \A u \in Sealing' : /\ Number(i)' # Num(u)'
                              /\ sealed'[i].alone => Number(i)' < Num(u)'
                              /\ held'[u].alone => Nonce(i)' < Num(u)'
      BY <1>3, <1>8, <1>9, <1>13, <2>1
    <3> QED BY <3>1, <3>2, <3>3
  <2>2. CASE i = n
    <3>1. /\ Number(i)' \in Numbers /\ Nonce(i)' \in Numbers /\ Number(i)' <= Nonce(i)'
      <4>1. Num(t) \in Numbers /\ Num(t) <= counter
        BY <1>4, <1>10, <1>11
      <4>2. counter \in Numbers
        BY <1>2, <4>1 DEF Numbers
      <4> QED BY <1>7, <2>2, <4>1, <4>2
    <3>2. \A j \in DOMAIN sealed' :
             (i # j => Number(i)' # Number(j)') /\ ~(i < j)
      <4>1. \A j \in DOMAIN sealed' : j = n \/ (j \in DOMAIN sealed /\ ~(n < j))
        BY <1>0, <1>3
      <4> QED BY <1>0, <1>3, <1>7, <1>9, <1>14, <2>2, <4>1
    <3>3. \A u \in Sealing' : /\ Number(i)' # Num(u)'
                              /\ sealed'[i].alone => Number(i)' < Num(u)'
                              /\ held'[u].alone => Nonce(i)' < Num(u)'
      BY <1>3, <1>7, <1>8, <1>15, <1>16, <2>2
    <3> QED BY <1>3, <1>15, <2>2, <3>1, <3>2, <3>3
  <2> QED BY <1>3, <2>1, <2>2
<1> QED BY <1>12, <1>17

LEMMA NumberStep ==
    ASSUME ChannelInv, [Next]_vars
    PROVE  NumberInv'
<1> SUFFICES ASSUME conf.mode = "seq-num" PROVE HeldNumbers' /\ SealedNumbers'
  BY SenderMoves DEF NumberInv
<1>1. CASE Rests
  <2>1. HeldNumbers /\ SealedNumbers /\ First' = First
    BY SenderMoves DEF ChannelInv, NumberInv, First
  <2>2. /\ Sealing' = Sealing /\ Numbers' = Numbers /\ sealed' = sealed /\ held' = held
        /\ counter' = counter
    BY <1>1, <2>1 DEF Rests, Sealing, Numbers
  <2>3. HeldNumbers'
    BY <2>1, <2>2 DEF HeldNumbers, Num
  <2>4. SealedNumbers'
    BY <2>1, <2>2 DEF SealedNumbers, Num, Number, Nonce
  <2> QED BY <2>3, <2>4
<1> QED BY <1>1, NumberIsGiven, NonceIsGiven, SenderMoves

----------------------------------------------------------------------------
(* The receiver stays in frame. *)

\* Two ways to cut a string at one place.
LEMMA SameCut ==
    ASSUME NEW S, NEW a \in Seq(S), NEW b \in Seq(S), NEW c \in Seq(S), NEW d \in Seq(S),
           Len(a) = Len(c), a \o b = c \o d
    PROVE  a = c /\ b = d
<1>1. /\ Len(a \o b) = Len(a) + Len(b) /\ Len(c \o d) = Len(c) + Len(d)
      /\ \A i \in 1 .. Len(a) + Len(b) : (a \o b)[i] = IF i <= Len(a) THEN a[i] ELSE b[i - Len(a)]
      /\ \A i \in 1 .. Len(c) + Len(d) : (c \o d)[i] = IF i <= Len(c) THEN c[i] ELSE d[i - Len(c)]
  BY ConcatProperties
<1> DEFINE u == a \o b
           v == c \o d
<1>2. /\ u = v /\ Len(u) = Len(a) + Len(b) /\ Len(v) = Len(c) + Len(d)
      /\ \A i \in 1 .. Len(a) + Len(b) : u[i] = IF i <= Len(a) THEN a[i] ELSE b[i - Len(a)]
      /\ \A i \in 1 .. Len(c) + Len(d) : v[i] = IF i <= Len(c) THEN c[i] ELSE d[i - Len(c)]
  BY <1>1
<1> HIDE DEF u, v
<1>3. Len(a) \in Nat /\ Len(b) \in Nat /\ Len(d) \in Nat /\ Len(b) = Len(d)
  BY <1>2
<1>4. \A i \in 1 .. Len(a) : a[i] = c[i]
  <2> SUFFICES ASSUME NEW i \in 1 .. Len(a) PROVE a[i] = c[i]
    OBVIOUS
  <2>1. i \in 1 .. Len(a) + Len(b) /\ i <= Len(a)
    BY <1>3
  <2> QED BY <1>2, <1>3, <2>1
<1>5. \A i \in 1 .. Len(b) : b[i] = d[i]
  <2> SUFFICES ASSUME NEW i \in 1 .. Len(b) PROVE b[i] = d[i]
    OBVIOUS
  <2>1. Len(a) + i \in 1 .. Len(a) + Len(b) /\ ~(Len(a) + i <= Len(a)) /\ (Len(a) + i) - Len(a) = i
    BY <1>3
  <2> QED BY <1>2, <1>3, <2>1
<1> QED BY <1>3, <1>4, <1>5, SeqEqual

LEMMA Regroup ==
    ASSUME NEW g \in Seq(Bytes), NEW a \in Seq(Bytes), NEW z \in Seq(Bytes)
    PROVE  (g \o a) \o z = g \o (a \o z) /\ Len(g \o a) = Len(g) + Len(a)
BY ConcatAssociative

\* What is missing of b follows at once.
LEMMA CutWithin ==
    ASSUME NEW g \in Seq(Bytes), NEW w \in Seq(Bytes), NEW b \in Seq(Bytes), NEW r \in Seq(Bytes),
           g \o w = b \o r, Len(g) <= Len(b)
    PROVE  Len(b) - Len(g) <= Len(w) /\ g \o SubSeq(w, 1, Len(b) - Len(g)) = b
<1> DEFINE k == Len(b) - Len(g)
           a == SubSeq(w, 1, k)
           z == SubSeq(w, k + 1, Len(w))
<1>1. k \in Nat /\ Len(w) \in Nat /\ Len(r) \in Nat /\ Len(g) + k = Len(b)
  OBVIOUS
<1>2. Len(g \o w) = Len(g) + Len(w) /\ Len(b \o r) = Len(b) + Len(r)
  BY ConcatProperties
<1>3. k <= Len(w)
  BY <1>1, <1>2
<1> HIDE DEF k
<1>4. a \in Seq(Bytes) /\ Len(a) = k /\ z \in Seq(Bytes) /\ a \o z = w
  <2>1. CASE k = 0
    <3>1. a = <<>> /\ z = w
      BY <2>1, SubSeqEmpty, SubSeqFull
    <3> QED BY <2>1, <3>1
  <2>2. CASE k \in 1 .. Len(w)
    BY <2>2, Cut
  <2>3. k = 0 \/ k \in 1 .. Len(w)
    BY <1>1, <1>3
  <2> QED BY <2>1, <2>2, <2>3, Zenon
<1> HIDE DEF a, z
<1>5. g \o a \in Seq(Bytes) /\ Len(g \o a) = Len(b) /\ (g \o a) \o z = b \o r
  <2>1. g \o a \in Seq(Bytes) /\ Len(g \o a) = Len(g) + Len(a)
    BY <1>4, ConcatProperties
  <2>2. (g \o a) \o z = g \o (a \o z)
    BY <1>4, Regroup, Zenon
  <2> QED BY <1>1, <1>4, <2>1, <2>2
<1>6. g \o a = b
  BY <1>4, <1>5, SameCut
<1> QED BY <1>3, <1>6 DEF k, a

LEMMA PacketFacts ==
    ASSUME TypeInv, SealInv, NEW i \in DOMAIN sealed
    PROVE  LET b == Pack(conf.mode, sealed[i].f)
           IN  /\ b \in Seq(Bytes) /\ Len(b) \in 0 .. Place[HeaderSize] - 1 /\ b # <<>>
               /\ WellFormed(conf.mode, b) /\ Unpack(conf.mode, b) = sealed[i].f
<1> DEFINE f == sealed[i].f
<1>1. f \in Fields(Bytes) /\ Sendable(conf.mode, f) /\ conf.mode \in Modes
  BY SealedType DEF SealInv, TypeInv
<1> HIDE DEF f
<1>2. WellFormed(conf.mode, Pack(conf.mode, f)) /\ Unpack(conf.mode, Pack(conf.mode, f)) = f
  BY <1>1, ByteFacts, UnpackInvertsPack, Zenon DEF Sendable
<1>3. Pack(conf.mode, f) \in Seq(Bytes) /\ Len(Pack(conf.mode, f)) < Place[HeaderSize]
  BY <1>1, PackFacts, Zenon DEF Sendable
<1> DEFINE b == Pack(conf.mode, f)
           q == Place[HeaderSize]
<1>4. b \in Seq(Bytes) /\ Len(b) < q /\ q \in Nat
  BY <1>3, ChannelAssumption, PlaceFacts
<1>5. Len(b) >= HeaderLength(conf.mode) /\ HeaderLength(conf.mode) \in {2, 3}
  BY <1>2 DEF WellFormed, HeaderLength
<1> HIDE DEF b, q
<1>6. b # <<>> /\ Len(b) \in 0 .. q - 1
  BY <1>4, <1>5
<1> QED BY <1>2, <1>4, <1>6 DEF b, q, f

LEMMA FramesFacts ==
    ASSUME TypeInv, SealInv
    PROVE  Packs \subseteq Seq(Bytes) /\ Frames \in SUBSET Seq(Bytes) /\ Streams(Frames) \subseteq Seq(Bytes)
<1>1. \A i \in DOMAIN sealed : Pack(conf.mode, sealed[i].f) \in Seq(Bytes)
  BY PacketFacts
<1>2. Packs \subseteq Seq(Bytes)
  BY <1>1 DEF Packs
<1>3. \A b \in Packs : Frame(b) \in Seq(Bytes)
  BY <1>2, FrameFacts
<1> QED BY <1>2, <1>3 DEF Frames, Streams

\* Once the body is complete, it is a packet, and whole frames follow.
LEMMA BodyIsPacket ==
    ASSUME ChannelInv, conf.prompt, HasRead
    PROVE  /\ wire \in Streams(Frames) /\ rd.got # <<>> /\ WellFormed(conf.mode, rd.got)
           /\ Opens # {}
<1>1. TypeInv /\ SealInv /\ FrameInv
  BY DEF ChannelInv
<1>2. rd.stage = "body" /\ rd.size - Len(rd.got) = 0
  BY DEF HasRead, Missing, Wanted
<1>3. PICK b \in Packs, r \in Streams(Frames) : rd.got \o wire = b \o r /\ rd.size = Len(b)
  BY <1>1, <1>2 DEF FrameInv
<1>4. /\ rd.got \in Seq(Bytes) /\ wire \in Seq(Bytes) /\ rd.size \in Nat
      /\ b \in Seq(Bytes) /\ r \in Seq(Bytes)
  BY <1>1, FramesFacts DEF TypeInv
<1>5. Len(rd.got) = Len(b)
  BY <1>2, <1>3, <1>4
<1>6. rd.got = b /\ wire = r
  BY <1>3, <1>4, <1>5, SameCut
<1>7. PICK i \in DOMAIN sealed : b = Pack(conf.mode, sealed[i].f)
  BY DEF Packs
<1>8. /\ rd.got # <<>> /\ WellFormed(conf.mode, rd.got) /\ Read = sealed[i].f
  BY <1>1, <1>6, <1>7, PacketFacts, Zenon DEF Read
<1>9. sealed[i].nonce = RebuiltNonce
  <2>1. CASE conf.mode = "timestamp"
    BY <1>8, <2>1 DEF RebuiltNonce, ChannelInv, StampInv
  <2>2. CASE conf.mode = "seq-num"
    <3>1. sealed[i].alone
      BY <1>2 DEF ChannelInv, OpenInv, Closed
    <3>2. sealed[i].nonce = sealed[i].f.replay
      BY <2>2, <3>1 DEF ChannelInv, NumberInv, SealedNumbers
    <3> QED BY <1>8, <2>2, <3>2 DEF RebuiltNonce
  <2> QED BY <1>1, <2>1, <2>2 DEF TypeInv, Modes
<1>10. i \in Opens
  BY <1>8, <1>9 DEF Opens
<1> QED BY <1>6, <1>8, <1>10

\* A header that is complete is the length of the packet that follows.
LEMMA HeaderIsLength ==
    ASSUME ChannelInv, conf.prompt, rd.stage = "header", Missing = 0
    PROVE  \E b \in Packs, r \in Streams(Frames) : wire = b \o r /\ Value(rd.got) = Len(b)
<1>1. TypeInv /\ SealInv /\ FrameInv
  BY DEF ChannelInv
<1>2. rd.got \in Seq(Bytes) /\ wire \in Seq(Bytes) /\ HeaderSize \in Nat /\ HeaderSize > 0
  BY <1>1, ChannelAssumption DEF TypeInv
<1>3. Len(rd.got) = HeaderSize
  BY <1>2 DEF Missing, Wanted
<1>4. rd.got \o wire \in Streams(Frames) /\ rd.got \o wire # <<>>
  BY <1>1, <1>2, <1>3 DEF FrameInv
<1>5. Frames \in SUBSET Seq(Bytes) /\ Packs \subseteq Seq(Bytes) /\ Streams(Frames) \subseteq Seq(Bytes)
  BY <1>1, FramesFacts
<1>6. PICK f \in Frames, r \in Streams(Frames) : rd.got \o wire = f \o r
  BY <1>4, <1>5, StreamFirst, Zenon
<1>7. PICK b \in Packs : f = Frame(b)
  BY DEF Frames
<1> DEFINE d == Digits(Len(b), HeaderSize)
<1>8. b \in Seq(Bytes) /\ r \in Seq(Bytes) /\ d \in Seq(Bytes) /\ Len(d) = HeaderSize /\ f = d \o b
  BY <1>5, <1>7, FrameFacts
<1> HIDE DEF d
<1>9. b \o r \in Seq(Bytes) /\ rd.got \o wire = d \o (b \o r)
  BY <1>6, <1>8, ConcatAssociative
<1>10. rd.got = d /\ wire = b \o r
  BY <1>2, <1>3, <1>8, <1>9, SameCut
<1>11. Len(b) \in 0 .. Place[HeaderSize] - 1
  BY <1>1, PacketFacts DEF Packs
<1>12. Value(rd.got) = Len(b)
  BY <1>2, <1>10, <1>11, BytesKeepNumbers DEF d
<1> QED BY <1>10, <1>12

\* One more frame arrives.
LEMMA FrameArrives ==
    ASSUME ChannelInv, conf.prompt, rd' = rd,
           NEW G, NEW Q, G \in SUBSET Seq(Bytes), Frames \subseteq G, Packs \subseteq Q,
           NEW g \in G, wire' = wire \o g
    PROVE  /\ rd'.stage = "header" => rd'.got \o wire' \in Streams(G)
           /\ rd'.stage = "body" =>
                 \E b \in Q, r \in Streams(G) :
                     rd'.got \o wire' = b \o r /\ rd'.size = Len(b) /\ Len(rd'.got) <= Len(b)
<1>1. TypeInv /\ SealInv /\ FrameInv
  BY DEF ChannelInv
<1>2. rd.got \in Seq(Bytes) /\ wire \in Seq(Bytes) /\ g \in Seq(Bytes)
  BY <1>1 DEF TypeInv
<1>3. rd'.got \o wire' = (rd.got \o wire) \o g
  <2>1. (rd.got \o wire) \o g = rd.got \o (wire \o g)
    BY <1>2, Regroup, Zenon
  <2>2. rd'.got \o wire' = rd.got \o (wire \o g)
    OBVIOUS
  <2> QED BY <2>1, <2>2, Zenon
<1>4. Streams(Frames) \subseteq Streams(G) /\ Packs \subseteq Seq(Bytes) /\ Streams(Frames) \subseteq Seq(Bytes)
  BY <1>1, StreamMonotonic, FramesFacts
<1>5. \A s \in Streams(Frames) : s \o g \in Streams(G)
  BY <1>4, StreamAppend
<1>6. ASSUME rd.stage = "body"
      PROVE  \E b \in Q, r \in Streams(G) :
                 rd'.got \o wire' = b \o r /\ rd'.size = Len(b) /\ Len(rd'.got) <= Len(b)
  <2>1. PICK b \in Packs, r \in Streams(Frames) :
                 rd.got \o wire = b \o r /\ rd.size = Len(b) /\ Len(rd.got) <= Len(b)
    BY <1>1, <1>6 DEF FrameInv
  <2>2. (b \o r) \o g = b \o (r \o g)
    BY <1>2, <1>4, ConcatAssociative
  <2> QED BY <1>3, <1>5, <2>1, <2>2, Zenon
<1>7. rd.stage = "header" => rd.got \o wire \in Streams(Frames)
  BY <1>1 DEF FrameInv
<1> QED BY <1>3, <1>5, <1>6, <1>7

LEMMA FrameStep ==
    ASSUME ChannelInv, [Next]_vars
    PROVE  FrameInv'
<1> SUFFICES ASSUME conf.prompt PROVE FrameInv'
  BY SenderMoves DEF FrameInv
<1>1. TypeInv /\ SealInv /\ FrameInv /\ conf' = conf
  BY SenderMoves DEF ChannelInv
<1>2. /\ rd.stage \notin {"ended", "dead"} /\ EveryPacketOpens
      /\ rd \in [stage : Stages, got : Seq(Bytes), size : Nat]
      /\ wire \in Seq(Bytes)
  BY <1>1 DEF FrameInv, TypeInv
<1>3. /\ Packs \subseteq Seq(Bytes) /\ Frames \in SUBSET Seq(Bytes)
      /\ Streams(Frames) \subseteq Seq(Bytes)
  BY <1>1, FramesFacts
<1>4. ASSUME NEW t \in Threads, Seal(t)
      PROVE  FrameInv'
  <2>1. rd' = rd /\ outcome' = outcome
    BY <1>4 DEF Seal
  <2>2. CASE Closed
    BY <1>1, <1>2, <2>1, <2>2 DEF FrameInv, EveryPacketOpens, Closed
  <2>3. CASE ~Closed
    <3> DEFINE f == NextFields(t)
               p == Pack(conf.mode, f)
               Q == Packs'
               G == Frames'
    <3>1. /\ DOMAIN sealed' = DOMAIN sealed \cup {Len(sealed) + 1}
          /\ \A i \in DOMAIN sealed : sealed'[i] = sealed[i]
          /\ sealed'[Len(sealed) + 1].f = f
      BY <1>1, <1>4, SealedGrows, Zenon
    <3>2. wire' = wire \o Frame(p)
      BY <1>4, <2>3 DEF Seal
    <3>3. Q = Packs \cup {p}
      BY <1>1, <3>1 DEF Packs
    <3>4. p \in Seq(Bytes)
      <4>1. ReplayFits(conf.mode, held[t].replay)
        BY <1>1, <1>4 DEF SealInv, Seal
      <4> QED BY <1>1, <4>1, NextFieldsFacts, PackFacts, Zenon DEF Sendable, TypeInv
    <3>5. G = {Frame(b) : b \in Q}
      BY DEF Frames, Frame
    <3> HIDE DEF p, Q, G
    <3>6. Packs \subseteq Q /\ Frames \subseteq G /\ Frame(p) \in G
      BY <3>3, <3>5 DEF Frames
    <3>7. G \in SUBSET Seq(Bytes)
      <4>1. \A b \in Q : Frame(b) \in Seq(Bytes)
        BY <1>3, <3>3, <3>4, FrameFacts
      <4> QED BY <3>5, <4>1
    <3>8. /\ rd'.stage = "header" => rd'.got \o wire' \in Streams(G)
          /\ rd'.stage = "body" =>
                 \E b \in Q, r \in Streams(G) :
                     rd'.got \o wire' = b \o r /\ rd'.size = Len(b) /\ Len(rd'.got) <= Len(b)
      BY <2>1, <3>2, <3>6, <3>7, FrameArrives
    <3> QED BY <1>1, <1>2, <2>1, <3>8 DEF FrameInv, EveryPacketOpens, Q, G
  <2> QED BY <2>2, <2>3
<1>5. CASE Repeat
  <2>1. PICK i \in DOMAIN sealed : wire' = wire \o Frame(Pack(conf.mode, sealed[i].f))
    BY <1>5 DEF Repeat
  <2>2. rd' = rd /\ outcome' = outcome /\ Packs' = Packs /\ Frames' = Frames
    BY <1>1, <1>5 DEF Repeat, Packs, Frames, Frame
  <2>3. Frame(Pack(conf.mode, sealed[i].f)) \in Frames
    BY <2>1 DEF Frames, Packs
  <2>4. /\ rd'.stage = "header" => rd'.got \o wire' \in Streams(Frames)
        /\ rd'.stage = "body" =>
               \E b \in Packs, r \in Streams(Frames) :
                   rd'.got \o wire' = b \o r /\ rd'.size = Len(b) /\ Len(rd'.got) <= Len(b)
    BY <1>3, <2>1, <2>2, <2>3, FrameArrives
  <2> QED BY <1>1, <1>2, <2>2, <2>4 DEF FrameInv, EveryPacketOpens
<1>6. CASE UNCHANGED <<sealed, rd, wire, outcome>>
  <2>1. Packs' = Packs /\ Frames' = Frames
    BY <1>1, <1>6 DEF Packs, Frames, Frame
  <2> QED BY <1>1, <1>6, <2>1 DEF FrameInv, EveryPacketOpens
<1>7. ASSUME UNCHANGED <<sealed, outcome>>, NEW k \in 1 .. Len(wire), k <= Missing,
             rd' = [rd EXCEPT !.got = @ \o SubSeq(wire, 1, k)],
             wire' = SubSeq(wire, k + 1, Len(wire))
      PROVE  FrameInv'
  <2>1. Packs' = Packs /\ Frames' = Frames
    BY <1>1, <1>7 DEF Packs, Frames, Frame
  <2>2. /\ SubSeq(wire, 1, k) \in Seq(Bytes) /\ Len(SubSeq(wire, 1, k)) = k
        /\ wire' \in Seq(Bytes) /\ SubSeq(wire, 1, k) \o wire' = wire
    BY <1>2, <1>7, Cut
  <2>3. rd'.stage = rd.stage /\ rd'.size = rd.size /\ rd'.got = rd.got \o SubSeq(wire, 1, k)
    BY <1>2, <1>7
  <2>4. rd'.got \o wire' = rd.got \o wire /\ Len(rd'.got) = Len(rd.got) + k
    <3>1. /\ (rd.got \o SubSeq(wire, 1, k)) \o wire' = rd.got \o (SubSeq(wire, 1, k) \o wire')
          /\ Len(rd.got \o SubSeq(wire, 1, k)) = Len(rd.got) + Len(SubSeq(wire, 1, k))
      <4>1. rd.got \in Seq(Bytes)
        BY <1>2
      <4> QED BY <2>2, <4>1, Regroup, Zenon
    <3> QED BY <2>2, <2>3, <3>1, Zenon
  <2>5. rd.stage = "body" => Len(rd'.got) <= rd.size
    BY <1>2, <1>7, <2>4 DEF Missing, Wanted
  <2>6. ASSUME rd.stage = "body"
        PROVE  \E b \in Packs, r \in Streams(Frames) :
                   rd'.got \o wire' = b \o r /\ rd'.size = Len(b) /\ Len(rd'.got) <= Len(b)
    <3>1. PICK b \in Packs, r \in Streams(Frames) : rd.got \o wire = b \o r /\ rd.size = Len(b)
      BY <1>1, <2>6 DEF FrameInv
    <3> QED BY <2>3, <2>4, <2>5, <2>6, <3>1
  <2>7. rd.stage = "header" => rd.got \o wire \in Streams(Frames)
    BY <1>1 DEF FrameInv
  <2> QED BY <1>1, <1>2, <1>7, <2>1, <2>3, <2>4, <2>6, <2>7 DEF FrameInv, EveryPacketOpens
<1>8. CASE TimesOut
  <2>1. rd' = rd
    BY <1>8 DEF TimesOut
  <2> QED BY <1>6, <1>8, <2>1 DEF TimesOut
<1>9. CASE ReadSize
  <2>1. PICK b \in Packs, r \in Streams(Frames) : wire = b \o r /\ Value(rd.got) = Len(b)
    BY <1>9, HeaderIsLength DEF ReadSize
  <2>2. rd'.stage = "body" /\ rd'.got = <<>> /\ rd'.size = Len(b) /\ wire' = wire
    BY <1>9, <2>1 DEF ReadSize
  <2>3. rd'.got \o wire' = b \o r /\ Len(rd'.got) <= Len(b)
    BY <1>2, <1>3, <2>1, <2>2, ConcatEmptySeq
  <2>4. outcome' = outcome /\ Packs' = Packs /\ Frames' = Frames
    BY <1>1, <1>9 DEF ReadSize, Packs, Frames, Frame
  <2> QED BY <1>1, <1>2, <2>2, <2>3, <2>4 DEF FrameInv, EveryPacketOpens
<1>10. CASE ReadNothing \/ OpenMalformed \/ OpenFails
  BY <1>10, BodyIsPacket DEF ReadNothing, OpenMalformed, OpenFails, MessageRead
<1>11. CASE OpenTooLate \/ Open
  <2>1. rd' = Fresh /\ wire' = wire /\ sealed' = sealed /\ outcome' \in {"late", "taken"} /\ HasRead
    BY <1>11 DEF OpenTooLate, Open, MessageRead
  <2>2. wire \in Streams(Frames)
    BY <2>1, BodyIsPacket
  <2>3. rd'.stage = "header" /\ rd'.got \o wire' = wire
    BY <1>2, <2>1, ConcatEmptySeq DEF Fresh
  <2>4. Packs' = Packs /\ Frames' = Frames
    BY <1>1, <2>1 DEF Packs, Frames, Frame
  <2> QED BY <1>1, <2>1, <2>2, <2>3, <2>4 DEF FrameInv, EveryPacketOpens
<1>12. CASE Close
  <2>1. rd'.stage = "closed" /\ outcome' = outcome
    BY <1>12 DEF Close, Fresh
  <2> QED BY <1>1, <1>2, <2>1 DEF FrameInv, EveryPacketOpens
<1>13. CASE RecvSegment
  BY <1>7, <1>13 DEF RecvSegment
<1>14. (\E t \in Threads : GetReplayData(t)) \/ Tick \/ UNCHANGED vars => UNCHANGED <<sealed, rd, wire, outcome>>
  BY DEF GetReplayData, Tick, vars
<1> QED
  BY <1>4, <1>5, <1>6, <1>8, <1>9, <1>10, <1>11, <1>12, <1>13, <1>14 DEF Next, Receive

----------------------------------------------------------------------------
(* The receiver's replay check. *)

\* What the difference of two clocks cut to d says of the clocks themselves.
LEMMA CutClocks ==
    ASSUME NEW a \in Nat, NEW n \in Nat, a <= n, NEW d \in Nat \ {0}
    PROVE  /\ a \div d \in Nat /\ n \div d \in Nat /\ a \div d <= n \div d
           /\ (n \div d) - (a \div d) > 1 => n - a > d
           /\ (n \div d) - (a \div d) <= 1 => n - a < 2 * d
<1> DEFINE p == a \div d
           q == n \div d
           r == a % d
           s == n % d
<1>1. /\ p \in Nat /\ q \in Nat /\ p <= q /\ r \in 0 .. d - 1 /\ s \in 0 .. d - 1
      /\ a = d * p + r /\ n = d * q + s
  BY Division, DivMonotonic
<1> HIDE DEF p, q, r, s
<1>2. PICK x \in Nat : q = p + x
  <2>1. q - p \in Nat /\ q = p + (q - p)
    BY <1>1
  <2> QED BY <2>1
<1>3. n - a = d * x + s - r
  <2>1. d * q = d * p + d * x
    BY <1>1, <1>2
  <2> QED BY <1>1, <1>2, <2>1
<1>4. ASSUME q - p > 1 PROVE n - a > d
  <2>1. PICK y \in Nat : x = y + 2
    <3>1. x - 2 \in Nat /\ x = (x - 2) + 2
      BY <1>1, <1>2, <1>4
    <3> QED BY <3>1
  <2>2. d * x = d * y + d + d /\ d * y \in Nat
    BY <2>1
  <2> QED BY <1>1, <1>3, <2>2
<1>5. ASSUME q - p <= 1 PROVE n - a < 2 * d
  <2>1. x = 0 \/ x = 1
    BY <1>1, <1>2, <1>5
  <2>2. d * x = 0 \/ d * x = d
    BY <2>1
  <2> QED BY <1>1, <1>3, <2>2
<1> QED BY <1>1, <1>4, <1>5 DEF p, q

LEMMA SealedKept ==
    ASSUME TypeInv, [Next]_vars
    PROVE  \A i \in DOMAIN sealed : i \in DOMAIN sealed' /\ sealed'[i] = sealed[i]
<1>1. ASSUME NEW t \in Threads, Seal(t)
      PROVE  \A i \in DOMAIN sealed : i \in DOMAIN sealed' /\ sealed'[i] = sealed[i]
  <2>1. /\ DOMAIN sealed' = DOMAIN sealed \cup {Len(sealed) + 1}
        /\ \A i \in DOMAIN sealed : sealed'[i] = sealed[i]
    BY <1>1, SealedGrows, Zenon
  <2> QED BY <2>1
<1>2. (\E t \in Threads : GetReplayData(t)) \/ Rests => sealed' = sealed
  BY DEF GetReplayData, Rests
<1> QED BY <1>1, <1>2, SenderMoves

LEMMA SealedBound ==
    ASSUME ChannelInv
    PROVE  DOMAIN sealed \subseteq 1 .. MaxSent
<1>1. MaxSent \in Nat /\ Len(sealed) \in Nat /\ DOMAIN sealed = 1 .. Len(sealed)
  BY ChannelBounds DEF ChannelInv, TypeInv
<1>2. Cardinality(Sealing) \in Nat
  BY SealingFinite
<1>3. Len(sealed) + Cardinality(Sealing) <= MaxSent
  BY DEF ChannelInv, SealInv
<1> QED BY <1>1, <1>2, <1>3

\* A packet with a sequence number opens if its nonce is that number, and is late if
\* the number is not above the last one taken.
LEMMA LateNumbers ==
    ASSUME ChannelInv, conf.mode = "seq-num", conf.resist, NEW i \in Opens
    PROVE  /\ TooLate <=> Number(i) <= expected
           /\ Value(Read.replay) = Number(i) /\ Number(i) = Nonce(i)
<1>1. TypeInv /\ ReplayInv /\ SealedNumbers
  BY DEF ChannelInv, NumberInv
<1>2. i \in DOMAIN sealed /\ sealed[i].f = Read /\ sealed[i].nonce = Read.replay
  BY DEF Opens, RebuiltNonce
<1>3. /\ First \in Nat /\ counter \in Nat /\ First <= counter
      /\ \A n \in First .. counter : n \in 0 .. Place[SeqNumSize] - 1
      /\ \A j \in DOMAIN sealed : Digits(Number(j), SeqNumSize) = sealed[j].f.replay
  BY NumberFacts
<1>4. \A j \in DOMAIN sealed : Number(j) \in First .. counter
  BY <1>1, <1>3 DEF SealedNumbers, Numbers
<1>5. expected \in First .. counter
  <2>1. expected = First \/ \E j \in Taken : expected = Number(seen[j].msg)
    BY <1>1 DEF ReplayInv
  <2>2. \A j \in Taken : Number(seen[j].msg) \in First .. counter
    BY <1>1, <1>4 DEF ReplayInv, Taken
  <2> QED BY <1>3, <2>1, <2>2
<1>6. SeqNumSize \in Nat /\ Number(i) \in 0 .. Place[SeqNumSize] - 1 /\ expected \in 0 .. Place[SeqNumSize] - 1
  BY <1>2, <1>3, <1>4, <1>5, SizeAssumption
<1>7. Read.replay = Digits(Number(i), SeqNumSize)
  BY <1>2, <1>3
<1>8. LexLeq(Digits(Number(i), SeqNumSize), Digits(expected, SeqNumSize)) <=> Number(i) <= expected
  BY <1>6, BytesCompareAsNumbers
<1>9. TooLate <=> NumberTooLate
  BY DEF TooLate
<1> QED BY <1>2, <1>7, <1>8, <1>9 DEF NumberTooLate, Number, Nonce

\* The same in either order of the clocks.
LEMMA CutDistance ==
    ASSUME NEW a \in Nat, NEW n \in Nat, NEW d \in Nat \ {0}
    PROVE  /\ Distance(n \div d, a \div d) > 1 => Distance(n - a, 0) > d
           /\ Distance(n \div d, a \div d) <= 1 => Distance(n - a, 0) < 2 * d
<1> DEFINE p == a \div d
           q == n \div d
           e == 2 * d
<1>1. p \in Nat /\ q \in Nat /\ e \in Nat
  BY Division
<1>2. CASE a <= n
  <2>1. p <= q /\ (q - p > 1 => n - a > d) /\ (q - p <= 1 => n - a < e)
    BY <1>2, CutClocks
  <2> HIDE DEF p, q, e
  <2>2. Distance(q, p) = q - p
    BY <1>1, <2>1 DEF Distance
  <2>3. Distance(n - a, 0) = n - a
    BY <1>2 DEF Distance
  <2> QED BY <2>1, <2>2, <2>3 DEF p, q, e
<1>3. CASE n < a
  <2>1. q <= p /\ (p - q > 1 => a - n > d) /\ (p - q <= 1 => a - n < e)
    BY <1>3, CutClocks
  <2> HIDE DEF p, q, e
  <2>2. Distance(q, p) = p - q
    BY <1>1, <2>1 DEF Distance
  <2>3. Distance(n - a, 0) = a - n
    BY <1>3 DEF Distance
  <2> QED BY <2>1, <2>2, <2>3 DEF p, q, e
<1> QED BY <1>2, <1>3

\* A timestamp is late only for a message that looks older than the tolerance to the
\* receiver, or as much too young.
LEMMA LateStamps ==
    ASSUME ChannelInv, conf.mode = "timestamp", NEW i \in Opens
    PROVE  /\ TooLate => Distance(now - sealed[i].at + conf.skew, 0) > Tolerance * Second
           /\ ~TooLate /\ conf.resist =>
                 Distance(now - sealed[i].at + conf.skew, 0) < (Tolerance + 1) * Second
<1>1. TypeInv /\ SealInv
  BY DEF ChannelInv
<1>2. i \in DOMAIN sealed /\ sealed[i].f = Read
  BY DEF Opens
<1> DEFINE at == sealed[i].at
           skew == conf.skew
           n == now + skew
<1>3. Read.replay = Digits(at \div Second, TimestampSize)
  BY <1>2 DEF ChannelInv, StampInv
<1>4. /\ at \in Nat /\ now \in Nat /\ skew \in Int /\ n \in Nat
      /\ MaxTicks \in Nat /\ at <= MaxTicks /\ TimestampSize \in Nat /\ Second \in Nat \ {0}
      /\ MaxTicks \div Second < Place[TimestampSize] /\ Place[TimestampSize] \in Nat
  <2>1. at \in Nat /\ at <= now
    BY <1>1, <1>2, SealedType DEF SealInv
  <2>2. /\ MaxTicks \in Nat /\ MaxSkew \in Nat /\ TimestampSize \in Nat /\ Second \in Nat \ {0}
    BY SizeAssumption, ChannelAssumption, ChannelBounds
  <2>3. MaxTicks \div Second < Place[TimestampSize] /\ Place[TimestampSize] \in Nat
    BY <2>2, ChannelBounds, PlaceFacts
  <2>4. now \in MaxSkew .. MaxTicks /\ skew \in -MaxSkew .. MaxSkew
    BY <1>1 DEF TypeInv
  <2> HIDE DEF at, skew
  <2> QED BY <2>1, <2>2, <2>3, <2>4
<1>5. now - at + skew = n - at
  <2> HIDE DEF at, skew
  <2> QED BY <1>4
<1>6. Apart = Distance(n \div Second, Value(Read.replay))
  BY DEF Apart
<1>7. TooLate <=> conf.resist /\ Apart > 1
  BY DEF TooLate, StampTooLate, Tolerance
<1> HIDE DEF at, skew, n
<1>8. at \div Second \in 0 .. Place[TimestampSize] - 1
  <2>1. at \div Second <= MaxTicks \div Second
    BY <1>4, DivMonotonic
  <2>2. at \div Second \in Nat /\ MaxTicks \div Second \in Nat
    BY <1>4, Division
  <2> QED BY <1>4, <2>1, <2>2
<1>9. Value(Read.replay) = at \div Second
  BY <1>3, <1>4, <1>8, BytesKeepNumbers
<1>10. /\ Apart > 1 => Distance(n - at, 0) > Second
       /\ Apart <= 1 => Distance(n - at, 0) < 2 * Second
  BY <1>4, <1>6, <1>9, CutDistance
<1>11. Apart \in Int
  BY <1>4, <1>6, <1>9, Division DEF Distance
<1>12. Tolerance * Second = Second /\ (Tolerance + 1) * Second = 2 * Second
  BY <1>4 DEF Tolerance
<1>13. /\ TooLate => Distance(n - at, 0) > Tolerance * Second
       /\ ~TooLate /\ conf.resist => Distance(n - at, 0) < (Tolerance + 1) * Second
  BY <1>7, <1>10, <1>11, <1>12
<1> QED BY <1>5, <1>13 DEF at, skew

\* What became of the packets: each way of looking at one, by number or by timestamp.
LEMMA ReplayStep ==
    ASSUME ChannelInv, [Next]_vars
    PROVE  ReplayInv'
<1>1. TypeInv /\ ReplayInv /\ conf' = conf /\ First' = First
  BY SenderMoves DEF ChannelInv, First
<1>2. \A i \in DOMAIN sealed : i \in DOMAIN sealed' /\ sealed'[i] = sealed[i]
  BY <1>1, SealedKept
<1>3. \A j \in DOMAIN seen : seen[j].msg \in DOMAIN sealed
  BY <1>1 DEF ReplayInv
<1>4. \A j \in DOMAIN seen : seen[j].at - sealed'[seen[j].msg].at = Delay(j)
  BY <1>2, <1>3 DEF Delay
<1>5. Len(seen) \in Nat /\ DOMAIN seen = 1 .. Len(seen)
  BY <1>1 DEF TypeInv
<1>6. CASE UNCHANGED <<seen, expected>>
  <2>1. Taken' = Taken
    BY <1>6 DEF Taken
  <2>2. \A j \in DOMAIN seen : Age(j)' = Age(j)
    BY <1>1, <1>4, <1>6 DEF Delay, Age
  <2>3. LateForCause'
    BY <1>1, <1>6, <2>1, <2>2 DEF ReplayInv, LateForCause
  <2>4. OnceInOrder'
    BY <1>1, <1>6, <2>1 DEF ReplayInv, OnceInOrder
  <2>5. \A j \in DOMAIN seen : /\ Number(seen[j].msg)' = Number(seen[j].msg)
                               /\ Nonce(seen[j].msg)' = Nonce(seen[j].msg)
    BY <1>2, <1>3, <1>6 DEF Number, Nonce
  <2>6. conf.mode = "seq-num" /\ conf.resist =>
           /\ \A j \in Taken' : /\ Number(seen[j].msg)' <= expected'
                                /\ Number(seen[j].msg)' = Nonce(seen[j].msg)'
           /\ expected' = First \/ \E j \in Taken' : expected' = Number(seen[j].msg)'
    BY <1>1, <1>6, <2>1, <2>5 DEF ReplayInv, Taken
  <2> QED BY <1>1, <1>2, <1>3, <1>6, <2>3, <2>4, <2>6 DEF ReplayInv
<1>7. ASSUME NEW i \in Opens, NEW b \in BOOLEAN, HasRead, b <=> ~TooLate, sealed' = sealed,
             seen' = Append(seen, [msg |-> i, at |-> now, taken |-> b]),
             expected' = IF b /\ conf.mode = "seq-num" /\ conf.resist THEN Value(Read.replay)
                                                                     ELSE expected
      PROVE  ReplayInv'
  <2>0. PICK n \in Nat : n = Len(seen) + 1
    BY <1>5
  <2>1. /\ DOMAIN seen' = DOMAIN seen \cup {n} /\ \A j \in DOMAIN seen : seen'[j] = seen[j] /\ j < n
        /\ n \in Nat /\ seen'[n].msg = i /\ seen'[n].at = now /\ seen'[n].taken = b
    <3> DEFINE look == [msg |-> i, at |-> now, taken |-> b]
    <3>1. seen \in Seq(Look) /\ seen' = Append(seen, look)
      BY <1>1, <1>7 DEF TypeInv
    <3>2. look.msg = i /\ look.at = now /\ look.taken = b
      OBVIOUS
    <3> HIDE DEF look
    <3>3. /\ DOMAIN seen' = 1 .. Len(seen) + 1 /\ seen'[Len(seen) + 1] = look
          /\ \A j \in 1 .. Len(seen) : seen'[j] = seen[j]
      BY <3>1
    <3> QED BY <1>5, <2>0, <3>2, <3>3
  <2>2. i \in DOMAIN sealed
    BY DEF Opens
  <2>3. Taken' = Taken \cup (IF b THEN {n} ELSE {})
    BY <2>1 DEF Taken
  <2>4. \A j \in Taken : j \in DOMAIN seen /\ j < n /\ seen'[j].msg = seen[j].msg
    BY <2>1 DEF Taken
  <2>5. \A j \in DOMAIN seen' : seen'[j].msg \in DOMAIN sealed'
    BY <1>3, <1>7, <2>1, <2>2
  <2>6. ASSUME conf.mode = "seq-num", conf.resist
        PROVE  /\ \A j \in Taken' : /\ Number(seen[j].msg)' <= expected'
                                    /\ Number(seen[j].msg)' = Nonce(seen[j].msg)'
               /\ expected' = First \/ \E j \in Taken' : expected' = Number(seen[j].msg)'
               /\ \A j, k \in Taken' : j < k => seen'[j].msg < seen'[k].msg
               /\ b \/ \E k \in Taken' : k < n /\ seen'[k].msg >= i
    <3>1. TooLate <=> Number(i) <= expected
      BY <2>6, LateNumbers
    <3>2. Value(Read.replay) = Number(i) /\ Number(i) = Nonce(i)
      BY <2>6, LateNumbers
    <3>3. /\ \A j \in Taken : /\ Number(seen[j].msg) <= expected
                              /\ Number(seen[j].msg) = Nonce(seen[j].msg)
          /\ expected = First \/ \E j \in Taken : expected = Number(seen[j].msg)
          /\ \A j, k \in Taken : j < k => seen[j].msg < seen[k].msg
      BY <1>1, <2>6 DEF ReplayInv, OnceInOrder
    <3>4. /\ First \in Nat /\ expected \in Nat
          /\ \A k \in DOMAIN sealed : /\ k \in Nat /\ Number(k) \in Nat /\ Nonce(k) \in Nat
                                      /\ First < Number(k)
      BY <1>1, <2>6, NumberFacts, SealedType DEF TypeInv, ChannelInv, NumberInv, SealedNumbers, Numbers
    <3>5. \A j, k \in DOMAIN sealed : /\ j < k => Nonce(j) <= Nonce(k)
                                      /\ j # k => Number(j) # Number(k)
      BY <2>6 DEF ChannelInv, NumberInv, SealedNumbers
    <3>6. \A j \in Taken : seen[j].msg \in DOMAIN sealed
      BY <1>3 DEF Taken
    <3>7. /\ \A j \in Taken : /\ Number(seen[j].msg)' = Number(seen[j].msg)
                              /\ Nonce(seen[j].msg)' = Nonce(seen[j].msg)
          /\ Number(seen[n].msg)' = Number(i) /\ Nonce(seen[n].msg)' = Nonce(i)
      BY <1>7, <2>1, <2>4 DEF Number, Nonce
    <3>8. CASE b
      <4>1. expected < Number(i) /\ expected' = Number(i)
        BY <1>7, <2>2, <2>6, <3>1, <3>2, <3>4, <3>8
      <4>2. ASSUME NEW j \in Taken PROVE seen[j].msg < i
        <5>1. Nonce(seen[j].msg) < Nonce(i)
          BY <2>2, <3>2, <3>3, <3>4, <3>6, <4>1
        <5>2. ~(Nonce(i) <= Nonce(seen[j].msg)) /\ seen[j].msg # i
          BY <2>2, <3>4, <3>6, <5>1
        <5> QED BY <2>2, <3>4, <3>5, <3>6, <5>2
      <4>3. Taken' = Taken \cup {n}
        BY <2>3, <3>8
      <4>4. \A j \in Taken' : /\ Number(seen[j].msg)' <= expected'
                              /\ Number(seen[j].msg)' = Nonce(seen[j].msg)'
        BY <2>2, <3>2, <3>3, <3>4, <3>6, <3>7, <4>1, <4>3
      <4>5. \A j, k \in Taken' : j < k => seen'[j].msg < seen'[k].msg
        <5> SUFFICES ASSUME NEW j \in Taken', NEW k \in Taken', j < k
                     PROVE  seen'[j].msg < seen'[k].msg
          OBVIOUS
        <5>1. j # n
          <6>1. \A m \in Taken : m < n /\ m \in Nat
            BY <1>5, <2>4
          <6> QED BY <2>0, <4>3, <6>1
        <5>2. j \in Taken
          BY <4>3, <5>1
        <5>3. CASE k \in Taken
          BY <2>4, <3>3, <5>2, <5>3
        <5>4. CASE k = n
          BY <2>1, <2>4, <4>2, <5>2, <5>4
        <5> QED BY <4>3, <5>3, <5>4
      <4>6. expected' = Number(seen[n].msg)' /\ n \in Taken'
        BY <3>7, <4>1, <4>3
      <4> QED BY <3>8, <4>4, <4>5, <4>6
    <3>9. CASE ~b
      <4>1. Number(i) <= expected /\ expected' = expected /\ Taken' = Taken
        BY <1>7, <2>3, <3>1, <3>9
      <4>2. PICK k \in Taken : expected = Number(seen[k].msg)
        BY <2>2, <3>3, <3>4, <4>1
      <4>3. seen[k].msg >= i
        <5> SUFFICES ASSUME seen[k].msg < i PROVE FALSE
          BY <2>2, <3>4, <3>6
        <5>1. Nonce(seen[k].msg) <= Nonce(i)
          BY <2>2, <3>5, <3>6
        <5>2. Number(seen[k].msg) = Number(i)
          BY <2>2, <3>2, <3>3, <3>4, <3>6, <4>1, <4>2, <5>1
        <5> QED BY <2>2, <3>4, <3>5, <3>6, <5>2
      <4>4. \A j, m \in Taken' : j < m => seen'[j].msg < seen'[m].msg
        BY <2>4, <3>3, <4>1
      <4>5. \E m \in Taken' : m < n /\ seen'[m].msg >= i
        BY <2>4, <4>1, <4>3
      <4>6. /\ \A j \in Taken' : /\ Number(seen[j].msg)' <= expected'
                                 /\ Number(seen[j].msg)' = Nonce(seen[j].msg)'
            /\ \E j \in Taken' : expected' = Number(seen[j].msg)'
        BY <3>3, <3>7, <4>1, <4>2
      <4> QED BY <4>4, <4>5, <4>6
    <3> QED BY <3>8, <3>9
  <2>7. OnceInOrder'
    BY <1>1, <2>6 DEF OnceInOrder
  <2>8. Age(n)' = now - sealed[i].at + conf.skew
    <3>1. Delay(n)' = now - sealed[i].at
      BY <1>7, <2>1, Zenon DEF Delay
    <3> QED BY <1>1, <3>1, Zenon DEF Age
  <2>9. \A j \in DOMAIN seen : Age(j)' = Age(j)
    BY <1>1, <1>7, <2>1 DEF Delay, Age
  <2>10. LateForCause'
    <3> SUFFICES ASSUME NEW j \in DOMAIN seen'
                 PROVE  IF conf.mode = "timestamp"
                        THEN /\ ~seen'[j].taken => Distance(Age(j)', 0) > Tolerance * Second
                             /\ seen'[j].taken /\ conf.resist =>
                                   Distance(Age(j)', 0) < (Tolerance + 1) * Second
                        ELSE seen'[j].taken \/ \E k \in Taken' : k < j /\ seen'[k].msg >= seen'[j].msg
      BY <1>1 DEF LateForCause, Distance
    <3>1. CASE j \in DOMAIN seen
      <4>1. IF conf.mode = "timestamp"
            THEN /\ ~seen[j].taken => Distance(Age(j), 0) > Tolerance * Second
                 /\ seen[j].taken /\ conf.resist => Distance(Age(j), 0) < (Tolerance + 1) * Second
            ELSE seen[j].taken \/ \E k \in Taken : k < j /\ seen[k].msg >= seen[j].msg
        BY <1>1, <3>1 DEF ReplayInv, LateForCause
      <4> QED BY <2>1, <2>3, <2>4, <2>9, <3>1, <4>1
    <3>2. CASE j = n /\ conf.mode = "timestamp"
      <4>1. /\ TooLate => Distance(now - sealed[i].at + conf.skew, 0) > Tolerance * Second
            /\ ~TooLate /\ conf.resist =>
                  Distance(now - sealed[i].at + conf.skew, 0) < (Tolerance + 1) * Second
        BY <3>2, LateStamps
      <4>2. seen'[n].taken <=> ~TooLate
        BY <1>7, <2>1
      <4> QED BY <2>8, <3>2, <4>1, <4>2, Zenon
    <3>3. CASE j = n /\ conf.mode # "timestamp"
      <4>1. conf.mode = "seq-num"
        BY <1>1, <3>3 DEF TypeInv, Modes
      <4>2. CASE conf.resist
        BY <2>1, <2>6, <3>3, <4>1, <4>2
      <4>3. CASE ~conf.resist
        BY <1>7, <2>1, <3>3, <4>3 DEF TooLate
      <4> QED BY <4>2, <4>3
    <3> QED BY <2>1, <3>1, <3>2, <3>3
  <2> QED BY <1>1, <2>5, <2>6, <2>7, <2>10 DEF ReplayInv
<1>8. CASE OpenTooLate
  <2>1. PICK i \in Opens : seen' = Append(seen, [msg |-> i, at |-> now, taken |-> FALSE])
    BY <1>8 DEF OpenTooLate
  <2> QED BY <1>7, <1>8, <2>1 DEF OpenTooLate, MessageRead
<1>9. CASE Open
  <2>1. PICK i \in Opens : seen' = Append(seen, [msg |-> i, at |-> now, taken |-> TRUE])
    BY <1>9 DEF Open
  <2> QED BY <1>7, <1>9, <2>1 DEF Open, MessageRead
<1>10. OpenTooLate \/ Open \/ UNCHANGED <<seen, expected>>
  BY DEF Next, vars, GetReplayData, Seal, Repeat, Tick, TimesOut, Receive, RecvSegment, ReadSize,
         ReadNothing, OpenMalformed, OpenFails, Close
<1> QED BY <1>6, <1>8, <1>9, <1>10

----------------------------------------------------------------------------
(* The theorems. *)

\* Every state of a connection satisfies the invariant, whether the two threads of the
\* client seal in turn or at once, and however much the two clocks differ
\* (forward_dest_source of the client, SequenceNumbersReplayProcessor).
THEOREM ChannelInvariant == Spec => []ChannelInv
<1>1. Init => ChannelInv
  BY StartInv
<1>2. ChannelInv /\ [Next]_vars => ChannelInv'
  <2> SUFFICES ASSUME ChannelInv, [Next]_vars PROVE ChannelInv'
    OBVIOUS
  <2>1. TypeInv' /\ SealInv' /\ StampInv' /\ OpenInv' /\ NumberInv' /\ FrameInv' /\ ReplayInv'
    BY TypeStep, SealStep, StampStep, OpenStep, NumberStep, FrameStep, ReplayStep
  <2> QED BY <2>1 DEF ChannelInv
<1> QED BY <1>1, <1>2, PTL DEF Spec

\* While no message is torn by a socket timeout, the size the receiver has read
\* is that of the packet before it (NetComm.receive), however TCP cuts the bytes.
THEOREM ReceiverStaysInFrame == Spec => []FramesKept
<1>1. ChannelInv => FramesKept
  <2> SUFFICES ASSUME ChannelInv, conf.prompt, rd.stage = "body"
               PROVE  /\ Missing <= Len(wire)
                      /\ \E i \in DOMAIN sealed : rd.got \o SubSeq(wire, 1, Missing) = Pack(conf.mode, sealed[i].f)
    BY DEF FramesKept, SizeIsOfPacket
  <2>1. TypeInv /\ SealInv /\ FrameInv
    BY DEF ChannelInv
  <2>2. PICK b \in Packs, r \in Streams(Frames) :
                 rd.got \o wire = b \o r /\ rd.size = Len(b) /\ Len(rd.got) <= Len(b)
    BY <2>1 DEF FrameInv
  <2>3. /\ rd.got \in Seq(Bytes) /\ wire \in Seq(Bytes) /\ b \in Seq(Bytes) /\ r \in Seq(Bytes)
    BY <2>1, FramesFacts DEF TypeInv
  <2>4. Missing = Len(b) - Len(rd.got)
    BY <2>2 DEF Missing, Wanted
  <2>5. /\ Missing <= Len(wire) /\ rd.got \o SubSeq(wire, 1, Missing) = b
    BY <2>2, <2>3, <2>4, CutWithin, Zenon
  <2> QED BY <2>5 DEF Packs
<1> QED BY <1>1, ChannelInvariant, PTL

\* Then no packet is empty, malformed or dropped as tampered with
\* (unpack_encrypted_data, decrypt_and_verify).
THEOREM PacketsOpen == Spec => []EveryPacketOpens
<1>1. ChannelInv => EveryPacketOpens
  BY DEF ChannelInv, FrameInv, EveryPacketOpens
<1> QED BY <1>1, ChannelInvariant, PTL

\* The nonce of a packet sealed alone is its sequence number and that of no other packet
\* of its gateway, those that two threads sealed at once included; and no nonce of one
\* gateway is one of the other (SequenceNumbersReplayProcessor).
THEOREM NoncesDiffer == Spec => []NoncesNeverShared
<1>1. ChannelInv => NoncesNeverShared
  <2> SUFFICES ASSUME ChannelInv, conf.mode = "seq-num", NEW i \in DOMAIN sealed
               PROVE  /\ Value(sealed[i].nonce) >= ClientMask <=> conf.sender = "client"
                      /\ sealed[i].alone =>
                            /\ sealed[i].nonce = sealed[i].f.replay
                            /\ \A j \in DOMAIN sealed : sealed[i].nonce = sealed[j].nonce => i = j
    BY DEF NoncesNeverShared
  <2>1. TypeInv /\ SealedNumbers
    BY DEF ChannelInv, NumberInv
  <2>2. /\ First \in Nat /\ MaxSent \in Nat /\ counter \in Nat /\ counter <= First + MaxSent
        /\ \A n \in 0 .. MaxSent : First + n >= ClientMask <=> conf.sender = "client"
        /\ \A j \in DOMAIN sealed : j \in Nat /\ Nonce(j) \in Nat
    BY <2>1, NumberFacts, FirstFacts, SealedType, ChannelBounds DEF TypeInv
  <2>3. Nonce(i) >= ClientMask <=> conf.sender = "client"
    <3>1. Nonce(i) \in First + 1 .. counter
      BY <2>1 DEF SealedNumbers, Numbers
    <3>2. Nonce(i) - First \in 0 .. MaxSent /\ Nonce(i) = First + (Nonce(i) - First)
      BY <2>2, <3>1
    <3> QED BY <2>2, <3>2, Zenon
  <2>4. ASSUME sealed[i].alone, NEW j \in DOMAIN sealed, sealed[i].nonce = sealed[j].nonce
        PROVE  i = j
    <3>1. Nonce(i) = Nonce(j)
      BY <2>4 DEF Nonce
    <3>2. i < j => Nonce(i) < Nonce(j)
      BY <2>1, <2>4 DEF SealedNumbers
    <3>3. j < i => Nonce(j) < Nonce(i)
      BY <2>1, <2>4 DEF SealedNumbers
    <3> QED BY <2>2, <3>1, <3>2, <3>3
  <2>5. sealed[i].alone => sealed[i].nonce = sealed[i].f.replay
    BY <2>1 DEF SealedNumbers
  <2> QED BY <2>3, <2>4, <2>5 DEF Nonce
<1> QED BY <1>1, ChannelInvariant, PTL

\* Under replay resistance a numbered message is taken once and in the order of sending
\* (verify_replay_data).
THEOREM TakenInOrder == Spec => []OnceInOrder
<1>1. ChannelInv => OnceInOrder
  BY DEF ChannelInv, ReplayInv
<1> QED BY <1>1, ChannelInvariant, PTL

\* verify_replay_data drops no numbered message but a repeated one; no stamped one unless
\* its delay and the difference of the two hosts' clocks together exceed the tolerance;
\* and takes none for which they exceed it by a second, in either direction.
THEOREM DropsHaveCause == Spec => []LateForCause
<1>1. ChannelInv => LateForCause
  BY DEF ChannelInv, ReplayInv
<1> QED BY <1>1, ChannelInvariant, PTL
=============================================================================
