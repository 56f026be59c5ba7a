------------------------- MODULE PacketFormatProofs -------------------------
(***************************************************************************)
(* What unpack gives back of what pack wrote, for fields of any length.    *)
(***************************************************************************)
EXTENDS PacketFormat, TLAPS

\* p holds q from offset at on.
Holds(p, at, q) == at + Len(q) <= Len(p) /\ \A i \in 1 .. Len(q) : p[at + i] = q[i]

\* The place of every field in the concatenation of six.
LEMMA Places ==
    ASSUME NEW S, NEW h \in Seq(S), NEW r \in Seq(S), NEW n \in Seq(S),
           NEW c \in Seq(S), NEW m \in Seq(S), NEW s \in Seq(S)
    PROVE  LET p == h \o r \o n \o c \o m \o s
           IN  /\ p \in Seq(S)
               /\ Len(p) = Len(h) + Len(r) + Len(n) + Len(c) + Len(m) + Len(s)
               /\ Holds(p, 0, h)
               /\ Holds(p, Len(h), r)
               /\ Holds(p, Len(h) + Len(r), n)
               /\ Holds(p, Len(h) + Len(r) + Len(n), c)
               /\ Holds(p, Len(h) + Len(r) + Len(n) + Len(c), m)
               /\ Holds(p, Len(h) + Len(r) + Len(n) + Len(c) + Len(m), s)
BY DEF Holds

\* A slice that holds q is q.
LEMMA SliceIs ==
    ASSUME NEW S, NEW p \in Seq(S), NEW q \in Seq(S), NEW at \in Nat, Holds(p, at, q)
    PROVE  Slice(p, at, Len(q)) = q
<1>1. Slice(p, at, Len(q)) = [i \in 1 .. Len(q) |-> p[at + i]]
  BY DEF Slice, Holds
<1>2. q = [i \in 1 .. Len(q) |-> q[i]]
  OBVIOUS
<1> QED
  BY <1>1, <1>2 DEF Holds

LEMMA HeaderFacts ==
    ASSUME NEW Byte, {0, 1} \subseteq Byte, NEW mode \in Modes,
           NEW f \in Fields(Byte), Len(f.nonce) \in Byte
    PROVE  /\ Header(mode, f) \in Seq(Byte)
           /\ Len(Header(mode, f)) = HeaderLength(mode)
           /\ Header(mode, f)[1] = Flag(f)
           /\ Header(mode, f)[2] = f.rekey
           /\ mode = "timestamp" => Header(mode, f)[3] = Len(f.nonce)
<1>1. f.rekey \in Byte /\ Flag(f) \in Byte
  BY DEF Fields, Flag
<1> QED
  BY <1>1 DEF Header, HeaderLength, Modes

\* The sizes that unpack works with.
Sizes(mode, p, hl, rl, nl, sl) ==
    /\ hl = HeaderLength(mode) /\ rl = ReplaySize(mode)
    /\ nl = NonceLength(mode, p) /\ sl = FooterLength(p)

\* Unpacking p gives these fields.
Yields(mode, p, k, r, n, c, m, s) ==
    /\ WellFormed(mode, p)
    /\ Unpack(mode, p) = [rekey |-> k, replay |-> r, nonce |-> n,
                          cipher |-> c, mac |-> m, secret |-> s]

\* Unpack, for the slices that pack has filled.
LEMMA UnpackSlices ==
    ASSUME NEW mode \in Modes, NEW p, NEW r, NEW n, NEW c, NEW m, NEW s,
           NEW hl \in Nat, NEW rl \in Nat, NEW nl \in Nat, NEW cl \in Nat, NEW sl \in Nat,
           MacSize \in Nat, Sizes(mode, p, hl, rl, nl, sl),
           Len(p) = hl + rl + nl + cl + MacSize + sl,
           Slice(p, hl, rl) = r,
           Slice(p, hl + rl, nl) = n,
           Slice(p, hl + rl + nl, cl) = c,
           Slice(p, hl + rl + nl + cl, MacSize) = m,
           Slice(p, hl + rl + nl + cl + MacSize, sl) = s
    PROVE  Yields(mode, p, p[2], r, n, c, m, s)
<1>1. WellFormed(mode, p)
  <2>1. Len(p) >= hl /\ Len(p) >= hl + rl + MacSize + nl + sl
    OBVIOUS
  <2> QED
    BY <2>1, Zenon DEF WellFormed, FixedSize, Sizes
<1>2. /\ Len(p) - sl = hl + rl + nl + cl + MacSize
      /\ Len(p) - sl - MacSize = hl + rl + nl + cl
      /\ (hl + rl + nl + cl) - (hl + rl + nl) = cl
  OBVIOUS
<1>3. Unpack(mode, p) =
        [rekey  |-> p[2],
         replay |-> Slice(p, hl, rl),
         nonce  |-> Slice(p, hl + rl, nl),
         cipher |-> Slice(p, hl + rl + nl, (Len(p) - sl - MacSize) - (hl + rl + nl)),
         mac    |-> Slice(p, Len(p) - sl - MacSize, MacSize),
         secret |-> Slice(p, Len(p) - sl, sl)]
  BY Zenon DEF Unpack, Sizes
<1> QED
  BY <1>1, <1>2, <1>3 DEF Yields

\* The fields have the sizes the header announces.
Fits(mode, h, r, n, m, s) ==
    /\ Len(h) = HeaderLength(mode) /\ Len(r) = ReplaySize(mode) /\ Len(m) = MacSize
    /\ Len(n) = NonceLength(mode, h)
    /\ Len(s) = FooterLength(h)

\* The same for a packet put together from a header and five fields.
LEMMA UnpackConcat ==
    ASSUME NEW Byte, NEW mode \in Modes, NEW h \in Seq(Byte), NEW r \in Seq(Byte),
           NEW n \in Seq(Byte), NEW c \in Seq(Byte), NEW m \in Seq(Byte), NEW s \in Seq(Byte),
           Fits(mode, h, r, n, m, s)
    PROVE  LET p == h \o r \o n \o c \o m \o s
           IN  Yields(mode, p, h[2], r, n, c, m, s)
<1> DEFINE p == h \o r \o n \o c \o m \o s
<1>1. /\ p \in Seq(Byte)
      /\ Len(p) = Len(h) + Len(r) + Len(n) + Len(c) + Len(m) + Len(s)
      /\ Holds(p, 0, h)
      /\ Holds(p, Len(h), r)
      /\ Holds(p, Len(h) + Len(r), n)
      /\ Holds(p, Len(h) + Len(r) + Len(n), c)
      /\ Holds(p, Len(h) + Len(r) + Len(n) + Len(c), m)
      /\ Holds(p, Len(h) + Len(r) + Len(n) + Len(c) + Len(m), s)
  BY Places
<1> HIDE DEF p
<1>2. HeaderLength(mode) \in Nat /\ HeaderLength(mode) >= 2
      /\ (mode = "timestamp" => HeaderLength(mode) = 3)
      /\ Len(h) = HeaderLength(mode)
  BY DEF HeaderLength, Fits
<1>3. p[1] = h[1] /\ p[2] = h[2] /\ (mode = "timestamp" => p[3] = h[3])
  BY <1>1, <1>2 DEF Holds
<1>4. /\ Sizes(mode, p, Len(h), Len(r), Len(n), Len(s))
      /\ Len(m) = MacSize
  BY <1>3 DEF Fits, Sizes, FooterLength, NonceLength
<1>5. /\ Len(h) \in Nat /\ Len(r) \in Nat /\ Len(n) \in Nat /\ Len(c) \in Nat
      /\ Len(m) \in Nat /\ Len(s) \in Nat
      /\ Len(h) + Len(r) \in Nat
      /\ Len(h) + Len(r) + Len(n) \in Nat
      /\ Len(h) + Len(r) + Len(n) + Len(c) \in Nat
      /\ Len(h) + Len(r) + Len(n) + Len(c) + Len(m) \in Nat
  OBVIOUS
<1>6. /\ Slice(p, Len(h), Len(r)) = r
      /\ Slice(p, Len(h) + Len(r), Len(n)) = n
      /\ Slice(p, Len(h) + Len(r) + Len(n), Len(c)) = c
      /\ Slice(p, Len(h) + Len(r) + Len(n) + Len(c), Len(m)) = m
      /\ Slice(p, Len(h) + Len(r) + Len(n) + Len(c) + Len(m), Len(s)) = s
  BY <1>1, <1>5, SliceIs
<1>7. Yields(mode, p, p[2], r, n, c, m, s)
  <2>1. /\ MacSize \in Nat
        /\ Len(p) = Len(h) + Len(r) + Len(n) + Len(c) + MacSize + Len(s)
        /\ Slice(p, Len(h) + Len(r) + Len(n) + Len(c), MacSize) = m
        /\ Slice(p, Len(h) + Len(r) + Len(n) + Len(c) + MacSize, Len(s)) = s
    BY <1>1, <1>4, <1>5, <1>6, Zenon
  <2>2. Sizes(mode, p, Len(h), Len(r), Len(n), Len(s))
    BY <1>4
  <2> QED
    BY <2>1, <2>2, <1>5, <1>6, UnpackSlices, Zenon
<1> QED
  BY <1>3, <1>7 DEF p

\* Unpacking a packed packet gives its fields back, whatever their lengths
\* and their bytes: no length in it is read off the wrong place (sym_cipher.py
\* 105-109 and 169-179 rely on it for every cipher).
THEOREM UnpackInvertsPack ==
    ASSUME NEW Byte, {0, 1} \subseteq Byte, NEW mode \in Modes,
           NEW f \in Fields(Byte), Packable(mode, f), Len(f.nonce) \in Byte
    PROVE  /\ WellFormed(mode, Pack(mode, f))
           /\ Unpack(mode, Pack(mode, f)) = f
<1> DEFINE h == Header(mode, f)
<1>1. /\ f.replay \in Seq(Byte) /\ f.nonce \in Seq(Byte) /\ f.cipher \in Seq(Byte)
      /\ f.mac \in Seq(Byte) /\ f.secret \in Seq(Byte)
  BY DEF Fields
<1>2. /\ h \in Seq(Byte) /\ Len(h) = HeaderLength(mode)
      /\ h[1] = Flag(f) /\ h[2] = f.rekey
      /\ mode = "timestamp" => h[3] = Len(f.nonce)
  BY HeaderFacts
<1> HIDE DEF h
<1>3. Len(f.secret) = FooterLength(h)
  <2>1. CASE f.secret = <<>>
    BY <2>1, <1>2 DEF FooterLength, Flag
  <2>2. CASE f.secret # <<>>
    <3>1. Len(f.secret) # 0
      BY <2>2, <1>1
    <3> QED
      BY <3>1, <2>2, <1>2 DEF FooterLength, Flag, Packable
  <2> QED
    BY <2>1, <2>2
<1>4. Fits(mode, h, f.replay, f.nonce, f.mac, f.secret)
  <2>1. Len(f.nonce) = NonceLength(mode, h)
    BY <1>2 DEF Packable, Modes, NonceLength
  <2> QED
    BY <1>2, <1>3, <2>1 DEF Packable, Fits
<1>5. Pack(mode, f) = h \o f.replay \o f.nonce \o f.cipher \o f.mac \o f.secret
  BY DEF Pack, h
<1>6. /\ WellFormed(mode, Pack(mode, f))
      /\ Unpack(mode, Pack(mode, f)) =
           [rekey |-> h[2], replay |-> f.replay, nonce |-> f.nonce,
            cipher |-> f.cipher, mac |-> f.mac, secret |-> f.secret]
  <2> DEFINE r == f.replay
             n == f.nonce
             c == f.cipher
             m == f.mac
             s == f.secret
  <2>1. /\ h \in Seq(Byte) /\ r \in Seq(Byte) /\ n \in Seq(Byte) /\ c \in Seq(Byte)
        /\ m \in Seq(Byte) /\ s \in Seq(Byte) /\ Fits(mode, h, r, n, m, s)
        /\ Pack(mode, f) = h \o r \o n \o c \o m \o s
    BY <1>1, <1>2, <1>4, <1>5
  <2> HIDE DEF r, n, c, m, s
  <2>2. Yields(mode, h \o r \o n \o c \o m \o s, h[2], r, n, c, m, s)
    BY <2>1, UnpackConcat, Zenon
  <2> QED
    BY <2>1, <2>2 DEF Yields, r, n, c, m, s
<1>7. f = [rekey |-> f.rekey, replay |-> f.replay, nonce |-> f.nonce,
           cipher |-> f.cipher, mac |-> f.mac, secret |-> f.secret]
  BY DEF Fields
<1> QED
  BY <1>2, <1>6, <1>7
=============================================================================
