---------------------------- MODULE PacketFormat ----------------------------
(***************************************************************************)
(* The layout of a packet, for both kinds of replay data:                  *)
(*                                                                         *)
(*    footer flag, rekey flag [, nonce length],                            *)
(*    replay data [, nonce], ciphertext, MAC tag [, public secret]         *)
(*                                                                         *)
(* Timestamps carry the nonce and its length; with sequence numbers the    *)
(* receiver rebuilds the nonce.  A packet is a sequence of bytes, a number *)
(* of one byte is its value, and the length of the ciphertext is what the  *)
(* fixed sizes leave over.                                                 *)
(***************************************************************************)
EXTENDS Naturals, Sequences

CONSTANTS TimestampSize, SeqNumSize, MacSize, SecretSize

ASSUME SizeAssumption ==
    /\ TimestampSize \in Nat /\ SeqNumSize \in Nat /\ MacSize \in Nat
    /\ SecretSize \in Nat \ {0}

Modes == {"timestamp", "seq-num"}

HeaderLength(mode) == IF mode = "timestamp" THEN 3 ELSE 2
ReplaySize(mode) == IF mode = "timestamp" THEN TimestampSize ELSE SeqNumSize
FixedSize(mode) == HeaderLength(mode) + ReplaySize(mode) + MacSize

\* What the ciphers hand to pack, and get back from unpack.
Fields(Byte) == [rekey : Byte, replay : Seq(Byte), nonce : Seq(Byte),
                 cipher : Seq(Byte), mac : Seq(Byte), secret : Seq(Byte)]

Packable(mode, f) ==
    /\ Len(f.replay) = ReplaySize(mode)
    /\ Len(f.mac) = MacSize
    /\ Len(f.secret) \in {0, SecretSize}
    /\ mode = "seq-num" => f.nonce = <<>>

Flag(f) == IF f.secret = <<>> THEN 0 ELSE 1

Header(mode, f) == IF mode = "timestamp" THEN <<Flag(f), f.rekey, Len(f.nonce)>>
                                         ELSE <<Flag(f), f.rekey>>

Pack(mode, f) ==
    Header(mode, f) \o f.replay \o f.nonce \o f.cipher \o f.mac \o f.secret

----------------------------------------------------------------------------
\* n bytes of b from offset at on (struct.unpack_from).
Slice(b, at, n) == SubSeq(b, at + 1, at + n)

\* Any byte but 0 unpacks to True.
FooterLength(b) == IF b[1] # 0 THEN SecretSize ELSE 0
NonceLength(mode, b) == IF mode = "timestamp" THEN b[3] ELSE 0

\* The sizes fit; struct.error otherwise (a negative size in the format).
WellFormed(mode, b) ==
    /\ Len(b) >= HeaderLength(mode)
    /\ Len(b) >= FixedSize(mode) + NonceLength(mode, b) + FooterLength(b)

\* BUG: the footer counts as ciphertext.
BugUnpack(mode, b) ==
    LET nonceAt  == HeaderLength(mode) + ReplaySize(mode)
        cipherAt == nonceAt + NonceLength(mode, b)
        macAt    == Len(b) - MacSize
    IN  [rekey  |-> b[2],
         replay |-> Slice(b, HeaderLength(mode), ReplaySize(mode)),
         nonce  |-> Slice(b, nonceAt, NonceLength(mode, b)),
         cipher |-> Slice(b, cipherAt, macAt - cipherAt),
         mac    |-> Slice(b, macAt, MacSize),
         secret |-> Slice(b, Len(b) - FooterLength(b), FooterLength(b))]

Unpack(mode, b) ==
    LET nonceAt  == HeaderLength(mode) + ReplaySize(mode)
        cipherAt == nonceAt + NonceLength(mode, b)
        footerAt == Len(b) - FooterLength(b)
        macAt    == footerAt - MacSize
    IN  [rekey  |-> b[2],
         replay |-> Slice(b, HeaderLength(mode), ReplaySize(mode)),
         nonce  |-> Slice(b, nonceAt, NonceLength(mode, b)),
         cipher |-> Slice(b, cipherAt, macAt - cipherAt),
         mac    |-> Slice(b, macAt, MacSize),
         secret |-> Slice(b, footerAt, FooterLength(b))]
=============================================================================
