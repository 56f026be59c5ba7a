----------------------------- MODULE ByteNumbers -----------------------------
(***************************************************************************)
(* Numbers as the programs put them into messages: a fixed count of bytes, *)
(* the most significant first, compared as byte strings.                   *)
(***************************************************************************)
EXTENDS Naturals, Sequences

CONSTANT Base  \* a byte is 0 .. Base - 1

ASSUME BaseAssumption == Base \in Nat /\ Base > 1

Bytes == 0 .. Base - 1

\* The weight of the byte with k bytes after it: Base to the power of k.
Place[k \in Nat] == IF k = 0 THEN 1 ELSE Base * Place[k - 1]

\* int.to_bytes and struct.pack("!H"): k bytes of n.
Digits(n, k) == [i \in 1 .. k |-> (n \div Place[k - i]) % Base]

\* int.from_bytes and struct.unpack: the number with these bytes.
Value(b) == CHOOSE n \in 0 .. Place[Len(b)] - 1 : Digits(n, Len(b)) = b

\* a <= b for two byte strings of one length.
LexLeq(a, b) ==
    a = b \/ \E i \in 1 .. Len(a) : a[i] < b[i] /\ \A j \in 1 .. i - 1 : a[j] = b[j]
==============================================================================
