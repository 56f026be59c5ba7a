-------------------------- MODULE ByteNumbersProofs --------------------------
(***************************************************************************)
(* Numbers survive the conversion to bytes and back, and comparing their   *)
(* byte strings compares them, for any base and any number of bytes.       *)
(*                                                                         *)
(* The library's induction theorems take an operator; these proofs take    *)
(* the least counterexample instead, which the well-foundedness of < gives.*)
(***************************************************************************)
EXTENDS ByteNumbers, WellFoundedInduction, TLAPS

LEMMA LeastElement ==
    ASSUME NEW T, T \subseteq Nat, T # {}
    PROVE  \E x \in T : \A y \in T : x <= y
<1> DEFINE R == OpToRel(<, Nat)
<1>1. IsWellFoundedOn(R, Nat)
  BY NatLessThanWellFounded
<1> HIDE DEF R
<1>2. PICK x \in T : \A y \in T : ~ (<<y, x>> \in R)
  BY <1>1, WFMin, Zenon
<1>3. \A y, z \in Nat : y < z => <<y, z>> \in R
  BY DEF R, OpToRel
<1>4. ASSUME NEW y \in T PROVE x <= y
  <2>1. x \in Nat /\ y \in Nat
    OBVIOUS
  <2>2. ~ (y < x)
    BY <1>2, <1>3, <2>1, Zenon
  <2> QED BY <2>1, <2>2
<1> QED BY <1>4

\* A set of naturals closed under successor is everything.
LEMMA Induction ==
    ASSUME NEW S, 0 \in S, \A n \in Nat : n \in S => n + 1 \in S
    PROVE  Nat \subseteq S
<1> SUFFICES ASSUME Nat \ S # {} PROVE FALSE
  OBVIOUS
<1>1. PICK n \in Nat \ S : \A m \in Nat \ S : n <= m
  BY LeastElement
<1>2. n # 0 /\ n - 1 \in Nat /\ n - 1 < n
  BY <1>1
<1>3. n - 1 \in S
  BY <1>1, <1>2
<1> QED BY <1>2, <1>3

----------------------------------------------------------------------------
(* The recursive definition of Place has the solution it describes. *)

IsPlace(f, n) == f \in [0 .. n -> Nat] /\ f[0] = 1 /\ \A k \in 1 .. n : f[k] = Base * f[k - 1]

LEMMA PlaceExists == \A n \in Nat : \E f : IsPlace(f, n)
<1> DEFINE S == {n \in Nat : \E f : IsPlace(f, n)}
<1>1. 0 \in S
  <2>1. IsPlace([k \in 0 .. 0 |-> 1], 0)
    BY DEF IsPlace
  <2> QED BY <2>1
<1>2. ASSUME NEW n \in Nat, n \in S PROVE n + 1 \in S
  <2>1. PICK f : IsPlace(f, n)
    BY <1>2
  <2> DEFINE g == [k \in 0 .. n + 1 |-> IF k = n + 1 THEN Base * f[n] ELSE f[k]]
  <2>2. IsPlace(g, n + 1)
    <3>1. f[n] \in Nat /\ Base * f[n] \in Nat
      BY <2>1, BaseAssumption DEF IsPlace
    <3>2. g \in [0 .. n + 1 -> Nat] /\ g[0] = 1
      BY <2>1, <3>1 DEF IsPlace
    <3>3. ASSUME NEW k \in 1 .. n + 1 PROVE g[k] = Base * g[k - 1]
      <4>1. CASE k = n + 1
        BY <4>1
      <4>2. CASE k # n + 1
        <5>1. k \in 1 .. n /\ k \in 0 .. n + 1 /\ k - 1 \in 0 .. n + 1 /\ k - 1 # n + 1
          BY <4>2
        <5>2. g[k] = f[k] /\ g[k - 1] = f[k - 1]
          BY <4>2, <5>1
        <5> QED BY <2>1, <5>1, <5>2 DEF IsPlace
      <4> QED BY <4>1, <4>2
    <3> QED BY <3>2, <3>3 DEF IsPlace
  <2> QED BY <2>2
<1> HIDE DEF S
<1>3. Nat \subseteq S
  BY <1>1, <1>2, Induction
<1> QED BY <1>3 DEF S

LEMMA PlaceUnique ==
    ASSUME NEW m \in Nat, NEW n \in Nat, NEW f, NEW g, IsPlace(f, m), IsPlace(g, n)
    PROVE  \A k \in Nat : k <= m /\ k <= n => f[k] = g[k]
<1> DEFINE S == {k \in Nat : k <= m /\ k <= n => f[k] = g[k]}
<1>1. 0 \in S
  BY DEF IsPlace
<1>2. ASSUME NEW k \in Nat, k \in S PROVE k + 1 \in S
  <2> SUFFICES ASSUME k + 1 <= m, k + 1 <= n PROVE f[k + 1] = g[k + 1]
    OBVIOUS
  <2>1. f[k] = g[k] /\ k + 1 \in 1 .. m /\ k + 1 \in 1 .. n /\ (k + 1) - 1 = k
    BY <1>2
  <2> QED BY <2>1 DEF IsPlace
<1> HIDE DEF S
<1>3. Nat \subseteq S
  BY <1>1, <1>2, Induction
<1> QED BY <1>3 DEF S

LEMMA PlaceDef == Place = [k \in Nat |-> IF k = 0 THEN 1 ELSE Base * Place[k - 1]]
<1> DEFINE Sol(f) == f = [k \in Nat |-> IF k = 0 THEN 1 ELSE Base * f[k - 1]]
           pick[n \in Nat] == CHOOSE f : IsPlace(f, n)
           p == [n \in Nat |-> pick[n][n]]
<1>1. \A n \in Nat : IsPlace(pick[n], n)
  BY PlaceExists
<1> HIDE DEF pick
<1>2. ASSUME NEW n \in Nat PROVE p[n] = IF n = 0 THEN 1 ELSE Base * p[n - 1]
  <2>1. CASE n = 0
    BY <1>1, <2>1 DEF IsPlace
  <2>2. CASE n # 0
    <3>1. n - 1 \in Nat /\ n \in 1 .. n /\ n - 1 <= n
      BY <2>2
    <3>2. pick[n][n] = Base * pick[n][n - 1]
      BY <1>1, <3>1 DEF IsPlace
    <3>3. pick[n][n - 1] = pick[n - 1][n - 1]
      BY <1>1, <3>1, PlaceUnique
    <3> QED BY <2>2, <3>1, <3>2, <3>3
  <2> QED BY <2>1, <2>2
<1>3. Sol(p)
  BY <1>2
<1>4. Place = CHOOSE f : Sol(f)
  BY DEF Place
<1> HIDE DEF Sol, p
<1>5. Sol(Place)
  BY <1>3, <1>4
<1> QED BY <1>5 DEF Sol

LEMMA PlaceFacts ==
    /\ Place[0] = 1
    /\ \A k \in Nat : Place[k] \in Nat \ {0} /\ Place[k + 1] = Base * Place[k]
<1>1. Place[0] = 1
  BY PlaceDef
<1>2. ASSUME NEW k \in Nat PROVE Place[k + 1] = Base * Place[k]
  <2>1. k + 1 \in Nat /\ k + 1 # 0 /\ (k + 1) - 1 = k
    OBVIOUS
  <2> QED BY <2>1, PlaceDef
<1> DEFINE S == {k \in Nat : Place[k] \in Nat \ {0}}
<1>3. 0 \in S
  BY <1>1
<1>4. ASSUME NEW k \in Nat, k \in S PROVE k + 1 \in S
  <2>1. \A a, b \in Nat \ {0} : a * b \in Nat \ {0}
    OBVIOUS
  <2> QED BY <1>2, <1>4, <2>1, BaseAssumption
<1> HIDE DEF S
<1>5. Nat \subseteq S
  BY <1>3, <1>4, Induction
<1> QED BY <1>1, <1>2, <1>5 DEF S

----------------------------------------------------------------------------
(* Quotients. *)

LEMMA Division ==
    ASSUME NEW n \in Nat, NEW d \in Nat \ {0}
    PROVE  /\ n \div d \in Nat /\ n % d \in 0 .. d - 1
           /\ n = d * (n \div d) + (n % d)
OBVIOUS

LEMMA QuotientUnique ==
    ASSUME NEW n \in Nat, NEW d \in Nat \ {0}, NEW q \in Nat, NEW r \in 0 .. d - 1, n = d * q + r
    PROVE  n \div d = q
<1> DEFINE p == n \div d
           s == n % d
<1>1. p \in Nat /\ s \in 0 .. d - 1 /\ n = d * p + s
  BY Division
<1> HIDE DEF p, s
<1>2. \A a, b \in Nat : a < b => d * a + d <= d * b
  <2> SUFFICES ASSUME NEW a \in Nat, NEW b \in Nat, a < b PROVE d * a + d <= d * b
    OBVIOUS
  <2>1. PICK c \in Nat : b = a + 1 + c
    <3>1. b - a - 1 \in Nat /\ b = a + 1 + (b - a - 1)
      OBVIOUS
    <3> QED BY <3>1
  <2>2. d * b = d * a + d + d * c /\ d * c \in Nat
    BY <2>1
  <2> QED BY <2>2
<1>3. d * p \in Nat /\ d * q \in Nat
  BY <1>1
<1>4. ~ (p < q)
  BY <1>1, <1>2, <1>3
<1>5. ~ (q < p)
  BY <1>1, <1>2, <1>3
<1> QED BY <1>1, <1>4, <1>5 DEF p

\* Dividing by the place of one more byte cuts off one digit.
LEMMA DivStep ==
    ASSUME NEW n \in Nat, NEW b \in Nat \ {0}, NEW d \in Nat \ {0}
    PROVE  n \div d = b * (n \div (b * d)) + ((n \div d) % b)
<1> DEFINE q == n \div d
           r == n % d
           s == q \div b
           t == q % b
<1>1. q \in Nat /\ r \in 0 .. d - 1 /\ n = d * q + r
  BY Division
<1> HIDE DEF q, r
<1>2. s \in Nat /\ t \in 0 .. b - 1 /\ q = b * s + t
  BY <1>1, Division
<1> HIDE DEF s, t
<1>3. b * d \in Nat \ {0}
  OBVIOUS
<1>4. n = (b * d) * s + (d * t + r)
  BY <1>1, <1>2
<1>5. d * t + r \in 0 .. b * d - 1
  <2>1. PICK c \in Nat : b = t + 1 + c
    <3>1. b - t - 1 \in Nat /\ b = t + 1 + (b - t - 1)
      BY <1>2
    <3> QED BY <3>1
  <2>2. t \in Nat
    BY <1>2
  <2>3. b * d = d * t + d + d * c /\ d * c \in Nat /\ d * t \in Nat
    BY <2>1, <2>2
  <2> QED BY <1>1, <2>3
<1>6. n \div (b * d) = s
  BY <1>2, <1>3, <1>4, <1>5, QuotientUnique
<1> QED BY <1>2, <1>6 DEF q, t

LEMMA DivMonotonic ==
    ASSUME NEW m \in Nat, NEW n \in Nat, m <= n, NEW d \in Nat \ {0}
    PROVE  m \div d <= n \div d
<1> DEFINE p == m \div d
           q == n \div d
           r == m % d
           s == n % d
<1>1. p \in Nat /\ r \in 0 .. d - 1 /\ m = d * p + r
  BY Division
<1>2. q \in Nat /\ s \in 0 .. d - 1 /\ n = d * q + s
  BY Division
<1> HIDE DEF p, q, r, s
<1>3. ASSUME q < p PROVE FALSE
  <2>1. PICK c \in Nat : p = q + 1 + c
    <3>1. p - q - 1 \in Nat /\ p = q + 1 + (p - q - 1)
      BY <1>1, <1>2, <1>3
    <3> QED BY <3>1
  <2>2. d * p = d * q + d + d * c /\ d * c \in Nat /\ d * q \in Nat
    BY <1>2, <2>1
  <2> QED BY <1>1, <1>2, <2>2
<1> QED BY <1>1, <1>2, <1>3 DEF p, q

----------------------------------------------------------------------------
(* Digits. *)

LEMMA DigitsType ==
    ASSUME NEW n \in Nat, NEW k \in Nat
    PROVE  /\ Digits(n, k) \in Seq(Bytes) /\ Len(Digits(n, k)) = k
           /\ Digits(n, k) \in [1 .. k -> Bytes]
<1>1. ASSUME NEW i \in 1 .. k PROVE (n \div Place[k - i]) % Base \in Bytes
  <2>1. k - i \in Nat
    OBVIOUS
  <2>2. n \div Place[k - i] \in Nat
    BY <2>1, PlaceFacts, Division
  <2>3. Base \in Nat \ {0}
    BY BaseAssumption
  <2> QED BY <2>2, <2>3, Division, Zenon DEF Bytes
<1>2. Digits(n, k) \in [1 .. k -> Bytes]
  BY <1>1 DEF Digits
<1> QED BY <1>2

\* What is left of n without its last j digits of k.
Prefix(n, k, j) == n \div Place[k - j]

LEMMA PrefixStep ==
    ASSUME NEW n \in Nat, NEW k \in Nat, NEW j \in 1 .. k
    PROVE  /\ Prefix(n, k, j) \in Nat /\ Prefix(n, k, j - 1) \in Nat
           /\ Digits(n, k)[j] \in Nat
           /\ Prefix(n, k, j) = Base * Prefix(n, k, j - 1) + Digits(n, k)[j]
<1>1. k - j \in Nat /\ k - (j - 1) = (k - j) + 1
  OBVIOUS
<1>2. Place[k - j] \in Nat \ {0} /\ Place[k - (j - 1)] = Base * Place[k - j]
      /\ Place[k - (j - 1)] \in Nat \ {0}
  BY <1>1, PlaceFacts
<1>3. n \div Place[k - j] \in Nat /\ n \div Place[k - (j - 1)] \in Nat
  BY <1>2, Division
<1>4. n \div Place[k - j] = Base * (n \div (Base * Place[k - j])) + ((n \div Place[k - j]) % Base)
  <2>1. Base \in Nat \ {0}
    BY BaseAssumption
  <2> QED BY <1>2, <2>1, DivStep, Zenon
<1>5. Digits(n, k)[j] = (n \div Place[k - j]) % Base
  BY DEF Digits
<1>6. (n \div Place[k - j]) % Base \in Nat
  BY <1>3, BaseAssumption, Division
<1> QED BY <1>2, <1>3, <1>4, <1>5, <1>6 DEF Prefix

LEMMA PrefixEnds ==
    ASSUME NEW k \in Nat, NEW n \in 0 .. Place[k] - 1
    PROVE  Prefix(n, k, 0) = 0 /\ Prefix(n, k, k) = n
<1>1. Place[k] \in Nat \ {0} /\ Place[0] = 1
  BY PlaceFacts
<1>2. n \in Nat
  BY <1>1
<1>3. n \div Place[k] = 0
  <2>1. n \in 0 .. Place[k] - 1 /\ n = Place[k] * 0 + n
    BY <1>1, <1>2
  <2> QED BY <1>1, <1>2, <2>1, QuotientUnique
<1>4. n \div 1 = n
  BY <1>2
<1>5. k - 0 = k /\ k - k = 0
  OBVIOUS
<1> QED BY <1>1, <1>3, <1>4, <1>5 DEF Prefix

\* a is less than b at the first byte in which they differ.
LexLess(a, b, k) ==
    \E i \in 1 .. k : a[i] < b[i] /\ \A j \in 1 .. i - 1 : a[j] = b[j]

LEMMA DigitsIncrease ==
    ASSUME NEW k \in Nat, NEW m \in 0 .. Place[k] - 1, NEW n \in 0 .. Place[k] - 1, m < n
    PROVE  LexLess(Digits(m, k), Digits(n, k), k)
<1> DEFINE T == {j \in 0 .. k : Prefix(m, k, j) # Prefix(n, k, j)}
<1>1. Place[k] \in Nat
  BY PlaceFacts
<1>2. m \in Nat /\ n \in Nat
  BY <1>1
<1>3. k \in T /\ T \subseteq Nat
  BY <1>2, PrefixEnds
<1>4. PICK i \in T : \A j \in T : i <= j
  BY <1>3, LeastElement
<1>5. i \in 1 .. k
  BY <1>4, PrefixEnds
<1>6. \A j \in 0 .. i - 1 : Prefix(m, k, j) = Prefix(n, k, j)
  BY <1>4, <1>5
<1>7. Prefix(m, k, i) < Prefix(n, k, i)
  <2>1. k - i \in Nat
    BY <1>5
  <2>2. Prefix(m, k, i) <= Prefix(n, k, i)
    <3>1. m <= n /\ Place[k - i] \in Nat \ {0}
      BY <1>2, <2>1, PlaceFacts
    <3> QED BY <1>2, <3>1, DivMonotonic, Zenon DEF Prefix
  <2>3. Prefix(m, k, i) # Prefix(n, k, i)
    BY <1>4
  <2>4. Prefix(m, k, i) \in Nat /\ Prefix(n, k, i) \in Nat
    BY <1>2, <1>5, PrefixStep, Zenon
  <2> QED BY <2>2, <2>3, <2>4
<1>8. Digits(m, k)[i] < Digits(n, k)[i]
  <2>1. i - 1 \in 0 .. i - 1
    BY <1>5
  <2>2. Prefix(m, k, i - 1) = Prefix(n, k, i - 1)
    BY <1>6, <2>1
  <2> DEFINE p == Base * Prefix(m, k, i - 1)
  <2>3. p \in Nat
    <3>1. Prefix(m, k, i - 1) \in Nat
      BY <1>2, <1>5, PrefixStep, Zenon
    <3> QED BY <3>1, BaseAssumption
  <2>4. Prefix(m, k, i) = p + Digits(m, k)[i] /\ Prefix(n, k, i) = p + Digits(n, k)[i]
        /\ Digits(m, k)[i] \in Nat /\ Digits(n, k)[i] \in Nat
    BY <1>2, <1>5, <2>2, PrefixStep
  <2> HIDE DEF p
  <2> QED BY <1>7, <2>3, <2>4
<1>9. ASSUME NEW j \in 1 .. i - 1 PROVE Digits(m, k)[j] = Digits(n, k)[j]
  <2>1. j \in 1 .. k /\ j \in 0 .. i - 1
    BY <1>5
  <2>2. Prefix(m, k, j) = Prefix(n, k, j)
    BY <1>6, <2>1
  <2>3. Digits(m, k)[j] = Prefix(m, k, j) % Base /\ Digits(n, k)[j] = Prefix(n, k, j) % Base
    BY <2>1 DEF Digits, Prefix
  <2> QED BY <2>2, <2>3
<1> QED BY <1>5, <1>8, <1>9 DEF LexLess

\* The byte strings of two numbers compare as the numbers do: what lets
\* verify_replay_data compare an 8-byte string with the expected number's.
THEOREM BytesCompareAsNumbers ==
    ASSUME NEW k \in Nat, NEW m \in 0 .. Place[k] - 1, NEW n \in 0 .. Place[k] - 1
    PROVE  LexLeq(Digits(m, k), Digits(n, k)) <=> m <= n
<1> DEFINE a == Digits(m, k)
           b == Digits(n, k)
<1>1. m \in Nat /\ n \in Nat
  BY PlaceFacts
<1>2. Len(a) = k /\ a \in [1 .. k -> Bytes] /\ b \in [1 .. k -> Bytes]
  BY <1>1, DigitsType
<1>3. \A i \in 1 .. k : a[i] \in Nat /\ b[i] \in Nat
  BY <1>2, BaseAssumption DEF Bytes
<1>4. LexLeq(a, b) <=> a = b \/ LexLess(a, b, k)
  BY <1>2 DEF LexLeq, LexLess
<1>5. m < n => LexLess(a, b, k)
  BY DigitsIncrease
<1>6. n < m => LexLess(b, a, k)
  BY DigitsIncrease
<1>7. m = n => a = b
  OBVIOUS
<1> HIDE DEF a, b
<1>8. ASSUME LexLess(b, a, k) PROVE a # b /\ ~ LexLess(a, b, k)
  <2>1. PICK i \in 1 .. k : b[i] < a[i] /\ \A j \in 1 .. i - 1 : b[j] = a[j]
    BY <1>8 DEF LexLess
  <2>2. a # b
    BY <1>3, <2>1
  <2>3. ASSUME LexLess(a, b, k) PROVE FALSE
    <3>1. PICK h \in 1 .. k : a[h] < b[h] /\ \A j \in 1 .. h - 1 : a[j] = b[j]
      BY <2>3 DEF LexLess
    <3>2. h < i \/ h = i \/ i < h
      OBVIOUS
    <3> QED BY <1>3, <2>1, <3>1, <3>2
  <2> QED BY <2>2, <2>3
<1> QED BY <1>1, <1>4, <1>5, <1>6, <1>7, <1>8 DEF a, b

LEMMA DigitsInjective ==
    ASSUME NEW k \in Nat, NEW m \in 0 .. Place[k] - 1, NEW n \in 0 .. Place[k] - 1,
           Digits(m, k) = Digits(n, k)
    PROVE  m = n
<1>1. m \in Nat /\ n \in Nat
  BY PlaceFacts
<1>2. LexLeq(Digits(m, k), Digits(n, k)) /\ LexLeq(Digits(n, k), Digits(m, k))
  BY DEF LexLeq
<1>3. m <= n /\ n <= m
  BY <1>2, BytesCompareAsNumbers
<1> QED BY <1>1, <1>3

\* A number that fits into k bytes is read back from them.
THEOREM BytesKeepNumbers ==
    ASSUME NEW k \in Nat, NEW n \in 0 .. Place[k] - 1
    PROVE  Value(Digits(n, k)) = n
<1>1. n \in Nat
  BY PlaceFacts
<1>2. Len(Digits(n, k)) = k
  BY <1>1, DigitsType
<1>3. Value(Digits(n, k)) = CHOOSE m \in 0 .. Place[k] - 1 : Digits(m, k) = Digits(n, k)
  BY <1>2 DEF Value
<1>4. \A m \in 0 .. Place[k] - 1 : Digits(m, k) = Digits(n, k) => m = n
  BY DigitsInjective
<1> QED BY <1>3, <1>4

LEMMA DivDiv ==
    ASSUME NEW n \in Nat, NEW b \in Nat \ {0}, NEW d \in Nat \ {0}
    PROVE  n \div (b * d) = (n \div d) \div b
<1> DEFINE q == n \div d
           s == n \div (b * d)
<1>1. q \in Nat /\ q % b \in 0 .. b - 1
  BY Division
<1>2. q = b * s + (q % b)
  BY DivStep
<1>3. s \in Nat
  <2>1. b * d \in Nat \ {0}
    OBVIOUS
  <2> QED BY <2>1, Division
<1> HIDE DEF q, s
<1>4. q \div b = s
  BY <1>1, <1>2, <1>3, QuotientUnique
<1> QED BY <1>4 DEF q, s

\* One more byte.
LEMMA DigitsAppend ==
    ASSUME NEW k \in Nat, NEW m \in Nat, NEW d \in Bytes
    PROVE  /\ Digits(Base * m + d, k + 1)[k + 1] = d
           /\ \A i \in 1 .. k : Digits(Base * m + d, k + 1)[i] = Digits(m, k)[i]
<1> DEFINE n == Base * m + d
<1>1. Base \in Nat \ {0} /\ d \in 0 .. Base - 1 /\ n \in Nat
  BY BaseAssumption DEF Bytes
<1>2. n \div Base = m
  BY <1>1, QuotientUnique
<1>3. n % Base = d
  <2>1. n = Base * (n \div Base) + (n % Base) /\ n % Base \in 0 .. Base - 1
    BY <1>1, Division
  <2> HIDE DEF n
  <2>2. n = Base * m + (n % Base)
    BY <1>2, <2>1
  <2>3. n = Base * m + d
    BY DEF n
  <2> QED BY <1>1, <2>1, <2>2, <2>3
<1> HIDE DEF n
<1>4. Digits(n, k + 1)[k + 1] = d
  <2>1. k + 1 \in 1 .. k + 1 /\ (k + 1) - (k + 1) = 0 /\ n \div 1 = n
    BY <1>1
  <2> QED BY <1>3, <2>1, PlaceFacts DEF Digits
<1>5. ASSUME NEW i \in 1 .. k PROVE Digits(n, k + 1)[i] = Digits(m, k)[i]
  <2>1. i \in 1 .. k + 1 /\ k - i \in Nat /\ (k + 1) - i = (k - i) + 1
    OBVIOUS
  <2>2. Place[(k + 1) - i] = Base * Place[k - i] /\ Place[k - i] \in Nat \ {0}
    BY <2>1, PlaceFacts
  <2>3. Base * Place[k - i] = Place[k - i] * Base
    BY <1>1, <2>2
  <2>4. n \div (Place[k - i] * Base) = (n \div Base) \div Place[k - i]
    BY <1>1, <2>2, DivDiv, Zenon
  <2> QED BY <1>2, <2>1, <2>2, <2>3, <2>4 DEF Digits
<1> QED BY <1>4, <1>5 DEF n

LEMMA DigitsOnto ==
    \A k \in Nat : \A b \in [1 .. k -> Bytes] : \E n \in 0 .. Place[k] - 1 : Digits(n, k) = b
<1> DEFINE Onto(k) == \A b \in [1 .. k -> Bytes] : \E n \in 0 .. Place[k] - 1 : Digits(n, k) = b
           S == {k \in Nat : Onto(k)}
<1>1. 0 \in S
  <2>1. 0 \in 0 .. Place[0] - 1
    BY PlaceFacts
  <2>2. ASSUME NEW b \in [1 .. 0 -> Bytes] PROVE Digits(0, 0) = b
    BY DEF Digits
  <2> QED BY <2>1, <2>2
<1>2. ASSUME NEW k \in Nat, k \in S PROVE k + 1 \in S
  <2>1. ASSUME NEW b \in [1 .. k + 1 -> Bytes]
        PROVE  \E n \in 0 .. Place[k + 1] - 1 : Digits(n, k + 1) = b
    <3> DEFINE c == [i \in 1 .. k |-> b[i]]
               d == b[k + 1]
    <3>1. c \in [1 .. k -> Bytes] /\ d \in Bytes /\ d \in 0 .. Base - 1
      BY DEF Bytes
    <3>2. PICK m \in 0 .. Place[k] - 1 : Digits(m, k) = c
      BY <1>2, <3>1
    <3> DEFINE n == Base * m + d
    <3>3. Place[k] \in Nat \ {0} /\ Place[k + 1] = Base * Place[k]
      BY PlaceFacts
    <3>4. m \in Nat /\ n \in 0 .. Place[k + 1] - 1 /\ n \in Nat
      <4>1. m \in Nat /\ Base \in Nat /\ d \in Nat /\ d < Base
        BY <3>1, <3>3, BaseAssumption
      <4>2. PICK e \in Nat : Place[k] = m + 1 + e
        <5>1. Place[k] - m - 1 \in Nat /\ Place[k] = m + 1 + (Place[k] - m - 1)
          BY <3>2, <3>3
        <5> QED BY <5>1
      <4>3. Place[k + 1] = Base * m + Base + Base * e /\ Base * e \in Nat /\ Base * m \in Nat
        BY <3>3, <4>1, <4>2
      <4> QED BY <4>1, <4>3
    <3>5. Digits(n, k + 1)[k + 1] = d /\ \A i \in 1 .. k : Digits(n, k + 1)[i] = Digits(m, k)[i]
      BY <3>1, <3>4, DigitsAppend
    <3>6. Digits(n, k + 1) \in [1 .. k + 1 -> Bytes]
      BY <3>4, DigitsType
    <3> HIDE DEF n
    <3>7. \A i \in 1 .. k : Digits(n, k + 1)[i] = b[i]
      BY <3>2, <3>5
    <3>8. \A i \in 1 .. k + 1 : i \in 1 .. k \/ i = k + 1
      OBVIOUS
    <3>9. \A i \in 1 .. k + 1 : Digits(n, k + 1)[i] = b[i]
      BY <3>5, <3>7, <3>8
    <3>10. Digits(n, k + 1) = b
      BY <3>6, <3>9
    <3> QED BY <3>4, <3>10
  <2> QED BY <2>1
<1> HIDE DEF S
<1>3. Nat \subseteq S
  BY <1>1, <1>2, Induction
<1> QED BY <1>3 DEF S

\* Every byte string is read as a number, and that number is written as it.
THEOREM NumbersKeepBytes ==
    ASSUME NEW b \in Seq(Bytes)
    PROVE  Value(b) \in 0 .. Place[Len(b)] - 1 /\ Digits(Value(b), Len(b)) = b
<1>1. Len(b) \in Nat /\ b \in [1 .. Len(b) -> Bytes]
  OBVIOUS
<1>2. \E n \in 0 .. Place[Len(b)] - 1 : Digits(n, Len(b)) = b
  BY <1>1, DigitsOnto
<1> QED BY <1>2 DEF Value
=============================================================================
