------------------------------ MODULE ArchiveProofs ------------------------------
(***************************************************************************)
(* Proofs about Archive, for every value of its constants: a number comes  *)
(* back from the bytes that a host of either byte order has made of it,    *)
(* and the reader stays in step with the entries of the writer.            *)
(***************************************************************************)
EXTENDS Archive, SequenceTheorems, WellFoundedInduction, TLAPS

-----------------------------------------------------------------------------
(* Numbers, and functions on them by recursion. *)

\* A set of numbers that has 0, and with each number the next, has all.
LEMMA AllNumbers ==
    ASSUME NEW S, 0 \in S, \A n \in S : n + 1 \in S
    PROVE  Nat \subseteq S
<1> DEFINE T == Nat \ S
<1> SUFFICES ASSUME T # {} PROVE FALSE
  OBVIOUS
<1>1. IsWellFoundedOn(OpToRel(<, Nat), Nat)
  BY NatLessThanWellFounded
<1>2. PICK x \in T : \A y \in T : ~ (<<y, x>> \in OpToRel(<, Nat))
  BY <1>1, WFMin
<1>3. x # 0 /\ x - 1 \in Nat /\ x - 1 < x /\ x - 1 + 1 = x
  <2>1. x \in Nat /\ x # 0
    BY <1>2
  <2> QED
    BY <2>1
<1>4. x - 1 \notin T
  <2>1. <<x - 1, x>> \in Nat \X Nat /\ <<x - 1, x>>[1] = x - 1 /\ <<x - 1, x>>[2] = x
    BY <1>2, <1>3
  <2>2. <<x - 1, x>> \in OpToRel(<, Nat)
    BY <1>3, <2>1 DEF OpToRel
  <2> QED
    BY <1>2, <2>2
<1>5. x - 1 \in S
  BY <1>3, <1>4
<1> QED
  BY <1>2, <1>3, <1>5

\* h follows the steps g from a, up to n
Follows(h, a, g, n) ==
    /\ h[0] = a
    /\ \A k \in Nat : k < n => h[k + 1] = g[k][h[k]]

\* Two functions that follow the same steps are the same.
LEMMA FollowsOnce ==
    ASSUME NEW a, NEW g, NEW n \in Nat, NEW h1, Follows(h1, a, g, n),
           NEW h2, Follows(h2, a, g, n), NEW k \in Nat, k <= n
    PROVE  h1[k] = h2[k]
<1> DEFINE S == {j \in Nat : j <= n => h1[j] = h2[j]}
<1>1. 0 \in S
  BY DEF Follows
<1>2. ASSUME NEW j \in S PROVE j + 1 \in S
  BY DEF Follows
<1>3. k \in S
  <2> HIDE DEF S
  <2> QED
    BY <1>1, <1>2, AllNumbers
<1> QED
  BY <1>3

\* Steps can be followed for ever.
LEMMA Recursion ==
    ASSUME NEW X, NEW a \in X, NEW g \in [Nat -> [X -> X]]
    PROVE  \E f \in [Nat -> X] : \A n \in Nat : Follows(f, a, g, n)
<1> DEFINE From(n) == {h \in [Nat -> X] : Follows(h, a, g, n)}
           S == {n \in Nat : From(n) # {}}
<1>1. 0 \in S
  <2>1. [k \in Nat |-> a] \in From(0)
    BY DEF Follows
  <2> QED
    BY <2>1
<1>2. ASSUME NEW n \in S PROVE n + 1 \in S
  <2>1. PICK h \in From(n) : TRUE
    OBVIOUS
  <2> DEFINE hh == [k \in Nat |-> IF k = n + 1 THEN g[n][h[n]] ELSE h[k]]
  <2>2. n \in Nat /\ h \in [Nat -> X] /\ Follows(h, a, g, n)
    BY <2>1
  <2>3. g[n][h[n]] \in X
    BY <2>2
  <2>4. hh \in [Nat -> X]
    BY <2>2, <2>3
  <2>5. hh[0] = a
    BY <2>2 DEF Follows
  <2>6. ASSUME NEW k \in Nat, k < n + 1 PROVE hh[k + 1] = g[k][hh[k]]
    <3>1. hh[k] = h[k]
      BY <2>2, <2>6
    <3>2. CASE k = n
      BY <3>1, <3>2
    <3>3. CASE k # n
      <4>1. k < n /\ k + 1 # n + 1
        BY <2>2, <2>6, <3>3
      <4>2. hh[k + 1] = h[k + 1]
        BY <4>1
      <4>3. h[k + 1] = g[k][h[k]]
        BY <2>2, <4>1 DEF Follows
      <4> QED
        BY <3>1, <4>2, <4>3
    <3> QED
      BY <3>2, <3>3
  <2>7. hh \in From(n + 1)
    <3> HIDE DEF hh
    <3> QED
      BY <2>2, <2>4, <2>5, <2>6 DEF Follows
  <2> QED
    BY <2>2, <2>7
<1>3. \A n \in Nat : From(n) # {}
  <2>1. Nat \subseteq S
    <3> HIDE DEF S
    <3> QED
      BY <1>1, <1>2, AllNumbers
  <2> QED
    BY <2>1
<1> DEFINE H(n) == CHOOSE h : h \in From(n)
           f == [n \in Nat |-> H(n)[n]]
<1>4. ASSUME NEW n \in Nat PROVE H(n) \in [Nat -> X] /\ Follows(H(n), a, g, n)
  <2>1. H(n) \in From(n)
    BY <1>3
  <2> QED
    BY <2>1
<1> HIDE DEF H
<1>5. f \in [Nat -> X]
  BY <1>4
<1>6. f[0] = a
  BY <1>4 DEF Follows
<1>7. ASSUME NEW k \in Nat PROVE f[k + 1] = g[k][f[k]]
  <2>1. k + 1 \in Nat /\ k < k + 1 /\ k <= k
    OBVIOUS
  <2>2. f[k + 1] = H(k + 1)[k + 1] /\ f[k] = H(k)[k]
    BY <2>1
  <2>3. H(k + 1)[k + 1] = g[k][H(k + 1)[k]]
    BY <1>4, <2>1 DEF Follows
  <2>4. Follows(H(k + 1), a, g, k)
    BY <1>4, <2>1 DEF Follows
  <2>5. H(k + 1)[k] = H(k)[k]
    BY <1>4, <2>1, <2>4, FollowsOnce
  <2> QED
    BY <2>2, <2>3, <2>5
<1> HIDE DEF f
<1>8. \A n \in Nat : Follows(f, a, g, n)
  BY <1>6, <1>7 DEF Follows
<1> QED
  BY <1>5, <1>8

-----------------------------------------------------------------------------
(* Division and powers. *)

\* Division with a remainder
LEMMA Divided ==
    ASSUME NEW n \in Int, NEW b \in Nat \ {0}
    PROVE  /\ n \div b \in Int
           /\ n % b \in 0 .. b - 1
           /\ n = (n \div b) * b + (n % b)
OBVIOUS

\* ... which is the only one.
LEMMA DividedOnce ==
    ASSUME NEW b \in Nat \ {0}, NEW q \in Int, NEW r \in 0 .. b - 1
    PROVE  (q * b + r) \div b = q /\ (q * b + r) % b = r
OBVIOUS

\* Dividing twice
LEMMA DividedTwice ==
    ASSUME NEW n \in Int, NEW a \in Nat \ {0}, NEW b \in Nat \ {0}
    PROVE  (n \div a) \div b = n \div (a * b)
OBVIOUS

\* The power of k and that of k + 1
LEMMA Powers ==
    /\ Power[0] = 1
    /\ \A k \in Nat : Power[k] \in Nat \ {0} /\ Power[k + 1] = Power[k] * Base
<1> DEFINE g == [k \in Nat |-> [x \in Nat |-> Base * x]]
<1>0. Base \in Nat \ {0, 1}
  BY ArchiveAssumption
<1>1. g \in [Nat -> [Nat -> Nat]]
  BY <1>0
<1>2. PICK f \in [Nat -> Nat] : \A n \in Nat : Follows(f, 1, g, n)
  <2> HIDE DEF g
  <2> QED
    BY <1>1, Recursion
<1>3. f[0] = 1 /\ \A k \in Nat : f[k + 1] = Base * f[k]
  <2>1. f[0] = 1
    BY <1>2 DEF Follows
  <2>2. ASSUME NEW k \in Nat PROVE f[k + 1] = Base * f[k]
    <3>1. f[k + 1] = g[k][f[k]]
      <4> HIDE DEF g
      <4>1. Follows(f, 1, g, k + 1) /\ k < k + 1
        BY <1>2
      <4> QED
        BY <4>1 DEF Follows
    <3> QED
      BY <3>1
  <2> QED
    BY <2>1, <2>2
<1>4. f = [k \in Nat |-> IF k = 0 THEN 1 ELSE Base * f[k - 1]]
  <2>1. ASSUME NEW k \in Nat PROVE f[k] = IF k = 0 THEN 1 ELSE Base * f[k - 1]
    <3>1. CASE k # 0
      <4>1. k - 1 \in Nat /\ (k - 1) + 1 = k
        BY <3>1
      <4>2. f[(k - 1) + 1] = Base * f[k - 1]
        BY <1>3, <4>1
      <4> QED
        BY <3>1, <4>1, <4>2
    <3> QED
      BY <1>3, <3>1
  <2>2. f = [k \in Nat |-> f[k]]
    BY <1>2
  <2> QED
    BY <2>1, <2>2
<1>5. Power = [k \in Nat |-> IF k = 0 THEN 1 ELSE Base * Power[k - 1]]
  BY <1>4 DEF Power
<1>6. Power[0] = 1
  BY <1>5
<1>7. ASSUME NEW k \in Nat PROVE Power[k + 1] = Base * Power[k]
  <2>1. k + 1 \in Nat /\ k + 1 # 0 /\ (k + 1) - 1 = k
    OBVIOUS
  <2>2. Power[k + 1] = IF k + 1 = 0 THEN 1 ELSE Base * Power[(k + 1) - 1]
    BY <1>5, <2>1
  <2> QED
    BY <2>1, <2>2
<1> DEFINE S == {k \in Nat : Power[k] \in Nat \ {0}}
<1>8. 0 \in S
  BY <1>6
<1>9. ASSUME NEW k \in S PROVE k + 1 \in S
  <2>1. Power[k + 1] = Base * Power[k] /\ Power[k] \in Nat \ {0}
    BY <1>7
  <2>2. Base * Power[k] \in Nat \ {0}
    BY <1>0, <2>1
  <2> QED
    BY <2>1, <2>2
<1>10. Nat \subseteq S
  <2> HIDE DEF S
  <2> QED
    BY <1>8, <1>9, AllNumbers
<1>11. ASSUME NEW k \in Nat
       PROVE  Power[k] \in Nat \ {0} /\ Power[k + 1] = Power[k] * Base
  <2>1. Power[k] \in Nat \ {0}
    BY <1>10
  <2>2. Base * Power[k] = Power[k] * Base
    BY <1>0, <2>1
  <2> QED
    BY <1>7, <2>1, <2>2
<1> QED
  BY <1>6, <1>11

-----------------------------------------------------------------------------
(* A number and its bytes. *)

\* The value of the first k bytes
Horner(h, bytes) ==
    /\ h[0] = 0
    /\ \A k \in Nat : k < Len(bytes) => h[k + 1] = h[k] * Base + bytes[k + 1]

\* The number of bytes is the last value of them.
LEMMA BigEndianIs ==
    ASSUME NEW bytes \in Seq(Byte)
    PROVE  \E h : Horner(h, bytes) /\ BigEndian(bytes) = h[Len(bytes)]
<1> DEFINE L == Len(bytes)
           g == [k \in Nat |-> [x \in Int |->
                    IF k < L THEN x * Base + bytes[k + 1] ELSE x]]
           Is(h) == h = [k \in 0 .. L |-> IF k = 0 THEN 0 ELSE h[k - 1] * Base + bytes[k]]
<1>0. L \in Nat /\ Base \in Nat /\ \A k \in 1 .. L : bytes[k] \in Int
  BY ArchiveAssumption DEF Byte
<1>1. g \in [Nat -> [Int -> Int]]
  <2>1. ASSUME NEW k \in Nat, NEW x \in Int
        PROVE  (IF k < L THEN x * Base + bytes[k + 1] ELSE x) \in Int
    <3>1. CASE k < L
      <4>1. k + 1 \in 1 .. L
        BY <1>0, <3>1
      <4>2. x * Base \in Int /\ bytes[k + 1] \in Int
        BY <1>0, <4>1
      <4> QED
        BY <3>1, <4>2
    <3> QED
      BY <3>1
  <2> QED
    BY <2>1
<1>2. PICK f \in [Nat -> Int] : \A n \in Nat : Follows(f, 0, g, n)
  <2> HIDE DEF g
  <2>1. 0 \in Int
    OBVIOUS
  <2> QED
    BY <1>1, <2>1, Recursion, Zenon
<1>3. f[0] = 0 /\ \A k \in Nat : k < L => f[k + 1] = f[k] * Base + bytes[k + 1]
  <2>1. f[0] = 0
    BY <1>2 DEF Follows
  <2>2. ASSUME NEW k \in Nat, k < L PROVE f[k + 1] = f[k] * Base + bytes[k + 1]
    <3>1. f[k + 1] = g[k][f[k]]
      <4> HIDE DEF g
      <4>1. Follows(f, 0, g, k + 1) /\ k < k + 1
        BY <1>2
      <4> QED
        BY <4>1 DEF Follows
    <3> QED
      BY <2>2, <3>1
  <2> QED
    BY <2>1, <2>2
<1> HIDE DEF L
<1>4. Is([k \in 0 .. L |-> f[k]])
  <2> DEFINE h == [k \in 0 .. L |-> f[k]]
  <2>1. ASSUME NEW k \in 0 .. L
        PROVE  h[k] = IF k = 0 THEN 0 ELSE h[k - 1] * Base + bytes[k]
    <3>1. CASE k # 0
      <4>1. k - 1 \in Nat /\ k - 1 < L /\ (k - 1) + 1 = k /\ k - 1 \in 0 .. L
        BY <1>0, <3>1
      <4>2. f[(k - 1) + 1] = f[k - 1] * Base + bytes[(k - 1) + 1]
        BY <1>3, <4>1
      <4> QED
        BY <3>1, <4>1, <4>2
    <3>2. CASE k = 0
      BY <1>0, <1>3, <3>2
    <3> QED
      BY <3>1, <3>2
  <2>2. h = [k \in 0 .. L |-> h[k]]
    OBVIOUS
  <2>3. Is(h)
    <3> HIDE DEF h
    <3> QED
      BY <2>1, <2>2
  <2> QED
    BY <2>3
<1> DEFINE h == CHOOSE h : Is(h)
<1>5. Is(h)
  BY <1>4
<1>6. BigEndian(bytes) = h[L]
  BY DEF BigEndian, L
<1> HIDE DEF h
<1>7. h[0] = 0
  BY <1>0, <1>5
<1>8. ASSUME NEW k \in Nat, k < L PROVE h[k + 1] = h[k] * Base + bytes[k + 1]
  <2>1. k + 1 \in 0 .. L /\ k + 1 # 0 /\ (k + 1) - 1 = k
    BY <1>0, <1>8
  <2>2. h[k + 1] = IF k + 1 = 0 THEN 0 ELSE h[(k + 1) - 1] * Base + bytes[k + 1]
    BY <1>5, <2>1
  <2> QED
    BY <2>1, <2>2
<1> QED
  BY <1>6, <1>7, <1>8 DEF Horner, L

\* The values of the first bytes are within what so many bytes can hold.
LEMMA HornerRange ==
    ASSUME NEW bytes \in Seq(Byte), NEW h, Horner(h, bytes),
           NEW k \in Nat, k <= Len(bytes)
    PROVE  h[k] \in 0 .. Power[k] - 1
<1> DEFINE S == {j \in Nat : j <= Len(bytes) => h[j] \in 0 .. Power[j] - 1}
<1>0. Base \in Nat \ {0, 1} /\ Len(bytes) \in Nat
  BY ArchiveAssumption
<1>1. 0 \in S
  <2>1. h[0] = 0 /\ Power[0] - 1 = 0
    BY Powers DEF Horner
  <2> QED
    BY <2>1
<1>2. ASSUME NEW j \in S PROVE j + 1 \in S
  <2> SUFFICES ASSUME j + 1 <= Len(bytes) PROVE h[j + 1] \in 0 .. Power[j + 1] - 1
    OBVIOUS
  <2>1. j \in Nat /\ j < Len(bytes) /\ j + 1 \in 1 .. Len(bytes)
    BY <1>0
  <2>2. h[j] \in 0 .. Power[j] - 1
    BY <1>0, <2>1
  <2>3. h[j + 1] = h[j] * Base + bytes[j + 1]
    BY <2>1 DEF Horner
  <2>4. bytes[j + 1] \in 0 .. Base - 1
    BY <2>1, ElementOfSeq DEF Byte
  <2>5. Power[j] \in Nat \ {0} /\ Power[j + 1] = Power[j] * Base
    BY <2>1, Powers
  <2> DEFINE x == h[j]  p == Power[j]  y == bytes[j + 1]
  <2>6. x \in Nat /\ x + 1 <= p /\ p \in Nat /\ y \in Nat /\ y <= Base - 1
    BY <2>2, <2>4, <2>5, <1>0
  <2> HIDE DEF x, p, y
  <2>7. (x + 1) * Base <= p * Base /\ (x + 1) * Base = x * Base + Base
        /\ x * Base \in Nat /\ p * Base \in Nat
    BY <1>0, <2>6
  <2>8. x * Base + y \in 0 .. (p * Base) - 1
    <3> DEFINE xb == x * Base  pb == p * Base
    <3>1. xb \in Nat /\ pb \in Nat /\ xb + Base <= pb
      BY <1>0, <2>7
    <3> HIDE DEF xb, pb
    <3>2. xb + y \in 0 .. pb - 1
      BY <1>0, <2>6, <3>1
    <3> QED
      BY <3>2 DEF xb, pb
  <2> QED
    BY <2>3, <2>5, <2>8 DEF x, p, y
<1>3. k \in S
  <2> HIDE DEF S
  <2> QED
    BY <1>1, <1>2, AllNumbers
<1> QED
  BY <1>3

\* ... and are what division by the weight of the others gives of the last one.
LEMMA HornerQuotient ==
    ASSUME NEW bytes \in Seq(Byte), NEW h, Horner(h, bytes),
           NEW j \in Nat, j <= Len(bytes)
    PROVE  h[Len(bytes)] \div Power[j] = h[Len(bytes) - j]
<1> DEFINE L == Len(bytes)
           S == {i \in Nat : i <= L => h[L] \div Power[i] = h[L - i]}
<1>0. Base \in Nat \ {0, 1} /\ L \in Nat /\ h[L] \in Nat
  <2>1. Base \in Nat \ {0, 1} /\ L \in Nat /\ L <= L
    BY ArchiveAssumption
  <2>2. h[L] \in 0 .. Power[L] - 1
    BY <2>1, HornerRange
  <2> QED
    BY <2>1, <2>2
<1>1. 0 \in S
  <2>1. Power[0] = 1
    BY Powers
  <2>2. \A n \in Nat : n \div 1 = n /\ n - 0 = n
    OBVIOUS
  <2>3. h[L] \div Power[0] = h[L] /\ L - 0 = L
    BY <1>0, <2>1, <2>2
  <2> QED
    BY <2>3
<1>2. ASSUME NEW i \in S PROVE i + 1 \in S
  <2> SUFFICES ASSUME i + 1 <= L PROVE h[L] \div Power[i + 1] = h[L - (i + 1)]
    OBVIOUS
  <2> DEFINE k == L - (i + 1)
  <2>1. i \in Nat /\ i <= L /\ k \in Nat /\ k < L /\ k + 1 = L - i /\ k <= L
        /\ k + 1 \in 1 .. L
    BY <1>0
  <2>2. h[L] \div Power[i] = h[k + 1]
    BY <2>1
  <2> HIDE DEF k
  <2>3. h[k + 1] = h[k] * Base + bytes[k + 1]
    BY <2>1 DEF Horner
  <2>4. bytes[k + 1] \in 0 .. Base - 1
    BY <2>1, ElementOfSeq DEF Byte
  <2>5. h[k] \in Int
    <3>1. h[k] \in 0 .. Power[k] - 1
      BY <2>1, HornerRange
    <3> QED
      BY <3>1
  <2>6. h[k + 1] \div Base = h[k]
    BY <1>0, <2>3, <2>4, <2>5, DividedOnce
  <2>7. Power[i] \in Nat \ {0} /\ Power[i + 1] = Power[i] * Base
    BY <2>1, Powers
  <2>8. (h[L] \div Power[i]) \div Base = h[L] \div (Power[i] * Base)
    BY <1>0, <2>7, DividedTwice
  <2> QED
    BY <2>2, <2>6, <2>7, <2>8 DEF k
<1>3. j \in S
  <2> HIDE DEF S
  <2> QED
    BY <1>1, <1>2, AllNumbers
<1> QED
  BY <1>3

\* The digits of a number are as many bytes.
LEMMA DigitsType ==
    ASSUME NEW n \in Int, NEW w \in Nat
    PROVE  /\ Digits(n, w) \in Seq(Byte)
           /\ Len(Digits(n, w)) = w
           /\ \A k \in 1 .. w : Digits(n, w)[k] = (n \div Power[w - k]) % Base
<1>1. ASSUME NEW k \in 1 .. w PROVE (n \div Power[w - k]) % Base \in Byte
  <2>1. w - k \in Nat /\ Base \in Nat \ {0}
    BY ArchiveAssumption
  <2>2. Power[w - k] \in Nat \ {0}
    BY <2>1, Powers
  <2>3. n \div Power[w - k] \in Int
    BY <2>2, Divided
  <2> QED
    BY <2>1, <2>3, Divided DEF Byte
<1>2. Digits(n, w) \in [1 .. w -> Byte]
  BY <1>1 DEF Digits
<1>3. Digits(n, w) \in Seq(Byte) /\ Len(Digits(n, w)) = w
  BY <1>2, LenProperties, SeqDef
<1> QED
  BY <1>3 DEF Digits

\* Bytes are the digits of their number, which is within their range.
LEMMA DigitsOfNumber ==
    ASSUME NEW bytes \in Seq(Byte)
    PROVE  /\ BigEndian(bytes) \in 0 .. Power[Len(bytes)] - 1
           /\ Digits(BigEndian(bytes), Len(bytes)) = bytes
<1> DEFINE L == Len(bytes)
<1>0. Base \in Nat \ {0, 1} /\ L \in Nat
  BY ArchiveAssumption
<1>1. PICK h : Horner(h, bytes) /\ BigEndian(bytes) = h[L]
  BY BigEndianIs
<1>2. h[L] \in 0 .. Power[L] - 1
  BY <1>0, <1>1, HornerRange
<1>3. ASSUME NEW k \in 1 .. L PROVE (h[L] \div Power[L - k]) % Base = bytes[k]
  <2>1. L - k \in Nat /\ L - k <= L /\ L - (L - k) = k
    BY <1>0
  <2>2. h[L] \div Power[L - k] = h[k]
    BY <1>1, <2>1, HornerQuotient
  <2>3. k - 1 \in Nat /\ k - 1 < L /\ (k - 1) + 1 = k
    BY <1>0
  <2>4. h[(k - 1) + 1] = h[k - 1] * Base + bytes[(k - 1) + 1]
    BY <1>1, <2>3 DEF Horner
  <2>5. h[k - 1] \in Int
    <3>1. h[k - 1] \in 0 .. Power[k - 1] - 1
      BY <1>1, <2>3, HornerRange
    <3> QED
      BY <3>1
  <2>6. bytes[k] \in 0 .. Base - 1
    BY <1>0 DEF Byte
  <2>7. (h[k - 1] * Base + bytes[k]) % Base = bytes[k]
    BY <1>0, <2>5, <2>6, DividedOnce
  <2> QED
    BY <2>2, <2>3, <2>4, <2>7
<1>4. h[L] \in Int
  BY <1>2
<1>5. /\ Digits(h[L], L) \in Seq(Byte) /\ Len(Digits(h[L], L)) = L
      /\ \A k \in 1 .. L : Digits(h[L], L)[k] = (h[L] \div Power[L - k]) % Base
  BY <1>0, <1>4, DigitsType
<1>6. Digits(h[L], L) = bytes
  BY <1>3, <1>5, SeqEqual
<1> QED
  BY <1>1, <1>2, <1>6

\* A number within their range is the number of its digits.
LEMMA NumberOfDigits ==
    ASSUME NEW w \in Nat, NEW n \in 0 .. Power[w] - 1
    PROVE  BigEndian(Digits(n, w)) = n
<1> DEFINE d == Digits(n, w)
<1>0. Base \in Nat \ {0, 1} /\ n \in Int
  BY ArchiveAssumption
<1>1. /\ d \in Seq(Byte) /\ Len(d) = w
      /\ \A k \in 1 .. w : d[k] = (n \div Power[w - k]) % Base
  BY <1>0, DigitsType
<1> HIDE DEF d
<1>2. PICK h : Horner(h, d) /\ BigEndian(d) = h[w]
  BY <1>1, BigEndianIs
<1> DEFINE S == {k \in Nat : k <= w => h[k] = n \div Power[w - k]}
<1>3. 0 \in S
  <2>1. Power[w] \in Nat \ {0}
    BY Powers
  <2>2. (0 * Power[w] + n) \div Power[w] = 0
    BY <2>1, DividedOnce
  <2>3. 0 * Power[w] + n = n
    BY <2>1
  <2> QED
    BY <1>2, <2>2, <2>3 DEF Horner
<1>4. ASSUME NEW k \in S PROVE k + 1 \in S
  <2> SUFFICES ASSUME k + 1 <= w PROVE h[k + 1] = n \div Power[w - (k + 1)]
    OBVIOUS
  <2> DEFINE i == w - (k + 1)
  <2>1. k \in Nat /\ k <= w /\ k < w /\ i \in Nat /\ i + 1 = w - k /\ k + 1 \in 1 .. w
    OBVIOUS
  <2>2. h[k] = n \div Power[i + 1]
    BY <2>1
  <2>3. h[k + 1] = h[k] * Base + d[k + 1]
    BY <1>1, <1>2, <2>1 DEF Horner
  <2>4. d[k + 1] = (n \div Power[i]) % Base
    BY <1>1, <2>1
  <2> HIDE DEF i
  <2>5. Power[i] \in Nat \ {0} /\ Power[i + 1] = Power[i] * Base
    BY <2>1, Powers
  <2>6. (n \div Power[i]) \div Base = n \div (Power[i] * Base)
    BY <1>0, <2>5, DividedTwice
  <2>7. n \div Power[i] \in Int
    BY <1>0, <2>5, Divided
  <2>8. n \div Power[i] = ((n \div Power[i]) \div Base) * Base + ((n \div Power[i]) % Base)
    BY <1>0, <2>7, Divided
  <2> QED
    BY <2>2, <2>3, <2>4, <2>5, <2>6, <2>8 DEF i
<1>5. w \in S
  <2> HIDE DEF S
  <2> QED
    BY <1>3, <1>4, AllNumbers
<1>6. h[w] = n \div 1
  BY <1>5, Powers
<1>7. n \div 1 = n
  BY <1>0
<1> QED
  BY <1>2, <1>6, <1>7 DEF d

\* The powers of a sum
LEMMA PowerOfSum ==
    ASSUME NEW i \in Nat, NEW j \in Nat
    PROVE  Power[i + j] = Power[i] * Power[j]
<1> DEFINE S == {k \in Nat : Power[i + k] = Power[i] * Power[k]}
<1>1. 0 \in S
  <2>1. Power[i] * 1 = Power[i] /\ i + 0 = i
    BY Powers
  <2> QED
    BY <2>1, Powers
<1>2. ASSUME NEW k \in S PROVE k + 1 \in S
  <2>1. k \in Nat /\ Power[i + k] = Power[i] * Power[k] /\ i + (k + 1) = (i + k) + 1
    OBVIOUS
  <2>2. Power[(i + k) + 1] = Power[i + k] * Base /\ Power[k + 1] = Power[k] * Base
    BY <2>1, Powers
  <2>3. Power[i] \in Nat /\ Power[k] \in Nat /\ Base \in Nat
    BY <2>1, Powers, ArchiveAssumption
  <2>4. \A x, y, z \in Nat : (x * y) * z = x * (y * z)
    OBVIOUS
  <2>5. (Power[i] * Power[k]) * Base = Power[i] * (Power[k] * Base)
    BY <2>3, <2>4
  <2> QED
    BY <2>1, <2>2, <2>5
<1>3. j \in S
  <2> HIDE DEF S
  <2> QED
    BY <1>1, <1>2, AllNumbers
<1> QED
  BY <1>3

\* A digit of a number is not changed by multiples of the power of its width.
LEMMA DigitOfRemainder ==
    ASSUME NEW n \in Int, NEW w \in Nat, NEW k \in 1 .. w
    PROVE  ((n % Power[w]) \div Power[w - k]) % Base = (n \div Power[w - k]) % Base
<1> DEFINE P == Power[w]  Q == Power[w - k]  R == Power[k - 1]
           q == n \div P  r == n % P
           a == r \div Q  s == r % Q
           c == a \div Base  d == a % Base
<1>1. Base \in Nat \ {0} /\ w - k \in Nat /\ k - 1 \in Nat
      /\ (w - k) + k = w /\ (k - 1) + 1 = k /\ k \in Nat
  BY ArchiveAssumption
<1>2. P \in Nat \ {0} /\ Q \in Nat \ {0} /\ R \in Nat \ {0}
  BY <1>1, Powers
<1>3. P = Q * (R * Base)
  <2>1. Power[(w - k) + k] = Power[w - k] * Power[k]
    BY <1>1, PowerOfSum
  <2>2. Power[(k - 1) + 1] = R * Base
    BY <1>1, Powers
  <2> QED
    BY <1>1, <2>1, <2>2
<1>4. q \in Int /\ r \in Int /\ n = q * P + r
  <2>1. q \in Int /\ r \in 0 .. P - 1 /\ n = q * P + r
    <3> HIDE DEF P
    <3> QED
      BY <1>2, Divided
  <2> QED
    BY <1>2, <2>1
<1>5. a \in Int /\ s \in 0 .. Q - 1 /\ r = a * Q + s
  BY <1>2, <1>4, Divided
<1>6. c \in Int /\ d \in 0 .. Base - 1 /\ a = c * Base + d
  BY <1>1, <1>5, Divided
<1> HIDE DEF P, Q, R, q, r, a, s, c, d
<1>7. n = (q * (R * Base) + a) * Q + s
  <2>1. q * (Q * (R * Base)) = (q * (R * Base)) * Q
    <3>1. \A x, y, z \in Int : x * (y * z) = (x * z) * y
      OBVIOUS
    <3>2. R * Base \in Int
      BY <1>1, <1>2
    <3> QED
      BY <1>2, <1>4, <3>1, <3>2
  <2>2. \A x, y, z \in Int : x * z + y * z = (x + y) * z
    OBVIOUS
  <2>3. q * (R * Base) \in Int
    <3>1. R * Base \in Int
      BY <1>1, <1>2
    <3> QED
      BY <1>4, <3>1
  <2>4. (q * (R * Base)) * Q + a * Q = (q * (R * Base) + a) * Q
    BY <1>2, <1>5, <2>2, <2>3
  <2>5. (q * (R * Base)) * Q \in Int /\ a * Q \in Int
    BY <1>2, <1>5, <2>3
  <2> QED
    BY <1>3, <1>4, <1>5, <2>1, <2>4, <2>5
<1>8. n \div Q = q * (R * Base) + a
  <2>1. q * (R * Base) + a \in Int
    <3>1. R * Base \in Int
      BY <1>1, <1>2
    <3>2. q * (R * Base) \in Int
      BY <1>4, <3>1
    <3> QED
      BY <1>5, <3>2
  <2> QED
    BY <1>2, <1>5, <1>7, <2>1, DividedOnce
<1>9. q * (R * Base) + a = (q * R + c) * Base + d
  <2>1. \A x, y, z \in Int : x * (y * z) = (x * y) * z
    OBVIOUS
  <2>2. q * (R * Base) = (q * R) * Base
    BY <1>1, <1>2, <1>4, <2>1
  <2>3. \A x, y, z \in Int : x * z + y * z = (x + y) * z
    OBVIOUS
  <2>4. q * R \in Int
    BY <1>2, <1>4
  <2>5. (q * R) * Base + c * Base = (q * R + c) * Base
    BY <1>1, <1>6, <2>3, <2>4
  <2>6. (q * R) * Base \in Int /\ c * Base \in Int
    BY <1>1, <1>6, <2>4
  <2> QED
    BY <1>6, <2>2, <2>5, <2>6
<1>10. (n \div Q) % Base = d
  <2>1. q * R + c \in Int
    <3>1. q * R \in Int
      BY <1>2, <1>4
    <3> QED
      BY <1>6, <3>1
  <2> QED
    BY <1>1, <1>6, <1>8, <1>9, <2>1, DividedOnce
<1> QED
  BY <1>10 DEF Q, d, a, r, P

\* The digits of a number are those of the unsigned number of its width.
LEMMA DigitsOfUnsigned ==
    ASSUME NEW n \in Int, NEW w \in Nat
    PROVE  /\ unsigned(n, w) \in 0 .. Power[w] - 1
           /\ Digits(unsigned(n, w), w) = Digits(n, w)
<1>1. unsigned(n, w) \in 0 .. Power[w] - 1
  BY Powers, Divided DEF unsigned
<1>2. Digits(unsigned(n, w), w) = Digits(n, w)
  BY DigitOfRemainder DEF Digits, unsigned
<1> QED
  BY <1>1, <1>2

\* A signed number comes back from the unsigned one.
LEMMA SignedOfUnsigned ==
    ASSUME NEW w \in Nat, NEW v \in Int, 2 * v < Power[w], - Power[w] <= 2 * v
    PROVE  signed(unsigned(v, w), w) = v
<1> DEFINE P == Power[w]
<1>0. P \in Nat \ {0} /\ 2 * v < P /\ - P <= 2 * v
  BY Powers
<1> HIDE DEF P
<1>1. CASE v >= 0
  <2>1. v \in 0 .. P - 1
    BY <1>0, <1>1
  <2>2. 0 * P + v = v
    BY <1>0
  <2>3. (0 * P + v) % P = v
    <3>1. 0 \in Int
      OBVIOUS
    <3> QED
      BY <1>0, <2>1, <3>1, DividedOnce, Zenon
  <2> QED
    BY <1>0, <2>2, <2>3 DEF signed, unsigned, P
<1>2. CASE v < 0
  <2>1. v + P \in 0 .. P - 1
    BY <1>0, <1>2
  <2>2. (-1) * P + (v + P) = v
    BY <1>0
  <2>3. ((-1) * P + (v + P)) % P = v + P
    <3>1. -1 \in Int
      OBVIOUS
    <3> QED
      BY <1>0, <2>1, <3>1, DividedOnce, Zenon
  <2>4. unsigned(v, w) = v + P
    BY <2>2, <2>3 DEF unsigned, P
  <2>5. ~ (2 * (v + P) < P) /\ (v + P) - P = v
    BY <1>0
  <2> QED
    BY <2>4, <2>5 DEF signed, P
<1> QED
  BY <1>1, <1>2

-----------------------------------------------------------------------------
(* Hosts. *)

\* Bytes backwards
LEMMA BackwardsTwice ==
    ASSUME NEW bytes \in Seq(Byte)
    PROVE  /\ Backwards(bytes) \in Seq(Byte)
           /\ Len(Backwards(bytes)) = Len(bytes)
           /\ Backwards(Backwards(bytes)) = bytes
<1> DEFINE L == Len(bytes)
           b == Backwards(bytes)
<1>0. L \in Nat /\ DOMAIN bytes = 1 .. L /\ \A k \in 1 .. L : bytes[k] \in Byte
  BY LenProperties
<1>1. b = [k \in 1 .. L |-> bytes[L + 1 - k]]
  BY <1>0 DEF Backwards
<1>2. \A k \in 1 .. L : L + 1 - k \in 1 .. L /\ L + 1 - (L + 1 - k) = k
  BY <1>0
<1>3. b \in [1 .. L -> Byte]
  BY <1>0, <1>1, <1>2
<1>4. b \in Seq(Byte) /\ Len(b) = L
  BY <1>0, <1>3, LenProperties, SeqDef
<1>5. Backwards(b) = [k \in 1 .. L |-> b[L + 1 - k]]
  BY <1>3, <1>4 DEF Backwards
<1>6. \A k \in 1 .. L : b[L + 1 - k] = bytes[k]
  BY <1>1, <1>2
<1>7. bytes = [k \in 1 .. L |-> bytes[k]]
  BY LenProperties
<1>8. Backwards(b) = bytes
  <2> HIDE DEF b, L
  <2> QED
    BY <1>5, <1>6, <1>7
<1> QED
  BY <1>4, <1>8

\* A host of either byte order writes the digits of a number ...
LEMMA HostWrites ==
    ASSUME NEW order \in Orders, NEW w \in Nat, NEW n \in 0 .. Power[w] - 1
    PROVE  InMemory(big_endian_order(n, w, order), w, order) = Digits(n, w)
<1> DEFINE d == Digits(n, w)
           m == BigEndian(Backwards(d))
<1>1. CASE order = "big"
  BY <1>1 DEF InMemory, big_endian_order
<1>2. CASE order = "little"
  <2>1. d \in Seq(Byte) /\ Len(d) = w
    BY DigitsType
  <2>2. big_endian_order(n, w, order) = m
    BY <1>2 DEF big_endian_order, byteswap, InMemory, FromMemory
  <2> HIDE DEF d
  <2>3. /\ Backwards(d) \in Seq(Byte) /\ Len(Backwards(d)) = w
        /\ Backwards(Backwards(d)) = d
    BY <2>1, BackwardsTwice
  <2>4. Digits(m, w) = Backwards(d)
    BY <2>3, DigitsOfNumber
  <2>5. InMemory(m, w, order) = Backwards(Digits(m, w))
    BY <1>2 DEF InMemory
  <2> QED
    BY <2>2, <2>3, <2>4, <2>5 DEF d
<1> QED
  BY <1>1, <1>2 DEF Orders

\* ... and reads the number of bytes.
LEMMA HostReads ==
    ASSUME NEW order \in Orders, NEW bytes \in Seq(Byte)
    PROVE  big_endian_order(FromMemory(bytes, order), Len(bytes), order) = BigEndian(bytes)
<1> DEFINE w == Len(bytes)
           m == BigEndian(Backwards(bytes))
<1>1. CASE order = "big"
  BY <1>1 DEF FromMemory, big_endian_order
<1>2. CASE order = "little"
  <2>1. FromMemory(bytes, order) = m
    BY <1>2 DEF FromMemory
  <2>2. /\ Backwards(bytes) \in Seq(Byte) /\ Len(Backwards(bytes)) = w
        /\ Backwards(Backwards(bytes)) = bytes
    BY BackwardsTwice
  <2>3. Digits(m, w) = Backwards(bytes)
    BY <2>2, DigitsOfNumber
  <2>4. big_endian_order(m, w, order) = BigEndian(Backwards(Digits(m, w)))
    BY <1>2 DEF big_endian_order, byteswap, InMemory, FromMemory
  <2> QED
    BY <2>1, <2>2, <2>3, <2>4
<1> QED
  BY <1>1, <1>2 DEF Orders

-----------------------------------------------------------------------------
(* Values. *)

\* A value is a number, a truth or a string.
LEMMA ValueKinds ==
    ASSUME NEW item, IsValue(item)
    PROVE  /\ item = [item EXCEPT !.value = item.value]
           /\ \/ /\ item.type \in {"unsigned", "signed"}
                 /\ item.width \in Nat \ {0} /\ item.value \in Int
              \/ item.type = "bool" /\ item.value \in BOOLEAN
              \/ /\ item.type = "string" /\ item.value \in Seq(Byte)
                 /\ Len(item.value) \in 0 .. Power[CountWidth] - 1
<1>1. CASE /\ item \in [type : {"unsigned"}, width : Nat \ {0}, value : Nat]
           /\ item.value < Power[item.width]
  BY <1>1
<1>2. CASE /\ item \in [type : {"signed"}, width : Nat \ {0}, value : Int]
           /\ 2 * item.value < Power[item.width] /\ - Power[item.width] <= 2 * item.value
  BY <1>2
<1>3. CASE item \in [type : {"bool"}, width : {1}, value : BOOLEAN]
  BY <1>3
<1>4. CASE /\ item \in [type : {"string"}, width : {1}, value : Seq(Byte)]
           /\ Len(item.value) < Power[CountWidth]
  <2>1. item.value \in Seq(Byte) /\ item.type = "string"
    BY <1>4
  <2>2. Len(item.value) \in Nat /\ Power[CountWidth] \in Nat
    <3>1. CountWidth \in Nat
      BY ArchiveAssumption
    <3>2. Power[CountWidth] \in Nat
      BY <3>1, Powers
    <3> QED
      BY <2>1, <3>2
  <2>3. Len(item.value) \in 0 .. Power[CountWidth] - 1
    BY <1>4, <2>2
  <2>4. item = [item EXCEPT !.value = item.value]
    BY <1>4
  <2> QED
    BY <2>1, <2>3, <2>4
<1> QED
  BY <1>1, <1>2, <1>3, <1>4 DEF IsValue

\* A truth is a number of one byte.
LEMMA TruthFits ==
    /\ Power[1] = Base
    /\ 0 \in 0 .. Power[1] - 1 /\ 1 \in 0 .. Power[1] - 1
<1>1. Power[0] = 1 /\ Power[0 + 1] = Power[0] * Base /\ 0 + 1 = 1
  BY Powers
<1>2. Base \in Nat \ {0, 1}
  BY ArchiveAssumption
<1>3. Power[1] = Base
  BY <1>1, <1>2
<1> QED
  BY <1>2, <1>3

\* What a host writes of a value are its portable bytes.
LEMMA SavedIsPortable ==
    ASSUME writer \in Orders, NEW item, IsValue(item)
    PROVE  Saved(item) = Portable(item) /\ Portable(item) \in Seq(Byte)
<1>0. CountWidth \in Nat
  BY ArchiveAssumption
<1>1. CASE /\ item.type \in {"unsigned", "signed"}
           /\ item.width \in Nat \ {0} /\ item.value \in Int
  <2> DEFINE w == item.width  v == item.value
  <2>1. w \in Nat /\ v \in Int
    BY <1>1
  <2> HIDE DEF w, v
  <2>2. unsigned(v, w) \in 0 .. Power[w] - 1 /\ Digits(unsigned(v, w), w) = Digits(v, w)
    BY <2>1, DigitsOfUnsigned
  <2>3. Written(unsigned(v, w), w) = Digits(v, w)
    BY <2>1, <2>2, HostWrites DEF Written
  <2>4. Digits(v, w) \in Seq(Byte)
    BY <2>1, DigitsType
  <2>5. Saved(item) = Written(unsigned(v, w), w) /\ Portable(item) = Digits(v, w)
    BY <1>1 DEF Saved, Portable, v, w
  <2> QED
    BY <2>3, <2>4, <2>5
<1>2. CASE item.type = "bool" /\ item.value \in BOOLEAN
  <2> DEFINE n == IF item.value THEN 1 ELSE 0
  <2>1. n \in 0 .. Power[1] - 1 /\ n \in Int
    BY TruthFits
  <2>2. Saved(item) = Written(n, 1) /\ Portable(item) = Digits(n, 1)
    BY <1>2 DEF Saved, Portable
  <2> HIDE DEF n
  <2>3. Written(n, 1) = Digits(n, 1)
    BY <2>1, HostWrites DEF Written
  <2>4. Digits(n, 1) \in Seq(Byte)
    BY <2>1, DigitsType
  <2> QED
    BY <2>2, <2>3, <2>4
<1>3. CASE /\ item.type = "string" /\ item.value \in Seq(Byte)
           /\ Len(item.value) \in 0 .. Power[CountWidth] - 1
  <2> DEFINE n == Len(item.value)
  <2>1. n \in 0 .. Power[CountWidth] - 1 /\ n \in Int
    BY <1>3
  <2>2. /\ Saved(item) = Written(n, CountWidth) \o item.value
        /\ Portable(item) = Digits(n, CountWidth) \o item.value
    BY <1>3 DEF Saved, Portable
  <2> HIDE DEF n
  <2>3. Written(n, CountWidth) = Digits(n, CountWidth)
    BY <1>0, <2>1, HostWrites DEF Written
  <2>4. Digits(n, CountWidth) \in Seq(Byte)
    BY <1>0, <2>1, DigitsType
  <2> QED
    BY <1>3, <2>2, <2>3, <2>4, ConcatProperties
<1> QED
  BY <1>1, <1>2, <1>3, ValueKinds

\* Bytes of the stream that are there
LEMMA BytesThere ==
    ASSUME stream \in Seq(Byte), NEW at \in Nat, NEW size \in Nat, Has(at, size)
    PROVE  /\ Bytes(at, size) \in Seq(Byte)
           /\ Len(Bytes(at, size)) = size
           /\ \A i \in 1 .. size : Bytes(at, size)[i] = stream[at + i]
<1>1. Len(stream) \in Nat /\ at + size <= Len(stream)
  BY DEF Has
<1>2. \A i \in at + 1 .. at + size : stream[i] \in Byte
  BY <1>1, ElementOfSeq
<1> DEFINE m == at + 1  n == at + size
<1>3. m \in Int /\ n \in Int /\ n - m + 1 = size /\ (m <= n \/ size = 0)
      /\ \A i \in Int : m + i - 1 = at + i
  OBVIOUS
<1>4. /\ SubSeq(stream, m, n) \in Seq(Byte)
      /\ Len(SubSeq(stream, m, n)) = IF m <= n THEN n - m + 1 ELSE 0
      /\ \A i \in 1 .. n - m + 1 : SubSeq(stream, m, n)[i] = stream[m + i - 1]
  <2> HIDE DEF m, n
  <2>1. \A i \in m .. n : stream[i] \in Byte
    BY <1>2 DEF m, n
  <2> QED
    BY <1>3, <2>1, SubSeqProperties
<1> QED
  BY <1>3, <1>4 DEF Bytes

\* The bytes of the stream at a position are these, as far as it goes.
Stands(bytes, at) ==
    \A i \in 1 .. Len(bytes) : at + i <= Len(stream) => stream[at + i] = bytes[i]

\* What a reader takes where these bytes stand are these bytes.
LEMMA BytesStand ==
    ASSUME stream \in Seq(Byte), NEW at \in Nat, NEW bytes \in Seq(Byte),
           Stands(bytes, at), Has(at, Len(bytes))
    PROVE  Bytes(at, Len(bytes)) = bytes
<1> DEFINE L == Len(bytes)
<1>0. L \in Nat
  OBVIOUS
<1>1. /\ Bytes(at, L) \in Seq(Byte) /\ Len(Bytes(at, L)) = L
      /\ \A i \in 1 .. L : Bytes(at, L)[i] = stream[at + i]
  BY <1>0, BytesThere
<1>2. \A i \in 1 .. L : at + i <= Len(stream)
  BY <1>0 DEF Has
<1>3. \A i \in 1 .. L : Bytes(at, L)[i] = bytes[i]
  BY <1>1, <1>2 DEF Stands
<1> QED
  BY <1>1, <1>3, SeqEqual

\* Where the digits of a number stand a reader reads the number.
LEMMA NumberRead ==
    ASSUME stream \in Seq(Byte), reader \in Orders, NEW at \in Nat, NEW w \in Nat,
           NEW n \in 0 .. Power[w] - 1, Stands(Digits(n, w), at), Has(at, w)
    PROVE  Read(at, w) = n
<1>1. n \in Int /\ Digits(n, w) \in Seq(Byte) /\ Len(Digits(n, w)) = w
  BY DigitsType
<1>2. Bytes(at, w) = Digits(n, w)
  BY <1>1, BytesStand
<1>3. Read(at, w) = BigEndian(Digits(n, w))
  BY <1>1, <1>2, HostReads DEF Read
<1> QED
  BY <1>3, NumberOfDigits

\* Where a value stands a reader loads it, or fails if it is not all there.
LEMMA LoadedBack ==
    ASSUME stream \in Seq(Byte), reader \in Orders, writer \in Orders, NEW at \in Nat,
           NEW item, IsValue(item), Stands(Portable(item), at)
    PROVE  LET size == Len(Portable(item))
           IN  IF Has(at, size)
               THEN Loaded(item, at) = [ok |-> TRUE, size |-> size, value |-> item.value]
               ELSE ~ Loaded(item, at).ok
<1> DEFINE size == Len(Portable(item))
<1>0. CountWidth \in Nat /\ size \in Nat /\ Len(stream) \in Nat
  BY SavedIsPortable, ArchiveAssumption
<1>1. CASE item.type = "unsigned"
  <2>1. item.width \in Nat /\ item.value \in 0 .. Power[item.width] - 1
    <3>1. item.width \in Nat /\ item.value \in Nat /\ item.value < Power[item.width]
      BY <1>1 DEF IsValue
    <3>2. Power[item.width] \in Nat
      BY <3>1, Powers
    <3> QED
      BY <3>1, <3>2
  <2>2. Portable(item) = Digits(item.value, item.width) /\ size = item.width
    BY <1>1, <2>1, DigitsType DEF Portable
  <2>3. Has(at, size) => Read(at, item.width) = item.value
    BY <2>1, <2>2, NumberRead
  <2> QED
    BY <1>1, <2>2, <2>3 DEF Loaded
<1>2. CASE item.type = "signed"
  <2> DEFINE w == item.width  v == item.value  n == unsigned(v, w)
  <2>1. w \in Nat /\ v \in Int /\ 2 * v < Power[w] /\ - Power[w] <= 2 * v
    BY <1>2 DEF IsValue
  <2>2. Portable(item) = Digits(v, w)
    BY <1>2 DEF Portable
  <2> HIDE DEF w, v
  <2>3. n \in 0 .. Power[w] - 1 /\ Digits(n, w) = Digits(v, w)
    BY <2>1, DigitsOfUnsigned
  <2>4. size = w
    BY <2>1, <2>2, DigitsType
  <2>5. signed(n, w) = v
    BY <2>1, SignedOfUnsigned
  <2>6. Has(at, size) => Read(at, w) = n
    <3> HIDE DEF n
    <3> QED
      BY <2>1, <2>2, <2>3, <2>4, NumberRead
  <2> HIDE DEF n
  <2> QED
    BY <1>2, <2>4, <2>5, <2>6 DEF Loaded, w, v
<1>3. CASE item.type = "bool"
  <2> DEFINE n == IF item.value THEN 1 ELSE 0
  <2>1. item.value \in BOOLEAN
    BY <1>3 DEF IsValue
  <2>2. n \in 0 .. Power[1] - 1 /\ n \in Int /\ (n # 0) = item.value
    BY <2>1, TruthFits
  <2>3. Portable(item) = Digits(n, 1)
    BY <1>3 DEF Portable
  <2>4. size = 1
    <3> HIDE DEF n
    <3> QED
      BY <2>2, <2>3, DigitsType
  <2>5. Has(at, size) => Read(at, 1) = n
    <3> HIDE DEF n
    <3> QED
      BY <2>2, <2>3, <2>4, NumberRead
  <2> HIDE DEF n
  <2> QED
    BY <1>3, <2>2, <2>4, <2>5 DEF Loaded
<1>4. CASE item.type = "string"
  <2> DEFINE s == item.value  n == Len(s)  d == Digits(n, CountWidth)
  <2>1. s \in Seq(Byte) /\ n \in 0 .. Power[CountWidth] - 1 /\ n \in Nat
    <3>1. s \in Seq(Byte) /\ n < Power[CountWidth]
      BY <1>4 DEF IsValue
    <3>2. n \in Nat /\ Power[CountWidth] \in Nat
      <4>1. Power[CountWidth] \in Nat
        BY <1>0, Powers
      <4> QED
        BY <3>1, <4>1
    <3> QED
      BY <3>1, <3>2
  <2>2. Portable(item) = d \o s
    BY <1>4 DEF Portable
  <2> HIDE DEF s, n
  <2>3. d \in Seq(Byte) /\ Len(d) = CountWidth
    <3>1. n \in Int
      BY <2>1
    <3> QED
      BY <1>0, <3>1, DigitsType
  <2> HIDE DEF d
  <2>4. /\ size = CountWidth + n
        /\ \A i \in 1 .. CountWidth + n :
              (d \o s)[i] = IF i <= CountWidth THEN d[i] ELSE s[i - CountWidth]
    BY <2>1, <2>2, <2>3, ConcatProperties DEF n
  <2>5. Stands(d, at)
    <3>1. \A i \in 1 .. CountWidth : i \in 1 .. CountWidth + n
      BY <1>0, <2>1
    <3>2. ASSUME NEW i \in 1 .. CountWidth PROVE (d \o s)[i] = d[i]
      <4>1. i \in 1 .. CountWidth + n /\ i <= CountWidth
        BY <1>0, <3>1
      <4> DEFINE ds == d \o s
      <4> HIDE DEF ds
      <4>2. ds[i] = IF i <= CountWidth THEN d[i] ELSE s[i - CountWidth]
        BY <2>4, <4>1 DEF ds
      <4> QED
        BY <4>1, <4>2 DEF ds
    <3> QED
      BY <2>2, <2>3, <2>4, <3>1, <3>2 DEF Stands
  <2>6. Stands(s, at + CountWidth)
    <3>1. ASSUME NEW i \in 1 .. n, at + CountWidth + i <= Len(stream)
          PROVE  stream[at + CountWidth + i] = s[i]
      <4>1. CountWidth + i \in 1 .. CountWidth + n /\ ~ (CountWidth + i <= CountWidth)
            /\ (CountWidth + i) - CountWidth = i
            /\ at + CountWidth + i = at + (CountWidth + i)
        BY <1>0, <2>1
      <4>2. (d \o s)[CountWidth + i] = s[i]
        BY <2>4, <4>1
      <4> QED
        BY <2>2, <2>4, <3>1, <4>1, <4>2 DEF Stands
    <3> QED
      BY <3>1 DEF Stands, n
  <2>7. Has(at, CountWidth) => Read(at, CountWidth) = n
    BY <1>0, <2>1, <2>5, NumberRead DEF d
  <2>8. /\ Has(at, size) => Has(at, CountWidth)
        /\ Has(at, size) <=> Has(at + CountWidth, n)
    BY <1>0, <2>1, <2>4 DEF Has
  <2>9. Has(at, size) => Bytes(at + CountWidth, n) = s
    <3>1. at + CountWidth \in Nat
      BY <1>0
    <3> QED
      BY <2>1, <2>6, <2>8, <3>1, BytesStand DEF n
  <2> QED
    BY <1>4, <2>4, <2>7, <2>8, <2>9 DEF Loaded, s
<1> QED
  BY <1>1, <1>2, <1>3, <1>4 DEF IsValue

-----------------------------------------------------------------------------
(* Several values. *)

\* h joins the bytes of the values of s one by one.
Joins(h, s) ==
    /\ h[0] = << >>
    /\ \A k \in Nat : k < Len(s) => h[k + 1] = h[k] \o Portable(s[k + 1])

\* The values have bytes.
HaveBytes(s) == Len(s) \in Nat /\ \A k \in 1 .. Len(s) : Portable(s[k]) \in Seq(Byte)

\* The bytes of several values are joined from those of each.
LEMMA PortableBytesIs ==
    ASSUME NEW s, HaveBytes(s)
    PROVE  \E h : Joins(h, s) /\ PortableBytes(s) = h[Len(s)]
<1> DEFINE L == Len(s)
           X == Seq(Byte)
           g == [k \in Nat |-> [x \in X |-> IF k < L THEN x \o Portable(s[k + 1]) ELSE x]]
           Is(h) == h = [k \in 0 .. L |-> IF k = 0 THEN << >> ELSE h[k - 1] \o Portable(s[k])]
<1>0. L \in Nat /\ \A k \in 1 .. L : Portable(s[k]) \in X
  BY DEF HaveBytes
<1>1. g \in [Nat -> [X -> X]]
  <2>1. ASSUME NEW k \in Nat, NEW x \in X
        PROVE  (IF k < L THEN x \o Portable(s[k + 1]) ELSE x) \in X
    <3>1. CASE k < L
      <4>1. k + 1 \in 1 .. L
        BY <1>0, <3>1
      <4>2. x \o Portable(s[k + 1]) \in X
        BY <1>0, <4>1, ConcatProperties
      <4> QED
        BY <3>1, <4>2
    <3> QED
      BY <3>1
  <2> HIDE DEF X
  <2> QED
    BY <2>1
<1>2. PICK f \in [Nat -> X] : \A n \in Nat : Follows(f, << >>, g, n)
  <2>1. << >> \in X
    BY EmptySeq
  <2> HIDE DEF g, X
  <2> QED
    BY <1>1, <2>1, Recursion, Zenon
<1> HIDE DEF X
<1>3. f[0] = << >> /\ \A k \in Nat : k < L => f[k + 1] = f[k] \o Portable(s[k + 1])
  <2>1. f[0] = << >>
    BY <1>2 DEF Follows
  <2>2. ASSUME NEW k \in Nat, k < L PROVE f[k + 1] = f[k] \o Portable(s[k + 1])
    <3>1. f[k + 1] = g[k][f[k]]
      <4> HIDE DEF g
      <4>1. Follows(f, << >>, g, k + 1) /\ k < k + 1
        BY <1>2
      <4> QED
        BY <4>1 DEF Follows
    <3> QED
      BY <1>2, <2>2, <3>1
  <2> QED
    BY <2>1, <2>2
<1> HIDE DEF L
<1>4. Is([k \in 0 .. L |-> f[k]])
  <2> DEFINE h == [k \in 0 .. L |-> f[k]]
  <2>1. ASSUME NEW k \in 0 .. L
        PROVE  h[k] = IF k = 0 THEN << >> ELSE h[k - 1] \o Portable(s[k])
    <3>1. CASE k # 0
      <4>1. k - 1 \in Nat /\ k - 1 < L /\ (k - 1) + 1 = k /\ k - 1 \in 0 .. L
        BY <1>0, <3>1
      <4>2. f[(k - 1) + 1] = f[k - 1] \o Portable(s[(k - 1) + 1])
        BY <1>3, <4>1
      <4> QED
        BY <3>1, <4>1, <4>2
    <3>2. CASE k = 0
      BY <1>0, <1>3, <3>2
    <3> QED
      BY <3>1, <3>2
  <2>2. h = [k \in 0 .. L |-> h[k]]
    OBVIOUS
  <2>3. Is(h)
    <3> HIDE DEF h
    <3> QED
      BY <2>1, <2>2
  <2> QED
    BY <2>3
<1> DEFINE h == CHOOSE h : Is(h)
<1>5. Is(h)
  BY <1>4
<1>6. PortableBytes(s) = h[L]
  BY DEF PortableBytes, L
<1> HIDE DEF h
<1>7. h[0] = << >>
  BY <1>0, <1>5
<1>8. ASSUME NEW k \in Nat, k < L PROVE h[k + 1] = h[k] \o Portable(s[k + 1])
  <2>1. k + 1 \in 0 .. L /\ k + 1 # 0 /\ (k + 1) - 1 = k
    BY <1>0, <1>8
  <2>2. h[k + 1] = IF k + 1 = 0 THEN << >> ELSE h[(k + 1) - 1] \o Portable(s[k + 1])
    BY <1>5, <2>1
  <2> QED
    BY <2>1, <2>2
<1> QED
  BY <1>6, <1>7, <1>8 DEF Joins, L

\* No value has no bytes.
LEMMA BytesOfNone == PortableBytes(<< >>) = << >>
<1>1. HaveBytes(<< >>) /\ Len(<< >>) = 0
  BY DEF HaveBytes
<1> QED
  BY <1>1, PortableBytesIs DEF Joins

\* The bytes of the first values are bytes, and depend on them only.
LEMMA JoinsSame ==
    ASSUME NEW s, HaveBytes(s), NEW t, NEW h, Joins(h, s), NEW i, Joins(i, t),
           NEW n \in Nat, n <= Len(s), n <= Len(t), Len(t) \in Nat,
           \A k \in 1 .. n : s[k] = t[k]
    PROVE  h[n] = i[n] /\ h[n] \in Seq(Byte)
<1> DEFINE S == {k \in Nat : k <= n => h[k] = i[k] /\ h[k] \in Seq(Byte)}
<1>0. Len(s) \in Nat
  BY DEF HaveBytes
<1>1. 0 \in S
  <2>1. h[0] = << >> /\ i[0] = << >> /\ << >> \in Seq(Byte)
    BY EmptySeq DEF Joins
  <2> QED
    BY <2>1
<1>2. ASSUME NEW k \in S PROVE k + 1 \in S
  <2> SUFFICES ASSUME k + 1 <= n PROVE h[k + 1] = i[k + 1] /\ h[k + 1] \in Seq(Byte)
    OBVIOUS
  <2>1. k \in Nat /\ k < Len(s) /\ k < Len(t) /\ k + 1 \in 1 .. n /\ k + 1 \in 1 .. Len(s)
    BY <1>0
  <2>2. h[k] = i[k] /\ h[k] \in Seq(Byte)
    BY <2>1
  <2>3. /\ h[k + 1] = h[k] \o Portable(s[k + 1])
        /\ i[k + 1] = i[k] \o Portable(t[k + 1])
    BY <2>1 DEF Joins
  <2>4. s[k + 1] = t[k + 1] /\ Portable(s[k + 1]) \in Seq(Byte)
    BY <2>1 DEF HaveBytes
  <2> QED
    BY <2>2, <2>3, <2>4, ConcatProperties
<1>3. n \in S
  <2> HIDE DEF S
  <2> QED
    BY <1>1, <1>2, AllNumbers
<1> QED
  BY <1>3

\* The bytes of several values are bytes.
LEMMA BytesType ==
    ASSUME NEW s, HaveBytes(s)
    PROVE  PortableBytes(s) \in Seq(Byte)
<1>1. Len(s) \in Nat
  BY DEF HaveBytes
<1>2. PICK h : Joins(h, s) /\ PortableBytes(s) = h[Len(s)]
  BY PortableBytesIs
<1>3. h[Len(s)] \in Seq(Byte)
  <2> DEFINE n == Len(s)
  <2>1. n \in Nat /\ n <= n
    BY <1>1
  <2> QED
    BY <1>2, <2>1, JoinsSame
<1> QED
  BY <1>2, <1>3

\* One value more
LEMMA BytesOfMore ==
    ASSUME NEW s, HaveBytes(s), NEW t, HaveBytes(t), Len(t) = Len(s) + 1,
           \A k \in 1 .. Len(s) : s[k] = t[k]
    PROVE  PortableBytes(t) = PortableBytes(s) \o Portable(t[Len(t)])
<1>1. Len(s) \in Nat /\ Len(t) \in Nat /\ Len(s) < Len(t) /\ Len(s) <= Len(s)
      /\ Len(s) <= Len(t)
  BY DEF HaveBytes
<1>2. PICK h : Joins(h, s) /\ PortableBytes(s) = h[Len(s)]
  BY PortableBytesIs
<1>3. PICK i : Joins(i, t) /\ PortableBytes(t) = i[Len(t)]
  BY PortableBytesIs
<1>4. h[Len(s)] = i[Len(s)]
  BY <1>1, <1>2, <1>3, JoinsSame
<1>5. i[Len(s) + 1] = i[Len(s)] \o Portable(t[Len(s) + 1])
  BY <1>1, <1>3 DEF Joins
<1> QED
  BY <1>2, <1>3, <1>4, <1>5

\* b begins with a.
Begins(a, b) == Len(a) <= Len(b) /\ \A i \in 1 .. Len(a) : b[i] = a[i]

\* The bytes of several values begin with those of the first of them.
LEMMA BytesBegin ==
    ASSUME NEW s, HaveBytes(s), NEW t, HaveBytes(t), Begins(s, t)
    PROVE  Begins(PortableBytes(s), PortableBytes(t))
<1> DEFINE m == Len(s)  L == Len(t)
<1>1. m \in Nat /\ L \in Nat /\ m <= L /\ m <= m
  BY DEF HaveBytes, Begins
<1>2. PICK h : Joins(h, s) /\ PortableBytes(s) = h[m]
  BY PortableBytesIs
<1>3. PICK i : Joins(i, t) /\ PortableBytes(t) = i[L]
  BY PortableBytesIs
<1>4. h[m] = i[m] /\ h[m] \in Seq(Byte)
  BY <1>1, <1>2, <1>3, JoinsSame DEF Begins
<1> DEFINE S == {k \in Nat : m + k <= L => i[m + k] \in Seq(Byte) /\ Begins(i[m], i[m + k])}
<1>5. 0 \in S
  <2>1. m + 0 = m /\ i[m] \in Seq(Byte) /\ Len(i[m]) \in Nat
    BY <1>1, <1>4
  <2> QED
    BY <2>1 DEF Begins
<1>6. ASSUME NEW k \in S PROVE k + 1 \in S
  <2> SUFFICES ASSUME m + (k + 1) <= L
               PROVE  i[m + (k + 1)] \in Seq(Byte) /\ Begins(i[m], i[m + (k + 1)])
    OBVIOUS
  <2> DEFINE n == m + k
             a == i[m]  b == i[n]  c == Portable(t[n + 1])
  <2>1. n \in Nat /\ n < L /\ m + (k + 1) = n + 1 /\ n + 1 \in 1 .. L
    BY <1>1
  <2>2. b \in Seq(Byte) /\ Begins(a, b)
    BY <2>1
  <2> HIDE DEF n
  <2>3. i[n + 1] = b \o c
    BY <1>3, <2>1 DEF Joins
  <2>4. c \in Seq(Byte)
    BY <2>1 DEF HaveBytes
  <2>5. a \in Seq(Byte)
    BY <1>4
  <2> HIDE DEF a, b, c
  <2>6. /\ b \o c \in Seq(Byte) /\ Len(b \o c) = Len(b) + Len(c)
        /\ \A j \in 1 .. Len(b) + Len(c) :
              (b \o c)[j] = IF j <= Len(b) THEN b[j] ELSE c[j - Len(b)]
    BY <2>2, <2>4, ConcatProperties
  <2>7. Len(a) \in Nat /\ Len(b) \in Nat /\ Len(c) \in Nat /\ Len(a) <= Len(b)
    BY <2>2, <2>4, <2>5 DEF Begins
  <2>8. ASSUME NEW j \in 1 .. Len(a) PROVE (b \o c)[j] = a[j]
    <3>1. j \in 1 .. Len(b) + Len(c) /\ j <= Len(b)
      BY <2>7
    <3>2. (b \o c)[j] = b[j]
      BY <2>6, <3>1
    <3> QED
      BY <2>2, <3>2 DEF Begins
  <2>9. Begins(a, b \o c)
    BY <2>6, <2>7, <2>8 DEF Begins
  <2> QED
    BY <2>1, <2>3, <2>6, <2>9 DEF a
<1>7. L - m \in S
  <2>1. L - m \in Nat
    BY <1>1
  <2> HIDE DEF S
  <2> QED
    BY <1>5, <1>6, <2>1, AllNumbers
<1>8. Begins(i[m], i[L])
  <2>1. m + (L - m) = L /\ L <= L
    BY <1>1
  <2> QED
    BY <1>7, <2>1
<1> QED
  BY <1>2, <1>3, <1>4, <1>8

-----------------------------------------------------------------------------
(* Skipping. *)

\* h is what skip has taken after each turn.
Skips(h, size) ==
    /\ h[0] = 0
    /\ \A k \in Nat : k < size =>
          h[k + 1] = IF h[k] < size THEN h[k] + Least(size - h[k], Chunk) ELSE h[k]

\* What is skipped is the last of it.
LEMMA SkippedChunksIs ==
    ASSUME NEW size \in Nat
    PROVE  \E h : Skips(h, size) /\ SkippedChunks(size) = h[size]
<1> DEFINE After(x) == IF x < size THEN x + Least(size - x, Chunk) ELSE x
           g == [k \in Nat |-> [x \in Int |-> After(x)]]
           Is(h) == h = [k \in 0 .. size |->
                           IF k = 0 THEN 0
                           ELSE IF h[k - 1] < size
                                THEN h[k - 1] + Least(size - h[k - 1], Chunk)
                                ELSE h[k - 1]]
<1>0. Chunk \in Nat
  BY ArchiveAssumption
<1>1. g \in [Nat -> [Int -> Int]]
  <2>1. ASSUME NEW x \in Int PROVE After(x) \in Int
    BY <1>0 DEF Least
  <2> HIDE DEF After
  <2> QED
    BY <2>1
<1>2. PICK f \in [Nat -> Int] : \A n \in Nat : Follows(f, 0, g, n)
  <2> HIDE DEF g
  <2>1. 0 \in Int
    OBVIOUS
  <2> QED
    BY <1>1, <2>1, Recursion, Zenon
<1>3. f[0] = 0 /\ \A k \in Nat : f[k + 1] = After(f[k])
  <2>1. f[0] = 0
    BY <1>2 DEF Follows
  <2>2. ASSUME NEW k \in Nat PROVE f[k + 1] = After(f[k])
    <3>1. f[k + 1] = g[k][f[k]]
      <4> HIDE DEF g
      <4>1. Follows(f, 0, g, k + 1) /\ k < k + 1
        BY <1>2
      <4> QED
        BY <4>1 DEF Follows
    <3> HIDE DEF After
    <3> QED
      BY <1>2, <3>1
  <2> HIDE DEF After
  <2> QED
    BY <2>1, <2>2
<1>4. Is([k \in 0 .. size |-> f[k]])
  <2> DEFINE h == [k \in 0 .. size |-> f[k]]
  <2>1. ASSUME NEW k \in 0 .. size PROVE h[k] = IF k = 0 THEN 0 ELSE After(h[k - 1])
    <3> HIDE DEF After
    <3>1. CASE k # 0
      <4>1. k - 1 \in Nat /\ (k - 1) + 1 = k /\ k - 1 \in 0 .. size
        BY <3>1
      <4>2. f[(k - 1) + 1] = After(f[k - 1])
        BY <1>3, <4>1
      <4> QED
        BY <3>1, <4>1, <4>2
    <3>2. CASE k = 0
      BY <1>3, <3>2
    <3> QED
      BY <3>1, <3>2
  <2>2. h = [k \in 0 .. size |-> h[k]]
    OBVIOUS
  <2>3. h = [k \in 0 .. size |-> IF k = 0 THEN 0 ELSE After(h[k - 1])]
    <3> HIDE DEF h, After
    <3> QED
      BY <2>1, <2>2
  <2> QED
    BY <2>3
<1> DEFINE h == CHOOSE h : Is(h)
<1>5. Is(h)
  BY <1>4
<1>6. SkippedChunks(size) = h[size]
  BY DEF SkippedChunks
<1> HIDE DEF h
<1>7. h[0] = 0
  BY <1>5
<1>8. ASSUME NEW k \in Nat, k < size PROVE h[k + 1] = After(h[k])
  <2>1. k + 1 \in 0 .. size /\ k + 1 # 0 /\ (k + 1) - 1 = k
    BY <1>8
  <2>2. h = [j \in 0 .. size |-> IF j = 0 THEN 0 ELSE After(h[j - 1])]
    BY <1>5
  <2> HIDE DEF After
  <2>3. h[k + 1] = IF k + 1 = 0 THEN 0 ELSE After(h[(k + 1) - 1])
    BY <2>1, <2>2
  <2> QED
    BY <2>1, <2>3
<1> QED
  BY <1>6, <1>7, <1>8 DEF Skips

\* Skipping takes as much as it should, whatever the size of the buffer.
LEMMA SkipsAll ==
    ASSUME NEW size \in Nat
    PROVE  SkippedChunks(size) = size
<1>0. Chunk \in Nat \ {0}
  BY ArchiveAssumption
<1>1. PICK h : Skips(h, size) /\ SkippedChunks(size) = h[size]
  BY SkippedChunksIs
<1> DEFINE S == {k \in Nat : k <= size => h[k] \in k .. size}
<1>2. 0 \in S
  BY <1>1 DEF Skips
<1>3. ASSUME NEW k \in S PROVE k + 1 \in S
  <2> SUFFICES ASSUME k + 1 <= size PROVE h[k + 1] \in k + 1 .. size
    OBVIOUS
  <2>1. k \in Nat /\ k < size /\ h[k] \in k .. size
    OBVIOUS
  <2>2. h[k + 1] = IF h[k] < size THEN h[k] + Least(size - h[k], Chunk) ELSE h[k]
    BY <1>1, <2>1 DEF Skips
  <2> DEFINE x == h[k]
  <2>3. x \in k .. size
    BY <2>1
  <2> HIDE DEF x
  <2>4. (IF x < size THEN x + Least(size - x, Chunk) ELSE x) \in k + 1 .. size
    BY <1>0, <2>1, <2>3 DEF Least
  <2> QED
    BY <2>2, <2>4 DEF x
<1>4. size \in S
  <2> HIDE DEF S
  <2> QED
    BY <1>2, <1>3, AllNumbers
<1> QED
  BY <1>1, <1>4

-----------------------------------------------------------------------------
(* The invariant. *)

\* Where an entry ends
End(e) == IF e = 0 THEN 0 ELSE logs[e].end

\* Every entry that is sealed stands in the stream behind the one before, as
\* far as the stream goes, and its log tells its size and its bytes.
EntrySealed(e) ==
    /\ logs[e].crc = PortableBytes(written[e])
    /\ logs[e].size = Len(logs[e].crc)
    /\ logs[e].end = End(e - 1) + logs[e].size
    /\ logs[e].end <= End(Len(logs))
    /\ Stands(logs[e].crc, End(e - 1))

Sealed == \A e \in 1 .. Len(logs) : EntrySealed(e)

\* While it is written the stream ends with the entry that is not sealed, and
\* the reader has not begun.
Writing ==
    /\ out_crc = PortableBytes(written[Len(written)])
    /\ Len(stream) = End(Len(logs)) + Len(out_crc)
    /\ Stands(out_crc, End(Len(logs)))
    /\ checked = 0 /\ pos = 0 /\ in_crc = << >> /\ loaded = << << >> >> /\ ~ failed

\* When it is read, the reader has the entries before, the first values of its
\* entry and their bytes, and stands behind them.
Reading ==
    /\ checked <= Len(logs)
    /\ Len(loaded) = Entry
    /\ \A e \in 1 .. checked : loaded[e] = written[e]
    /\ Begins(loaded[Entry], written[Entry])
    /\ in_crc = PortableBytes(loaded[Entry])
    /\ pos = End(checked) + Len(in_crc)
    /\ pos <= Len(stream)

\* A reader fails only where bytes are lost.
CutShort == failed => Len(stream) < End(Len(logs))

Order ==
    /\ TypeOK
    /\ Len(written) = Len(logs) + 1
    /\ Sealed
    /\ ~ reading => Writing
    /\ reading => Reading
    /\ CutShort

\* Values of the program have bytes.
LEMMA ItemsHaveBytes ==
    ASSUME writer \in Orders, NEW s \in Seq(Items)
    PROVE  HaveBytes(s)
<1>1. Len(s) \in Nat /\ \A k \in 1 .. Len(s) : s[k] \in Items
  OBVIOUS
<1>2. \A k \in 1 .. Len(s) : Portable(s[k]) \in Seq(Byte)
  BY <1>1, ItemsAssumption, SavedIsPortable
<1> QED
  BY <1>1, <1>2 DEF HaveBytes

\* Ends are numbers.
LEMMA EndType ==
    ASSUME TypeOK, NEW e \in 0 .. Len(logs)
    PROVE  End(e) \in Nat
<1>1. CASE e = 0
  BY <1>1 DEF End
<1>2. CASE e # 0
  <2>1. e \in 1 .. Len(logs) /\ logs \in Seq([size : Nat, end : Nat, crc : Seq(Byte)])
    BY <1>2 DEF TypeOK
  <2>2. logs[e] \in [size : Nat, end : Nat, crc : Seq(Byte)]
    BY <2>1, ElementOfSeq
  <2> QED
    BY <1>2, <2>2 DEF End
<1> QED
  BY <1>1, <1>2

\* The start
LEMMA OrderAtInit == Init => Order
<1> SUFFICES ASSUME Init PROVE Order
  OBVIOUS
<1> USE DEF Init
<1>1. TypeOK
  <2>1. << >> \in Seq(Byte) /\ << >> \in Seq(Items)
        /\ << >> \in Seq([size : Nat, end : Nat, crc : Seq(Byte)])
    BY EmptySeq
  <2>2. << << >> >> \in Seq(Seq(Items))
    BY <2>1
  <2> QED
    BY <2>1, <2>2 DEF TypeOK
<1>2. Len(written) = Len(logs) + 1 /\ Len(logs) = 0 /\ Len(written) = 1
      /\ written[1] = << >> /\ Len(stream) = 0 /\ Len(out_crc) = 0
  OBVIOUS
<1>3. Sealed
  BY <1>2 DEF Sealed
<1>4. Writing
  BY <1>2, BytesOfNone DEF Writing, End, Stands
<1> QED
  BY <1>1, <1>2, <1>3, <1>4 DEF Order, CutShort

\* Save
LEMMA SaveKeepsOrder ==
    ASSUME Order, NEW item \in Items, Save(item)
    PROVE  Order'
<1> DEFINE last == Len(written)
           L == Len(logs)
           b == Saved(item)
<1>0. /\ ~ reading
      /\ written' = [written EXCEPT ![last] = Append(@, item)]
      /\ stream' = stream \o b /\ out_crc' = out_crc \o b
      /\ UNCHANGED <<writer, reader, logs, reading, pos, in_crc, loaded, checked, failed>>
  BY DEF Save
<1>1. TypeOK /\ Len(written) = L + 1 /\ Sealed /\ Writing /\ ~ reading
  BY <1>0 DEF Order
<1>2. /\ stream \in Seq(Byte) /\ out_crc \in Seq(Byte) /\ written \in Seq(Seq(Items))
      /\ writer \in Orders /\ logs \in Seq([size : Nat, end : Nat, crc : Seq(Byte)])
  BY <1>1 DEF TypeOK
<1>3. b \in Seq(Byte) /\ b = Portable(item)
  BY <1>2, ItemsAssumption, SavedIsPortable
<1>4. L \in Nat /\ last \in 1 .. Len(written) /\ last = L + 1 /\ Len(stream) \in Nat
      /\ Len(out_crc) \in Nat /\ Len(b) \in Nat
  BY <1>1, <1>2, <1>3
<1>5. /\ stream' = stream \o b /\ out_crc' = out_crc \o b /\ logs' = logs
      /\ written' = [written EXCEPT ![last] = Append(@, item)]
  BY <1>0
<1> HIDE DEF b
<1>6. /\ stream' \in Seq(Byte) /\ Len(stream') = Len(stream) + Len(b)
      /\ \A i \in 1 .. Len(stream) : stream'[i] = stream[i]
      /\ \A i \in 1 .. Len(b) : stream'[Len(stream) + i] = b[i]
  <2>1. /\ stream \o b \in Seq(Byte) /\ Len(stream \o b) = Len(stream) + Len(b)
        /\ \A i \in 1 .. Len(stream) + Len(b) :
              (stream \o b)[i] = IF i <= Len(stream) THEN stream[i] ELSE b[i - Len(stream)]
    BY <1>2, <1>3, ConcatProperties
  <2> DEFINE sb == stream \o b
  <2> HIDE DEF sb
  <2>2. \A i \in 1 .. Len(stream) + Len(b) :
              sb[i] = IF i <= Len(stream) THEN stream[i] ELSE b[i - Len(stream)]
    BY <2>1 DEF sb
  <2>3. \A i \in 1 .. Len(stream) : sb[i] = stream[i]
    BY <1>4, <2>2
  <2>4. \A i \in 1 .. Len(b) : sb[Len(stream) + i] = b[i]
    <3>1. ASSUME NEW i \in 1 .. Len(b) PROVE sb[Len(stream) + i] = b[i]
      <4>1. Len(stream) + i \in 1 .. Len(stream) + Len(b)
            /\ ~ (Len(stream) + i <= Len(stream)) /\ (Len(stream) + i) - Len(stream) = i
        BY <1>4
      <4> QED
        BY <2>2, <4>1
    <3> QED
      BY <3>1
  <2> QED
    BY <1>5, <2>1, <2>3, <2>4 DEF sb
<1>7. /\ out_crc' \in Seq(Byte) /\ Len(out_crc') = Len(out_crc) + Len(b)
      /\ \A i \in 1 .. Len(out_crc) + Len(b) :
            out_crc'[i] = IF i <= Len(out_crc) THEN out_crc[i] ELSE b[i - Len(out_crc)]
  BY <1>2, <1>3, <1>5, ConcatProperties
<1>8. /\ written[last] \in Seq(Items) /\ Append(written[last], item) \in Seq(Items)
      /\ Len(Append(written[last], item)) = Len(written[last]) + 1
      /\ Append(written[last], item)[Len(written[last]) + 1] = item
      /\ \A k \in 1 .. Len(written[last]) :
            Append(written[last], item)[k] = written[last][k]
  <2>1. written[last] \in Seq(Items)
    BY <1>2, <1>4, ElementOfSeq
  <2> HIDE DEF last
  <2> QED
    BY <2>1, AppendProperties
<1>9. /\ written' \in Seq(Seq(Items)) /\ Len(written') = Len(written)
      /\ written'[last] = Append(written[last], item)
      /\ \A e \in 1 .. L : written'[e] = written[e]
  <2>1. /\ written' \in Seq(Seq(Items)) /\ Len(written') = Len(written)
        /\ \A e \in 1 .. Len(written) :
              written'[e] = IF e = last THEN Append(written[last], item) ELSE written[e]
    BY <1>2, <1>4, <1>5, <1>8, ExceptSeq
  <2> QED
    BY <1>4, <2>1
<1>10. TypeOK'
  BY <1>0, <1>1, <1>6, <1>7, <1>9 DEF TypeOK
<1>11. Sealed'
  <2> SUFFICES ASSUME NEW e \in 1 .. L
               PROVE  EntrySealed(e)'
    BY <1>5 DEF Sealed
  <2>1. /\ logs[e].crc = PortableBytes(written[e])
        /\ logs[e].size = Len(logs[e].crc)
        /\ logs[e].end = End(e - 1) + logs[e].size
        /\ logs[e].end <= End(L)
        /\ Stands(logs[e].crc, End(e - 1))
    BY <1>1 DEF Sealed, EntrySealed
  <2>2. End(e - 1)' = End(e - 1) /\ End(L)' = End(L) /\ End(e - 1) \in Nat /\ End(L) \in Nat
    <3>1. End(e - 1)' = End(e - 1) /\ End(L)' = End(L)
      BY <1>5 DEF End
    <3>2. e - 1 \in 0 .. L /\ L \in 0 .. L
      BY <1>4
    <3> QED
      BY <1>1, <3>1, <3>2, EndType
  <2>3. ASSUME NEW i \in 1 .. Len(logs[e].crc)
        PROVE  stream'[End(e - 1) + i] = logs[e].crc[i]
    <3>1. logs[e].size \in Nat
      <4>1. logs[e] \in [size : Nat, end : Nat, crc : Seq(Byte)]
        BY <1>2, ElementOfSeq
      <4> QED
        BY <4>1
    <3>2. End(L) <= Len(stream)
      BY <1>1, <1>4, <2>2 DEF Writing
    <3> DEFINE a == End(e - 1)  z == End(L)  n == Len(logs[e].crc)
    <3>3. a + i \in 1 .. Len(stream)
      <4>1. a \in Nat /\ z \in Nat /\ n \in Nat /\ i \in 1 .. n /\ a + n <= z
        BY <2>1, <2>2, <3>1
      <4>2. z <= Len(stream)
        BY <3>2
      <4> HIDE DEF a, z, n
      <4> QED
        BY <1>4, <4>1, <4>2
    <3>4. stream[End(e - 1) + i] = logs[e].crc[i]
      <4>1. End(e - 1) + i <= Len(stream)
        BY <1>4, <3>3
      <4> QED
        BY <2>1, <4>1 DEF Stands
    <3> QED
      BY <1>6, <3>3, <3>4
  <2>4. Stands(logs[e].crc, End(e - 1))'
    BY <1>5, <2>2, <2>3 DEF Stands
  <2> QED
    BY <1>5, <1>9, <2>1, <2>2, <2>4 DEF EntrySealed
<1>12. Writing'
  <2>1. out_crc' = PortableBytes(written'[last])
    <3>1. HaveBytes(written[last]) /\ HaveBytes(Append(written[last], item))
      BY <1>2, <1>8, ItemsHaveBytes
    <3>2. PortableBytes(Append(written[last], item))
             = PortableBytes(written[last]) \o Portable(item)
      BY <1>8, <3>1, BytesOfMore
    <3> QED
      BY <1>1, <1>3, <1>5, <1>9, <3>2 DEF Writing
  <2>2. End(L)' = End(L) /\ End(L) \in Nat /\ Len(stream) = End(L) + Len(out_crc)
    <3>1. End(L)' = End(L)
      BY <1>5 DEF End
    <3>2. L \in 0 .. L
      BY <1>4
    <3> QED
      BY <1>1, <3>1, <3>2, EndType DEF Writing
  <2>3. Len(stream') = End(L)' + Len(out_crc')
    BY <1>4, <1>6, <1>7, <2>2
  <2>4. ASSUME NEW i \in 1 .. Len(out_crc')
        PROVE  stream'[End(L) + i] = out_crc'[i]
    <3>1. CASE i <= Len(out_crc)
      <4>1. i \in 1 .. Len(out_crc) /\ End(L) + i \in 1 .. Len(stream)
            /\ i \in 1 .. Len(out_crc) + Len(b)
        BY <1>4, <1>7, <2>2, <3>1
      <4>2. stream[End(L) + i] = out_crc[i]
        BY <1>1, <1>4, <4>1 DEF Writing, Stands
      <4>3. out_crc'[i] = out_crc[i]
        BY <1>7, <3>1, <4>1
      <4> QED
        BY <1>6, <4>1, <4>2, <4>3
    <3>2. CASE ~ (i <= Len(out_crc))
      <4> DEFINE z == End(L)  m == Len(out_crc)  n == Len(b)
      <4>1. i - m \in 1 .. n /\ z + i = Len(stream) + (i - m) /\ i \in 1 .. m + n
        <5>1. /\ z \in Nat /\ m \in Nat /\ n \in Nat /\ Len(stream) = z + m
              /\ i \in 1 .. m + n /\ ~ (i <= m)
          BY <1>4, <1>7, <2>2, <3>2
        <5> HIDE DEF z, m, n
        <5> QED
          BY <5>1
      <4>2. stream'[Len(stream) + (i - Len(out_crc))] = b[i - Len(out_crc)]
        BY <1>6, <4>1
      <4>3. out_crc'[i] = b[i - Len(out_crc)]
        BY <1>7, <3>2, <4>1
      <4> QED
        BY <4>1, <4>2, <4>3
    <3> QED
      BY <3>1, <3>2
  <2> QED
    BY <1>0, <1>1, <1>5, <1>9, <2>1, <2>2, <2>3, <2>4 DEF Writing, Stands
<1> QED
  BY <1>0, <1>1, <1>9, <1>10, <1>11, <1>12 DEF Order, CutShort, Writing

\* Seal
LEMMA SealKeepsOrder ==
    ASSUME Order, Seal
    PROVE  Order'
<1> DEFINE L == Len(logs)
           n == Len(stream)
           r == [size |-> n - End(L), end |-> n, crc |-> out_crc]
<1>1. TypeOK /\ Len(written) = L + 1 /\ Sealed /\ Writing /\ ~ reading
  BY DEF Order, Seal
<1>2. /\ stream \in Seq(Byte) /\ out_crc \in Seq(Byte) /\ written \in Seq(Seq(Items))
      /\ logs \in Seq([size : Nat, end : Nat, crc : Seq(Byte)])
  BY <1>1 DEF TypeOK
<1>3. L \in Nat /\ n \in Nat /\ Len(out_crc) \in Nat /\ L \in 0 .. L
  BY <1>2
<1>4. End(L) \in Nat /\ n = End(L) + Len(out_crc) /\ out_crc = PortableBytes(written[L + 1])
      /\ Stands(out_crc, End(L))
  BY <1>1, <1>3, EndType DEF Writing
<1>5. /\ logs' = Append(logs, r) /\ out_crc' = << >> /\ written' = Append(written, << >>)
      /\ UNCHANGED <<writer, reader, stream, reading, pos, in_crc, loaded, checked, failed>>
  <2>1. End(L) = IF logs = << >> THEN 0 ELSE logs[L].end
    BY <1>2 DEF End
  <2> QED
    BY <2>1 DEF Seal, Reset
<1>6. r \in [size : Nat, end : Nat, crc : Seq(Byte)] /\ r.size = Len(out_crc)
      /\ r.end = n /\ r.crc = out_crc
  <2> DEFINE z == End(L)
  <2>1. z \in Nat /\ n - z = Len(out_crc)
    BY <1>3, <1>4
  <2> HIDE DEF z
  <2> QED
    BY <1>2, <1>3, <2>1 DEF z
<1> HIDE DEF r
<1>7. /\ logs' \in Seq([size : Nat, end : Nat, crc : Seq(Byte)]) /\ Len(logs') = L + 1
      /\ \A e \in 1 .. L : logs'[e] = logs[e]
      /\ logs'[L + 1] = r
  BY <1>2, <1>5, <1>6, AppendProperties
<1>8. /\ written' \in Seq(Seq(Items)) /\ Len(written') = L + 2
      /\ \A e \in 1 .. L + 1 : written'[e] = written[e]
      /\ written'[L + 2] = << >>
  <2>1. << >> \in Seq(Items)
    BY EmptySeq
  <2>2. /\ written' \in Seq(Seq(Items)) /\ Len(written') = Len(written) + 1
        /\ \A e \in 1 .. Len(written) : written'[e] = written[e]
        /\ written'[Len(written) + 1] = << >>
    BY <1>2, <1>5, <2>1, AppendProperties
  <2>3. Len(written) = L + 1 /\ (L + 1) + 1 = L + 2
    BY <1>1, <1>3
  <2> QED
    BY <2>2, <2>3
<1>9. TypeOK'
  <2>1. out_crc' \in Seq(Byte)
    BY <1>5, EmptySeq
  <2> QED
    BY <1>1, <1>5, <1>7, <1>8, <2>1 DEF TypeOK
<1>10. End(Len(logs))' = n
  <2>1. L + 1 # 0
    BY <1>3
  <2>2. logs'[Len(logs')].end = n /\ Len(logs') # 0
    BY <1>6, <1>7, <2>1
  <2> QED
    BY <2>2 DEF End
<1>11. Sealed'
  <2> SUFFICES ASSUME NEW e \in 1 .. L + 1
               PROVE  EntrySealed(e)'
    BY <1>7 DEF Sealed
  <2>1. End(Len(logs))' = n
    BY <1>10
  <2>2. e - 1 # 0 => e - 1 \in 1 .. L
    BY <1>3
  <2>3. End(e - 1)' = End(e - 1)
    BY <1>7, <2>2 DEF End
  <2>4. CASE e = L + 1
    <3>1. e - 1 = L /\ e \in 1 .. L + 1
      BY <1>3, <2>4
    <3>2. logs'[e] = r /\ written'[e] = written[L + 1]
      BY <1>7, <1>8, <2>4, <3>1
    <3>3. n <= n
      BY <1>3
    <3>4. End(e - 1) = End(L)
      BY <3>1
    <3>5. Stands(logs[e].crc, End(e - 1))'
      BY <1>4, <1>5, <1>6, <2>3, <3>2, <3>4 DEF Stands
    <3>6. /\ logs'[e].crc = PortableBytes(written'[e])
          /\ logs'[e].size = Len(logs'[e].crc)
          /\ logs'[e].end = End(e - 1)' + logs'[e].size
          /\ logs'[e].end <= End(Len(logs))'
      BY <1>4, <1>6, <2>1, <2>3, <3>2, <3>3, <3>4
    <3> QED
      BY <3>5, <3>6 DEF EntrySealed
  <2>5. CASE e # L + 1
    <3>1. e \in 1 .. L /\ e \in 1 .. L + 1
      BY <1>3, <2>5
    <3>2. logs'[e] = logs[e] /\ written'[e] = written[e]
      BY <1>7, <1>8, <3>1
    <3>3. EntrySealed(e)
      BY <1>1, <3>1 DEF Sealed
    <3>4. logs[e].end <= n
      <4> DEFINE z == End(L)  m == Len(out_crc)  y == logs[e].end
      <4>1. logs[e] \in [size : Nat, end : Nat, crc : Seq(Byte)]
        BY <1>2, <3>1, ElementOfSeq
      <4>2. y \in Nat /\ z \in Nat /\ m \in Nat /\ y <= z /\ n = z + m
        BY <1>3, <1>4, <3>3, <4>1 DEF EntrySealed
      <4> HIDE DEF z, m, y
      <4>3. y <= n
        BY <4>2
      <4> QED
        BY <4>3 DEF y
    <3> QED
      BY <1>5, <2>1, <2>3, <3>2, <3>3, <3>4 DEF EntrySealed, Stands
  <2> QED
    BY <2>4, <2>5
<1>12. Writing'
  <2>1. written'[Len(written')] = << >> /\ End(Len(logs))' = n
    BY <1>8, <1>10
  <2>2. Len(out_crc') = 0 /\ n = n + 0
    BY <1>3, <1>5
  <2> QED
    BY <1>1, <1>5, <2>1, <2>2, BytesOfNone DEF Writing, Stands
<1>13. Len(written') = Len(logs') + 1
  BY <1>3, <1>7, <1>8
<1> QED
  BY <1>1, <1>5, <1>9, <1>11, <1>12, <1>13 DEF Order, CutShort, Writing

\* Turn
LEMMA TurnKeepsOrder ==
    ASSUME Order, Turn
    PROVE  Order'
<1> DEFINE L == Len(logs)
<1>1. TypeOK /\ Len(written) = L + 1 /\ Sealed /\ Writing /\ ~ reading
  BY DEF Order, Turn
<1>2. /\ stream \in Seq(Byte) /\ written \in Seq(Seq(Items))
      /\ logs \in Seq([size : Nat, end : Nat, crc : Seq(Byte)])
  BY <1>1 DEF TypeOK
<1>3. L \in Nat /\ Len(stream) \in Nat
  BY <1>2
<1>4. PICK length \in 0 .. Len(stream) : stream' = SubSeq(stream, 1, length)
  BY DEF Turn
<1>5. /\ reading' = TRUE
      /\ UNCHANGED <<writer, reader, out_crc, written, logs, pos, in_crc, loaded,
                     checked, failed>>
  BY DEF Turn
<1>6. /\ stream' \in Seq(Byte) /\ Len(stream') = length
      /\ \A i \in 1 .. length : stream'[i] = stream[i]
  <2>1. 1 \in Int /\ length \in Int
    BY <1>3
  <2>2. \A i \in 1 .. length : stream[i] \in Byte
    BY <1>2, <1>3, ElementOfSeq
  <2>3. /\ SubSeq(stream, 1, length) \in Seq(Byte)
        /\ Len(SubSeq(stream, 1, length)) = IF 1 <= length THEN length - 1 + 1 ELSE 0
        /\ \A i \in 1 .. length - 1 + 1 : SubSeq(stream, 1, length)[i] = stream[1 + i - 1]
    BY <2>1, <2>2, SubSeqProperties
  <2>4. length - 1 + 1 = length /\ (~ (1 <= length) => length = 0)
        /\ \A i \in 1 .. length : 1 + i - 1 = i
    BY <1>3
  <2> QED
    BY <1>4, <2>3, <2>4
<1>7. TypeOK'
  BY <1>1, <1>5, <1>6 DEF TypeOK
<1>8. Sealed'
  <2> SUFFICES ASSUME NEW e \in 1 .. L PROVE EntrySealed(e)'
    BY <1>5 DEF Sealed
  <2>1. EntrySealed(e)
    BY <1>1 DEF Sealed
  <2>2. End(e - 1)' = End(e - 1) /\ End(Len(logs))' = End(Len(logs))
    BY <1>5 DEF End
  <2>3. End(e - 1) \in Nat
    <3>1. e - 1 \in 0 .. L
      BY <1>3
    <3> QED
      BY <1>1, <3>1, EndType
  <2>4. Stands(logs[e].crc, End(e - 1))'
    <3> SUFFICES ASSUME NEW i \in 1 .. Len(logs[e].crc), End(e - 1) + i <= length
                 PROVE  stream'[End(e - 1) + i] = logs[e].crc[i]
      BY <1>5, <1>6, <2>2 DEF Stands
    <3> DEFINE k == End(e - 1) + i
    <3>1. k \in 1 .. length /\ k <= Len(stream)
      <4> DEFINE a == End(e - 1)
      <4>1. a \in Nat /\ a + i <= length
        BY <2>3
      <4> HIDE DEF a
      <4>2. a + i \in 1 .. length /\ a + i <= Len(stream)
        BY <1>3, <4>1
      <4> QED
        BY <4>2 DEF a
    <3>2. stream'[k] = stream[k]
      BY <1>6, <3>1
    <3>3. stream[k] = logs[e].crc[i]
      BY <2>1, <3>1 DEF EntrySealed, Stands
    <3> QED
      BY <3>2, <3>3
  <2> QED
    BY <1>5, <2>1, <2>2, <2>4 DEF EntrySealed
<1>9. Reading'
  <2>1. checked' = 0 /\ pos' = 0 /\ in_crc' = << >> /\ loaded' = << << >> >> /\ Entry' = 1
    BY <1>1, <1>5 DEF Writing, Entry
  <2>2. Begins(loaded[Entry], written[Entry])'
    <3>1. 1 \in 1 .. Len(written)
      BY <1>1, <1>3
    <3>2. Len(written[1]) \in Nat
      BY <1>2, <3>1, ElementOfSeq
    <3> QED
      BY <1>5, <2>1, <3>2 DEF Begins
  <2>3. End(checked)' = 0 /\ Len(in_crc') = 0
    BY <2>1 DEF End
  <2>4. in_crc' = PortableBytes(loaded[Entry])'
    BY <2>1, BytesOfNone
  <2>5. Len(stream') >= 0 /\ L >= 0
    BY <1>3, <1>6
  <2> QED
    BY <1>3, <1>5, <2>1, <2>2, <2>3, <2>4, <2>5 DEF Reading
<1> QED
  BY <1>1, <1>5, <1>7, <1>8, <1>9 DEF Order, CutShort, Writing

\* What the reader's steps leave alone
Unread == <<writer, reader, stream, out_crc, written, logs, reading>>

\* The entry that the reader is in
LEMMA EntryUnderWay ==
    ASSUME Order, Working
    PROVE  /\ TypeOK /\ Reading /\ checked \in Nat /\ Entry \in 1 .. Len(logs)
           /\ Len(logs) \in Nat /\ Entry - 1 = checked
           /\ EntrySealed(Entry) /\ End(Entry) = logs[Entry].end
           /\ End(checked) \in Nat /\ End(Len(logs)) \in Nat /\ logs[Entry].size \in Nat
           /\ logs[Entry].crc \in Seq(Byte)
           /\ written[Entry] \in Seq(Items) /\ HaveBytes(written[Entry])
           /\ loaded[Entry] \in Seq(Items) /\ HaveBytes(loaded[Entry])
           /\ in_crc \in Seq(Byte) /\ stream \in Seq(Byte) /\ pos \in Nat
           /\ writer \in Orders /\ reader \in Orders
<1>1. TypeOK /\ Sealed /\ reading /\ Reading /\ Len(written) = Len(logs) + 1
  BY DEF Order, Working
<1>2. /\ logs \in Seq([size : Nat, end : Nat, crc : Seq(Byte)]) /\ checked \in Nat
      /\ written \in Seq(Seq(Items)) /\ loaded \in Seq(Seq(Items))
      /\ in_crc \in Seq(Byte) /\ stream \in Seq(Byte) /\ pos \in Nat
      /\ writer \in Orders /\ reader \in Orders
  BY <1>1 DEF TypeOK
<1>3. Len(logs) \in Nat /\ Entry \in 1 .. Len(logs) /\ Entry - 1 = checked /\ Entry # 0
      /\ checked \in 0 .. Len(logs) /\ Len(logs) \in 0 .. Len(logs)
      /\ Entry \in 1 .. Len(written) /\ Entry \in 1 .. Len(loaded)
  <2>1. Len(logs) \in Nat
    BY <1>2
  <2>2. Entry = checked + 1 /\ Entry <= Len(logs) /\ Len(loaded) = Entry
    BY <1>1 DEF Working, Entry, Reading
  <2>3. checked \in Nat /\ Len(written) = Len(logs) + 1
    BY <1>1, <1>2
  <2> DEFINE L == Len(logs)  W == Len(written)  R == Len(loaded)  n == Entry
  <2>4. L \in Nat /\ n = checked + 1 /\ n <= L /\ R = n /\ checked \in Nat /\ W = L + 1
    BY <2>1, <2>2, <2>3
  <2> HIDE DEF L, W, R, n
  <2>5. /\ L \in Nat /\ n \in 1 .. L /\ n - 1 = checked /\ n # 0
        /\ checked \in 0 .. L /\ L \in 0 .. L /\ n \in 1 .. W /\ n \in 1 .. R
    BY <2>4
  <2> QED
    BY <2>5 DEF L, W, R, n
<1>4. EntrySealed(Entry) /\ End(Entry) = logs[Entry].end
  BY <1>1, <1>3 DEF Sealed, End
<1>5. End(checked) \in Nat /\ End(Len(logs)) \in Nat
  BY <1>1, <1>3, EndType
<1>6. logs[Entry] \in [size : Nat, end : Nat, crc : Seq(Byte)]
  BY <1>2, <1>3, ElementOfSeq
<1>7. written[Entry] \in Seq(Items) /\ loaded[Entry] \in Seq(Items)
  BY <1>2, <1>3, ElementOfSeq
<1>8. HaveBytes(written[Entry]) /\ HaveBytes(loaded[Entry])
  BY <1>2, <1>7, ItemsHaveBytes
<1> QED
  BY <1>1, <1>2, <1>3, <1>4, <1>5, <1>6, <1>7, <1>8

\* A step of the reader leaves the entries where they are.
LEMMA SealedStays ==
    ASSUME Sealed, UNCHANGED Unread
    PROVE  Sealed'
<1>1. UNCHANGED <<stream, written, logs>>
  BY DEF Unread
<1> QED
  BY <1>1 DEF Sealed, EntrySealed, Stands, End

\* The entries with one of them replaced
LEMMA EntryReplaced ==
    ASSUME NEW entries \in Seq(Seq(Items)), NEW n \in 1 .. Len(entries), NEW s \in Seq(Items),
           NEW replaced, replaced = [entries EXCEPT ![n] = s]
    PROVE  /\ replaced \in Seq(Seq(Items)) /\ Len(replaced) = Len(entries)
           /\ \A e \in 1 .. Len(entries) : replaced[e] = IF e = n THEN s ELSE entries[e]
<1> DEFINE S == Seq(Items)
<1>1. entries \in Seq(S) /\ s \in S
  OBVIOUS
<1> HIDE DEF S
<1>2. /\ [entries EXCEPT ![n] = s] \in Seq(S) /\ Len([entries EXCEPT ![n] = s]) = Len(entries)
      /\ \A e \in 1 .. Len(entries) :
            [entries EXCEPT ![n] = s][e] = IF e = n THEN s ELSE entries[e]
  BY <1>1, ExceptSeq
<1> QED
  BY <1>2 DEF S

\* The reader has new values of the entry that it is in.
LEMMA LoadedReplaced ==
    ASSUME loaded \in Seq(Seq(Items)), Entry \in 1 .. Len(loaded), NEW s \in Seq(Items),
           loaded' = [loaded EXCEPT ![Entry] = s]
    PROVE  /\ loaded' \in Seq(Seq(Items)) /\ Len(loaded') = Len(loaded)
           /\ \A e \in 1 .. Len(loaded) : loaded'[e] = IF e = Entry THEN s ELSE loaded[e]
  BY EntryReplaced

\* A step of the reader that takes bytes, all of them there, and has the first
\* values of its entry then, keeps the order.
LEMMA TakingKeepsOrder ==
    ASSUME Order, Working, UNCHANGED Unread, UNCHANGED <<checked, failed>>,
           NEW size \in Nat, NEW s \in Seq(Items), Has(pos, size), pos' = pos + size,
           in_crc' \in Seq(Byte), Len(in_crc') = Len(in_crc) + size,
           in_crc' = PortableBytes(s),
           loaded' = [loaded EXCEPT ![Entry] = s], Begins(s, written[Entry])
    PROVE  Order'
<1>1. /\ TypeOK /\ Reading /\ checked \in Nat /\ Entry \in 1 .. Len(logs)
      /\ Len(logs) \in Nat /\ End(checked) \in Nat /\ in_crc \in Seq(Byte)
      /\ stream \in Seq(Byte) /\ pos \in Nat
  BY EntryUnderWay
<1>2. Len(written) = Len(logs) + 1 /\ Sealed /\ reading /\ ~ failed
  BY DEF Order, Working
<1>3. UNCHANGED <<writer, reader, stream, out_crc, written, logs, reading>>
  BY DEF Unread
<1>4. loaded \in Seq(Seq(Items)) /\ Len(loaded) = Entry /\ Entry' = Entry
      /\ Entry = checked + 1 /\ Entry \in 1 .. Len(loaded)
  BY <1>1 DEF TypeOK, Reading, Entry
<1>5. /\ loaded' \in Seq(Seq(Items)) /\ Len(loaded') = Len(loaded)
      /\ \A e \in 1 .. Len(loaded) : loaded'[e] = IF e = Entry THEN s ELSE loaded[e]
  BY <1>4, LoadedReplaced
<1>6. TypeOK'
  BY <1>1, <1>3, <1>5 DEF TypeOK
<1>7. Reading'
  <2>1. loaded'[Entry'] = s /\ written'[Entry'] = written[Entry]
    BY <1>3, <1>4, <1>5
  <2>2. ASSUME NEW e \in 1 .. checked PROVE loaded'[e] = written'[e]
    <3>1. e \in 1 .. Len(loaded) /\ e # Entry
      BY <1>1, <1>4
    <3>2. loaded[e] = written[e]
      BY <1>1 DEF Reading
    <3> QED
      BY <1>3, <1>5, <3>1, <3>2
  <2>3. End(checked)' = End(checked)
    BY <1>3 DEF End
  <2>4. pos' = End(checked) + Len(in_crc')
    <3>1. pos = End(checked) + Len(in_crc) /\ Len(in_crc) \in Nat
      BY <1>1 DEF Reading
    <3> QED
      BY <1>1, <3>1
  <2>5. pos' <= Len(stream)
    BY DEF Has
  <2> QED
    BY <1>1, <1>3, <1>4, <1>5, <2>1, <2>2, <2>3, <2>4, <2>5 DEF Reading
<1> QED
  BY <1>2, <1>3, <1>6, <1>7, SealedStays DEF Order, CutShort

\* A step of the reader that throws where bytes are lost keeps the order.
LEMMA FailingKeepsOrder ==
    ASSUME Order, Working, UNCHANGED Unread, UNCHANGED checked, Fails,
           Len(stream) < End(Len(logs))
    PROVE  Order'
<1>1. TypeOK /\ Reading
  BY EntryUnderWay
<1>2. Len(written) = Len(logs) + 1 /\ Sealed /\ reading
  BY DEF Order, Working
<1>3. UNCHANGED <<writer, reader, stream, out_crc, written, logs, reading, checked,
                  pos, in_crc, loaded>> /\ failed' = TRUE
  BY DEF Unread, Fails
<1>4. TypeOK'
  BY <1>1, <1>3 DEF TypeOK
<1>5. Reading'
  BY <1>1, <1>3 DEF Reading, Entry, Begins, End
<1>6. CutShort'
  BY <1>3 DEF CutShort, End
<1> QED
  BY <1>2, <1>3, <1>4, <1>5, <1>6, SealedStays DEF Order

\* What is expected of an entry stands at the position, within the entry.
LEMMA ExpectedStands ==
    ASSUME Order, Working, More
    PROVE  LET s == Append(loaded[Entry], Expected)
               bytes == Portable(Expected)
           IN  /\ Expected \in Items /\ bytes \in Seq(Byte)
               /\ s \in Seq(Items) /\ Begins(s, written[Entry])
               /\ PortableBytes(s) = in_crc \o bytes
               /\ Stands(bytes, pos)
               /\ pos + Len(bytes) <= End(Len(logs))
<1> DEFINE old == loaded[Entry]
           all == written[Entry]
           k == Len(old)
           x == Expected
           s == Append(old, x)
           bytes == Portable(x)
           crc == logs[Entry].crc
<1>1. /\ Reading /\ EntrySealed(Entry) /\ Entry - 1 = checked
      /\ End(checked) \in Nat /\ End(Len(logs)) \in Nat /\ logs[Entry].size \in Nat
      /\ crc \in Seq(Byte) /\ in_crc \in Seq(Byte) /\ stream \in Seq(Byte) /\ pos \in Nat
      /\ all \in Seq(Items) /\ HaveBytes(all) /\ old \in Seq(Items) /\ HaveBytes(old)
      /\ writer \in Orders
  BY EntryUnderWay
<1>2. k \in Nat /\ Len(all) \in Nat /\ k < Len(all) /\ k + 1 \in 1 .. Len(all)
      /\ x = all[k + 1]
  BY <1>1 DEF More, Expected
<1>3. x \in Items /\ bytes \in Seq(Byte)
  <2>1. x \in Items
    BY <1>1, <1>2, ElementOfSeq
  <2> QED
    BY <1>1, <2>1, ItemsAssumption, SavedIsPortable
<1> HIDE DEF x
<1>4. /\ s \in Seq(Items) /\ Len(s) = k + 1 /\ s[k + 1] = x
      /\ \A j \in 1 .. k : s[j] = old[j]
  <2> HIDE DEF old
  <2> QED
    BY <1>1, <1>3, AppendProperties
<1>5. Begins(s, all)
  <2>1. \A j \in 1 .. k : all[j] = old[j]
    BY <1>1 DEF Reading, Begins
  <2>2. \A j \in 1 .. k + 1 : j = k + 1 \/ j \in 1 .. k
    BY <1>2
  <2> HIDE DEF s, all, old, k
  <2>3. Len(s) <= Len(all)
    BY <1>2, <1>4
  <2>4. ASSUME NEW j \in 1 .. Len(s) PROVE all[j] = s[j]
    BY <1>2, <1>4, <2>1, <2>2
  <2> QED
    BY <2>3, <2>4 DEF Begins
<1>6. PortableBytes(s) = in_crc \o bytes
  <2>1. HaveBytes(s)
    BY <1>1, <1>4, ItemsHaveBytes
  <2>2. in_crc = PortableBytes(old)
    BY <1>1 DEF Reading
  <2> HIDE DEF s, old
  <2>3. PortableBytes(s) = PortableBytes(old) \o Portable(s[Len(s)])
    BY <1>1, <1>4, <2>1, BytesOfMore DEF k
  <2> QED
    BY <1>4, <2>2, <2>3
<1>7. Begins(in_crc \o bytes, crc)
  <2>1. HaveBytes(s)
    BY <1>1, <1>4, ItemsHaveBytes
  <2>2. crc = PortableBytes(all)
    BY <1>1 DEF EntrySealed
  <2> HIDE DEF s, all, crc
  <2>3. Begins(PortableBytes(s), PortableBytes(all))
    BY <1>1, <1>5, <2>1, BytesBegin
  <2> QED
    BY <1>6, <2>2, <2>3
<1> DEFINE m == Len(in_crc)  n == Len(bytes)  a == End(checked)
<1> HIDE DEF old, all, k, s, bytes, crc
<1>8. /\ m \in Nat /\ n \in Nat /\ Len(in_crc \o bytes) = m + n
      /\ \A i \in 1 .. m + n :
            (in_crc \o bytes)[i] = IF i <= m THEN in_crc[i] ELSE bytes[i - m]
  BY <1>1, <1>3, ConcatProperties
<1>9. /\ pos = a + m /\ a \in Nat /\ Len(crc) = logs[Entry].size
      /\ logs[Entry].end = a + Len(crc) /\ logs[Entry].end <= End(Len(logs))
      /\ Stands(crc, a)
  BY <1>1 DEF Reading, EntrySealed, crc
<1>10. Stands(bytes, pos)
  <2> SUFFICES ASSUME NEW i \in 1 .. n, pos + i <= Len(stream)
               PROVE  stream[pos + i] = bytes[i]
    BY DEF Stands
  <2> HIDE DEF m, n, a
  <2>1. m + i \in 1 .. m + n /\ ~ (m + i <= m) /\ (m + i) - m = i
        /\ pos + i = a + (m + i)
    BY <1>8, <1>9
  <2>2. (in_crc \o bytes)[m + i] = bytes[i]
    BY <1>8, <2>1
  <2>3. m + i \in 1 .. Len(in_crc \o bytes)
    BY <1>8, <2>1
  <2>4. crc[m + i] = (in_crc \o bytes)[m + i]
    BY <1>7, <2>3 DEF Begins
  <2>5. m + i \in 1 .. Len(crc)
    <3>1. m + n <= Len(crc) /\ Len(crc) \in Nat
      BY <1>1, <1>7, <1>8, <1>9 DEF Begins
    <3> QED
      BY <1>8, <2>1, <3>1
  <2>6. stream[a + (m + i)] = crc[m + i]
    BY <1>9, <2>1, <2>5 DEF Stands
  <2> QED
    BY <2>1, <2>2, <2>4, <2>6
<1>11. pos + n <= End(Len(logs))
  <2> HIDE DEF m, n, a
  <2> DEFINE c == Len(crc)  z == End(Len(logs))  y == logs[Entry].end
  <2>1. m + n <= c
    BY <1>7, <1>8 DEF Begins
  <2>2. c \in Nat /\ z \in Nat /\ y = a + c /\ y <= z
    BY <1>1, <1>9
  <2> HIDE DEF c, z, y
  <2>3. pos + n <= z
    BY <1>8, <1>9, <2>1, <2>2
  <2> QED
    BY <2>3 DEF z
<1> QED
  BY <1>3, <1>4, <1>5, <1>6, <1>10, <1>11 DEF s, old, all, bytes, x, n

\* Load
LEMMA LoadKeepsOrder ==
    ASSUME Order, Load
    PROVE  Order'
<1> DEFINE x == Expected
           bytes == Portable(x)
           size == Len(bytes)
           s == Append(loaded[Entry], x)
           item == Loaded(x, pos)
<1>1. Working /\ More /\ UNCHANGED Unread /\ UNCHANGED checked
  BY DEF Load, Unread
<1>2. /\ IF item.ok
         THEN /\ pos' = pos + item.size
              /\ in_crc' = in_crc \o Bytes(pos, item.size)
              /\ loaded' = [loaded EXCEPT
                              ![Entry] = Append(@, [x EXCEPT !.value = item.value])]
              /\ UNCHANGED failed
         ELSE Fails
  BY DEF Load
<1>3. /\ x \in Items /\ bytes \in Seq(Byte) /\ s \in Seq(Items)
      /\ Begins(s, written[Entry]) /\ PortableBytes(s) = in_crc \o bytes
      /\ Stands(bytes, pos) /\ pos + size <= End(Len(logs))
  BY <1>1, ExpectedStands
<1>4. /\ in_crc \in Seq(Byte) /\ stream \in Seq(Byte) /\ pos \in Nat /\ Len(stream) \in Nat
      /\ writer \in Orders /\ reader \in Orders /\ End(Len(logs)) \in Nat
      /\ Len(loaded) = Entry /\ Entry \in Nat
  <2>1. /\ in_crc \in Seq(Byte) /\ stream \in Seq(Byte) /\ pos \in Nat
        /\ writer \in Orders /\ reader \in Orders /\ End(Len(logs)) \in Nat
        /\ Reading /\ Entry \in 1 .. Len(logs)
    BY <1>1, EntryUnderWay
  <2> QED
    BY <2>1 DEF Reading
<1>5. IsValue(x)
  BY <1>3, ItemsAssumption
<1> HIDE DEF x
<1>6. IF Has(pos, size)
      THEN item = [ok |-> TRUE, size |-> size, value |-> x.value]
      ELSE ~ item.ok
  BY <1>3, <1>4, <1>5, LoadedBack
<1> HIDE DEF item
<1>7. size \in Nat
  BY <1>3
<1>8. CASE Has(pos, size)
  <2>1. item.ok /\ item.size = size /\ item.value = x.value
    BY <1>6, <1>8
  <2>2. Bytes(pos, size) = bytes
    BY <1>3, <1>4, <1>8, BytesStand
  <2>3. [x EXCEPT !.value = item.value] = x
    BY <1>5, <2>1, ValueKinds
  <2>4. /\ pos' = pos + size /\ in_crc' = in_crc \o bytes /\ UNCHANGED failed
        /\ loaded' = [loaded EXCEPT ![Entry] = s]
    BY <1>2, <2>1, <2>2, <2>3
  <2>5. in_crc' \in Seq(Byte) /\ Len(in_crc') = Len(in_crc) + size
    BY <1>3, <1>4, <2>4, ConcatProperties
  <2> HIDE DEF s, size, bytes
  <2> QED
    BY <1>1, <1>3, <1>7, <1>8, <2>4, <2>5, TakingKeepsOrder
<1>9. CASE ~ Has(pos, size)
  <2>1. Fails
    BY <1>2, <1>6, <1>9
  <2>2. Len(stream) < End(Len(logs))
    <3> DEFINE z == End(Len(logs))
    <3>1. pos + size <= z /\ z \in Nat
      BY <1>3, <1>4
    <3> HIDE DEF z, size
    <3>2. Len(stream) < z
      BY <1>4, <1>7, <1>9, <3>1 DEF Has
    <3> QED
      BY <3>2 DEF z
  <2> QED
    BY <1>1, <2>1, <2>2, FailingKeepsOrder
<1> QED
  BY <1>8, <1>9

\* Skip
LEMMA SkipKeepsOrder ==
    ASSUME Order, Skip
    PROVE  Order'
<1> DEFINE crc == logs[Entry].crc
           size == Len(crc)
           all == written[Entry]
<1>1. /\ Reading /\ EntrySealed(Entry) /\ Entry - 1 = checked
      /\ End(checked) \in Nat /\ End(Len(logs)) \in Nat
      /\ crc \in Seq(Byte) /\ in_crc \in Seq(Byte) /\ stream \in Seq(Byte) /\ pos \in Nat
      /\ all \in Seq(Items)
  <2>1. Working
    BY DEF Skip
  <2> QED
    BY <2>1, EntryUnderWay
<1>2. size \in Nat /\ logs[Entry].size = size /\ SkippedChunks(logs[Entry].size) = size
  <2>1. size \in Nat /\ logs[Entry].size = size
    BY <1>1 DEF EntrySealed
  <2> HIDE DEF size
  <2> QED
    BY <2>1, SkipsAll
<1>3. /\ Working /\ loaded[Entry] = << >> /\ UNCHANGED Unread /\ UNCHANGED checked
      /\ IF Has(pos, size)
         THEN /\ pos' = pos + size
              /\ in_crc' = in_crc \o Bytes(pos, size)
              /\ loaded' = [loaded EXCEPT ![Entry] = all]
              /\ UNCHANGED failed
         ELSE Fails
  BY <1>2 DEF Skip, Unread
<1>4. in_crc = << >> /\ pos = End(checked) /\ Stands(crc, pos)
      /\ crc = PortableBytes(all) /\ pos + size <= End(Len(logs))
  <2>1. in_crc = << >> /\ pos = End(checked) + Len(in_crc)
    BY <1>1, <1>3, BytesOfNone DEF Reading
  <2>2. Len(in_crc) = 0 /\ pos = End(checked)
    BY <1>1, <2>1
  <2> QED
    BY <1>1, <1>2, <2>1, <2>2 DEF EntrySealed
<1> HIDE DEF crc, all
<1>5. CASE Has(pos, size)
  <2>1. Bytes(pos, size) = crc
    BY <1>1, <1>4, <1>5, BytesStand
  <2>2. in_crc' = crc /\ Len(in_crc') = Len(in_crc) + size
    <3>1. in_crc' = << >> \o crc
      BY <1>3, <1>4, <1>5, <2>1
    <3>2. << >> \o crc = crc
      BY <1>1, ConcatEmptySeq
    <3>3. Len(in_crc) = 0 /\ size = 0 + size
      BY <1>2, <1>4
    <3> QED
      BY <3>1, <3>2, <3>3
  <2>3. Begins(all, all)
    BY <1>1 DEF Begins
  <2>4. /\ pos' = pos + size /\ loaded' = [loaded EXCEPT ![Entry] = all]
        /\ UNCHANGED <<checked, failed>>
    BY <1>3, <1>5
  <2> HIDE DEF size
  <2> QED
    BY <1>1, <1>2, <1>3, <1>4, <1>5, <2>2, <2>3, <2>4, TakingKeepsOrder DEF all
<1>6. CASE ~ Has(pos, size)
  <2>1. Len(stream) < End(Len(logs))
    <3> DEFINE z == End(Len(logs))
    <3>1. pos + size <= z /\ z \in Nat /\ Len(stream) \in Nat
      BY <1>1, <1>4
    <3> HIDE DEF z, size
    <3>2. Len(stream) < z
      BY <1>1, <1>2, <1>6, <3>1 DEF Has
    <3> QED
      BY <3>2 DEF z
  <2> QED
    BY <1>3, <1>6, <2>1, FailingKeepsOrder
<1> QED
  BY <1>5, <1>6

\* An entry that is read to its end has its values and its bytes.
LEMMA EntryAtEnd ==
    ASSUME Order, Working, ~ More
    PROVE  /\ loaded[Entry] = written[Entry]
           /\ in_crc = logs[Entry].crc /\ pos = logs[Entry].end
<1>1. /\ Reading /\ EntrySealed(Entry) /\ Entry - 1 = checked
      /\ written[Entry] \in Seq(Items) /\ loaded[Entry] \in Seq(Items)
  BY EntryUnderWay
<1>2. loaded[Entry] = written[Entry]
  <2> DEFINE s == loaded[Entry]  t == written[Entry]
  <2>1. s \in Seq(Items) /\ t \in Seq(Items) /\ Begins(s, t) /\ ~ (Len(s) < Len(t))
    BY <1>1 DEF Reading, More
  <2> HIDE DEF s, t
  <2>2. Len(s) = Len(t) /\ \A i \in 1 .. Len(s) : s[i] = t[i]
    BY <2>1 DEF Begins
  <2>3. s = t
    BY <2>1, <2>2, SeqEqual
  <2> QED
    BY <2>3 DEF s, t
<1>3. in_crc = logs[Entry].crc
  BY <1>1, <1>2 DEF Reading, EntrySealed
<1>4. pos = logs[Entry].end
  BY <1>1, <1>3 DEF Reading, EntrySealed
<1> QED
  BY <1>2, <1>3, <1>4

\* Check
LEMMA CheckKeepsOrder ==
    ASSUME Order, Check
    PROVE  Order'
<1>1. /\ TypeOK /\ Reading /\ checked \in Nat /\ Entry \in 1 .. Len(logs)
      /\ Len(logs) \in Nat /\ Entry - 1 = checked /\ End(Entry) = logs[Entry].end
      /\ stream \in Seq(Byte) /\ pos \in Nat
  BY EntryUnderWay DEF Check
<1>2. Len(written) = Len(logs) + 1 /\ Sealed /\ reading /\ ~ failed
  BY DEF Order, Check, Working
<1>3. loaded[Entry] = written[Entry] /\ pos = logs[Entry].end
  BY EntryAtEnd DEF Check
<1>4. /\ checked' = checked + 1 /\ in_crc' = << >> /\ loaded' = Append(loaded, << >>)
      /\ UNCHANGED <<writer, reader, stream, out_crc, written, logs, reading, pos, failed>>
      /\ UNCHANGED Unread
  BY DEF Check, Reset, Unread
<1>5. loaded \in Seq(Seq(Items)) /\ Len(loaded) = Entry /\ Entry = checked + 1
      /\ Entry' = Entry + 1 /\ checked' = Entry /\ written \in Seq(Seq(Items))
  BY <1>1, <1>4 DEF TypeOK, Reading, Entry
<1> DEFINE n == Entry
<1>6. /\ loaded' \in Seq(Seq(Items)) /\ Len(loaded') = n + 1
      /\ \A e \in 1 .. n : loaded'[e] = loaded[e]
      /\ loaded'[n + 1] = << >>
  <2>1. << >> \in Seq(Items)
    BY EmptySeq
  <2>2. /\ loaded' \in Seq(Seq(Items)) /\ Len(loaded') = Len(loaded) + 1
        /\ \A e \in 1 .. Len(loaded) : loaded'[e] = loaded[e]
        /\ loaded'[Len(loaded) + 1] = << >>
    BY <1>4, <1>5, <2>1, AppendProperties
  <2> QED
    BY <1>5, <2>2
<1>7. TypeOK'
  <2>1. in_crc' \in Seq(Byte) /\ checked' \in Nat
    BY <1>1, <1>4, EmptySeq
  <2> QED
    BY <1>1, <1>4, <1>6, <2>1 DEF TypeOK
<1>8. Reading'
  <2>1. ASSUME NEW e \in 1 .. n PROVE loaded'[e] = written'[e]
    <3>1. e = n \/ e \in 1 .. checked
      BY <1>1, <1>5
    <3>2. loaded[e] = written[e]
      BY <1>1, <1>3, <3>1 DEF Reading
    <3> QED
      BY <1>4, <1>6, <3>2
  <2>2. Begins(loaded[Entry], written[Entry])'
    <3>1. loaded'[Entry'] = << >>
      BY <1>5, <1>6
    <3>2. n + 1 \in 1 .. Len(written)
      BY <1>1, <1>2
    <3>3. Len(written[n + 1]) \in Nat
      BY <1>5, <3>2, ElementOfSeq
    <3> QED
      BY <1>4, <1>5, <3>1, <3>3 DEF Begins
  <2>3. End(checked)' = pos /\ Len(in_crc') = 0
    BY <1>1, <1>3, <1>4, <1>5 DEF End
  <2>4. in_crc' = PortableBytes(loaded[Entry])'
    BY <1>4, <1>5, <1>6, BytesOfNone
  <2>5. pos <= Len(stream) /\ checked' <= Len(logs) /\ pos = pos + 0
    BY <1>1, <1>5 DEF Reading
  <2> QED
    BY <1>4, <1>5, <1>6, <2>1, <2>2, <2>3, <2>4, <2>5 DEF Reading
<1> QED
  BY <1>2, <1>4, <1>7, <1>8, SealedStays DEF Order, CutShort

-----------------------------------------------------------------------------
(* The theorems. *)

\* The reader stays in step with the writer, in every reachable state, for any
\* values, sizes and byte orders, wherever the stream ends.
THEOREM OrderHolds == Spec => []Order
<1>1. Init => Order
  BY OrderAtInit
<1>2. Order /\ [Next]_vars => Order'
  <2> SUFFICES ASSUME Order, [Next]_vars PROVE Order'
    OBVIOUS
  <2>1. ASSUME NEW item \in Items, Save(item) PROVE Order'
    BY <2>1, SaveKeepsOrder
  <2>2. CASE Seal
    BY <2>2, SealKeepsOrder
  <2>3. CASE Turn
    BY <2>3, TurnKeepsOrder
  <2>4. CASE Load
    BY <2>4, LoadKeepsOrder
  <2>5. CASE Skip
    BY <2>5, SkipKeepsOrder
  <2>6. CASE Check
    BY <2>6, CheckKeepsOrder
  <2>7. CASE UNCHANGED vars
    BY <2>7 DEF Order, TypeOK, Sealed, EntrySealed, Stands, End, Writing, Reading,
                Entry, Begins, CutShort, vars
  <2>8. CASE Done
    BY <2>7, <2>8 DEF Done
  <2> QED
    BY <2>1, <2>2, <2>3, <2>4, <2>5, <2>6, <2>7, <2>8 DEF Next
<1> QED
  BY <1>1, <1>2, PTL DEF Spec

\* Every variable has its type: what is loaded are values of the program.
THEOREM TypeOKHolds == Spec => []TypeOK
<1>1. Order => TypeOK
  BY DEF Order
<1> QED
  BY <1>1, OrderHolds, PTL

\* The bytes of an entry do not depend on the host that writes it.
THEOREM WritesPortablyHolds == Spec => []WritesPortably
<1>1. Order => WritesPortably
  BY DEF Order, Writing, WritesPortably
<1> QED
  BY <1>1, OrderHolds, PTL

\* What is loaded is what was saved, on hosts of either byte order.
THEOREM LoadsWhatWasSavedHolds == Spec => []LoadsWhatWasSaved
<1>1. Order => LoadsWhatWasSaved
  <2> SUFFICES ASSUME Order, NEW e \in 1 .. Len(loaded), NEW k \in 1 .. Len(loaded[e])
               PROVE  loaded[e][k] = written[e][k]
    BY DEF LoadsWhatWasSaved
  <2>1. CASE reading
    <3>1. Reading /\ checked \in Nat
      BY <2>1 DEF Order, TypeOK
    <3>2. e = Entry \/ e \in 1 .. checked
      BY <3>1 DEF Reading, Entry
    <3> QED
      BY <3>1, <3>2 DEF Reading, Begins
  <2>2. CASE ~ reading
    <3>1. loaded = << << >> >>
      BY <2>2 DEF Order, Writing
    <3>2. e = 1 /\ Len(loaded[e]) = 0
      BY <3>1
    <3> QED
      BY <3>2
  <2> QED
    BY <2>1, <2>2
<1> QED
  BY <1>1, OrderHolds, PTL

\* An entry that was loaded or skipped to its end passes the comparison of its
\* size and checksum, and only a stream that lost bytes makes a reader throw.
THEOREM EntriesCheckHolds == Spec => []EntriesCheck
<1>1. Order => EntriesCheck
  <2> SUFFICES ASSUME Order PROVE EntriesCheck
    OBVIOUS
  <2>1. Working /\ ~ More => in_crc = logs[Entry].crc /\ pos = logs[Entry].end
    BY EntryAtEnd
  <2>2. ASSUME failed PROVE Len(stream) < logs[Len(logs)].end
    <3>1. Len(stream) < End(Len(logs)) /\ Len(stream) \in Nat
      BY <2>2 DEF Order, CutShort, TypeOK
    <3>2. Len(logs) # 0
      BY <3>1 DEF End
    <3> QED
      BY <3>1, <3>2 DEF End
  <2> QED
    BY <2>1, <2>2 DEF EntriesCheck
<1> QED
  BY <1>1, OrderHolds, PTL
============
