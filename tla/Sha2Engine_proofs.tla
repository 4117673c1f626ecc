--------------------------- MODULE Sha2Engine_proofs ---------------------------
(***************************************************************************)
(* The engines of src/crypto/src/sha2.rs keep the promise of the trait     *)
(* Digest, for every message, every way to cut it into inputs, and every   *)
(* size of bytes, blocks and counts.                                       *)
(***************************************************************************)
EXTENDS Sha2Engine, DataLemmas

-----------------------------------------------------------------------------
(* Powers of BYTE_MOD.  g is the beginning of the function Power.          *)
Begins(g, n) ==
  /\ g \in [0 .. n -> Nat]
  /\ g[0] = 1
  /\ \A i \in 0 .. (n - 1) : g[i + 1] = BYTE_MOD * g[i]

(* Power has a beginning of every length, ...                              *)
LEMMA PowerBegins == \A n \in Nat : \E g : Begins(g, n)
<1> DEFINE T == { n \in Nat : \E g : Begins(g, n) }
<1>1. 0 \in T
  <2>1. Begins([i \in 0 .. 0 |-> 1], 0)
    BY DEF Begins
  <2> QED
    BY <2>1
<1>2. ASSUME NEW n \in T
      PROVE  n + 1 \in T
  <2>1. PICK g : Begins(g, n)
    OBVIOUS
  <2> DEFINE c == BYTE_MOD * g[n]
             h == [i \in 0 .. (n + 1) |-> IF i <= n THEN g[i] ELSE c]
  <2>2. n \in Nat /\ BYTE_MOD \in Nat /\ \A i \in 0 .. n : g[i] \in Nat
    BY <2>1, ByteAssumption DEF Begins
  <2>3. c \in Nat /\ c = BYTE_MOD * g[n]
    BY <2>2
  <2> HIDE DEF c
  <2>4. /\ h \in [0 .. (n + 1) -> Nat] /\ h[0] = g[0]
        /\ \A i \in 0 .. n : h[i] = g[i]
        /\ h[n + 1] = c
    <3>1. \A i \in 0 .. (n + 1) : i <= n => i \in 0 .. n
      BY <2>2
    <3>2. /\ n + 1 \in 0 .. (n + 1) /\ ~(n + 1 <= n) /\ 0 \in 0 .. n
          /\ \A i \in 0 .. n : i <= n /\ i \in 0 .. (n + 1)
      BY <2>2
    <3>3. h \in [0 .. (n + 1) -> Nat]
      BY <2>2, <2>3, <3>1
    <3>4. h[n + 1] = c
      BY <3>2
    <3>5. \A i \in 0 .. n : h[i] = g[i]
      BY <3>2
    <3> QED
      BY <3>2, <3>3, <3>4, <3>5
  <2> HIDE DEF h
  <2>5. \A i \in 0 .. ((n + 1) - 1) : h[i + 1] = BYTE_MOD * h[i]
    <3> TAKE i \in 0 .. ((n + 1) - 1)
    <3>1. CASE i = n
      BY <2>2, <2>3, <2>4, <3>1
    <3>2. CASE i # n
      <4>1. i \in 0 .. (n - 1) /\ i + 1 \in 0 .. n /\ i \in 0 .. n
        BY <2>2, <3>2
      <4> QED
        BY <2>1, <2>4, <4>1 DEF Begins
    <3> QED
      BY <3>1, <3>2
  <2>6. Begins(h, n + 1)
    BY <2>1, <2>4, <2>5 DEF Begins
  <2> QED
    BY <2>2, <2>6
<1>3. T \subseteq Nat
  OBVIOUS
<1> HIDE DEF T
<1>4. T = Nat
  BY <1>1, <1>2, <1>3, Induction
<1> QED
  BY <1>4 DEF T

(* ... and any two of them agree.                                          *)
LEMMA PowerUnique ==
  ASSUME NEW n \in Nat, NEW k \in Nat, NEW g, NEW h, Begins(g, n), Begins(h, k),
         NEW i \in Nat, i <= n, i <= k
  PROVE  g[i] = h[i]
<1> DEFINE T == { j \in Nat : j <= n /\ j <= k => g[j] = h[j] }
<1>1. 0 \in T /\ T \subseteq Nat
  BY DEF Begins
<1>2. ASSUME NEW j \in T
      PROVE  j + 1 \in T
  <2> SUFFICES ASSUME j + 1 <= n, j + 1 <= k
               PROVE  g[j + 1] = h[j + 1]
    OBVIOUS
  <2>1. j \in Nat /\ j \in 0 .. (n - 1) /\ j \in 0 .. (k - 1) /\ j <= n /\ j <= k
    OBVIOUS
  <2>2. g[j] = h[j]
    BY <2>1
  <2> QED
    BY <2>1, <2>2 DEF Begins
<1> HIDE DEF T
<1>3. T = Nat
  BY <1>1, <1>2, Induction
<1> QED
  BY <1>3 DEF T

(* So the recursive definition of Power defines a function.                *)
LEMMA PowerEquations ==
  /\ Power[0] = 1
  /\ \A n \in Nat : Power[n + 1] = BYTE_MOD * Power[n]
<1> DEFINE g(n) == CHOOSE f : Begins(f, n)
           F == [n \in Nat |-> g(n)[n]]
           Def(f) == [n \in Nat |-> IF n = 0 THEN 1 ELSE BYTE_MOD * f[n - 1]]
<1>1. \A n \in Nat : Begins(g(n), n)
  BY PowerBegins
<1> HIDE DEF g
<1>2. F[0] = 1
  BY <1>1 DEF Begins
<1>3. \A n \in Nat : F[n + 1] = BYTE_MOD * F[n]
  <2> TAKE n \in Nat
  <2>1. n + 1 \in Nat /\ n \in 0 .. ((n + 1) - 1) /\ n <= n /\ n <= n + 1
    OBVIOUS
  <2>2. g(n + 1)[n + 1] = BYTE_MOD * g(n + 1)[n]
    BY <1>1, <2>1 DEF Begins
  <2> DEFINE a == g(n) b == g(n + 1) m == n + 1
  <2>3. Begins(a, n) /\ Begins(b, m) /\ m \in Nat /\ n <= m
    BY <1>1, <2>1
  <2> HIDE DEF a, b, m
  <2>4. b[n] = a[n]
    BY <2>3, PowerUnique
  <2> QED
    BY <2>1, <2>2, <2>4 DEF a, b
<1>4. F = Def(F)
  <2>1. \A n \in Nat : F[n] = Def(F)[n]
    <3> TAKE n \in Nat
    <3>1. CASE n = 0
      BY <1>2, <3>1
    <3>2. CASE n # 0
      <4>1. n - 1 \in Nat /\ (n - 1) + 1 = n
        BY <3>2
      <4> DEFINE m == n - 1
      <4>2. F[m + 1] = BYTE_MOD * F[m]
        BY <1>3, <4>1
      <4>3. Def(F)[n] = BYTE_MOD * F[m]
        BY <3>2
      <4> QED
        BY <4>1, <4>2, <4>3
    <3> QED
      BY <3>1, <3>2
  <2>2. F \in [Nat -> {g(n)[n] : n \in Nat}]
    OBVIOUS
  <2> QED
    BY <2>1
<1>5. Power = CHOOSE f : f = Def(f)
  BY DEF Power
<1> HIDE DEF F
<1>6. Power = Def(Power)
  BY <1>4, <1>5
<1> QED
  <2>1. \A n \in Nat : n + 1 \in Nat /\ n + 1 # 0 /\ (n + 1) - 1 = n
    OBVIOUS
  <2>2. \A n \in Nat : Power[n] = IF n = 0 THEN 1 ELSE BYTE_MOD * Power[n - 1]
    BY <1>6
  <2> QED
    BY <2>1, <2>2

(* Powers are positive.                                                    *)
LEMMA PowerType == \A n \in Nat : Power[n] \in Nat \ {0}
<1> DEFINE T == { n \in Nat : Power[n] \in Nat \ {0} }
<1>1. 0 \in T /\ T \subseteq Nat
  BY PowerEquations
<1>2. ASSUME NEW n \in T
      PROVE  n + 1 \in T
  <2>1. BYTE_MOD \in Nat \ {0} /\ Power[n] \in Nat \ {0} /\ n \in Nat
    BY ByteAssumption
  <2>2. BYTE_MOD * Power[n] \in Nat \ {0}
    BY <2>1
  <2> QED
    BY <2>1, <2>2, PowerEquations
<1> HIDE DEF T
<1>3. T = Nat
  BY <1>1, <1>2, Induction
<1> QED
  BY <1>3 DEF T

(* The power of a sum.                                                     *)
LEMMA PowerSum ==
  ASSUME NEW a \in Nat, NEW b \in Nat
  PROVE  Power[a + b] = Power[a] * Power[b]
<1> DEFINE T == { n \in Nat : Power[a + n] = Power[a] * Power[n] }
<1>1. 0 \in T /\ T \subseteq Nat
  <2>1. a + 0 = a /\ Power[a] \in Nat
    BY PowerType
  <2> QED
    BY <2>1, PowerEquations
<1>2. ASSUME NEW n \in T
      PROVE  n + 1 \in T
  <2> DEFINE p == Power[a] q == Power[n]
  <2>1. p \in Nat /\ q \in Nat /\ BYTE_MOD \in Nat /\ n \in Nat
    BY PowerType, ByteAssumption
  <2>2. a + (n + 1) = (a + n) + 1 /\ a + n \in Nat
    BY <2>1
  <2>3. Power[a + (n + 1)] = BYTE_MOD * (p * q)
    BY <2>2, PowerEquations
  <2>4. Power[n + 1] = BYTE_MOD * q
    BY <2>1, PowerEquations
  <2> HIDE DEF p, q
  <2>5. BYTE_MOD * (p * q) = p * (BYTE_MOD * q)
    BY <2>1
  <2> QED
    BY <2>1, <2>3, <2>4, <2>5 DEF p
<1> HIDE DEF T
<1>3. T = Nat
  BY <1>1, <1>2, Induction
<1> QED
  BY <1>3 DEF T

(* BigEndian gives n bytes.                                                *)
LEMMA BigEndianType ==
  ASSUME NEW x \in Nat, NEW n \in Nat
  PROVE  /\ BigEndian(x, n) \in Seq(Bytes) /\ Len(BigEndian(x, n)) = n
         /\ \A i \in 1 .. n : BigEndian(x, n)[i] = (x \div Power[n - i]) % BYTE_MOD
<1> DEFINE f == [i \in 1 .. n |-> (x \div Power[n - i]) % BYTE_MOD]
<1>1. \A i \in 1 .. n : (x \div Power[n - i]) % BYTE_MOD \in Bytes
  <2> TAKE i \in 1 .. n
  <2> DEFINE p == Power[n - i] d == x \div p
  <2>1. p \in Nat \ {0}
    BY PowerType
  <2> HIDE DEF p
  <2>2. d \in Nat
    BY <2>1, DivMod
  <2> HIDE DEF d
  <2>3. d % BYTE_MOD \in Bytes
    BY <2>2, ByteAssumption, ModRange DEF Bytes
  <2> QED
    BY <2>3 DEF d, p
<1>2. f \in [1 .. n -> Bytes]
  BY <1>1
<1>3. \A i \in 1 .. n : f[i] = (x \div Power[n - i]) % BYTE_MOD
  OBVIOUS
<1> HIDE DEF f
<1>4. f \in Seq(Bytes) /\ Len(f) = n
  BY <1>2, SeqDef, LenProperties
<1>5. BigEndian(x, n) = f
  BY DEF BigEndian, f
<1> QED
  BY <1>3, <1>4, <1>5

(* The two words of a count one after the other are the count: the high    *)
(* word's bytes come first (sha2.rs: write_u32_be or write_u64_be twice).  *)
LEMMA BigEndianPair ==
  ASSUME NEW hi \in Nat, NEW h \in Nat, NEW low \in 0 .. (Power[h] - 1)
  PROVE  BigEndian(hi, h) \o BigEndian(low, h)
           = BigEndian(hi * Power[h] + low, 2 * h)
<1> DEFINE w == Power[h]
           x == hi * w + low
           a == BigEndian(hi, h)
           b == BigEndian(low, h)
<1>1. w \in Nat \ {0} /\ low \in Nat /\ low < w
  BY PowerType
<1>2. hi * w \in Nat /\ 2 * h \in Nat /\ x = w * hi + low
  BY <1>1
<1>3. x \in Nat
  BY <1>1, <1>2
<1> HIDE DEF w, x
<1>4. /\ a \in Seq(Bytes) /\ Len(a) = h
      /\ \A i \in 1 .. h : a[i] = (hi \div Power[h - i]) % BYTE_MOD
      /\ b \in Seq(Bytes) /\ Len(b) = h
      /\ \A i \in 1 .. h : b[i] = (low \div Power[h - i]) % BYTE_MOD
  BY <1>1, BigEndianType
<1> DEFINE n == 2 * h
<1>5. n \in Nat /\ n = h + h
  OBVIOUS
<1> HIDE DEF n
<1>6. /\ BigEndian(x, n) \in Seq(Bytes) /\ Len(BigEndian(x, n)) = n
      /\ \A i \in 1 .. n : BigEndian(x, n)[i] = (x \div Power[n - i]) % BYTE_MOD
  BY <1>3, <1>5, BigEndianType
<1> HIDE DEF a, b
<1>7. /\ a \o b \in Seq(Bytes) /\ Len(a \o b) = n
      /\ \A i \in 1 .. n : (a \o b)[i] = IF i <= h THEN a[i] ELSE b[i - h]
  <2>1. a \in Seq(Bytes) /\ b \in Seq(Bytes)
    BY <1>4
  <2>2. /\ a \o b \in Seq(Bytes) /\ Len(a \o b) = Len(a) + Len(b)
        /\ \A i \in 1 .. Len(a) + Len(b) :
             (a \o b)[i] = IF i <= Len(a) THEN a[i] ELSE b[i - Len(a)]
    BY <2>1, ConcatProperties
  <2>3. Len(a) = h /\ Len(b) = h
    BY <1>4
  <2> QED
    BY <1>5, <2>2, <2>3
<1>8. \A i \in 1 .. h : (x \div Power[n - i]) % BYTE_MOD = (hi \div Power[h - i]) % BYTE_MOD
  <2> TAKE i \in 1 .. h
  <2> DEFINE j == h - i p == Power[j]
  <2>1. j \in Nat /\ n - i = h + j
    BY <1>5
  <2> HIDE DEF j
  <2>2. p \in Nat \ {0} /\ Power[h + j] = w * p
    BY <2>1, PowerType, PowerSum DEF w
  <2> HIDE DEF p
  <2>3. (x \div w) \div p = x \div (w * p)
    BY <1>1, <1>3, <2>2, DivDiv
  <2>4. x \div w = hi
    BY <1>1, <1>2, <1>3, DivUnique
  <2> QED
    BY <2>1, <2>2, <2>3, <2>4 DEF p, j
<1>9. \A i \in 1 .. n : ~(i <= h) =>
        (x \div Power[n - i]) % BYTE_MOD = (low \div Power[h - (i - h)]) % BYTE_MOD
  <2> SUFFICES ASSUME NEW i \in 1 .. n, ~(i <= h)
               PROVE  (x \div Power[n - i]) % BYTE_MOD
                        = (low \div Power[h - (i - h)]) % BYTE_MOD
    OBVIOUS
  <2> DEFINE j == n - i
             k == h - j - 1
             p == Power[j]
             q == Power[k]
             l == low \div p
             r == low % p
  <2>1. j \in Nat /\ k \in Nat /\ h - (i - h) = j /\ h = (j + 1) + k
    BY <1>5
  <2> HIDE DEF j, k
  <2>2. p \in Nat \ {0} /\ q \in Nat \ {0} /\ BYTE_MOD \in Nat \ {0}
    BY <2>1, PowerType, ByteAssumption
  <2>3. w = (BYTE_MOD * p) * q
    <3>1. j + 1 \in Nat /\ Power[j + 1] = BYTE_MOD * p
      BY <2>1, PowerEquations
    <3> DEFINE m == j + 1
    <3>2. m \in Nat /\ h = m + k /\ Power[m] = BYTE_MOD * p
      BY <2>1, <3>1
    <3> HIDE DEF m
    <3>3. Power[m + k] = Power[m] * Power[k]
      BY <2>1, <3>2, PowerSum
    <3> QED
      BY <3>2, <3>3 DEF w
  <2> HIDE DEF p, q
  <2>4. l \in Nat /\ r \in 0 .. (p - 1) /\ low = p * l + r
    BY <1>1, <2>2, DivMod, ModRange
  <2> HIDE DEF l, r
  <2> DEFINE m == BYTE_MOD * (q * hi) + l
  <2>5. q * hi \in Nat
    BY <2>2
  <2>6. BYTE_MOD * (q * hi) \in Nat
    BY <2>2, <2>5
  <2>7. m \in Nat
    BY <2>4, <2>6
  <2>8. p * m = p * (BYTE_MOD * (q * hi)) + p * l
    BY <2>2, <2>4, <2>6
  <2>9. p * (BYTE_MOD * (q * hi)) = ((BYTE_MOD * p) * q) * hi
    BY <2>2
  <2>10. /\ p * (BYTE_MOD * (q * hi)) \in Nat /\ p * l \in Nat
         /\ p * (BYTE_MOD * (q * hi)) = w * hi
    BY <2>2, <2>3, <2>4, <2>6, <2>9
  <2>11. x = p * m + r
    BY <1>2, <2>4, <2>8, <2>10, <1>1
  <2> HIDE DEF m
  <2>12. x \div p = m
    BY <1>3, <2>2, <2>4, <2>7, <2>11, DivUnique, SMTT(30)
  <2> DEFINE qh == q * hi
  <2>13. qh \in Nat /\ m = BYTE_MOD * qh + l
    BY <2>5 DEF m
  <2> HIDE DEF qh
  <2>14. m % BYTE_MOD = l % BYTE_MOD
    BY <2>2, <2>4, <2>13, ModMultiple
  <2> QED
    BY <2>1, <2>12, <2>14 DEF p, l, j
<1>10. \A i \in 1 .. n : (a \o b)[i] = BigEndian(x, n)[i]
  <2> TAKE i \in 1 .. n
  <2>1. CASE i <= h
    <3>1. i \in 1 .. h
      BY <2>1
    <3> QED
      BY <1>4, <1>6, <1>7, <1>8, <3>1
  <2>2. CASE ~(i <= h)
    <3>1. i - h \in 1 .. h
      BY <1>5, <2>2
    <3> QED
      BY <1>4, <1>6, <1>7, <1>9, <2>2, <3>1
  <2> QED
    BY <2>1, <2>2
<1>11. a \o b = BigEndian(x, n)
  BY <1>6, <1>7, <1>10, SeqEqual
<1> QED
  BY <1>11 DEF a, b, n, x, w

-----------------------------------------------------------------------------
(* Cutting a message into blocks.                                          *)

(* Where block k begins and ends.                                          *)
LEMMA BlockPlace ==
  ASSUME NEW n \in Nat \ {0}, NEW q \in Nat, NEW k \in 1 .. q
  PROVE  /\ (k - 1) * n \in Nat /\ k * n = (k - 1) * n + n
         /\ k * n <= q * n /\ q * n = n * q /\ q * n \in Nat
<1>1. k * n <= q * n
  OBVIOUS
<1> QED
  BY <1>1

(* The blocks of a sequence are its whole parts of n bytes, the rest has   *)
(* the length that the remainder says.                                     *)
LEMMA BlocksLemma ==
  ASSUME NEW n \in Nat \ {0}, NEW s \in Seq(Bytes)
  PROVE  /\ Blocks(s, n) \in Seq(Block(n)) /\ Len(Blocks(s, n)) = Len(s) \div n
         /\ \A k \in 1 .. Len(s) \div n :
              Blocks(s, n)[k] = SubSeq(s, (k - 1) * n + 1, k * n)
         /\ Rest(s, n) \in Seq(Bytes) /\ Len(Rest(s, n)) = Len(s) % n
         /\ Len(s) % n \in 0 .. (n - 1) /\ Len(s) \div n \in Nat
         /\ (Len(s) \div n) * n \in Nat
         /\ Len(s) = (Len(s) \div n) * n + (Len(s) % n)
<1> DEFINE q == Len(s) \div n
           r == Len(s) % n
           e == q * n
<1>1. /\ q \in Nat /\ r \in 0 .. (n - 1) /\ Len(s) \in Nat /\ Len(s) = n * q + r
  BY LenProperties, DivMod, ModRange
<1>2. Blocks(s, n) = [k \in 1 .. q |-> SubSeq(s, (k - 1) * n + 1, k * n)]
  BY DEF Blocks
<1>3. Rest(s, n) = SubSeq(s, e + 1, Len(s))
  BY DEF Rest
<1> HIDE DEF q, r
<1>4. e \in Nat /\ Len(s) = e + r
  BY <1>1
<1> DEFINE f == [k \in 1 .. q |-> SubSeq(s, (k - 1) * n + 1, k * n)]
<1>5. \A k \in 1 .. q : SubSeq(s, (k - 1) * n + 1, k * n) \in Block(n)
  <2> TAKE k \in 1 .. q
  <2> DEFINE p == (k - 1) * n b == SubSeq(s, p + 1, p + n)
  <2>1. p \in Nat /\ k * n = p + n /\ k * n <= e
    BY <1>1, BlockPlace
  <2>2. SubSeq(s, (k - 1) * n + 1, k * n) = b
    BY <2>1
  <2> HIDE DEF p, e
  <2>3. p + n <= Len(s)
    BY <1>1, <1>4, <2>1
  <2>4. b \in Seq(Bytes) /\ Len(b) = n
    BY <2>1, <2>3, PartProperties
  <2> HIDE DEF b
  <2>5. b \in [1 .. n -> Bytes]
    BY <2>4, SeqIsFunction
  <2> QED
    BY <2>2, <2>5 DEF Block
<1>6. f \in [1 .. q -> Block(n)]
  BY <1>5
<1>7. \A k \in 1 .. q : f[k] = SubSeq(s, (k - 1) * n + 1, k * n)
  OBVIOUS
<1> HIDE DEF f, e
<1>8. f \in Seq(Block(n)) /\ Len(f) = q
  BY <1>1, <1>6, FunctionIsSeq
<1>9. /\ SubSeq(s, e + 1, e + r) \in Seq(Bytes)
      /\ Len(SubSeq(s, e + 1, e + r)) = r
  BY <1>1, <1>4, PartProperties
<1>10. /\ Blocks(s, n) \in Seq(Block(n)) /\ Len(Blocks(s, n)) = q
       /\ \A k \in 1 .. q : Blocks(s, n)[k] = SubSeq(s, (k - 1) * n + 1, k * n)
       /\ Rest(s, n) \in Seq(Bytes) /\ Len(Rest(s, n)) = r
       /\ r \in 0 .. (n - 1) /\ q \in Nat
  BY <1>1, <1>2, <1>3, <1>4, <1>7, <1>8, <1>9 DEF f
<1> QED
  BY <1>4, <1>10 DEF q, r, e

(* A sequence is the bytes of its blocks and its rest.                     *)
LEMMA RestIsEnd ==
  ASSUME NEW n \in Nat \ {0}, NEW s \in Seq(Bytes)
  PROVE  s = SubSeq(s, 1, (Len(s) \div n) * n) \o Rest(s, n)
<1> DEFINE e == (Len(s) \div n) * n
<1>1. e \in Nat /\ Len(s) \in Nat /\ e <= Len(s)
  <2>1. /\ e \in Nat /\ Len(s) % n \in 0 .. (n - 1)
        /\ Len(s) = e + (Len(s) % n) /\ Len(s) \in Nat
    BY BlocksLemma, LenProperties
  <2> HIDE DEF e
  <2> QED
    BY <2>1
<1>2. Rest(s, n) = SubSeq(s, e + 1, Len(s))
  BY DEF Rest
<1> HIDE DEF e
<1>3. /\ 1 \in 1 .. Len(s) + 1 /\ e \in 1 - 1 .. Len(s)
      /\ Len(s) \in e .. Len(s)
  BY <1>1
<1>4. SubSeq(s, 1, e) \o SubSeq(s, e + 1, Len(s)) = SubSeq(s, 1, Len(s))
  BY <1>3, ConcatAdjacentSubSeq
<1>5. SubSeq(s, 1, Len(s)) = s
  BY SubSeqFull
<1> QED
  BY <1>2, <1>4, <1>5 DEF e

(* What is cut off first does not depend on what follows, and what follows *)
(* is cut together with the rest.                                          *)
LEMMA BlocksJoin ==
  ASSUME NEW n \in Nat \ {0}, NEW s \in Seq(Bytes), NEW t \in Seq(Bytes)
  PROVE  /\ Blocks(s \o t, n) = Blocks(s, n) \o Blocks(Rest(s, n) \o t, n)
         /\ Rest(s \o t, n) = Rest(Rest(s, n) \o t, n)
<1> DEFINE q == Len(s) \div n
           e == q * n
           h == SubSeq(s, 1, e)
           r == Rest(s, n)
           u == r \o t
           p == Len(u) \div n
           d == p * n
           v == s \o t
           m == q + p
<1>1. /\ q \in Nat /\ e \in Nat /\ r \in Seq(Bytes) /\ Len(r) \in Nat
      /\ Len(s) = e + Len(r) /\ Len(s) \in Nat
      /\ Blocks(s, n) \in Seq(Block(n)) /\ Len(Blocks(s, n)) = q
      /\ \A k \in 1 .. q : Blocks(s, n)[k] = SubSeq(s, (k - 1) * n + 1, k * n)
  <2>1. r \in Seq(Bytes) /\ Len(r) = Len(s) % n /\ Len(r) \in Nat /\ Len(s) \in Nat
    BY BlocksLemma, LenProperties
  <2> QED
    BY <2>1, BlocksLemma
<1>2. s = h \o r
  BY RestIsEnd
<1>3. e = q * n
  OBVIOUS
<1> HIDE DEF q, r, e
<1>4. h \in Seq(Bytes) /\ Len(h) = e
  BY <1>1, PrefixProperties
<1> HIDE DEF h
<1>5. u \in Seq(Bytes)
  BY <1>1, ConcatProperties
<1>6. v = h \o u
  <2>1. h \in Seq(Bytes) /\ r \in Seq(Bytes) /\ t \in Seq(Bytes)
    BY <1>1, <1>4
  <2>2. (h \o r) \o t = h \o (r \o t)
    BY <2>1, ConcatAssociative
  <2> QED
    BY <1>2, <2>2
<1>7. v \in Seq(Bytes)
  BY ConcatProperties
<1> HIDE DEF u, v
<1>8. Len(v) = e + Len(u) /\ Len(u) \in Nat
  BY <1>4, <1>5, <1>6, ConcatProperties, LenProperties
<1>9. /\ p \in Nat /\ d \in Nat /\ Len(u) % n \in 0 .. (n - 1)
      /\ Len(u) = d + (Len(u) % n)
      /\ Blocks(u, n) \in Seq(Block(n)) /\ Len(Blocks(u, n)) = p
      /\ \A k \in 1 .. p : Blocks(u, n)[k] = SubSeq(u, (k - 1) * n + 1, k * n)
  BY <1>5, BlocksLemma
<1>10. d = p * n /\ Rest(u, n) = SubSeq(u, d + 1, Len(u))
  BY DEF Rest
<1> HIDE DEF p, d
<1>11. m \in Nat /\ n * m = e + d
  <2>1. n * (q + p) = n * q + n * p
    BY <1>1, <1>9
  <2> QED
    BY <1>1, <1>3, <1>9, <1>10, <2>1
<1> HIDE DEF m
<1>12. Len(v) \div n = m /\ m * n = e + d
  <2> DEFINE a == Len(v) b == Len(u) % n
  <2>1. /\ a \in Int /\ b \in Nat /\ b < n /\ m \in Int
        /\ a = n * m + b
    <3>1. b \in 0 .. (n - 1) /\ Len(u) = d + b
      BY <1>9
    <3>2. a = e + Len(u) /\ Len(u) \in Nat
      BY <1>8
    <3> HIDE DEF a, b
    <3> QED
      BY <1>1, <1>9, <1>11, <3>1, <3>2
  <2>2. n * m = m * n
    BY <1>11
  <2> HIDE DEF a, b
  <2>3. a \div n = m
    BY <2>1, DivUnique
  <2> QED
    BY <1>11, <2>2, <2>3 DEF a
<1>13. /\ Blocks(v, n) \in Seq(Block(n)) /\ Len(Blocks(v, n)) = m
       /\ \A k \in 1 .. m : Blocks(v, n)[k] = SubSeq(v, (k - 1) * n + 1, k * n)
  BY <1>7, <1>12, BlocksLemma
<1> DEFINE bs == Blocks(s, n) bu == Blocks(u, n) bv == Blocks(v, n)
<1>14. Rest(v, n) = SubSeq(v, (e + d) + 1, Len(v))
  BY <1>12 DEF Rest
<1>15. /\ bs \in Seq(Block(n)) /\ Len(bs) = q /\ bu \in Seq(Block(n)) /\ Len(bu) = p
       /\ bv \in Seq(Block(n)) /\ Len(bv) = m
       /\ \A k \in 1 .. q : bs[k] = SubSeq(s, (k - 1) * n + 1, k * n)
       /\ \A k \in 1 .. p : bu[k] = SubSeq(u, (k - 1) * n + 1, k * n)
       /\ \A k \in 1 .. m : bv[k] = SubSeq(v, (k - 1) * n + 1, k * n)
  BY <1>1, <1>9, <1>13
<1> HIDE DEF bs, bu, bv
<1>16. \A k \in 1 .. q : bv[k] = bs[k]
  <2> TAKE k \in 1 .. q
  <2> DEFINE a == (k - 1) * n
  <2>1. a \in Nat /\ k * n = a + n /\ k * n <= e
    BY <1>1, <1>3, BlockPlace
  <2> HIDE DEF a
  <2>2. a + n <= Len(s)
    BY <1>1, <2>1
  <2>3. SubSeq(s \o t, a + 1, a + n) = SubSeq(s, a + 1, a + n)
    BY <2>1, <2>2, PartOfLeft
  <2>4. k \in 1 .. m
    BY <1>1, <1>9 DEF m
  <2> QED
    BY <1>15, <2>1, <2>3, <2>4 DEF a, v
<1>17. \A k \in 1 .. p : bv[q + k] = bu[k]
  <2> TAKE k \in 1 .. p
  <2> DEFINE a == (k - 1) * n
             b == e + a
             j == q + k
  <2>1. a \in Nat /\ k * n = a + n /\ k * n <= d
    BY <1>9, <1>10, BlockPlace
  <2>2. (j - 1) * n = b /\ j * n = b + n
    <3>1. /\ (q + (k - 1)) * n = q * n + (k - 1) * n
          /\ (q + k) * n = q * n + k * n
      BY <1>1
    <3>2. j - 1 = q + (k - 1)
      BY <1>1
    <3> QED
      BY <1>3, <2>1, <3>1, <3>2, <1>1
  <2>3. j \in 1 .. m
    BY <1>1, <1>9 DEF m
  <2> HIDE DEF a, j
  <2>4. a + n <= Len(u) /\ b \in Nat
    BY <1>1, <1>8, <1>9, <2>1
  <2>5. b = Len(h) + a
    BY <1>4
  <2> HIDE DEF b
  <2>6. SubSeq(h \o u, b + 1, b + n) = SubSeq(u, a + 1, a + n)
    <3>1. /\ h \in Seq(Bytes) /\ u \in Seq(Bytes) /\ a \in Nat /\ b \in Nat
          /\ n \in Nat /\ a + n <= Len(u) /\ b = Len(h) + a
      BY <1>4, <1>5, <2>1, <2>4, <2>5
    <3> QED
      BY <3>1, PartOfRight
  <2>7. bv[j] = SubSeq(v, b + 1, b + n)
    BY <1>15, <2>2, <2>3
  <2>8. bu[k] = SubSeq(u, a + 1, a + n)
    BY <1>15, <2>1 DEF a
  <2> QED
    BY <1>6, <2>6, <2>7, <2>8 DEF j
<1>18. bv = bs \o bu
  <2> DEFINE w == bs \o bu
  <2>1. /\ w \in Seq(Block(n)) /\ Len(w) = Len(bs) + Len(bu)
        /\ \A k \in 1 .. Len(bs) + Len(bu) :
             w[k] = IF k <= Len(bs) THEN bs[k] ELSE bu[k - Len(bs)]
    BY <1>15, ConcatProperties
  <2> HIDE DEF w
  <2>2. /\ Len(w) = m
        /\ \A k \in 1 .. m : w[k] = IF k <= q THEN bs[k] ELSE bu[k - q]
    BY <1>15, <2>1 DEF m
  <2>3. \A k \in 1 .. m : bv[k] = w[k]
    <3> TAKE k \in 1 .. m
    <3>1. CASE k <= q
      BY <1>16, <2>2, <3>1
    <3>2. CASE ~(k <= q)
      <4>1. k - q \in 1 .. p /\ q + (k - q) = k
        BY <1>1, <1>9, <3>2 DEF m
      <4> DEFINE j == k - q
      <4>2. j \in 1 .. p /\ q + j = k
        BY <4>1
      <4> HIDE DEF j
      <4>3. bv[k] = bu[j]
        BY <1>17, <4>2
      <4> QED
        BY <2>2, <3>2, <4>3 DEF j
    <3> QED
      BY <3>1, <3>2
  <2>4. bv = w
    BY <1>15, <2>1, <2>2, <2>3, SeqEqual
  <2> QED
    BY <2>4 DEF w
<1>19. Rest(v, n) = Rest(u, n)
  <2> DEFINE a == e + d c == Len(u) % n
  <2>1. a \in Nat /\ a = Len(h) + d /\ d + c <= Len(u) /\ c \in Nat
    BY <1>1, <1>4, <1>8, <1>9
  <2>2. d + c = Len(u) /\ a = e + d
    BY <1>9
  <2> HIDE DEF a, c
  <2>5. a + c = Len(v)
    <3>1. e \in Nat /\ d \in Nat /\ Len(u) \in Nat /\ Len(v) = e + Len(u)
      BY <1>1, <1>8, <1>9
    <3>2. c \in Nat /\ d + c = Len(u) /\ a = e + d
      BY <2>1, <2>2
    <3> QED
      BY <3>1, <3>2
  <2>3. SubSeq(h \o u, a + 1, a + c) = SubSeq(u, d + 1, d + c)
    <3>1. /\ h \in Seq(Bytes) /\ u \in Seq(Bytes) /\ d \in Nat /\ c \in Nat
          /\ a \in Nat /\ d + c <= Len(u) /\ a = Len(h) + d
      BY <1>4, <1>5, <1>9, <2>1
    <3> QED
      BY <3>1, PartOfRight
  <2> QED
    BY <1>6, <1>10, <1>14, <2>2, <2>3, <2>5
<1> QED
  BY <1>18, <1>19 DEF bv, bs, bu, v, u, r

(* Less than a block is only rest.                                         *)
LEMMA BlocksOfShort ==
  ASSUME NEW n \in Nat \ {0}, NEW s \in Seq(Bytes), Len(s) < n
  PROVE  Blocks(s, n) = <<>> /\ Rest(s, n) = s
<1>1. Len(s) \in Nat /\ Len(s) = n * 0 + Len(s) /\ 0 \in Int /\ Len(s) \in Int
  BY LenProperties
<1>2. Len(s) \div n = 0
  BY <1>1, DivUnique, SMTT(30)
<1>3. Blocks(s, n) \in Seq(Block(n)) /\ Len(Blocks(s, n)) = 0
  BY <1>2, BlocksLemma
<1>4. Rest(s, n) = SubSeq(s, 1, Len(s))
  <2>1. 0 * n + 1 = 1
    OBVIOUS
  <2> QED
    BY <1>2, <2>1 DEF Rest
<1> QED
  BY <1>3, <1>4, EmptySeq, SubSeqFull

(* A block is a block.                                                     *)
LEMMA BlocksOfWhole ==
  ASSUME NEW n \in Nat \ {0}, NEW s \in Seq(Bytes), Len(s) = n
  PROVE  Blocks(s, n) = << s >> /\ Rest(s, n) = <<>>
<1>1. n = n * 1 + 0 /\ 1 \in Int /\ 0 \in Nat /\ 0 < n /\ n \in Int
  OBVIOUS
<1>2. Len(s) \div n = 1
  BY <1>1, DivUnique
<1>3. /\ (1 - 1) * n + 1 = 1 /\ 1 * n = n /\ n + 1 \in Int /\ n < n + 1
  OBVIOUS
<1>4. SubSeq(s, 1, n) = s
  BY SubSeqFull
<1>5. Blocks(s, n) \in Seq(Block(n)) /\ Len(Blocks(s, n)) = 1 /\ Blocks(s, n)[1] = s
  <2>1. /\ Blocks(s, n) \in Seq(Block(n)) /\ Len(Blocks(s, n)) = 1
        /\ \A k \in 1 .. 1 :
             Blocks(s, n)[k] = SubSeq(s, (k - 1) * n + 1, k * n)
    <3> DEFINE q == Len(s) \div n
    <3>1. /\ Blocks(s, n) \in Seq(Block(n)) /\ Len(Blocks(s, n)) = q
          /\ \A k \in 1 .. q :
               Blocks(s, n)[k] = SubSeq(s, (k - 1) * n + 1, k * n)
      BY BlocksLemma
    <3>2. q = 1
      BY <1>2
    <3> HIDE DEF q
    <3> QED
      BY <3>1, <3>2
  <2>2. Blocks(s, n)[1] = SubSeq(s, (1 - 1) * n + 1, 1 * n)
    BY <2>1
  <2> QED
    BY <1>3, <1>4, <2>1, <2>2
<1>6. s \in Block(n)
  BY SeqIsFunction DEF Block
<1>7. << s >> \in Seq(Block(n)) /\ Len(<< s >>) = 1 /\ << s >>[1] = s
  BY <1>6
<1>8. Blocks(s, n) = << s >>
  BY <1>5, <1>7, SeqEqual
<1>9. Rest(s, n) = SubSeq(s, n + 1, n)
  BY <1>2, <1>3 DEF Rest
<1> QED
  BY <1>3, <1>8, <1>9, SubSeqEmpty

-----------------------------------------------------------------------------
(* FixedBuffer of n bytes, and the part of it that is used.                *)
FixedBuffer(n) == [bytes : Block(n), idx : 0 .. n]
Used(b) == SubSeq(b.bytes, 1, b.idx)

(* A buffer's fields.                                                      *)
LEMMA BufferFacts ==
  ASSUME NEW n \in Nat \ {0}, NEW b \in FixedBuffer(n)
  PROVE  /\ b.bytes \in Seq(Bytes) /\ Len(b.bytes) = n /\ b.idx \in 0 .. n
         /\ Size(b) = n /\ Remaining(b) = n - b.idx
         /\ Used(b) \in Seq(Bytes) /\ Len(Used(b)) = b.idx
         /\ \A i \in 1 .. b.idx : Used(b)[i] = b.bytes[i]
         /\ b.idx = n => b.bytes = Used(b)
<1> DEFINE f == b.bytes
<1>1. f \in [1 .. n -> Bytes] /\ b.idx \in 0 .. n
  BY DEF FixedBuffer, Block
<1> HIDE DEF f
<1>2. f \in Seq(Bytes) /\ Len(f) = n
  BY <1>1, FunctionIsSeq
<1>3. /\ SubSeq(f, 1, b.idx) \in Seq(Bytes) /\ Len(SubSeq(f, 1, b.idx)) = b.idx
      /\ \A i \in 1 .. b.idx : SubSeq(f, 1, b.idx)[i] = f[i]
  BY <1>1, <1>2, PrefixProperties
<1>4. SubSeq(f, 1, n) = f
  BY <1>2, SubSeqFull
<1> QED
  BY <1>1, <1>2, <1>3, <1>4 DEF f, Size, Remaining, Used

(* Zeros are bytes.                                                        *)
LEMMA ZerosType ==
  ASSUME NEW k \in Nat
  PROVE  Zeros(k) \in Seq(Bytes) /\ Len(Zeros(k)) = k /\ \A i \in 1 .. k : Zeros(k)[i] = 0
<1>1. 0 \in Bytes
  BY ByteAssumption DEF Bytes
<1> DEFINE f == [i \in 1 .. k |-> 0]
<1>2. f \in [1 .. k -> Bytes] /\ \A i \in 1 .. k : f[i] = 0
  BY <1>1
<1> HIDE DEF f
<1>3. f \in Seq(Bytes) /\ Len(f) = k
  BY <1>2, FunctionIsSeq
<1> QED
  BY <1>2, <1>3 DEF f, Zeros

(* One run of zeros after another.                                         *)
LEMMA ZerosSum ==
  ASSUME NEW j \in Nat, NEW k \in Nat
  PROVE  Zeros(j) \o Zeros(k) = Zeros(j + k)
<1> DEFINE a == Zeros(j) b == Zeros(k) c == Zeros(j + k)
<1>1. /\ a \in Seq(Bytes) /\ Len(a) = j /\ \A i \in 1 .. j : a[i] = 0
      /\ b \in Seq(Bytes) /\ Len(b) = k /\ \A i \in 1 .. k : b[i] = 0
  BY ZerosType
<1> DEFINE m == j + k
<1>2. m \in Nat
  OBVIOUS
<1> HIDE DEF m
<1>3. Zeros(m) \in Seq(Bytes) /\ Len(Zeros(m)) = m /\ \A i \in 1 .. m : Zeros(m)[i] = 0
  BY <1>2, ZerosType
<1> HIDE DEF a, b
<1> DEFINE w == a \o b
<1>4. /\ w \in Seq(Bytes) /\ Len(w) = Len(a) + Len(b)
      /\ \A i \in 1 .. Len(a) + Len(b) : w[i] = IF i <= Len(a) THEN a[i] ELSE b[i - Len(a)]
  BY <1>1, ConcatProperties
<1> HIDE DEF w
<1>5. Len(w) = m /\ \A i \in 1 .. m : w[i] = IF i <= j THEN a[i] ELSE b[i - j]
  BY <1>1, <1>4 DEF m
<1>6. \A i \in 1 .. m : w[i] = Zeros(m)[i]
  <2> TAKE i \in 1 .. m
  <2>1. IF i <= j THEN i \in 1 .. j ELSE i - j \in 1 .. k
    BY DEF m
  <2> QED
    BY <1>1, <1>3, <1>5, <2>1
<1>7. w = Zeros(m)
  BY <1>3, <1>4, <1>5, <1>6, SeqEqual
<1> QED
  BY <1>7 DEF w, a, b, m

(* next, filled: what is used grows by data.                               *)
LEMMA WriteNextLemma ==
  ASSUME NEW n \in Nat \ {0}, NEW b \in FixedBuffer(n), NEW data \in Seq(Bytes),
         b.idx + Len(data) <= n
  PROVE  /\ WriteNext(b, data) \in FixedBuffer(n)
         /\ WriteNext(b, data).idx = b.idx + Len(data)
         /\ Used(WriteNext(b, data)) = Used(b) \o data
<1> DEFINE p == b.idx
           l == Len(data)
           q == p + l
           f == b.bytes
           g == [i \in 1 .. n |-> IF p < i /\ i <= q THEN data[i - p] ELSE f[i]]
           w == [bytes |-> g, idx |-> q]
           u == Used(b)
<1>1. /\ f \in Seq(Bytes) /\ Len(f) = n /\ p \in 0 .. n
      /\ u \in Seq(Bytes) /\ Len(u) = p /\ \A i \in 1 .. p : u[i] = f[i]
      /\ Size(b) = n
  BY BufferFacts
<1>2. l \in Nat /\ q \in 0 .. n /\ \A i \in 1 .. l : data[i] \in Bytes
  BY <1>1, LenProperties
<1>3. WriteNext(b, data) = w
  BY <1>1 DEF WriteNext
<1>4. \A i \in 1 .. n : f[i] \in Bytes
  BY <1>1, LenProperties
<1> HIDE DEF p, l, f, u
<1>5. g \in [1 .. n -> Bytes]
  <2>1. \A i \in 1 .. n : p < i /\ i <= q => i - p \in 1 .. l
    BY <1>1, <1>2
  <2> HIDE DEF q
  <2> QED
    BY <1>2, <1>4, <2>1
<1>6. \A i \in 1 .. n : g[i] = IF p < i /\ i <= q THEN data[i - p] ELSE f[i]
  OBVIOUS
<1>7. w.bytes = g /\ w.idx = q
  OBVIOUS
<1> HIDE DEF g
<1>8. w \in FixedBuffer(n)
  BY <1>2, <1>5 DEF FixedBuffer, Block
<1> HIDE DEF w
<1>9. /\ Used(w) \in Seq(Bytes) /\ Len(Used(w)) = q
      /\ \A i \in 1 .. q : Used(w)[i] = g[i]
  BY <1>7, <1>8, BufferFacts
<1> DEFINE v == u \o data
<1>10. /\ v \in Seq(Bytes) /\ Len(v) = Len(u) + Len(data)
       /\ \A i \in 1 .. Len(u) + Len(data) :
            v[i] = IF i <= Len(u) THEN u[i] ELSE data[i - Len(u)]
  BY <1>1, ConcatProperties
<1> HIDE DEF v
<1>11. Len(v) = q /\ \A i \in 1 .. q : v[i] = IF i <= p THEN u[i] ELSE data[i - p]
  BY <1>1, <1>10 DEF l
<1>12. \A i \in 1 .. q : Used(w)[i] = v[i]
  <2> TAKE i \in 1 .. q
  <2>1. i \in 1 .. n /\ i <= q /\ (IF i <= p THEN i \in 1 .. p ELSE p < i)
    BY <1>1, <1>2
  <2> HIDE DEF q
  <2>2. g[i] = IF p < i THEN data[i - p] ELSE f[i]
    BY <1>6, <2>1
  <2>3. CASE i <= p
    <3>1. ~(p < i)
      BY <1>1, <2>3
    <3> QED
      BY <1>1, <1>9, <1>11, <2>1, <2>2, <2>3, <3>1
  <2>4. CASE ~(i <= p)
    BY <1>9, <1>11, <2>1, <2>2, <2>4
  <2> QED
    BY <2>3, <2>4
<1>13. Used(w) = v
  BY <1>9, <1>10, <1>11, <1>12, SeqEqual
<1> QED
  BY <1>3, <1>7, <1>8, <1>13 DEF v, u, p, l

(* reset: nothing is used, the bytes stay.                                 *)
LEMMA EmptiedLemma ==
  ASSUME NEW n \in Nat \ {0}, NEW b \in FixedBuffer(n)
  PROVE  /\ Emptied(b) \in FixedBuffer(n) /\ Emptied(b).idx = 0
         /\ Used(Emptied(b)) = <<>> /\ Emptied(b).bytes = b.bytes
<1>1. Emptied(b) = [b EXCEPT !.idx = 0] /\ 0 \in 0 .. n
  BY DEF Emptied
<1>2. Emptied(b) \in FixedBuffer(n) /\ Emptied(b).idx = 0 /\ Emptied(b).bytes = b.bytes
  BY <1>1 DEF FixedBuffer
<1>3. SubSeq(b.bytes, 1, 0) = <<>>
  BY SubSeqEmpty
<1> QED
  BY <1>2, <1>3 DEF Used

(* zero_until adds zeros.                                                  *)
LEMMA ZeroUntilLemma ==
  ASSUME NEW n \in Nat \ {0}, NEW b \in FixedBuffer(n), NEW k \in Nat, k <= n,
         NEW z \in Nat, b.idx + z = k
  PROVE  /\ zero_until(b, k) \in FixedBuffer(n) /\ zero_until(b, k).idx = k
         /\ Used(zero_until(b, k)) = Used(b) \o Zeros(z)
<1>1. b.idx \in 0 .. n
  BY BufferFacts
<1>2. k - b.idx = z
  BY <1>1
<1>3. Zeros(z) \in Seq(Bytes) /\ Len(Zeros(z)) = z
  BY ZerosType
<1> DEFINE d == Zeros(z)
<1>4. d \in Seq(Bytes) /\ b.idx + Len(d) = k /\ k <= n
  BY <1>3
<1> HIDE DEF d
<1>5. /\ WriteNext(b, d) \in FixedBuffer(n) /\ WriteNext(b, d).idx = k
      /\ Used(WriteNext(b, d)) = Used(b) \o d
  BY <1>4, WriteNextLemma
<1> QED
  BY <1>2, <1>5 DEF zero_until, d

(* input hands on the whole blocks of what was in the buffer followed by   *)
(* data, and keeps the rest (cryptoutil.rs:364-405).                       *)
LEMMA InputLemma ==
  ASSUME NEW n \in Nat \ {0}, NEW b \in FixedBuffer(n), b.idx < n, NEW data \in Seq(Bytes)
  PROVE  /\ input(b, data).buffer \in FixedBuffer(n) /\ input(b, data).buffer.idx < n
         /\ input(b, data).blocks = Blocks(Used(b) \o data, n)
         /\ Used(input(b, data).buffer) = Rest(Used(b) \o data, n)
<1> DEFINE u == Used(b)
           l == Len(data)
<1>1. /\ u \in Seq(Bytes) /\ Len(u) = b.idx /\ b.idx \in 0 .. n /\ l \in Nat
      /\ Size(b) = n /\ Remaining(b) = n - b.idx /\ u \o data \in Seq(Bytes)
      /\ Len(u \o data) = b.idx + l
  <2>1. /\ Used(b) \in Seq(Bytes) /\ Len(Used(b)) = b.idx /\ b.idx \in 0 .. n
        /\ Size(b) = n /\ Remaining(b) = n - b.idx
    BY BufferFacts
  <2> QED
    BY <2>1, ConcatProperties, LenProperties
<1> HIDE DEF u
<1>2. CASE b.idx # 0 /\ Len(data) < Remaining(b)
  <2>1. input(b, data) = [buffer |-> WriteNext(b, data), blocks |-> <<>>]
    BY <1>2 DEF input
  <2>2. b.idx + Len(data) <= n /\ b.idx + Len(data) < n
    BY <1>1, <1>2
  <2>3. /\ WriteNext(b, data) \in FixedBuffer(n)
        /\ WriteNext(b, data).idx = b.idx + Len(data)
        /\ Used(WriteNext(b, data)) = u \o data
    BY <2>2, WriteNextLemma DEF u
  <2> DEFINE v == u \o data
  <2>4. v \in Seq(Bytes) /\ Len(v) < n
    BY <1>1, <2>2
  <2> HIDE DEF v
  <2>5. Blocks(v, n) = <<>> /\ Rest(v, n) = v
    BY <2>4, BlocksOfShort
  <2> QED
    BY <2>1, <2>2, <2>3, <2>5 DEF v, u
<1>3. CASE ~(b.idx # 0 /\ Len(data) < Remaining(b))
  <2> DEFINE gap == IF b.idx = 0 THEN 0 ELSE Remaining(b)
             first == SubSeq(data, 1, gap)
             tail == SubSeq(data, gap + 1, Len(data))
             filled == WriteNext(b, first)
             rest == Rest(tail, n)
             last == WriteNext(Emptied(filled), rest)
             head == IF b.idx = 0 THEN <<>> ELSE << filled.bytes >>
  <2>1. input(b, data) = [buffer |-> last, blocks |-> head \o Blocks(tail, n)]
    BY <1>1, <1>3 DEF input
  <2>2. gap \in Nat /\ gap <= l /\ b.idx + gap <= n
    BY <1>1, <1>3
  <2>3. IF b.idx = 0 THEN gap = 0 ELSE b.idx + gap = n
    BY <1>1
  <2> HIDE DEF gap
  <2>4. first \in Seq(Bytes) /\ Len(first) = gap
    BY <1>1, <2>2, PrefixProperties
  <2>5. data = first \o tail
    <3>1. /\ 1 \in 1 .. Len(data) + 1 /\ gap \in 1 - 1 .. Len(data)
          /\ Len(data) \in gap .. Len(data)
      BY <1>1, <2>2
    <3>2. SubSeq(data, 1, gap) \o SubSeq(data, gap + 1, Len(data))
            = SubSeq(data, 1, Len(data))
      BY <3>1, ConcatAdjacentSubSeq
    <3> QED
      BY <3>2, SubSeqFull
  <2>6. tail \in Seq(Bytes)
    <3> DEFINE c == l - gap
    <3>1. c \in Nat /\ gap + c <= Len(data) /\ gap + c = Len(data)
      BY <1>1, <2>2
    <3> HIDE DEF c
    <3>2. SubSeq(data, gap + 1, gap + c) \in Seq(Bytes)
      BY <2>2, <3>1, PartProperties
    <3> QED
      BY <3>1, <3>2
  <2> HIDE DEF first, tail
  <2>7. /\ filled \in FixedBuffer(n) /\ filled.idx = b.idx + gap
        /\ Used(filled) = u \o first
    <3>1. b.idx + Len(first) <= n
      BY <2>2, <2>4
    <3> QED
      BY <2>4, <3>1, WriteNextLemma DEF u
  <2> HIDE DEF filled
  <2>8. rest \in Seq(Bytes) /\ Len(rest) \in Nat /\ Len(rest) < n
    <3>1. rest \in Seq(Bytes) /\ Len(rest) = Len(tail) % n /\ Len(tail) % n \in 0 .. (n - 1)
      BY <2>6, BlocksLemma
    <3> HIDE DEF rest
    <3> QED
      BY <3>1
  <2>9. rest = Rest(tail, n)
    OBVIOUS
  <2> HIDE DEF rest
  <2>10. last \in FixedBuffer(n) /\ last.idx < n /\ Used(last) = rest
    <3> DEFINE e == Emptied(filled)
    <3>1. e \in FixedBuffer(n) /\ e.idx = 0 /\ Used(e) = <<>>
      BY <2>7, EmptiedLemma
    <3> HIDE DEF e
    <3>2. e.idx + Len(rest) <= n
      BY <2>8, <3>1
    <3>3. /\ WriteNext(e, rest) \in FixedBuffer(n)
          /\ WriteNext(e, rest).idx = e.idx + Len(rest)
          /\ Used(WriteNext(e, rest)) = Used(e) \o rest
      BY <2>8, <3>1, <3>2, WriteNextLemma
    <3>4. <<>> \o rest = rest
      BY <2>8, ConcatEmptySeq
    <3> QED
      BY <2>8, <3>1, <3>3, <3>4 DEF e
  <2> HIDE DEF last
  <2>11. /\ Blocks(u \o data, n) = head \o Blocks(tail, n)
         /\ Rest(u \o data, n) = Rest(tail, n)
    <3>1. CASE b.idx = 0
      <4>1. u = <<>> /\ first = <<>>
        BY <1>1, <2>3, <2>4, <3>1, EmptySeq
      <4>2. /\ <<>> \o tail = tail /\ Blocks(tail, n) \in Seq(Block(n))
        BY <2>6, BlocksLemma, ConcatEmptySeq
      <4>3. <<>> \o Blocks(tail, n) = Blocks(tail, n)
        BY <4>2, ConcatEmptySeq
      <4> QED
        BY <2>5, <3>1, <4>1, <4>2, <4>3
    <3>2. CASE b.idx # 0
      <4> DEFINE w == u \o first
      <4>1. w \in Seq(Bytes) /\ Len(w) = n
        <5>1. w \in Seq(Bytes) /\ Len(w) = Len(u) + Len(first)
          BY <1>1, <2>4, ConcatProperties
        <5> HIDE DEF w
        <5> QED
          BY <1>1, <2>3, <2>4, <3>2, <5>1
      <4>2. filled.bytes = w
        <5>1. filled.idx = n
          BY <2>3, <2>7, <3>2
        <5> QED
          BY <2>7, <5>1, BufferFacts
      <4>3. u \o data = w \o tail
        <5>1. u \in Seq(Bytes) /\ first \in Seq(Bytes) /\ tail \in Seq(Bytes)
          BY <1>1, <2>4, <2>6
        <5>2. (u \o first) \o tail = u \o (first \o tail)
          BY <5>1, ConcatAssociative, SMTT(30)
        <5> QED
          BY <2>5, <5>2
      <4> HIDE DEF w
      <4>4. Blocks(w, n) = << w >> /\ Rest(w, n) = <<>>
        BY <4>1, BlocksOfWhole
      <4>5. /\ Blocks(w \o tail, n) = Blocks(w, n) \o Blocks(Rest(w, n) \o tail, n)
            /\ Rest(w \o tail, n) = Rest(Rest(w, n) \o tail, n)
        BY <2>6, <4>1, BlocksJoin
      <4>6. <<>> \o tail = tail
        BY <2>6, ConcatEmptySeq
      <4> QED
        BY <3>2, <4>2, <4>3, <4>4, <4>5, <4>6
    <3> QED
      BY <3>1, <3>2
  <2> HIDE DEF head
  <2> QED
    BY <2>1, <2>9, <2>10, <2>11 DEF u
<1> QED
  BY <1>2, <1>3

-----------------------------------------------------------------------------
(* Joining bytes, kept apart from the sequences that are joined.           *)
Join(a, b) == a \o b

(* Bytes joined are bytes, as many as both have.                           *)
LEMMA JoinTwo ==
  ASSUME NEW a \in Seq(Bytes), NEW b \in Seq(Bytes)
  PROVE  a \o b \in Seq(Bytes) /\ Len(a \o b) = Len(a) + Len(b)
BY ConcatProperties

(* Joining is associative, ...                                             *)
LEMMA JoinThree ==
  ASSUME NEW a \in Seq(Bytes), NEW b \in Seq(Bytes), NEW c \in Seq(Bytes)
  PROVE  Join(a, Join(b, c)) = Join(Join(a, b), c) /\ Join(a, b) \in Seq(Bytes)
BY ConcatAssociative, ConcatProperties, SMTT(30) DEF Join

(* ... also for four ...                                                   *)
LEMMA JoinFour ==
  ASSUME NEW a \in Seq(Bytes), NEW b \in Seq(Bytes), NEW c \in Seq(Bytes),
         NEW d \in Seq(Bytes)
  PROVE  Join(a, Join(b, Join(c, d))) = Join(Join(Join(a, b), c), d)
BY JoinThree

(* ... and for five.                                                       *)
LEMMA JoinFive ==
  ASSUME NEW a \in Seq(Bytes), NEW b \in Seq(Bytes), NEW c \in Seq(Bytes),
         NEW d \in Seq(Bytes), NEW e \in Seq(Bytes)
  PROVE  Join(a, Join(b, Join(Join(c, d), e))) = Join(Join(Join(a, b), c), Join(d, e))
BY JoinThree

(* The marker is a byte.                                                   *)
LEMMA MarkerIsByte == << MARKER >> \in Seq(Bytes) /\ Len(<< MARKER >>) = 1
<1>1. MARKER \in Bytes
  BY ByteAssumption DEF MARKER, Bytes
<1> QED
  BY <1>1

(* Two blocks one after the other.                                         *)
LEMMA TwoBlocks ==
  ASSUME NEW n \in Nat \ {0}, NEW s \in Seq(Bytes), NEW t \in Seq(Bytes),
         Len(s) = n, Len(t) = n
  PROVE  Blocks(s \o t, n) = << s >> \o << t >>
<1>1. Blocks(s, n) = << s >> /\ Rest(s, n) = <<>>
  BY BlocksOfWhole
<1>2. Blocks(t, n) = << t >>
  BY BlocksOfWhole
<1>3. Blocks(s \o t, n) = Blocks(s, n) \o Blocks(Rest(s, n) \o t, n)
  BY BlocksJoin
<1>4. <<>> \o t = t
  BY ConcatEmptySeq
<1> QED
  BY <1>1, <1>2, <1>3, <1>4

(* A buffer filled to its end by data is one block.                        *)
LEMMA FillLemma ==
  ASSUME NEW n \in Nat \ {0}, NEW b \in FixedBuffer(n), NEW data \in Seq(Bytes),
         b.idx + Len(data) = n
  PROVE  /\ WriteNext(b, data) \in FixedBuffer(n)
         /\ WriteNext(b, data).bytes = Join(Used(b), data)
<1> DEFINE w == WriteNext(b, data)
<1>1. b.idx + Len(data) <= n
  OBVIOUS
<1>2. w \in FixedBuffer(n) /\ w.idx = n /\ Used(w) = Used(b) \o data
  BY <1>1, WriteNextLemma
<1> HIDE DEF w
<1>3. w.bytes = Used(w)
  BY <1>2, BufferFacts
<1> QED
  BY <1>2, <1>3 DEF w, Join

(* The same of the steps before it, in terms of Join.                      *)
LEMMA WriteNextJoin ==
  ASSUME NEW n \in Nat \ {0}, NEW b \in FixedBuffer(n), NEW data \in Seq(Bytes),
         NEW k \in Nat, b.idx + Len(data) = k, k <= n
  PROVE  /\ WriteNext(b, data) \in FixedBuffer(n) /\ WriteNext(b, data).idx = k
         /\ Used(WriteNext(b, data)) = Join(Used(b), data)
BY WriteNextLemma DEF Join

(* Zeros up to k are appended to what the buffer holds.                    *)
LEMMA ZeroUntilJoin ==
  ASSUME NEW n \in Nat \ {0}, NEW b \in FixedBuffer(n), NEW k \in Nat, k <= n,
         NEW z \in Nat, b.idx + z = k
  PROVE  /\ zero_until(b, k) \in FixedBuffer(n) /\ zero_until(b, k).idx = k
         /\ Used(zero_until(b, k)) = Join(Used(b), Zeros(z))
BY ZeroUntilLemma DEF Join

(* A message m with its marker, zeros and field, and the blocks it ends in. *)
Ended(u, m, z, field) == Join(u, Join(m, Join(Zeros(z), field)))
EndOne(u, m, z, field) == << Join(Join(Join(u, m), Zeros(z)), field) >>
EndTwo(u, m, z1, z2, field) ==
  Join(<< Join(Join(u, m), Zeros(z1)) >>, << Join(Zeros(z2), field) >>)

(* What fits one block of n bytes, or two.                                 *)
FitsOne(n, u, m, z, field) ==
  /\ n \in Nat \ {0} /\ u \in Seq(Bytes) /\ m \in Seq(Bytes)
  /\ z \in Nat /\ field \in Seq(Bytes)
  /\ Len(u) + Len(m) + z + Len(field) = n
FitsTwo(n, u, m, z1, z2, field) ==
  /\ n \in Nat \ {0} /\ u \in Seq(Bytes) /\ m \in Seq(Bytes)
  /\ z1 \in Nat /\ z2 \in Nat /\ field \in Seq(Bytes)
  /\ Len(u) + Len(m) + z1 = n /\ z2 + Len(field) = n

(* The block that the marker and zeros complete, and the one after it.     *)
LEMMA PaddingTwo ==
  ASSUME NEW n, NEW u, NEW m, NEW z1, NEW z2, NEW field,
         FitsTwo(n, u, m, z1, z2, field)
  PROVE  EndTwo(u, m, z1, z2, field) = Blocks(Ended(u, m, z1 + z2, field), n)
<1> DEFINE a == Zeros(z1) c == Zeros(z2) um == u \o m one == um \o a two == c \o field
<1>0. /\ n \in Nat \ {0} /\ u \in Seq(Bytes) /\ m \in Seq(Bytes)
      /\ z1 \in Nat /\ z2 \in Nat /\ field \in Seq(Bytes)
      /\ Len(u) + Len(m) + z1 = n /\ z2 + Len(field) = n
  BY DEF FitsTwo
<1>1. a \in Seq(Bytes) /\ Len(a) = z1 /\ c \in Seq(Bytes) /\ Len(c) = z2
  BY <1>0, ZerosType
<1>2. Zeros(z1 + z2) = a \o c
  BY <1>0, ZerosSum
<1> HIDE DEF a, c
<1>3. u \o (m \o ((a \o c) \o field)) = one \o two
  <2>1. Join(u, Join(m, Join(Join(a, c), field)))
          = Join(Join(Join(u, m), a), Join(c, field))
    BY <1>0, <1>1, JoinFive
  <2> QED
    BY <2>1 DEF Join
<1>4. um \in Seq(Bytes) /\ Len(um) = Len(u) + Len(m)
  BY <1>0, JoinTwo
<1> HIDE DEF um
<1>5. one \in Seq(Bytes) /\ Len(one) = Len(um) + Len(a)
  BY <1>0, <1>1, <1>4, JoinTwo
<1>6. two \in Seq(Bytes) /\ Len(two) = Len(c) + Len(field)
  BY <1>0, <1>1, JoinTwo
<1> HIDE DEF one, two
<1>7. Len(one) = n /\ Len(two) = n
  BY <1>0, <1>1, <1>4, <1>5, <1>6
<1>8. Blocks(one \o two, n) = << one >> \o << two >>
  BY <1>0, <1>5, <1>6, <1>7, TwoBlocks
<1> QED
  BY <1>2, <1>3, <1>8 DEF one, two, um, a, c, Join, EndTwo, Ended

(* The only block, if the marker leaves room for the field.                *)
LEMMA PaddingOne ==
  ASSUME NEW n, NEW u, NEW m, NEW z, NEW field, FitsOne(n, u, m, z, field)
  PROVE  EndOne(u, m, z, field) = Blocks(Ended(u, m, z, field), n)
<1> DEFINE a == Zeros(z) um == u \o m uma == um \o a one == uma \o field
<1>0. /\ n \in Nat \ {0} /\ u \in Seq(Bytes) /\ m \in Seq(Bytes)
      /\ z \in Nat /\ field \in Seq(Bytes)
      /\ Len(u) + Len(m) + z + Len(field) = n
  BY DEF FitsOne
<1>1. a \in Seq(Bytes) /\ Len(a) = z
  BY <1>0, ZerosType
<1> HIDE DEF a
<1>2. u \o (m \o (a \o field)) = one
  <2>1. Join(u, Join(m, Join(a, field))) = Join(Join(Join(u, m), a), field)
    BY <1>0, <1>1, JoinFour
  <2> QED
    BY <2>1 DEF Join
<1>3. um \in Seq(Bytes) /\ Len(um) = Len(u) + Len(m)
  BY <1>0, JoinTwo
<1> HIDE DEF um
<1>4. uma \in Seq(Bytes) /\ Len(uma) = Len(um) + Len(a)
  BY <1>0, <1>1, <1>3, JoinTwo
<1> HIDE DEF uma
<1>5. one \in Seq(Bytes) /\ Len(one) = Len(uma) + Len(field)
  BY <1>0, <1>4, JoinTwo
<1> HIDE DEF one
<1>6. Len(one) = n
  BY <1>0, <1>1, <1>3, <1>4, <1>5
<1>7. Blocks(one, n) = << one >>
  BY <1>0, <1>5, <1>6, BlocksOfWhole
<1> QED
  BY <1>2, <1>7 DEF one, uma, um, a, Join, EndOne, Ended

(* The blocks that the contents of b, padded, end in.                      *)
EndsIn(n, b, rem, field, blocks) ==
  \E z \in 0 .. (n - 1), k \in Nat :
    /\ b.idx + 1 + rem + z = n * k
    /\ blocks = Blocks(Ended(Used(b), << MARKER >>, z, field), n)

(* standard_padding and the length field after it complete a block, or two *)
(* if the marker leaves less room than the field needs: the buffer's       *)
(* contents, the marker, the least number of zeros, the field              *)
(* (cryptoutil.rs:482-505).                                                *)
LEMMA PaddingLemma ==
  ASSUME NEW n \in Nat \ {0}, NEW b \in FixedBuffer(n), b.idx < n,
         NEW rem \in Nat \ {0}, rem < n,
         NEW field \in Seq(Bytes), Len(field) = rem,
         NEW padding, padding = standard_padding(b, rem),
         NEW last, last = WriteNext(padding.buffer, field)
  PROVE  /\ last \in FixedBuffer(n)
         /\ EndsIn(n, b, rem, field, Join(padding.blocks, << last.bytes >>))
<1> DEFINE u == Used(b)
           m == << MARKER >>
           i == b.idx
           marked == WriteNext(b, m)
           full == zero_until(marked, n)
           room == n - rem
           to == zero_until(marked, room)
           from == zero_until(Emptied(full), room)
<1>1. /\ u \in Seq(Bytes) /\ Len(u) = i /\ i \in Nat /\ i + 1 <= n
      /\ Size(b) = n
  <2>1. /\ Used(b) \in Seq(Bytes) /\ Len(Used(b)) = b.idx /\ b.idx \in 0 .. n
        /\ Size(b) = n
    BY BufferFacts
  <2> QED
    BY <2>1
<1>2. m \in Seq(Bytes) /\ Len(m) = 1
  BY MarkerIsByte
<1>3. padding = IF Remaining(marked) < rem
                THEN [buffer |-> from, blocks |-> << full.bytes >>]
                ELSE [buffer |-> to, blocks |-> <<>>]
  BY <1>1 DEF standard_padding
<1> HIDE DEF m
<1>4. marked \in FixedBuffer(n) /\ marked.idx = i + 1 /\ Used(marked) = Join(u, m)
  <2>1. i + 1 \in Nat /\ b.idx + Len(m) = i + 1 /\ i + 1 <= n
    BY <1>1, <1>2
  <2> DEFINE k == i + 1
  <2>2. k \in Nat /\ b.idx + Len(m) = k /\ k <= n
    BY <2>1
  <2> HIDE DEF k
  <2>3. /\ WriteNext(b, m) \in FixedBuffer(n) /\ WriteNext(b, m).idx = k
        /\ Used(WriteNext(b, m)) = Join(Used(b), m)
    <3>1. b \in FixedBuffer(n) /\ m \in Seq(Bytes)
      BY <1>2
    <3> QED
      BY <2>2, <3>1, WriteNextJoin
  <2> QED
    BY <2>3 DEF k
<1> HIDE DEF u, marked, room
<1>5. Remaining(marked) = n - (i + 1)
  BY <1>4, BufferFacts
<1>6. room \in Nat /\ room <= n /\ room + rem = n
  BY DEF room
<1> HIDE DEF i
<1>7. CASE Remaining(marked) < rem
  <2> DEFINE z1 == n - (i + 1) z == z1 + room e == Emptied(full)
             blocks == Join(padding.blocks, << last.bytes >>)
  <2>1. z1 \in Nat /\ i + 1 + z1 = n /\ z1 < rem
    BY <1>1, <1>5, <1>7
  <2> HIDE DEF z1
  <2>2. n \in Nat /\ n <= n /\ marked.idx + z1 = n
    BY <1>4, <2>1
  <2>3. full \in FixedBuffer(n) /\ full.idx = n /\ Used(full) = Join(Join(u, m), Zeros(z1))
    BY <1>4, <2>1, <2>2, ZeroUntilJoin
  <2> HIDE DEF full
  <2>4. full.bytes = Join(Join(u, m), Zeros(z1))
    BY <2>3, BufferFacts
  <2>5. e \in FixedBuffer(n) /\ e.idx = 0 /\ Used(e) = <<>>
    BY <2>3, EmptiedLemma
  <2>6. from = zero_until(e, room)
    OBVIOUS
  <2> HIDE DEF e, from
  <2>7. e.idx + room = room
    BY <1>6, <2>5
  <2>8. /\ from \in FixedBuffer(n) /\ from.idx = room
        /\ Used(from) = Join(Used(e), Zeros(room))
    BY <1>6, <2>5, <2>6, <2>7, ZeroUntilJoin
  <2>9. Join(<<>>, Zeros(room)) = Zeros(room)
    BY <1>6, ZerosType, ConcatEmptySeq DEF Join
  <2>10. padding.buffer = from /\ padding.blocks = << full.bytes >>
    BY <1>3, <1>7
  <2>11. from.idx + Len(field) = n
    BY <1>6, <2>8
  <2>12. last \in FixedBuffer(n) /\ last.bytes = Join(Used(from), field)
    BY <2>8, <2>10, <2>11, FillLemma
  <2>13. blocks = EndTwo(u, m, z1, room, field)
    BY <2>4, <2>5, <2>8, <2>9, <2>10, <2>12 DEF EndTwo
  <2>14. Len(u) + Len(m) + z1 = n /\ room + Len(field) = n
    BY <1>1, <1>2, <1>6, <2>1
  <2>15. EndTwo(u, m, z1, room, field)
           = Blocks(Ended(u, m, z1 + room, field), n)
    <3>1. FitsTwo(n, u, m, z1, room, field)
      BY <1>1, <1>2, <1>6, <2>1, <2>14 DEF FitsTwo
    <3> QED
      BY <3>1, PaddingTwo
  <2>16. z \in 0 .. (n - 1) /\ i + 1 + rem + z = n * 2 /\ 2 \in Nat
    BY <1>1, <1>6, <2>1
  <2>17. blocks = Blocks(Ended(u, m, z, field), n)
    BY <2>13, <2>15
  <2> HIDE DEF z, blocks
  <2> QED
    BY <2>12, <2>16, <2>17 DEF u, m, i, blocks, EndsIn
<1>8. CASE ~(Remaining(marked) < rem)
  <2> DEFINE z == room - (i + 1)
             blocks == Join(padding.blocks, << last.bytes >>)
  <2>1. z \in Nat /\ i + 1 + z = room
    BY <1>1, <1>5, <1>6, <1>8
  <2>2. z \in 0 .. (n - 1) /\ i + 1 + rem + z = n * 1 /\ 1 \in Nat
    BY <1>1, <1>6, <2>1
  <2> HIDE DEF z
  <2>3. marked.idx + z = room
    BY <1>4, <2>1
  <2>4. to \in FixedBuffer(n) /\ to.idx = room /\ Used(to) = Join(Join(u, m), Zeros(z))
    BY <1>4, <1>6, <2>1, <2>3, ZeroUntilJoin
  <2> HIDE DEF to
  <2>5. padding.buffer = to /\ padding.blocks = <<>>
    BY <1>3, <1>8
  <2>6. to.idx + Len(field) = n
    BY <1>6, <2>4
  <2>7. last \in FixedBuffer(n) /\ last.bytes = Join(Join(Join(u, m), Zeros(z)), field)
    BY <2>4, <2>5, <2>6, FillLemma
  <2>8. Len(u) + Len(m) + z + Len(field) = n
    BY <1>1, <1>2, <1>6, <2>1
  <2>9. EndOne(u, m, z, field)
          = Blocks(Ended(u, m, z, field), n)
    <3>1. FitsOne(n, u, m, z, field)
      BY <1>1, <1>2, <2>1, <2>8 DEF FitsOne
    <3> QED
      BY <3>1, PaddingOne
  <2>10. blocks = << last.bytes >>
    <3>1. << last.bytes >> \in Seq({last.bytes})
      OBVIOUS
    <3> QED
      BY <2>5, <3>1, ConcatEmptySeq DEF Join
  <2>11. blocks = Blocks(Ended(u, m, z, field), n)
    BY <2>7, <2>9, <2>10 DEF EndOne
  <2> HIDE DEF blocks
  <2> QED
    BY <2>2, <2>7, <2>11 DEF u, m, i, blocks, EndsIn
<1> QED
  BY <1>7, <1>8

-----------------------------------------------------------------------------
(* The count of bits.                                                      *)

(* add_bytes_to_bits fails exactly if the sum does not fit its word.       *)
LEMMA AddNarrow ==
  ASSUME NEW w \in Nat \ {0}, NEW bits \in 0 .. (w - 1), NEW n \in Nat
  PROVE  /\ \A s \in add_bytes_to_bits(bits, n, w) :
              s \in 0 .. (w - 1) /\ s = bits + n * BITS
         /\ add_bytes_to_bits(bits, n, w) = {} <=> ~(bits + n * BITS < w)
<1> DEFINE x == n * BITS a == x \div w b == x % w
<1>1. x \in Nat
  BY ByteAssumption
<1>2. add_bytes_to_bits(bits, n, w) = {s \in {bits + b} : a = 0 /\ s < w}
  BY DEF add_bytes_to_bits, to_bits
<1> HIDE DEF x
<1>3. a \in Nat /\ b \in 0 .. (w - 1) /\ x = w * a + b
  BY <1>1, DivMod, ModRange
<1> HIDE DEF a, b
<1>4. CASE a = 0
  <2>1. x = b
    BY <1>3, <1>4
  <2> QED
    BY <1>2, <1>3, <1>4, <2>1 DEF x
<1>5. CASE a # 0
  <2>1. w * a >= w
    BY <1>3, <1>5
  <2>2. x >= w
    BY <1>3, <2>1
  <2> QED
    BY <1>1, <1>2, <1>5, <2>2 DEF x
<1> QED
  BY <1>4, <1>5

(* add_bytes_to_bits_tuple fails exactly if the sum does not fit two       *)
(* words: the carry of the low word is not lost and not counted twice.     *)
LEMMA AddWide ==
  ASSUME NEW w \in Nat \ {0}, NEW bits \in (0 .. (w - 1)) \X (0 .. (w - 1)),
         NEW n \in Nat
  PROVE  /\ \A s \in add_bytes_to_bits_tuple(bits, n, w) :
              /\ s \in (0 .. (w - 1)) \X (0 .. (w - 1))
              /\ s[1] * w + s[2] = bits[1] * w + bits[2] + n * BITS
         /\ add_bytes_to_bits_tuple(bits, n, w) = {}
              <=> ~(bits[1] * w + bits[2] + n * BITS < w * w)
<1> DEFINE x == n * BITS a == x \div w b == x % w
           hi == bits[1] lo == bits[2]
           l == lo + b
           z == IF l < w THEN a ELSE a + 1
           r == l % w
           h == hi + z
<1>1. x \in Nat /\ hi \in 0 .. (w - 1) /\ lo \in 0 .. (w - 1)
  BY ByteAssumption
<1>2. add_bytes_to_bits_tuple(bits, n, w) = {s \in {<< h, r >>} : z < w /\ h < w}
  BY DEF add_bytes_to_bits_tuple, to_bits
<1> HIDE DEF x, hi, lo
<1>3. a \in Nat /\ b \in 0 .. (w - 1) /\ x = w * a + b
  BY <1>1, DivMod, ModRange
<1> HIDE DEF a, b
<1>4. z \in Nat /\ r \in 0 .. (w - 1) /\ w * z + r = w * a + l
  <2>1. CASE l < w
    <3>1. l \in Nat /\ l = w * 0 + l /\ l \in Int /\ 0 \in Int
      BY <1>1, <1>3
    <3>2. r = l
      BY <2>1, <3>1, DivUnique
    <3> QED
      BY <1>3, <2>1, <3>1, <3>2
  <2>2. CASE ~(l < w)
    <3> DEFINE k == l - w
    <3>1. k \in Nat /\ k < w /\ l = w * 1 + k /\ l \in Int /\ 1 \in Int
      BY <1>1, <1>3, <2>2
    <3> HIDE DEF k
    <3>2. r = k
      BY <3>1, DivUnique
    <3>3. z = a + 1 /\ w * (a + 1) = w * a + w /\ w * a \in Nat
      BY <1>3, <2>2
    <3> QED
      BY <1>3, <3>1, <3>2, <3>3
  <2> QED
    BY <2>1, <2>2
<1> HIDE DEF z, r
<1>5. h * w + r = hi * w + lo + x
  <2>1. h * w = hi * w + w * z /\ hi * w \in Nat /\ w * z \in Nat /\ w * a \in Nat
    BY <1>1, <1>3, <1>4
  <2> HIDE DEF h
  <2> QED
    BY <1>1, <1>3, <1>4, <2>1
<1>6. h \in Nat /\ (h < w => z < w)
  BY <1>1, <1>4
<1> HIDE DEF h, l
<1>7. h * w + r < w * w <=> h < w
  BY <1>4, <1>6, PairBound
<1> DEFINE sum == << h, r >>
<1>8. add_bytes_to_bits_tuple(bits, n, w) = IF h < w THEN {sum} ELSE {}
  BY <1>2, <1>6
<1>9. sum[1] = h /\ sum[2] = r /\ (h < w => sum \in (0 .. (w - 1)) \X (0 .. (w - 1)))
  BY <1>4, <1>6
<1> HIDE DEF sum
<1> QED
  BY <1>5, <1>7, <1>8, <1>9 DEF hi, lo, x

(* The sizes of a digest.                                                  *)
LEMMA DigestFacts ==
  ASSUME NEW d \in Digests
  PROVE  /\ d.block \in Nat \ {0} /\ d.rem \in Nat \ {0} /\ d.rem < d.block
         /\ d.wide \in BOOLEAN
         /\ d.rem \div 2 \in Nat /\ d.rem = 2 * (d.rem \div 2)
         /\ d.word = IF d.wide THEN Power[d.rem \div 2] ELSE Power[d.rem]
         /\ d.word \in Nat \ {0}
<1>1. \E iv, bits : d = Engine256(iv, bits) \/ d = Engine512(iv, bits)
  BY DEF Digests, Sha256, Sha224, Sha512, Sha384, Sha512Trunc256, Sha512Trunc224
<1>2. \A e \in Nat : e % 2 = 0 => e \div 2 \in Nat /\ e = 2 * (e \div 2)
  OBVIOUS
<1>3. \/ /\ d.block = Block256 /\ d.rem = Rem256
         /\ d.word = Word256 /\ d.wide = FALSE
      \/ /\ d.block = Block512 /\ d.rem = Rem512
         /\ d.word = Word512 /\ d.wide = TRUE
  BY <1>1 DEF Engine256, Engine512
<1>4. /\ d.block \in Nat \ {0} /\ d.rem \in Nat \ {0} /\ d.rem < d.block
      /\ d.wide \in BOOLEAN /\ d.rem % 2 = 0
      /\ d.word = IF d.wide THEN Power[d.rem \div 2] ELSE Power[d.rem]
  <2>1. d.wide \in BOOLEAN
    BY <1>3, Zenon
  <2>2. d.block \in Nat \ {0} /\ d.rem \in Nat \ {0} /\ d.rem < d.block /\ d.rem % 2 = 0
    BY <1>3, SizesAssumption
  <2>3. d.word = IF d.wide THEN Power[d.rem \div 2] ELSE Power[d.rem]
    <3>1. Word256 = Power[Rem256] /\ Word512 = Power[Rem512 \div 2]
      BY SizesAssumption
    <3> QED
      BY <1>3, <3>1, Zenon
  <2> QED
    BY <2>1, <2>2, <2>3
<1>5. d.rem \div 2 \in Nat /\ d.rem = 2 * (d.rem \div 2)
  BY <1>2, <1>4
<1> QED
  BY <1>4, <1>5, PowerType

(* The operators of the promise are those of the engine.                   *)
LEMMA AbstractSame ==
  /\ Abstract!Power = Power
  /\ Abstract!MARKER = MARKER
  /\ \A n : Abstract!Zeros(n) = Zeros(n)
  /\ \A x, n : Abstract!BigEndian(x, n) = BigEndian(x, n)
  /\ \A s, n : Abstract!Blocks(s, n) = Blocks(s, n)
<1>1. Abstract!Power = Power
  BY DEF Abstract!Power, Power
<1>2. \A x, n : Abstract!BigEndian(x, n) = BigEndian(x, n)
  BY <1>1 DEF Abstract!BigEndian, BigEndian
<1>3. \A s, n : Abstract!Blocks(s, n) = Blocks(s, n)
  BY DEF Abstract!Blocks, Blocks
<1> QED
  BY <1>1, <1>2, <1>3 DEF Abstract!MARKER, MARKER, Abstract!Zeros, Zeros

(* The bits counted.                                                       *)
Count == IF digest.wide THEN length_bits[1] * digest.word + length_bits[2]
         ELSE length_bits

(* The length field is the count, most significant byte first, in both     *)
(* engines.                                                                *)
LEMMA FieldLemma ==
  ASSUME TypeOK
  PROVE  /\ Count \in Nat /\ LengthField = BigEndian(Count, digest.rem)
         /\ LengthField \in Seq(Bytes) /\ Len(LengthField) = digest.rem
<1> DEFINE h == digest.rem \div 2
           p == Power[h]
           hi == IF digest.wide THEN length_bits[1] ELSE length_bits \div p
           low == IF digest.wide THEN length_bits[2] ELSE length_bits % p
<1>1. digest \in Digests
  BY DEF TypeOK
<1>2. /\ h \in Nat /\ digest.rem = 2 * h /\ digest.rem \in Nat
      /\ digest.word = IF digest.wide THEN p ELSE Power[digest.rem]
      /\ digest.word \in Nat \ {0} /\ digest.wide \in BOOLEAN
  BY <1>1, DigestFacts
<1>3. LengthField = BigEndian(hi, h) \o BigEndian(low, h)
  BY DEF LengthField
<1>4. p \in Nat \ {0}
  BY <1>2, PowerType
<1> HIDE DEF p, h
<1>5. hi \in Nat /\ low \in 0 .. (p - 1) /\ hi * p + low = Count
  <2>1. CASE digest.wide
    <3>1. digest.word = p
      BY <1>2, <2>1
    <3>2. length_bits \in (0 .. (p - 1)) \X (0 .. (p - 1))
      BY <2>1, <3>1 DEF TypeOK
    <3>3. length_bits[1] \in Nat /\ length_bits[2] \in 0 .. (p - 1)
      BY <1>4, <3>2
    <3> QED
      BY <2>1, <3>1, <3>3 DEF Count
  <2>2. CASE ~digest.wide
    <3>1. length_bits \in 0 .. (digest.word - 1)
      BY <2>2 DEF TypeOK
    <3>2. length_bits \in Nat
      BY <1>2, <3>1
    <3> DEFINE q == length_bits \div p r == length_bits % p
    <3>3. q \in Nat /\ r \in 0 .. (p - 1) /\ length_bits = p * q + r
      BY <1>4, <3>2, DivMod, ModRange
    <3>4. hi = q /\ low = r /\ Count = length_bits
      BY <2>2 DEF Count
    <3> HIDE DEF q, r, hi, low
    <3>5. q * p + r = p * q + r
      BY <1>4, <3>3
    <3> QED
      BY <3>3, <3>4, <3>5
  <2> QED
    BY <2>1, <2>2
<1> HIDE DEF hi, low
<1>6. Count \in Nat
  <2>1. low \in Nat /\ hi * p \in Nat
    BY <1>4, <1>5
  <2> QED
    BY <1>5, <2>1
<1>7. BigEndian(hi, h) \o BigEndian(low, h) = BigEndian(hi * p + low, 2 * h)
  BY <1>2, <1>5, BigEndianPair DEF p
<1>8. LengthField = BigEndian(Count, digest.rem)
  BY <1>2, <1>3, <1>5, <1>7
<1> QED
  BY <1>2, <1>6, <1>8, BigEndianType

-----------------------------------------------------------------------------
(* The message, its marker, the least number of zeros and its field.       *)
Whole(m, n, rem, field) == Ended(m, << MARKER >>, (- (Len(m) + 1 + rem)) % n, field)

(* That is what the promise says.                                          *)
LEMMA PaddedIsWhole ==
  ASSUME NEW d \in Digests, NEW m \in Seq(Bytes)
  PROVE  Abstract!Padded(d, m)
           = Whole(m, d.block, d.rem, BigEndian(Len(m) * BITS, d.rem))
<1> DEFINE z == (- (Len(m) + 1 + d.rem)) % d.block
           f == BigEndian(Len(m) * BITS, d.rem)
           M == << MARKER >>
<1>1. Len(m) \in Nat /\ d.block \in Nat \ {0} /\ d.rem \in Nat /\ BITS \in Nat
  BY DigestFacts, ByteAssumption, LenProperties
<1>2. z \in Nat
  <2> DEFINE x == - (Len(m) + 1 + d.rem)
  <2>1. x \in Int
    BY <1>1
  <2> HIDE DEF x
  <2> QED
    BY <1>1, <2>1 DEF x
<1>3. f \in Seq(Bytes)
  <2>1. Len(m) * BITS \in Nat
    BY <1>1
  <2> QED
    BY <1>1, <2>1, BigEndianType
<1>4. M \in Seq(Bytes)
  BY MarkerIsByte
<1>5. Abstract!Padded(d, m) = Join(Join(Join(m, M), Zeros(z)), f)
  BY AbstractSame DEF Abstract!Padded, Join
<1> HIDE DEF z, f, M
<1>6. Zeros(z) \in Seq(Bytes)
  BY <1>2, ZerosType
<1>7. Join(m, Join(M, Join(Zeros(z), f))) = Join(Join(Join(m, M), Zeros(z)), f)
  BY <1>3, <1>4, <1>6, JoinFour
<1> QED
  BY <1>5, <1>7 DEF Whole, Ended, z, f, M

(* The padded buffer completes the blocks of the message to those of the   *)
(* padded message.                                                         *)
LEMMA PadBlocks ==
  ASSUME NEW n \in Nat \ {0}, NEW b \in FixedBuffer(n), b.idx < n,
         NEW rem \in Nat \ {0}, rem < n,
         NEW field \in Seq(Bytes), Len(field) = rem,
         NEW padding, padding = standard_padding(b, rem),
         NEW last, last = WriteNext(padding.buffer, field),
         NEW m \in Seq(Bytes), Used(b) = Rest(m, n)
  PROVE  Join(Blocks(m, n), Join(padding.blocks, << last.bytes >>))
           = Blocks(Whole(m, n, rem, field), n)
<1> DEFINE ends == Join(padding.blocks, << last.bytes >>)
           M == << MARKER >>
           i == b.idx
           q == Len(m) \div n
<1>1. PICK z \in 0 .. (n - 1), k \in Nat :
        i + 1 + rem + z = n * k /\ ends = Blocks(Ended(Used(b), M, z, field), n)
  <2>1. EndsIn(n, b, rem, field, ends)
    BY PaddingLemma
  <2> HIDE DEF ends
  <2> QED
    BY <2>1 DEF EndsIn
<1>2. M \in Seq(Bytes)
  BY MarkerIsByte
<1> HIDE DEF ends, M
<1> DEFINE t == Join(M, Join(Zeros(z), field))
<1>3. z \in Nat
  OBVIOUS
<1>4. t \in Seq(Bytes)
  BY <1>2, <1>3, ZerosType, JoinThree
<1>5. ends = Blocks(Rest(m, n) \o t, n)
  BY <1>1 DEF Ended, Join
<1>6. Ended(m, M, z, field) = m \o t
  BY DEF Ended, Join
<1> HIDE DEF t
<1>7. Blocks(m \o t, n) = Blocks(m, n) \o ends
  BY <1>4, <1>5, BlocksJoin
<1>8. (- (Len(m) + 1 + rem)) % n = z
  <2> DEFINE a == Len(m) + 1 + rem
             j == q + k
  <2>1. i = Len(m) % n /\ q \in Nat /\ Len(m) = q * n + i /\ i \in Nat /\ Len(m) \in Nat
    <3>1. Len(Used(b)) = i /\ i \in 0 .. n
      BY BufferFacts
    <3>2. /\ Len(Rest(m, n)) = Len(m) % n /\ q \in Nat
          /\ Len(m) = q * n + (Len(m) % n)
      BY BlocksLemma
    <3> HIDE DEF i, q
    <3> QED
      BY <3>1, <3>2, LenProperties
  <2> HIDE DEF q, i
  <2> DEFINE c == q * n e == n * k l == Len(m)
  <2>2. n * j = c + e /\ c \in Nat /\ e \in Nat /\ j \in Nat
    BY <2>1
  <2>3. l = c + i /\ l \in Nat /\ i + 1 + rem + z = e
    BY <1>1, <2>1 DEF i
  <2>4. a = l + 1 + rem
    OBVIOUS
  <2> HIDE DEF a, j, c, e, l
  <2>5. a \in Nat /\ a + z = n * j
    <3>1. i \in Nat /\ z \in Nat /\ rem \in Nat
      BY <2>1
    <3> QED
      BY <2>2, <2>3, <2>4, <3>1
  <2>6. (- a) % n = z
    BY <2>2, <2>5, ModNegative
  <2> QED
    BY <2>6 DEF a
<1> QED
  BY <1>6, <1>7, <1>8 DEF Whole, M, ends, Join

-----------------------------------------------------------------------------
(* The inductive invariant: between two calls an engine that is not        *)
(* finished has consumed exactly its message, and a finished one has       *)
(* answered with its digest.                                               *)
IInv == TypeOK /\ Consumed /\ Answered

(* The count of d as a number, and its type.                               *)
CountOf(d, bits) == IF d.wide THEN bits[1] * d.word + bits[2] ELSE bits
CountType(d) == IF d.wide THEN (0 .. d.word - 1) \X (0 .. d.word - 1)
                ELSE 0 .. d.word - 1

(* The parts of the invariant that a step uses.                            *)
LEMMA IInvFacts ==
  ASSUME IInv
  PROVE  /\ digest \in Digests /\ message \in Seq(Bytes)
         /\ finished \in BOOLEAN /\ panicked \in BOOLEAN
         /\ length_bits \in CountType(digest)
         /\ CountOf(digest, length_bits) = Len(message) * BITS
         /\ buffer \in FixedBuffer(digest.block) /\ buffer.idx < digest.block
         /\ state \in [iv : {digest.iv}, blocks : Seq(Block(digest.block))]
         /\ ~finished => /\ state.blocks = Blocks(message, digest.block)
                         /\ Used(buffer) = Rest(message, digest.block)
         /\ finished => /\ out = {Abstract!Digest(digest, message)}
                        /\ Truncated(state) = Abstract!Digest(digest, message)
<1> DEFINE n == digest.block
<1>1. digest \in Digests /\ n \in Nat \ {0}
  BY DigestFacts DEF IInv, TypeOK
<1>2. buffer \in [bytes : Block(n), idx : 0 .. (n - 1)]
  BY DEF IInv, TypeOK
<1> HIDE DEF n
<1>3. buffer \in FixedBuffer(n) /\ buffer.idx < n
  BY <1>1, <1>2 DEF FixedBuffer
<1>4. /\ message \in Seq(Bytes) /\ finished \in BOOLEAN /\ panicked \in BOOLEAN
      /\ length_bits \in CountType(digest)
      /\ state \in [iv : {digest.iv}, blocks : Seq(Block(digest.block))]
  BY DEF IInv, TypeOK, CountType
<1>5. /\ CountOf(digest, length_bits) = Len(message) * BITS
      /\ ~finished => /\ state.blocks = Blocks(message, digest.block)
                      /\ Used(buffer) = Rest(message, digest.block)
  BY DEF IInv, Consumed, CountOf, Used
<1>6. finished => /\ out = {Abstract!Digest(digest, message)}
                  /\ Truncated(state) = Abstract!Digest(digest, message)
  BY DEF IInv, Answered
<1> QED
  BY <1>1, <1>3, <1>4, <1>5, <1>6 DEF n

(* A buffer that is not full has the type that the invariant gives it.     *)
LEMMA OpenBuffer ==
  ASSUME NEW n \in Nat \ {0}, NEW b \in FixedBuffer(n), b.idx < n
  PROVE  b \in [bytes : Block(n), idx : 0 .. (n - 1)]
<1>1. b = [bytes |-> b.bytes, idx |-> b.idx] /\ b.bytes \in Block(n) /\ b.idx \in 0 .. n
  BY DEF FixedBuffer
<1>2. b.idx \in 0 .. (n - 1)
  BY <1>1
<1> QED
  BY <1>1, <1>2

(* A buffer that holds the rest of a message, and its next input.          *)
Holds(n, b, m) == b \in FixedBuffer(n) /\ b.idx < n /\ Used(b) = Rest(m, n)

(* An input takes a buffer that holds the rest of m to one that holds the  *)
(* rest of m and the data, with the whole blocks processed in between.     *)
LEMMA InputConsumes ==
  ASSUME NEW n \in Nat \ {0}, NEW b, NEW m \in Seq(Bytes), Holds(n, b, m),
         NEW data \in Seq(Bytes)
  PROVE  /\ Holds(n, input(b, data).buffer, Join(m, data))
         /\ input(b, data).blocks \in Seq(Block(n))
         /\ Join(Blocks(m, n), input(b, data).blocks) = Blocks(Join(m, data), n)
<1> DEFINE in == input(b, data) r == Rest(m, n) all == r \o data
<1>1. b \in FixedBuffer(n) /\ b.idx < n /\ Used(b) = r
  BY DEF Holds
<1>2. /\ in.buffer \in FixedBuffer(n) /\ in.buffer.idx < n
      /\ in.blocks = Blocks(Used(b) \o data, n)
      /\ Used(in.buffer) = Rest(Used(b) \o data, n)
  BY <1>1, InputLemma
<1>3. /\ Blocks(m \o data, n) = Blocks(m, n) \o Blocks(all, n)
      /\ Rest(m \o data, n) = Rest(all, n)
  BY BlocksJoin
<1>4. r \in Seq(Bytes)
  BY BlocksLemma
<1> HIDE DEF in, r
<1>5. all \in Seq(Bytes)
  BY <1>4, JoinTwo
<1>6. Blocks(all, n) \in Seq(Block(n))
  BY <1>5, BlocksLemma
<1> QED
  BY <1>1, <1>2, <1>3, <1>6 DEF in, Join, Holds

(* Compressing blocks appends them.                                        *)
LEMMA ProcessLemma ==
  ASSUME NEW B, NEW v, NEW s \in [iv : {v}, blocks : Seq(B)], NEW bs \in Seq(B)
  PROVE  /\ Process(s, bs) \in [iv : {v}, blocks : Seq(B)]
         /\ Process(s, bs).iv = v /\ Process(s, bs).blocks = Join(s.blocks, bs)
<1>1. s.iv = v /\ s.blocks \in Seq(B) /\ s = [iv |-> s.iv, blocks |-> s.blocks]
  OBVIOUS
<1> DEFINE c == s.blocks \o bs
<1>2. c \in Seq(B)
  BY <1>1, ConcatProperties
<1>3. Process(s, bs) = [s EXCEPT !.blocks = c]
  BY DEF Process
<1> HIDE DEF c
<1>4. [s EXCEPT !.blocks = c] = [iv |-> v, blocks |-> c]
  BY <1>1
<1> QED
  BY <1>2, <1>3, <1>4 DEF c, Join

(* The count takes n more bytes, or fails exactly if their number does not *)
(* fit the length field.                                                   *)
LEMMA CountLemma ==
  ASSUME NEW d \in Digests, NEW bits \in CountType(d), NEW m \in Nat, NEW n \in Nat,
         CountOf(d, bits) = m * BITS,
         NEW sums, sums = IF d.wide THEN add_bytes_to_bits_tuple(bits, n, d.word)
                          ELSE add_bytes_to_bits(bits, n, d.word)
  PROVE  /\ \A s \in sums : s \in CountType(d) /\ CountOf(d, s) = (m + n) * BITS
         /\ sums = {} <=> ~((m + n) * BITS < Abstract!Capacity(d))
<1> DEFINE w == d.word
<1>1. w \in Nat \ {0} /\ d.wide \in BOOLEAN
  BY DigestFacts
<1>2. (m + n) * BITS = m * BITS + n * BITS
  BY ByteAssumption
<1>3. CASE d.wide
  <2>1. bits \in (0 .. (w - 1)) \X (0 .. (w - 1)) /\ bits[1] * w + bits[2] = m * BITS
    BY <1>3 DEF CountType, CountOf
  <2>2. sums = add_bytes_to_bits_tuple(bits, n, w) /\ Abstract!Capacity(d) = w * w
    BY <1>3 DEF Abstract!Capacity
  <2>3. \A s : /\ s \in CountType(d) <=> s \in (0 .. (w - 1)) \X (0 .. (w - 1))
               /\ CountOf(d, s) = s[1] * w + s[2]
    BY <1>3 DEF CountType, CountOf
  <2> HIDE DEF w
  <2>4. /\ \A s \in add_bytes_to_bits_tuple(bits, n, w) :
             /\ s \in (0 .. (w - 1)) \X (0 .. (w - 1))
             /\ s[1] * w + s[2] = bits[1] * w + bits[2] + n * BITS
        /\ add_bytes_to_bits_tuple(bits, n, w) = {}
              <=> ~(bits[1] * w + bits[2] + n * BITS < w * w)
    BY <1>1, <2>1, AddWide
  <2> QED
    BY <1>2, <2>1, <2>2, <2>3, <2>4
<1>4. CASE ~d.wide
  <2>1. bits \in 0 .. (w - 1) /\ bits = m * BITS
    BY <1>4 DEF CountType, CountOf
  <2>2. sums = add_bytes_to_bits(bits, n, w) /\ Abstract!Capacity(d) = w
    BY <1>4 DEF Abstract!Capacity
  <2>3. \A s : (s \in CountType(d) <=> s \in 0 .. (w - 1)) /\ CountOf(d, s) = s
    BY <1>4 DEF CountType, CountOf
  <2> HIDE DEF w
  <2>4. /\ \A s \in add_bytes_to_bits(bits, n, w) :
              s \in 0 .. (w - 1) /\ s = bits + n * BITS
        /\ add_bytes_to_bits(bits, n, w) = {} <=> ~(bits + n * BITS < w)
    BY <1>1, <2>1, AddNarrow
  <2> QED
    BY <1>2, <2>1, <2>2, <2>3, <2>4
<1> QED
  BY <1>1, <1>3, <1>4

(* A new object satisfies the invariant.                                   *)
LEMMA FreshLemma ==
  ASSUME NEW d \in Digests
  PROVE  /\ NoBits(d) \in CountType(d) /\ CountOf(d, NoBits(d)) = Len(<<>>) * BITS
         /\ InitialState(d) \in [iv : {d.iv}, blocks : Seq(Block(d.block))]
         /\ InitialState(d).blocks = Blocks(<<>>, d.block)
         /\ Rest(<<>>, d.block) = <<>>
         /\ NewBuffer(d.block) \in FixedBuffer(d.block)
         /\ NewBuffer(d.block).idx = 0 /\ Used(NewBuffer(d.block)) = <<>>
<1> DEFINE n == d.block w == d.word
<1>1. n \in Nat \ {0} /\ w \in Nat \ {0} /\ d.wide \in BOOLEAN
  BY DigestFacts
<1>2. NoBits(d) \in CountType(d) /\ CountOf(d, NoBits(d)) = 0
  <2>1. CASE d.wide
    <3>1. NoBits(d) = <<0, 0>>
      BY <2>1 DEF NoBits
    <3>2. CountType(d) = (0 .. (w - 1)) \X (0 .. (w - 1)) /\ CountOf(d, <<0, 0>>) = 0 * w + 0
      BY <2>1 DEF CountType, CountOf
    <3> HIDE DEF w
    <3> QED
      BY <1>1, <3>1, <3>2
  <2>2. CASE ~d.wide
    <3>1. NoBits(d) = 0 /\ CountType(d) = 0 .. (w - 1) /\ CountOf(d, 0) = 0
      BY <2>2 DEF NoBits, CountType, CountOf
    <3> HIDE DEF w
    <3> QED
      BY <1>1, <3>1
  <2> QED
    BY <1>1, <2>1, <2>2
<1>3. Len(<<>>) * BITS = 0
  BY ByteAssumption
<1>4. <<>> \in Seq(Bytes) /\ Len(<<>>) < n /\ <<>> \in Seq(Block(n))
  BY <1>1
<1>5. Blocks(<<>>, n) = <<>> /\ Rest(<<>>, n) = <<>>
  BY <1>1, <1>4, BlocksOfShort
<1>6. /\ InitialState(d) \in [iv : {d.iv}, blocks : Seq(Block(n))]
      /\ InitialState(d).blocks = <<>>
  BY <1>4 DEF InitialState
<1> DEFINE b == NewBuffer(n)
<1>7. b \in FixedBuffer(n) /\ b.idx = 0
  <2>1. Zeros(n) \in Block(n)
    BY <1>1, ZerosType, SeqIsFunction DEF Block
  <2>2. 0 \in 0 .. n
    BY <1>1
  <2> QED
    BY <2>1, <2>2 DEF NewBuffer, FixedBuffer
<1> HIDE DEF b
<1>8. Used(b) \in Seq(Bytes) /\ Len(Used(b)) = 0
  BY <1>1, <1>7, BufferFacts
<1> QED
  BY <1>2, <1>3, <1>5, <1>6, <1>7, <1>8, EmptySeq DEF b

(* What shows that a state satisfies the invariant.                        *)
LEMMA IInvFromFacts ==
  ASSUME digest \in Digests, message \in Seq(Bytes),
         finished \in BOOLEAN, panicked \in BOOLEAN,
         length_bits \in CountType(digest),
         CountOf(digest, length_bits) = Len(message) * BITS,
         buffer \in FixedBuffer(digest.block), buffer.idx < digest.block,
         state \in [iv : {digest.iv}, blocks : Seq(Block(digest.block))],
         ~finished => /\ state.blocks = Blocks(message, digest.block)
                      /\ Used(buffer) = Rest(message, digest.block),
         finished => /\ buffer.idx = 0
                     /\ out = {Abstract!Digest(digest, message)}
                     /\ Truncated(state) = Abstract!Digest(digest, message)
  PROVE  IInv
<1>1. buffer \in [bytes : Block(digest.block), idx : 0 .. (digest.block - 1)]
  BY DigestFacts, OpenBuffer
<1>2. TypeOK
  BY <1>1 DEF TypeOK, CountType
<1>3. Consumed
  BY DEF Consumed, CountOf, Used
<1>4. Answered
  BY DEF Answered
<1> QED
  BY <1>2, <1>3, <1>4 DEF IInv

(* A new engine has consumed nothing.                                      *)
LEMMA InitIInv == Init => IInv
<1> SUFFICES ASSUME Init PROVE IInv
  OBVIOUS
<1>1. /\ digest \in Digests /\ message = <<>> /\ finished = FALSE /\ panicked = FALSE
      /\ length_bits = NoBits(digest) /\ buffer = NewBuffer(digest.block)
      /\ state = InitialState(digest)
  BY DEF Init
<1>2. /\ length_bits \in CountType(digest)
      /\ CountOf(digest, length_bits) = Len(message) * BITS
      /\ state \in [iv : {digest.iv}, blocks : Seq(Block(digest.block))]
      /\ state.blocks = Blocks(message, digest.block)
      /\ buffer \in FixedBuffer(digest.block) /\ buffer.idx = 0
      /\ Used(buffer) = Rest(message, digest.block)
  BY <1>1, FreshLemma
<1>3. message \in Seq(Bytes) /\ buffer.idx < digest.block
  BY <1>1, <1>2, DigestFacts
<1> QED
  BY <1>1, <1>2, <1>3, IInvFromFacts

(* A call of input consumes its data.                                      *)
LEMMA InputIInv ==
  ASSUME IInv, Input
  PROVE  IInv'
<1> DEFINE n == digest.block
<1>1. PICK data \in Given :
        /\ length_bits' \in AddBytes(length_bits, Len(data))
        /\ buffer' = input(buffer, data).buffer
        /\ state' = Process(state, input(buffer, data).blocks)
        /\ message' = message \o data
  BY DEF Input
<1>2. /\ finished = FALSE /\ finished' = finished /\ panicked' = panicked
      /\ digest' = digest
  <2>1. finished \in BOOLEAN
    BY IInvFacts
  <2>2. ~finished /\ finished' = finished /\ panicked' = panicked /\ digest' = digest
    BY DEF Input
  <2> QED
    BY <2>1, <2>2
<1>3. /\ digest \in Digests /\ message \in Seq(Bytes) /\ panicked \in BOOLEAN
      /\ length_bits \in CountType(digest)
      /\ CountOf(digest, length_bits) = Len(message) * BITS
      /\ buffer \in FixedBuffer(n) /\ buffer.idx < n
      /\ state \in [iv : {digest.iv}, blocks : Seq(Block(n))]
      /\ state.blocks = Blocks(message, n) /\ Used(buffer) = Rest(message, n)
  BY <1>2, IInvFacts
<1>4. data \in Seq(Bytes) /\ Len(data) \in Nat /\ Len(message) \in Nat /\ n \in Nat \ {0}
  BY <1>3, InputsAssumption, LenProperties, DigestFacts DEF Given
<1>5. message' \in Seq(Bytes) /\ Len(message') = Len(message) + Len(data)
  <2>1. /\ message \o data \in Seq(Bytes)
        /\ Len(message \o data) = Len(message) + Len(data)
    BY <1>3, <1>4, JoinTwo
  <2> QED
    BY <1>1, <2>1
<1>6. /\ length_bits' \in CountType(digest)
      /\ CountOf(digest, length_bits') = Len(message') * BITS
  <2> DEFINE sums == AddBytes(length_bits, Len(data)) j == Len(message) k == Len(data)
  <2>1. sums = IF digest.wide THEN add_bytes_to_bits_tuple(length_bits, k, digest.word)
               ELSE add_bytes_to_bits(length_bits, k, digest.word)
    BY DEF AddBytes
  <2>2. /\ length_bits' \in sums /\ j \in Nat /\ k \in Nat /\ Len(message') = j + k
        /\ CountOf(digest, length_bits) = j * BITS
    BY <1>1, <1>3, <1>4, <1>5
  <2> HIDE DEF sums, j, k
  <2>3. \A s \in sums : s \in CountType(digest) /\ CountOf(digest, s) = (j + k) * BITS
    BY <1>3, <2>1, <2>2, CountLemma
  <2> QED
    BY <2>2, <2>3
<1> HIDE DEF n
<1> DEFINE in == input(buffer, data)
<1>7. Holds(n, buffer, message)
  BY <1>3 DEF Holds
<1>8. /\ Holds(n, in.buffer, Join(message, data)) /\ in.blocks \in Seq(Block(n))
      /\ Join(Blocks(message, n), in.blocks) = Blocks(Join(message, data), n)
  BY <1>3, <1>4, <1>7, InputConsumes
<1>9. buffer' = in.buffer /\ state' = Process(state, in.blocks) /\ message' = Join(message, data)
  BY <1>1 DEF Join
<1> HIDE DEF in
<1>10. in.blocks \in Seq(Block(n)) /\ state \in [iv : {digest.iv}, blocks : Seq(Block(n))]
  BY <1>3, <1>8
<1>11. /\ state' \in [iv : {digest.iv}, blocks : Seq(Block(n))]
       /\ state'.blocks = Join(state.blocks, in.blocks)
  BY <1>9, <1>10, ProcessLemma
<1>12. /\ buffer' \in FixedBuffer(n) /\ buffer'.idx < n
       /\ Used(buffer') = Rest(message', n)
       /\ state'.blocks = Blocks(message', n)
  BY <1>3, <1>8, <1>9, <1>11 DEF Holds
<1>13. /\ (digest \in Digests)' /\ (message \in Seq(Bytes))'
       /\ (finished \in BOOLEAN)' /\ (panicked \in BOOLEAN)'
       /\ (length_bits \in CountType(digest))'
       /\ (CountOf(digest, length_bits) = Len(message) * BITS)'
       /\ (buffer \in FixedBuffer(digest.block))' /\ (buffer.idx < digest.block)'
       /\ (state \in [iv : {digest.iv}, blocks : Seq(Block(digest.block))])'
       /\ (~finished => /\ state.blocks = Blocks(message, digest.block)
                        /\ Used(buffer) = Rest(message, digest.block))'
       /\ (~finished)'
  BY <1>2, <1>3, <1>5, <1>6, <1>11, <1>12 DEF n, Used, CountOf, CountType
<1> QED
  BY <1>13, IInvFromFacts, PTL

(* Padding in terms of Holds: the blocks of the padded message.            *)
LEMMA FinishConsumes ==
  ASSUME NEW n \in Nat \ {0}, NEW b, NEW m \in Seq(Bytes), Holds(n, b, m),
         NEW rem \in Nat \ {0}, rem < n,
         NEW field \in Seq(Bytes), Len(field) = rem,
         NEW padding, padding = standard_padding(b, rem),
         NEW last, last = WriteNext(padding.buffer, field)
  PROVE  /\ Emptied(last) \in FixedBuffer(n) /\ Emptied(last).idx = 0
         /\ Join(padding.blocks, << last.bytes >>) \in Seq(Block(n))
         /\ Join(Blocks(m, n), Join(padding.blocks, << last.bytes >>))
              = Blocks(Whole(m, n, rem, field), n)
<1> DEFINE ends == Join(padding.blocks, << last.bytes >>)
<1>1. b \in FixedBuffer(n) /\ b.idx < n /\ Used(b) = Rest(m, n)
  BY DEF Holds
<1>2. last \in FixedBuffer(n) /\ EndsIn(n, b, rem, field, ends)
  BY <1>1, PaddingLemma
<1>4. Emptied(last) \in FixedBuffer(n) /\ Emptied(last).idx = 0
  BY <1>2, EmptiedLemma
<1>5. Join(Blocks(m, n), ends) = Blocks(Whole(m, n, rem, field), n)
  BY <1>1, PadBlocks
<1> HIDE DEF ends
<1>6. ends \in Seq(Block(n))
  <2>1. PICK z \in 0 .. (n - 1), k \in Nat :
          ends = Blocks(Ended(Used(b), << MARKER >>, z, field), n)
    BY <1>2 DEF EndsIn
  <2> DEFINE M == << MARKER >> u == Used(b)
  <2>2. M \in Seq(Bytes) /\ z \in Nat
    BY MarkerIsByte
  <2>3. u \in Seq(Bytes)
    BY <1>1, BufferFacts
  <2>4. Zeros(z) \in Seq(Bytes)
    BY <2>2, ZerosType
  <2>5. ends = Blocks(Ended(u, M, z, field), n)
    BY <2>1
  <2> HIDE DEF M, u
  <2>6. Ended(u, M, z, field) \in Seq(Bytes)
    <3>1. Join(Zeros(z), field) \in Seq(Bytes)
      BY <2>4, JoinThree
    <3>2. Join(M, Join(Zeros(z), field)) \in Seq(Bytes)
      BY <2>2, <3>1, JoinThree
    <3> QED
      BY <2>3, <3>2, JoinThree DEF Ended
  <2> QED
    BY <2>5, <2>6, BlocksLemma
<1> QED
  BY <1>4, <1>5, <1>6 DEF ends

(* finish leaves the chaining value of the padded message.                 *)
LEMMA FinishDigests ==
  ASSUME IInv, ~finished, Finish
  PROVE  /\ buffer' \in FixedBuffer(digest.block) /\ buffer'.idx = 0
         /\ state' \in [iv : {digest.iv}, blocks : Seq(Block(digest.block))]
         /\ Truncated(state') = Abstract!Digest(digest, message)
<1> DEFINE n == digest.block rem == digest.rem field == LengthField
           padding == standard_padding(buffer, rem)
           last == WriteNext(padding.buffer, field)
           ends == Join(padding.blocks, << last.bytes >>)
<1>1. /\ digest \in Digests /\ message \in Seq(Bytes)
      /\ CountOf(digest, length_bits) = Len(message) * BITS
      /\ buffer \in FixedBuffer(n) /\ buffer.idx < n
      /\ state \in [iv : {digest.iv}, blocks : Seq(Block(n))]
      /\ state.blocks = Blocks(message, n) /\ Used(buffer) = Rest(message, n)
  BY IInvFacts
<1>2. n \in Nat \ {0} /\ rem \in Nat \ {0} /\ rem < n
  BY <1>1, DigestFacts
<1>3. /\ field = BigEndian(Len(message) * BITS, rem)
      /\ field \in Seq(Bytes) /\ Len(field) = rem
  BY <1>1, FieldLemma DEF IInv, Count, CountOf
<1>4. buffer' = Emptied(last) /\ state' = Process(state, ends)
  BY DEF Finish, Join
<1>5. Holds(n, buffer, message)
  BY <1>1 DEF Holds
<1>6. Abstract!Padded(digest, message) = Whole(message, n, rem, field)
  BY <1>1, <1>3, PaddedIsWhole
<1>7. /\ padding = standard_padding(buffer, rem)
      /\ last = WriteNext(padding.buffer, field)
      /\ ends = Join(padding.blocks, << last.bytes >>)
  OBVIOUS
<1>8. Abstract!Digest(digest, message)
        = [iv |-> digest.iv, blocks |-> Blocks(Whole(message, n, rem, field), n),
           bits |-> digest.bits]
  BY <1>6, AbstractSame DEF Abstract!Digest
<1> HIDE DEF n, rem, field, padding, last, ends
<1>9. /\ Emptied(last) \in FixedBuffer(n) /\ Emptied(last).idx = 0
      /\ Join(padding.blocks, << last.bytes >>) \in Seq(Block(n))
      /\ Join(Blocks(message, n), Join(padding.blocks, << last.bytes >>))
           = Blocks(Whole(message, n, rem, field), n)
  BY <1>1, <1>2, <1>3, <1>5, <1>7, FinishConsumes, SMTT(60)
<1>10. ends \in Seq(Block(n)) /\ state \in [iv : {digest.iv}, blocks : Seq(Block(n))]
  BY <1>1, <1>7, <1>9
<1>11. /\ state' \in [iv : {digest.iv}, blocks : Seq(Block(n))]
       /\ state'.iv = digest.iv /\ state'.blocks = Join(state.blocks, ends)
  BY <1>4, <1>10, ProcessLemma
<1>12. state'.blocks = Blocks(Whole(message, n, rem, field), n)
  BY <1>1, <1>7, <1>9, <1>11
<1>13. Truncated(state') = Abstract!Digest(digest, message)
  BY <1>8, <1>11, <1>12 DEF Truncated
<1> QED
  BY <1>4, <1>9, <1>11, <1>13 DEF n

(* A call of result, the first or a further one.                           *)
LEMMA ResultIInv ==
  ASSUME IInv, Result
  PROVE  IInv' /\ out' = {Abstract!Digest(digest, message)}
<1>1. /\ digest \in Digests /\ message \in Seq(Bytes)
      /\ finished \in BOOLEAN /\ panicked \in BOOLEAN
      /\ length_bits \in CountType(digest)
      /\ CountOf(digest, length_bits) = Len(message) * BITS
  BY IInvFacts
<1>2. /\ finished' = TRUE /\ out' = {Truncated(state')}
      /\ digest' = digest /\ length_bits' = length_bits
      /\ panicked' = panicked /\ message' = message
      /\ IF finished THEN buffer' = buffer /\ state' = state ELSE Finish
  BY DEF Result
<1>3. /\ buffer' \in FixedBuffer(digest.block) /\ buffer'.idx = 0
      /\ state' \in [iv : {digest.iv}, blocks : Seq(Block(digest.block))]
      /\ Truncated(state') = Abstract!Digest(digest, message)
  <2>1. CASE finished
    <3>1. buffer.idx = 0
      BY <2>1 DEF IInv, Consumed
    <3> QED
      BY <1>2, <2>1, <3>1, IInvFacts
  <2>2. CASE ~finished
    BY <1>2, <2>2, FinishDigests
  <2> QED
    BY <2>1, <2>2
<1>4. out' = {Abstract!Digest(digest, message)}
  BY <1>2, <1>3
<1>5. buffer'.idx < digest.block
  BY <1>1, <1>3, DigestFacts
<1>6. /\ (out = {Abstract!Digest(digest, message)})'
      /\ (Truncated(state) = Abstract!Digest(digest, message))'
  BY <1>2, <1>3, <1>4 DEF Truncated, Abstract!Digest
<1>7. /\ (digest \in Digests)' /\ (message \in Seq(Bytes))'
      /\ (finished \in BOOLEAN)' /\ (panicked \in BOOLEAN)'
      /\ (length_bits \in CountType(digest))'
      /\ (CountOf(digest, length_bits) = Len(message) * BITS)'
      /\ (buffer \in FixedBuffer(digest.block))' /\ (buffer.idx < digest.block)'
      /\ (state \in [iv : {digest.iv}, blocks : Seq(Block(digest.block))])'
      /\ (~finished => /\ state.blocks = Blocks(message, digest.block)
                       /\ Used(buffer) = Rest(message, digest.block))'
      /\ (finished => /\ buffer.idx = 0
                      /\ out = {Abstract!Digest(digest, message)}
                      /\ Truncated(state) = Abstract!Digest(digest, message))'
  BY <1>1, <1>2, <1>3, <1>5, <1>6 DEF CountType, CountOf
<1>8. IInv'
  BY <1>7, IInvFromFacts, PTL
<1> QED
  BY <1>4, <1>8

(* A reset object is as good as a new one, whatever its buffer holds.      *)
LEMMA ResetIInv ==
  ASSUME IInv, Reset
  PROVE  IInv'
<1>1. digest \in Digests /\ panicked \in BOOLEAN /\ buffer \in FixedBuffer(digest.block)
  BY IInvFacts
<1>2. /\ length_bits' = NoBits(digest) /\ buffer' = Emptied(buffer)
      /\ state' = InitialState(digest) /\ finished' = FALSE /\ message' = <<>>
      /\ digest' = digest /\ panicked' = panicked
  BY DEF Reset
<1>3. digest.block \in Nat \ {0}
  BY <1>1, DigestFacts
<1>4. buffer' \in FixedBuffer(digest.block) /\ buffer'.idx = 0 /\ Used(buffer') = <<>>
  BY <1>1, <1>2, <1>3, EmptiedLemma
<1>5. /\ NoBits(digest) \in CountType(digest)
      /\ CountOf(digest, NoBits(digest)) = Len(<<>>) * BITS
      /\ InitialState(digest) \in [iv : {digest.iv}, blocks : Seq(Block(digest.block))]
      /\ InitialState(digest).blocks = Blocks(<<>>, digest.block)
      /\ Rest(<<>>, digest.block) = <<>>
  BY <1>1, FreshLemma
<1>6. /\ (digest \in Digests)' /\ (message \in Seq(Bytes))'
      /\ (finished \in BOOLEAN)' /\ (panicked \in BOOLEAN)'
      /\ (length_bits \in CountType(digest))'
      /\ (CountOf(digest, length_bits) = Len(message) * BITS)'
      /\ (buffer \in FixedBuffer(digest.block))' /\ (buffer.idx < digest.block)'
      /\ (state \in [iv : {digest.iv}, blocks : Seq(Block(digest.block))])'
      /\ (~finished => /\ state.blocks = Blocks(message, digest.block)
                       /\ Used(buffer) = Rest(message, digest.block))'
      /\ (~finished)'
  <2>1. buffer'.idx < digest.block
    BY <1>3, <1>4
  <2>2. <<>> \in Seq(Bytes)
    OBVIOUS
  <2> QED
    BY <1>1, <1>2, <1>4, <1>5, <2>1, <2>2 DEF CountType, CountOf, Used
<1> QED
  BY <1>6, IInvFromFacts, PTL

(* Every step preserves the invariant.                                     *)
LEMMA NextIInv == IInv /\ [Next]_vars => IInv'
<1> SUFFICES ASSUME IInv, [Next]_vars
             PROVE  IInv'
  OBVIOUS
<1>1. CASE Input
  BY <1>1, InputIInv
<1>2. CASE InputPanics
  <2>1. panicked' = TRUE
    BY <1>2 DEF InputPanics
  <2>2. UNCHANGED <<digest, length_bits, buffer, state, finished, message, out>>
    BY <1>2 DEF InputPanics
  <2> QED
    BY <2>1, <2>2 DEF IInv, TypeOK, Consumed, Answered, Truncated, Abstract!Digest
<1>3. CASE Result
  BY <1>3, ResultIInv
<1>4. CASE Reset
  BY <1>4, ResetIInv
<1>5. CASE UNCHANGED vars
  BY <1>5 DEF vars, IInv, TypeOK, Consumed, Answered, Truncated, Abstract!Digest
<1> QED
  BY <1>1, <1>2, <1>3, <1>4, <1>5 DEF Next

(* The inductive invariant holds of every reachable state.                 *)
THEOREM Invariant == Spec => []IInv
BY InitIInv, NextIInv, PTL DEF Spec

(* Every field keeps its type; between two calls the buffer is never full, *)
(* on which next(1) in standard_padding relies (cryptoutil.rs:496).        *)
THEOREM TypeCorrect == Spec => []TypeOK
<1>1. IInv => TypeOK
  BY DEF IInv
<1> QED
  BY <1>1, Invariant, PTL

(* The buffer, the blocks compressed and the count are the message: no cut *)
(* of it into inputs loses, repeats or reorders a byte, and no carry of    *)
(* the count is lost (cryptoutil.rs:283-405).                              *)
THEOREM InputsConsumed == Spec => []Consumed
<1>1. IInv => Consumed
  BY DEF IInv
<1> QED
  BY <1>1, Invariant, PTL

(* After a result the chaining value is that of the padded message, and    *)
(* what was answered is its digest (sha2.rs: finish and result).           *)
THEOREM DigestAnswered == Spec => []Answered
<1>1. IInv => Answered
  BY DEF IInv
<1> QED
  BY <1>1, Invariant, PTL

(* Until a reset, every result is the same ("may be called multiple        *)
(* times", digest.rs:29).                                                  *)
THEOREM SameResult == Spec => ResultStays
<1>1. IInv /\ IInv' /\ [Next]_vars =>
        [finished /\ finished' => out' = out /\ state' = state]_vars
  <2> SUFFICES ASSUME IInv, [Next]_vars, finished, finished'
               PROVE  out' = out /\ state' = state
    OBVIOUS
  <2>1. CASE Input
    BY <2>1 DEF Input
  <2>2. CASE InputPanics
    BY <2>2 DEF InputPanics
  <2>3. CASE Result
    <3>1. state' = state /\ out' = {Abstract!Digest(digest, message)}
      BY <2>3, ResultIInv DEF Result
    <3>2. out = {Abstract!Digest(digest, message)}
      BY IInvFacts
    <3> QED
      BY <3>1, <3>2
  <2>4. CASE Reset
    BY <2>4 DEF Reset
  <2>5. CASE UNCHANGED vars
    BY <2>5 DEF vars
  <2> QED
    BY <2>1, <2>2, <2>3, <2>4, <2>5 DEF Next
<1> QED
  BY <1>1, Invariant, PTL DEF Spec, ResultStays

-----------------------------------------------------------------------------
(* Which step of the promise each call is.                                 *)

(* The bits that n more bytes would make fit the length field exactly if   *)
(* the count does not overflow.                                            *)
LEMMA Fits ==
  ASSUME IInv, NEW n \in Nat
  PROVE  AddBytes(length_bits, n) = {}
           <=> ~((Len(message) + n) * BITS < Abstract!Capacity(digest))
<1> DEFINE m == Len(message) sums == AddBytes(length_bits, n)
<1>1. /\ digest \in Digests /\ length_bits \in CountType(digest)
      /\ CountOf(digest, length_bits) = m * BITS /\ m \in Nat
  BY IInvFacts, LenProperties
<1>2. sums = IF digest.wide THEN add_bytes_to_bits_tuple(length_bits, n, digest.word)
             ELSE add_bytes_to_bits(length_bits, n, digest.word)
  BY DEF AddBytes
<1> HIDE DEF m, sums
<1>3. sums = {} <=> ~((m + n) * BITS < Abstract!Capacity(digest))
  BY <1>1, <1>2, CountLemma
<1> QED
  BY <1>3 DEF m, sums

(* An input that succeeds is one the promise allows.                       *)
LEMMA InputRefines ==
  ASSUME IInv, Input
  PROVE  Abstract!AddInput
<1>1. PICK data \in Given :
        length_bits' \in AddBytes(length_bits, Len(data)) /\ message' = message \o data
  BY DEF Input
<1>2. /\ ~panicked /\ ~finished
      /\ UNCHANGED <<digest, finished, panicked, out>>
  BY DEF Input
<1>3. data \in Inputs /\ Len(data) \in Nat
  BY InputsAssumption, LenProperties DEF Given
<1>4. (Len(message) + Len(data)) * BITS < Abstract!Capacity(digest)
  <2>1. AddBytes(length_bits, Len(data)) # {}
    BY <1>1
  <2> QED
    BY <1>3, <2>1, Fits
<1> QED
  BY <1>1, <1>2, <1>3, <1>4 DEF Abstract!AddInput

(* An input panics only after a result or beyond the capacity.             *)
LEMMA PanicRefines ==
  ASSUME IInv, InputPanics
  PROVE  Abstract!AddInput \/ Abstract!InputAfterResult
<1>1. PICK data \in Given : finished \/ AddBytes(length_bits, Len(data)) = {}
  BY DEF InputPanics
<1>2. /\ ~panicked /\ panicked' = TRUE
      /\ UNCHANGED <<digest, length_bits, buffer, state, finished, message, out>>
  BY DEF InputPanics
<1>3. CASE finished
  BY <1>2, <1>3 DEF Abstract!InputAfterResult
<1>4. CASE ~finished
  <2>1. data \in Inputs /\ Len(data) \in Nat
    BY InputsAssumption, LenProperties DEF Given
  <2>2. ~((Len(message) + Len(data)) * BITS < Abstract!Capacity(digest))
    BY <1>1, <1>4, <2>1, Fits
  <2> QED
    BY <1>2, <1>4, <2>1, <2>2 DEF Abstract!AddInput
<1> QED
  BY <1>3, <1>4

(* The result is that of the whole message.                                *)
LEMMA ResultRefines ==
  ASSUME IInv, Result
  PROVE  Abstract!GetResult
<1>1. out' = {Abstract!Digest(digest, message)}
  BY ResultIInv
<1>2. /\ ~panicked /\ finished' = TRUE
      /\ UNCHANGED <<digest, panicked, message>>
  BY DEF Result
<1> QED
  BY <1>1, <1>2 DEF Abstract!GetResult

(* A digest keeps the promise of the trait: its initial states are new     *)
(* objects, and every call is a step of MessageDigest.                     *)
THEOREM KeepsPromise == Spec => RefinesMessageDigest
<1>1. Init => Abstract!DigestInit
  BY DEF Init, Abstract!DigestInit
<1>2. IInv /\ [Next]_vars => [Abstract!DigestNext]_(Abstract!digestVars)
  <2> SUFFICES ASSUME IInv, [Next]_vars
               PROVE  [Abstract!DigestNext]_(Abstract!digestVars)
    OBVIOUS
  <2>1. CASE Input
    BY <2>1, InputRefines DEF Abstract!DigestNext
  <2>2. CASE InputPanics
    BY <2>2, PanicRefines DEF Abstract!DigestNext
  <2>3. CASE Result
    BY <2>3, ResultRefines DEF Abstract!DigestNext
  <2>4. CASE Reset
    <3>1. Abstract!StartOver
      BY <2>4 DEF Reset, Abstract!StartOver
    <3> QED
      BY <3>1 DEF Abstract!DigestNext
  <2>5. CASE UNCHANGED vars
    BY <2>5 DEF vars, Abstract!digestVars
  <2> QED
    BY <2>1, <2>2, <2>3, <2>4, <2>5 DEF Next
<1> QED
  BY <1>1, <1>2, Invariant, PTL DEF Spec, RefinesMessageDigest, Abstract!DigestSpec
=============================================================================
