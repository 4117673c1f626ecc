------------------------------ MODULE DataLemmas ------------------------------
(***************************************************************************)
(* Facts about sequences, remainders and natural numbers that the proofs   *)
(* about several components rest on.                                       *)
(***************************************************************************)
EXTENDS Integers, Sequences, SequenceTheorems, WellFoundedInduction, TLAPS

-----------------------------------------------------------------------------
(* Sequences: adjacent parts, the prefix of a prefix, functions.           *)
LEMMA Adjacent ==
  ASSUME NEW S, NEW s \in Seq(S), NEW p \in Nat, NEW c \in Nat, NEW n \in Nat,
         p + c <= n, n <= Len(s)
  PROVE  SubSeq(s, p + 1, n) = SubSeq(s, p + 1, p + c) \o SubSeq(s, p + c + 1, n)
<1>1. /\ p + 1 \in 1 .. Len(s) + 1
      /\ p + c \in (p + 1) - 1 .. Len(s)
      /\ n \in p + c .. Len(s)
  BY LenProperties
<1> DEFINE m == p + 1 k == p + c
<1>2. m \in 1 .. Len(s) + 1 /\ k \in m - 1 .. Len(s) /\ n \in k .. Len(s)
  BY <1>1
<1> HIDE DEF m, k
<1>3. SubSeq(s, m, k) \o SubSeq(s, k + 1, n) = SubSeq(s, m, n)
  BY <1>2, ConcatAdjacentSubSeq
<1> QED
  BY <1>3 DEF m, k

(* A part of a sequence: its type, its length and its elements.            *)
LEMMA PartProperties ==
  ASSUME NEW S, NEW s \in Seq(S), NEW p \in Nat, NEW c \in Nat, p + c <= Len(s)
  PROVE  /\ SubSeq(s, p + 1, p + c) \in Seq(S)
         /\ Len(SubSeq(s, p + 1, p + c)) = c
         /\ \A i \in 1 .. c : SubSeq(s, p + 1, p + c)[i] = s[p + i]
<1>1. \A i \in p + 1 .. p + c : s[i] \in S
  BY LenProperties
<1> DEFINE m == p + 1 n == p + c
<1>2. m \in Int /\ n \in Int /\ n - m + 1 = c /\ (m <= n <=> c # 0)
  BY DEF m, n
<1>3. \A i \in m .. n : s[i] \in S
  BY <1>1 DEF m, n
<1>4. \A i \in 1 .. c : m + i - 1 = p + i
  BY DEF m
<1> HIDE DEF m, n
<1>5. /\ SubSeq(s, m, n) \in Seq(S)
      /\ Len(SubSeq(s, m, n)) = IF m <= n THEN n - m + 1 ELSE 0
      /\ \A i \in 1 .. n - m + 1 : SubSeq(s, m, n)[i] = s[m + i - 1]
  BY <1>2, <1>3, SubSeqProperties
<1>6. /\ SubSeq(s, m, n) \in Seq(S)
      /\ Len(SubSeq(s, m, n)) = c
      /\ \A i \in 1 .. c : SubSeq(s, m, n)[i] = s[p + i]
  BY <1>2, <1>4, <1>5
<1> QED
  BY <1>6 DEF m, n

(* The same for a prefix.                                                  *)
LEMMA PrefixProperties ==
  ASSUME NEW S, NEW s \in Seq(S), NEW c \in 0 .. Len(s)
  PROVE  /\ SubSeq(s, 1, c) \in Seq(S)
         /\ Len(SubSeq(s, 1, c)) = c
         /\ \A i \in 1 .. c : SubSeq(s, 1, c)[i] = s[i]
<1>1. c \in Nat /\ 0 \in Nat /\ 0 + c <= Len(s) /\ 0 + c = c /\ 0 + 1 = 1
      /\ \A i \in 1 .. c : 0 + i = i
  BY LenProperties
<1>2. /\ SubSeq(s, 0 + 1, 0 + c) \in Seq(S)
      /\ Len(SubSeq(s, 0 + 1, 0 + c)) = c
      /\ \A i \in 1 .. c : SubSeq(s, 0 + 1, 0 + c)[i] = s[0 + i]
  BY <1>1, PartProperties
<1> QED
  BY <1>1, <1>2

(* A prefix of a prefix is a prefix.                                       *)
LEMMA PrefixOfPrefix ==
  ASSUME NEW S, NEW s \in Seq(S), NEW n \in 0 .. Len(s), NEW m \in 0 .. n
  PROVE  SubSeq(SubSeq(s, 1, n), 1, m) = SubSeq(s, 1, m)
<1>1. m \in 0 .. Len(s)
  BY LenProperties
<1> DEFINE t == SubSeq(s, 1, n)
<1>2. t \in Seq(S) /\ Len(t) = n /\ \A i \in 1 .. n : t[i] = s[i]
  BY PrefixProperties
<1> HIDE DEF t
<1>3. /\ SubSeq(t, 1, m) \in Seq(S) /\ Len(SubSeq(t, 1, m)) = m
      /\ \A i \in 1 .. m : SubSeq(t, 1, m)[i] = t[i]
  BY <1>2, PrefixProperties
<1>4. /\ SubSeq(s, 1, m) \in Seq(S) /\ Len(SubSeq(s, 1, m)) = m
      /\ \A i \in 1 .. m : SubSeq(s, 1, m)[i] = s[i]
  BY <1>1, PrefixProperties
<1>5. \A i \in 1 .. m : SubSeq(t, 1, m)[i] = SubSeq(s, 1, m)[i]
  BY <1>2, <1>3, <1>4, LenProperties
<1>6. SubSeq(t, 1, m) = SubSeq(s, 1, m)
  BY <1>3, <1>4, <1>5, SeqEqual
<1> QED
  BY <1>6 DEF t

(* A part of a prefix is a part of the whole.                              *)
LEMMA PartOfPrefix ==
  ASSUME NEW S, NEW s \in Seq(S), NEW n \in 0 .. Len(s),
         NEW p \in Nat, NEW c \in Nat, p + c <= n
  PROVE  SubSeq(SubSeq(s, 1, n), p + 1, p + c) = SubSeq(s, p + 1, p + c)
<1> DEFINE t == SubSeq(s, 1, n)
           u == SubSeq(t, p + 1, p + c)
           v == SubSeq(s, p + 1, p + c)
<1>1. t \in Seq(S) /\ Len(t) = n /\ \A i \in 1 .. n : t[i] = s[i]
  BY PrefixProperties
<1>2. n \in Nat /\ p + c <= Len(s) /\ Len(s) \in Nat
  BY LenProperties
<1>3. /\ v \in Seq(S) /\ Len(v) = c /\ \A i \in 1 .. c : v[i] = s[p + i]
  BY <1>2, PartProperties
<1> HIDE DEF t
<1>4. p + c <= Len(t)
  BY <1>1
<1>5. /\ u \in Seq(S) /\ Len(u) = c /\ \A i \in 1 .. c : u[i] = t[p + i]
  BY <1>1, <1>4, PartProperties
<1>6. \A i \in 1 .. c : p + i \in 1 .. n
  BY <1>2
<1> HIDE DEF u, v
<1>7. \A i \in 1 .. c : u[i] = v[i]
  BY <1>1, <1>3, <1>5, <1>6
<1>8. u = v
  BY <1>3, <1>5, <1>7, SeqEqual
<1> QED
  BY <1>8 DEF t, u, v

(* A part of the second of two joined sequences, and of the first.         *)
LEMMA PartOfRight ==
  ASSUME NEW S, NEW h \in Seq(S), NEW t \in Seq(S), NEW p \in Nat, NEW c \in Nat,
         p + c <= Len(t), NEW n \in Nat, n = Len(h) + p
  PROVE  SubSeq(h \o t, n + 1, n + c) = SubSeq(t, p + 1, p + c)
<1> DEFINE s == h \o t
           u == SubSeq(s, n + 1, n + c)
           v == SubSeq(t, p + 1, p + c)
<1>1. /\ s \in Seq(S) /\ Len(s) = Len(h) + Len(t)
      /\ \A i \in 1 .. Len(h) + Len(t) :
           s[i] = IF i <= Len(h) THEN h[i] ELSE t[i - Len(h)]
  BY ConcatProperties
<1> HIDE DEF s
<1>2. Len(h) \in Nat /\ Len(t) \in Nat /\ n + c <= Len(s)
  BY <1>1, LenProperties
<1>3. u \in Seq(S) /\ Len(u) = c /\ \A i \in 1 .. c : u[i] = s[n + i]
  BY <1>1, <1>2, PartProperties
<1>4. v \in Seq(S) /\ Len(v) = c /\ \A i \in 1 .. c : v[i] = t[p + i]
  BY PartProperties
<1> HIDE DEF u, v
<1>5. \A i \in 1 .. c : s[n + i] = t[p + i]
  <2> TAKE i \in 1 .. c
  <2>1. /\ n + i \in 1 .. Len(h) + Len(t) /\ ~(n + i <= Len(h))
        /\ (n + i) - Len(h) = p + i
    BY <1>2
  <2> QED
    BY <1>1, <2>1
<1>6. u = v
  BY <1>3, <1>4, <1>5, SeqEqual
<1> QED
  BY <1>6 DEF u, v, s

(* A part of the first of two joined sequences.                            *)
LEMMA PartOfLeft ==
  ASSUME NEW S, NEW h \in Seq(S), NEW t \in Seq(S), NEW p \in Nat, NEW c \in Nat,
         p + c <= Len(h)
  PROVE  SubSeq(h \o t, p + 1, p + c) = SubSeq(h, p + 1, p + c)
<1> DEFINE s == h \o t
           u == SubSeq(s, p + 1, p + c)
           v == SubSeq(h, p + 1, p + c)
<1>1. /\ s \in Seq(S) /\ Len(s) = Len(h) + Len(t)
      /\ \A i \in 1 .. Len(h) + Len(t) :
           s[i] = IF i <= Len(h) THEN h[i] ELSE t[i - Len(h)]
  BY ConcatProperties
<1> HIDE DEF s
<1>2. Len(h) \in Nat /\ Len(t) \in Nat /\ p + c <= Len(s)
  BY <1>1, LenProperties
<1>3. u \in Seq(S) /\ Len(u) = c /\ \A i \in 1 .. c : u[i] = s[p + i]
  BY <1>1, <1>2, PartProperties
<1>4. v \in Seq(S) /\ Len(v) = c /\ \A i \in 1 .. c : v[i] = h[p + i]
  BY PartProperties
<1> HIDE DEF u, v
<1>5. \A i \in 1 .. c : s[p + i] = h[p + i]
  <2> TAKE i \in 1 .. c
  <2>1. p + i \in 1 .. Len(h) + Len(t) /\ p + i <= Len(h)
    BY <1>2
  <2> QED
    BY <1>1, <2>1
<1>6. u = v
  BY <1>3, <1>4, <1>5, SeqEqual
<1> QED
  BY <1>6 DEF u, v, s

(* A function over 1 .. n is a sequence of length n.                       *)
LEMMA FunctionIsSeq ==
  ASSUME NEW S, NEW n \in Nat, NEW f \in [1 .. n -> S]
  PROVE  f \in Seq(S) /\ Len(f) = n
BY SeqDef, LenProperties

(* A sequence with its length is a function.                               *)
LEMMA SeqIsFunction ==
  ASSUME NEW S, NEW s \in Seq(S)
  PROVE  s \in [1 .. Len(s) -> S]
BY LenProperties

-----------------------------------------------------------------------------
(* Remainders.                                                             *)
LEMMA ModRange ==
  ASSUME NEW k \in Nat \ {0}, NEW a \in Nat
  PROVE  a % k \in 0 .. (k - 1)
OBVIOUS

(* A number is its quotient and its remainder.                             *)
LEMMA DivMod ==
  ASSUME NEW k \in Nat \ {0}, NEW a \in Nat
  PROVE  a \div k \in Nat /\ a = k * (a \div k) + (a % k)
OBVIOUS

(* Distinct multiples of k are k apart.                                    *)
LEMMA MultipleGap ==
  ASSUME NEW k \in Nat \ {0}, NEW e \in Int, k * e < k, -k < k * e
  PROVE  e = 0
<1>1. ~(e >= 1)
  <2> SUFFICES ASSUME e >= 1 PROVE FALSE
    OBVIOUS
  <2>1. k * e = k + k * (e - 1)
    OBVIOUS
  <2>2. k * (e - 1) >= 0
    OBVIOUS
  <2> QED
    BY <2>1, <2>2
<1>2. ~(e <= -1)
  <2> SUFFICES ASSUME e <= -1 PROVE FALSE
    OBVIOUS
  <2>1. k * e = -k - k * (-1 - e)
    OBVIOUS
  <2>2. k * (-1 - e) >= 0
    OBVIOUS
  <2> QED
    BY <2>1, <2>2
<1> QED
  BY <1>1, <1>2

(* Quotient and remainder are unique.                                      *)
LEMMA DivUnique ==
  ASSUME NEW k \in Nat \ {0}, NEW q \in Int, NEW r \in Nat, r < k,
         NEW a \in Int, a = k * q + r
  PROVE  a \div k = q /\ a % k = r
<1> DEFINE d == a \div k
           s == a % k
<1>1. d \in Int /\ s \in 0 .. (k - 1) /\ a = k * d + s
  OBVIOUS
<1> HIDE DEF d, s
<1>2. k * q \in Int /\ k * d \in Int /\ k * (q - d) = k * q - k * d
  BY <1>1
<1> DEFINE e == q - d
<1>3. e \in Int /\ k * e = s - r
  BY <1>1, <1>2
<1> HIDE DEF e
<1>4. k * e < k /\ -k < k * e
  BY <1>1, <1>3
<1>5. e = 0
  BY <1>3, <1>4, MultipleGap
<1>6. d = q /\ s = r
  BY <1>1, <1>3, <1>5 DEF e
<1> QED
  BY <1>6 DEF d, s

(* The same for a natural number.                                          *)
LEMMA ModUnique ==
  ASSUME NEW k \in Nat \ {0}, NEW q \in Nat, NEW r \in Nat, r < k,
         NEW a \in Nat, a = k * q + r
  PROVE  a % k = r
BY DivUnique

(* Remainders may be taken before adding.                                  *)
LEMMA ModAdd ==
  ASSUME NEW k \in Nat \ {0}, NEW a \in Nat, NEW b \in Nat
  PROVE  ((a % k) + b) % k = (a + b) % k
<1> DEFINE q == a \div k
           c == (a % k) + b
           d == c \div k
           r == c % k
<1>1. q \in Nat /\ a = k * q + (a % k) /\ (a % k) \in Nat /\ c \in Nat
  BY DivMod, ModRange
<1>2. d \in Nat /\ c = k * d + r /\ r \in Nat /\ r < k
  BY <1>1, DivMod, ModRange
<1>3. a + b = k * q + c
  BY <1>1
<1> HIDE DEF q, c, d, r
<1>4. k * (q + d) = k * q + k * d /\ k * q \in Int /\ k * d \in Int
  BY <1>1, <1>2
<1>5. a + b = k * (q + d) + r
  BY <1>2, <1>3, <1>4
<1>6. (a + b) % k = r
  <2> DEFINE e == q + d
             n == a + b
  <2>1. e \in Nat /\ n \in Nat /\ n = k * e + r
    BY <1>1, <1>2, <1>5
  <2> HIDE DEF e, n
  <2>2. n % k = r
    BY <1>2, <2>1, ModUnique
  <2> QED
    BY <2>2 DEF n
<1> QED
  BY <1>6 DEF r, c

-----------------------------------------------------------------------------
(* The least number of a set: induction over the naturals, as the absence  *)
(* of a least counterexample.                                              *)
LEMMA LeastNumber ==
  ASSUME NEW T, T \subseteq Nat, T # {}
  PROVE  \E n \in T : \A m \in T : n <= m
<1> DEFINE R == OpToRel(<, Nat)
<1>1. IsWellFoundedOn(R, Nat)
  BY NatLessThanWellFounded
<1> HIDE DEF R
<1>2. PICK x \in T : \A y \in T : ~ (<<y, x>> \in R)
  BY <1>1, WFMin
<1>3. \A y \in T : ~(y < x)
  BY <1>2 DEF R, OpToRel
<1> QED
  BY <1>2, <1>3

(* Its usual form: what holds of 0, and of n + 1 whenever it holds of n,   *)
(* holds of every natural number.                                          *)
LEMMA Induction ==
  ASSUME NEW T, T \subseteq Nat, 0 \in T, \A n \in T : n + 1 \in T
  PROVE  T = Nat
<1> SUFFICES ASSUME Nat \ T # {}
             PROVE  FALSE
  OBVIOUS
<1>1. PICK x \in Nat \ T : \A y \in Nat \ T : x <= y
  <2> DEFINE U == Nat \ T
  <2>1. U \subseteq Nat /\ U # {}
    OBVIOUS
  <2> HIDE DEF U
  <2>2. \E x \in U : \A y \in U : x <= y
    BY <2>1, LeastNumber
  <2> QED
    BY <2>2 DEF U
<1>2. x # 0 /\ x - 1 \in Nat /\ x - 1 \in T
  BY <1>1
<1>3. (x - 1) + 1 = x
  BY <1>1
<1> QED
  BY <1>1, <1>2, <1>3

(* Dividing twice is dividing by the product.                              *)
LEMMA DivDiv ==
  ASSUME NEW a \in Nat, NEW b \in Nat \ {0}, NEW c \in Nat \ {0}
  PROVE  (a \div b) \div c = a \div (b * c)
<1> DEFINE p == a \div b
           r == a % b
           q == p \div c
           t == p % c
<1>1. p \in Nat /\ r \in 0 .. (b - 1) /\ a = b * p + r
  BY DivMod, ModRange
<1>2. q \in Nat /\ t \in 0 .. (c - 1) /\ p = c * q + t
  BY <1>1, DivMod, ModRange
<1> HIDE DEF p, r, q, t
<1> DEFINE m == b * c
           u == b * t + r
<1>3. b * p = b * (c * q) + b * t
  BY <1>1, <1>2
<1>4. b * (c * q) = (b * c) * q
  BY <1>2
<1>5. b * t <= b * (c - 1)
  BY <1>2
<1>6. b * (c - 1) = b * c - b
  OBVIOUS
<1>7. b * t \in Nat /\ b * c \in Nat /\ (b * c) * q \in Nat
  BY <1>2
<1>8. m \in Nat \ {0} /\ u \in Nat /\ u < m /\ a = m * q + u
  BY <1>1, <1>2, <1>3, <1>4, <1>5, <1>6, <1>7
<1> HIDE DEF m, u
<1>9. a \div m = q
  BY <1>2, <1>8, DivUnique
<1> QED
  BY <1>9 DEF p, q, m

(* Multiples of b do not show in the remainder.                            *)
LEMMA ModMultiple ==
  ASSUME NEW b \in Nat \ {0}, NEW k \in Nat, NEW a \in Nat
  PROVE  (b * k + a) % b = a % b
<1> DEFINE p == a \div b
           r == a % b
           n == b * k + a
           q == k + p
<1>1. p \in Nat /\ r \in 0 .. (b - 1) /\ a = b * p + r
  BY DivMod, ModRange
<1>2. b * k \in Nat /\ n \in Nat
  OBVIOUS
<1> HIDE DEF p, r
<1>3. b * q = b * k + b * p
  BY <1>1
<1>4. q \in Int /\ b * p \in Nat /\ n = b * q + r
  BY <1>1, <1>2, <1>3
<1> HIDE DEF n, q
<1>5. n % b = r
  BY <1>1, <1>2, <1>4, DivUnique
<1> QED
  BY <1>5 DEF n, r

(* z fills a up to a multiple of b.                                        *)
LEMMA ModNegative ==
  ASSUME NEW b \in Nat \ {0}, NEW a \in Nat, NEW z \in 0 .. (b - 1), NEW k \in Nat,
         a + z = b * k
  PROVE  (- a) % b = z
<1> DEFINE n == - a
           q == - k
<1>1. b * q = - (b * k) /\ b * k \in Int
  OBVIOUS
<1>2. n \in Int /\ q \in Int /\ n = b * q + z /\ z \in Nat /\ z < b
  BY <1>1
<1> HIDE DEF n, q
<1>3. n % b = z
  BY <1>2, DivUnique
<1> QED
  BY <1>3 DEF n

(* A pair of digits is less than w * w as long as the first is less.       *)
LEMMA PairBound ==
  ASSUME NEW w \in Nat \ {0}, NEW h \in Nat, NEW l \in 0 .. (w - 1)
  PROVE  h * w + l < w * w <=> h < w
<1>1. ASSUME h < w
      PROVE  h * w + l < w * w
  <2>1. h * w <= (w - 1) * w
    BY <1>1
  <2>2. (w - 1) * w = w * w - w
    OBVIOUS
  <2>3. h * w \in Int /\ w * w \in Int
    OBVIOUS
  <2> QED
    BY <2>1, <2>2, <2>3
<1>2. ASSUME w <= h
      PROVE  w * w <= h * w + l
  <2>1. w * w <= h * w /\ h * w \in Int /\ w * w \in Int
    BY <1>2
  <2> QED
    BY <2>1
<1>3. h * w + l \in Int /\ w * w \in Int
  OBVIOUS
<1> QED
  BY <1>1, <1>2, <1>3
=============================================================================
