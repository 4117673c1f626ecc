--------------------------- MODULE Sha2Blocks_proofs ---------------------------
(***************************************************************************)
(* The compression functions of sha2.rs are the scalar rounds of SHA-2 for *)
(* every message, initial value and choice of constants.                   *)
(***************************************************************************)
EXTENDS Sha2Blocks, DataLemmas

-----------------------------------------------------------------------------
(* Sums of words.  The carries are those of a ripple-carry adder.          *)
C(x, y, i) == carry(x \cap y, x \cup y, i)

(* No carry goes into the first bit of a sum.                              *)
LEMMA NoFirstCarry ==
  ASSUME NEW x, NEW y, x \subseteq Nat
  PROVE  ~C(x, y, 0)
BY DEF C, carry

(* A bit of two words and the carry into it give the carry out of it.      *)
LEMMA NextCarry ==
  ASSUME NEW x, NEW y, x \subseteq Nat, y \subseteq Nat, NEW i \in Nat
  PROVE  C(x, y, i + 1) <=> \/ i \in x /\ i \in y
                            \/ (i \in x \/ i \in y) /\ C(x, y, i)
<1> DEFINE both == x \cap y either == x \cup y
<1>1. \A j \in both : j \in Nat /\ j \in either
  OBVIOUS
<1>2. ASSUME NEW j \in both, j < i + 1, \A k \in (j + 1) .. ((i + 1) - 1) : k \in either
      PROVE  i \in both \/ (i \in either /\ carry(both, either, i))
  <2>1. j \in Nat
    BY <1>1
  <2>2. CASE j = i
    BY <2>2
  <2>3. CASE j < i
    <3>1. i \in (j + 1) .. ((i + 1) - 1)
      BY <2>1, <2>3
    <3>2. \A k \in (j + 1) .. (i - 1) : k \in (j + 1) .. ((i + 1) - 1)
      BY <2>1
    <3> QED
      BY <1>2, <2>3, <3>1, <3>2 DEF carry
  <2> QED
    BY <1>2, <2>1, <2>2, <2>3
<1>3. ASSUME i \in both
      PROVE  carry(both, either, i + 1)
  <2>1. i < i + 1 /\ (i + 1) .. ((i + 1) - 1) = {}
    OBVIOUS
  <2> QED
    BY <1>3, <2>1 DEF carry
<1>4. ASSUME i \in either, NEW j \in both, j < i,
             \A k \in (j + 1) .. (i - 1) : k \in either
      PROVE  carry(both, either, i + 1)
  <2>1. j \in Nat
    BY <1>1
  <2>2. ASSUME NEW k \in (j + 1) .. ((i + 1) - 1)
        PROVE  k \in either
    <3>1. k = i \/ k \in (j + 1) .. (i - 1)
      BY <2>1
    <3> QED
      BY <1>4, <3>1
  <2>3. j < i + 1
    BY <1>4, <2>1
  <2> QED
    BY <2>2, <2>3 DEF carry
<1>5. carry(both, either, i + 1) => i \in both \/ (i \in either /\ carry(both, either, i))
  BY <1>2 DEF carry
<1>6. i \in either /\ carry(both, either, i) => carry(both, either, i + 1)
  BY <1>4 DEF carry
<1> QED
  BY <1>3, <1>5, <1>6 DEF C

(* The bits of a sum.                                                      *)
LEMMA SumBits ==
  ASSUME NEW n \in Nat, NEW x, NEW y
  PROVE  /\ wrapping_add(x, y, n) \in Word(n)
         /\ \A i \in Bits(n) : i \in wrapping_add(x, y, n) <=>
              ((i \in x) <=> ((i \in y) <=> C(x, y, i)))
<1>1. wrapping_add(x, y, n)
        = { i \in Bits(n) : (i \in x) # ((i \in y) # C(x, y, i)) }
  BY DEF wrapping_add, C
<1>2. \A i : C(x, y, i) \in BOOLEAN
  BY DEF C, carry
<1>3. \A i : ((i \in x) # ((i \in y) # C(x, y, i)))
              <=> ((i \in x) <=> ((i \in y) <=> C(x, y, i)))
  BY <1>2
<1> QED
  BY <1>1, <1>3 DEF Word

(* The order of the summands does not matter.                              *)
LEMMA AddComm ==
  ASSUME NEW n \in Nat, NEW x, NEW y
  PROVE  wrapping_add(x, y, n) = wrapping_add(y, x, n)
<1>1. x \cap y = y \cap x /\ x \cup y = y \cup x
  OBVIOUS
<1>2. \A i : C(x, y, i) <=> C(y, x, i)
  BY <1>1 DEF C
<1>3. \A i \in Bits(n) : i \in wrapping_add(x, y, n) <=> i \in wrapping_add(y, x, n)
  BY <1>2, SumBits
<1> QED
  BY <1>3, SumBits DEF Word

(* Nor does the order of the sums: as many carries go into each bit.       *)
LEMMA AddAssoc ==
  ASSUME NEW n \in Nat, NEW x \in Word(n), NEW y \in Word(n), NEW z \in Word(n)
  PROVE  wrapping_add(wrapping_add(x, y, n), z, n)
           = wrapping_add(x, wrapping_add(y, z, n), n)
<1> DEFINE s == wrapping_add(x, y, n) t == wrapping_add(y, z, n)
           Same(i) == /\ (C(x, y, i) <=> C(s, z, i)) <=> (C(y, z, i) <=> C(x, t, i))
                      /\ C(x, y, i) /\ C(s, z, i) <=> C(y, z, i) /\ C(x, t, i)
           T == { i \in Nat : i <= n => Same(i) }
<1>1. /\ s \in Word(n) /\ t \in Word(n)
      /\ \A i \in Bits(n) : i \in s <=> ((i \in x) <=> ((i \in y) <=> C(x, y, i)))
      /\ \A i \in Bits(n) : i \in t <=> ((i \in y) <=> ((i \in z) <=> C(y, z, i)))
  BY SumBits
<1>2. \A i \in Bits(n) :
        /\ i \in wrapping_add(s, z, n) <=> ((i \in s) <=> ((i \in z) <=> C(s, z, i)))
        /\ i \in wrapping_add(x, t, n) <=> ((i \in x) <=> ((i \in t) <=> C(x, t, i)))
  BY SumBits
<1>3. wrapping_add(s, z, n) \in Word(n) /\ wrapping_add(x, t, n) \in Word(n)
  BY SumBits
<1> HIDE DEF s, t
<1>4. /\ x \subseteq Nat /\ y \subseteq Nat /\ z \subseteq Nat
      /\ s \subseteq Nat /\ t \subseteq Nat
  BY <1>1 DEF Word, Bits
<1>5. 0 \in T
  BY <1>4, NoFirstCarry
<1>6. ASSUME NEW i \in T
      PROVE  i + 1 \in T
  <2>1. i \in Nat
    OBVIOUS
  <2> SUFFICES ASSUME i + 1 <= n
               PROVE  Same(i + 1)
    BY <2>1
  <2>2. i \in Bits(n) /\ Same(i)
    BY <2>1 DEF Bits
  <2>3. /\ C(x, y, i + 1) <=> (i \in x /\ i \in y) \/ ((i \in x \/ i \in y) /\ C(x, y, i))
        /\ C(s, z, i + 1) <=> (i \in s /\ i \in z) \/ ((i \in s \/ i \in z) /\ C(s, z, i))
        /\ C(y, z, i + 1) <=> (i \in y /\ i \in z) \/ ((i \in y \/ i \in z) /\ C(y, z, i))
        /\ C(x, t, i + 1) <=> (i \in x /\ i \in t) \/ ((i \in x \/ i \in t) /\ C(x, t, i))
    BY <1>4, <2>1, NextCarry
  <2>4. /\ i \in s <=> ((i \in x) <=> ((i \in y) <=> C(x, y, i)))
        /\ i \in t <=> ((i \in y) <=> ((i \in z) <=> C(y, z, i)))
    BY <1>1, <2>2
  <2> QED
    BY <2>2, <2>3, <2>4
<1>7. T = Nat
  <2>1. T \subseteq Nat
    OBVIOUS
  <2> HIDE DEF T
  <2> QED
    BY <1>5, <1>6, <2>1, Induction
<1>8. ASSUME NEW i \in Bits(n)
      PROVE  i \in wrapping_add(s, z, n) <=> i \in wrapping_add(x, t, n)
  <2>1. Same(i)
    <3>1. i \in Nat /\ i <= n
      BY DEF Bits
    <3> QED
      BY <1>7, <3>1
  <2> QED
    BY <1>1, <1>2, <2>1
<1> QED
  BY <1>3, <1>8 DEF s, t, Word

-----------------------------------------------------------------------------
(* The operators of the two forms.  A rotation is two shifts; `choose' and *)
(* `majority' are what bool3ary_202 and bool3ary_232 compute.              *)
LEMMA Rotated ==
  ASSUME NEW n \in Nat, NEW k \in 1 .. (n - 1), NEW x \in Word(n)
  PROVE  /\ rotate_right(x, k, n) = shr(x, k, n) \cup shl(x, n - k, n)
         /\ rotate_right(x, k, n) = shl(x, n - k, n) \cup shr(x, k, n)
<1>1. ASSUME NEW i \in Bits(n)
      PROVE  (i + k) % n \in x <=> i + k \in x \/ i - (n - k) \in x
  <2>1. i \in 0 .. (n - 1) /\ k \in 1 .. (n - 1) /\ n \in Nat \ {0}
    BY DEF Bits
  <2>2. \A j \in x : j \in 0 .. (n - 1)
    BY DEF Word, Bits
  <2>3. CASE i + k < n
    <3>1. (i + k) % n = i + k /\ ~(i - (n - k) \in x)
      <4>1. i + k \in Nat /\ i + k = n * 0 + (i + k) /\ i - (n - k) < 0
        BY <2>1, <2>3
      <4> QED
        BY <2>1, <2>2, <2>3, <4>1, ModUnique
    <3> QED
      BY <3>1
  <2>4. CASE ~(i + k < n)
    <3>1. (i + k) % n = i - (n - k) /\ ~(i + k \in x)
      <4>1. /\ i - (n - k) \in Nat /\ i - (n - k) < n
            /\ i + k = n * 1 + (i - (n - k)) /\ i + k >= n
        BY <2>1, <2>4
      <4> QED
        BY <2>1, <2>2, <4>1, ModUnique
    <3> QED
      BY <3>1
  <2> QED
    BY <2>3, <2>4
<1> QED
  BY <1>1 DEF rotate_right, shr, shl

(* The operators of Sha2Rounds are those of Words, and give words.         *)
LEMMA SameOperators ==
  ASSUME NEW n, NEW x, NEW y, NEW k
  PROVE  /\ Scalar!wrapping_add(x, y, n) = wrapping_add(x, y, n)
         /\ Scalar!rotate_right(x, k, n) = rotate_right(x, k, n)
         /\ Scalar!shr(x, k, n) = shr(x, k, n)
         /\ Scalar!Xor(x, y) = Xor(x, y)
         /\ Scalar!read_be(x, n) = read_be(x, n)
BY DEF Scalar!wrapping_add, Scalar!rotate_right, Scalar!shr, Scalar!Xor,
       Scalar!read_be, Scalar!carry, Scalar!Bits, wrapping_add, rotate_right, shr,
       Xor, read_be, carry, Bits

(* Two rotations and a shift.                                              *)
RotShift(x, p, q, s, n) ==
  Xor(Xor(rotate_right(x, p, n), rotate_right(x, q, n)), shr(x, s, n))

(* The sigma functions with their distances.                               *)
LEMMA Distances ==
  ASSUME NEW x, NEW p, NEW q, NEW r, NEW n
  PROVE  /\ Scalar!Rotations(x, << p, q, r >>, n) = Sigma(x, p, q, r, n)
         /\ Scalar!RotationsAndShift(x, << p, q, r >>, n) = RotShift(x, p, q, r, n)
<1> DEFINE t == << p, q, r >>
<1>1. t[1] = p /\ t[2] = q /\ t[3] = r
  OBVIOUS
<1> HIDE DEF t
<1>2. Scalar!Rotations(x, t, n)
        = Xor(Xor(rotate_right(x, t[1], n), rotate_right(x, t[2], n)),
              rotate_right(x, t[3], n))
  BY Zenon DEF Scalar!Rotations, Scalar!Xor, Scalar!rotate_right, Scalar!Bits,
               Xor, rotate_right, Bits
<1>3. Scalar!RotationsAndShift(x, t, n)
        = Xor(Xor(rotate_right(x, t[1], n), rotate_right(x, t[2], n)),
              shr(x, t[3], n))
  BY Zenon DEF Scalar!RotationsAndShift, Scalar!Xor, Scalar!rotate_right, Scalar!shr,
               Scalar!Bits, Xor, rotate_right, shr, Bits
<1>4. Scalar!Rotations(x, t, n) = Sigma(x, p, q, r, n)
  BY <1>1, <1>2, Zenon DEF Sigma
<1>5. Scalar!RotationsAndShift(x, t, n) = RotShift(x, p, q, r, n)
  BY <1>1, <1>3, Zenon DEF RotShift
<1> QED
  BY <1>4, <1>5 DEF t

(* The sigma functions of the two word sizes.                              *)
LEMMA SigmaForms ==
  ASSUME NEW x
  PROVE  /\ Scalar!sigma0(x, 32) = RotShift(x, 7, 18, 3, 32)
         /\ Scalar!sigma1(x, 32) = RotShift(x, 17, 19, 10, 32)
         /\ Scalar!big_sigma0(x, 32) = Sigma(x, 2, 13, 22, 32)
         /\ Scalar!big_sigma1(x, 32) = Sigma(x, 6, 11, 25, 32)
         /\ Scalar!sigma0(x, 64) = RotShift(x, 1, 8, 7, 64)
         /\ Scalar!sigma1(x, 64) = RotShift(x, 19, 61, 6, 64)
         /\ Scalar!big_sigma0(x, 64) = Sigma(x, 28, 34, 39, 64)
         /\ Scalar!big_sigma1(x, 64) = Sigma(x, 14, 18, 41, 64)
<1>0. 64 # 32
  OBVIOUS
<1>1. /\ Scalar!sigma0(x, 32) = Scalar!RotationsAndShift(x, <<7, 18, 3>>, 32)
      /\ Scalar!sigma0(x, 64) = Scalar!RotationsAndShift(x, <<1, 8, 7>>, 64)
  BY <1>0, Zenon DEF Scalar!sigma0
<1>2. /\ Scalar!sigma1(x, 32) = Scalar!RotationsAndShift(x, <<17, 19, 10>>, 32)
      /\ Scalar!sigma1(x, 64) = Scalar!RotationsAndShift(x, <<19, 61, 6>>, 64)
  BY <1>0, Zenon DEF Scalar!sigma1
<1>3. /\ Scalar!big_sigma0(x, 32) = Scalar!Rotations(x, <<2, 13, 22>>, 32)
      /\ Scalar!big_sigma0(x, 64) = Scalar!Rotations(x, <<28, 34, 39>>, 64)
  BY <1>0, Zenon DEF Scalar!big_sigma0
<1>4. /\ Scalar!big_sigma1(x, 32) = Scalar!Rotations(x, <<6, 11, 25>>, 32)
      /\ Scalar!big_sigma1(x, 64) = Scalar!Rotations(x, <<14, 18, 41>>, 64)
  BY <1>0, Zenon DEF Scalar!big_sigma1
<1>5. ASSUME NEW p, NEW q, NEW r, NEW n
      PROVE  /\ Scalar!Rotations(x, << p, q, r >>, n) = Sigma(x, p, q, r, n)
             /\ Scalar!RotationsAndShift(x, << p, q, r >>, n) = RotShift(x, p, q, r, n)
  BY Distances
<1> QED
  BY <1>1, <1>2, <1>3, <1>4, <1>5

(* They give words.                                                        *)
LEMMA SigmaWords ==
  ASSUME NEW n, NEW x, NEW p, NEW q, NEW r
  PROVE  Sigma(x, p, q, r, n) \in Word(n) /\ RotShift(x, p, q, r, n) \in Word(n)
<1>1. \A k : rotate_right(x, k, n) \in Word(n) /\ shr(x, k, n) \in Word(n)
  BY DEF rotate_right, shr, Word
<1>2. \A y, z \in Word(n) : Xor(y, z) \in Word(n)
  BY DEF Xor, Word
<1> QED
  BY <1>1, <1>2, Zenon DEF Sigma, RotShift

(* A word of the schedule from four earlier ones.                          *)
NextWord(w14, w9, w1, w0, n) ==
  wrapping_add(
    wrapping_add(wrapping_add(Scalar!sigma1(w14, n), w9, n), Scalar!sigma0(w1, n), n),
    w0, n)

(* The word that follows m words of the schedule.                          *)
LEMMA ScheduleWordIs ==
  ASSUME NEW n, NEW words, NEW m \in Nat, Len(words) = m
  PROVE  Scalar!ScheduleWord(words, n)
           = NextWord(words[m - 1], words[m - 6], words[m - 14], words[m - 15], n)
<1> DEFINE t == m + 1
<1>1. t - 2 = m - 1 /\ t - 7 = m - 6 /\ t - 15 = m - 14 /\ t - 16 = m - 15
  OBVIOUS
<1>2. t = Len(words) + 1
  OBVIOUS
<1> HIDE DEF t
<1>3. Scalar!ScheduleWord(words, n)
        = NextWord(words[t - 2], words[t - 7], words[t - 15], words[t - 16], n)
  BY <1>2, SameOperators, ZenonT(60) DEF Scalar!ScheduleWord, NextWord
<1> QED
  BY <1>1, <1>3, Zenon

(* Four words may be added in the opposite order.                          *)
LEMMA Reorder ==
  ASSUME NEW n \in Nat, NEW a \in Word(n), NEW b \in Word(n), NEW c \in Word(n),
         NEW d \in Word(n)
  PROVE  wrapping_add(wrapping_add(wrapping_add(d, c, n), b, n), a, n)
           = wrapping_add(wrapping_add(wrapping_add(a, b, n), c, n), d, n)
<1>1. wrapping_add(d, c, n) \in Word(n) /\ wrapping_add(a, b, n) \in Word(n)
  BY SumBits
<1>2. wrapping_add(wrapping_add(wrapping_add(d, c, n), b, n), a, n)
        = wrapping_add(wrapping_add(d, c, n), wrapping_add(b, a, n), n)
  BY <1>1, AddAssoc
<1>3. wrapping_add(d, c, n) = wrapping_add(c, d, n)
      /\ wrapping_add(b, a, n) = wrapping_add(a, b, n)
  BY AddComm
<1>4. wrapping_add(wrapping_add(c, d, n), wrapping_add(a, b, n), n)
        = wrapping_add(wrapping_add(a, b, n), wrapping_add(c, d, n), n)
  BY AddComm
<1>5. wrapping_add(wrapping_add(a, b, n), wrapping_add(c, d, n), n)
        = wrapping_add(wrapping_add(wrapping_add(a, b, n), c, n), d, n)
  BY <1>1, AddAssoc
<1> QED
  BY <1>2, <1>3, <1>4, <1>5

(* sha256msg1 and sha256load, lane by lane.                                *)
LEMMA Message1 ==
  ASSUME NEW v0 \in [1 .. 4 -> Word(32)], NEW v1 \in [1 .. 4 -> Word(32)],
         NEW v2 \in [1 .. 4 -> Word(32)], NEW v3 \in [1 .. 4 -> Word(32)]
  PROVE  LET S0(x) == RotShift(x, 7, 18, 3, 32)
             sum(d, c, b) == wrapping_add(wrapping_add(d, c, 32), b, 32)
         IN Add(sha256msg1(v0, v1), sha256load(v2, v3), 32)
              = << sum(v0[1], S0(v1[4]), v3[4]), sum(v0[2], S0(v0[1]), v2[1]),
                   sum(v0[3], S0(v0[2]), v2[2]), sum(v0[4], S0(v0[3]), v2[3]) >>
<1> DEFINE S0(x) == RotShift(x, 7, 18, 3, 32)
           u == sha256load(v0, v1) l == sha256load(v2, v3)
           m == sha256msg1(v0, v1)
           add(x, y) == wrapping_add(x, y, 32)
<1>1. /\ u = << v1[4], v0[1], v0[2], v0[3] >> /\ l = << v3[4], v2[1], v2[2], v2[3] >>
  BY DEF sha256load
<1>2. ASSUME NEW x \in Word(32)
      PROVE  Xor(Xor(shr(x, 7, 32) \cup shl(x, 25, 32),
                     shr(x, 18, 32) \cup shl(x, 14, 32)), shr(x, 3, 32)) = S0(x)
  <2>1. /\ rotate_right(x, 7, 32) = shr(x, 7, 32) \cup shl(x, 32 - 7, 32)
        /\ rotate_right(x, 18, 32) = shr(x, 18, 32) \cup shl(x, 32 - 18, 32)
    BY Rotated
  <2>2. 32 - 7 = 25 /\ 32 - 18 = 14
    OBVIOUS
  <2> QED
    BY <2>1, <2>2 DEF RotShift
<1>3. /\ u[1] = v1[4] /\ u[2] = v0[1] /\ u[3] = v0[2] /\ u[4] = v0[3]
      /\ l[1] = v3[4] /\ l[2] = v2[1] /\ l[3] = v2[2] /\ l[4] = v2[3]
      /\ \A i \in 1 .. 4 : v0[i] \in Word(32) /\ v1[i] \in Word(32)
  BY <1>1
<1> HIDE DEF u, l, S0, add
<1>4. \A i \in 1 .. 4 : u[i] \in Word(32)
  BY <1>3
<1>5. sigma0x4(u) = [i \in 1 .. 4 |-> S0(u[i])]
  BY <1>2, <1>4 DEF sigma0x4
<1>6. m = [i \in 1 .. 4 |-> add(v0[i], S0(u[i]))]
  <2>1. m = [i \in DOMAIN v0 |-> add(v0[i], sigma0x4(u)[i])]
    BY Zenon DEF sha256msg1, Add, u, m, add
  <2> QED
    BY <1>5, <2>1
<1>7. Add(m, l, 32) = [i \in DOMAIN m |-> add(m[i], l[i])]
  BY Zenon DEF Add, add
<1> HIDE DEF m
<1>8. Add(m, l, 32) = [i \in 1 .. 4 |-> add(add(v0[i], S0(u[i])), l[i])]
  BY <1>6, <1>7
<1>9. Add(m, l, 32)
        = << add(add(v0[1], S0(v1[4])), v3[4]), add(add(v0[2], S0(v0[1])), v2[1]),
             add(add(v0[3], S0(v0[2])), v2[2]), add(add(v0[4], S0(v0[3])), v2[3]) >>
  BY <1>3, <1>8
<1> QED
  BY <1>9, Zenon DEF m, l, add, S0

(* A sum of the four words in that order.                                  *)
LEMMA SumOfMessage ==
  ASSUME NEW a, NEW b \in Word(32), NEW c, NEW d \in Word(32)
  PROVE  wrapping_add(wrapping_add(wrapping_add(d, RotShift(c, 7, 18, 3, 32), 32), b, 32),
                      RotShift(a, 17, 19, 10, 32), 32)
           = NextWord(a, b, c, d, 32)
<1> DEFINE e == RotShift(c, 7, 18, 3, 32) f == RotShift(a, 17, 19, 10, 32)
<1>1. e \in Word(32) /\ f \in Word(32)
  BY SigmaWords
<1>2. NextWord(a, b, c, d, 32)
        = wrapping_add(wrapping_add(wrapping_add(f, b, 32), e, 32), d, 32)
  <2>1. Scalar!sigma1(a, 32) = f /\ Scalar!sigma0(c, 32) = e
    BY SigmaForms
  <2> QED
    BY <2>1 DEF NextWord
<1> HIDE DEF e, f
<1>3. 32 \in Nat
  OBVIOUS
<1>4. wrapping_add(wrapping_add(wrapping_add(d, e, 32), b, 32), f, 32)
        = wrapping_add(wrapping_add(wrapping_add(f, b, 32), e, 32), d, 32)
  BY <1>1, <1>3, Reorder
<1> QED
  BY <1>2, <1>4 DEF e, f

(* sha256_schedule_x4: the next four words from the last sixteen.          *)
LEMMA Schedule256 ==
  ASSUME NEW v0 \in [1 .. 4 -> Word(32)], NEW v1 \in [1 .. 4 -> Word(32)],
         NEW v2 \in [1 .. 4 -> Word(32)], NEW v3 \in [1 .. 4 -> Word(32)]
  PROVE  LET w16 == NextWord(v3[2], v2[3], v0[3], v0[4], 32)
             w17 == NextWord(v3[1], v2[2], v0[2], v0[3], 32)
             w18 == NextWord(w16, v2[1], v0[1], v0[2], 32)
             w19 == NextWord(w17, v3[4], v1[4], v0[1], 32)
         IN sha256_schedule_x4(v0, v1, v2, v3) = << w19, w18, w17, w16 >>
<1> DEFINE S0(x) == RotShift(x, 7, 18, 3, 32) S1(x) == RotShift(x, 17, 19, 10, 32)
           sum(d, c, b) == wrapping_add(wrapping_add(d, S0(c), 32), b, 32)
           v4 == Add(sha256msg1(v0, v1), sha256load(v2, v3), 32)
           w16 == wrapping_add(v4[4], S1(v3[2]), 32)
           w17 == wrapping_add(v4[3], S1(v3[1]), 32)
           w18 == wrapping_add(v4[2], S1(w16), 32)
           w19 == wrapping_add(v4[1], S1(w17), 32)
<1>1. v4 = << sum(v0[1], v1[4], v3[4]), sum(v0[2], v0[1], v2[1]),
              sum(v0[3], v0[2], v2[2]), sum(v0[4], v0[3], v2[3]) >>
  BY Message1, ZenonT(60)
<1>2. sha256_schedule_x4(v0, v1, v2, v3) = sha256msg2(v4, v3)
  BY Zenon DEF sha256_schedule_x4
<1>3. sha256msg2(v4, v3) = << w19, w18, w17, w16 >>
  BY Zenon DEF sha256msg2, RotShift
<1>4. ASSUME NEW a, NEW b \in Word(32), NEW c, NEW d \in Word(32)
      PROVE  wrapping_add(sum(d, c, b), S1(a), 32) = NextWord(a, b, c, d, 32)
  BY SumOfMessage
<1> HIDE DEF v4, S1, sum
<1>5. /\ v4[1] = sum(v0[1], v1[4], v3[4]) /\ v4[2] = sum(v0[2], v0[1], v2[1])
      /\ v4[3] = sum(v0[3], v0[2], v2[2]) /\ v4[4] = sum(v0[4], v0[3], v2[3])
  BY <1>1
<1>6. \A i \in 1 .. 4 : /\ v0[i] \in Word(32) /\ v1[i] \in Word(32)
                        /\ v2[i] \in Word(32) /\ v3[i] \in Word(32)
  OBVIOUS
<1>7. 1 \in 1 .. 4 /\ 2 \in 1 .. 4 /\ 3 \in 1 .. 4 /\ 4 \in 1 .. 4
  OBVIOUS
<1>8. w16 = NextWord(v3[2], v2[3], v0[3], v0[4], 32)
  BY <1>4, <1>5, <1>6, <1>7
<1>9. w17 = NextWord(v3[1], v2[2], v0[2], v0[3], 32)
  BY <1>4, <1>5, <1>6, <1>7
<1> HIDE DEF w16, w17
<1>10. w18 = NextWord(w16, v2[1], v0[1], v0[2], 32)
  BY <1>4, <1>5, <1>6, <1>7
<1>11. w19 = NextWord(w17, v3[4], v1[4], v0[1], 32)
  BY <1>4, <1>5, <1>6, <1>7
<1> HIDE DEF w18, w19
<1> QED
  BY <1>2, <1>3, <1>8, <1>9, <1>10, <1>11

(* sha512_schedule_x2 with its vectors.                                    *)
LEMMA Schedule512 ==
  ASSUME NEW v0 \in [1 .. 2 -> Word(64)], NEW v1 \in [1 .. 2 -> Word(64)],
         NEW v5, NEW v7 \in [1 .. 2 -> Word(64)]
  PROVE  sha512_schedule_x2(v0, v1, v5, v7)
           = << NextWord(v7[1], v5[1], v1[2], v0[1], 64),
                NextWord(v7[2], v5[2], v0[1], v0[2], 64) >>
<1> DEFINE s0(x) == Xor(Xor(shl(x, 63, 64) \cup shr(x, 1, 64),
                            shl(x, 56, 64) \cup shr(x, 8, 64)), shr(x, 7, 64))
           s1(x) == Xor(Xor(shl(x, 45, 64) \cup shr(x, 19, 64),
                            shl(x, 3, 64) \cup shr(x, 61, 64)), shr(x, 6, 64))
           next(w14, w9, w1, w0) ==
             wrapping_add(wrapping_add(wrapping_add(
               s1(w14), w9, 64), s0(w1), 64), w0, 64)
<1>1. ASSUME NEW x \in Word(64)
      PROVE  s0(x) = Scalar!sigma0(x, 64) /\ s1(x) = Scalar!sigma1(x, 64)
  <2>1. /\ rotate_right(x, 1, 64) = shl(x, 64 - 1, 64) \cup shr(x, 1, 64)
        /\ rotate_right(x, 8, 64) = shl(x, 64 - 8, 64) \cup shr(x, 8, 64)
        /\ rotate_right(x, 19, 64) = shl(x, 64 - 19, 64) \cup shr(x, 19, 64)
        /\ rotate_right(x, 61, 64) = shl(x, 64 - 61, 64) \cup shr(x, 61, 64)
    BY Rotated
  <2>2. 64 - 1 = 63 /\ 64 - 8 = 56 /\ 64 - 19 = 45 /\ 64 - 61 = 3
    OBVIOUS
  <2>3. s0(x) = RotShift(x, 1, 8, 7, 64)
    BY <2>1, <2>2 DEF RotShift
  <2>4. s1(x) = RotShift(x, 19, 61, 6, 64)
    BY <2>1, <2>2 DEF RotShift
  <2> QED
    BY <2>3, <2>4, SigmaForms
<1>2. sha512_schedule_x2(v0, v1, v5, v7)
        = << next(v7[1], v5[1], v1[2], v0[1]), next(v7[2], v5[2], v0[1], v0[2]) >>
  BY Zenon DEF sha512_schedule_x2
<1> HIDE DEF s0, s1
<1>3. v7[1] \in Word(64) /\ v7[2] \in Word(64) /\ v1[2] \in Word(64) /\ v0[1] \in Word(64)
  OBVIOUS
<1>4. ASSUME NEW a \in Word(64), NEW b, NEW c \in Word(64), NEW d
      PROVE  next(a, b, c, d) = NextWord(a, b, c, d, 64)
  BY <1>1 DEF NextWord
<1> HIDE DEF next
<1> QED
  BY <1>2, <1>3, <1>4

-----------------------------------------------------------------------------
(* Rounds.  The two sums of a round, and a round of the registers a to h,  *)
(* with the constant and the word of the round already added.              *)
MixX(e, f, g, h, wk, n) ==
  wrapping_add(wrapping_add(wrapping_add(
    Scalar!big_sigma1(e, n), bool3ary_202(e, f, g), n), wk, n), h, n)
MixY(a, b, c, n) == wrapping_add(Scalar!big_sigma0(a, n), bool3ary_232(a, b, c), n)

Turn(r, wk, n) ==
  LET x == MixX(r[5], r[6], r[7], r[8], wk, n)
      y == MixY(r[1], r[2], r[3], n)
  IN << wrapping_add(x, y, n), r[1], r[2], r[3],
        wrapping_add(x, r[4], n), r[5], r[6], r[7] >>

Turn4(r, wk1, wk2, wk3, wk4, n) ==
  Turn(Turn(Turn(Turn(r, wk1, n), wk2, n), wk3, n), wk4, n)

(* `choose' and `majority' in two forms.                                   *)
LEMMA Bool3ary ==
  ASSUME NEW a, NEW b, NEW c
  PROVE  /\ Scalar!choose(a, b, c) = bool3ary_202(a, b, c)
         /\ Scalar!majority(a, b, c) = bool3ary_232(a, b, c)
BY DEF Scalar!choose, Scalar!majority, bool3ary_202, bool3ary_232, Xor

(* A round of the comments adds the same words in another order.           *)
LEMMA RoundIsTurn ==
  ASSUME NEW n \in Nat, NEW r, NEW k \in Word(n), NEW word \in Word(n)
  PROVE  Scalar!Round(r, k, word, n) = Turn(r, wrapping_add(k, word, n), n)
<1> DEFINE add(x, y) == wrapping_add(x, y, n)
           mixed == add(Scalar!big_sigma1(r[5], n), bool3ary_202(r[5], r[6], r[7]))
           y == MixY(r[1], r[2], r[3], n)
           h1 == add(r[8], add(add(mixed, k), word))
           x == add(add(mixed, add(k, word)), r[8])
<1>1. \A p, q : Scalar!wrapping_add(p, q, n) = add(p, q)
  BY SameOperators
<1>2. /\ Scalar!choose(r[5], r[6], r[7]) = bool3ary_202(r[5], r[6], r[7])
      /\ Scalar!majority(r[1], r[2], r[3]) = bool3ary_232(r[1], r[2], r[3])
  BY Bool3ary
<1>3. y = add(Scalar!big_sigma0(r[1], n), bool3ary_232(r[1], r[2], r[3]))
  BY DEF MixY
<1>4. x = MixX(r[5], r[6], r[7], r[8], add(k, word), n)
  BY DEF MixX
<1> DEFINE m == Scalar!wrapping_add(Scalar!big_sigma1(r[5], n),
                                    Scalar!choose(r[5], r[6], r[7]), n)
           h0 == Scalar!wrapping_add(r[8],
                   Scalar!wrapping_add(Scalar!wrapping_add(m, k, n), word, n), n)
           z == Scalar!wrapping_add(Scalar!big_sigma0(r[1], n),
                                    Scalar!majority(r[1], r[2], r[3]), n)
<1>5. Scalar!Round(r, k, word, n)
        = << Scalar!wrapping_add(h0, z, n), r[1], r[2], r[3],
             Scalar!wrapping_add(r[4], h0, n), r[5], r[6], r[7] >>
  BY Zenon DEF Scalar!Round
<1>6. m = mixed /\ z = y
  BY <1>1, <1>2, <1>3
<1>7. mixed \in Word(n)
  BY SumBits
<1> HIDE DEF m, z, mixed, y, add
<1>8. h0 = h1
  BY <1>1, <1>6
<1>9. h1 = x
  <2>1. add(add(mixed, k), word) = add(mixed, add(k, word))
    BY <1>7, AddAssoc DEF add
  <2>2. add(r[8], add(mixed, add(k, word))) = add(add(mixed, add(k, word)), r[8])
    BY AddComm DEF add
  <2> QED
    BY <2>1, <2>2
<1> HIDE DEF h0, h1, x
<1>10. /\ Scalar!wrapping_add(h0, z, n) = add(x, y)
       /\ Scalar!wrapping_add(r[4], h0, n) = add(x, r[4])
  <2>1. add(r[4], x) = add(x, r[4])
    BY AddComm DEF add
  <2> QED
    BY <1>1, <1>6, <1>8, <1>9, <2>1
<1>11. Turn(r, add(k, word), n)
         = << add(x, y), r[1], r[2], r[3], add(x, r[4]), r[5], r[6], r[7] >>
  BY <1>4, Zenon DEF Turn, add, y
<1> QED
  BY <1>5, <1>10, <1>11, Zenon DEF add

(* The registers in a record, and in the pairs of the two functions.       *)
Named(r) == [a |-> r[1], b |-> r[2], c |-> r[3], d |-> r[4],
             e |-> r[5], f |-> r[6], g |-> r[7], h |-> r[8]]
Abef(r) == << r[1], r[2], r[5], r[6] >>
Cdgh(r) == << r[3], r[4], r[7], r[8] >>
Pair(r, i) == << r[i], r[i + 4] >>

(* A round of registers in a record.                                       *)
LEMMA RoundNamed ==
  ASSUME NEW r, NEW wk, NEW n
  PROVE  round(Scalar!big_sigma1(r[5], n), Scalar!big_sigma0(r[1], n),
               Named(r), wk, n) = Named(Turn(r, wk, n))
<1> DEFINE q == Named(r)
           S1 == Scalar!big_sigma1(r[5], n) S0 == Scalar!big_sigma0(r[1], n)
           x == wrapping_add(wrapping_add(wrapping_add(
                  S1, bool3ary_202(q.e, q.f, q.g), n), wk, n), q.h, n)
           y == wrapping_add(S0, bool3ary_232(q.a, q.b, q.c), n)
           X == MixX(r[5], r[6], r[7], r[8], wk, n) Y == MixY(r[1], r[2], r[3], n)
           t == Turn(r, wk, n)
<1>1. /\ q.a = r[1] /\ q.b = r[2] /\ q.c = r[3] /\ q.d = r[4]
      /\ q.e = r[5] /\ q.f = r[6] /\ q.g = r[7] /\ q.h = r[8]
  BY DEF Named
<1> HIDE DEF q
<1>2. round(S1, S0, q, wk, n)
        = [a |-> wrapping_add(x, y, n), b |-> q.a, c |-> q.b, d |-> q.c,
           e |-> wrapping_add(x, q.d, n), f |-> q.e, g |-> q.f, h |-> q.g]
  BY Zenon DEF round
<1>3. x = X /\ y = Y
  BY <1>1 DEF MixX, MixY
<1>4. t = << wrapping_add(X, Y, n), r[1], r[2], r[3],
             wrapping_add(X, r[4], n), r[5], r[6], r[7] >>
  BY Zenon DEF Turn
<1> HIDE DEF x, y, X, Y, t
<1>5. /\ t[1] = wrapping_add(X, Y, n) /\ t[5] = wrapping_add(X, r[4], n)
      /\ t[2] = r[1] /\ t[3] = r[2] /\ t[4] = r[3]
      /\ t[6] = r[5] /\ t[7] = r[6] /\ t[8] = r[7]
  BY <1>4
<1>6. round(S1, S0, q, wk, n)
        = [a |-> t[1], b |-> t[2], c |-> t[3], d |-> t[4],
           e |-> t[5], f |-> t[6], g |-> t[7], h |-> t[8]]
  BY <1>1, <1>2, <1>3, <1>5
<1> QED
  BY <1>6, Zenon DEF q, S1, S0, t, Named

(* round256 and round512 are a round.                                      *)
LEMMA TurnNamed ==
  ASSUME NEW r, NEW wk
  PROVE  /\ round256(Named(r), wk) = Named(Turn(r, wk, 32))
         /\ round512(Named(r), wk) = Named(Turn(r, wk, 64))
<1>1. Named(r).a = r[1] /\ Named(r).e = r[5]
  BY DEF Named
<1>2. /\ Sigma(r[5], 6, 11, 25, 32) = Scalar!big_sigma1(r[5], 32)
      /\ Sigma(r[1], 2, 13, 22, 32) = Scalar!big_sigma0(r[1], 32)
      /\ Sigma(r[5], 14, 18, 41, 64) = Scalar!big_sigma1(r[5], 64)
      /\ Sigma(r[1], 28, 34, 39, 64) = Scalar!big_sigma0(r[1], 64)
  BY SigmaForms
<1>3. round256(Named(r), wk) = Named(Turn(r, wk, 32))
  BY <1>1, <1>2, RoundNamed DEF round256
<1>4. round512(Named(r), wk) = Named(Turn(r, wk, 64))
  BY <1>1, <1>2, RoundNamed DEF round512
<1> QED
  BY <1>3, <1>4

(* The registers that a round moves down.                                  *)
LEMMA TurnMoves ==
  ASSUME NEW r, NEW wk, NEW n
  PROVE  LET t == Turn(r, wk, n)
         IN /\ t[2] = r[1] /\ t[3] = r[2] /\ t[4] = r[3]
            /\ t[6] = r[5] /\ t[7] = r[6] /\ t[8] = r[7]
<1> DEFINE x == MixX(r[5], r[6], r[7], r[8], wk, n)
           y == MixY(r[1], r[2], r[3], n)
           a == wrapping_add(x, y, n) e == wrapping_add(x, r[4], n)
           t == Turn(r, wk, n)
<1>1. t = << a, r[1], r[2], r[3], e, r[5], r[6], r[7] >>
  BY Zenon DEF Turn
<1> HIDE DEF a, e, t
<1>2. /\ t[2] = r[1] /\ t[3] = r[2] /\ t[4] = r[3]
      /\ t[6] = r[5] /\ t[7] = r[6] /\ t[8] = r[7]
  BY <1>1
<1> QED
  BY <1>2 DEF t

(* Two rounds of paired registers: those that do not move are left out.    *)
LEMMA TwoTurns256 ==
  ASSUME NEW r, NEW wk
  PROVE  LET t == Turn(Turn(r, wk[4], 32), wk[3], 32)
         IN /\ sha256_digest_round_x2(Cdgh(r), Abef(r), wk) = Abef(t)
            /\ Cdgh(t) = Abef(r)
<1> DEFINE cdgh == Cdgh(r) abef == Abef(r) k1 == wk[4] k2 == wk[3]
           r0 == [a |-> abef[1], b |-> abef[2], c |-> cdgh[1], d |-> cdgh[2],
                  e |-> abef[3], f |-> abef[4], g |-> cdgh[3], h |-> cdgh[4]]
           r2 == round256(round256(r0, k1), k2)
           t1 == Turn(r, k1, 32) t == Turn(t1, k2, 32)
<1>1. /\ abef[1] = r[1] /\ abef[2] = r[2] /\ abef[3] = r[5] /\ abef[4] = r[6]
      /\ cdgh[1] = r[3] /\ cdgh[2] = r[4] /\ cdgh[3] = r[7] /\ cdgh[4] = r[8]
  BY DEF Abef, Cdgh
<1> HIDE DEF cdgh, abef
<1>2. r0 = Named(r)
  BY <1>1 DEF Named
<1>3. sha256_digest_round_x2(cdgh, abef, wk) = << r2.a, r2.b, r2.e, r2.f >>
  BY Zenon DEF sha256_digest_round_x2
<1> HIDE DEF r0, k1, k2
<1>4. r2 = Named(t)
  <2>1. round256(r0, k1) = Named(t1)
    BY <1>2, TurnNamed
  <2> HIDE DEF t1
  <2> QED
    BY <2>1, TurnNamed
<1>5. /\ t1[2] = r[1] /\ t1[3] = r[2] /\ t1[4] = r[3]
      /\ t1[6] = r[5] /\ t1[7] = r[6] /\ t1[8] = r[7]
  BY TurnMoves
<1> HIDE DEF t1
<1>6. /\ t[2] = t1[1] /\ t[3] = t1[2] /\ t[4] = t1[3]
      /\ t[6] = t1[5] /\ t[7] = t1[6] /\ t[8] = t1[7]
  BY TurnMoves
<1> HIDE DEF t, r2
<1>7. sha256_digest_round_x2(cdgh, abef, wk) = Abef(t)
  BY <1>3, <1>4 DEF Abef, Named
<1>8. Cdgh(t) = Abef(r)
  BY <1>5, <1>6 DEF Cdgh, Abef
<1> QED
  BY <1>7, <1>8, Zenon DEF cdgh, abef, t, t1, k1, k2

(* rounds4_256 is four rounds, and its registers are paired again.         *)
LEMMA FourTurns256 ==
  ASSUME NEW r, NEW wk
  PROVE  LET t == Turn4(r, wk[4], wk[3], wk[2], wk[1], 32)
         IN rounds4_256(<< Abef(r), Cdgh(r) >>, wk) = << Abef(t), Cdgh(t) >>
<1> DEFINE regs0 == << Abef(r), Cdgh(r) >> swapped == sha256swap(wk)
           cdgh == sha256_digest_round_x2(regs0[2], regs0[1], wk)
           abef == sha256_digest_round_x2(regs0[1], cdgh, swapped)
           u == Turn(Turn(r, wk[4], 32), wk[3], 32)
           t == Turn(Turn(u, swapped[4], 32), swapped[3], 32)
<1>1. regs0[1] = Abef(r) /\ regs0[2] = Cdgh(r)
  OBVIOUS
<1> HIDE DEF regs0
<1>2. rounds4_256(regs0, wk) = << abef, cdgh >>
  BY Zenon DEF rounds4_256
<1>3. swapped[4] = wk[2] /\ swapped[3] = wk[1]
  BY DEF sha256swap
<1> HIDE DEF swapped
<1>4. sha256_digest_round_x2(Cdgh(r), Abef(r), wk) = Abef(u) /\ Cdgh(u) = Abef(r)
  BY TwoTurns256
<1> HIDE DEF u
<1>5. /\ sha256_digest_round_x2(Cdgh(u), Abef(u), swapped) = Abef(t)
      /\ Cdgh(t) = Abef(u)
  BY TwoTurns256
<1>6. t = Turn4(r, wk[4], wk[3], wk[2], wk[1], 32)
  BY <1>3 DEF Turn4, u
<1> HIDE DEF t
<1>7. cdgh = Cdgh(t)
  BY <1>1, <1>4, <1>5
<1>8. abef = Abef(t)
  <2>1. cdgh = Abef(u)
    BY <1>5, <1>7
  <2> HIDE DEF cdgh
  <2> QED
    BY <1>1, <1>4, <1>5, <2>1
<1> HIDE DEF abef, cdgh
<1>9. rounds4_256(regs0, wk) = << Abef(t), Cdgh(t) >>
  BY <1>2, <1>7, <1>8
<1> QED
  BY <1>6, <1>9 DEF regs0

(* A round of SHA-512 on paired registers.                                 *)
LEMMA Turn512 ==
  ASSUME NEW r, NEW wk
  PROVE  LET t == Turn(r, wk, 64)
         IN /\ sha512_digest_round(Pair(r, 1), Pair(r, 2), Pair(r, 3), Pair(r, 4), wk)
                 = Pair(t, 1)
            /\ Pair(t, 2) = Pair(r, 1) /\ Pair(t, 3) = Pair(r, 2)
            /\ Pair(t, 4) = Pair(r, 3)
<1> DEFINE ae == Pair(r, 1) bf == Pair(r, 2) cg == Pair(r, 3) dh == Pair(r, 4)
           r0 == [a |-> ae[1], b |-> bf[1], c |-> cg[1], d |-> dh[1],
                  e |-> ae[2], f |-> bf[2], g |-> cg[2], h |-> dh[2]]
           r1 == round512(r0, wk)
           t == Turn(r, wk, 64)
<1>1. /\ ae[1] = r[1] /\ bf[1] = r[2] /\ cg[1] = r[3] /\ dh[1] = r[4]
      /\ ae[2] = r[5] /\ bf[2] = r[6] /\ cg[2] = r[7] /\ dh[2] = r[8]
  BY DEF Pair
<1> HIDE DEF ae, bf, cg, dh
<1>2. r0 = Named(r)
  BY <1>1 DEF Named
<1>3. sha512_digest_round(ae, bf, cg, dh, wk) = << r1.a, r1.e >>
  BY Zenon DEF sha512_digest_round
<1> HIDE DEF r0
<1>4. r1 = Named(t)
  BY <1>2, TurnNamed
<1>5. /\ t[2] = r[1] /\ t[3] = r[2] /\ t[4] = r[3]
      /\ t[6] = r[5] /\ t[7] = r[6] /\ t[8] = r[7]
  BY TurnMoves
<1> HIDE DEF r1, t
<1>6. sha512_digest_round(ae, bf, cg, dh, wk) = Pair(t, 1)
  BY <1>3, <1>4 DEF Pair, Named
<1>7. Pair(t, 2) = Pair(r, 1) /\ Pair(t, 3) = Pair(r, 2) /\ Pair(t, 4) = Pair(r, 3)
  BY <1>5 DEF Pair
<1> QED
  BY <1>6, <1>7, Zenon DEF t, ae, bf, cg, dh

(* rounds4_512 is four rounds, each pair in the place of the one that left. *)
LEMMA FourTurns512 ==
  ASSUME NEW r, NEW wk0, NEW wk1
  PROVE  LET t == Turn4(r, wk0[2], wk0[1], wk1[2], wk1[1], 64)
         IN rounds4_512(<< Pair(r, 1), Pair(r, 2), Pair(r, 3), Pair(r, 4) >>, wk0, wk1)
              = << Pair(t, 1), Pair(t, 2), Pair(t, 3), Pair(t, 4) >>
<1> DEFINE q == << Pair(r, 1), Pair(r, 2), Pair(r, 3), Pair(r, 4) >>
           k1 == wk0[2] k2 == wk0[1] k3 == wk1[2] k4 == wk1[1]
           R(ae, bf, cg, dh, k) == sha512_digest_round(ae, bf, cg, dh, k)
           r1 == R(q[1], q[2], q[3], q[4], k1)
           r2 == R(r1, q[1], q[2], q[3], k2)
           r3 == R(r2, r1, q[1], q[2], k3)
           r4 == R(r3, r2, r1, q[1], k4)
           t1 == Turn(r, k1, 64)
           t2 == Turn(t1, k2, 64)
           t3 == Turn(t2, k3, 64)
           t4 == Turn(t3, k4, 64)
<1>1. q[1] = Pair(r, 1) /\ q[2] = Pair(r, 2) /\ q[3] = Pair(r, 3) /\ q[4] = Pair(r, 4)
  OBVIOUS
<1> HIDE DEF q
<1>2. rounds4_512(q, wk0, wk1) = << r4, r3, r2, r1 >>
  BY Zenon DEF rounds4_512
<1> HIDE DEF k1, k2, k3, k4
<1>3. /\ R(Pair(r, 1), Pair(r, 2), Pair(r, 3), Pair(r, 4), k1) = Pair(t1, 1)
      /\ Pair(t1, 2) = Pair(r, 1) /\ Pair(t1, 3) = Pair(r, 2)
      /\ Pair(t1, 4) = Pair(r, 3)
  BY Turn512
<1> HIDE DEF t1
<1>4. /\ R(Pair(t1, 1), Pair(t1, 2), Pair(t1, 3), Pair(t1, 4), k2) = Pair(t2, 1)
      /\ Pair(t2, 2) = Pair(t1, 1) /\ Pair(t2, 3) = Pair(t1, 2)
      /\ Pair(t2, 4) = Pair(t1, 3)
  BY Turn512
<1> HIDE DEF t2
<1>5. /\ R(Pair(t2, 1), Pair(t2, 2), Pair(t2, 3), Pair(t2, 4), k3) = Pair(t3, 1)
      /\ Pair(t3, 2) = Pair(t2, 1) /\ Pair(t3, 3) = Pair(t2, 2)
      /\ Pair(t3, 4) = Pair(t2, 3)
  BY Turn512
<1> HIDE DEF t3
<1>6. /\ R(Pair(t3, 1), Pair(t3, 2), Pair(t3, 3), Pair(t3, 4), k4) = Pair(t4, 1)
      /\ Pair(t4, 2) = Pair(t3, 1) /\ Pair(t4, 3) = Pair(t3, 2)
      /\ Pair(t4, 4) = Pair(t3, 3)
  BY Turn512
<1> HIDE DEF t4, R
<1>7. r1 = Pair(t1, 1)
  BY <1>1, <1>3
<1> HIDE DEF r1
<1>8. r2 = Pair(t2, 1)
  BY <1>1, <1>3, <1>4, <1>7
<1> HIDE DEF r2
<1>9. r3 = Pair(t3, 1)
  BY <1>1, <1>3, <1>4, <1>5, <1>7, <1>8
<1> HIDE DEF r3
<1>10. r4 = Pair(t4, 1)
  BY <1>1, <1>3, <1>4, <1>5, <1>6, <1>7, <1>8, <1>9
<1> HIDE DEF r4
<1>11. rounds4_512(q, wk0, wk1)
         = << Pair(t4, 1), Pair(t4, 2), Pair(t4, 3), Pair(t4, 4) >>
  BY <1>2, <1>4, <1>5, <1>6, <1>7, <1>8, <1>9, <1>10
<1>12. t4 = Turn4(r, k1, k2, k3, k4, 64)
  BY DEF t1, t2, t3, t4, Turn4
<1> QED
  BY <1>11, <1>12, Zenon DEF q, k1, k2, k3, k4

(* A round makes two new words.                                            *)
LEMMA TurnWords ==
  ASSUME NEW n \in Nat, NEW r, NEW wk
  PROVE  /\ Turn(r, wk, n)[1] \in Word(n) /\ Turn(r, wk, n)[5] \in Word(n)
         /\ r \in [1 .. 8 -> Word(n)] => Turn(r, wk, n) \in [1 .. 8 -> Word(n)]
<1> DEFINE x == MixX(r[5], r[6], r[7], r[8], wk, n)
           y == MixY(r[1], r[2], r[3], n)
           a == wrapping_add(x, y, n) e == wrapping_add(x, r[4], n)
<1>1. a \in Word(n) /\ e \in Word(n)
  BY SumBits
<1>2. Turn(r, wk, n) = << a, r[1], r[2], r[3], e, r[5], r[6], r[7] >>
  BY Zenon DEF Turn
<1> HIDE DEF a, e
<1>3. Turn(r, wk, n)[1] = a /\ Turn(r, wk, n)[5] = e
  BY <1>2
<1>4. ASSUME r \in [1 .. 8 -> Word(n)]
      PROVE  << a, r[1], r[2], r[3], e, r[5], r[6], r[7] >> \in [1 .. 8 -> Word(n)]
  BY <1>1, <1>4
<1> QED
  BY <1>1, <1>2, <1>3, <1>4

(* One round of the comments, with the constant and the word that it takes. *)
Constant(t, n) == IF n = 32 THEN K32[t] ELSE K64[t]
WordAfter(words, block, n) ==
  IF Len(words) < 16 THEN block[Len(words) + 1] ELSE Scalar!ScheduleWord(words, n)

(* The constants are words.                                                *)
LEMMA ConstantWords ==
  ASSUME NEW n \in {32, 64}, NEW t \in 1 .. (IF n = 32 THEN 64 ELSE 80)
  PROVE  Constant(t, n) \in Word(n)
<1>1. CASE n = 32
  BY <1>1, KAssumption DEF Constant
<1>2. CASE n = 64
  BY <1>2, KAssumption DEF Constant
<1> QED
  BY <1>1, <1>2

(* The registers and the words of OneRound.                                *)
Both(r, words) == [v |-> r, w |-> words]

(* The round that follows some words.                                      *)
LEMMA OneRoundIs ==
  ASSUME NEW n \in {32, 64}, NEW r, NEW words, NEW block, Len(words) \in Nat,
         Len(words) < (IF n = 32 THEN 64 ELSE 80),
         WordAfter(words, block, n) \in Word(n)
  PROVE  LET word == WordAfter(words, block, n)
         IN Scalar!OneRound(Both(r, words), block, n)
              = Both(Turn(r, wrapping_add(Constant(Len(words) + 1, n), word, n), n),
                     Append(words, word))
<1> DEFINE s == Both(r, words)
           t == Len(words)
           word == WordAfter(words, block, n)
           k == Constant(t + 1, n)
<1>1. s.v = r /\ s.w = words
  BY DEF Both
<1> HIDE DEF s, t, word
<1> DEFINE K == IF n = 32 THEN K32[Len(s.w) + 1] ELSE K64[Len(s.w) + 1]
           W == IF Len(s.w) < 16 THEN block[Len(s.w) + 1]
                ELSE Scalar!ScheduleWord(s.w, n)
<1>2. Scalar!OneRound(s, block, n)
        = [v |-> Scalar!Round(s.v, K, W, n), w |-> Append(s.w, W)]
  BY Zenon DEF Scalar!OneRound
<1>3. K = k
  BY <1>1 DEF Constant, t
<1>4. W = word
  BY <1>1 DEF WordAfter, word
<1> HIDE DEF K, W
<1>5. t + 1 \in 1 .. (IF n = 32 THEN 64 ELSE 80) /\ n \in Nat
  BY DEF t
<1>6. k \in Word(n)
  BY <1>5, ConstantWords, ZenonT(60)
<1> HIDE DEF k
<1>7. Scalar!Round(r, k, word, n) = Turn(r, wrapping_add(k, word, n), n)
  <2>1. word \in Word(n)
    BY DEF word
  <2> QED
    BY <1>5, <1>6, <2>1, RoundIsTurn
<1>8. Scalar!OneRound(s, block, n) = [v |-> Scalar!Round(r, k, word, n),
                                      w |-> Append(words, word)]
  BY <1>1, <1>2, <1>3, <1>4
<1> QED
  BY <1>7, <1>8, Zenon DEF s, k, t, word, Both

(* Four words appended one by one.                                         *)
Append2(words, p1, p2) == Append(Append(words, p1), p2)
Append3(words, p1, p2, p3) == Append(Append2(words, p1, p2), p3)
Append4(words, p1, p2, p3, p4) == Append(Append3(words, p1, p2, p3), p4)

(* One word more.                                                          *)
LEMMA Append1Is ==
  ASSUME NEW S, NEW ws \in Seq(S), NEW p \in S
  PROVE  /\ Append(ws, p) \in Seq(S) /\ Len(Append(ws, p)) = Len(ws) + 1
         /\ Len(ws) \in Nat /\ Append(ws, p)[Len(ws) + 1] = p
         /\ \A i \in 1 .. Len(ws) : Append(ws, p)[i] = ws[i]
<1>1. Len(ws) \in Nat
  BY LenProperties
<1> QED
  BY <1>1, AppendProperties

(* Two words more.                                                         *)
LEMMA Append2Is ==
  ASSUME NEW S, NEW ws \in Seq(S), NEW p \in S, NEW q \in S
  PROVE  /\ Append2(ws, p, q) \in Seq(S)
         /\ Len(Append2(ws, p, q)) = Len(ws) + 2 /\ Len(ws) \in Nat
         /\ Append2(ws, p, q)[Len(ws) + 1] = p /\ Append2(ws, p, q)[Len(ws) + 2] = q
         /\ \A i \in 1 .. Len(ws) : Append2(ws, p, q)[i] = ws[i]
<1> DEFINE w == Append(ws, p) u == Append(w, q)
<1>1. /\ w \in Seq(S) /\ Len(w) = Len(ws) + 1 /\ Len(ws) \in Nat
      /\ w[Len(ws) + 1] = p /\ \A i \in 1 .. Len(ws) : w[i] = ws[i]
  BY Append1Is
<1> HIDE DEF w
<1>2. /\ u \in Seq(S) /\ Len(u) = Len(w) + 1
      /\ u[Len(w) + 1] = q /\ \A i \in 1 .. Len(w) : u[i] = w[i]
  BY <1>1, Append1Is
<1> HIDE DEF u
<1>3. Len(w) + 1 = Len(ws) + 2 /\ Len(ws) + 1 \in 1 .. Len(w)
      /\ \A i \in 1 .. Len(ws) : i \in 1 .. Len(w)
  BY <1>1
<1>4. /\ u \in Seq(S) /\ Len(u) = Len(ws) + 2 /\ Len(ws) \in Nat
      /\ u[Len(ws) + 1] = p /\ u[Len(ws) + 2] = q
      /\ \A i \in 1 .. Len(ws) : u[i] = ws[i]
  BY <1>1, <1>2, <1>3
<1> QED
  BY <1>4, Zenon DEF u, w, Append2

(* Three words more.                                                       *)
LEMMA Append3Is ==
  ASSUME NEW S, NEW ws \in Seq(S), NEW p \in S, NEW q \in S,
         NEW r \in S
  PROVE  /\ Append3(ws, p, q, r) \in Seq(S)
         /\ Len(Append3(ws, p, q, r)) = Len(ws) + 3 /\ Len(ws) \in Nat
         /\ Append3(ws, p, q, r)[Len(ws) + 1] = p
         /\ Append3(ws, p, q, r)[Len(ws) + 2] = q
         /\ Append3(ws, p, q, r)[Len(ws) + 3] = r
         /\ \A i \in 1 .. Len(ws) : Append3(ws, p, q, r)[i] = ws[i]
<1> DEFINE w == Append2(ws, p, q) u == Append(w, r)
<1>1. /\ w \in Seq(S) /\ Len(w) = Len(ws) + 2 /\ Len(ws) \in Nat
      /\ w[Len(ws) + 1] = p /\ w[Len(ws) + 2] = q /\ \A i \in 1 .. Len(ws) : w[i] = ws[i]
  BY Append2Is
<1> HIDE DEF w
<1>2. /\ u \in Seq(S) /\ Len(u) = Len(w) + 1
      /\ u[Len(w) + 1] = r /\ \A i \in 1 .. Len(w) : u[i] = w[i]
  BY <1>1, Append1Is
<1> HIDE DEF u
<1>3. Len(w) + 1 = Len(ws) + 3
      /\ Len(ws) + 1 \in 1 .. Len(w) /\ Len(ws) + 2 \in 1 .. Len(w)
      /\ \A i \in 1 .. Len(ws) : i \in 1 .. Len(w)
  BY <1>1
<1>4. /\ u \in Seq(S) /\ Len(u) = Len(ws) + 3 /\ Len(ws) \in Nat
      /\ u[Len(ws) + 1] = p /\ u[Len(ws) + 2] = q /\ u[Len(ws) + 3] = r
      /\ \A i \in 1 .. Len(ws) : u[i] = ws[i]
  BY <1>1, <1>2, <1>3
<1> QED
  BY <1>4, Zenon DEF u, w, Append3

(* Four words more are one piece.                                          *)
LEMMA Append4Is ==
  ASSUME NEW S, NEW ws \in Seq(S), NEW p \in S, NEW q \in S,
         NEW r \in S, NEW s \in S
  PROVE  /\ ws \o << p, q, r, s >> = Append4(ws, p, q, r, s)
         /\ ws \o << p, q, r, s >> \in Seq(S)
         /\ Len(ws \o << p, q, r, s >>) = Len(ws) + 4 /\ Len(ws) \in Nat
         /\ (ws \o << p, q, r, s >>)[Len(ws) + 1] = p
         /\ (ws \o << p, q, r, s >>)[Len(ws) + 2] = q
         /\ (ws \o << p, q, r, s >>)[Len(ws) + 3] = r
         /\ (ws \o << p, q, r, s >>)[Len(ws) + 4] = s
         /\ \A i \in 1 .. Len(ws) : (ws \o << p, q, r, s >>)[i] = ws[i]
<1> DEFINE w == Append3(ws, p, q, r) u == Append(w, s)
           t == << p, q, r, s >> c == ws \o t m == Len(ws)
<1>1. /\ w \in Seq(S) /\ Len(w) = m + 3 /\ m \in Nat
      /\ w[m + 1] = p /\ w[m + 2] = q /\ w[m + 3] = r /\ \A i \in 1 .. m : w[i] = ws[i]
  BY Append3Is
<1> HIDE DEF w
<1>2. /\ u \in Seq(S) /\ Len(u) = Len(w) + 1
      /\ u[Len(w) + 1] = s /\ \A i \in 1 .. Len(w) : u[i] = w[i]
  BY <1>1, Append1Is
<1> HIDE DEF u
<1>3. t \in Seq(S) /\ Len(t) = 4 /\ t[1] = p /\ t[2] = q /\ t[3] = r /\ t[4] = s
  OBVIOUS
<1> HIDE DEF t
<1>4. /\ c \in Seq(S) /\ Len(c) = m + Len(t)
      /\ \A i \in 1 .. m + Len(t) : c[i] = IF i <= m THEN ws[i] ELSE t[i - m]
  BY <1>3, ConcatProperties
<1> HIDE DEF c, m
<1>5. /\ \A i \in 1 .. m : i \in 1 .. m + Len(t) /\ i <= m
      /\ m + 1 \in 1 .. m + Len(t) /\ ~(m + 1 <= m) /\ (m + 1) - m = 1
      /\ m + 2 \in 1 .. m + Len(t) /\ ~(m + 2 <= m) /\ (m + 2) - m = 2
      /\ m + 3 \in 1 .. m + Len(t) /\ ~(m + 3 <= m) /\ (m + 3) - m = 3
      /\ m + 4 \in 1 .. m + Len(t) /\ ~(m + 4 <= m) /\ (m + 4) - m = 4
  BY <1>1, <1>3
<1>6. /\ c[m + 1] = p /\ c[m + 2] = q /\ c[m + 3] = r /\ c[m + 4] = s
      /\ \A i \in 1 .. m : c[i] = ws[i]
  BY <1>3, <1>4, <1>5
<1>7. c = u
  <2>1. Len(w) + 1 = m + 4 /\ Len(c) = m + 4 /\ Len(u) = m + 4
        /\ m + 1 \in 1 .. Len(w) /\ m + 2 \in 1 .. Len(w) /\ m + 3 \in 1 .. Len(w)
        /\ \A i \in 1 .. m : i \in 1 .. Len(w)
    BY <1>1, <1>2, <1>3, <1>4
  <2>2. /\ u[m + 1] = p /\ u[m + 2] = q /\ u[m + 3] = r /\ u[m + 4] = s
        /\ \A i \in 1 .. m : u[i] = ws[i]
    BY <1>1, <1>2, <2>1
  <2>3. ASSUME NEW i \in 1 .. Len(c)
        PROVE  c[i] = u[i]
    <3>1. i \in 1 .. m \/ i = m + 1 \/ i = m + 2 \/ i = m + 3 \/ i = m + 4
      BY <1>1, <2>1
    <3> QED
      BY <1>6, <2>2, <3>1
  <2> QED
    BY <1>2, <1>4, <2>1, <2>3, SeqEqual
<1>8. /\ c = u /\ c \in Seq(S) /\ Len(c) = m + 4 /\ m \in Nat
      /\ c[m + 1] = p /\ c[m + 2] = q /\ c[m + 3] = r /\ c[m + 4] = s
      /\ \A i \in 1 .. m : c[i] = ws[i]
  BY <1>1, <1>3, <1>4, <1>6, <1>7
<1> QED
  BY <1>8, Zenon DEF c, t, u, w, m, Append4

(* Four rounds of the comments.                                            *)
LEMMA FourRoundsAre ==
  ASSUME NEW n \in {32, 64}, NEW r, NEW words \in Seq(Word(n)), NEW g \in Nat,
         Len(words) = 4 * g, g < (IF n = 32 THEN 16 ELSE 20), NEW block,
         NEW p1 \in Word(n), NEW p2 \in Word(n), NEW p3 \in Word(n), NEW p4 \in Word(n),
         p1 = WordAfter(words, block, n),
         p2 = WordAfter(Append(words, p1), block, n),
         p3 = WordAfter(Append2(words, p1, p2), block, n),
         p4 = WordAfter(Append3(words, p1, p2, p3), block, n)
  PROVE  Scalar!FourRounds(Both(r, words), block, n)
           = Both(Turn4(r, wrapping_add(Constant(4*g + 1, n), p1, n),
                           wrapping_add(Constant(4*g + 2, n), p2, n),
                           wrapping_add(Constant(4*g + 3, n), p3, n),
                           wrapping_add(Constant(4*g + 4, n), p4, n), n),
                  words \o << p1, p2, p3, p4 >>)
<1> DEFINE w1 == Append(words, p1) w2 == Append2(words, p1, p2)
           w3 == Append3(words, p1, p2, p3) w4 == Append4(words, p1, p2, p3, p4)
           m == 4 * g
           r1 == Turn(r, wrapping_add(Constant(m + 1, n), p1, n), n)
           r2 == Turn(r1, wrapping_add(Constant(m + 2, n), p2, n), n)
           r3 == Turn(r2, wrapping_add(Constant(m + 3, n), p3, n), n)
           r4 == Turn(r3, wrapping_add(Constant(m + 4, n), p4, n), n)
           One(s) == Scalar!OneRound(s, block, n)
<1>0. n \in Nat
  OBVIOUS
<1>3. w2 = Append(w1, p2) /\ w3 = Append(w2, p3) /\ w4 = Append(w3, p4)
  BY Zenon DEF Append2, Append3, Append4
<1>1. /\ Len(w1) = Len(words) + 1 /\ Len(w2) = Len(words) + 2
      /\ Len(w3) = Len(words) + 3 /\ w4 = words \o << p1, p2, p3, p4 >>
  <2>1. w1 \in Seq(Word(n)) /\ Len(w1) = Len(words) + 1
    BY <1>0, Append1Is
  <2>2. w4 = words \o << p1, p2, p3, p4 >>
    BY <1>0, Append4Is, SMTT(30)
  <2> HIDE DEF w1, w2, w3, w4
  <2>3. w2 \in Seq(Word(n)) /\ Len(w2) = Len(w1) + 1
    BY <1>0, <1>3, <2>1, Append1Is
  <2>4. w3 \in Seq(Word(n)) /\ Len(w3) = Len(w2) + 1
    BY <1>0, <1>3, <2>3, Append1Is
  <2> QED
    BY <2>1, <2>2, <2>3, <2>4
<1>2. /\ m \in Nat /\ m + 1 \in Nat /\ m + 2 \in Nat /\ m + 3 \in Nat
      /\ (m + 1) + 1 = m + 2 /\ (m + 2) + 1 = m + 3 /\ (m + 3) + 1 = m + 4
      /\ m + 3 < (IF n = 32 THEN 64 ELSE 80) /\ m + 2 < (IF n = 32 THEN 64 ELSE 80)
      /\ m + 1 < (IF n = 32 THEN 64 ELSE 80) /\ m < (IF n = 32 THEN 64 ELSE 80)
      /\ Len(words) = m
  OBVIOUS
<1> HIDE DEF m, w1, w2, w3, w4
<1>4. One(Both(r, words)) = Both(r1, w1)
  BY <1>2, OneRoundIs DEF w1
<1> HIDE DEF r1
<1>5. One(Both(r1, w1)) = Both(r2, w2)
  <2>1. p2 = WordAfter(w1, block, n) /\ Len(w1) = m + 1
    BY <1>1, <1>2 DEF w1
  <2>2. /\ Len(w1) \in Nat /\ Len(w1) < (IF n = 32 THEN 64 ELSE 80)
        /\ WordAfter(w1, block, n) \in Word(n) /\ Len(w1) + 1 = m + 2
    BY <1>2, <2>1
  <2>3. One(Both(r1, w1))
          = Both(Turn(r1, wrapping_add(Constant(Len(w1) + 1, n),
                                       WordAfter(w1, block, n), n), n),
                 Append(w1, WordAfter(w1, block, n)))
    BY <2>2, OneRoundIs
  <2> QED
    BY <1>3, <2>1, <2>2, <2>3
<1> HIDE DEF r2
<1>6. One(Both(r2, w2)) = Both(r3, w3)
  <2>1. p3 = WordAfter(w2, block, n) /\ Len(w2) = m + 2
    BY <1>1, <1>2 DEF w2
  <2>2. /\ Len(w2) \in Nat /\ Len(w2) < (IF n = 32 THEN 64 ELSE 80)
        /\ WordAfter(w2, block, n) \in Word(n) /\ Len(w2) + 1 = m + 3
    BY <1>2, <2>1
  <2>3. One(Both(r2, w2))
          = Both(Turn(r2, wrapping_add(Constant(Len(w2) + 1, n),
                                       WordAfter(w2, block, n), n), n),
                 Append(w2, WordAfter(w2, block, n)))
    BY <2>2, OneRoundIs
  <2> QED
    BY <1>3, <2>1, <2>2, <2>3
<1> HIDE DEF r3
<1>7. One(Both(r3, w3)) = Both(r4, w4)
  <2>1. p4 = WordAfter(w3, block, n) /\ Len(w3) = m + 3
    BY <1>1, <1>2 DEF w3
  <2>2. /\ Len(w3) \in Nat /\ Len(w3) < (IF n = 32 THEN 64 ELSE 80)
        /\ WordAfter(w3, block, n) \in Word(n) /\ Len(w3) + 1 = m + 4
    BY <1>2, <2>1
  <2>3. One(Both(r3, w3))
          = Both(Turn(r3, wrapping_add(Constant(Len(w3) + 1, n),
                                       WordAfter(w3, block, n), n), n),
                 Append(w3, WordAfter(w3, block, n)))
    BY <2>2, OneRoundIs
  <2> QED
    BY <1>3, <2>1, <2>2, <2>3
<1> HIDE DEF r4
<1>8. Scalar!FourRounds(Both(r, words), block, n) = One(One(One(One(Both(r, words)))))
  BY Zenon DEF Scalar!FourRounds
<1> HIDE DEF One
<1>9. Scalar!FourRounds(Both(r, words), block, n) = Both(r4, w4)
  BY <1>4, <1>5, <1>6, <1>7, <1>8
<1>10. r4 = Turn4(r, wrapping_add(Constant(m + 1, n), p1, n),
                     wrapping_add(Constant(m + 2, n), p2, n),
                     wrapping_add(Constant(m + 3, n), p3, n),
                     wrapping_add(Constant(m + 4, n), p4, n), n)
  BY Zenon DEF r1, r2, r3, r4, Turn4
<1> QED
  BY <1>1, <1>9, <1>10 DEF m

-----------------------------------------------------------------------------
(* The registers in the pairs in which they are kept.                      *)
Paired(n, r) ==
  IF n = 32 THEN << Abef(r), Cdgh(r) >>
  ELSE << Pair(r, 1), Pair(r, 2), Pair(r, 3), Pair(r, 4) >>

Vector(n) == [1 .. (IF n = 32 THEN 4 ELSE 2) -> Word(n)]
Registers(n) == [1 .. (IF n = 32 THEN 2 ELSE 4) -> Vector(n)]

(* Pairs give eight registers, and the registers their pairs.              *)
LEMMA PairedUnpaired ==
  ASSUME NEW n \in {32, 64}, NEW r \in Registers(n)
  PROVE  Unpaired(n, r) \in [1 .. 8 -> Word(n)] /\ r = Paired(n, Unpaired(n, r))
<1> DEFINE q == Unpaired(n, r)
<1>1. CASE n = 32
  <2>1. r \in [1 .. 2 -> [1 .. 4 -> Word(32)]]
    BY <1>1 DEF Registers, Vector
  <2>2. r[1] \in [1 .. 4 -> Word(32)] /\ r[2] \in [1 .. 4 -> Word(32)]
    BY <2>1
  <2>3. ASSUME NEW u \in [1 .. 4 -> Word(32)]
        PROVE  /\ u = << u[1], u[2], u[3], u[4] >>
               /\ \A i \in 1 .. 4 : u[i] \in Word(32)
    OBVIOUS
  <2>4. q = << r[1][1], r[1][2], r[2][1], r[2][2], r[1][3], r[1][4], r[2][3], r[2][4] >>
    BY <1>1, Zenon DEF Unpaired
  <2> HIDE DEF q
  <2>5. Abef(q) = r[1] /\ Cdgh(q) = r[2]
    BY <2>2, <2>3, <2>4 DEF Abef, Cdgh
  <2>6. r = << r[1], r[2] >>
    BY <2>1
  <2>7. q \in [1 .. 8 -> Word(32)]
    BY <2>2, <2>3, <2>4
  <2> QED
    BY <1>1, <2>5, <2>6, <2>7 DEF Paired, q
<1>2. CASE n = 64
  <2>0. 64 # 32
    OBVIOUS
  <2>1. r \in [1 .. 4 -> [1 .. 2 -> Word(64)]]
    BY <1>2 DEF Registers, Vector
  <2>2. /\ r[1] \in [1 .. 2 -> Word(64)] /\ r[2] \in [1 .. 2 -> Word(64)]
        /\ r[3] \in [1 .. 2 -> Word(64)] /\ r[4] \in [1 .. 2 -> Word(64)]
    BY <2>1
  <2>3. ASSUME NEW u \in [1 .. 2 -> Word(64)]
        PROVE  u = << u[1], u[2] >> /\ u[1] \in Word(64) /\ u[2] \in Word(64)
    OBVIOUS
  <2>4. q = << r[1][1], r[2][1], r[3][1], r[4][1], r[1][2], r[2][2], r[3][2], r[4][2] >>
    BY <1>2, <2>0, Zenon DEF Unpaired
  <2> HIDE DEF q
  <2>5. Pair(q, 1) = r[1] /\ Pair(q, 2) = r[2] /\ Pair(q, 3) = r[3] /\ Pair(q, 4) = r[4]
    BY <2>2, <2>3, <2>4 DEF Pair
  <2>6. r = << r[1], r[2], r[3], r[4] >>
    BY <2>1
  <2>7. q \in [1 .. 8 -> Word(64)]
    BY <2>2, <2>3, <2>4
  <2> QED
    BY <1>2, <2>0, <2>5, <2>6, <2>7 DEF Paired, q
<1> QED
  BY <1>1, <1>2

(* Eight registers have pairs, and are those of their pairs.               *)
LEMMA UnpairedPaired ==
  ASSUME NEW n \in {32, 64}, NEW r \in [1 .. 8 -> Word(n)]
  PROVE  Paired(n, r) \in Registers(n) /\ Unpaired(n, Paired(n, r)) = r
<1>0. r = << r[1], r[2], r[3], r[4], r[5], r[6], r[7], r[8] >>
      /\ \A i \in 1 .. 8 : r[i] \in Word(n)
  OBVIOUS
<1>1. CASE n = 32
  <2>1. Paired(n, r) = << Abef(r), Cdgh(r) >>
    BY <1>1 DEF Paired
  <2>2. Abef(r) \in [1 .. 4 -> Word(32)] /\ Cdgh(r) \in [1 .. 4 -> Word(32)]
    BY <1>0, <1>1 DEF Abef, Cdgh
  <2>3. Paired(n, r) \in Registers(n)
    BY <1>1, <2>1, <2>2 DEF Registers, Vector
  <2> DEFINE q == Paired(n, r)
  <2>4. q[1] = Abef(r) /\ q[2] = Cdgh(r)
    BY <2>1
  <2> HIDE DEF q
  <2>5. Unpaired(n, q) = << q[1][1], q[1][2], q[2][1], q[2][2],
                            q[1][3], q[1][4], q[2][3], q[2][4] >>
    BY <1>1, Zenon DEF Unpaired
  <2>6. Unpaired(n, q) = << r[1], r[2], r[3], r[4], r[5], r[6], r[7], r[8] >>
    BY <2>4, <2>5 DEF Abef, Cdgh
  <2> QED
    BY <1>0, <2>3, <2>6 DEF q
<1>2. CASE n = 64
  <2>0. 64 # 32
    OBVIOUS
  <2>1. Paired(n, r) = << Pair(r, 1), Pair(r, 2), Pair(r, 3), Pair(r, 4) >>
    BY <1>2, <2>0 DEF Paired
  <2>2. /\ Pair(r, 1) \in [1 .. 2 -> Word(64)] /\ Pair(r, 2) \in [1 .. 2 -> Word(64)]
        /\ Pair(r, 3) \in [1 .. 2 -> Word(64)] /\ Pair(r, 4) \in [1 .. 2 -> Word(64)]
    BY <1>0, <1>2 DEF Pair
  <2>3. Paired(n, r) \in Registers(n)
    BY <1>2, <2>1, <2>2 DEF Registers, Vector
  <2> DEFINE q == Paired(n, r)
  <2>4. /\ q[1] = Pair(r, 1) /\ q[2] = Pair(r, 2)
        /\ q[3] = Pair(r, 3) /\ q[4] = Pair(r, 4)
    BY <2>1
  <2> HIDE DEF q
  <2>5. Unpaired(n, q) = << q[1][1], q[2][1], q[3][1], q[4][1],
                            q[1][2], q[2][2], q[3][2], q[4][2] >>
    BY <1>2, <2>0, Zenon DEF Unpaired
  <2>6. Unpaired(n, q) = << r[1], r[2], r[3], r[4], r[5], r[6], r[7], r[8] >>
    BY <2>4, <2>5 DEF Pair
  <2> QED
    BY <1>0, <2>3, <2>6 DEF q
<1> QED
  BY <1>1, <1>2

-----------------------------------------------------------------------------
(* p are the four words that come after some words of the schedule.        *)
Follow(words, p, block, n) ==
  /\ p \in [1 .. 4 -> Word(n)]
  /\ p[1] = WordAfter(words, block, n)
  /\ p[2] = WordAfter(Append(words, p[1]), block, n)
  /\ p[3] = WordAfter(Append2(words, p[1], p[2]), block, n)
  /\ p[4] = WordAfter(Append3(words, p[1], p[2], p[3]), block, n)

(* After sixteen words the schedule is computed.                           *)
LEMMA WordAfterIs ==
  ASSUME NEW n, NEW words, NEW block, NEW k \in Nat, Len(words) = k, k >= 16
  PROVE  WordAfter(words, block, n)
           = NextWord(words[k - 1], words[k - 6], words[k - 14], words[k - 15], n)
<1>1. WordAfter(words, block, n) = Scalar!ScheduleWord(words, n)
  BY DEF WordAfter
<1> QED
  BY <1>1, ScheduleWordIs

(* The four words after sixteen or more, from the last sixteen.            *)
LEMMA LaterWords ==
  ASSUME NEW n \in Nat, NEW words \in Seq(Word(n)), NEW m \in Nat, Len(words) = m,
         m >= 16, NEW block, NEW p \in [1 .. 4 -> Word(n)],
         p[1] = NextWord(words[m - 1], words[m - 6], words[m - 14], words[m - 15], n),
         p[2] = NextWord(words[m], words[m - 5], words[m - 13], words[m - 14], n),
         p[3] = NextWord(p[1], words[m - 4], words[m - 12], words[m - 13], n),
         p[4] = NextWord(p[2], words[m - 3], words[m - 11], words[m - 12], n)
  PROVE  Follow(words, p, block, n)
<1> DEFINE p1 == p[1] p2 == p[2] p3 == p[3] p4 == p[4]
           w1 == Append(words, p1) w2 == Append(w1, p2) w3 == Append(w2, p3)
<1>1. p1 \in Word(n) /\ p2 \in Word(n) /\ p3 \in Word(n) /\ p4 \in Word(n)
  OBVIOUS
<1>2. /\ p1 = NextWord(words[m - 1], words[m - 6], words[m - 14], words[m - 15], n)
      /\ p2 = NextWord(words[m], words[m - 5], words[m - 13], words[m - 14], n)
      /\ p3 = NextWord(p1, words[m - 4], words[m - 12], words[m - 13], n)
      /\ p4 = NextWord(p2, words[m - 3], words[m - 11], words[m - 12], n)
  OBVIOUS
<1> HIDE DEF p1, p2, p3, p4
<1>3. /\ w1 \in Seq(Word(n)) /\ Len(w1) = m + 1 /\ w1[m + 1] = p1
      /\ \A i \in 1 .. m : w1[i] = words[i]
  BY <1>1, Append1Is, SMTT(60)
<1> HIDE DEF w1
<1>4. /\ w2 \in Seq(Word(n)) /\ Len(w2) = Len(w1) + 1 /\ w2[Len(w1) + 1] = p2
      /\ \A i \in 1 .. Len(w1) : w2[i] = w1[i]
  BY <1>1, <1>3, Append1Is, SMTT(30)
<1> HIDE DEF w2
<1>5. /\ w3 \in Seq(Word(n)) /\ Len(w3) = Len(w2) + 1
      /\ \A i \in 1 .. Len(w2) : w3[i] = w2[i]
  BY <1>1, <1>4, Append1Is
<1> HIDE DEF w3
<1>6. Len(w2) = m + 2 /\ Len(w3) = m + 3
  BY <1>3, <1>4, <1>5
<1>7. p1 = WordAfter(words, block, n)
  BY <1>2, WordAfterIs
<1>8. p2 = WordAfter(w1, block, n)
  <2> DEFINE k == m + 1
  <2>0. k - 1 = m /\ k - 6 = m - 5 /\ k - 14 = m - 13 /\ k - 15 = m - 14
        /\ k \in Nat /\ k >= 16
    OBVIOUS
  <2>1. Len(w1) = k
    BY <1>3
  <2> HIDE DEF k
  <2>2. WordAfter(w1, block, n) = NextWord(w1[k - 1], w1[k - 6], w1[k - 14], w1[k - 15], n)
    BY <2>0, <2>1, WordAfterIs
  <2>3. w1[m] = words[m] /\ w1[m - 5] = words[m - 5]
        /\ w1[m - 13] = words[m - 13] /\ w1[m - 14] = words[m - 14]
    BY <1>3
  <2> QED
    BY <1>2, <2>0, <2>2, <2>3
<1>9. p3 = WordAfter(w2, block, n)
  <2> DEFINE k == m + 2
  <2>1. k - 1 = m + 1 /\ k - 6 = m - 4 /\ k - 14 = m - 12 /\ k - 15 = m - 13
        /\ k \in Nat /\ k >= 16 /\ Len(w2) = k
    BY <1>6
  <2> HIDE DEF k
  <2>2. WordAfter(w2, block, n) = NextWord(w2[k - 1], w2[k - 6], w2[k - 14], w2[k - 15], n)
    BY <2>1, WordAfterIs, SMTT(30)
  <2>3. w2[m + 1] = p1 /\ w2[m - 4] = words[m - 4]
        /\ w2[m - 12] = words[m - 12] /\ w2[m - 13] = words[m - 13]
    BY <1>3, <1>4
  <2> QED
    BY <1>2, <2>1, <2>2, <2>3
<1>10. p4 = WordAfter(w3, block, n)
  <2> DEFINE k == m + 3
  <2>1. k - 1 = m + 2 /\ k - 6 = m - 3 /\ k - 14 = m - 11 /\ k - 15 = m - 12
        /\ k \in Nat /\ k >= 16 /\ Len(w3) = k
    BY <1>6
  <2> HIDE DEF k
  <2>2. WordAfter(w3, block, n) = NextWord(w3[k - 1], w3[k - 6], w3[k - 14], w3[k - 15], n)
    BY <2>1, WordAfterIs, SMTT(30)
  <2>3. /\ \A i \in 1 .. m : w3[i] = words[i]
        /\ w3[m + 2] = p2
    BY <1>3, <1>4, <1>5, SMTT(30)
  <2>4. m - 3 \in 1 .. m /\ m - 11 \in 1 .. m /\ m - 12 \in 1 .. m
    OBVIOUS
  <2>5. w3[m - 3] = words[m - 3] /\ w3[m - 11] = words[m - 11]
        /\ w3[m - 12] = words[m - 12] /\ w3[m + 2] = p2
    BY <2>3, <2>4
  <2> QED
    BY <1>2, <2>1, <2>2, <2>5
<1> QED
  BY <1>7, <1>8, <1>9, <1>10, Zenon DEF p1, p2, p3, p4, w1, w2, w3,
     Follow, Append2, Append3

(* A block as words.                                                       *)
Blocks(n) == [1 .. 16 -> Word(n)]

(* The first sixteen words are those of the block.                         *)
LEMMA FirstWords ==
  ASSUME NEW n \in Nat, NEW words \in Seq(Word(n)), NEW g \in 0 .. 3,
         Len(words) = 4 * g, NEW block \in Blocks(n)
  PROVE  Follow(words, << block[4*g + 1], block[4*g + 2],
                          block[4*g + 3], block[4*g + 4] >>, block, n)
<1> DEFINE p1 == block[4*g + 1] p2 == block[4*g + 2]
           p3 == block[4*g + 3] p4 == block[4*g + 4]
           p == << p1, p2, p3, p4 >>
           w1 == Append(words, p1) w2 == Append(w1, p2) w3 == Append(w2, p3)
<1>0. /\ 4*g + 1 \in 1 .. 16 /\ 4*g + 2 \in 1 .. 16
      /\ 4*g + 3 \in 1 .. 16 /\ 4*g + 4 \in 1 .. 16
  OBVIOUS
<1>1. p1 \in Word(n) /\ p2 \in Word(n) /\ p3 \in Word(n) /\ p4 \in Word(n)
  BY <1>0 DEF Blocks
<1>2. p \in [1 .. 4 -> Word(n)] /\ p[1] = p1 /\ p[2] = p2 /\ p[3] = p3 /\ p[4] = p4
  BY <1>1
<1> DEFINE m == 4 * g
<1>3. /\ m + 3 < 16 /\ m \in Nat /\ Len(words) = m
      /\ p1 = block[m + 1] /\ p2 = block[m + 2] /\ p3 = block[m + 3] /\ p4 = block[m + 4]
  OBVIOUS
<1> HIDE DEF p1, p2, p3, p4, p, m
<1>4. w1 \in Seq(Word(n)) /\ Len(w1) = Len(words) + 1
  BY <1>1, Append1Is
<1> HIDE DEF w1
<1>5. w2 \in Seq(Word(n)) /\ Len(w2) = Len(w1) + 1
  BY <1>1, <1>4, Append1Is
<1> HIDE DEF w2
<1>6. w3 \in Seq(Word(n)) /\ Len(w3) = Len(w2) + 1
  BY <1>1, <1>5, Append1Is
<1> HIDE DEF w3
<1>7. /\ Len(w1) = m + 1 /\ Len(w2) = m + 2 /\ Len(w3) = m + 3
      /\ Len(words) + 1 = m + 1 /\ Len(w1) + 1 = m + 2
      /\ Len(w2) + 1 = m + 3 /\ Len(w3) + 1 = m + 4
      /\ Len(words) < 16 /\ Len(w1) < 16 /\ Len(w2) < 16 /\ Len(w3) < 16
  <2>1. Len(w1) = m + 1
    BY <1>3, <1>4
  <2>2. Len(w2) = m + 2
    BY <1>3, <1>5, <2>1
  <2>3. Len(w3) = m + 3
    BY <1>3, <1>6, <2>2
  <2>4. /\ (m + 1) + 1 = m + 2 /\ (m + 2) + 1 = m + 3 /\ (m + 3) + 1 = m + 4
        /\ m < 16 /\ m + 1 < 16 /\ m + 2 < 16 /\ m + 3 < 16
    BY <1>3
  <2> QED
    BY <1>3, <2>1, <2>2, <2>3, <2>4, Zenon
<1>8. \A u : Len(u) < 16 => WordAfter(u, block, n) = block[Len(u) + 1]
  BY DEF WordAfter
<1>9. /\ p1 = WordAfter(words, block, n) /\ p2 = WordAfter(w1, block, n)
      /\ p3 = WordAfter(w2, block, n) /\ p4 = WordAfter(w3, block, n)
  BY <1>3, <1>7, <1>8
<1>10. Follow(words, p, block, n)
  BY <1>2, <1>9, Zenon DEF w1, w2, w3, Follow, Append2, Append3
<1> QED
  BY <1>10, Zenon DEF p, p1, p2, p3, p4

-----------------------------------------------------------------------------
(* The ring holds the last vectors of a schedule of next vectors.          *)
RingHolds(rg, words, next, lanes, slots) ==
  \A k \in 0 .. (next - 1) :
    k >= next - slots =>
      rg[k % slots] = [i \in 1 .. lanes |-> words[lanes * k + (lanes + 1 - i)]]

(* A vector holds the words from 4 * k or 2 * k, the last in lane 1.       *)
Lanes256(u, words, k) ==
  /\ u \in [1 .. 4 -> Word(32)]
  /\ u[1] = words[4*k + 4] /\ u[2] = words[4*k + 3]
  /\ u[3] = words[4*k + 2] /\ u[4] = words[4*k + 1]
Lanes512(u, words, k) ==
  /\ u \in [1 .. 2 -> Word(64)]
  /\ u[1] = words[2*k + 2] /\ u[2] = words[2*k + 1]

(* The vectors of SHA-256 that the ring holds.                             *)
LEMMA Held256 ==
  ASSUME NEW rg, NEW words \in Seq(Word(32)), NEW g \in Nat, Len(words) = 4 * g,
         RingHolds(rg, words, g, 4, 5)
  PROVE  \A k \in 0 .. (g - 1) : k >= g - 5 => Lanes256(rg[k % 5], words, k)
<1> SUFFICES ASSUME NEW k \in 0 .. (g - 1), k >= g - 5
             PROVE  Lanes256(rg[k % 5], words, k)
  OBVIOUS
<1> DEFINE u == rg[k % 5]
<1>1. u = [i \in 1 .. 4 |-> words[4 * k + (4 + 1 - i)]]
  BY DEF RingHolds
<1>2. \A i \in 1 .. 4 : words[4 * k + (4 + 1 - i)] \in Word(32)
  <2> TAKE i \in 1 .. 4
  <2>1. 4 * k + (4 + 1 - i) \in 1 .. Len(words)
    OBVIOUS
  <2> QED
    BY <2>1, LenProperties
<1>3. /\ 4*k + (4 + 1 - 1) = 4*k + 4 /\ 4*k + (4 + 1 - 2) = 4*k + 3
      /\ 4*k + (4 + 1 - 3) = 4*k + 2 /\ 4*k + (4 + 1 - 4) = 4*k + 1
  OBVIOUS
<1> HIDE DEF u
<1>4. u \in [1 .. 4 -> Word(32)]
  BY <1>1, <1>2
<1>5. u[1] = words[4*k + 4] /\ u[2] = words[4*k + 3]
      /\ u[3] = words[4*k + 2] /\ u[4] = words[4*k + 1]
  BY <1>1, <1>3
<1>6. Lanes256(u, words, k)
  BY <1>4, <1>5, Zenon DEF Lanes256
<1> QED
  BY <1>6, Zenon DEF u

(* The vectors of SHA-512 that the ring holds.                             *)
LEMMA Held512 ==
  ASSUME NEW rg, NEW words \in Seq(Word(64)), NEW g \in Nat, Len(words) = 2 * g,
         RingHolds(rg, words, g, 2, 10)
  PROVE  \A k \in 0 .. (g - 1) : k >= g - 10 => Lanes512(rg[k % 10], words, k)
<1> SUFFICES ASSUME NEW k \in 0 .. (g - 1), k >= g - 10
             PROVE  Lanes512(rg[k % 10], words, k)
  OBVIOUS
<1> DEFINE u == rg[k % 10]
<1>1. u = [i \in 1 .. 2 |-> words[2 * k + (2 + 1 - i)]]
  BY DEF RingHolds
<1>2. \A i \in 1 .. 2 : words[2 * k + (2 + 1 - i)] \in Word(64)
  <2> TAKE i \in 1 .. 2
  <2>1. 2 * k + (2 + 1 - i) \in 1 .. Len(words)
    OBVIOUS
  <2> QED
    BY <2>1, LenProperties
<1>3. 2*k + (2 + 1 - 1) = 2*k + 2 /\ 2*k + (2 + 1 - 2) = 2*k + 1
  OBVIOUS
<1> HIDE DEF u
<1>4. u \in [1 .. 2 -> Word(64)]
  BY <1>1, <1>2
<1>5. u[1] = words[2*k + 2] /\ u[2] = words[2*k + 1]
  BY <1>1, <1>3
<1>6. Lanes512(u, words, k)
  BY <1>4, <1>5, Zenon DEF Lanes512
<1> QED
  BY <1>6, Zenon DEF u

(* The vector that sha256_digest_block assigns before a rounds4!.          *)
Next256(rg, block, g) ==
  IF g < 4
  THEN << block[4*g + 4], block[4*g + 3], block[4*g + 2], block[4*g + 1] >>
  ELSE sha256_schedule_x4(rg[Slot(g + 1, 5)], rg[Slot(g + 2, 5)],
                          rg[Slot(g + 3, 5)], rg[Slot(g + 4, 5)])

(* It holds the next four words of the schedule.                           *)
LEMMA Next256Follows ==
  ASSUME NEW rg, NEW words \in Seq(Word(32)), NEW g \in Nat, Len(words) = 4 * g,
         RingHolds(rg, words, g, 4, 5), NEW block \in Blocks(32)
  PROVE  LET u == Next256(rg, block, g)
         IN /\ u \in [1 .. 4 -> Word(32)]
            /\ Follow(words, << u[4], u[3], u[2], u[1] >>, block, 32)
<1> DEFINE u == Next256(rg, block, g)
           p == << u[4], u[3], u[2], u[1] >>
<1>0. 32 \in Nat
  OBVIOUS
<1>1. CASE g < 4
  <2> DEFINE a == block[4*g + 1] b == block[4*g + 2]
             c == block[4*g + 3] d == block[4*g + 4]
  <2>1. u = << d, c, b, a >>
    BY <1>1 DEF Next256
  <2>2. Follow(words, << a, b, c, d >>, block, 32)
    <3>1. g \in 0 .. 3
      BY <1>1
    <3> QED
      BY <1>0, <3>1, FirstWords
  <2>3. a \in Word(32) /\ b \in Word(32) /\ c \in Word(32) /\ d \in Word(32)
    <3>1. /\ 4*g + 1 \in 1 .. 16 /\ 4*g + 2 \in 1 .. 16
          /\ 4*g + 3 \in 1 .. 16 /\ 4*g + 4 \in 1 .. 16
      BY <1>1
    <3> QED
      BY <3>1 DEF Blocks
  <2> HIDE DEF a, b, c, d, u
  <2> QED
    BY <2>1, <2>2, <2>3 DEF u
<1>2. CASE g >= 4
  <2> DEFINE m == 4 * g
             v0 == rg[Slot(g + 1, 5)] v1 == rg[Slot(g + 2, 5)]
             v2 == rg[Slot(g + 3, 5)] v3 == rg[Slot(g + 4, 5)]
             w16 == NextWord(v3[2], v2[3], v0[3], v0[4], 32)
             w17 == NextWord(v3[1], v2[2], v0[2], v0[3], 32)
             w18 == NextWord(w16, v2[1], v0[1], v0[2], 32)
             w19 == NextWord(w17, v3[4], v1[4], v0[1], 32)
  <2>1. ASSUME NEW j \in 1 .. 4
        PROVE  /\ rg[Slot(g + j, 5)] \in [1 .. 4 -> Word(32)]
               /\ rg[Slot(g + j, 5)][1] = words[m + 4*j - 16]
               /\ rg[Slot(g + j, 5)][2] = words[m + 4*j - 17]
               /\ rg[Slot(g + j, 5)][3] = words[m + 4*j - 18]
               /\ rg[Slot(g + j, 5)][4] = words[m + 4*j - 19]
    <3> DEFINE k == g + j - 5
    <3>1. k \in 0 .. (g - 1) /\ k >= g - 5 /\ (g + j) % 5 = k % 5
      BY <1>2
    <3>2. /\ 4*k + 4 = m + 4*j - 16 /\ 4*k + 3 = m + 4*j - 17
          /\ 4*k + 2 = m + 4*j - 18 /\ 4*k + 1 = m + 4*j - 19
      BY <1>2
    <3> HIDE DEF k, m
    <3>3. \A i \in 0 .. (g - 1) : i >= g - 5 => Lanes256(rg[i % 5], words, i)
      BY Held256
    <3>4. Lanes256(rg[k % 5], words, k)
      BY <3>1, <3>3
    <3> QED
      BY <3>1, <3>2, <3>4 DEF Slot, Lanes256
  <2>2. /\ m + 4*1 - 16 = m - 12 /\ m + 4*1 - 17 = m - 13
        /\ m + 4*1 - 18 = m - 14 /\ m + 4*1 - 19 = m - 15
        /\ m + 4*2 - 19 = m - 11
        /\ m + 4*3 - 16 = m - 4 /\ m + 4*3 - 17 = m - 5 /\ m + 4*3 - 18 = m - 6
        /\ m + 4*4 - 16 = m /\ m + 4*4 - 17 = m - 1 /\ m + 4*4 - 19 = m - 3
        /\ m \in Nat /\ m >= 16 /\ Len(words) = m
    BY <1>2
  <2> HIDE DEF m
  <2>3. /\ v0 \in [1 .. 4 -> Word(32)] /\ v1 \in [1 .. 4 -> Word(32)]
        /\ v2 \in [1 .. 4 -> Word(32)] /\ v3 \in [1 .. 4 -> Word(32)]
    BY <2>1
  <2>4. /\ v0[1] = words[m - 12] /\ v0[2] = words[m - 13]
        /\ v0[3] = words[m - 14] /\ v0[4] = words[m - 15]
        /\ v1[4] = words[m - 11]
        /\ v2[1] = words[m - 4] /\ v2[2] = words[m - 5] /\ v2[3] = words[m - 6]
        /\ v3[1] = words[m] /\ v3[2] = words[m - 1] /\ v3[4] = words[m - 3]
    <3>1. 1 \in 1 .. 4 /\ 2 \in 1 .. 4 /\ 3 \in 1 .. 4 /\ 4 \in 1 .. 4
      OBVIOUS
    <3>2. /\ v0[1] = words[m - 12] /\ v0[2] = words[m - 13]
          /\ v0[3] = words[m - 14] /\ v0[4] = words[m - 15]
      BY <2>1, <2>2, <3>1
    <3>3. v1[4] = words[m - 11]
      BY <2>1, <2>2, <3>1
    <3>4. v2[1] = words[m - 4] /\ v2[2] = words[m - 5] /\ v2[3] = words[m - 6]
      BY <2>1, <2>2, <3>1
    <3>5. v3[1] = words[m] /\ v3[2] = words[m - 1] /\ v3[4] = words[m - 3]
      BY <2>1, <2>2, <3>1, ZenonT(60)
    <3> QED
      BY <3>2, <3>3, <3>4, <3>5
  <2>5. u = sha256_schedule_x4(v0, v1, v2, v3)
    BY <1>2 DEF Next256
  <2> HIDE DEF v0, v1, v2, v3
  <2>6. u = << w19, w18, w17, w16 >>
    BY <2>3, <2>5, Schedule256, SMTT(30)
  <2>7. /\ w16 \in Word(32) /\ w17 \in Word(32) /\ w18 \in Word(32) /\ w19 \in Word(32)
    BY <1>0, SumBits DEF NextWord
  <2>8. /\ w16 = NextWord(words[m - 1], words[m - 6], words[m - 14], words[m - 15], 32)
        /\ w17 = NextWord(words[m], words[m - 5], words[m - 13], words[m - 14], 32)
        /\ w18 = NextWord(w16, words[m - 4], words[m - 12], words[m - 13], 32)
        /\ w19 = NextWord(w17, words[m - 3], words[m - 11], words[m - 12], 32)
    BY <2>4
  <2> HIDE DEF w16, w17, w18, w19, u
  <2>9. u \in [1 .. 4 -> Word(32)] /\ p \in [1 .. 4 -> Word(32)]
        /\ p[1] = w16 /\ p[2] = w17 /\ p[3] = w18 /\ p[4] = w19
    BY <2>6, <2>7
  <2> HIDE DEF p
  <2>10. Follow(words, p, block, 32)
    BY <1>0, <2>2, <2>8, <2>9, LaterWords, ZenonT(60)
  <2> QED
    BY <2>9, <2>10 DEF p, u
<1> QED
  BY <1>1, <1>2

(* The two vectors that sha512_digest_block assigns before a rounds4!.     *)
NextA512(rg, block, g) ==
  IF g < 4
  THEN << block[4*g + 2], block[4*g + 1] >>
  ELSE sha512_schedule_x2(rg[Slot(2*g + 2, 10)], rg[Slot(2*g + 3, 10)],
         sha512load(rg[Slot(2*g + 6, 10)], rg[Slot(2*g + 7, 10)]),
         rg[Slot(2*g + 9, 10)])

NextB512(rg, block, g) ==
  IF g < 4
  THEN << block[4*g + 4], block[4*g + 3] >>
  ELSE sha512_schedule_x2(rg[Slot(2*g + 3, 10)], rg[Slot(2*g + 4, 10)],
         sha512load(rg[Slot(2*g + 7, 10)], rg[Slot(2*g + 8, 10)]),
         NextA512(rg, block, g))

(* They hold the next four words of the schedule.                          *)
LEMMA Next512Follows ==
  ASSUME NEW rg, NEW words \in Seq(Word(64)), NEW g \in Nat, Len(words) = 4 * g,
         RingHolds(rg, words, 2 * g, 2, 10), NEW block \in Blocks(64)
  PROVE  LET u == NextA512(rg, block, g)
             v == NextB512(rg, block, g)
         IN /\ u \in [1 .. 2 -> Word(64)] /\ v \in [1 .. 2 -> Word(64)]
            /\ Follow(words, << u[2], u[1], v[2], v[1] >>, block, 64)
<1> DEFINE u == NextA512(rg, block, g)
           v == NextB512(rg, block, g)
           p == << u[2], u[1], v[2], v[1] >>
<1>0. 64 \in Nat
  OBVIOUS
<1>1. CASE g < 4
  <2> DEFINE a == block[4*g + 1] b == block[4*g + 2]
             c == block[4*g + 3] d == block[4*g + 4]
  <2>1. u = << b, a >> /\ v = << d, c >>
    BY <1>1 DEF NextA512, NextB512
  <2>2. Follow(words, << a, b, c, d >>, block, 64)
    <3>1. g \in 0 .. 3
      BY <1>1
    <3> QED
      BY <1>0, <3>1, FirstWords
  <2>3. a \in Word(64) /\ b \in Word(64) /\ c \in Word(64) /\ d \in Word(64)
    <3>1. /\ 4*g + 1 \in 1 .. 16 /\ 4*g + 2 \in 1 .. 16
          /\ 4*g + 3 \in 1 .. 16 /\ 4*g + 4 \in 1 .. 16
      BY <1>1
    <3> QED
      BY <3>1 DEF Blocks
  <2> HIDE DEF a, b, c, d, u, v
  <2> QED
    BY <2>1, <2>2, <2>3 DEF u, v
<1>2. CASE g >= 4
  <2> DEFINE m == 4 * g
             V(j) == rg[Slot(2*g + j, 10)]
             v2 == V(2) v3 == V(3) v4 == V(4) v6 == V(6) v7 == V(7) v8 == V(8) v9 == V(9)
             l0 == sha512load(v6, v7) l1 == sha512load(v7, v8)
             p1 == NextWord(v9[2], v6[1], v2[1], v2[2], 64)
             p2 == NextWord(v9[1], v7[2], v3[2], v2[1], 64)
             p3 == NextWord(u[2], v7[1], v3[1], v3[2], 64)
             p4 == NextWord(u[1], v8[2], v4[2], v3[1], 64)
  <2>0. m \in Nat /\ m >= 16 /\ Len(words) = m
    BY <1>2
  <2>1. ASSUME NEW j \in 2 .. 9
        PROVE  /\ V(j) \in [1 .. 2 -> Word(64)]
               /\ V(j)[1] = words[m + 2*j - 18] /\ V(j)[2] = words[m + 2*j - 19]
    <3> DEFINE k == 2*g + j - 10 e == 2 * g
    <3>1. k \in 0 .. (e - 1) /\ k >= e - 10 /\ (2*g + j) % 10 = k % 10
      BY <1>2
    <3>2. 2*k + 2 = m + 2*j - 18 /\ 2*k + 1 = m + 2*j - 19
      BY <1>2
    <3>3. e \in Nat /\ Len(words) = 2 * e /\ RingHolds(rg, words, e, 2, 10)
      OBVIOUS
    <3> HIDE DEF k, m, e
    <3>4. \A i \in 0 .. (e - 1) : i >= e - 10 => Lanes512(rg[i % 10], words, i)
      BY <3>3, Held512
    <3>5. Lanes512(rg[k % 10], words, k)
      BY <3>1, <3>4
    <3>6. V(j) = rg[k % 10]
      BY <3>1 DEF Slot
    <3> HIDE DEF V
    <3> QED
      BY <3>2, <3>5, <3>6 DEF Lanes512
  <2>2. /\ 2 \in 2 .. 9 /\ 3 \in 2 .. 9 /\ 4 \in 2 .. 9 /\ 6 \in 2 .. 9
        /\ 7 \in 2 .. 9 /\ 8 \in 2 .. 9 /\ 9 \in 2 .. 9
        /\ m + 2*2 - 18 = m - 14 /\ m + 2*2 - 19 = m - 15
        /\ m + 2*3 - 18 = m - 12 /\ m + 2*3 - 19 = m - 13
        /\ m + 2*4 - 19 = m - 11 /\ m + 2*6 - 18 = m - 6
        /\ m + 2*7 - 18 = m - 4 /\ m + 2*7 - 19 = m - 5 /\ m + 2*8 - 19 = m - 3
        /\ m + 2*9 - 18 = m /\ m + 2*9 - 19 = m - 1
    BY <2>0
  <2>3. u = sha512_schedule_x2(v2, v3, l0, v9) /\ v = sha512_schedule_x2(v3, v4, l1, u)
    BY <1>2 DEF NextA512, NextB512
  <2> HIDE DEF m, V
  <2>4. /\ v2 \in [1 .. 2 -> Word(64)] /\ v3 \in [1 .. 2 -> Word(64)]
        /\ v4 \in [1 .. 2 -> Word(64)] /\ v9 \in [1 .. 2 -> Word(64)]
    BY <2>1, <2>2
  <2>5. /\ v2[1] = words[m - 14] /\ v2[2] = words[m - 15]
        /\ v3[1] = words[m - 12] /\ v3[2] = words[m - 13]
        /\ v4[2] = words[m - 11] /\ v6[1] = words[m - 6]
    BY <2>1, <2>2
  <2>6. /\ v7[1] = words[m - 4] /\ v7[2] = words[m - 5] /\ v8[2] = words[m - 3]
        /\ v9[1] = words[m] /\ v9[2] = words[m - 1]
    BY <2>1, <2>2
  <2>7. l0[1] = v7[2] /\ l0[2] = v6[1] /\ l1[1] = v8[2] /\ l1[2] = v7[1]
    BY DEF sha512load
  <2> HIDE DEF u, v, v2, v3, v4, v6, v7, v8, v9, l0, l1
  <2>8. u = << p2, p1 >>
    <3>1. u = << NextWord(v9[1], l0[1], v3[2], v2[1], 64),
                 NextWord(v9[2], l0[2], v2[1], v2[2], 64) >>
      BY <2>3, <2>4, Schedule512
    <3> QED
      BY <2>7, <3>1
  <2>9. p1 \in Word(64) /\ p2 \in Word(64) /\ p3 \in Word(64) /\ p4 \in Word(64)
    BY <1>0, SumBits DEF NextWord
  <2>10. u \in [1 .. 2 -> Word(64)] /\ u[1] = p2 /\ u[2] = p1
    BY <2>8, <2>9
  <2>11. v = << p4, p3 >>
    <3>1. v = << NextWord(u[1], l1[1], v4[2], v3[1], 64),
                 NextWord(u[2], l1[2], v3[1], v3[2], 64) >>
      BY <2>3, <2>4, <2>10, Schedule512
    <3> QED
      BY <2>7, <3>1
  <2>12. /\ p1 = NextWord(words[m - 1], words[m - 6], words[m - 14], words[m - 15], 64)
         /\ p2 = NextWord(words[m], words[m - 5], words[m - 13], words[m - 14], 64)
         /\ p3 = NextWord(p1, words[m - 4], words[m - 12], words[m - 13], 64)
         /\ p4 = NextWord(p2, words[m - 3], words[m - 11], words[m - 12], 64)
    BY <2>5, <2>6, <2>10
  <2> HIDE DEF p1, p2, p3, p4
  <2>13. v \in [1 .. 2 -> Word(64)]
    BY <2>9, <2>11
  <2>15. p \in [1 .. 4 -> Word(64)] /\ p[1] = p1 /\ p[2] = p2 /\ p[3] = p3 /\ p[4] = p4
    BY <2>9, <2>10, <2>11
  <2> HIDE DEF p
  <2>14. Follow(words, p, block, 64)
    <3>1. /\ p[1] = NextWord(words[m - 1], words[m - 6], words[m - 14], words[m - 15], 64)
          /\ p[2] = NextWord(words[m], words[m - 5], words[m - 13], words[m - 14], 64)
          /\ p[3] = NextWord(p[1], words[m - 4], words[m - 12], words[m - 13], 64)
          /\ p[4] = NextWord(p[2], words[m - 3], words[m - 11], words[m - 12], 64)
      BY <2>12, <2>15
    <3>2. p \in [1 .. 4 -> Word(64)]
      BY <2>15
    <3> QED
      BY <1>0, <2>0, <3>1, <3>2, LaterWords, ZenonT(60)
  <2> QED
    BY <2>10, <2>13, <2>14 DEF p, u, v
<1> QED
  BY <1>1, <1>2

-----------------------------------------------------------------------------
(* Four rounds with four words of the schedule, the g-th four.             *)
Turns(r, p, g, n) ==
  Turn4(r, wrapping_add(Constant(4*g + 1, n), p[1], n),
           wrapping_add(Constant(4*g + 2, n), p[2], n),
           wrapping_add(Constant(4*g + 3, n), p[3], n),
           wrapping_add(Constant(4*g + 4, n), p[4], n), n)

(* They keep eight words.                                                  *)
LEMMA TurnsWords ==
  ASSUME NEW n \in Nat, NEW r \in [1 .. 8 -> Word(n)], NEW p, NEW g
  PROVE  Turns(r, p, g, n) \in [1 .. 8 -> Word(n)]
<1> DEFINE W == [1 .. 8 -> Word(n)]
<1>1. \A s, wk : s \in W => Turn(s, wk, n) \in W
  BY TurnWords
<1>2. r \in W
  OBVIOUS
<1> HIDE DEF W
<1>3. Turns(r, p, g, n) \in W
  BY <1>1, <1>2, Zenon DEF Turns, Turn4
<1> QED
  BY <1>3 DEF W

(* The four rounds of the comments.                                        *)
LEMMA FourRoundsFollow ==
  ASSUME NEW n \in {32, 64}, NEW r, NEW words \in Seq(Word(n)), NEW g \in Nat,
         Len(words) = 4 * g, g < (IF n = 32 THEN 16 ELSE 20), NEW block, NEW p,
         Follow(words, p, block, n)
  PROVE  Scalar!FourRounds(Both(r, words), block, n)
           = Both(Turns(r, p, g, n), words \o p)
<1> DEFINE p1 == p[1] p2 == p[2] p3 == p[3] p4 == p[4]
<1>1. /\ p1 = WordAfter(words, block, n)
      /\ p2 = WordAfter(Append(words, p1), block, n)
      /\ p3 = WordAfter(Append2(words, p1, p2), block, n)
      /\ p4 = WordAfter(Append3(words, p1, p2, p3), block, n)
  BY Zenon DEF Follow
<1>2. p \in [1 .. 4 -> Word(n)]
  BY Zenon DEF Follow
<1>3. /\ p1 \in Word(n) /\ p2 \in Word(n) /\ p3 \in Word(n) /\ p4 \in Word(n)
      /\ p = << p1, p2, p3, p4 >>
  BY <1>2
<1>4. Turns(r, p, g, n)
        = Turn4(r, wrapping_add(Constant(4*g + 1, n), p1, n),
                   wrapping_add(Constant(4*g + 2, n), p2, n),
                   wrapping_add(Constant(4*g + 3, n), p3, n),
                   wrapping_add(Constant(4*g + 4, n), p4, n), n)
  BY Zenon DEF Turns
<1> HIDE DEF p1, p2, p3, p4
<1>5. Scalar!FourRounds(Both(r, words), block, n)
        = Both(Turn4(r, wrapping_add(Constant(4*g + 1, n), p1, n),
                        wrapping_add(Constant(4*g + 2, n), p2, n),
                        wrapping_add(Constant(4*g + 3, n), p3, n),
                        wrapping_add(Constant(4*g + 4, n), p4, n), n),
               words \o << p1, p2, p3, p4 >>)
  BY <1>1, <1>3, FourRoundsAre
<1> QED
  BY <1>3, <1>4, <1>5

(* rounds4_256 with its constants.                                         *)
LEMMA Regs256 ==
  ASSUME NEW r \in Registers(32), NEW u, NEW g
  PROVE  rounds4_256(r, Add(K32X4(g), u, 32))
           = Paired(32, Turns(Unpaired(32, r), << u[4], u[3], u[2], u[1] >>, g, 32))
<1> DEFINE q == Unpaired(32, r) p == << u[4], u[3], u[2], u[1] >>
           k == K32X4(g) wk == Add(k, u, 32) t == Turns(q, p, g, 32)
           K(i) == wrapping_add(Constant(4*g + i, 32), p[i], 32)
<1>1. r = Paired(32, q)
  BY PairedUnpaired
<1> HIDE DEF q
<1>2. r = << Abef(q), Cdgh(q) >>
  BY <1>1 DEF Paired
<1>3. k = << Constant(4*g + 4, 32), Constant(4*g + 3, 32),
             Constant(4*g + 2, 32), Constant(4*g + 1, 32) >>
  BY DEF K32X4, Constant
<1> HIDE DEF k
<1>4. DOMAIN k = 1 .. 4
  BY <1>3
<1>5. wk = [i \in 1 .. 4 |-> wrapping_add(k[i], u[i], 32)]
  BY <1>4 DEF Add
<1> HIDE DEF wk
<1>6. /\ wk[4] = wrapping_add(k[4], u[4], 32) /\ wk[3] = wrapping_add(k[3], u[3], 32)
      /\ wk[2] = wrapping_add(k[2], u[2], 32) /\ wk[1] = wrapping_add(k[1], u[1], 32)
  BY <1>5
<1>7. /\ k[4] = Constant(4*g + 1, 32) /\ k[3] = Constant(4*g + 2, 32)
      /\ k[2] = Constant(4*g + 3, 32) /\ k[1] = Constant(4*g + 4, 32)
      /\ p[1] = u[4] /\ p[2] = u[3] /\ p[3] = u[2] /\ p[4] = u[1]
  BY <1>3
<1>8. wk[4] = K(1) /\ wk[3] = K(2) /\ wk[2] = K(3) /\ wk[1] = K(4)
  BY <1>6, <1>7
<1> HIDE DEF p
<1>9. t = Turn4(q, wk[4], wk[3], wk[2], wk[1], 32)
  <2>1. t = Turn4(q, K(1), K(2), K(3), K(4), 32)
    BY Zenon DEF Turns
  <2> HIDE DEF K, t
  <2> QED
    BY <1>8, <2>1
<1>10. rounds4_256(<< Abef(q), Cdgh(q) >>, wk)
         = << Abef(Turn4(q, wk[4], wk[3], wk[2], wk[1], 32)),
              Cdgh(Turn4(q, wk[4], wk[3], wk[2], wk[1], 32)) >>
  BY FourTurns256
<1> HIDE DEF t
<1>11. rounds4_256(r, wk) = << Abef(t), Cdgh(t) >>
  BY <1>2, <1>9, <1>10
<1>12. Paired(32, t) = << Abef(t), Cdgh(t) >>
  BY DEF Paired
<1> QED
  BY <1>11, <1>12, Zenon DEF t, wk, p, q, k

(* rounds4_512 with its constants.                                         *)
LEMMA Regs512 ==
  ASSUME NEW r \in Registers(64), NEW u, NEW v, NEW g \in Nat
  PROVE  rounds4_512(r, Add(K64X2(2*g), u, 64), Add(K64X2(2*g + 1), v, 64))
           = Paired(64, Turns(Unpaired(64, r), << u[2], u[1], v[2], v[1] >>, g, 64))
<1> DEFINE q == Unpaired(64, r) p == << u[2], u[1], v[2], v[1] >>
           k0 == K64X2(2*g) k1 == K64X2(2*g + 1)
           wk0 == Add(k0, u, 64) wk1 == Add(k1, v, 64)
           t == Turns(q, p, g, 64)
           K(i) == wrapping_add(Constant(4*g + i, 64), p[i], 64)
<1>0. 64 # 32
  OBVIOUS
<1>1. r = Paired(64, q)
  BY PairedUnpaired
<1> HIDE DEF q
<1>2. r = << Pair(q, 1), Pair(q, 2), Pair(q, 3), Pair(q, 4) >>
  BY <1>0, <1>1 DEF Paired
<1>3. /\ 2 * (2*g) + 2 = 4*g + 2 /\ 2 * (2*g) + 1 = 4*g + 1
      /\ 2 * (2*g + 1) + 2 = 4*g + 4 /\ 2 * (2*g + 1) + 1 = 4*g + 3
  OBVIOUS
<1>4. /\ k0 = << Constant(4*g + 2, 64), Constant(4*g + 1, 64) >>
      /\ k1 = << Constant(4*g + 4, 64), Constant(4*g + 3, 64) >>
  BY <1>0, <1>3 DEF K64X2, Constant
<1> HIDE DEF k0, k1
<1>5. /\ wk0 = [i \in 1 .. 2 |-> wrapping_add(k0[i], u[i], 64)]
      /\ wk1 = [i \in 1 .. 2 |-> wrapping_add(k1[i], v[i], 64)]
  <2>1. DOMAIN k0 = 1 .. 2 /\ DOMAIN k1 = 1 .. 2
    BY <1>4
  <2> QED
    BY <2>1 DEF Add
<1> HIDE DEF wk0, wk1
<1>6. /\ wk0[2] = wrapping_add(k0[2], u[2], 64) /\ wk0[1] = wrapping_add(k0[1], u[1], 64)
      /\ wk1[2] = wrapping_add(k1[2], v[2], 64) /\ wk1[1] = wrapping_add(k1[1], v[1], 64)
  BY <1>5
<1>7. /\ k0[2] = Constant(4*g + 1, 64) /\ k0[1] = Constant(4*g + 2, 64)
      /\ k1[2] = Constant(4*g + 3, 64) /\ k1[1] = Constant(4*g + 4, 64)
      /\ p[1] = u[2] /\ p[2] = u[1] /\ p[3] = v[2] /\ p[4] = v[1]
  BY <1>4
<1>8. wk0[2] = K(1) /\ wk0[1] = K(2) /\ wk1[2] = K(3) /\ wk1[1] = K(4)
  BY <1>6, <1>7
<1> HIDE DEF p
<1>9. t = Turn4(q, wk0[2], wk0[1], wk1[2], wk1[1], 64)
  <2>1. t = Turn4(q, K(1), K(2), K(3), K(4), 64)
    BY Zenon DEF Turns
  <2> HIDE DEF K, t
  <2> QED
    BY <1>8, <2>1
<1> DEFINE s == Turn4(q, wk0[2], wk0[1], wk1[2], wk1[1], 64)
<1>10. rounds4_512(<< Pair(q, 1), Pair(q, 2), Pair(q, 3), Pair(q, 4) >>, wk0, wk1)
         = << Pair(s, 1), Pair(s, 2), Pair(s, 3), Pair(s, 4) >>
  BY FourTurns512
<1> HIDE DEF t, s
<1>11. Paired(64, t) = << Pair(t, 1), Pair(t, 2), Pair(t, 3), Pair(t, 4) >>
  BY <1>0 DEF Paired
<1>12. rounds4_512(r, wk0, wk1) = Paired(64, t)
  BY <1>2, <1>9, <1>10, <1>11 DEF s
<1> QED
  BY <1>12, Zenon DEF t, wk0, wk1, p, q, k0, k1

-----------------------------------------------------------------------------
(* One vector of a ring is written over.                                   *)
Written(new, rg, slot, u, slots) ==
  /\ new[slot] = u
  /\ \A k \in 0 .. (slots - 1) : k # slot => new[k] = rg[k]

(* Vectors that are close to each other have different slots.              *)
LEMMA OtherSlot ==
  ASSUME NEW k \in Nat, NEW g \in Nat, k < g
  PROVE  /\ k % 5 \in 0 .. 4 /\ g % 5 \in 0 .. 4 /\ k % 10 \in 0 .. 9 /\ g % 10 \in 0 .. 9
         /\ k >= g - 4 => k % 5 # g % 5
         /\ k >= g - 9 => k % 10 # g % 10
OBVIOUS

(* A vector is written over the oldest one only.                           *)
LEMMA RingNext256 ==
  ASSUME NEW rg, NEW R, NEW words \in Seq(Word(32)), NEW g \in Nat,
         Len(words) = 4 * g, RingHolds(rg, words, g, 4, 5), NEW u \in Vector(32),
         Written(R, rg, g % 5, u, 5)
  PROVE  RingHolds(R, words \o << u[4], u[3], u[2], u[1] >>, g + 1, 4, 5)
<1> DEFINE t == << u[4], u[3], u[2], u[1] >> w == words \o t
<1>0. /\ \A i \in 1 .. 4 : u[i] \in Word(32)
      /\ u = [i \in 1 .. 4 |-> u[i]]
  BY DEF Vector
<1>1. /\ Len(words) \in Nat
      /\ w[Len(words) + 1] = u[4] /\ w[Len(words) + 2] = u[3]
      /\ w[Len(words) + 3] = u[2] /\ w[Len(words) + 4] = u[1]
      /\ \A i \in 1 .. Len(words) : w[i] = words[i]
  <2> DEFINE m == Len(words)
  <2>1. /\ t \in Seq(Word(32)) /\ Len(t) = 4
        /\ t[1] = u[4] /\ t[2] = u[3] /\ t[3] = u[2] /\ t[4] = u[1]
    BY <1>0
  <2>2. m \in Nat
    BY LenProperties
  <2> HIDE DEF t
  <2>3. \A i \in 1 .. m + Len(t) : w[i] = IF i <= m THEN words[i] ELSE t[i - m]
    BY <2>1, ConcatProperties
  <2> HIDE DEF w, m
  <2>4. /\ \A i \in 1 .. m : i \in 1 .. m + 4 /\ i <= m
        /\ m + 1 \in 1 .. m + 4 /\ ~(m + 1 <= m) /\ (m + 1) - m = 1
        /\ m + 2 \in 1 .. m + 4 /\ ~(m + 2 <= m) /\ (m + 2) - m = 2
        /\ m + 3 \in 1 .. m + 4 /\ ~(m + 3 <= m) /\ (m + 3) - m = 3
        /\ m + 4 \in 1 .. m + 4 /\ ~(m + 4 <= m) /\ (m + 4) - m = 4
    BY <2>2
  <2>5. /\ w[m + 1] = u[4] /\ w[m + 2] = u[3] /\ w[m + 3] = u[2] /\ w[m + 4] = u[1]
        /\ \A i \in 1 .. m : w[i] = words[i]
    BY <2>1, <2>3, <2>4
  <2> QED
    BY <2>2, <2>5 DEF m
<1>3. R[g % 5] = u /\ \A k \in 0 .. 4 : k # g % 5 => R[k] = rg[k]
  BY DEF Written
<1> HIDE DEF w, t
<1>4. u = [i \in 1 .. 4 |-> w[4 * g + (4 + 1 - i)]]
  <2>1. /\ u[1] = w[4 * g + (4 + 1 - 1)] /\ u[2] = w[4 * g + (4 + 1 - 2)]
        /\ u[3] = w[4 * g + (4 + 1 - 3)] /\ u[4] = w[4 * g + (4 + 1 - 4)]
    BY <1>1
  <2>2. ASSUME NEW i \in 1 .. 4
        PROVE  u[i] = w[4 * g + (4 + 1 - i)]
    <3>1. i = 1 \/ i = 2 \/ i = 3 \/ i = 4
      OBVIOUS
    <3> QED
      BY <2>1, <3>1
  <2> QED
    BY <1>0, <2>2
<1>5. ASSUME NEW k \in 0 .. (g - 1), k >= g - 4
      PROVE  R[k % 5] = [i \in 1 .. 4 |-> w[4 * k + (4 + 1 - i)]]
  <2>1. k % 5 \in 0 .. 4 /\ k % 5 # g % 5
    <3>1. k \in Nat /\ k < g
      OBVIOUS
    <3> QED
      BY <1>5, <3>1, OtherSlot
  <2>2. \A i \in 1 .. 4 : 4 * k + (4 + 1 - i) \in 1 .. Len(words)
    OBVIOUS
  <2>3. rg[k % 5] = [i \in 1 .. 4 |-> words[4 * k + (4 + 1 - i)]]
    <3>1. k >= g - 5
      BY <1>5
    <3> QED
      BY <3>1, Zenon DEF RingHolds
  <2>4. \A i \in 1 .. 4 : w[4 * k + (4 + 1 - i)] = words[4 * k + (4 + 1 - i)]
    BY <1>1, <2>2
  <2> QED
    BY <1>3, <2>1, <2>3, <2>4
<1>6. ASSUME NEW k \in 0 .. ((g + 1) - 1), k >= (g + 1) - 5
      PROVE  R[k % 5] = [i \in 1 .. 4 |-> w[4 * k + (4 + 1 - i)]]
  <2>1. k = g \/ (k \in 0 .. (g - 1) /\ k >= g - 4)
    BY <1>6
  <2>2. CASE k = g
    BY <1>3, <1>4, <2>2
  <2> QED
    BY <1>5, <2>1, <2>2
<1>7. RingHolds(R, w, g + 1, 4, 5)
  BY <1>6, Zenon DEF RingHolds
<1> QED
  BY <1>7, Zenon DEF w, t

(* The same in the ring of ten.                                            *)
LEMMA RingNext512 ==
  ASSUME NEW rg, NEW R, NEW words \in Seq(Word(64)), NEW g \in Nat,
         Len(words) = 2 * g, RingHolds(rg, words, g, 2, 10), NEW u \in Vector(64),
         Written(R, rg, g % 10, u, 10)
  PROVE  /\ RingHolds(R, Append2(words, u[2], u[1]), g + 1, 2, 10)
         /\ Append2(words, u[2], u[1]) \in Seq(Word(64))
         /\ Len(Append2(words, u[2], u[1])) = 2 * (g + 1)
<1> DEFINE w == Append2(words, u[2], u[1])
<1>0. /\ u[1] \in Word(64) /\ u[2] \in Word(64)
      /\ u = [i \in 1 .. 2 |-> u[i]]
  <2>1. 64 # 32
    OBVIOUS
  <2> QED
    BY <2>1 DEF Vector
<1>1. /\ Len(words) \in Nat /\ w \in Seq(Word(64)) /\ Len(w) = Len(words) + 2
      /\ w[Len(words) + 1] = u[2] /\ w[Len(words) + 2] = u[1]
      /\ \A i \in 1 .. Len(words) : w[i] = words[i]
  <2> DEFINE a == u[2] b == u[1] x == Append(words, a) m == Len(words)
  <2>1. a \in Word(64) /\ b \in Word(64)
    BY <1>0
  <2>2. w = Append(x, b)
    BY DEF Append2
  <2> HIDE DEF a, b, w
  <2>3. /\ x \in Seq(Word(64)) /\ Len(x) = m + 1 /\ m \in Nat /\ x[m + 1] = a
        /\ \A i \in 1 .. m : x[i] = words[i]
    BY <2>1, Append1Is
  <2> HIDE DEF x, m
  <2>4. /\ w \in Seq(Word(64)) /\ Len(w) = Len(x) + 1 /\ w[Len(x) + 1] = b
        /\ \A i \in 1 .. Len(x) : w[i] = x[i]
    BY <2>1, <2>2, <2>3, Append1Is
  <2>5. /\ (m + 1) + 1 = m + 2 /\ m + 1 \in 1 .. m + 1
        /\ \A i \in 1 .. m : i \in 1 .. m + 1
    BY <2>3
  <2>6. /\ Len(w) = m + 2 /\ w[m + 1] = a /\ w[m + 2] = b
        /\ \A i \in 1 .. m : w[i] = words[i]
    BY <2>3, <2>4, <2>5
  <2> QED
    BY <2>3, <2>4, <2>6 DEF a, b, m
<1>3. R[g % 10] = u /\ \A k \in 0 .. 9 : k # g % 10 => R[k] = rg[k]
  BY DEF Written
<1> HIDE DEF w
<1>4. u = [i \in 1 .. 2 |-> w[2 * g + (2 + 1 - i)]]
  <2>1. u[1] = w[2 * g + (2 + 1 - 1)] /\ u[2] = w[2 * g + (2 + 1 - 2)]
    BY <1>1
  <2>2. \A i \in 1 .. 2 : u[i] = w[2 * g + (2 + 1 - i)]
    BY <2>1
  <2> QED
    BY <1>0, <2>2
<1>5. ASSUME NEW k \in 0 .. (g - 1), k >= g - 9
      PROVE  R[k % 10] = [i \in 1 .. 2 |-> w[2 * k + (2 + 1 - i)]]
  <2>1. k % 10 \in 0 .. 9 /\ k % 10 # g % 10
    <3>1. k \in Nat /\ k < g
      OBVIOUS
    <3> QED
      BY <1>5, <3>1, OtherSlot
  <2>2. \A i \in 1 .. 2 : 2 * k + (2 + 1 - i) \in 1 .. Len(words)
    OBVIOUS
  <2>3. rg[k % 10] = [i \in 1 .. 2 |-> words[2 * k + (2 + 1 - i)]]
    <3>1. k >= g - 10
      BY <1>5
    <3> QED
      BY <3>1, Zenon DEF RingHolds
  <2>4. \A i \in 1 .. 2 : w[2 * k + (2 + 1 - i)] = words[2 * k + (2 + 1 - i)]
    BY <1>1, <2>2
  <2> QED
    BY <1>3, <2>1, <2>3, <2>4
<1>6. ASSUME NEW k \in 0 .. ((g + 1) - 1), k >= (g + 1) - 10
      PROVE  R[k % 10] = [i \in 1 .. 2 |-> w[2 * k + (2 + 1 - i)]]
  <2>1. k = g \/ (k \in 0 .. (g - 1) /\ k >= g - 9)
    BY <1>6
  <2>2. CASE k = g
    BY <1>3, <1>4, <2>2
  <2> QED
    BY <1>5, <2>1, <2>2
<1>7. RingHolds(R, w, g + 1, 2, 10)
  BY <1>6, Zenon DEF RingHolds
<1>8. Len(w) = 2 * (g + 1)
  BY <1>1
<1> QED
  BY <1>1, <1>7, <1>8, Zenon DEF w

-----------------------------------------------------------------------------
(* The parts of the type invariant.                                        *)
Lanes(n) == IF n = 32 THEN 4 ELSE 2
Rings(n) == [0 .. (IF n = 32 THEN 4 ELSE 9) -> Vector(n) \cup {<<>>}]

Types ==
  /\ job \in Jobs /\ done \in 0 .. Len(job.blocks)
  /\ state \in [1 .. 8 -> Word(job.n)]
  /\ regs = <<>> \/ regs \in Registers(job.n)
  /\ regs # <<>> => done < Len(job.blocks) /\ ring \in Rings(job.n)
  /\ group \in 0 .. (IF job.n = 32 THEN 16 ELSE 20)
  /\ sched \in Seq(Word(job.n)) /\ Len(sched) = 4 * group

(* They are those of TypeOK.                                               *)
LEMMA TypesAre ==
  (TypeOK <=> Types) /\ (TypeOK' <=> Types')
<1>1. TypeOK <=> Types
  BY Zenon DEF TypeOK, Types, Registers, Vector, Rings
<1>2. TypeOK' <=> Types'
  BY Zenon DEF TypeOK, Types, Registers, Vector, Rings
<1> QED
  BY <1>1, <1>2

(* What is known of a job.                                                 *)
LEMMA JobIs ==
  ASSUME NEW j \in Jobs
  PROVE  /\ j.n \in {32, 64} /\ j.n \in Nat
         /\ j.iv \in [1 .. 8 -> Word(j.n)]
         /\ j.blocks \in Seq([1 .. 2 * j.n -> Word(8)]) /\ Len(j.blocks) \in Nat
<1>1. /\ j.n \in {32, 64} /\ j.iv \in [1 .. 8 -> Word(j.n)]
      /\ j.blocks \in Seq([1 .. 2 * j.n -> Word(8)])
  BY JobsAssumption
<1>2. j.n \in Nat
  BY <1>1
<1>3. Len(j.blocks) \in Nat
  BY <1>1, LenProperties
<1> QED
  BY <1>1, <1>2, <1>3

(* A block is sixteen words.                                               *)
LEMMA BlockIs ==
  ASSUME NEW j \in Jobs, NEW d \in Nat, d < Len(j.blocks)
  PROVE  read_be(j.blocks[d + 1], j.n) \in Blocks(j.n)
<1> DEFINE bytes == j.blocks[d + 1] n == j.n
           word(i) == { b \in Bits(n) : b % 8 \in bytes[i * (n \div 8) - (b \div 8)] }
<1>1. n \in {32, 64} /\ j.blocks \in Seq([1 .. 2 * n -> Word(8)]) /\ Len(j.blocks) \in Nat
  BY JobIs
<1>2. d + 1 \in 1 .. Len(j.blocks)
  BY <1>1
<1>3. bytes \in [1 .. 2 * n -> Word(8)]
  BY <1>1, <1>2, LenProperties
<1> HIDE DEF bytes, n
<1>4. 2 * n \in Nat
  BY <1>1
<1>5. Len(bytes) = 2 * n
  BY <1>3, <1>4, FunctionIsSeq
<1>6. (Len(bytes) * 8) \div n = 16
  BY <1>1, <1>5
<1>7. read_be(bytes, n) = [i \in 1 .. ((Len(bytes) * 8) \div n) |-> word(i)]
  BY Zenon DEF read_be
<1>8. \A i : word(i) \in Word(n)
  BY DEF Word
<1> HIDE DEF word
<1>9. read_be(bytes, n) \in [1 .. 16 -> Word(n)]
  BY <1>6, <1>7, <1>8
<1> QED
  BY <1>9 DEF bytes, n, Blocks

(* RingHoldsSchedule, with its numbers.                                    *)
LEMMA RingMeans ==
  ASSUME group \in Nat, group' \in Nat
  PROVE  /\ job.n = 32 => (RingHoldsSchedule <=>
              (regs # <<>> => RingHolds(ring, sched, group, 4, 5)))
         /\ job.n = 64 => (RingHoldsSchedule <=>
              (regs # <<>> => RingHolds(ring, sched, 2 * group, 2, 10)))
         /\ job'.n = 32 => (RingHoldsSchedule' <=>
              (regs' # <<>> => RingHolds(ring', sched', group', 4, 5)))
         /\ job'.n = 64 => (RingHoldsSchedule' <=>
              (regs' # <<>> => RingHolds(ring', sched', 2 * group', 2, 10)))
<1> DEFINE L == Lanes(job.n) M == Lanes(job'.n)
<1>1. RingHoldsSchedule <=>
        (regs # <<>> => RingHolds(ring, sched, (4 * group) \div L, L, 20 \div L))
  BY Zenon DEF RingHoldsSchedule, RingHolds, Lanes
<1>2. RingHoldsSchedule' <=>
        (regs' # <<>> => RingHolds(ring', sched', (4 * group') \div M, M, 20 \div M))
  BY Zenon DEF RingHoldsSchedule, RingHolds, Lanes
<1>3. /\ (4 * group) \div 4 = group /\ (4 * group) \div 2 = 2 * group
      /\ (4 * group') \div 4 = group' /\ (4 * group') \div 2 = 2 * group'
      /\ 20 \div 4 = 5 /\ 20 \div 2 = 10
  <2>1. ASSUME NEW k \in Nat
        PROVE  (4 * k) \div 4 = k /\ (4 * k) \div 2 = 2 * k
    OBVIOUS
  <2>2. 20 \div 4 = 5 /\ 20 \div 2 = 10
    OBVIOUS
  <2> QED
    BY <2>1, <2>2, Zenon
<1>4. /\ job.n = 32 => L = 4
      /\ job.n = 64 => L = 2
      /\ job'.n = 32 => M = 4
      /\ job'.n = 64 => M = 2
  BY DEF Lanes
<1> HIDE DEF L, M
<1>5. job.n = 32 => (RingHoldsSchedule <=>
              (regs # <<>> => RingHolds(ring, sched, group, 4, 5)))
  BY <1>1, <1>3, <1>4, Zenon
<1>6. job.n = 64 => (RingHoldsSchedule <=>
              (regs # <<>> => RingHolds(ring, sched, 2 * group, 2, 10)))
  BY <1>1, <1>3, <1>4, Zenon
<1>7. job'.n = 32 => (RingHoldsSchedule' <=>
              (regs' # <<>> => RingHolds(ring', sched', group', 4, 5)))
  BY <1>2, <1>3, <1>4, Zenon
<1>8. job'.n = 64 => (RingHoldsSchedule' <=>
              (regs' # <<>> => RingHolds(ring', sched', 2 * group', 2, 10)))
  BY <1>2, <1>3, <1>4, Zenon
<1> QED
  BY <1>5, <1>6, <1>7, <1>8, Zenon

(* The registers are taken from the chaining value in pairs.               *)
LEMMA BeginIs ==
  ASSUME NEW n \in {32, 64}, NEW s \in [1 .. 8 -> Word(n)]
  PROVE  Paired(n, s) = IF n = 32
                        THEN << << s[1], s[2], s[5], s[6] >>,
                                << s[3], s[4], s[7], s[8] >> >>
                        ELSE [i \in 1 .. 4 |-> << s[i], s[i + 4] >>]
<1>1. CASE n = 32
  BY <1>1 DEF Paired, Abef, Cdgh
<1>2. CASE n = 64
  <2>1. << Pair(s, 1), Pair(s, 2), Pair(s, 3), Pair(s, 4) >>
          = [i \in 1 .. 4 |-> Pair(s, i)]
    OBVIOUS
  <2>2. [i \in 1 .. 4 |-> Pair(s, i)] = [i \in 1 .. 4 |-> << s[i], s[i + 4] >>]
    BY Zenon DEF Pair
  <2>3. n # 32
    BY <1>2
  <2> QED
    BY <2>1, <2>2, <2>3, Zenon DEF Paired
<1> QED
  BY <1>1, <1>2

-----------------------------------------------------------------------------
(* Four rounds have been done, with the words p.                           *)
Moved(p) ==
  /\ Follow(sched, p, Block, job.n)
  /\ regs' = Paired(job.n, Turns(Unpaired(job.n, regs), p, group, job.n))
  /\ sched' = sched \o p

Vec256 == Next256(ring, Block, group)
VecA512 == NextA512(ring, Block, group)
VecB512 == NextB512(ring, Block, group)

Words256 == << Vec256[4], Vec256[3], Vec256[2], Vec256[1] >>
Words512 == << VecA512[2], VecA512[1], VecB512[2], VecB512[1] >>

(* A write to a slot of the ring.                                          *)
LEMMA WrittenIs ==
  ASSUME NEW S, NEW k \in Nat, NEW rg \in [0 .. (k - 1) -> S], NEW slot \in 0 .. (k - 1),
         NEW u \in S
  PROVE  /\ [rg EXCEPT ![slot] = u] \in [0 .. (k - 1) -> S]
         /\ Written([rg EXCEPT ![slot] = u], rg, slot, u, k)
BY DEF Written

(* A rounds4! of SHA-256.                                                  *)
LEMMA Rounds256Is ==
  ASSUME Types, RingHoldsSchedule, Rounds256
  PROVE  /\ Moved(Words256) /\ ring' \in Rings(job.n) /\ RingHoldsSchedule'
<1> DEFINE u == Vec256 p == Words256 b == Block
<1>1. /\ job.n = 32 /\ regs # <<>> /\ group < 16
      /\ ring' = [ring EXCEPT ![Slot(group, 5)] = u]
      /\ regs' = rounds4_256(regs, Add(K32X4(group), u, 32))
      /\ sched' = sched \o << u[4], u[3], u[2], u[1] >>
      /\ group' = group + 1 /\ job' = job
  BY Zenon DEF Rounds256, Vec256, Next256
<1>2. p = << u[4], u[3], u[2], u[1] >>
  BY Zenon DEF Words256
<1> HIDE DEF u, p, b
<1>3. /\ job \in Jobs /\ done \in Nat /\ done < Len(job.blocks) /\ regs \in Registers(32)
      /\ ring \in Rings(32) /\ group \in Nat
      /\ sched \in Seq(Word(32)) /\ Len(sched) = 4 * group
  BY <1>1 DEF Types
<1>4. b \in Blocks(32)
  BY <1>1, <1>3, BlockIs DEF b, Block
<1>5. group' \in Nat
  BY <1>1, <1>3
<1>6. RingHolds(ring, sched, group, 4, 5)
  BY <1>1, <1>3, <1>5, RingMeans
<1>7. u \in [1 .. 4 -> Word(32)] /\ Follow(sched, p, b, 32)
  <2>1. u = Next256(ring, b, group)
    BY Zenon DEF u, b, Vec256
  <2> QED
    BY <1>2, <1>3, <1>4, <1>6, <2>1, Next256Follows
<1>8. regs' = Paired(32, Turns(Unpaired(32, regs), p, group, 32))
  BY <1>1, <1>2, <1>3, Regs256
<1>9. u \in Vector(32)
  BY <1>7 DEF Vector
<1>10. ring' \in Rings(32) /\ Written(ring', ring, group % 5, u, 5)
  <2> DEFINE S == Vector(32) \cup {<<>>}
  <2>1. ring \in [0 .. (5 - 1) -> S] /\ Rings(32) = [0 .. (5 - 1) -> S]
    BY <1>3 DEF Rings
  <2>2. group % 5 \in 0 .. (5 - 1) /\ 5 \in Nat
    BY <1>3
  <2>3. u \in S /\ ring' = [ring EXCEPT ![group % 5] = u]
    BY <1>1, <1>9 DEF Slot
  <2> HIDE DEF S
  <2> QED
    BY <2>1, <2>2, <2>3, WrittenIs
<1>11. RingHolds(ring', sched', group + 1, 4, 5)
  BY <1>1, <1>3, <1>6, <1>9, <1>10, RingNext256
<1>12. RingHoldsSchedule'
  BY <1>1, <1>3, <1>5, <1>11, RingMeans
<1>13. Moved(p)
  BY <1>1, <1>2, <1>7, <1>8, Zenon DEF Moved, b
<1> QED
  BY <1>1, <1>10, <1>12, <1>13 DEF p

(* A rounds4! of SHA-512.                                                  *)
LEMMA Rounds512Is ==
  ASSUME Types, RingHoldsSchedule, Rounds512
  PROVE  /\ Moved(Words512) /\ ring' \in Rings(job.n) /\ RingHoldsSchedule'
<1> DEFINE u == VecA512 v == VecB512 p == Words512 b == Block
           half == [ring EXCEPT ![Slot(2*group, 10)] = u]
           words1 == Append2(sched, u[2], u[1])
           words2 == Append2(words1, v[2], v[1])
           g == 2 * group
<1>0. 64 # 32
  OBVIOUS
<1>1. /\ job.n = 64 /\ regs # <<>> /\ group < 20
      /\ ring' = [ring EXCEPT ![Slot(2*group, 10)] = u, ![Slot(2*group + 1, 10)] = v]
      /\ regs' = rounds4_512(regs, Add(K64X2(2*group), u, 64),
                             Add(K64X2(2*group + 1), v, 64))
      /\ sched' = sched \o << u[2], u[1], v[2], v[1] >>
      /\ group' = group + 1 /\ job' = job
  BY Zenon DEF Rounds512, VecA512, VecB512, NextA512, NextB512
<1>2. p = << u[2], u[1], v[2], v[1] >>
  BY Zenon DEF Words512
<1> HIDE DEF u, v, p, b
<1>3. /\ job \in Jobs /\ done \in Nat /\ done < Len(job.blocks) /\ regs \in Registers(64)
      /\ ring \in Rings(64) /\ group \in Nat
      /\ sched \in Seq(Word(64)) /\ Len(sched) = 4 * group
  BY <1>0, <1>1 DEF Types
<1>4. b \in Blocks(64)
  BY <1>1, <1>3, BlockIs DEF b, Block
<1>5. group' \in Nat
  BY <1>1, <1>3
<1>6. RingHolds(ring, sched, 2 * group, 2, 10)
  BY <1>1, <1>3, <1>5, RingMeans
<1>7. /\ u \in [1 .. 2 -> Word(64)] /\ v \in [1 .. 2 -> Word(64)]
      /\ Follow(sched, p, b, 64)
  <2>1. u = NextA512(ring, b, group) /\ v = NextB512(ring, b, group)
    BY Zenon DEF u, v, b, VecA512, VecB512
  <2> QED
    BY <1>2, <1>3, <1>4, <1>6, <2>1, Next512Follows
<1>8. regs' = Paired(64, Turns(Unpaired(64, regs), p, group, 64))
  BY <1>1, <1>2, <1>3, Regs512, SMTT(30)
<1>9. u \in Vector(64) /\ v \in Vector(64)
  BY <1>0, <1>7 DEF Vector
<1>10. /\ half \in Rings(64) /\ Written(half, ring, g % 10, u, 10)
       /\ ring' \in Rings(64) /\ Written(ring', half, (g + 1) % 10, v, 10)
  <2> DEFINE S == Vector(64) \cup {<<>>}
  <2>1. ring \in [0 .. (10 - 1) -> S] /\ Rings(64) = [0 .. (10 - 1) -> S]
    BY <1>0, <1>3 DEF Rings
  <2>2. g % 10 \in 0 .. (10 - 1) /\ (g + 1) % 10 \in 0 .. (10 - 1) /\ 10 \in Nat
    BY <1>3
  <2>3. /\ u \in S /\ v \in S
        /\ half = [ring EXCEPT ![g % 10] = u]
        /\ ring' = [half EXCEPT ![(g + 1) % 10] = v]
    BY <1>1, <1>9 DEF Slot
  <2> HIDE DEF S, half, g
  <2>4. half \in [0 .. (10 - 1) -> S] /\ Written(half, ring, g % 10, u, 10)
    BY <2>1, <2>2, <2>3, WrittenIs
  <2>5. ring' \in [0 .. (10 - 1) -> S] /\ Written(ring', half, (g + 1) % 10, v, 10)
    BY <2>2, <2>3, <2>4, WrittenIs
  <2> QED
    BY <2>1, <2>4, <2>5
<1>11. g \in Nat /\ Len(sched) = 2 * g /\ g + 1 \in Nat
       /\ (g + 1) + 1 = 2 * group' /\ RingHolds(ring, sched, g, 2, 10)
  BY <1>1, <1>3, <1>6
<1> HIDE DEF half, g, words1, words2
<1>12. /\ RingHolds(half, words1, g + 1, 2, 10)
       /\ words1 \in Seq(Word(64)) /\ Len(words1) = 2 * (g + 1)
  BY <1>3, <1>9, <1>10, <1>11, RingNext512 DEF words1
<1>13. RingHolds(ring', words2, (g + 1) + 1, 2, 10)
  BY <1>9, <1>10, <1>11, <1>12, RingNext512 DEF words2
<1>14. sched' = words2
  <2> DEFINE q == u[2] r == u[1] s == v[2] t == v[1]
  <2>1. /\ q \in Word(64) /\ r \in Word(64) /\ s \in Word(64) /\ t \in Word(64)
    BY <1>7
  <2>2. sched' = sched \o << q, r, s, t >>
    BY <1>1
  <2> HIDE DEF q, r, s, t
  <2>3. sched \o << q, r, s, t >> = Append4(sched, q, r, s, t)
    BY <1>3, <2>1, Append4Is, SMTT(30)
  <2>4. Append4(sched, q, r, s, t) = words2
    BY Zenon DEF Append4, Append3, Append2, words1, words2, q, r, s, t
  <2> QED
    BY <2>2, <2>3, <2>4
<1>15. RingHoldsSchedule'
  <2>1. RingHolds(ring', sched', 2 * group', 2, 10)
    BY <1>11, <1>13, <1>14
  <2> QED
    BY <1>1, <1>3, <1>5, <2>1, RingMeans
<1>16. Moved(p)
  BY <1>1, <1>2, <1>7, <1>8, Zenon DEF Moved, b
<1> QED
  BY <1>1, <1>10, <1>15, <1>16 DEF p

(* The schedule and the registers after four rounds.                       *)
LEMMA MovedIs ==
  ASSUME Types, regs # <<>>, NEW p, Moved(p)
  PROVE  /\ regs' \in Registers(job.n) /\ regs' # <<>>
         /\ Unpaired(job.n, regs') = Turns(Unpaired(job.n, regs), p, group, job.n)
         /\ sched' \in Seq(Word(job.n)) /\ Len(sched') = 4 * (group + 1)
<1> DEFINE n == job.n t == Turns(Unpaired(n, regs), p, group, n)
<1>1. /\ n \in {32, 64} /\ n \in Nat /\ regs \in Registers(n) /\ group \in Nat
      /\ sched \in Seq(Word(n)) /\ Len(sched) = 4 * group
  <2>1. job \in Jobs /\ regs \in Registers(n) /\ group \in Nat
        /\ sched \in Seq(Word(n)) /\ Len(sched) = 4 * group
    BY DEF Types
  <2> QED
    BY <2>1, JobIs
<1>2. regs' = Paired(n, t) /\ sched' = sched \o p /\ p \in [1 .. 4 -> Word(n)]
  BY Zenon DEF Moved, Follow
<1> HIDE DEF n
<1>3. Unpaired(n, regs) \in [1 .. 8 -> Word(n)]
  BY <1>1, PairedUnpaired
<1>4. t \in [1 .. 8 -> Word(n)]
  BY <1>1, <1>3, TurnsWords
<1> HIDE DEF t
<1>5. regs' \in Registers(n) /\ Unpaired(n, regs') = t
  BY <1>1, <1>2, <1>4, UnpairedPaired
<1>6. regs' # <<>>
  BY <1>1, <1>5 DEF Registers
<1>7. p \in Seq(Word(n)) /\ Len(p) = 4
  BY <1>2, FunctionIsSeq
<1>8. sched' \in Seq(Word(n)) /\ Len(sched') = Len(sched) + 4
  <2>1. sched' = sched \o p
    BY <1>2
  <2>2. sched \in Seq(Word(n))
    BY <1>1
  <2> DEFINE S == Word(n)
  <2> HIDE DEF S
  <2>3. sched \o p \in Seq(S) /\ Len(sched \o p) = Len(sched) + Len(p)
    BY <1>7, <2>2, ConcatProperties DEF S
  <2> QED
    BY <1>7, <2>1, <2>3 DEF S
<1>9. Len(sched') = 4 * (group + 1)
  BY <1>1, <1>8
<1> QED
  BY <1>5, <1>6, <1>8, <1>9 DEF n, t

-----------------------------------------------------------------------------
(* The inductive invariant: the types, and what the ring holds.            *)
IInv == Types /\ RingHoldsSchedule

(* It holds at first.                                                      *)
LEMMA InitIInv ==
  Init => IInv
<1> SUFFICES ASSUME Init
             PROVE  IInv
  OBVIOUS
<1>1. /\ job \in Jobs /\ done = 0 /\ state = job.iv /\ regs = <<>> /\ group = 0
      /\ sched = <<>>
  BY DEF Init
<1>2. /\ state \in [1 .. 8 -> Word(job.n)] /\ done \in 0 .. Len(job.blocks)
  <2>1. job.iv \in [1 .. 8 -> Word(job.n)]
    BY <1>1, JobIs
  <2>2. Len(job.blocks) \in Nat
    BY <1>1, JobIs
  <2>3. done \in 0 .. Len(job.blocks)
    BY <1>1, <2>2
  <2> QED
    BY <1>1, <2>1, <2>3
<1>3. /\ sched \in Seq(Word(job.n)) /\ Len(sched) = 4 * group
      /\ group \in 0 .. (IF job.n = 32 THEN 16 ELSE 20)
  BY <1>1
<1>4. Types
  BY <1>1, <1>2, <1>3, Zenon DEF Types
<1>5. RingHoldsSchedule
  BY <1>1, Zenon DEF RingHoldsSchedule
<1> QED
  BY <1>4, <1>5 DEF IInv

(* A block begins with the registers of the chaining value.                *)
LEMMA BeginBlockIs ==
  ASSUME Types, BeginBlock
  PROVE  /\ Types' /\ RingHoldsSchedule' /\ regs' = Paired(job.n, state) /\ regs' # <<>>
         /\ Unpaired(job.n, regs') = state
<1> DEFINE n == job.n
<1>1. /\ job \in Jobs /\ state \in [1 .. 8 -> Word(n)] /\ done < Len(job.blocks)
      /\ done \in 0 .. Len(job.blocks)
  BY DEF Types, BeginBlock
<1>2. n \in {32, 64} /\ n \in Nat
  BY <1>1, JobIs
<1>3. /\ group' = 0 /\ sched' = <<>> /\ job' = job /\ done' = done /\ state' = state
  BY DEF BeginBlock
<1>4. /\ n = 32 => /\ regs' = << << state[1], state[2], state[5], state[6] >>,
                                 << state[3], state[4], state[7], state[8] >> >>
                   /\ ring' = [i \in 0 .. 4 |-> <<>>]
      /\ n # 32 => /\ regs' = [i \in 1 .. 4 |-> << state[i], state[i + 4] >>]
                   /\ ring' = [i \in 0 .. 9 |-> <<>>]
  BY Zenon DEF BeginBlock
<1> HIDE DEF n
<1>5. regs' = Paired(n, state)
  <2>1. Paired(n, state) = IF n = 32
                           THEN << << state[1], state[2], state[5], state[6] >>,
                                   << state[3], state[4], state[7], state[8] >> >>
                           ELSE [i \in 1 .. 4 |-> << state[i], state[i + 4] >>]
    BY <1>1, <1>2, BeginIs
  <2> QED
    BY <1>4, <2>1, Zenon
<1>6. ring' \in Rings(n)
  <2>1. /\ n = 32 => ring' \in [0 .. 4 -> Vector(n) \cup {<<>>}]
        /\ n # 32 => ring' \in [0 .. 9 -> Vector(n) \cup {<<>>}]
    BY <1>4
  <2> QED
    BY <2>1 DEF Rings
<1>7. regs' \in Registers(n) /\ Unpaired(n, regs') = state
  BY <1>1, <1>2, <1>5, UnpairedPaired
<1>8. regs' # <<>>
  BY <1>2, <1>7 DEF Registers
<1>9. sched' \in Seq(Word(n)) /\ Len(sched') = 4 * group'
      /\ group' \in 0 .. (IF n = 32 THEN 16 ELSE 20)
  BY <1>3
<1>10. Types'
  BY <1>1, <1>3, <1>6, <1>7, <1>9, Zenon DEF Types, n
<1>11. RingHoldsSchedule'
  <2>1. RingHolds(ring', sched', 0, 4, 5) /\ RingHolds(ring', sched', 0, 2, 10)
    BY DEF RingHolds
  <2>2. group' = 0 /\ 2 * group' = 0 /\ group' \in Nat /\ group \in Nat
    BY <1>3 DEF Types
  <2> QED
    BY <1>2, <1>3, <2>1, <2>2, RingMeans DEF n
<1> QED
  BY <1>5, <1>7, <1>8, <1>10, <1>11 DEF n

(* The registers are added to the chaining value.                          *)
LEMMA EndBlockIs ==
  ASSUME Types, EndBlock
  PROVE  /\ Types' /\ RingHoldsSchedule'
         /\ state' = [i \in 1 .. 8 |->
                        wrapping_add(state[i], Unpaired(job.n, regs)[i], job.n)]
<1> DEFINE n == job.n v == Unpaired(n, regs)
<1>1. /\ job \in Jobs /\ state \in [1 .. 8 -> Word(n)] /\ regs # <<>>
      /\ group \in 0 .. (IF n = 32 THEN 16 ELSE 20)
      /\ sched \in Seq(Word(n)) /\ Len(sched) = 4 * group
  BY DEF Types, EndBlock
<1>2. n \in Nat /\ Len(job.blocks) \in Nat
  BY <1>1, JobIs
<1>3. done \in 0 .. Len(job.blocks) /\ done < Len(job.blocks)
  BY <1>1 DEF Types
<1>4. /\ job' = job /\ ring' = ring /\ group' = group /\ sched' = sched
      /\ done' = done + 1 /\ regs' = <<>>
  BY DEF EndBlock
<1>5. state' = [i \in DOMAIN state |-> wrapping_add(state[i], v[i], n)]
  BY Zenon DEF EndBlock, Add
<1> HIDE DEF v, n
<1>6. state' = [i \in 1 .. 8 |-> wrapping_add(state[i], v[i], n)]
  BY <1>1, <1>5
<1>7. state' \in [1 .. 8 -> Word(n)]
  <2>1. \A i \in 1 .. 8 : wrapping_add(state[i], v[i], n) \in Word(n)
    BY <1>2, SumBits
  <2> QED
    BY <1>6, <2>1
<1>8. done' \in 0 .. Len(job.blocks)
  BY <1>2, <1>3, <1>4
<1>9. Types'
  BY <1>1, <1>4, <1>7, <1>8, Zenon DEF Types, n
<1>10. RingHoldsSchedule'
  BY <1>4, Zenon DEF RingHoldsSchedule
<1> QED
  BY <1>6, <1>9, <1>10 DEF n, v

(* The types after four rounds.                                            *)
LEMMA RoundsTypes ==
  ASSUME Types, regs # <<>>, NEW p, Moved(p), ring' \in Rings(job.n),
         group' = group + 1, group < (IF job.n = 32 THEN 16 ELSE 20),
         job' = job, done' = done, state' = state
  PROVE  Types'
<1> DEFINE n == job.n
<1>1. /\ job \in Jobs /\ state \in [1 .. 8 -> Word(n)] /\ done \in 0 .. Len(job.blocks)
      /\ done < Len(job.blocks) /\ group \in 0 .. (IF n = 32 THEN 16 ELSE 20)
  BY DEF Types
<1>2. /\ regs' \in Registers(n) /\ sched' \in Seq(Word(n))
      /\ Len(sched') = 4 * (group + 1)
  BY MovedIs
<1>3. group' \in 0 .. (IF n = 32 THEN 16 ELSE 20) /\ Len(sched') = 4 * group'
  <2>1. n \in {32, 64}
    BY <1>1, JobIs
  <2> HIDE DEF n
  <2>2. group < (IF n = 32 THEN 16 ELSE 20)
    BY DEF n
  <2> QED
    BY <1>1, <1>2, <2>1, <2>2
<1> QED
  BY <1>1, <1>2, <1>3, Zenon DEF Types

(* Every step keeps the invariant.                                         *)
LEMMA NextIInv ==
  IInv /\ [Next]_vars => IInv'
<1> SUFFICES ASSUME IInv, [Next]_vars
             PROVE  IInv'
  OBVIOUS
<1>0. Types /\ RingHoldsSchedule
  BY DEF IInv
<1>1. CASE BeginBlock
  BY <1>0, <1>1, BeginBlockIs DEF IInv
<1>2. CASE Rounds256
  <2>1. Moved(Words256) /\ ring' \in Rings(job.n) /\ RingHoldsSchedule'
    BY <1>0, <1>2, Rounds256Is
  <2>2. /\ regs # <<>> /\ group' = group + 1 /\ job' = job /\ done' = done
        /\ state' = state /\ job.n = 32 /\ group < 16
    BY <1>2 DEF Rounds256
  <2>3. group < (IF job.n = 32 THEN 16 ELSE 20)
    BY <2>2
  <2>4. Types'
    BY <1>0, <2>1, <2>2, <2>3, RoundsTypes
  <2> QED
    BY <2>1, <2>4 DEF IInv
<1>3. CASE Rounds512
  <2>1. Moved(Words512) /\ ring' \in Rings(job.n) /\ RingHoldsSchedule'
    BY <1>0, <1>3, Rounds512Is
  <2>2. /\ regs # <<>> /\ group' = group + 1 /\ job' = job /\ done' = done
        /\ state' = state /\ job.n = 64 /\ group < 20
    BY <1>3 DEF Rounds512
  <2>3. group < (IF job.n = 32 THEN 16 ELSE 20)
    BY <2>2
  <2>4. Types'
    BY <1>0, <2>1, <2>2, <2>3, RoundsTypes
  <2> QED
    BY <2>1, <2>4 DEF IInv
<1>4. CASE EndBlock
  BY <1>0, <1>4, EndBlockIs DEF IInv
<1>5. CASE UNCHANGED vars
  <2>1. Types'
    BY <1>0, <1>5, Zenon DEF Types, vars
  <2>2. RingHoldsSchedule'
    <3>1. /\ job' = job /\ regs' = regs /\ ring' = ring /\ sched' = sched
          /\ group' = group
      BY <1>5 DEF vars
    <3>2. job \in Jobs /\ group \in Nat
      BY <1>0 DEF Types
    <3>3. job.n = 32 \/ job.n = 64
      BY <3>2, JobIs
    <3>4. group' \in Nat
      BY <3>1, <3>2
    <3> QED
      BY <1>0, <3>1, <3>2, <3>3, <3>4, RingMeans, Zenon
  <2> QED
    BY <2>1, <2>2 DEF IInv
<1> QED
  BY <1>1, <1>2, <1>3, <1>4, <1>5 DEF Next

(* sha256_digest_block and sha512_digest_block (sha2.rs:201-345, 452-636): *)
(* every vector, register and word of the schedule has its width, in every *)
(* state and for every message.                                            *)
THEOREM TypeCorrect == Spec => []TypeOK
<1>1. IInv => TypeOK
  BY TypesAre DEF IInv
<1> QED
  BY <1>1, InitIInv, NextIInv, PTL DEF Spec

(* The ring of vectors (sha2.rs:201-245, 452-526) holds the last twenty    *)
(* words of the schedule, whatever the message is and however often it has *)
(* been written around.                                                    *)
THEOREM RingCorrect == Spec => []RingHoldsSchedule
<1>1. IInv => RingHoldsSchedule
  BY DEF IInv
<1> QED
  BY <1>1, InitIInv, NextIInv, PTL DEF Spec

-----------------------------------------------------------------------------
(* The refinement.  The registers a to h, as the scalar form has them.     *)
V == IF regs = <<>> THEN <<>> ELSE Unpaired(job.n, regs)

(* They are there while a block is being processed.                        *)
LEMMA VIs ==
  ASSUME Types, regs # <<>>
  PROVE  V = Unpaired(job.n, regs) /\ V # <<>>
<1> DEFINE n == job.n
<1>1. job \in Jobs /\ regs \in Registers(n)
  BY DEF Types
<1>2. n \in {32, 64}
  BY <1>1, JobIs
<1> HIDE DEF n
<1>3. Unpaired(n, regs) \in [1 .. 8 -> Word(n)]
  BY <1>1, <1>2, PairedUnpaired
<1>4. Unpaired(n, regs) # <<>>
  BY <1>3
<1> QED
  BY <1>4 DEF V, n

(* A message begins in the same way.                                       *)
LEMMA RefinesInit ==
  Init => Scalar!RoundsInit
<1> SUFFICES ASSUME Init
             PROVE  Scalar!RoundsInit
  OBVIOUS
<1>1. /\ job \in Jobs /\ done = 0 /\ state = job.iv /\ regs = <<>> /\ sched = <<>>
  BY DEF Init
<1> QED
  BY <1>1, Zenon DEF Scalar!RoundsInit

(* So does a block.                                                        *)
LEMMA RefinesStart ==
  ASSUME Types, BeginBlock
  PROVE  Scalar!StartBlock
<1>1. /\ regs = <<>> /\ done < Len(job.blocks) /\ sched' = <<>>
      /\ job' = job /\ done' = done /\ state' = state
  BY DEF BeginBlock
<1>2. regs' # <<>> /\ Unpaired(job.n, regs') = state
  BY BeginBlockIs
<1>3. V = <<>> /\ V' = state
  BY <1>1, <1>2, Zenon DEF V
<1> QED
  BY <1>1, <1>3, Zenon DEF Scalar!StartBlock, V

(* A rounds4! is four rounds of the scalar form, one after the other.      *)
LEMMA RefinesRounds ==
  ASSUME Types, regs # <<>>, NEW p, Moved(p),
         group < (IF job.n = 32 THEN 16 ELSE 20),
         job' = job, done' = done, state' = state
  PROVE  Scalar!NextRounds
<1> DEFINE n == job.n q == Unpaired(n, regs) b == Block
           t == Turns(q, p, group, n)
<1>1. /\ job \in Jobs /\ group \in Nat
      /\ sched \in Seq(Word(n)) /\ Len(sched) = 4 * group
  BY DEF Types
<1>2. n \in {32, 64}
  BY <1>1, JobIs
<1>3. V = q /\ V # <<>>
  BY VIs
<1>4. regs' # <<>> /\ Unpaired(n, regs') = t
  BY MovedIs
<1>5. V' = t
  BY <1>4, Zenon DEF V
<1>6. sched' = sched \o p /\ Follow(sched, p, b, n)
  BY Zenon DEF Moved
<1>7. Scalar!read_be(job.blocks[done + 1], n) = b
  BY SameOperators DEF Block
<1>8. group < (IF n = 32 THEN 16 ELSE 20)
  OBVIOUS
<1> HIDE DEF n, q, b, t
<1>9. Scalar!FourRounds(Both(q, sched), b, n) = Both(t, sched \o p)
  BY <1>1, <1>2, <1>6, <1>8, FourRoundsFollow DEF t
<1>10. Len(sched) < Scalar!Rounds(n)
  BY <1>1, <1>2, <1>8 DEF Scalar!Rounds
<1>11. /\ V' = Scalar!FourRounds([v |-> V, w |-> sched], b, n).v
       /\ sched' = Scalar!FourRounds([v |-> V, w |-> sched], b, n).w
  <2> DEFINE s == [v |-> V, w |-> sched] F == Scalar!FourRounds(s, b, n)
  <2>1. s = Both(q, sched)
    BY <1>3 DEF Both
  <2> HIDE DEF s
  <2>2. F = Both(t, sched \o p)
    BY <1>9, <2>1
  <2> HIDE DEF F
  <2>3. F.v = t /\ F.w = sched \o p
    BY <2>2 DEF Both
  <2>4. V' = F.v /\ sched' = F.w
    BY <1>5, <1>6, <2>3
  <2> QED
    BY <2>4, Zenon DEF F, s
<1> QED
  BY <1>3, <1>7, <1>10, <1>11, Zenon DEF Scalar!NextRounds, V, n

(* A block ends with the sum.                                              *)
LEMMA RefinesEnd ==
  ASSUME Types, EndBlock
  PROVE  Scalar!EndBlock
<1> DEFINE n == job.n q == Unpaired(n, regs)
<1>1. /\ regs # <<>> /\ group = (IF n = 32 THEN 16 ELSE 20) /\ regs' = <<>>
      /\ job' = job /\ sched' = sched /\ done' = done + 1
  BY DEF EndBlock
<1>2. V = q /\ V # <<>> /\ V' = <<>>
  BY <1>1, VIs, Zenon DEF V
<1>3. state' = [i \in 1 .. 8 |-> wrapping_add(state[i], q[i], n)]
  BY EndBlockIs
<1>4. Len(sched) = 4 * group
  BY DEF Types
<1> HIDE DEF n, q
<1>5. Len(sched) = Scalar!Rounds(n)
  BY <1>1, <1>4 DEF Scalar!Rounds
<1>6. state' = [i \in 1 .. 8 |-> Scalar!wrapping_add(state[i], V[i], n)]
  BY <1>2, <1>3, SameOperators, Zenon
<1> QED
  BY <1>1, <1>2, <1>5, <1>6, Zenon DEF Scalar!EndBlock, V, n

(* Every step is one of the scalar form.                                   *)
LEMMA RefinesNext ==
  IInv /\ [Next]_vars => [Scalar!RoundsNext]_(Scalar!roundVars)
<1> SUFFICES ASSUME IInv, [Next]_vars
             PROVE  [Scalar!RoundsNext]_(Scalar!roundVars)
  OBVIOUS
<1>0. Types /\ RingHoldsSchedule
  BY DEF IInv
<1>1. CASE BeginBlock
  BY <1>0, <1>1, RefinesStart, Zenon DEF Scalar!RoundsNext
<1>2. CASE Rounds256
  <2>1. Moved(Words256)
    BY <1>0, <1>2, Rounds256Is
  <2>2. /\ regs # <<>> /\ job' = job /\ done' = done
        /\ state' = state /\ job.n = 32 /\ group < 16
    BY <1>2 DEF Rounds256
  <2>3. group < (IF job.n = 32 THEN 16 ELSE 20)
    BY <2>2
  <2>4. Scalar!NextRounds
    BY <1>0, <2>1, <2>2, <2>3, RefinesRounds
  <2> QED
    BY <2>4, Zenon DEF Scalar!RoundsNext
<1>3. CASE Rounds512
  <2>1. Moved(Words512)
    BY <1>0, <1>3, Rounds512Is
  <2>2. /\ regs # <<>> /\ job' = job /\ done' = done
        /\ state' = state /\ job.n = 64 /\ group < 20
    BY <1>3 DEF Rounds512
  <2>3. group < (IF job.n = 32 THEN 16 ELSE 20)
    BY <2>2
  <2>4. Scalar!NextRounds
    BY <1>0, <2>1, <2>2, <2>3, RefinesRounds
  <2> QED
    BY <2>4, Zenon DEF Scalar!RoundsNext
<1>4. CASE EndBlock
  BY <1>0, <1>4, RefinesEnd, Zenon DEF Scalar!RoundsNext
<1>5. CASE UNCHANGED vars
  BY <1>5, Zenon DEF vars, Scalar!roundVars
<1> QED
  BY <1>1, <1>2, <1>3, <1>4, <1>5 DEF Next

(* The vectors and the paired registers compute what the comments say they *)
(* replace (sha2.rs:300-345, 589-636): block after block, the scalar form  *)
(* of SHA-256 and SHA-512, for every message.                              *)
THEOREM ComputesSha2Rounds == Spec => RefinesSha2Rounds
<1> QED
  BY RefinesInit, RefinesNext, InitIInv, NextIInv, PTL
     DEF Spec, RefinesSha2Rounds, Scalar!RoundsSpec
=============================================================================
