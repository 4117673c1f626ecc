--------------------------- MODULE XorRegion_proofs ---------------------------
(***************************************************************************)
(* Lemmas about the operators of XorRegion, for any group of bytes and any *)
(* BUF_SIZE.                                                               *)
(***************************************************************************)
EXTENDS XorRegion, TLAPS

(* The arguments of a call.                                                *)
Args == [file_pos : Nat, pad_pos : Nat, size : Nat]

(* g is the file f with the bytes of buf from pos on, byte by byte.        *)
IsWritten(g, f, pos, buf) ==
  /\ g \in Seq(Byte)
  /\ Len(g) = MaxOf(Len(f), pos + Len(buf))
  /\ \A i \in 1 .. MaxOf(Len(f), pos + Len(buf)) :
       g[i] = IF pos < i /\ i <= pos + Len(buf) THEN buf[i - pos] ELSE f[i]

(* g is the file f after w bytes of a call, byte by byte.                  *)
IsRegionAfter(g, f, pad, c, w) ==
  /\ g \in Seq(Byte)
  /\ Len(g) = MaxOf(Len(f), c.file_pos + w)
  /\ \A i \in 1 .. MaxOf(Len(f), c.file_pos + w) :
       g[i] = IF c.file_pos < i /\ i <= c.file_pos + w
              THEN LoopByte(f, pad, c, i - c.file_pos - 1)
              ELSE f[i]

(* A write keeps the bytes around it and has the length the file system    *)
(* gives it.                                                               *)
LEMMA WriteAtLemma ==
  ASSUME NEW f \in Seq(Byte), NEW buf \in Seq(Byte), NEW pos \in Nat,
         pos <= Len(f)
  PROVE  IsWritten(WriteAt(f, pos, buf), f, pos, buf)
<1> DEFINE m == MaxOf(Len(f), pos + Len(buf))
           g(i) == IF pos < i /\ i <= pos + Len(buf) THEN buf[i - pos] ELSE f[i]
<1>1. m \in Nat
  BY DEF MaxOf
<1>2. \A i \in 1 .. m : g(i) \in Byte
  BY DEF MaxOf
<1>3. WriteAt(f, pos, buf) = [i \in 1 .. m |-> g(i)]
  BY DEF WriteAt
<1> HIDE DEF m, g
<1>4. /\ [i \in 1 .. m |-> g(i)] \in Seq(Byte)
      /\ Len([i \in 1 .. m |-> g(i)]) = m
      /\ \A i \in 1 .. m : [j \in 1 .. m |-> g(j)][i] = g(i)
  BY <1>1, <1>2
<1> QED
  BY <1>3, <1>4 DEF m, g, IsWritten

(* The XOR of two buffers is as long as the first.                         *)
LEMMA XorBufLemma ==
  ASSUME NEW buf \in Seq(Byte), NEW key \in Seq(Byte), Len(buf) <= Len(key)
  PROVE  /\ XorBuf(buf, key) \in Seq(Byte)
         /\ Len(XorBuf(buf, key)) = Len(buf)
         /\ \A i \in 1 .. Len(buf) : XorBuf(buf, key)[i] = Xor(buf[i], key[i])
<1>1. \A i \in 1 .. Len(buf) : Xor(buf[i], key[i]) \in Byte
  BY XorLaws
<1> QED
  BY <1>1 DEF XorBuf

(* Each byte the loop writes is a byte, as long as the region fits and the *)
(* loop does not write more than one chunk past it.                        *)
LEMMA LoopByteLemma ==
  ASSUME NEW f \in Seq(Byte), NEW pad \in Seq(Byte), NEW c \in Args,
         PartFits(Len(f), c.file_pos, c.size),
         PartFits(Len(pad), c.pad_pos, c.size),
         NEW d \in Nat, d < c.size + BUF_SIZE
  PROVE  LoopByte(f, pad, c, d) \in Byte
<1> USE BufSizeAssumption DEF Args
<1>1. ASSUME NEW e \in Nat, e < c.size
      PROVE  Decrypted(f, pad, c, e) \in Byte
  <2>1. f[c.file_pos + e + 1] \in Byte
    BY <1>1 DEF PartFits
  <2>2. pad[c.pad_pos + e + 1] \in Byte
    BY <1>1 DEF PartFits
  <2> QED
    BY <2>1, <2>2, XorLaws DEF Decrypted
<1>2. CASE d < c.size
  BY <1>1, <1>2 DEF LoopByte
<1>3. CASE d >= c.size /\ d < BUF_SIZE
  BY <1>3, XorLaws DEF LoopByte
<1>4. CASE d >= c.size /\ d >= BUF_SIZE
  BY <1>1, <1>4 DEF LoopByte
<1> QED
  BY <1>2, <1>3, <1>4

(* The closed form is a file; its length and bytes.                        *)
LEMMA RegionAfterLemma ==
  ASSUME NEW f \in Seq(Byte), NEW pad \in Seq(Byte), NEW c \in Args,
         PartFits(Len(f), c.file_pos, c.size),
         PartFits(Len(pad), c.pad_pos, c.size),
         NEW w \in Nat, w < c.size + BUF_SIZE
  PROVE  IsRegionAfter(RegionAfter(f, pad, c, w), f, pad, c, w)
<1> USE DEF Args, IsRegionAfter
<1> DEFINE m == MaxOf(Len(f), c.file_pos + w)
           g(i) == IF c.file_pos < i /\ i <= c.file_pos + w
                   THEN LoopByte(f, pad, c, i - c.file_pos - 1)
                   ELSE f[i]
<1>1. CASE w = 0
  BY <1>1 DEF RegionAfter, MaxOf, PartFits
<1>2. CASE w # 0
  <2>1. m \in Nat
    BY DEF MaxOf
  <2>2. ASSUME NEW i \in 1 .. m
        PROVE  g(i) \in Byte
    <3>1. CASE c.file_pos < i /\ i <= c.file_pos + w
      <4>1. /\ i - c.file_pos - 1 \in Nat
            /\ i - c.file_pos - 1 < c.size + BUF_SIZE
        BY <3>1, BufSizeAssumption
      <4> QED
        BY <3>1, <4>1, LoopByteLemma
    <3>2. CASE ~(c.file_pos < i /\ i <= c.file_pos + w)
      BY <3>2 DEF MaxOf, PartFits
    <3> QED
      BY <3>1, <3>2
  <2>3. RegionAfter(f, pad, c, w) = [i \in 1 .. m |-> g(i)]
    BY <1>2 DEF RegionAfter
  <2> HIDE DEF m, g
  <2>4. /\ [i \in 1 .. m |-> g(i)] \in Seq(Byte)
        /\ Len([i \in 1 .. m |-> g(i)]) = m
        /\ \A i \in 1 .. m : [j \in 1 .. m |-> g(j)][i] = g(i)
    BY <2>1, <2>2
  <2> QED
    BY <2>3, <2>4 DEF m, g
<1> QED
  BY <1>1, <1>2

(* Where in the written bytes an index of the file lies.                   *)
LEMMA IndexInWrite ==
  ASSUME NEW p \in Nat, NEW w \in Nat, NEW k \in Nat, NEW i \in Int,
         p + w < i, i <= p + w + k
  PROVE  /\ i - (p + w) \in 1 .. k
         /\ w + (i - (p + w)) - 1 = i - p - 1
OBVIOUS

(* One write carries the closed form from w bytes to w + k bytes, when     *)
(* buf holds the k bytes that LoopByte asks for.                           *)
LEMMA WriteExtends ==
  ASSUME NEW f \in Seq(Byte), NEW pad \in Seq(Byte), NEW c \in Args,
         PartFits(Len(f), c.file_pos, c.size),
         PartFits(Len(pad), c.pad_pos, c.size),
         NEW w \in Nat, NEW k \in Nat \ {0}, w + k < c.size + BUF_SIZE,
         NEW buf \in Seq(Byte)
  PROVE  /\ Len(buf) = k
         /\ \A i \in 1 .. k : buf[i] = LoopByte(f, pad, c, w + i - 1)
         => WriteAt(RegionAfter(f, pad, c, w), c.file_pos + w, buf)
              = RegionAfter(f, pad, c, w + k)
<1> USE BufSizeAssumption DEF Args
<1> DEFINE before == RegionAfter(f, pad, c, w)
           after == RegionAfter(f, pad, c, w + k)
           wrote == WriteAt(before, c.file_pos + w, buf)
           m == MaxOf(Len(f), c.file_pos + w + k)
<1>0. /\ w \in Nat /\ k \in Nat /\ k > 0 /\ w < c.size + BUF_SIZE
      /\ c.file_pos \in Nat
  OBVIOUS
<1>1. /\ before \in Seq(Byte)
      /\ Len(before) = MaxOf(Len(f), c.file_pos + w)
      /\ \A i \in 1 .. MaxOf(Len(f), c.file_pos + w) :
           before[i] = IF c.file_pos < i /\ i <= c.file_pos + w
                       THEN LoopByte(f, pad, c, i - c.file_pos - 1)
                       ELSE f[i]
  <2>1. IsRegionAfter(before, f, pad, c, w)
    BY <1>0, RegionAfterLemma
  <2> QED
    BY <2>1 DEF IsRegionAfter
<1>2. /\ after \in Seq(Byte)
      /\ Len(after) = m
      /\ \A i \in 1 .. m :
           after[i] = IF c.file_pos < i /\ i <= c.file_pos + w + k
                      THEN LoopByte(f, pad, c, i - c.file_pos - 1)
                      ELSE f[i]
  <2> DEFINE n == w + k
  <2>1. n \in Nat /\ n < c.size + BUF_SIZE
    BY <1>0
  <2> HIDE DEF n
  <2>2. IsRegionAfter(RegionAfter(f, pad, c, n), f, pad, c, n)
    BY <2>1, RegionAfterLemma
  <2>3. IsRegionAfter(after, f, pad, c, w + k)
    BY <2>2 DEF n
  <2>4. c.file_pos + (w + k) = c.file_pos + w + k
    BY <1>0
  <2> HIDE DEF after
  <2> QED
    BY <2>3, <2>4 DEF IsRegionAfter
<1> HIDE DEF before, after
<1> SUFFICES ASSUME Len(buf) = k,
                    \A i \in 1 .. k : buf[i] = LoopByte(f, pad, c, w + i - 1)
             PROVE  wrote = after
  BY DEF before, after
<1>3. c.file_pos + w <= Len(before) /\ c.file_pos + w \in Nat
  BY <1>0, <1>1 DEF MaxOf
<1>4. /\ wrote \in Seq(Byte)
      /\ Len(wrote) = MaxOf(Len(before), c.file_pos + w + k)
      /\ \A i \in 1 .. MaxOf(Len(before), c.file_pos + w + k) :
           wrote[i] = IF c.file_pos + w < i /\ i <= c.file_pos + w + k
                      THEN buf[i - (c.file_pos + w)] ELSE before[i]
  <2> DEFINE p == c.file_pos + w
  <2>1. p \in Nat /\ p <= Len(before)
    BY <1>3
  <2> HIDE DEF p
  <2>2. IsWritten(WriteAt(before, p, buf), before, p, buf)
    BY <1>1, <2>1, WriteAtLemma
  <2>3. IsWritten(wrote, before, c.file_pos + w, buf)
    BY <2>2 DEF p
  <2>4. c.file_pos + w + Len(buf) = c.file_pos + w + k
    OBVIOUS
  <2> HIDE DEF wrote
  <2> QED
    BY <2>3, <2>4 DEF IsWritten
<1> HIDE DEF wrote
<1>5. MaxOf(Len(before), c.file_pos + w + k) = m /\ m \in Nat
  BY <1>0, <1>1, SMTT(30) DEF MaxOf
<1>6. ASSUME NEW i \in 1 .. m
      PROVE  wrote[i] = after[i]
  <2>1. CASE c.file_pos + w < i /\ i <= c.file_pos + w + k
    <3>1. wrote[i] = buf[i - (c.file_pos + w)]
      BY <1>4, <1>5, <2>1
    <3>2. /\ i - (c.file_pos + w) \in 1 .. k
          /\ w + (i - (c.file_pos + w)) - 1 = i - c.file_pos - 1
      <4>1. i \in Int
        BY <1>5
      <4> QED
        BY <1>0, <2>1, <4>1, IndexInWrite, SMTT(30)
    <3>3. buf[i - (c.file_pos + w)] = LoopByte(f, pad, c, i - c.file_pos - 1)
      BY <3>2
    <3> QED
      BY <1>0, <1>2, <2>1, <3>1, <3>3
  <2>2. CASE ~(c.file_pos + w < i /\ i <= c.file_pos + w + k)
    <3>1. wrote[i] = before[i]
      BY <1>4, <1>5, <2>2
    <3>2. i \in 1 .. MaxOf(Len(f), c.file_pos + w)
      BY <1>0, <1>5, <2>2 DEF MaxOf
    <3>3. CASE c.file_pos < i /\ i <= c.file_pos + w
      <4>1. before[i] = LoopByte(f, pad, c, i - c.file_pos - 1)
        BY <1>1, <3>2, <3>3
      <4>2. c.file_pos < i /\ i <= c.file_pos + w + k
        BY <1>0, <1>5, <3>3
      <4>3. after[i] = LoopByte(f, pad, c, i - c.file_pos - 1)
        BY <1>2, <4>2
      <4> QED
        BY <3>1, <4>1, <4>3
    <3>4. CASE ~(c.file_pos < i /\ i <= c.file_pos + w)
      <4>1. before[i] = f[i]
        BY <1>1, <3>2, <3>4
      <4>2. ~(c.file_pos < i /\ i <= c.file_pos + w + k)
        BY <1>0, <1>5, <2>2, <3>4
      <4>3. after[i] = f[i]
        BY <1>2, <4>2
      <4> QED
        BY <3>1, <4>1, <4>3
    <3> QED
      BY <3>3, <3>4
  <2> QED
    BY <2>1, <2>2
<1>7. wrote = after
  <2>1. Len(wrote) = m /\ Len(after) = m
    BY <1>2, <1>4, <1>5
  <2> HIDE DEF m
  <2>2. /\ wrote \in [1 .. m -> Byte]
        /\ after \in [1 .. m -> Byte]
    BY <1>2, <1>4, <2>1, SMTT(30)
  <2>3. /\ wrote = [i \in 1 .. m |-> wrote[i]]
        /\ after = [i \in 1 .. m |-> after[i]]
    BY <2>2, Zenon
  <2>4. [i \in 1 .. m |-> wrote[i]] = [i \in 1 .. m |-> after[i]]
    BY <1>6, Zenon
  <2> QED
    BY <2>3, <2>4, Zenon
<1> QED
  BY <1>7
=============================================================================
