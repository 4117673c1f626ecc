-------------------------- MODULE ByteBuffers_proofs --------------------------
(***************************************************************************)
(* What the buffers of src/crypto/src/buffer.rs and symm_enc_or_dec        *)
(* (cryptoutil.rs:249) do, for every byte type, keystream and size of      *)
(* input, store and output.                                                *)
(***************************************************************************)
EXTENDS ByteBuffers, DataLemmas

-----------------------------------------------------------------------------
(* The cipher: process keeps the type and the length of the bytes.         *)
LEMMA ProcessType ==
  ASSUME NEW at \in Nat, NEW bytes \in Seq(Byte)
  PROVE  /\ process(at, bytes) \in Seq(Byte)
         /\ Len(process(at, bytes)) = Len(bytes)
         /\ \A i \in 1 .. Len(bytes) :
              process(at, bytes)[i] = Xor(bytes[i], Key[((at + i - 1) % Len(Key)) + 1])
<1>1. Len(Key) \in Nat \ {0} /\ Len(bytes) \in Nat
  BY KeyAssumption, EmptySeq, LenProperties
<1>2. ASSUME NEW i \in 1 .. Len(bytes)
      PROVE  Xor(bytes[i], Key[((at + i - 1) % Len(Key)) + 1]) \in Byte
  <2> DEFINE a == at + i - 1
             j == (a % Len(Key)) + 1
  <2>1. a \in Nat
    BY <1>1
  <2>2. a % Len(Key) \in 0 .. (Len(Key) - 1)
    <3> HIDE DEF a
    <3> QED
      BY <1>1, <2>1, ModRange
  <2>3. j \in 1 .. Len(Key)
    BY <1>1, <2>2
  <2> HIDE DEF j
  <2>4. Key[j] \in Byte /\ bytes[i] \in Byte
    BY <1>1, <2>3, KeyAssumption, ElementOfSeq
  <2>5. Xor(bytes[i], Key[j]) \in Byte
    BY <2>4, ByteAssumption
  <2> QED
    BY <2>5 DEF j
<1> DEFINE g(i) == Xor(bytes[i], Key[((at + i - 1) % Len(Key)) + 1])
           n == Len(bytes)
<1>3. \A i \in 1 .. n : g(i) \in Byte
  BY <1>2
<1>4. n \in Nat /\ process(at, bytes) = [i \in 1 .. n |-> g(i)]
  BY <1>1 DEF process
<1>5. \A i \in 1 .. n : g(i) = Xor(bytes[i], Key[((at + i - 1) % Len(Key)) + 1])
  OBVIOUS
<1> HIDE DEF g, n
<1>6. /\ [i \in 1 .. n |-> g(i)] \in Seq(Byte)
      /\ Len([i \in 1 .. n |-> g(i)]) = n
      /\ \A i \in 1 .. n : [j \in 1 .. n |-> g(j)][i] = g(i)
  BY <1>3, <1>4
<1>7. /\ process(at, bytes) \in Seq(Byte)
      /\ Len(process(at, bytes)) = n
      /\ \A i \in 1 .. n :
           process(at, bytes)[i] = Xor(bytes[i], Key[((at + i - 1) % Len(Key)) + 1])
  BY <1>4, <1>5, <1>6
<1> QED
  BY <1>7 DEF n

(* Where the cipher is in its keystream.                                   *)
LEMMA MovedType ==
  ASSUME NEW at \in Nat, NEW count \in Nat
  PROVE  /\ Moved(at, count) \in 0 .. (Len(Key) - 1)
         /\ Moved(at, count) \in Nat
<1>1. Len(Key) \in Nat \ {0}
  BY KeyAssumption, EmptySeq, LenProperties
<1> DEFINE a == at + count
<1>2. a \in Nat
  OBVIOUS
<1> HIDE DEF a
<1>3. a % Len(Key) \in 0 .. (Len(Key) - 1)
  BY <1>1, <1>2, ModRange
<1>4. a % Len(Key) \in Nat
  BY <1>1, <1>3
<1> QED
  BY <1>3, <1>4 DEF Moved, a

(* Moving twice is moving by the sum.                                      *)
LEMMA MovedTwice ==
  ASSUME NEW at \in Nat, NEW m \in Nat, NEW n \in Nat
  PROVE  Moved(Moved(at, m), n) = Moved(at, m + n)
<1>1. Len(Key) \in Nat \ {0}
  BY KeyAssumption, EmptySeq, LenProperties
<1> DEFINE a == at + m
<1>2. a \in Nat /\ at + (m + n) = a + n
  OBVIOUS
<1> HIDE DEF a
<1>3. ((a % Len(Key)) + n) % Len(Key) = (a + n) % Len(Key)
  BY <1>1, <1>2, ModAdd
<1> QED
  BY <1>2, <1>3 DEF Moved, a

(* Moving by nothing stays where it is.                                    *)
LEMMA MovedNowhere ==
  ASSUME NEW at \in 0 .. (Len(Key) - 1)
  PROVE  Moved(at, 0) = at
<1>1. Len(Key) \in Nat \ {0}
  BY KeyAssumption, EmptySeq, LenProperties
<1>2. at + 0 = at /\ at \in Nat /\ at < Len(Key) /\ 0 \in Nat
      /\ at = Len(Key) * 0 + at
  BY <1>1
<1>3. at % Len(Key) = at
  BY <1>1, <1>2, ModUnique
<1> QED
  BY <1>2, <1>3 DEF Moved

(* Bytes processed in two parts are processed as they would be in one: the *)
(* cuts that the sizes of the buffers make do not show.                    *)
LEMMA ProcessConcat ==
  ASSUME NEW at \in Nat, NEW s \in Seq(Byte), NEW t \in Seq(Byte)
  PROVE  process(at, s \o t) = process(at, s) \o process(Moved(at, Len(s)), t)
<1> DEFINE u == s \o t
           m == Len(s)
           n == Len(t)
           q == process(Moved(at, m), t)
           p == process(at, s)
           r == process(at, u)
<1>1. m \in Nat /\ n \in Nat /\ Len(Key) \in Nat \ {0}
  BY LenProperties, KeyAssumption, EmptySeq
<1>2. /\ u \in Seq(Byte) /\ Len(u) = m + n
      /\ \A i \in 1 .. m + n : u[i] = IF i <= m THEN s[i] ELSE t[i - m]
  BY ConcatProperties
<1>3. Moved(at, m) \in Nat
  BY <1>1, MovedType
<1>4. /\ p \in Seq(Byte) /\ Len(p) = m
      /\ \A i \in 1 .. m : p[i] = Xor(s[i], Key[((at + i - 1) % Len(Key)) + 1])
  BY ProcessType
<1>5. /\ q \in Seq(Byte) /\ Len(q) = n
      /\ \A i \in 1 .. n :
           q[i] = Xor(t[i], Key[((Moved(at, m) + i - 1) % Len(Key)) + 1])
  BY <1>3, ProcessType
<1>6. /\ r \in Seq(Byte) /\ Len(r) = m + n
      /\ \A i \in 1 .. m + n :
           r[i] = Xor(u[i], Key[((at + i - 1) % Len(Key)) + 1])
  <2> HIDE DEF u
  <2> QED
    BY <1>2, ProcessType
<1>7. /\ p \o q \in Seq(Byte) /\ Len(p \o q) = m + n
      /\ \A i \in 1 .. m + n : (p \o q)[i] = IF i <= m THEN p[i] ELSE q[i - m]
  <2> HIDE DEF p, q, m, n
  <2> QED
    BY <1>1, <1>4, <1>5, ConcatProperties, ZenonT(60)
<1> HIDE DEF u, m, n, p, q, r
<1>8. ASSUME NEW i \in 1 .. m + n
      PROVE  r[i] = (p \o q)[i]
  <2>1. CASE i <= m
    <3>1. i \in 1 .. m
      BY <1>1, <2>1
    <3> QED
      BY <1>2, <1>4, <1>6, <1>7, <2>1, <3>1, ZenonT(60)
  <2>2. CASE ~(i <= m)
    <3> DEFINE j == i - m
    <3>0. i \in Int /\ i > m /\ i <= m + n /\ i \in 1 .. m + n
      BY <1>1, <2>2
    <3>1. j \in 1 .. n /\ u[i] = t[j] /\ (p \o q)[i] = q[j]
      <4>1. j \in 1 .. n
        BY <1>1, <3>0
      <4>2. u[i] = t[j]
        BY <1>2, <2>2, <3>0
      <4>3. (p \o q)[i] = q[j]
        BY <1>7, <2>2, <3>0
      <4> QED
        BY <4>1, <4>2, <4>3
    <3>2. (Moved(at, m) + j - 1) % Len(Key) = (at + i - 1) % Len(Key)
      <4> DEFINE a == at + m
                 b == j - 1
      <4>1. /\ a \in Nat /\ b \in Nat /\ a + b = at + i - 1
        BY <1>1, <3>0
      <4>2. Moved(at, m) = a % Len(Key)
        BY DEF Moved
      <4>3. Moved(at, m) + j - 1 = (a % Len(Key)) + b
        <5> HIDE DEF a
        <5> QED
          BY <1>1, <1>3, <3>1, <4>2
      <4> HIDE DEF a, b
      <4>4. ((a % Len(Key)) + b) % Len(Key) = (a + b) % Len(Key)
        BY <1>1, <4>1, ModAdd
      <4> QED
        BY <4>1, <4>3, <4>4
    <3> HIDE DEF j
    <3> QED
      BY <1>5, <1>6, <3>1, <3>2
  <2> QED
    BY <2>1, <2>2
<1>9. r = p \o q
  BY <1>6, <1>7, <1>8, SeqEqual
<1> QED
  BY <1>9 DEF r, p, q, u, m

(* Processing is its own inverse: decrypting what was encrypted from the   *)
(* same place of the keystream gives the bytes back.                       *)
LEMMA ProcessTwice ==
  ASSUME NEW at \in Nat, NEW s \in Seq(Byte)
  PROVE  process(at, process(at, s)) = s
<1> DEFINE p == process(at, s)
           n == Len(s)
           k(i) == Key[((at + i - 1) % Len(Key)) + 1]
<1>1. n \in Nat
  BY LenProperties
<1>2. /\ p \in Seq(Byte) /\ Len(p) = n
      /\ \A i \in 1 .. n : p[i] = Xor(s[i], k(i))
  BY ProcessType
<1>3. /\ process(at, p) \in Seq(Byte) /\ Len(process(at, p)) = n
      /\ \A i \in 1 .. n : process(at, p)[i] = Xor(p[i], k(i))
  <2> HIDE DEF p
  <2> QED
    BY <1>2, ProcessType
<1>4. ASSUME NEW i \in 1 .. n
      PROVE  s[i] \in Byte /\ k(i) \in Byte
  <2>1. s[i] \in Byte
    BY ElementOfSeq
  <2>2. Len(Key) \in Nat \ {0}
    BY KeyAssumption, EmptySeq, LenProperties
  <2> DEFINE a == at + i - 1
             j == (a % Len(Key)) + 1
  <2>3. a \in Nat
    BY <1>1
  <2>4. a % Len(Key) \in 0 .. (Len(Key) - 1)
    <3> HIDE DEF a
    <3> QED
      BY <2>2, <2>3, ModRange
  <2>5. j \in 1 .. Len(Key)
    BY <2>2, <2>4
  <2> HIDE DEF j
  <2>6. Key[j] \in Byte
    BY <2>5, KeyAssumption, ElementOfSeq
  <2> QED
    BY <2>1, <2>6 DEF j
<1> HIDE DEF p, n, k
<1>5. \A i \in 1 .. n : process(at, p)[i] = s[i]
  BY <1>2, <1>3, <1>4, ByteAssumption
<1>6. Len(s) = n
  BY DEF n
<1>7. process(at, p) = s
  BY <1>3, <1>5, <1>6, SeqEqual
<1> QED
  BY <1>7 DEF p

-----------------------------------------------------------------------------
(* What every buffer is, whichever kind it has: its position is before its *)
(* end, and its end within its bytes.                                      *)
Ordered(b) ==
  /\ b = [buff |-> b.buff, len |-> b.len, pos |-> b.pos]
  /\ b.buff \in Seq(Byte)
  /\ b.len \in 0 .. Len(b.buff) /\ b.pos \in 0 .. b.len

(* A reader's position and end are within its memory.                      *)
LEMMA RefIsOrdered ==
  ASSUME NEW b, IsRef(b)
  PROVE  Ordered(b) /\ b.len = Len(b.buff)
BY LenProperties DEF IsRef, NewRef, Ordered

(* RefReadBuffer::new gives a reader at its start.                         *)
LEMMA NewRefIsRef ==
  ASSUME NEW bytes \in Seq(Byte)
  PROVE  /\ IsRef(NewRef(bytes))
         /\ NewRef(bytes).buff = bytes /\ NewRef(bytes).pos = 0
         /\ NewRef(bytes).len = Len(bytes)
BY LenProperties DEF IsRef, NewRef

(* A buffer's position and end are within its memory.                      *)
LEMMA BufferIsOrdered ==
  ASSUME NEW n \in Nat, NEW b \in Buffer(n)
  PROVE  Ordered(b) /\ b.buff \in [1 .. n -> Byte] /\ Len(b.buff) = n
<1>1. /\ b \in [buff : [1 .. n -> Byte], len : 0 .. n, pos : 0 .. n]
      /\ b.pos <= b.len
  BY DEF Buffer
<1>2. /\ b = [buff |-> b.buff, len |-> b.len, pos |-> b.pos]
      /\ b.buff \in [1 .. n -> Byte] /\ b.len \in 0 .. n /\ b.pos \in 0 .. n
  BY <1>1
<1>3. b.buff \in Seq(Byte) /\ Len(b.buff) = n
  BY <1>2
<1> QED
  BY <1>1, <1>2, <1>3 DEF Ordered

(* What a record must have to be a buffer of n bytes.                      *)
LEMMA BufferFromParts ==
  ASSUME NEW n \in Nat, NEW buff \in [1 .. n -> Byte], NEW len \in 0 .. n,
         NEW pos \in 0 .. len
  PROVE  [buff |-> buff, len |-> len, pos |-> pos] \in Buffer(n)
BY DEF Buffer

(* take_next of a reader returns what it is asked for and leaves the rest. *)
LEMMA TakeNextLemma ==
  ASSUME NEW b, Ordered(b), NEW count \in 0 .. remaining(b)
  PROVE  /\ Slice(b, count) \in Seq(Byte)
         /\ Len(Slice(b, count)) = count
         /\ Advance(b, count) = [buff |-> b.buff, len |-> b.len, pos |-> b.pos + count]
         /\ Ordered(Advance(b, count))
         /\ Slice(b, remaining(b))
              = Slice(b, count) \o Slice(Advance(b, count), remaining(Advance(b, count)))
<1> DEFINE s == b.buff
           p == b.pos
           n == b.len
           a == Advance(b, count)
<1>1. /\ s \in Seq(Byte) /\ Len(s) \in Nat /\ p \in Nat /\ n \in Nat
      /\ count \in Nat /\ p + count <= n /\ n <= Len(s) /\ remaining(b) = n - p
      /\ b = [buff |-> s, len |-> n, pos |-> p]
  BY LenProperties DEF Ordered, remaining
<1>2. a = [buff |-> s, len |-> n, pos |-> p + count]
  BY <1>1 DEF Advance
<1>3. a.buff = s /\ a.len = n /\ a.pos = p + count /\ Ordered(a)
  BY <1>1, <1>2 DEF Ordered
<1>4. /\ Slice(b, count) = SubSeq(s, p + 1, p + count)
      /\ Slice(b, remaining(b)) = SubSeq(s, p + 1, n)
      /\ Slice(a, remaining(a)) = SubSeq(s, p + count + 1, n)
  <2>1. p + (n - p) = n /\ (p + count) + (n - (p + count)) = n
    BY <1>1
  <2>2. Slice(b, count) = SubSeq(s, p + 1, p + count)
    BY DEF Slice
  <2>3. Slice(b, remaining(b)) = SubSeq(s, p + 1, p + (n - p))
    BY DEF Slice, remaining
  <2>4. Slice(a, remaining(a))
          = SubSeq(s, p + count + 1, (p + count) + (n - (p + count)))
    <3> HIDE DEF s, p, n, a
    <3> QED
      BY <1>3 DEF Slice, remaining
  <2> HIDE DEF s, p, n, a
  <2> QED
    BY <2>1, <2>2, <2>3, <2>4
<1> HIDE DEF s, p, n, a
<1>5. /\ SubSeq(s, p + 1, p + count) \in Seq(Byte)
      /\ Len(SubSeq(s, p + 1, p + count)) = count
  <2>1. p + count <= Len(s)
    BY <1>1
  <2> QED
    BY <1>1, <2>1, PartProperties, ZenonT(60)
<1>6. SubSeq(s, p + 1, n)
        = SubSeq(s, p + 1, p + count) \o SubSeq(s, p + count + 1, n)
  BY <1>1, Adjacent
<1>7. /\ Slice(b, count) \in Seq(Byte) /\ Len(Slice(b, count)) = count
      /\ Slice(b, remaining(b)) = Slice(b, count) \o Slice(a, remaining(a))
  BY <1>4, <1>5, <1>6
<1> QED
  BY <1>2, <1>3, <1>7 DEF a, s, p, n

(* take_next of a writer appends to what has been written, and keeps what  *)
(* the memory holds elsewhere.                                             *)
LEMMA FilledLemma ==
  ASSUME NEW n \in Nat, NEW b \in Buffer(n),
         NEW bytes \in Seq(Byte), Len(bytes) <= remaining(b)
  PROVE  /\ Filled(b, bytes) \in Buffer(n)
         /\ Filled(b, bytes).len = b.len
         /\ Filled(b, bytes).pos = b.pos + Len(bytes)
         /\ SubSeq(Filled(b, bytes).buff, 1, b.pos + Len(bytes))
              = SubSeq(b.buff, 1, b.pos) \o bytes
<1> DEFINE s == b.buff
           p == b.pos
           m == Len(bytes)
           g(i) == IF p < i /\ i <= p + m THEN bytes[i - p] ELSE s[i]
           f == [i \in 1 .. n |-> g(i)]
<1>1. /\ s \in [1 .. n -> Byte] /\ p \in Nat /\ m \in Nat /\ p + m <= n
      /\ p + m <= b.len /\ b.len \in 0 .. n
      /\ b = [buff |-> s, len |-> b.len, pos |-> p]
      /\ s \in Seq(Byte) /\ Len(s) = n
  BY BufferIsOrdered, LenProperties DEF Ordered, remaining
<1>2. DOMAIN s = 1 .. n
  BY <1>1
<1>3. Filled(b, bytes) = [buff |-> f, len |-> b.len, pos |-> p + m]
  <2>1. Filled(b, bytes)
          = [buff |-> [i \in DOMAIN s |-> g(i)], len |-> b.len, pos |-> p + m]
    BY DEF Filled
  <2> HIDE DEF g, s, p, m
  <2> QED
    BY <1>2, <2>1
<1>4. \A i \in 1 .. n : g(i) \in Byte
  <2> SUFFICES ASSUME NEW i \in 1 .. n PROVE g(i) \in Byte
    OBVIOUS
  <2>1. CASE p < i /\ i <= p + m
    <3>1. i - p \in 1 .. Len(bytes)
      BY <1>1, <2>1
    <3>2. bytes[i - p] \in Byte
      BY <3>1, ElementOfSeq
    <3> QED
      BY <2>1, <3>2
  <2>2. CASE ~(p < i /\ i <= p + m)
    BY <1>1, <2>2
  <2> QED
    BY <2>1, <2>2
<1>5. \A i \in 1 .. p + m : g(i) = IF i <= p THEN s[i] ELSE bytes[i - p]
  BY <1>1
<1> HIDE DEF g
<1>6. /\ f \in [1 .. n -> Byte] /\ f \in Seq(Byte) /\ Len(f) = n
      /\ \A i \in 1 .. n : f[i] = g(i)
  BY <1>4
<1> HIDE DEF f, s, p, m
<1>7. /\ Filled(b, bytes) \in Buffer(n) /\ Filled(b, bytes).buff = f
      /\ Filled(b, bytes).len = b.len /\ Filled(b, bytes).pos = p + m
  <2>1. p + m \in 0 .. b.len /\ b.len \in 0 .. n
    BY <1>1
  <2>2. [buff |-> f, len |-> b.len, pos |-> p + m] \in Buffer(n)
    BY <1>6, <2>1, BufferFromParts
  <2> QED
    BY <1>3, <2>2
<1>8. SubSeq(f, 1, p + m) = SubSeq(s, 1, p) \o bytes
  <2> DEFINE u == SubSeq(f, 1, p + m)
             v == SubSeq(s, 1, p)
  <2>1. p + m \in 0 .. Len(f) /\ p \in 0 .. Len(s)
    BY <1>1, <1>6
  <2>2. /\ u \in Seq(Byte) /\ Len(u) = p + m
        /\ \A i \in 1 .. p + m : u[i] = f[i]
    <3> DEFINE k == p + m
    <3> HIDE DEF k
    <3>1. k \in 0 .. Len(f)
      BY <2>1 DEF k
    <3>2. /\ SubSeq(f, 1, k) \in Seq(Byte) /\ Len(SubSeq(f, 1, k)) = k
          /\ \A i \in 1 .. k : SubSeq(f, 1, k)[i] = f[i]
      BY <1>6, <3>1, PrefixProperties
    <3> QED
      BY <3>2 DEF k
  <2>3. /\ v \in Seq(Byte) /\ Len(v) = p
        /\ \A i \in 1 .. p : v[i] = s[i]
    BY <1>1, <2>1, PrefixProperties
  <2> HIDE DEF u, v
  <2>4. Len(bytes) = m
    BY DEF m
  <2>5. /\ v \o bytes \in Seq(Byte) /\ Len(v \o bytes) = p + m
        /\ \A i \in 1 .. p + m :
             (v \o bytes)[i] = IF i <= p THEN v[i] ELSE bytes[i - p]
    BY <2>3, <2>4, ConcatProperties
  <2>6. ASSUME NEW i \in 1 .. p + m
        PROVE  u[i] = (v \o bytes)[i]
    <3>1. i \in 1 .. n
      BY <1>1
    <3>2. u[i] = IF i <= p THEN s[i] ELSE bytes[i - p]
      BY <1>5, <1>6, <2>2, <3>1
    <3>3. i <= p => v[i] = s[i]
      BY <1>1, <2>3
    <3> QED
      BY <2>5, <3>2, <3>3
  <2>7. u = v \o bytes
    BY <2>2, <2>5, <2>6, SeqEqual
  <2> QED
    BY <2>7 DEF u, v
<1> QED
  BY <1>7, <1>8 DEF s, p, m

-----------------------------------------------------------------------------
(* The store, whoever holds it: its writer and its reader are well formed. *)
LEMMA StoreFacts ==
  ASSUME StoreOK
  PROVE  /\ Ordered(store) /\ Len(store.buff) = Capacity
         /\ kind # "read" => /\ Writer \in Buffer(Capacity)
                             /\ Writer.buff = store.buff
         /\ view # {} => /\ view = {Reader} /\ IsRef(Reader)
                         /\ kind # "read" /\ Writer.pos = 0
         /\ view = {} => Reader = store
         /\ Ordered(Reader)
<1>1. /\ store \in Buffer(Capacity) /\ Capacity \in Nat
      /\ kind \in {"read", "write", "borrowed"}
  BY SizeAssumption DEF StoreOK
<1>2. Ordered(store) /\ Len(store.buff) = Capacity
      /\ store.buff \in [1 .. Capacity -> Byte]
  BY <1>1, BufferIsOrdered
<1>3. ASSUME kind # "read"
      PROVE  Writer \in Buffer(Capacity) /\ Writer.buff = store.buff
  <2>1. CASE kind = "write"
    BY <1>1, <2>1 DEF Writer
  <2>2. CASE kind = "borrowed"
    <3> DEFINE l == store.len
               f == store.buff
    <3>1. borrow = [buff |-> <<>>, len |-> Capacity, pos |-> l]
      BY <2>2 DEF StoreOK
    <3>2. l \in 0 .. Capacity /\ f \in [1 .. Capacity -> Byte]
          /\ Capacity \in 0 .. Capacity
      BY <1>1, <1>2 DEF Ordered
    <3>3. Writer = [borrow EXCEPT !.buff = f]
      BY <2>2 DEF Writer
    <3> HIDE DEF l, f
    <3>4. Writer = [buff |-> f, len |-> Capacity, pos |-> l]
      BY <3>1, <3>3
    <3>5. Writer \in Buffer(Capacity) /\ Writer.buff = f
      BY <1>1, <3>2, <3>4, BufferFromParts
    <3> QED
      BY <3>5 DEF f
  <2> QED
    BY <1>1, <1>3, <2>1, <2>2
<1>4. ASSUME view # {}
      PROVE  /\ view = {Reader} /\ IsRef(Reader)
             /\ kind # "read" /\ Writer.pos = 0
  <2>1. PICK v \in view : /\ view = {v} /\ IsRef(v)
                          /\ kind # "read" /\ Writer.pos = 0
    BY <1>4 DEF StoreOK
  <2>2. Reader = v
    BY <1>4, <2>1 DEF Reader
  <2> QED
    BY <2>1, <2>2
<1>5. view = {} => Reader = store
  BY DEF Reader
<1>6. Ordered(Reader)
  BY <1>2, <1>4, <1>5, RefIsOrdered
<1> QED
  BY <1>2, <1>3, <1>4, <1>5, <1>6

(* The writer as SetWriter leaves it.                                      *)
LEMMA SetWriterLemma ==
  ASSUME StoreOK, Writing, NEW w \in Buffer(Capacity), w.len = Writer.len,
         SetWriter(w), UNCHANGED <<kind, view>>
  PROVE  /\ StoreOK' /\ Writing' /\ ~Reading'
         /\ Writer' = w /\ store'.buff = w.buff
<1> DEFINE f == w.buff
           l == w.len
           p == w.pos
           n == store.len
<1>1. /\ Capacity \in Nat /\ store \in Buffer(Capacity)
      /\ view = {} /\ kind \in {"write", "borrowed"}
  BY SizeAssumption DEF StoreOK, Writing
<1>2. /\ w = [buff |-> f, len |-> l, pos |-> p]
      /\ f \in [1 .. Capacity -> Byte]
      /\ l \in 0 .. Capacity /\ p \in 0 .. l
  BY <1>1, BufferIsOrdered DEF Ordered
<1>3. CASE kind = "write"
  <2>1. store' = w /\ borrow' = borrow
    BY <1>3 DEF SetWriter
  <2>2. Writer = store /\ store.len = Capacity /\ borrow = NoBorrow
    BY <1>3 DEF StoreOK, Writer
  <2>3. StoreOK'
    BY <1>1, <1>3, <2>1, <2>2 DEF StoreOK
  <2>4. Writer' = w
    BY <1>3, <2>1 DEF Writer
  <2> QED
    BY <1>1, <1>3, <2>1, <2>3, <2>4 DEF Writing, Reading
<1>4. CASE kind = "borrowed"
  <2>1. /\ borrow' = [w EXCEPT !.buff = <<>>]
        /\ store' = [buff |-> f, len |-> n + (p - borrow.pos), pos |-> store.pos]
    BY <1>4 DEF SetWriter
  <2>2. /\ borrow = [buff |-> <<>>, len |-> Capacity, pos |-> n]
        /\ store.pos = 0 /\ n \in 0 .. Capacity
    BY <1>1, <1>4, BufferIsOrdered DEF StoreOK, Ordered
  <2>3. Writer = [borrow EXCEPT !.buff = store.buff]
    BY <1>4 DEF Writer
  <2>4. l = Capacity
    <3> DEFINE s == store.buff
    <3> HIDE DEF s, n
    <3>1. [borrow EXCEPT !.buff = s].len = Capacity
      BY <2>2
    <3> QED
      BY <2>3, <3>1 DEF s
  <2> HIDE DEF f, l, p, n
  <2>5. borrow.pos = n /\ n + (p - n) = p
    BY <1>2, <2>2
  <2>6. store' = [buff |-> f, len |-> p, pos |-> 0]
    BY <2>1, <2>2, <2>5
  <2>7. borrow' = [buff |-> <<>>, len |-> Capacity, pos |-> p]
    BY <1>2, <2>1, <2>4
  <2>8. store' \in Buffer(Capacity) /\ store'.pos = 0 /\ store'.len = p
        /\ store'.buff = f
    <3>1. p \in 0 .. Capacity /\ 0 \in 0 .. p
      BY <1>1, <1>2
    <3> QED
      BY <1>1, <1>2, <2>6, <3>1, BufferFromParts
  <2>9. StoreOK'
    BY <1>1, <1>4, <2>7, <2>8 DEF StoreOK
  <2>10. Writer' = w
    <3>1. Writer' = [borrow' EXCEPT !.buff = f]
      BY <1>4, <2>8 DEF Writer
    <3> QED
      BY <1>2, <2>4, <2>7, <3>1
  <2> QED
    BY <1>1, <1>4, <2>8, <2>9, <2>10 DEF Writing, Reading, f
<1> QED
  BY <1>1, <1>3, <1>4

(* The writer as reset and take_read_buffer leave it.                      *)
LEMMA EmptyWriterLemma ==
  ASSUME StoreOK, Writing, EmptyWriter, kind' = kind
  PROVE  /\ store' \in Buffer(Capacity) /\ store'.buff = store.buff
         /\ Writer'.pos = 0
         /\ view' = {} => StoreOK' /\ Writing' /\ ~Reading'
         /\ \A v : view' = {v} /\ IsRef(v) => StoreOK' /\ Reading' /\ Reader' = v
<1> DEFINE f == store.buff
           l == store.len
<1>1. /\ Capacity \in Nat /\ store \in Buffer(Capacity)
      /\ view = {} /\ kind \in {"write", "borrowed"}
  BY SizeAssumption DEF StoreOK, Writing
<1>2. /\ store = [buff |-> f, len |-> l, pos |-> store.pos]
      /\ f \in [1 .. Capacity -> Byte] /\ l \in 0 .. Capacity
  BY <1>1, BufferIsOrdered DEF Ordered
<1>3. /\ store' \in Buffer(Capacity) /\ store'.buff = f /\ store'.pos = 0
      /\ Writer'.pos = 0
      /\ kind = "write" => store'.len = Capacity
      /\ borrow' = IF kind = "borrowed"
                   THEN [buff |-> <<>>, len |-> Capacity, pos |-> store'.len]
                   ELSE NoBorrow
  <2>1. CASE kind = "write"
    <3>1. store' = [store EXCEPT !.pos = 0] /\ borrow' = borrow
          /\ borrow = NoBorrow /\ l = Capacity
      BY <2>1 DEF EmptyWriter, StoreOK
    <3>2. store' = [buff |-> f, len |-> l, pos |-> 0]
      <4> HIDE DEF f, l
      <4> QED
        BY <1>2, <3>1
    <3>3. store' \in Buffer(Capacity)
      <4>1. 0 \in 0 .. l
        BY <1>1, <1>2
      <4> HIDE DEF f, l
      <4> QED
        BY <1>1, <1>2, <3>2, <4>1, BufferFromParts
    <3>4. store'.buff = f /\ store'.pos = 0 /\ store'.len = l
      <4> HIDE DEF f, l
      <4> QED
        BY <3>2
    <3>5. Writer' = store'
      BY <2>1 DEF Writer
    <3> QED
      BY <2>1, <3>1, <3>3, <3>4, <3>5
  <2>2. CASE kind = "borrowed"
    <3>1. /\ borrow' = [borrow EXCEPT !.pos = 0]
          /\ store' = [store EXCEPT !.len = 0]
          /\ borrow = [buff |-> <<>>, len |-> Capacity, pos |-> l]
          /\ store.pos = 0
      BY <2>2 DEF EmptyWriter, StoreOK
    <3> HIDE DEF f, l
    <3>2. store' = [buff |-> f, len |-> 0, pos |-> 0]
      BY <1>2, <3>1
    <3>3. borrow' = [buff |-> <<>>, len |-> Capacity, pos |-> 0]
      BY <3>1
    <3>4. store' \in Buffer(Capacity) /\ store'.buff = f /\ store'.pos = 0
          /\ store'.len = 0
      <4>1. 0 \in 0 .. Capacity /\ 0 \in 0 .. 0
        BY <1>1
      <4> QED
        BY <1>1, <1>2, <3>2, <4>1, BufferFromParts
    <3>5. Writer' = [borrow' EXCEPT !.buff = f]
      BY <2>2, <3>4 DEF Writer
    <3>6. Writer'.pos = 0
      BY <3>3, <3>5
    <3> QED
      BY <2>2, <3>3, <3>4, <3>6
  <2> QED
    BY <1>1, <2>1, <2>2
<1> HIDE DEF f
<1>4. view' = {} => StoreOK' /\ Writing' /\ ~Reading'
  BY <1>1, <1>3 DEF StoreOK, Writing, Reading
<1>5. ASSUME NEW v, view' = {v}, IsRef(v)
      PROVE  StoreOK' /\ Reading' /\ Reader' = v
  <2>1. Reader' = v
    BY <1>5 DEF Reader
  <2>2. \E x \in view' : /\ view' = {x} /\ IsRef(x)
                         /\ kind' # "read" /\ Writer'.pos = 0
    BY <1>1, <1>3, <1>5
  <2>3. StoreOK'
    BY <1>1, <1>3, <2>2 DEF StoreOK, IsRef, NewRef
  <2>4. Reading'
    BY <1>5 DEF Reading
  <2> QED
    BY <2>1, <2>3, <2>4
<1> QED
  BY <1>3, <1>4, <1>5 DEF f

(* The reader as SetReader leaves it.                                      *)
LEMMA SetReaderLemma ==
  ASSUME StoreOK, Reading, NEW r,
         view # {} => IsRef(r), view = {} => r \in Buffer(Capacity),
         SetReader(r), UNCHANGED <<kind, borrow>>
  PROVE  StoreOK' /\ Reading' /\ Reader' = r
<1>1. CASE view # {}
  <2>1. /\ view' = {r} /\ store' = store /\ IsRef(r)
        /\ kind # "read" /\ Writer.pos = 0
    BY <1>1, StoreFacts DEF SetReader
  <2>2. Reader' = r
    BY <2>1 DEF Reader
  <2>3. Writer' = Writer
    BY <2>1 DEF Writer
  <2>4. \E x \in view' : /\ view' = {x} /\ IsRef(x)
                         /\ kind' # "read" /\ Writer'.pos = 0
    BY <2>1, <2>3
  <2>5. StoreOK'
    BY <2>1, <2>4 DEF StoreOK, IsRef, NewRef
  <2>6. Reading'
    BY <2>1 DEF Reading
  <2> QED
    BY <2>2, <2>5, <2>6
<1>2. CASE view = {}
  <2>1. store' = r /\ view' = {} /\ kind = "read" /\ r \in Buffer(Capacity)
    BY <1>2 DEF SetReader, Reading
  <2>2. StoreOK'
    BY <2>1 DEF StoreOK
  <2> QED
    BY <1>2, <2>1, <2>2 DEF Reading, Reader
<1> QED
  BY <1>1, <1>2

-----------------------------------------------------------------------------
(* A new position within its bounds leaves a buffer of either kind what it *)
(* is.                                                                     *)
LEMMA AtPosition ==
  ASSUME NEW b, Ordered(b), NEW p \in 0 .. b.len
  PROVE  /\ [b EXCEPT !.pos = p] = [buff |-> b.buff, len |-> b.len, pos |-> p]
         /\ [b EXCEPT !.pos = p].buff = b.buff
         /\ [b EXCEPT !.pos = p].len = b.len
         /\ [b EXCEPT !.pos = p].pos = p
         /\ Ordered([b EXCEPT !.pos = p])
         /\ IsRef(b) => IsRef([b EXCEPT !.pos = p])
         /\ \A n \in Nat : b \in Buffer(n) => [b EXCEPT !.pos = p] \in Buffer(n)
<1> DEFINE f == b.buff
           l == b.len
           c == [b EXCEPT !.pos = p]
<1>1. /\ b = [buff |-> f, len |-> l, pos |-> b.pos]
      /\ f \in Seq(Byte) /\ l \in 0 .. Len(f) /\ p \in 0 .. l
  BY DEF Ordered
<1>2. c = [buff |-> f, len |-> l, pos |-> p]
  <2> HIDE DEF f, l
  <2> QED
    BY <1>1
<1>3. ASSUME IsRef(b)
      PROVE  IsRef(c)
  <2>1. l = Len(f)
    BY <1>3, RefIsOrdered
  <2> HIDE DEF f, l, c
  <2> QED
    BY <1>1, <1>2, <2>1 DEF IsRef, NewRef
<1>4. ASSUME NEW n \in Nat, b \in Buffer(n)
      PROVE  c \in Buffer(n)
  <2>1. f \in [1 .. n -> Byte] /\ Len(f) = n
    BY <1>4, BufferIsOrdered
  <2> HIDE DEF f, l, c
  <2>2. l \in 0 .. n
    BY <1>1, <2>1
  <2> QED
    BY <1>1, <1>2, <2>1, <2>2, BufferFromParts
<1>5. c.buff = f /\ c.len = l /\ c.pos = p /\ Ordered(c)
  <2> HIDE DEF f, l, c
  <2> QED
    BY <1>1, <1>2 DEF Ordered
<1> HIDE DEF f, l, c
<1>6. /\ c = [buff |-> f, len |-> l, pos |-> p] /\ Ordered(c)
      /\ c.buff = f /\ c.len = l /\ c.pos = p
      /\ IsRef(b) => IsRef(c)
      /\ \A n \in Nat : b \in Buffer(n) => c \in Buffer(n)
  BY <1>2, <1>3, <1>4, <1>5
<1> QED
  BY <1>6 DEF f, l, c

(* A reader that advances stays well formed.                               *)
LEMMA AdvanceLemma ==
  ASSUME NEW b, Ordered(b), NEW count \in 0 .. remaining(b)
  PROVE  /\ Advance(b, count).buff = b.buff /\ Advance(b, count).len = b.len
         /\ Advance(b, count).pos = b.pos + count
         /\ remaining(Advance(b, count)) = remaining(b) - count
         /\ Ordered(Advance(b, count))
         /\ IsRef(b) => IsRef(Advance(b, count))
         /\ \A n \in Nat : b \in Buffer(n) => Advance(b, count) \in Buffer(n)
<1> DEFINE p == b.pos + count
<1>1. Advance(b, count) = [b EXCEPT !.pos = p]
  BY DEF Advance
<1>2. p \in 0 .. b.len /\ b.len \in Int /\ b.pos \in Int /\ count \in Int
  BY LenProperties DEF Ordered, remaining
<1>3. b.len - p = (b.len - b.pos) - count
  BY <1>2
<1> HIDE DEF p
<1>4. /\ Advance(b, count).buff = b.buff /\ Advance(b, count).len = b.len
      /\ Advance(b, count).pos = p
      /\ Ordered(Advance(b, count))
      /\ IsRef(b) => IsRef(Advance(b, count))
      /\ \A n \in Nat : b \in Buffer(n) => Advance(b, count) \in Buffer(n)
  <2> DEFINE c == [b EXCEPT !.pos = p]
  <2>1. /\ c.buff = b.buff /\ c.len = b.len /\ c.pos = p /\ Ordered(c)
        /\ IsRef(b) => IsRef(c)
        /\ \A n \in Nat : b \in Buffer(n) => c \in Buffer(n)
    BY <1>2, AtPosition
  <2>2. Advance(b, count) = c
    BY <1>1
  <2> HIDE DEF c
  <2> QED
    BY <2>1, <2>2
<1>5. remaining(Advance(b, count)) = remaining(b) - count
  BY <1>3, <1>4 DEF remaining
<1> QED
  BY <1>4, <1>5 DEF p

(* What moves when a reader is taken into a writer: as much as the shorter *)
(* of the two has left.                                                    *)
LEMMA CountLemma ==
  ASSUME NEW r, Ordered(r), NEW w, Ordered(w)
  PROVE  /\ MinOf(remaining(r), remaining(w)) \in 0 .. remaining(r)
         /\ MinOf(remaining(r), remaining(w)) \in 0 .. remaining(w)
         /\ MinOf(remaining(r), remaining(w)) \in Nat
         /\ MinOf(remaining(r), remaining(w)) # remaining(r)
              => MinOf(remaining(r), remaining(w)) = remaining(w)
BY LenProperties DEF Ordered, remaining, MinOf

(* "BufferOverflow" from a step that has taken count from both sides.      *)
LEMMA OverflowLemma ==
  ASSUME NEW r, Ordered(r), NEW w, Ordered(w),
         NEW count, count = MinOf(remaining(r), remaining(w)),
         Result(Advance(r, count), w) = "BufferOverflow"
  PROVE  count = remaining(w)
<1>1. count \in 0 .. remaining(r) /\ (count # remaining(r) => count = remaining(w))
  BY CountLemma
<1>2. Advance(r, count).len = r.len /\ Advance(r, count).pos = r.pos + count
      /\ r.len \in Int /\ r.pos \in Int /\ count \in Int
  BY <1>1, AdvanceLemma, LenProperties, SMTT(30) DEF Ordered, remaining
<1>3. Advance(r, count).pos # Advance(r, count).len
  BY DEF Result, is_empty
<1>4. count # r.len - r.pos
  BY <1>2, <1>3
<1> QED
  BY <1>1, <1>4 DEF remaining

-----------------------------------------------------------------------------
(* symm_enc_or_dec and push_to.                                            *)
SendCount == MinOf(remaining(input), remaining(Writer))
SendBytes == Slice(input, SendCount)
SendCoded == IF ciphered THEN process(enc, SendBytes) ELSE SendBytes

ReceiveCount == MinOf(remaining(Reader), remaining(output))
ReceiveBytes == Slice(Reader, ReceiveCount)
ReceiveCoded == IF ciphered THEN process(dec, ReceiveBytes) ELSE ReceiveBytes

(* What a send moves: its amount fits both sides.                          *)
LEMMA SendTypes ==
  ASSUME TypeOK, Writing
  PROVE  /\ Ordered(input) /\ Ordered(Writer) /\ enc \in Nat
         /\ SendCount \in 0 .. remaining(input) /\ SendCount \in 0 .. remaining(Writer)
         /\ SendCount \in Nat
         /\ SendBytes \in Seq(Byte) /\ Len(SendBytes) = SendCount
         /\ SendCoded \in Seq(Byte) /\ Len(SendCoded) = SendCount
<1>1. Ordered(input) /\ StoreOK /\ enc \in Nat
  BY RefIsOrdered DEF TypeOK
<1>2. Writer \in Buffer(Capacity) /\ Capacity \in Nat
  BY <1>1, StoreFacts, SizeAssumption DEF Writing
<1>3. Ordered(Writer)
  BY <1>2, BufferIsOrdered
<1>4. SendCount \in 0 .. remaining(input) /\ SendCount \in 0 .. remaining(Writer)
      /\ SendCount \in Nat
  BY <1>1, <1>3, CountLemma DEF SendCount
<1>5. SendBytes \in Seq(Byte) /\ Len(SendBytes) = SendCount
  BY <1>1, <1>4, TakeNextLemma DEF SendBytes
<1>6. SendCoded \in Seq(Byte) /\ Len(SendCoded) = SendCount
  BY <1>1, <1>5, ProcessType DEF SendCoded
<1> QED
  BY <1>1, <1>3, <1>4, <1>5, <1>6

(* A send: it appends what it takes from the input, encrypted if the ends  *)
(* are ciphers, to what has been written.                                  *)
LEMMA SendLemma ==
  ASSUME TypeOK, Send
  PROVE  /\ TypeOK' /\ Writing /\ ~Reading /\ Writing' /\ ~Reading'
         /\ Slice(input, remaining(input)) = SendBytes \o Slice(input, remaining(input))'
         /\ Written' = Written \o SendCoded
         /\ Written \in Seq(Byte) /\ SendCount <= Capacity - Len(Written)
         /\ ciphered => enc' = Moved(enc, SendCount)
         /\ result' = "BufferOverflow" => remaining(Writer)' = 0
         /\ UNCHANGED <<ciphered, kind, view, output, dec, out, sent, got, edited>>
<1> DEFINE w == Filled(Writer, SendCoded)
<1>1. /\ Writing /\ ~Reading /\ input' = Advance(input, SendCount) /\ SetWriter(w)
      /\ IF ciphered
         THEN enc' = Moved(enc, SendCount) /\ result' = Result(input', w)
         ELSE UNCHANGED <<enc, result>>
      /\ UNCHANGED <<ciphered, kind, view, output, dec, out, sent, got, edited>>
  BY DEF Send, SendCount, SendBytes, SendCoded, Writing, Reading
<1>2. /\ Ordered(input) /\ Ordered(Writer) /\ enc \in Nat
      /\ SendCount \in 0 .. remaining(input) /\ SendCount \in 0 .. remaining(Writer)
      /\ SendCount \in Nat
      /\ SendBytes \in Seq(Byte) /\ Len(SendBytes) = SendCount
      /\ SendCoded \in Seq(Byte) /\ Len(SendCoded) = SendCount
  BY <1>1, SendTypes
<1>3. /\ StoreOK /\ IsRef(input) /\ Capacity \in Nat
      /\ Writer \in Buffer(Capacity) /\ Writer.buff = store.buff
  BY <1>1, StoreFacts, SizeAssumption DEF TypeOK, Writing
<1>4. /\ w \in Buffer(Capacity) /\ w.len = Writer.len
      /\ w.pos = Writer.pos + SendCount
      /\ SubSeq(w.buff, 1, w.pos) = Written \o SendCoded
  <2>1. /\ SendCoded \in Seq(Byte) /\ Len(SendCoded) <= remaining(Writer)
        /\ Writer \in Buffer(Capacity) /\ Capacity \in Nat
    BY <1>2, <1>3
  <2>2. /\ w \in Buffer(Capacity) /\ w.len = Writer.len
        /\ w.pos = Writer.pos + Len(SendCoded)
        /\ SubSeq(w.buff, 1, Writer.pos + Len(SendCoded))
             = SubSeq(Writer.buff, 1, Writer.pos) \o SendCoded
    BY <2>1, FilledLemma
  <2> HIDE DEF w
  <2> QED
    BY <1>2, <1>3, <2>2 DEF Written
<1> HIDE DEF w
<1>5. StoreOK' /\ Writing' /\ ~Reading' /\ Writer' = w /\ store'.buff = w.buff
  BY <1>1, <1>3, <1>4, SetWriterLemma
<1>6. Written' = Written \o SendCoded
  BY <1>4, <1>5 DEF Written
<1>7. Slice(input, remaining(input)) = SendBytes \o Slice(input, remaining(input))'
  BY <1>1, <1>2, TakeNextLemma DEF SendBytes
<1>8. Written \in Seq(Byte) /\ SendCount <= Capacity - Len(Written)
  <2>1. /\ Writer.buff \in Seq(Byte) /\ Len(Writer.buff) = Capacity
        /\ Writer.pos \in 0 .. Capacity /\ Writer.len \in 0 .. Capacity
    BY <1>3, BufferIsOrdered DEF Ordered
  <2>2. Written \in Seq(Byte) /\ Len(Written) = Writer.pos
    BY <1>3, <2>1, PrefixProperties DEF Written
  <2>3. SendCount <= Writer.len - Writer.pos
    BY <1>2 DEF remaining
  <2> QED
    BY <1>2, <1>3, <2>1, <2>2, <2>3
<1>9. ASSUME result' = "BufferOverflow"
      PROVE  remaining(Writer)' = 0
  <2>1. ciphered /\ Result(input', w) = "BufferOverflow"
    BY <1>1, <1>9 DEF TypeOK
  <2>2. SendCount = remaining(Writer)
    <3>1. Result(Advance(input, SendCount), Writer) = "BufferOverflow"
      BY <1>1, <2>1 DEF Result
    <3> QED
      BY <1>2, <3>1, OverflowLemma DEF SendCount
  <2>3. Writer.len \in Int /\ Writer.pos \in Int
    BY <1>2, LenProperties DEF Ordered
  <2> QED
    BY <1>4, <1>5, <2>2, <2>3 DEF remaining
<1>10. TypeOK'
  <2>1. IsRef(input)' /\ input'.buff = input.buff
    <3>1. IsRef(input') /\ input'.buff = input.buff
      BY <1>1, <1>2, <1>3, AdvanceLemma
    <3> QED
      BY <3>1 DEF IsRef, NewRef
  <2>2. enc' \in 0 .. (Len(Key) - 1)
    BY <1>1, <1>2, MovedType DEF TypeOK
  <2>3. result' \in {"none"} \cup IF ciphered THEN {"BufferUnderflow", "BufferOverflow"}
                                  ELSE {}
    BY <1>1 DEF TypeOK, Result
  <2>4. output' \in Buffer(OutSize)'
    BY <1>1 DEF TypeOK, Buffer
  <2> QED
    BY <1>1, <1>5, <2>1, <2>2, <2>3, <2>4 DEF TypeOK
<1> QED
  BY <1>1, <1>5, <1>6, <1>7, <1>8, <1>9, <1>10

(* What waits in the output.                                               *)
Delivered == SubSeq(output.buff, 1, output.pos)

(* What a receive moves: its amount fits both sides.                       *)
LEMMA ReceiveTypes ==
  ASSUME TypeOK, Reading
  PROVE  /\ Ordered(Reader) /\ Ordered(output) /\ dec \in Nat
         /\ ReceiveCount \in 0 .. remaining(Reader)
         /\ ReceiveCount \in 0 .. remaining(output)
         /\ ReceiveCount \in Nat
         /\ ReceiveBytes \in Seq(Byte) /\ Len(ReceiveBytes) = ReceiveCount
         /\ ReceiveCoded \in Seq(Byte) /\ Len(ReceiveCoded) = ReceiveCount
<1>1. Ordered(Reader) /\ dec \in Nat
  BY StoreFacts DEF TypeOK
<1>2. Ordered(output)
  BY SizeAssumption, BufferIsOrdered DEF TypeOK
<1>3. /\ ReceiveCount \in 0 .. remaining(Reader)
      /\ ReceiveCount \in 0 .. remaining(output) /\ ReceiveCount \in Nat
  BY <1>1, <1>2, CountLemma DEF ReceiveCount
<1>4. ReceiveBytes \in Seq(Byte) /\ Len(ReceiveBytes) = ReceiveCount
  BY <1>1, <1>3, TakeNextLemma DEF ReceiveBytes
<1>5. ReceiveCoded \in Seq(Byte) /\ Len(ReceiveCoded) = ReceiveCount
  BY <1>1, <1>4, ProcessType DEF ReceiveCoded
<1> QED
  BY <1>1, <1>2, <1>3, <1>4, <1>5

(* A reader that moves on stays the reader of the store.                   *)
LEMMA ReaderAt ==
  ASSUME StoreOK, Reading, NEW p \in 0 .. Reader.len,
         SetReader([Reader EXCEPT !.pos = p]), UNCHANGED <<kind, borrow>>
  PROVE  /\ StoreOK' /\ Reading'
         /\ Reader' = [Reader EXCEPT !.pos = p]
         /\ Reader'.buff = Reader.buff /\ Reader'.len = Reader.len
         /\ Reader'.pos = p
<1> DEFINE r == [Reader EXCEPT !.pos = p]
<1>1. /\ Capacity \in Nat /\ Ordered(Reader)
      /\ view # {} => IsRef(Reader)
      /\ view = {} => Reader \in Buffer(Capacity)
  BY SizeAssumption, StoreFacts DEF StoreOK
<1>2. /\ r.buff = Reader.buff /\ r.len = Reader.len /\ r.pos = p
      /\ IsRef(Reader) => IsRef(r)
      /\ \A n \in Nat : Reader \in Buffer(n) => r \in Buffer(n)
  BY <1>1, AtPosition
<1>3. SetReader(r)
  OBVIOUS
<1> HIDE DEF r
<1>4. StoreOK' /\ Reading' /\ Reader' = r
  BY <1>1, <1>2, <1>3, SetReaderLemma
<1> QED
  BY <1>2, <1>4 DEF r

(* A receive: it takes the next bytes of the store and appends them,       *)
(* decrypted if the ends are ciphers, to what waits in the output.         *)
LEMMA ReceiveLemma ==
  ASSUME TypeOK, Receive
  PROVE  /\ TypeOK' /\ Reading /\ Reading'
         /\ Reader' = Advance(Reader, ReceiveCount) /\ out' = ReceiveBytes
         /\ Stored = ReceiveBytes \o Stored'
         /\ Stored' \in Seq(Byte)
         /\ Delivered' = Delivered \o ReceiveCoded
         /\ ciphered => dec' = Moved(dec, ReceiveCount)
         /\ result' = "BufferOverflow" => remaining(output)' = 0
         /\ UNCHANGED <<ciphered, input, enc, sent, got, edited>>
<1> DEFINE w == Filled(output, ReceiveCoded)
           r == Advance(Reader, ReceiveCount)
<1>1. /\ Reading /\ SetReader(r) /\ output' = w /\ out' = ReceiveBytes
      /\ IF ciphered
         THEN dec' = Moved(dec, ReceiveCount) /\ result' = Result(r, output')
         ELSE UNCHANGED <<dec, result>>
      /\ UNCHANGED <<ciphered, input, kind, borrow, enc, sent, got, edited>>
  BY DEF Receive, ReceiveCount, ReceiveBytes, ReceiveCoded
<1>2. /\ Ordered(Reader) /\ Ordered(output) /\ dec \in Nat
      /\ ReceiveCount \in 0 .. remaining(Reader)
      /\ ReceiveCount \in 0 .. remaining(output)
      /\ ReceiveCount \in Nat
      /\ ReceiveBytes \in Seq(Byte) /\ Len(ReceiveBytes) = ReceiveCount
      /\ ReceiveCoded \in Seq(Byte) /\ Len(ReceiveCoded) = ReceiveCount
  BY <1>1, ReceiveTypes
<1>3. /\ output \in Buffer(OutSize) /\ OutSize \in Nat /\ output.len = OutSize
  BY SizeAssumption DEF TypeOK
<1>4. /\ w \in Buffer(OutSize) /\ w.len = OutSize
      /\ w.pos = output.pos + ReceiveCount
      /\ SubSeq(w.buff, 1, w.pos) = Delivered \o ReceiveCoded
  <2>1. /\ ReceiveCoded \in Seq(Byte) /\ Len(ReceiveCoded) <= remaining(output)
        /\ output \in Buffer(OutSize) /\ OutSize \in Nat
    BY <1>2, <1>3
  <2>2. /\ w \in Buffer(OutSize) /\ w.len = output.len
        /\ w.pos = output.pos + Len(ReceiveCoded)
        /\ SubSeq(w.buff, 1, output.pos + Len(ReceiveCoded))
             = SubSeq(output.buff, 1, output.pos) \o ReceiveCoded
    BY <2>1, FilledLemma
  <2> HIDE DEF w
  <2> QED
    BY <1>2, <1>3, <2>2 DEF Delivered
<1>5. StoreOK' /\ Reading' /\ Reader' = r
  <2> DEFINE p == Reader.pos + ReceiveCount
  <2>1. r = [Reader EXCEPT !.pos = p]
    BY DEF Advance
  <2>2. p \in 0 .. Reader.len
    BY <1>2, LenProperties DEF Ordered, remaining
  <2> HIDE DEF p, r
  <2>3. SetReader([Reader EXCEPT !.pos = p])
    BY <1>1, <2>1
  <2>4. StoreOK /\ UNCHANGED <<kind, borrow>>
    BY <1>1 DEF TypeOK
  <2> QED
    BY <1>1, <2>1, <2>2, <2>3, <2>4, ReaderAt
<1>6. Stored = ReceiveBytes \o Stored' /\ Stored' \in Seq(Byte)
  <2>1. Stored = Slice(Reader, remaining(Reader)) /\ Stored' = Slice(r, remaining(r))
    BY <1>1, <1>5 DEF Stored, Slice, remaining
  <2>2. Slice(Reader, remaining(Reader)) = ReceiveBytes \o Slice(r, remaining(r))
        /\ Ordered(r)
    BY <1>2, TakeNextLemma DEF ReceiveBytes
  <2> HIDE DEF r
  <2>3. remaining(r) \in 0 .. remaining(r)
    BY <2>2, LenProperties DEF Ordered, remaining
  <2>4. Slice(r, remaining(r)) \in Seq(Byte)
    BY <2>2, <2>3, TakeNextLemma
  <2> QED
    BY <2>1, <2>2, <2>4
<1> HIDE DEF w
<1>7. Delivered' = Delivered \o ReceiveCoded
  BY <1>1, <1>4 DEF Delivered
<1>8. ASSUME result' = "BufferOverflow"
      PROVE  remaining(output)' = 0
  <2>1. ciphered /\ Result(r, output') = "BufferOverflow"
    BY <1>1, <1>8 DEF TypeOK
  <2>2. Result(r, output) = "BufferOverflow"
    BY <2>1 DEF Result
  <2>3. ReceiveCount = remaining(output)
    BY <1>2, <2>2, OverflowLemma DEF ReceiveCount
  <2>4. output.len \in Int /\ output.pos \in Int
    BY <1>2, LenProperties DEF Ordered
  <2> QED
    BY <1>1, <1>3, <1>4, <2>3, <2>4 DEF remaining
<1>9. TypeOK'
  <2>1. dec' \in 0 .. (Len(Key) - 1)
    BY <1>1, <1>2, MovedType DEF TypeOK
  <2>2. result' \in {"none"} \cup IF ciphered THEN {"BufferUnderflow", "BufferOverflow"}
                                  ELSE {}
    BY <1>1 DEF TypeOK, Result
  <2>3. output' \in Buffer(OutSize)' /\ output'.len = OutSize
    BY <1>1, <1>4 DEF Buffer
  <2>4. IsRef(input)'
    BY <1>1 DEF TypeOK, IsRef, NewRef
  <2> QED
    BY <1>1, <1>2, <1>5, <2>1, <2>2, <2>3, <2>4 DEF TypeOK
<1> QED
  BY <1>1, <1>5, <1>6, <1>7, <1>8, <1>9

-----------------------------------------------------------------------------
(* The caller at the two ends.                                             *)
LEMMA EmptyRest ==
  ASSUME NEW b, Ordered(b), is_empty(b)
  PROVE  remaining(b) = 0 /\ Slice(b, remaining(b)) = <<>>
<1>1. b.pos = b.len /\ b.len \in Nat /\ b.pos \in Nat
  BY LenProperties DEF Ordered, is_empty
<1>2. remaining(b) = 0
  BY <1>1 DEF remaining
<1>3. b.pos + 1 \in Int /\ b.pos + 0 \in Int /\ b.pos + 0 < b.pos + 1
  BY <1>1
<1>4. SubSeq(b.buff, b.pos + 1, b.pos + 0) = <<>>
  BY <1>3, SubSeqEmpty
<1> QED
  BY <1>2, <1>4 DEF Slice

(* Give keeps every type, and adds to the input what it adds to sent.      *)
LEMMA GiveLemma ==
  ASSUME TypeOK, Give
  PROVE  /\ TypeOK'
         /\ Slice(input, remaining(input)) = <<>>
         /\ Slice(input, remaining(input))' \in Seq(Byte)
         /\ ~edited => sent' = sent \o Slice(input, remaining(input))'
         /\ UNCHANGED <<ciphered, kind, store, borrow, view, output, enc, dec,
                        result, out, got, edited>>
<1>1. PICK bytes \in Inputs :
        /\ input' = NewRef(bytes)
        /\ sent' = IF edited THEN sent ELSE sent \o bytes
  BY DEF Give
<1>2. /\ is_empty(input)
      /\ UNCHANGED <<ciphered, kind, store, borrow, view, output, enc, dec,
                     result, out, got, edited>>
  BY DEF Give
<1>3. bytes \in Seq(Byte) /\ IsRef(input) /\ Ordered(input) /\ sent \in Seq(Byte)
  BY SizeAssumption, RefIsOrdered DEF TypeOK
<1>4. Slice(input, remaining(input)) = <<>>
  BY <1>2, <1>3, EmptyRest
<1>5. /\ IsRef(input') /\ input'.buff = bytes /\ input'.pos = 0
      /\ input'.len = Len(bytes)
  BY <1>1, <1>3, NewRefIsRef
<1>6. Slice(input, remaining(input))' = bytes
  <2>1. Len(bytes) \in Nat /\ Len(bytes) - 0 = Len(bytes)
        /\ 0 + Len(bytes) = Len(bytes) /\ 0 + 1 = 1
    BY <1>3, LenProperties
  <2>2. SubSeq(bytes, 1, Len(bytes)) = bytes
    BY <1>3, SubSeqFull
  <2> QED
    BY <1>5, <2>1, <2>2 DEF Slice, remaining
<1>7. sent' \in Seq(Byte)
  BY <1>1, <1>3, ConcatProperties
<1>8. IsRef(input)'
  BY <1>5 DEF IsRef, NewRef
<1>9. StoreOK'
  BY <1>2 DEF TypeOK, StoreOK, IsRef, NewRef, Writer
<1>10. output' \in Buffer(OutSize)' /\ output'.len = OutSize
  BY <1>2 DEF TypeOK, Buffer
<1>11. TypeOK'
  BY <1>1, <1>2, <1>5, <1>7, <1>8, <1>9, <1>10 DEF TypeOK
<1> QED
  BY <1>1, <1>2, <1>3, <1>4, <1>6, <1>11

(* Drain keeps every type.                                                 *)
LEMMA DrainLemma ==
  ASSUME TypeOK, Drain
  PROVE  /\ TypeOK'
         /\ Delivered' = <<>>
         /\ Delivered \in Seq(Byte)
         /\ ~edited => got' = got \o Delivered
         /\ UNCHANGED <<ciphered, input, kind, store, borrow, view, enc, dec,
                        result, out, sent, edited>>
<1>1. /\ got' = IF edited THEN got ELSE got \o Delivered
      /\ output' = [output EXCEPT !.pos = 0]
      /\ UNCHANGED <<ciphered, input, kind, store, borrow, view, enc, dec,
                     result, out, sent, edited>>
  BY DEF Drain, Delivered
<1>2. /\ OutSize \in Nat /\ output \in Buffer(OutSize) /\ output.len = OutSize
      /\ Ordered(output) /\ got \in Seq(Byte)
  BY SizeAssumption, BufferIsOrdered DEF TypeOK
<1>3. 0 \in 0 .. output.len
  BY <1>2
<1>4. output' \in Buffer(OutSize) /\ output'.len = OutSize /\ output'.pos = 0
  BY <1>1, <1>2, <1>3, AtPosition
<1>5. Delivered \in Seq(Byte)
  <2>1. output.buff \in Seq(Byte) /\ output.pos \in 0 .. Len(output.buff)
    BY <1>2, LenProperties DEF Ordered
  <2> QED
    BY <2>1, PrefixProperties DEF Delivered
<1>6. Delivered' = <<>>
  <2>1. SubSeq(output'.buff, 1, 0) = <<>>
    BY SubSeqEmpty
  <2> QED
    BY <1>4, <2>1 DEF Delivered
<1>7. got' \in Seq(Byte)
  BY <1>1, <1>2, <1>5, ConcatProperties
<1>8. StoreOK'
  BY <1>1 DEF TypeOK, StoreOK, IsRef, NewRef, Writer
<1>9. IsRef(input)' /\ output' \in Buffer(OutSize)'
  BY <1>1, <1>4 DEF TypeOK, IsRef, NewRef, Buffer
<1>10. TypeOK'
  BY <1>1, <1>4, <1>7, <1>8, <1>9 DEF TypeOK
<1> QED
  BY <1>1, <1>5, <1>6, <1>10

-----------------------------------------------------------------------------
(* The store changes hands or is put back.  Such a step concerns the store *)
(* only, apart from the histories, which an edit ends.                     *)
StoreStep ==
  /\ UNCHANGED <<ciphered, input, output, enc, dec, result>>
  /\ UNCHANGED <<sent, got, edited>> \/ Edit

(* A step on the store alone keeps the types of the rest.                  *)
LEMMA StoreStepTypes ==
  ASSUME TypeOK, StoreStep, StoreOK', out' \in Seq(Byte)
  PROVE  TypeOK'
<1>1. /\ UNCHANGED <<ciphered, input, output, enc, dec, result>>
      /\ sent' \in Seq(Byte) /\ got' \in Seq(Byte) /\ edited' \in BOOLEAN
  <2>1. <<>> \in Seq(Byte)
    BY EmptySeq
  <2>2. CASE UNCHANGED <<sent, got, edited>>
    BY <2>2 DEF StoreStep, TypeOK
  <2>3. CASE Edit
    BY <2>1, <2>3 DEF StoreStep, Edit
  <2> QED
    BY <2>2, <2>3 DEF StoreStep
<1>2. IsRef(input)' /\ output' \in Buffer(OutSize)'
  BY <1>1 DEF TypeOK, IsRef, NewRef, Buffer
<1> QED
  BY <1>1, <1>2 DEF TypeOK

(* What has been written to the store is a sequence of bytes.              *)
LEMMA WrittenType ==
  ASSUME StoreOK, kind # "read"
  PROVE  /\ Written \in Seq(Byte) /\ Len(Written) = Writer.pos
         /\ Writer.pos \in 0 .. Capacity
<1>1. Writer \in Buffer(Capacity) /\ Writer.buff = store.buff /\ Capacity \in Nat
  BY StoreFacts, SizeAssumption
<1>2. /\ Writer.buff \in Seq(Byte) /\ Len(Writer.buff) = Capacity
      /\ Writer.pos \in 0 .. Capacity
  BY <1>1, BufferIsOrdered DEF Ordered
<1> QED
  BY <1>1, <1>2, PrefixProperties DEF Written

(* Turning the store over to a reader: the reader is given what has been   *)
(* written, from its first byte on.                                        *)
TurnsToReading ==
  /\ StoreStep /\ out' = out /\ UNCHANGED <<sent, got, edited>>
  /\ Writing /\ ~Reading /\ Reading'
  /\ SubSeq(Reader.buff, 1, Reader.len)' = Written
  /\ Reader.pos' = 0

(* take_read_buffer keeps every type.                                      *)
LEMMA TakeReadBufferLemma ==
  ASSUME TypeOK, take_read_buffer
  PROVE  TypeOK' /\ TurnsToReading
<1>1. /\ StoreOK /\ Writing /\ ~Reading /\ view' = {NewRef(Written)} /\ EmptyWriter
      /\ StoreStep /\ UNCHANGED <<kind, out, sent, got, edited>>
  BY DEF take_read_buffer, StoreStep, Writing, Reading, TypeOK
<1>2. Written \in Seq(Byte)
  BY <1>1, WrittenType DEF Writing
<1>3. /\ IsRef(NewRef(Written)) /\ NewRef(Written).buff = Written
      /\ NewRef(Written).pos = 0 /\ NewRef(Written).len = Len(Written)
  BY <1>2, NewRefIsRef
<1>4. StoreOK' /\ Reading' /\ Reader' = NewRef(Written)
  BY <1>1, <1>3, EmptyWriterLemma
<1>5. SubSeq(Reader.buff, 1, Reader.len)' = Written
  BY <1>2, <1>3, <1>4, SubSeqFull
<1>6. TypeOK'
  BY <1>1, <1>4, StoreStepTypes DEF TypeOK
<1> QED
  BY <1>1, <1>3, <1>4, <1>5, <1>6 DEF TurnsToReading

(* into_read_buffer keeps every type.                                      *)
LEMMA IntoReadBufferLemma ==
  ASSUME TypeOK, into_read_buffer
  PROVE  TypeOK' /\ TurnsToReading
<1> DEFINE f == store.buff
           p == store.pos
<1>1. /\ StoreOK /\ kind = "write" /\ view = {} /\ kind' = "read" /\ view' = {}
      /\ store' = [buff |-> f, len |-> p, pos |-> 0] /\ borrow' = borrow
      /\ StoreStep /\ UNCHANGED <<out, sent, got, edited>>
  BY DEF into_read_buffer, StoreStep, TypeOK
<1>2. Writer = store /\ Written = SubSeq(f, 1, p) /\ borrow = NoBorrow
  BY <1>1 DEF Writer, Written, StoreOK
<1>3. Capacity \in Nat /\ f \in [1 .. Capacity -> Byte] /\ p \in 0 .. Capacity
      /\ 0 \in 0 .. p
  BY <1>1, SizeAssumption, BufferIsOrdered DEF StoreOK, Ordered
<1> HIDE DEF f, p
<1>4. /\ store' \in Buffer(Capacity) /\ store'.buff = f /\ store'.len = p
      /\ store'.pos = 0
  BY <1>1, <1>3, BufferFromParts
<1>5. StoreOK'
  BY <1>1, <1>2, <1>4 DEF StoreOK
<1>6. Writing /\ ~Reading /\ Reading' /\ Reader' = store'
  BY <1>1 DEF Writing, Reading, Reader
<1>7. TypeOK'
  BY <1>1, <1>5, StoreStepTypes DEF TypeOK
<1> QED
  BY <1>1, <1>2, <1>4, <1>6, <1>7 DEF TurnsToReading

(* The end of a borrow keeps every type.                                   *)
LEMMA EndBorrowLemma ==
  ASSUME TypeOK, EndBorrow
  PROVE  TypeOK' /\ TurnsToReading
<1> DEFINE p == store.len
<1>1. /\ StoreOK /\ kind = "borrowed" /\ view = {} /\ kind' = "read" /\ view' = {}
      /\ borrow' = NoBorrow /\ store' = store
      /\ StoreStep /\ UNCHANGED <<out, sent, got, edited>>
  BY DEF EndBorrow, StoreStep, TypeOK
<1>2. /\ borrow = [buff |-> <<>>, len |-> Capacity, pos |-> p]
      /\ store.pos = 0 /\ store \in Buffer(Capacity)
  BY <1>1 DEF StoreOK
<1>3. Writer.pos = p
  <2> DEFINE f == store.buff
  <2>1. Writer = [borrow EXCEPT !.buff = f]
    BY <1>1 DEF Writer
  <2> HIDE DEF f, p
  <2> QED
    BY <1>2, <2>1
<1>4. StoreOK'
  BY <1>1, <1>2 DEF StoreOK, Buffer
<1>5. Writing /\ ~Reading /\ Reading' /\ Reader' = store
  BY <1>1 DEF Writing, Reading, Reader
<1>6. SubSeq(Reader.buff, 1, Reader.len)' = Written
  BY <1>3, <1>5 DEF Written
<1>7. TypeOK'
  BY <1>1, <1>4, StoreStepTypes DEF TypeOK
<1> QED
  BY <1>1, <1>2, <1>5, <1>6, <1>7 DEF TurnsToReading

(* Turning it over to a writer: nothing has been written yet, and what the *)
(* reader had left is gone, which is an edit unless it was nothing.        *)
TurnsToWriting ==
  /\ StoreStep /\ out' = out
  /\ Reading /\ ~Reading' /\ Writing'
  /\ Written' = <<>>
  /\ ~edited' => is_empty(Reader) /\ UNCHANGED <<sent, got, edited>>

(* The prefix of no elements.                                              *)
LEMMA EmptyPrefix ==
  ASSUME NEW s
  PROVE  SubSeq(s, 1, 0) = <<>>
BY SubSeqEmpty

(* While nothing is edited, only an empty reader is dropped.               *)
LEMMA DropsRestLemma ==
  ASSUME DropsRest
  PROVE  /\ UNCHANGED <<sent, got, edited>> \/ Edit
         /\ ~edited' => is_empty(Reader) /\ UNCHANGED <<sent, got, edited>>
BY DEF DropsRest, Edit

(* The end of a view keeps every type.                                     *)
LEMMA DropViewLemma ==
  ASSUME TypeOK, DropView
  PROVE  TypeOK' /\ TurnsToWriting
<1>1. /\ StoreOK /\ view # {} /\ view' = {} /\ DropsRest
      /\ UNCHANGED <<kind, store, borrow, out>>
      /\ UNCHANGED <<ciphered, input, output, enc, dec, result>>
  BY DEF DropView, TypeOK
<1>2. kind # "read" /\ Writer.pos = 0
  BY <1>1, StoreFacts
<1>3. kind \in {"write", "borrowed"}
  BY <1>1, <1>2 DEF StoreOK
<1>4. Written' = <<>>
  <2>1. Writer' = Writer
    BY <1>1 DEF Writer
  <2> QED
    BY <1>2, <2>1, EmptyPrefix DEF Written
<1>5. StoreOK'
  BY <1>1 DEF StoreOK, Buffer
<1>6. Reading /\ ~Reading' /\ Writing'
  BY <1>1, <1>3 DEF Reading, Writing
<1>7. StoreStep
  BY <1>1, DropsRestLemma DEF StoreStep
<1>8. TypeOK'
  BY <1>1, <1>5, <1>7, StoreStepTypes DEF TypeOK
<1> QED
  BY <1>1, <1>4, <1>6, <1>7, <1>8, DropsRestLemma DEF TurnsToWriting

(* into_write_buffer keeps every type.                                     *)
LEMMA IntoWriteBufferLemma ==
  ASSUME TypeOK, into_write_buffer
  PROVE  TypeOK' /\ TurnsToWriting
<1> DEFINE f == store.buff
<1>1. /\ StoreOK /\ kind = "read" /\ kind' = "write" /\ DropsRest
      /\ store' = NewRef(f) /\ UNCHANGED <<borrow, view, out>>
      /\ UNCHANGED <<ciphered, input, output, enc, dec, result>>
  BY DEF into_write_buffer, TypeOK
<1>2. view = {}
  BY <1>1, StoreFacts
<1>3. Capacity \in Nat /\ f \in [1 .. Capacity -> Byte] /\ Len(f) = Capacity
      /\ Capacity \in 0 .. Capacity /\ 0 \in 0 .. Capacity
  BY <1>1, SizeAssumption, BufferIsOrdered DEF StoreOK
<1> HIDE DEF f
<1>4. /\ store' = [buff |-> f, len |-> Capacity, pos |-> 0]
      /\ store' \in Buffer(Capacity) /\ store'.len = Capacity /\ store'.pos = 0
  BY <1>1, <1>3, BufferFromParts DEF NewRef
<1>5. StoreOK'
  BY <1>1, <1>2, <1>4 DEF StoreOK
<1>6. Written' = <<>>
  BY <1>1, <1>4, EmptyPrefix DEF Written, Writer
<1>7. Reading /\ ~Reading' /\ Writing'
  BY <1>1, <1>2 DEF Reading, Writing
<1>8. StoreStep
  BY <1>1, DropsRestLemma DEF StoreStep
<1>9. TypeOK'
  BY <1>1, <1>5, <1>8, StoreStepTypes DEF TypeOK
<1> QED
  BY <1>1, <1>6, <1>7, <1>8, <1>9, DropsRestLemma DEF TurnsToWriting

(* borrow_write_buffer keeps every type.                                   *)
LEMMA BorrowWriteBufferLemma ==
  ASSUME TypeOK, borrow_write_buffer
  PROVE  TypeOK' /\ TurnsToWriting
<1> DEFINE f == store.buff
<1>1. /\ StoreOK /\ kind = "read" /\ kind' = "borrowed" /\ DropsRest
      /\ store' = [buff |-> f, len |-> 0, pos |-> 0]
      /\ borrow' = [NoBorrow EXCEPT !.len = Len(f)]
      /\ UNCHANGED <<view, out>>
      /\ UNCHANGED <<ciphered, input, output, enc, dec, result>>
  BY DEF borrow_write_buffer, TypeOK
<1>2. view = {}
  BY <1>1, StoreFacts
<1>3. Capacity \in Nat /\ f \in [1 .. Capacity -> Byte] /\ Len(f) = Capacity
      /\ 0 \in 0 .. Capacity /\ 0 \in 0 .. 0
  BY <1>1, SizeAssumption, BufferIsOrdered DEF StoreOK
<1> HIDE DEF f
<1>4. /\ store' \in Buffer(Capacity) /\ store'.len = 0 /\ store'.pos = 0
      /\ store'.buff = f
  BY <1>1, <1>3, BufferFromParts
<1>5. borrow' = [buff |-> <<>>, len |-> Capacity, pos |-> 0]
  BY <1>1, <1>3 DEF NoBorrow
<1>6. StoreOK'
  BY <1>1, <1>2, <1>4, <1>5 DEF StoreOK
<1>7. Written' = <<>>
  <2>1. Writer' = [borrow' EXCEPT !.buff = f]
    BY <1>1, <1>4 DEF Writer
  <2>2. Writer'.pos = 0
    BY <1>5, <2>1
  <2> QED
    BY <2>2, EmptyPrefix DEF Written
<1>8. Reading /\ ~Reading' /\ Writing'
  BY <1>1, <1>2 DEF Reading, Writing
<1>9. StoreStep
  BY <1>1, DropsRestLemma DEF StoreStep
<1>10. TypeOK'
  BY <1>1, <1>6, <1>9, StoreStepTypes DEF TypeOK
<1> QED
  BY <1>1, <1>7, <1>8, <1>9, <1>10, DropsRestLemma DEF TurnsToWriting

-----------------------------------------------------------------------------
(* Steps that leave the store with whom it is: peeking at what has been    *)
(* written, putting it back, and taking, putting back or dropping what is  *)
(* to be read.                                                             *)
Unwrites ==
  /\ StoreStep /\ out' = out /\ edited' = TRUE
  /\ ~Reading /\ ~Reading'
  /\ \E n \in 0 .. Len(Written) : Written' = SubSeq(Written, 1, n)

(* peek_read_buffer keeps every type.                                      *)
LEMMA PeekReadBufferLemma ==
  ASSUME TypeOK, peek_read_buffer
  PROVE  /\ TypeOK' /\ ~Reading /\ out' = Written
         /\ UNCHANGED <<ciphered, input, kind, store, borrow, view, output,
                        enc, dec, result, sent, got, edited>>
<1>1. /\ ~Reading /\ kind # "read" /\ StoreOK /\ out' = Written
      /\ UNCHANGED <<ciphered, input, kind, store, borrow, view, output,
                     enc, dec, result, sent, got, edited>>
  BY DEF peek_read_buffer, Writing, Reading, TypeOK
<1>2. out' \in Seq(Byte)
  BY <1>1, WrittenType
<1>3. StoreOK'
  BY <1>1 DEF StoreOK, Buffer, IsRef, NewRef, Writer
<1>4. TypeOK'
  BY <1>1, <1>2, <1>3, StoreStepTypes DEF StoreStep
<1> QED
  BY <1>1, <1>4

(* rewind of a writer keeps every type.                                    *)
LEMMA RewindWriterLemma ==
  ASSUME TypeOK, rewind_writer
  PROVE  TypeOK' /\ Unwrites
<1>1. /\ StoreOK /\ Writing /\ kind # "read" /\ ~Reading /\ Edit
      /\ UNCHANGED <<ciphered, input, kind, view, output, enc, dec, result, out>>
  BY DEF rewind_writer, Writing, Reading, TypeOK
<1>2. PICK distance \in 1 .. Writer.pos :
        SetWriter([Writer EXCEPT !.pos = @ - distance])
  BY DEF rewind_writer
<1> DEFINE p == Writer.pos - distance
           w == [Writer EXCEPT !.pos = p]
<1>3. /\ Writer \in Buffer(Capacity) /\ Writer.buff = store.buff
      /\ Capacity \in Nat /\ Ordered(Writer)
      /\ Written \in Seq(Byte) /\ Len(Written) = Writer.pos
      /\ Writer.pos \in 0 .. Capacity /\ Len(store.buff) = Capacity
      /\ store.buff \in Seq(Byte)
  BY <1>1, StoreFacts, SizeAssumption, BufferIsOrdered, WrittenType DEF Ordered
<1>4. p \in 0 .. Writer.len /\ p \in 0 .. Writer.pos
  BY <1>3, LenProperties DEF Ordered
<1> HIDE DEF p
<1>5. /\ w \in Buffer(Capacity) /\ w.len = Writer.len /\ w.buff = store.buff
      /\ w.pos = p
  BY <1>3, <1>4, AtPosition
<1>6. SetWriter(w)
  BY <1>2 DEF p
<1> HIDE DEF w
<1>7. /\ StoreOK' /\ ~Reading' /\ Writer' = w /\ store'.buff = store.buff
  BY <1>1, <1>5, <1>6, SetWriterLemma
<1>8. Written' = SubSeq(Written, 1, p)
  <2>1. Written' = SubSeq(store.buff, 1, p)
    BY <1>5, <1>7 DEF Written
  <2> DEFINE s == store.buff
             m == Writer.pos
  <2>2. s \in Seq(Byte) /\ m \in 0 .. Len(s) /\ p \in 0 .. m
    BY <1>3, <1>4
  <2>3. Written = SubSeq(s, 1, m)
    BY DEF Written
  <2> HIDE DEF s, m
  <2>4. SubSeq(SubSeq(s, 1, m), 1, p) = SubSeq(s, 1, p)
    BY <2>2, PrefixOfPrefix
  <2> QED
    BY <2>1, <2>3, <2>4 DEF s
<1>9. StoreStep /\ edited' = TRUE
  BY <1>1 DEF StoreStep, Edit
<1>10. TypeOK'
  BY <1>1, <1>7, <1>9, StoreStepTypes DEF TypeOK
<1> QED
  BY <1>1, <1>3, <1>4, <1>7, <1>8, <1>9, <1>10 DEF Unwrites

(* reset of a writer keeps every type.                                     *)
LEMMA ResetWriterLemma ==
  ASSUME TypeOK, reset_writer
  PROVE  TypeOK' /\ Unwrites
<1>1. /\ StoreOK /\ Writing /\ kind # "read" /\ ~Reading /\ view = {} /\ Edit
      /\ EmptyWriter
      /\ UNCHANGED <<ciphered, input, kind, view, output, enc, dec, result, out>>
  BY DEF reset_writer, Writing, Reading, TypeOK
<1>2. StoreOK' /\ ~Reading' /\ Writer'.pos = 0
  BY <1>1, EmptyWriterLemma
<1>3. Written' = <<>> /\ SubSeq(Written, 1, 0) = <<>>
  BY <1>2, EmptyPrefix DEF Written
<1>4. 0 \in 0 .. Len(Written)
  BY <1>1, WrittenType
<1>5. StoreStep /\ edited' = TRUE
  BY <1>1 DEF StoreStep, Edit
<1>6. TypeOK'
  BY <1>1, <1>2, <1>5, StoreStepTypes DEF TypeOK
<1> QED
  BY <1>1, <1>2, <1>3, <1>4, <1>5, <1>6 DEF Unwrites

(* A step of the reader alone to another position in the same bytes.       *)
Repositions(p) ==
  /\ StoreStep /\ edited' = TRUE
  /\ Reading /\ Reading'
  /\ Reader'.buff = Reader.buff /\ Reader'.len = Reader.len /\ Reader'.pos = p

(* A reader put elsewhere within its bytes.                                *)
LEMMA RepositionTypes ==
  ASSUME TypeOK, Reading, Edit, NEW p \in 0 .. Reader.len,
         SetReader([Reader EXCEPT !.pos = p]), out' \in Seq(Byte),
         UNCHANGED <<ciphered, input, kind, borrow, output, enc, dec, result>>
  PROVE  TypeOK' /\ Repositions(p)
<1>1. StoreOK /\ UNCHANGED <<kind, borrow>>
  BY DEF TypeOK
<1>2. /\ StoreOK' /\ Reading'
      /\ Reader'.buff = Reader.buff /\ Reader'.len = Reader.len /\ Reader'.pos = p
  BY <1>1, ReaderAt
<1>3. StoreStep /\ edited' = TRUE
  BY DEF StoreStep, Edit
<1>4. TypeOK'
  BY <1>2, <1>3, StoreStepTypes
<1> QED
  BY <1>2, <1>3, <1>4 DEF Repositions

(* take_next by a caller keeps every type.                                 *)
LEMMA CallerTakeNextLemma ==
  ASSUME TypeOK, take_next
  PROVE  \E count \in 1 .. remaining(Reader) :
           /\ TypeOK' /\ Repositions(Reader.pos + count)
           /\ out' = Slice(Reader, count)
<1>1. PICK count \in 1 .. remaining(Reader) :
        /\ out' = Slice(Reader, count)
        /\ SetReader(Advance(Reader, count))
  BY DEF take_next
<1>2. /\ Reading /\ Edit /\ Ordered(Reader)
      /\ UNCHANGED <<ciphered, input, kind, borrow, output, enc, dec, result>>
  BY StoreFacts DEF take_next, TypeOK
<1> DEFINE p == Reader.pos + count
<1>3. p \in 0 .. Reader.len /\ count \in 0 .. remaining(Reader)
  BY <1>2, LenProperties DEF Ordered, remaining
<1>4. SetReader([Reader EXCEPT !.pos = p])
  BY <1>1 DEF Advance
<1>5. out' \in Seq(Byte)
  BY <1>1, <1>2, <1>3, TakeNextLemma
<1> HIDE DEF p
<1>6. TypeOK' /\ Repositions(p)
  BY <1>2, <1>3, <1>4, <1>5, RepositionTypes
<1> QED
  BY <1>1, <1>6 DEF p

(* rewind of a reader keeps every type.                                    *)
LEMMA RewindReaderLemma ==
  ASSUME TypeOK, rewind_reader
  PROVE  \E p \in 0 .. Reader.pos : TypeOK' /\ Repositions(p) /\ out' = out
<1>1. PICK distance \in 1 .. Reader.pos :
        SetReader([Reader EXCEPT !.pos = @ - distance])
  BY DEF rewind_reader
<1>2. /\ Reading /\ Edit /\ Ordered(Reader) /\ out' = out /\ out' \in Seq(Byte)
      /\ UNCHANGED <<ciphered, input, kind, borrow, output, enc, dec, result>>
  BY StoreFacts DEF rewind_reader, TypeOK
<1> DEFINE p == Reader.pos - distance
<1>3. p \in 0 .. Reader.len /\ p \in 0 .. Reader.pos
  BY <1>2, LenProperties DEF Ordered
<1>4. SetReader([Reader EXCEPT !.pos = p])
  BY <1>1
<1> HIDE DEF p
<1>5. TypeOK' /\ Repositions(p)
  BY <1>2, <1>3, <1>4, RepositionTypes
<1> QED
  BY <1>2, <1>3, <1>5

(* reset of a reader keeps every type.                                     *)
LEMMA ResetReaderLemma ==
  ASSUME TypeOK, reset_reader
  PROVE  \E p \in 0 .. Reader.pos : TypeOK' /\ Repositions(p) /\ out' = out
<1>1. /\ Reading /\ Edit /\ Ordered(Reader) /\ out' = out /\ out' \in Seq(Byte)
      /\ SetReader([Reader EXCEPT !.pos = 0])
      /\ UNCHANGED <<ciphered, input, kind, borrow, output, enc, dec, result>>
  BY StoreFacts DEF reset_reader, TypeOK
<1>2. 0 \in 0 .. Reader.len /\ 0 \in 0 .. Reader.pos
  BY <1>1, LenProperties DEF Ordered
<1>3. TypeOK' /\ Repositions(0)
  BY <1>1, <1>2, RepositionTypes
<1> QED
  BY <1>1, <1>2, <1>3

(* truncate: what is to be read loses its end, and keeps its position.     *)
LEMMA TruncateLemma ==
  ASSUME TypeOK, truncate
  PROVE  /\ TypeOK' /\ StoreStep /\ edited' = TRUE /\ out' = out
         /\ Reading /\ Reading'
         /\ \E n \in Reader.pos .. Reader.len :
              /\ SubSeq(Reader.buff, 1, Reader.len)'
                   = SubSeq(SubSeq(Reader.buff, 1, Reader.len), 1, n)
              /\ Reader.pos' = Reader.pos
<1> DEFINE s == Reader.buff
           l == Reader.len
           p == Reader.pos
<1>1. PICK amount \in 1 .. remaining(Reader) :
        SetReader([buff |-> IF view # {} THEN SubSeq(s, 1, l - amount) ELSE s,
                   len |-> l - amount, pos |-> p])
  BY DEF truncate
<1>2. /\ Reading /\ Edit /\ Ordered(Reader) /\ out' = out /\ out' \in Seq(Byte)
      /\ StoreOK
      /\ UNCHANGED <<ciphered, input, kind, borrow, output, enc, dec, result>>
  BY StoreFacts DEF truncate, TypeOK
<1> DEFINE n == l - amount
           f == IF view # {} THEN SubSeq(s, 1, n) ELSE s
           r == [buff |-> f, len |-> n, pos |-> p]
<1>3. /\ s \in Seq(Byte) /\ Len(s) \in Nat /\ l \in 0 .. Len(s) /\ n \in 0 .. l
      /\ n \in 0 .. Len(s) /\ p \in 0 .. n /\ n \in p .. l
  BY <1>2, LenProperties DEF Ordered, remaining
<1>4. /\ SubSeq(s, 1, n) \in Seq(Byte) /\ Len(SubSeq(s, 1, n)) = n
      /\ SubSeq(SubSeq(s, 1, l), 1, n) = SubSeq(s, 1, n)
      /\ SubSeq(SubSeq(s, 1, n), 1, n) = SubSeq(s, 1, n)
  <2> HIDE DEF s, l, n, p
  <2>1. n \in 0 .. n
    BY <1>3
  <2> QED
    BY <1>3, <2>1, PrefixProperties, PrefixOfPrefix
<1>5. SetReader(r)
  BY <1>1
<1>6. ASSUME view # {}
      PROVE  IsRef(r)
  <2> DEFINE t == SubSeq(s, 1, n)
  <2>1. r = [buff |-> t, len |-> n, pos |-> p] /\ t \in Seq(Byte) /\ Len(t) = n
    BY <1>4, <1>6
  <2> HIDE DEF s, l, n, p, f, r, t
  <2> QED
    BY <1>3, <2>1 DEF IsRef, NewRef
<1>7. ASSUME view = {}
      PROVE  r \in Buffer(Capacity)
  <2>1. Reader \in Buffer(Capacity) /\ Capacity \in Nat
    BY <1>2, <1>7, StoreFacts, SizeAssumption DEF StoreOK
  <2>2. s \in [1 .. Capacity -> Byte] /\ Len(s) = Capacity
    BY <2>1, BufferIsOrdered
  <2>3. f = s
    BY <1>7
  <2> HIDE DEF s, l, n, p, f
  <2> QED
    BY <1>3, <2>1, <2>2, <2>3, BufferFromParts
<1>8. r.buff = f /\ r.len = n /\ r.pos = p
  <2> HIDE DEF f, n, p
  <2> QED
    OBVIOUS
<1>9. SubSeq(f, 1, n) = SubSeq(s, 1, n)
  <2> HIDE DEF s, n
  <2> QED
    BY <1>4
<1> HIDE DEF r
<1>10. StoreOK' /\ Reading' /\ Reader' = r
  BY <1>2, <1>5, <1>6, <1>7, SetReaderLemma
<1>11. StoreStep /\ edited' = TRUE
  BY <1>2 DEF StoreStep, Edit
<1>12. TypeOK'
  BY <1>2, <1>10, <1>11, StoreStepTypes
<1>13. SubSeq(Reader.buff, 1, Reader.len)' = SubSeq(SubSeq(s, 1, l), 1, n)
       /\ Reader.pos' = p
  <2> HIDE DEF s, l, n, p, f
  <2> QED
    BY <1>4, <1>8, <1>9, <1>10
<1> HIDE DEF n
<1> QED
  BY <1>2, <1>3, <1>10, <1>11, <1>12, <1>13

-----------------------------------------------------------------------------
(* The types of the buffers.                                               *)
LEMMA NewMemory ==
  ASSUME NEW n \in Nat, NEW b \in Byte
  PROVE  LET m == NewRef([i \in 1 .. n |-> b])
         IN m \in Buffer(n) /\ m.len = n /\ m.pos = 0
<1> DEFINE f == [i \in 1 .. n |-> b]
<1>1. f \in [1 .. n -> Byte] /\ Len(f) = n /\ n \in 0 .. n /\ 0 \in 0 .. n
  OBVIOUS
<1> HIDE DEF f
<1>2. NewRef(f) = [buff |-> f, len |-> n, pos |-> 0]
  BY <1>1 DEF NewRef
<1>3. NewRef(f) \in Buffer(n) /\ NewRef(f).len = n /\ NewRef(f).pos = 0
  BY <1>1, <1>2, BufferFromParts
<1> QED
  BY <1>3 DEF f

(* The types hold at first.                                                *)
LEMMA InitTypes ==
  ASSUME Init
  PROVE  TypeOK
<1>1. PICK b \in Byte :
        /\ store = NewRef([i \in 1 .. Capacity |-> b])
        /\ output = NewRef([i \in 1 .. OutSize |-> b])
  BY DEF Init
<1>2. /\ ciphered \in BOOLEAN /\ kind = "write" /\ borrow = NoBorrow /\ view = {}
      /\ input = NewRef(<<>>) /\ enc = 0 /\ dec = 0 /\ result = "none"
      /\ out = <<>> /\ sent = <<>> /\ got = <<>> /\ edited = FALSE
  BY DEF Init
<1>3. /\ store \in Buffer(Capacity) /\ store.len = Capacity
      /\ output \in Buffer(OutSize) /\ output.len = OutSize
  BY <1>1, NewMemory, SizeAssumption
<1>4. StoreOK
  BY <1>2, <1>3 DEF StoreOK
<1>5. IsRef(input) /\ input.buff = <<>> /\ <<>> \in Seq(Byte)
  BY <1>2, NewRefIsRef, EmptySeq
<1>6. 0 \in 0 .. (Len(Key) - 1)
  BY KeyAssumption, EmptySeq, LenProperties
<1> QED
  BY <1>2, <1>3, <1>4, <1>5, <1>6 DEF TypeOK

(* No step breaks the types: one case for each action of Next.             *)
LEMMA StepTypes ==
  ASSUME TypeOK, [Next]_vars
  PROVE  TypeOK'
<1>1. CASE Give
  BY <1>1, GiveLemma
<1>2. CASE Drain
  BY <1>2, DrainLemma
<1>3. CASE Move
  BY <1>3, SendLemma, ReceiveLemma DEF Move
<1>4. CASE HandOver
  BY <1>4, TakeReadBufferLemma, DropViewLemma, IntoReadBufferLemma,
     IntoWriteBufferLemma, BorrowWriteBufferLemma, EndBorrowLemma DEF HandOver
<1>5. CASE Change
  <2>1. CASE peek_read_buffer
    BY <2>1, PeekReadBufferLemma
  <2>2. CASE rewind_writer \/ reset_writer
    BY <2>2, RewindWriterLemma, ResetWriterLemma
  <2>3. CASE take_next
    BY <2>3, CallerTakeNextLemma
  <2>4. CASE rewind_reader \/ reset_reader
    BY <2>4, RewindReaderLemma, ResetReaderLemma
  <2>5. CASE truncate
    BY <2>5, TruncateLemma
  <2> QED
    BY <1>5, <2>1, <2>2, <2>3, <2>4, <2>5 DEF Change
<1>6. CASE UNCHANGED vars
  BY <1>6 DEF vars, TypeOK, StoreOK, Buffer, IsRef, NewRef, Writer
<1> QED
  BY <1>1, <1>2, <1>3, <1>4, <1>5, <1>6 DEF Next

(* In every reachable state each buffer's position is before its end and   *)
(* its end within its memory, a reader returned by take_read_buffer holds  *)
(* bytes, and the parent of a BorrowedWriteBuffer has the length that has  *)
(* been written through it (buffer.rs:94, 145, 219, 223, 233, 239, 278).   *)
THEOREM TypeCorrect == Spec => []TypeOK
<1>1. Init => TypeOK
  BY InitTypes
<1>2. TypeOK /\ [Next]_vars => TypeOK'
  BY StepTypes
<1> QED
  BY <1>1, <1>2, PTL DEF Spec

-----------------------------------------------------------------------------
(* "BufferOverflow" tells the caller to drain: symm_enc_or_dec returns it  *)
(* only when the side it writes to is full (cryptoutil.rs:256), whatever   *)
(* the sizes of the buffers and whatever has been done to them before.     *)
THEOREM OverflowCorrect == Spec => OverflowMeansFull
<1>1. TypeOK /\ [Next]_vars =>
        [/\ Send /\ result' = "BufferOverflow" => (remaining(Writer) = 0)'
         /\ Receive /\ result' = "BufferOverflow" => (remaining(output) = 0)']_vars
  BY SendLemma, ReceiveLemma
<1> QED
  BY <1>1, TypeCorrect, PTL DEF Spec, OverflowMeansFull

-----------------------------------------------------------------------------
(* The refinement: every step of the buffers is one of ByteStore, or       *)
(* leaves what ByteStore sees of them alone.                               *)

(* What ByteStore sees of the store is a sequence of bytes.                *)
LEMMA DataType ==
  ASSUME TypeOK
  PROVE  /\ Data \in Seq(Byte) /\ Len(Data) \in Nat
         /\ Taken \in 0 .. Len(Data)
         /\ Reading => /\ Len(Data) = Reader.len /\ Reader.len \in 0 .. Len(Reader.buff)
                       /\ Reader.buff \in Seq(Byte)
<1>1. StoreOK
  BY DEF TypeOK
<1>2. CASE Reading
  <2>1. /\ Reader.buff \in Seq(Byte) /\ Reader.len \in 0 .. Len(Reader.buff)
        /\ Reader.pos \in 0 .. Reader.len
    BY <1>1, StoreFacts DEF Ordered
  <2>2. Data = SubSeq(Reader.buff, 1, Reader.len) /\ Taken = Reader.pos
    BY <1>2 DEF Data, Taken
  <2>3. Data \in Seq(Byte) /\ Len(Data) = Reader.len
    BY <2>1, <2>2, PrefixProperties
  <2> QED
    BY <2>1, <2>2, <2>3, LenProperties
<1>3. CASE ~Reading
  <2>1. Data = Written /\ Taken = 0 /\ kind # "read"
    BY <1>3 DEF Data, Taken, Reading
  <2>2. Data \in Seq(Byte)
    BY <1>1, <2>1, WrittenType
  <2>3. Len(Data) \in Nat
    BY <2>2, LenProperties
  <2> QED
    BY <1>3, <2>1, <2>2, <2>3
<1> QED
  BY <1>2, <1>3

(* A send is a write of ByteStore.                                         *)
LEMMA SendWrites ==
  ASSUME TypeOK, Send
  PROVE  Store!Write
<1>1. /\ ~Reading /\ ~Reading' /\ Written' = Written \o SendCoded
      /\ Written \in Seq(Byte) /\ SendCount <= Capacity - Len(Written)
      /\ out' = out
  BY SendLemma
<1>2. /\ SendCount \in Nat
      /\ SendCoded \in Seq(Byte) /\ Len(SendCoded) = SendCount
  BY SendTypes DEF Send
<1>3. SendCoded \in [1 .. SendCount -> Byte]
  BY <1>2, LenProperties
<1>4. SendCount \in 0 .. (Capacity - Len(Written))
  BY <1>1, <1>2, SizeAssumption, LenProperties
<1>5. /\ Mode = "writing" /\ Mode' = "writing" /\ Data = Written
      /\ Data' = Written' /\ Taken = 0 /\ Taken' = 0
  BY <1>1 DEF Mode, Data, Taken
<1> QED
  BY <1>1, <1>3, <1>4, <1>5 DEF Store!Write

(* A reader that has moved within its bytes.                               *)
LEMMA MovedReader ==
  ASSUME TypeOK, Reading, Reading',
         Reader'.buff = Reader.buff, Reader'.len = Reader.len
  PROVE  /\ Mode = "reading" /\ Mode' = "reading" /\ Data' = Data
         /\ Taken = Reader.pos /\ Taken' = Reader'.pos
BY DEF Mode, Data, Taken

(* What a reader takes are the first bytes of what ByteStore holds.        *)
LEMMA TakenIsRead ==
  ASSUME TypeOK, Reading, Reading', NEW count \in 0 .. remaining(Reader),
         Reader'.buff = Reader.buff, Reader'.len = Reader.len,
         Reader'.pos = Reader.pos + count, out' = Slice(Reader, count)
  PROVE  Store!Read
<1> DEFINE s == Reader.buff
           p == Reader.pos
           l == Reader.len
<1>1. /\ Mode = "reading" /\ Mode' = "reading" /\ Data' = Data
      /\ Taken = p /\ Taken' = p + count
  BY MovedReader
<1>2. Ordered(Reader)
  BY StoreFacts DEF TypeOK
<1>3. /\ s \in Seq(Byte) /\ Len(s) \in Nat /\ p \in Nat /\ count \in Nat
      /\ p + count <= l /\ l \in 0 .. Len(s) /\ Len(Data) = l
  BY <1>2, DataType, LenProperties DEF Ordered, remaining
<1>4. p + count \in p .. Len(Data)
  BY <1>3
<1>5. Data = SubSeq(s, 1, l) /\ out' = SubSeq(s, p + 1, p + count)
  BY DEF Data, Slice
<1> HIDE DEF s, p, l
<1>6. SubSeq(SubSeq(s, 1, l), p + 1, p + count) = SubSeq(s, p + 1, p + count)
  BY <1>3, PartOfPrefix
<1>7. out' = SubSeq(Data, Taken + 1, Taken')
  BY <1>1, <1>5, <1>6
<1> QED
  BY <1>1, <1>4, <1>7 DEF Store!Read

(* A receive is a read of ByteStore.                                       *)
LEMMA ReceiveReads ==
  ASSUME TypeOK, Receive
  PROVE  Store!Read
<1>1. /\ Reading /\ Reading' /\ Reader' = Advance(Reader, ReceiveCount)
      /\ out' = Slice(Reader, ReceiveCount)
  BY ReceiveLemma DEF ReceiveBytes
<1>2. Ordered(Reader) /\ ReceiveCount \in 0 .. remaining(Reader)
  BY <1>1, ReceiveTypes
<1>3. /\ Reader'.buff = Reader.buff /\ Reader'.len = Reader.len
      /\ Reader'.pos = Reader.pos + ReceiveCount
  BY <1>1, <1>2, AdvanceLemma
<1> QED
  BY <1>1, <1>2, <1>3, TakenIsRead

(* Handing the store over is a turn of ByteStore.                          *)
LEMMA TurnsAreSeen ==
  ASSUME TypeOK
  PROVE  /\ TurnsToReading => Store!StartReading
         /\ TurnsToWriting => Store!StartWriting
<1>1. ASSUME TurnsToReading
      PROVE  Store!StartReading
  <2>1. /\ Mode = "writing" /\ Mode' = "reading" /\ Taken' = 0
        /\ Data' = Data /\ out' = out
    BY <1>1 DEF TurnsToReading, Mode, Taken, Data
  <2> QED
    BY <2>1 DEF Store!StartReading
<1>2. ASSUME TurnsToWriting
      PROVE  Store!StartWriting
  <2>1. /\ Mode = "reading" /\ Mode' = "writing" /\ Taken' = 0
        /\ Data' = <<>> /\ out' = out
    BY <1>2 DEF TurnsToWriting, Mode, Taken, Data
  <2> QED
    BY <2>1 DEF Store!StartWriting
<1> QED
  BY <1>1, <1>2

(* Rewinding a writer takes back what it wrote last.                       *)
LEMMA UnwritesIsSeen ==
  ASSUME TypeOK, Unwrites
  PROVE  Store!Unwrite
<1>1. /\ Mode = "writing" /\ Mode' = "writing" /\ Taken = 0 /\ Taken' = 0
      /\ Data = Written /\ Data' = Written' /\ out' = out
  BY DEF Unwrites, Mode, Taken, Data
<1>2. \E n \in 0 .. Len(Data) : Data' = SubSeq(Data, 1, n)
  BY <1>1 DEF Unwrites
<1> QED
  BY <1>1, <1>2 DEF Store!Unwrite

(* A step that leaves the store alone is none of ByteStore.                *)
LEMMA StutterIsSeen ==
  ASSUME UNCHANGED <<kind, store, borrow, view, out>>
  PROVE  UNCHANGED Store!storeVars
BY DEF Store!storeVars, Mode, Data, Taken, Reading, Reader, Written, Writer

(* Every change that the store's owner makes is a step of ByteStore.       *)
LEMMA ChangeIsSeen ==
  ASSUME TypeOK, Change
  PROVE  Store!StoreNext
<1>1. CASE peek_read_buffer
  <2>1. ~Reading /\ out' = Written /\ UNCHANGED <<kind, store, borrow, view>>
    BY <1>1, PeekReadBufferLemma
  <2>2. UNCHANGED <<Mode, Data, Taken>>
    BY <2>1 DEF Mode, Data, Taken, Reading, Reader, Written, Writer
  <2>3. Mode = "writing" /\ Data = Written
    BY <2>1 DEF Mode, Data
  <2>4. Store!PeekAll
    BY <2>1, <2>2, <2>3 DEF Store!PeekAll
  <2> QED
    BY <2>4 DEF Store!StoreNext
<1>2. CASE rewind_writer \/ reset_writer
  <2>1. Store!Unwrite
    BY <1>2, RewindWriterLemma, ResetWriterLemma, UnwritesIsSeen
  <2> QED
    BY <2>1 DEF Store!StoreNext
<1>3. CASE take_next
  <2>1. PICK count \in 1 .. remaining(Reader) :
          Repositions(Reader.pos + count) /\ out' = Slice(Reader, count)
    BY <1>3, CallerTakeNextLemma
  <2>2. count \in 0 .. remaining(Reader)
    OBVIOUS
  <2>3. Store!Read
    BY <2>1, <2>2, TakenIsRead DEF Repositions
  <2> QED
    BY <2>3 DEF Store!StoreNext
<1>4. CASE rewind_reader \/ reset_reader
  <2>1. PICK p \in 0 .. Reader.pos : Repositions(p) /\ out' = out
    BY <1>4, RewindReaderLemma, ResetReaderLemma
  <2>2. /\ Mode = "reading" /\ Mode' = "reading" /\ Data' = Data
        /\ Taken = Reader.pos /\ Taken' = p
    BY <2>1, MovedReader DEF Repositions
  <2>3. Store!Unread
    BY <2>1, <2>2 DEF Store!Unread
  <2> QED
    BY <2>3 DEF Store!StoreNext
<1>5. CASE truncate
  <2>1. /\ Reading /\ Reading' /\ out' = out
        /\ \E n \in Reader.pos .. Reader.len :
             /\ SubSeq(Reader.buff, 1, Reader.len)'
                  = SubSeq(SubSeq(Reader.buff, 1, Reader.len), 1, n)
             /\ Reader.pos' = Reader.pos
    BY <1>5, TruncateLemma
  <2>2. /\ Mode = "reading" /\ Mode' = "reading" /\ Taken = Reader.pos
        /\ Taken' = Reader.pos' /\ Len(Data) = Reader.len
        /\ Data = SubSeq(Reader.buff, 1, Reader.len)
        /\ Data' = SubSeq(Reader.buff, 1, Reader.len)'
    BY <2>1, DataType DEF Mode, Taken, Data
  <2>3. Taken' = Taken /\ \E n \in Taken .. Len(Data) : Data' = SubSeq(Data, 1, n)
    BY <2>1, <2>2
  <2>4. Store!Truncate
    BY <2>1, <2>2, <2>3 DEF Store!Truncate
  <2> QED
    BY <2>4 DEF Store!StoreNext
<1> QED
  BY <1>1, <1>2, <1>3, <1>4, <1>5 DEF Change

(* Every step is a step of ByteStore or none.                              *)
LEMMA StepIsSeen ==
  ASSUME TypeOK, [Next]_vars
  PROVE  [Store!StoreNext]_Store!storeVars
<1>1. CASE Give
  BY <1>1, StutterIsSeen DEF Give
<1>2. CASE Drain
  BY <1>2, StutterIsSeen DEF Drain
<1>3. CASE Move
  BY <1>3, SendWrites, ReceiveReads DEF Move, Store!StoreNext
<1>4. CASE HandOver
  <2>1. TurnsToReading \/ TurnsToWriting
    BY <1>4, TakeReadBufferLemma, DropViewLemma, IntoReadBufferLemma,
       IntoWriteBufferLemma, BorrowWriteBufferLemma, EndBorrowLemma DEF HandOver
  <2> QED
    BY <2>1, TurnsAreSeen DEF Store!StoreNext
<1>5. CASE Change
  BY <1>5, ChangeIsSeen
<1>6. CASE UNCHANGED vars
  BY <1>6, StutterIsSeen DEF vars
<1> QED
  BY <1>1, <1>2, <1>3, <1>4, <1>5, <1>6 DEF Next

(* Whichever buffer the Vec is at the moment, and however it has been      *)
(* handed on, what is read from it is what has been written into it since  *)
(* it was last empty, in order, and never what the Vec held before         *)
(* (buffer.rs:123, 126, 236, 259).                                         *)
THEOREM ImplementsByteStore == Spec => RefinesByteStore
<1>1. Init => Store!StoreInit
  <2> SUFFICES ASSUME Init PROVE Store!StoreInit
    OBVIOUS
  <2>1. kind = "write" /\ view = {} /\ out = <<>> /\ Writer = store /\ store.pos = 0
    BY NewMemory, SizeAssumption DEF Init, Writer, NewRef
  <2>2. ~Reading /\ Written = <<>>
    BY <2>1, EmptyPrefix DEF Reading, Written
  <2>3. Mode = "writing" /\ Data = <<>> /\ Taken = 0
    BY <2>2 DEF Mode, Data, Taken
  <2> QED
    BY <2>1, <2>3 DEF Store!StoreInit
<1>2. TypeOK /\ [Next]_vars => [Store!StoreNext]_Store!storeVars
  BY StepIsSeen
<1> QED
  BY <1>1, <1>2, TypeCorrect, PTL DEF Spec, RefinesByteStore, Store!StoreSpec

-----------------------------------------------------------------------------
(* Nothing is lost.  What is between the caller's two ends: what waits in  *)
(* the store as it will come out of it, and what waits in the input.       *)
Decoded == IF ciphered THEN process(dec, Stored) ELSE Stored
Rest == Slice(input, remaining(input))

(* Conserved, with its parts named.                                        *)
LEMMA ConservedMeans ==
  Conserved <=> (~edited => sent = ((got \o Delivered) \o Decoded) \o Rest)
BY DEF Conserved, Delivered, Decoded, Rest

(* What is on the way, with its type.                                      *)
LEMMA OnTheWay ==
  ASSUME TypeOK
  PROVE  /\ Stored \in Seq(Byte) /\ Delivered \in Seq(Byte)
         /\ Decoded \in Seq(Byte) /\ Rest \in Seq(Byte)
         /\ got \in Seq(Byte) /\ got \o Delivered \in Seq(Byte)
         /\ Len(Stored) \in Nat /\ dec \in Nat /\ enc \in Nat
<1>1. StoreOK /\ dec \in Nat /\ enc \in Nat /\ got \in Seq(Byte)
  BY DEF TypeOK
<1>2. Stored \in Seq(Byte)
  <2>1. CASE Reading
    <3>1. Ordered(Reader)
      BY <1>1, StoreFacts
    <3>2. remaining(Reader) \in 0 .. remaining(Reader)
      BY <3>1, LenProperties DEF Ordered, remaining
    <3> QED
      BY <2>1, <3>1, <3>2, TakeNextLemma DEF Stored
  <2>2. CASE ~Reading
    BY <1>1, <2>2, WrittenType DEF Stored, Reading
  <2> QED
    BY <2>1, <2>2
<1>3. Decoded \in Seq(Byte)
  BY <1>1, <1>2, ProcessType DEF Decoded
<1>4. Rest \in Seq(Byte)
  <2>1. Ordered(input)
    BY RefIsOrdered DEF TypeOK
  <2>2. remaining(input) \in 0 .. remaining(input)
    BY <2>1, LenProperties DEF Ordered, remaining
  <2> QED
    BY <2>1, <2>2, TakeNextLemma DEF Rest
<1>5. Delivered \in Seq(Byte)
  <2>1. Ordered(output)
    BY SizeAssumption, BufferIsOrdered DEF TypeOK
  <2>2. output.buff \in Seq(Byte) /\ output.pos \in 0 .. Len(output.buff)
    BY <2>1, LenProperties DEF Ordered
  <2> QED
    BY <2>2, PrefixProperties DEF Delivered
<1>6. got \o Delivered \in Seq(Byte)
  BY <1>1, <1>5, ConcatProperties
<1> QED
  BY <1>1, <1>2, <1>3, <1>4, <1>5, <1>6, LenProperties

(* Joining bytes is associative.                                           *)
LEMMA JoinAssociative ==
  ASSUME NEW x \in Seq(Byte), NEW y \in Seq(Byte), NEW z \in Seq(Byte)
  PROVE  (x \o y) \o z = x \o (y \o z)
BY ConcatAssociative

(* A send moves bytes from the input to the end of the store; what the     *)
(* sender encrypts the receiver will decrypt, since the store holds what   *)
(* the sender is ahead.                                                    *)
LEMMA SendConserves ==
  ASSUME TypeOK, Conserved, EndsInStep, Send, ~edited
  PROVE  Conserved' /\ EndsInStep'
<1> DEFINE w == Written
           b == SendBytes
           c == SendCoded
<1>1. /\ TypeOK' /\ ~Reading /\ ~Reading' /\ Written' = w \o c
      /\ w \in Seq(Byte) /\ Rest = b \o Rest'
      /\ ciphered => enc' = Moved(enc, SendCount)
      /\ UNCHANGED <<ciphered, output, dec, sent, got, edited>>
  BY SendLemma DEF Rest
<1>2. /\ enc \in Nat /\ SendCount \in Nat
      /\ b \in Seq(Byte) /\ Len(b) = SendCount
      /\ c \in Seq(Byte) /\ Len(c) = SendCount
      /\ c = IF ciphered THEN process(enc, b) ELSE b
  BY SendTypes DEF Send, SendCoded
<1>3. Stored = w /\ Stored' = w \o c
  BY <1>1 DEF Stored
<1> HIDE DEF w, b, c
<1>4. Len(w) \in Nat /\ Len(w \o c) = Len(w) + SendCount /\ dec \in Nat
  <2>1. w \in Seq(Byte) /\ c \in Seq(Byte) /\ Len(c) = SendCount
    BY <1>1, <1>2
  <2>2. Len(w) \in Nat
    BY <2>1, LenProperties
  <2>3. Len(w \o c) = Len(w) + SendCount
    BY <2>1, ConcatProperties
  <2>4. dec \in Nat
    BY OnTheWay
  <2> QED
    BY <2>2, <2>3, <2>4
<1>5. ciphered => enc = Moved(dec, Len(w))
  BY <1>3 DEF EndsInStep
<1>6. Decoded' = Decoded \o b
  <2>1. CASE ciphered
    <3>1. process(dec, w \o c) = process(dec, w) \o process(enc, c)
      <4>1. process(dec, w \o c) = process(dec, w) \o process(Moved(dec, Len(w)), c)
        <5>1. w \in Seq(Byte) /\ c \in Seq(Byte) /\ dec \in Nat
          BY <1>1, <1>2, <1>4
        <5> QED
          BY <5>1, ProcessConcat
      <4> QED
        BY <1>5, <2>1, <4>1
    <3>2. process(enc, c) = b
      BY <1>2, <2>1, ProcessTwice
    <3> QED
      BY <1>1, <1>3, <2>1, <3>1, <3>2 DEF Decoded
  <2>2. CASE ~ciphered
    BY <1>1, <1>2, <1>3, <2>2 DEF Decoded
  <2> QED
    BY <2>1, <2>2
<1>7. Conserved'
  <2> DEFINE g == got \o Delivered
             x == Decoded
             r == Rest'
  <2>1. g \in Seq(Byte) /\ x \in Seq(Byte) /\ r \in Seq(Byte)
    <3>1. (Rest \in Seq(Byte))'
      BY <1>1, OnTheWay, PTL
    <3> QED
      BY <3>1, OnTheWay
  <2>2. sent = (g \o x) \o (b \o r)
    BY <1>1, ConservedMeans
  <2>3. Delivered' = Delivered
    BY <1>1 DEF Delivered
  <2> HIDE DEF g, x, r
  <2>4. (g \o x) \o (b \o r) = (g \o (x \o b)) \o r
    <3>1. g \o x \in Seq(Byte)
      BY <2>1, ConcatProperties
    <3>2. b \in Seq(Byte)
      BY <1>2
    <3>3. ((g \o x) \o b) \o r = (g \o x) \o (b \o r)
      BY <2>1, <3>1, <3>2, JoinAssociative, ZenonT(60)
    <3>4. (g \o x) \o b = g \o (x \o b)
      BY <2>1, <3>2, JoinAssociative, ZenonT(60)
    <3> QED
      BY <3>3, <3>4
  <2>5. sent' = (g \o (x \o b)) \o r
    BY <1>1, <2>2, <2>4
  <2>6. (got \o Delivered)' = g
    BY <1>1, <2>3 DEF g
  <2>7. sent' = ((got \o Delivered)' \o Decoded') \o Rest'
    BY <1>6, <2>5, <2>6 DEF x, r
  <2> QED
    BY <2>7 DEF Conserved, Delivered, Decoded, Rest
<1>8. EndsInStep'
  <2> SUFFICES ASSUME ciphered PROVE enc' = Moved(dec, Len(w \o c))
    BY <1>1, <1>3 DEF EndsInStep, Moved
  <2>1. Moved(Moved(dec, Len(w)), SendCount) = Moved(dec, Len(w) + SendCount)
    BY <1>2, <1>4, MovedTwice
  <2> QED
    BY <1>1, <1>4, <1>5, <2>1
<1> QED
  BY <1>7, <1>8

(* A receive moves bytes from the front of the store to the output.        *)
LEMMA ReceiveConserves ==
  ASSUME TypeOK, Conserved, EndsInStep, Receive, ~edited
  PROVE  Conserved' /\ EndsInStep'
<1> DEFINE b == ReceiveBytes
           c == ReceiveCoded
           s == Stored'
<1>1. /\ TypeOK' /\ Reading /\ Stored = b \o s /\ s \in Seq(Byte)
      /\ Delivered' = Delivered \o c
      /\ ciphered => dec' = Moved(dec, ReceiveCount)
      /\ UNCHANGED <<ciphered, input, enc, sent, got, edited>>
  BY ReceiveLemma
<1>2. /\ dec \in Nat /\ ReceiveCount \in Nat
      /\ b \in Seq(Byte) /\ Len(b) = ReceiveCount
      /\ c \in Seq(Byte) /\ Len(c) = ReceiveCount
      /\ c = IF ciphered THEN process(dec, b) ELSE b
  BY <1>1, ReceiveTypes DEF ReceiveCoded
<1>3. Stored' = s
  OBVIOUS
<1> HIDE DEF b, c, s
<1>4. Len(s) \in Nat /\ Len(b \o s) = ReceiveCount + Len(s)
  BY <1>1, <1>2, ConcatProperties, LenProperties
<1>5. Decoded = c \o Decoded'
  <2>1. CASE ciphered
    <3>1. process(dec, b \o s) = process(dec, b) \o process(Moved(dec, ReceiveCount), s)
      <4>1. process(dec, b \o s) = process(dec, b) \o process(Moved(dec, Len(b)), s)
        BY <1>1, <1>2, ProcessConcat
      <4> QED
        BY <1>2, <4>1
    <3>2. Decoded' = process(dec', s)
      BY <1>1, <1>3, <2>1 DEF Decoded, process
    <3> QED
      BY <1>1, <1>2, <2>1, <3>1, <3>2 DEF Decoded
  <2>2. CASE ~ciphered
    BY <1>1, <1>2, <1>3, <2>2 DEF Decoded
  <2> QED
    BY <2>1, <2>2
<1>6. Conserved'
  <2> DEFINE g == got
             d == Delivered
             x == Decoded'
             r == Rest
  <2>1. g \in Seq(Byte) /\ d \in Seq(Byte) /\ x \in Seq(Byte) /\ r \in Seq(Byte)
    <3>1. (Decoded \in Seq(Byte))'
      BY <1>1, OnTheWay, PTL
    <3> QED
      BY <3>1, OnTheWay
  <2>2. sent = ((g \o d) \o (c \o x)) \o r
    BY <1>5, ConservedMeans
  <2>3. Rest' = r
    BY <1>1 DEF Rest, Slice, remaining
  <2> HIDE DEF g, d, x, r
  <2>4. (g \o d) \o (c \o x) = (g \o (d \o c)) \o x
    <3>1. g \o d \in Seq(Byte)
      BY <2>1, ConcatProperties
    <3>2. c \in Seq(Byte)
      BY <1>2
    <3>3. ((g \o d) \o c) \o x = (g \o d) \o (c \o x)
      BY <2>1, <3>1, <3>2, JoinAssociative, ZenonT(60)
    <3>4. (g \o d) \o c = g \o (d \o c)
      BY <2>1, <3>2, JoinAssociative, ZenonT(60)
    <3> QED
      BY <3>3, <3>4
  <2>5. sent' = ((g \o (d \o c)) \o x) \o r
    BY <1>1, <2>2, <2>4
  <2>6. (got \o Delivered)' = g \o (d \o c)
    BY <1>1 DEF g, d
  <2>7. sent' = ((got \o Delivered)' \o Decoded') \o Rest'
    BY <2>3, <2>5, <2>6 DEF x
  <2> QED
    BY <2>7 DEF Conserved, Delivered, Decoded, Rest
<1>7. EndsInStep'
  <2> SUFFICES ASSUME ciphered PROVE enc = Moved(dec', Len(s))
    BY <1>1, <1>3 DEF EndsInStep, Moved
  <2>1. Moved(Moved(dec, ReceiveCount), Len(s)) = Moved(dec, ReceiveCount + Len(s))
    BY <1>2, <1>4, MovedTwice
  <2>2. enc = Moved(dec, Len(b \o s))
    BY <1>1 DEF EndsInStep
  <2> QED
    BY <1>1, <1>4, <2>1, <2>2
<1> QED
  BY <1>6, <1>7

(* A step that leaves what is on the way as it is.                         *)
LEMMA SameOnTheWay ==
  ASSUME Conserved, EndsInStep,
         Stored' = Stored, ~edited' => UNCHANGED <<sent, got, edited>>,
         UNCHANGED <<ciphered, input, output, enc, dec>>
  PROVE  Conserved' /\ EndsInStep'
<1> SUFFICES ASSUME ~edited' PROVE Conserved' /\ EndsInStep'
  BY DEF Conserved, EndsInStep
<1>1. UNCHANGED <<sent, got, edited, ciphered, input, output, enc, dec>>
  OBVIOUS
<1>2. Delivered' = Delivered /\ Rest' = Rest
  BY <1>1 DEF Delivered, Rest, Slice, remaining
<1>3. Decoded' = Decoded
  BY <1>1 DEF Decoded, process
<1>4. sent = ((got \o Delivered) \o Decoded) \o Rest
  BY <1>1, ConservedMeans
<1>5. sent' = ((got' \o Delivered') \o Decoded') \o Rest'
  BY <1>1, <1>2, <1>3, <1>4
<1>6. Conserved'
  BY <1>5 DEF Conserved, Delivered, Decoded, Rest
<1>7. EndsInStep'
  BY <1>1 DEF EndsInStep, Moved
<1> QED
  BY <1>6, <1>7

(* A step that leaves the store alone keeps what is stored.                *)
LEMMA StoredUnchanged ==
  ASSUME UNCHANGED <<kind, store, borrow, view>>
  PROVE  Stored' = Stored
BY DEF Stored, Reading, Reader, Slice, remaining, Written, Writer

(* Handing the store over keeps what is stored.                            *)
LEMMA TurnsKeepStored ==
  ASSUME TypeOK, TypeOK'
  PROVE  /\ TurnsToReading => Stored' = Stored
         /\ TurnsToWriting /\ ~edited' => Stored' = Stored
<1>1. ASSUME TurnsToReading
      PROVE  Stored' = Stored
  <2> DEFINE l == Reader.len'
             s == Reader.buff'
  <2>1. Stored = Written /\ SubSeq(s, 1, l) = Written
    BY <1>1 DEF TurnsToReading, Stored
  <2>2. Reading' /\ Reader.pos' = 0
    BY <1>1 DEF TurnsToReading
  <2>3. l \in Int
    <3>1. Ordered(Reader)'
      <4>1. StoreOK'
        BY DEF TypeOK
      <4> QED
        BY <4>1, StoreFacts, PTL
    <3> QED
      BY <3>1, LenProperties DEF Ordered
  <2>4. Stored' = SubSeq(s, 0 + 1, 0 + (l - 0))
    BY <2>2 DEF Stored, Slice, remaining
  <2>5. 0 + 1 = 1 /\ 0 + (l - 0) = l
    BY <2>3
  <2> HIDE DEF l, s
  <2> QED
    BY <2>1, <2>4, <2>5
<1>2. ASSUME TurnsToWriting, ~edited'
      PROVE  Stored' = Stored
  <2>1. Reading /\ is_empty(Reader) /\ Stored' = <<>>
    BY <1>2 DEF TurnsToWriting, Stored
  <2>2. Ordered(Reader)
    BY StoreFacts DEF TypeOK
  <2> QED
    BY <2>1, <2>2, EmptyRest DEF Stored
<1> QED
  BY <1>1, <1>2

(* No step loses, doubles or reorders a byte.                              *)
LEMMA StepConserves ==
  ASSUME TypeOK, Conserved, EndsInStep, [Next]_vars
  PROVE  Conserved' /\ EndsInStep'
<1>0. TypeOK'
  BY StepTypes
<1>1. CASE Give
  <2>1. /\ Rest = <<>> /\ (~edited => sent' = sent \o Rest')
        /\ UNCHANGED <<ciphered, kind, store, borrow, view, output, enc, dec,
                       got, edited>>
    BY <1>1, GiveLemma DEF Rest
  <2>2. Stored' = Stored /\ Delivered' = Delivered
    BY <2>1, StoredUnchanged DEF Delivered
  <2>3. Decoded' = Decoded
    BY <2>1, <2>2 DEF Decoded, process
  <2>4. EndsInStep'
    BY <2>1, <2>2 DEF EndsInStep, Moved
  <2>5. ASSUME ~edited
        PROVE  sent' = ((got \o Delivered) \o Decoded) \o Rest'
    <3> DEFINE g == got \o Delivered
    <3>1. g \o Decoded \in Seq(Byte)
      <4>1. g \in Seq(Byte) /\ Decoded \in Seq(Byte)
        BY OnTheWay
      <4> HIDE DEF g
      <4> QED
        BY <4>1, ConcatProperties
    <3>2. sent = (g \o Decoded) \o Rest
      BY <2>5, ConservedMeans
    <3> HIDE DEF g
    <3>3. sent = g \o Decoded
      BY <2>1, <3>1, <3>2, ConcatEmptySeq
    <3> QED
      BY <2>1, <2>5, <3>3 DEF g
  <2>6. ~edited' => sent' = ((got' \o Delivered') \o Decoded') \o Rest'
    BY <2>1, <2>2, <2>3, <2>5
  <2> QED
    BY <2>4, <2>6 DEF Conserved, Delivered, Decoded, Rest
<1>2. CASE Drain
  <2>1. /\ Delivered' = <<>> /\ (~edited => got' = got \o Delivered)
        /\ UNCHANGED <<ciphered, input, kind, store, borrow, view, enc, dec,
                       sent, edited>>
    BY <1>2, DrainLemma
  <2>2. Stored' = Stored /\ Rest' = Rest
    BY <2>1, StoredUnchanged DEF Rest, Slice, remaining
  <2>3. Decoded' = Decoded
    BY <2>1, <2>2 DEF Decoded, process
  <2>4. EndsInStep'
    BY <2>1, <2>2 DEF EndsInStep, Moved
  <2>5. ASSUME ~edited
        PROVE  got' \o Delivered' = got \o Delivered
    <3> DEFINE g == got \o Delivered
    <3>1. got' = g /\ g \in Seq(Byte)
      BY <2>1, <2>5, OnTheWay
    <3> HIDE DEF g
    <3>2. g \o <<>> = g
      BY <3>1, ConcatEmptySeq
    <3> QED
      BY <2>1, <3>1, <3>2 DEF g
  <2>6. ~edited' => sent' = ((got' \o Delivered') \o Decoded') \o Rest'
    <3>1. ~edited => sent = ((got \o Delivered) \o Decoded) \o Rest
      BY ConservedMeans
    <3> QED
      BY <2>1, <2>2, <2>3, <2>5, <3>1
  <2> QED
    BY <2>4, <2>6 DEF Conserved, Delivered, Decoded, Rest
<1>3. CASE Move
  <2>1. CASE edited
    <3>1. edited'
      BY <1>3, <2>1, SendLemma, ReceiveLemma DEF Move
    <3> QED
      BY <3>1 DEF Conserved, EndsInStep
  <2>2. CASE ~edited
    BY <1>3, <2>2, SendConserves, ReceiveConserves DEF Move
  <2> QED
    BY <2>1, <2>2
<1>4. CASE HandOver
  <2>1. TurnsToReading \/ TurnsToWriting
    BY <1>4, TakeReadBufferLemma, DropViewLemma, IntoReadBufferLemma,
       IntoWriteBufferLemma, BorrowWriteBufferLemma, EndBorrowLemma DEF HandOver
  <2>2. CASE edited'
    BY <2>2 DEF Conserved, EndsInStep
  <2>3. CASE ~edited'
    <3>1. Stored' = Stored
      BY <1>0, <2>1, <2>3, TurnsKeepStored
    <3>2. /\ UNCHANGED <<ciphered, input, output, enc, dec>>
          /\ UNCHANGED <<sent, got, edited>>
      BY <2>1, <2>3 DEF TurnsToReading, TurnsToWriting, StoreStep
    <3> QED
      BY <3>1, <3>2, SameOnTheWay
  <2> QED
    BY <2>2, <2>3
<1>5. CASE Change
  <2>1. CASE peek_read_buffer
    <3>1. UNCHANGED <<ciphered, input, kind, store, borrow, view, output,
                      enc, dec, result, sent, got, edited>>
      BY <2>1, PeekReadBufferLemma
    <3> QED
      BY <3>1, StoredUnchanged, SameOnTheWay
  <2>2. CASE ~peek_read_buffer
    <3>1. edited' = TRUE
      BY <1>5, <2>2 DEF Change, rewind_writer, reset_writer, take_next,
         rewind_reader, reset_reader, truncate, Edit
    <3> QED
      BY <3>1 DEF Conserved, EndsInStep
  <2> QED
    BY <2>1, <2>2
<1>6. CASE UNCHANGED vars
  <2>1. UNCHANGED <<ciphered, input, kind, store, borrow, view, output, enc,
                    dec, sent, got, edited>>
    BY <1>6 DEF vars
  <2> QED
    BY <2>1, StoredUnchanged, SameOnTheWay
<1> QED
  BY <1>1, <1>2, <1>3, <1>4, <1>5, <1>6 DEF Next

(* At first nothing has been sent.                                         *)
LEMMA InitConserves ==
  ASSUME Init
  PROVE  Conserved /\ EndsInStep
<1>1. /\ kind = "write" /\ view = {} /\ input = NewRef(<<>>) /\ enc = 0 /\ dec = 0
      /\ sent = <<>> /\ got = <<>>
      /\ Writer = store /\ store.pos = 0 /\ output.pos = 0
  BY NewMemory, SizeAssumption DEF Init, Writer, NewRef
<1>2. /\ Stored = <<>> /\ Delivered = <<>>
  BY <1>1, EmptyPrefix DEF Stored, Reading, Written, Delivered
<1>3. Rest = <<>>
  <2>1. IsRef(input) /\ input.pos = 0 /\ input.len = Len(<<>>)
    BY <1>1, NewRefIsRef, EmptySeq
  <2>2. is_empty(input)
    BY <2>1, EmptySeq DEF is_empty
  <2> QED
    BY <2>1, <2>2, RefIsOrdered, EmptyRest DEF Rest
<1>4. <<>> \in Seq(Byte) /\ Len(<<>>) = 0 /\ 0 \in Nat
  BY EmptySeq
<1>5. process(0, <<>>) = <<>>
  <2>1. process(0, <<>>) \in Seq(Byte) /\ Len(process(0, <<>>)) = 0
    BY <1>4, ProcessType
  <2> QED
    BY <2>1, EmptySeq
<1>6. Decoded = <<>>
  BY <1>1, <1>2, <1>5 DEF Decoded
<1>7. <<>> \o <<>> = <<>>
  BY <1>4, ConcatEmptySeq
<1>8. Conserved
  BY <1>1, <1>2, <1>3, <1>6, <1>7, ConservedMeans
<1>9. EndsInStep
  <2>1. 0 \in 0 .. (Len(Key) - 1)
    BY KeyAssumption, EmptySeq, LenProperties
  <2>2. Moved(0, 0) = 0
    BY <2>1, MovedNowhere
  <2> QED
    BY <1>1, <1>2, <1>4, <2>2 DEF EndsInStep
<1> QED
  BY <1>8, <1>9

(* Conserved is not inductive alone: the bytes in the store decrypt to     *)
(* what was sent only if the ends are in step.                             *)
LEMMA ConservedInvariant == Spec => [](Conserved /\ EndsInStep)
<1>1. Init => Conserved /\ EndsInStep
  BY InitConserves
<1>2. TypeOK /\ Conserved /\ EndsInStep /\ [Next]_vars => Conserved' /\ EndsInStep'
  BY StepConserves
<1> QED
  BY <1>1, <1>2, TypeCorrect, PTL DEF Spec

(* Until somebody puts bytes back, drops or takes them, what the caller    *)
(* has put in is what it has drained followed by what is on the way, for   *)
(* all sizes that cut it and however the store changes hands               *)
(* (buffer.rs:41, cryptoutil.rs:255).                                      *)
THEOREM BytesConserved == Spec => []Conserved
BY ConservedInvariant, PTL

(* Meanwhile the receiver is behind the sender in the keystream by exactly *)
(* what waits in the store (cryptoutil.rs:255).                            *)
THEOREM KeystreamInStep == Spec => []EndsInStep
BY ConservedInvariant, PTL
=============================================================================
