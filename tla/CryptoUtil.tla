------------------------------ MODULE CryptoUtil ------------------------------
(***************************************************************************)
(* The helpers of src/crypto/src/cryptoutil.rs that the SHA-2 engines are  *)
(* built from: big-endian words, the count of message bits with its        *)
(* overflow checks, FixedBuffer and StandardPadding.                       *)
(*                                                                         *)
(* A FixedBuffer is [bytes, idx]: idx bytes are used, and what lies behind *)
(* them is whatever earlier blocks left there (reset clears idx only).     *)
(***************************************************************************)
EXTENDS Integers, Sequences

CONSTANTS
  BYTE_MOD, \* values of a byte: 256
  BITS      \* bits of a byte: 8

ASSUME ByteAssumption ==
  /\ BYTE_MOD \in Nat \ {0, 1} /\ BYTE_MOD % 2 = 0
  /\ BITS \in Nat \ {0}

Bytes == 0 .. (BYTE_MOD - 1)

MARKER == BYTE_MOD \div 2 \* 0x80

Block(n) == [1 .. n -> Bytes] \* n bytes

Zeros(n) == [i \in 1 .. n |-> 0]

(* How many values n bytes have: BYTE_MOD to the power of n. *)
Power[n \in Nat] == IF n = 0 THEN 1 ELSE BYTE_MOD * Power[n - 1]

(* n bytes of x, the most significant first. *)
BigEndian(x, n) ==
  [i \in 1 .. n |-> (x \div Power[n - i]) % BYTE_MOD]

-----------------------------------------------------------------------------
(* Counts of bits in words of mod values (2^64).                           *)
to_bits(x, mod) == << (x * BITS) \div mod, (x * BITS) % mod >>

(* The new count; none if the code panics (numeric overflow).              *)
add_bytes_to_bits(bits, bytes, mod) ==
  LET new == to_bits(bytes, mod)
  IN { sum \in {bits + new[2]} : new[1] = 0 /\ sum < mod }

AddBytesNoCarry(bits, bytes, mod) == \* mutant: the carry of low is lost
  LET new == to_bits(bytes, mod)
      hi == bits[1] + new[1]
  IN { sum \in {<< hi, (bits[2] + new[2]) % mod >>} : hi < mod }

add_bytes_to_bits_tuple(bits, bytes, mod) ==
  LET new == to_bits(bytes, mod)
      low == bits[2] + new[2]
      z == IF low < mod THEN new[1] ELSE new[1] + 1
  IN { sum \in {<< bits[1] + z, low % mod >>} : z < mod /\ bits[1] + z < mod }

-----------------------------------------------------------------------------
Size(b) == Len(b.bytes)

Remaining(b) == Size(b) - b.idx

NewBuffer(size) == [bytes |-> Zeros(size), idx |-> 0]

(* next(n), filled with the n bytes of data. *)
WriteNext(b, data) ==
  [bytes |-> [i \in 1 .. Size(b) |->
                IF b.idx < i /\ i <= b.idx + Len(data) THEN data[i - b.idx]
                ELSE b.bytes[i]],
   idx |-> b.idx + Len(data)]

zero_until(b, idx) == WriteNext(b, Zeros(idx - b.idx))

Emptied(b) == [b EXCEPT !.idx = 0]

(* The blocks of size bytes that data consists of, but for a rest.         *)
Blocks(data, size) ==
  [k \in 1 .. (Len(data) \div size) |->
     SubSeq(data, (k - 1) * size + 1, k * size)]

Rest(data, size) ==
  SubSeq(data, (Len(data) \div size) * size + 1, Len(data))

InputLazy(b, data) == \* mutant: a buffer that is exactly filled is kept
  IF b.idx # 0 /\ Len(data) <= Remaining(b)
  THEN [buffer |-> WriteNext(b, data), blocks |-> <<>>]
  ELSE LET gap == IF b.idx = 0 THEN 0 ELSE Remaining(b)
           filled == WriteNext(b, SubSeq(data, 1, gap))
           tail == SubSeq(data, gap + 1, Len(data))
       IN [buffer |-> WriteNext(Emptied(filled), Rest(tail, Size(b))),
           blocks |-> (IF b.idx = 0 THEN <<>> ELSE << filled.bytes >>)
                        \o Blocks(tail, Size(b))]

(* input: the buffer afterwards, and the blocks handed to func.  A buffer  *)
(* that is partly used is filled and processed first; whole blocks do not  *)
(* pass through the buffer.                                                *)
input(b, data) ==
  IF b.idx # 0 /\ Len(data) < Remaining(b)
  THEN [buffer |-> WriteNext(b, data), blocks |-> <<>>]
  ELSE LET gap == IF b.idx = 0 THEN 0 ELSE Remaining(b)
           filled == WriteNext(b, SubSeq(data, 1, gap))
           tail == SubSeq(data, gap + 1, Len(data))
       IN [buffer |-> WriteNext(Emptied(filled), Rest(tail, Size(b))),
           blocks |-> (IF b.idx = 0 THEN <<>> ELSE << filled.bytes >>)
                        \o Blocks(tail, Size(b))]

PaddingKeepsBlock(b, rem) == \* mutant: the second block is not zeroed
  LET marked == WriteNext(b, << MARKER >>)
      full == zero_until(marked, Size(b))
  IN IF Remaining(marked) < rem
     THEN [buffer |-> [full EXCEPT !.idx = Size(b) - rem],
           blocks |-> << full.bytes >>]
     ELSE [buffer |-> zero_until(marked, Size(b) - rem), blocks |-> <<>>]

(* standard_padding: if the marker leaves less than rem bytes, the block   *)
(* is zeroed to its end and processed, and another one begun.              *)
standard_padding(b, rem) ==
  LET marked == WriteNext(b, << MARKER >>)
      full == zero_until(marked, Size(b))
  IN IF Remaining(marked) < rem
     THEN [buffer |-> zero_until(Emptied(full), Size(b) - rem),
           blocks |-> << full.bytes >>]
     ELSE [buffer |-> zero_until(marked, Size(b) - rem), blocks |-> <<>>]
=============================================================================
