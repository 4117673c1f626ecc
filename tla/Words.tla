-------------------------------- MODULE Words --------------------------------
(***************************************************************************)
(* The machine words that the compression functions of SHA-2 compute with: *)
(* u32 and u64, the lanes of src/crypto/src/simd.rs, and the conversion of *)
(* a block to words and of a chaining value to bytes.                      *)
(*                                                                         *)
(* A word of n bits is the set of the positions of its ones, so that `&'   *)
(* is \cap and `|' is \cup, at the width that the program uses.            *)
(***************************************************************************)
EXTENDS Integers, Sequences

Bits(n) == 0 .. (n - 1)
Word(n) == SUBSET Bits(n)

Xor(x, y) == (x \ y) \cup (y \ x)

shl(x, k, n) == { i \in Bits(n) : i - k \in x }
shr(x, k, n) == { i \in Bits(n) : i + k \in x }
rotate_right(x, k, n) == { i \in Bits(n) : (i + k) % n \in x }

(* The carry into bit i of a sum: from a lower bit where both summands     *)
(* have a one, through bits where at least one of them has.                *)
carry(both, either, i) ==
  \E j \in both : j < i /\ \A k \in (j + 1) .. (i - 1) : k \in either

AddUncut(x, y, n) == \* mutant: the carry out of the last bit is kept
  LET both == x \cap y
      either == x \cup y
  IN { i \in Bits(n + 1) : (i \in x) # ((i \in y) # carry(both, either, i)) }

wrapping_add(x, y, n) ==
  LET both == x \cap y
      either == x \cup y
  IN { i \in Bits(n) : (i \in x) # ((i \in y) # carry(both, either, i)) }

(* u32x4 and u64x2 are added lane by lane.                                 *)
Add(u, v, n) == [i \in DOMAIN u |-> wrapping_add(u[i], v[i], n)]

-----------------------------------------------------------------------------
(* A byte is a word of 8 bits; byte b of a word of n bits, counted from the *)
(* most significant one, holds the bits from n - 8 * b.                    *)
ReadLittleEndian(bytes, n) == \* mutant: the bytes of a word in reverse
  [j \in 1 .. (Len(bytes) * 8) \div n |->
     { i \in Bits(n) : i % 8 \in bytes[(j - 1) * (n \div 8) + (i \div 8) + 1] }]

read_be(bytes, n) ==
  [j \in 1 .. (Len(bytes) * 8) \div n |->
     { i \in Bits(n) : i % 8 \in bytes[j * (n \div 8) - (i \div 8)] }]

write_be(words, n) ==
  [b \in 1 .. (Len(words) * n) \div 8 |->
     LET size == n \div 8
     IN { i \in Bits(8) :
            i + 8 * (size - 1 - ((b - 1) % size))
              \in words[(b - 1) \div size + 1] }]
=============================================================================
