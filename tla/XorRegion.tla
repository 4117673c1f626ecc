------------------------------ MODULE XorRegion ------------------------------
(***************************************************************************)
(* The data of src/src/xor.rs: byte strings, their XOR, the bounds check   *)
(* made before a region is XORed, a write at an offset, and a closed form  *)
(* of what the chunk loop of xor_file has put on disk after it has written *)
(* w bytes.                                                                *)
(*                                                                         *)
(* A file is a sequence of bytes; byte offset o of the code is index o + 1. *)
(* A byte is an element of any group in which every element is its own     *)
(* inverse, the only facts about `^' on u8 that the program relies on.     *)
(***************************************************************************)
EXTENDS Integers, Sequences

CONSTANTS
  Byte,      \* the values of a byte
  Zero,      \* 0u8
  Xor(_, _), \* `^' on bytes
  BUF_SIZE   \* bytes per chunk (xor.rs:6)

ASSUME XorLaws ==
  /\ Zero \in Byte
  /\ \A a, b \in Byte : Xor(a, b) \in Byte /\ Xor(a, b) = Xor(b, a)
  /\ \A a \in Byte : Xor(a, Zero) = a /\ Xor(a, a) = Zero
  /\ \A a, b, c \in Byte : Xor(Xor(a, b), c) = Xor(a, Xor(b, c))

ASSUME BufSizeAssumption == BUF_SIZE \in Nat \ {0}

MinOf(a, b) == IF a < b THEN a ELSE b
MaxOf(a, b) == IF a < b THEN b ELSE a

(* verify_file_part_size: a region that starts at the end of the file is   *)
(* refused even when it is empty.                                          *)
PartFits(len, pos, size) == len > pos /\ len - pos >= size

(* xor: the result is as long as buf, whatever part of buf was read.       *)
XorBuf(buf, pad) == [i \in 1 .. Len(buf) |-> Xor(buf[i], pad[i])]

(* write_all(buf) at offset pos (pos <= Len(f)): overwrites, then extends. *)
WriteAt(f, pos, buf) ==
  [i \in 1 .. MaxOf(Len(f), pos + Len(buf)) |->
     IF pos < i /\ i <= pos + Len(buf) THEN buf[i - pos] ELSE f[i]]

-----------------------------------------------------------------------------
(* The byte at distance d from the start of the region, once decrypted.    *)
Decrypted(f, pad, c, d) ==
  Xor(f[c.file_pos + d + 1], pad[c.pad_pos + d + 1])

(* What the chunk loop writes at distance d.  The last chunk is written    *)
(* whole: past the end of the region it holds what the buffers held, which *)
(* is nothing (zeros) in the first chunk and the previous chunk otherwise. *)
LoopByte(f, pad, c, d) ==
  IF d < c.size THEN Decrypted(f, pad, c, d)
  ELSE IF d < BUF_SIZE THEN Zero
  ELSE Decrypted(f, pad, c, d - BUF_SIZE)

(* The file f after w bytes written by xor_file called with c.             *)
RegionAfter(f, pad, c, w) ==
  IF w = 0 THEN f
  ELSE [i \in 1 .. MaxOf(Len(f), c.file_pos + w) |->
          IF c.file_pos < i /\ i <= c.file_pos + w
          THEN LoopByte(f, pad, c, i - c.file_pos - 1)
          ELSE f[i]]

(* The number of bytes a whole call writes: size, rounded up to a chunk.   *)
IsWholeCall(size, w) ==
  /\ size <= w /\ w < size + BUF_SIZE
  /\ \E n \in 0 .. w : w = n * BUF_SIZE
=============================================================================
