---------------------------- MODULE XorFile_proofs ----------------------------
(***************************************************************************)
(* What xor_file (src/src/xor.rs:35-69) does, for every file, pad, call    *)
(* and buffer size: the inductive invariant LoopInv of XorFile and what    *)
(* follows from it.                                                        *)
(***************************************************************************)
EXTENDS XorFile, XorRegion_proofs

(* The cast of the rest of the region to usize (xor.rs:53) loses nothing:  *)
(* true of every call on a 64-bit machine.                                 *)
SizesFit == \A c \in Calls : c.size < USIZE_MOD

USE DEF Args

-----------------------------------------------------------------------------
(* A number below the modulus is its own remainder.                        *)
LEMMA ModSmall ==
  ASSUME NEW x \in Nat, NEW m \in Nat \ {0}, x < m
  PROVE  x % m = x
OBVIOUS

(* The size of the next chunk, when the cast loses nothing.                *)
LEMMA ChunkSizeLemma ==
  ASSUME SizesFit, TypeOK, total_read_size <= args.size
  PROVE  /\ ChunkSize = MinOf(args.size - total_read_size, BUF_SIZE)
         /\ ChunkSize \in 0 .. BUF_SIZE
         /\ ChunkSize = 0 <=> total_read_size = args.size
<1> USE BufSizeAssumption
<1>1. /\ args \in Args /\ args.size < USIZE_MOD
      /\ USIZE_MOD \in Nat \ {0} /\ total_read_size \in Nat
  BY InputsAssumption, UsizeAssumption DEF TypeOK, SizesFit
<1>2. (args.size - total_read_size) % USIZE_MOD = args.size - total_read_size
  BY <1>1, ModSmall
<1> QED
  BY <1>1, <1>2 DEF ChunkSize, MinOf

(* The inputs of a call.                                                   *)
LEMMA InputTypes ==
  ASSUME TypeOK
  PROVE  /\ orig \in Seq(Byte) /\ pad \in Seq(Byte) /\ args \in Args
         /\ BUF_SIZE \in Nat \ {0}
BY InputsAssumption, BufSizeAssumption DEF TypeOK

(* While there is something left to read the file still holds the original *)
(* bytes from the current position on.                                     *)
LEMMA UnreadIsOriginal ==
  ASSUME LoopInv, pc = "loop" \/ InChunk, total_read_size < args.size
  PROVE  /\ file \in Seq(Byte)
         /\ Len(file) = Len(orig)
         /\ \A i \in 1 .. Len(orig) :
              i > args.file_pos + total_read_size => file[i] = orig[i]
<1>1. /\ orig \in Seq(Byte) /\ pad \in Seq(Byte) /\ args \in Args
      /\ BUF_SIZE \in Nat \ {0} /\ total_read_size \in Nat
      /\ written = total_read_size
      /\ PartFits(Len(orig), args.file_pos, args.size)
      /\ PartFits(Len(pad), args.pad_pos, args.size)
  BY InputTypes DEF LoopInv, Progress, ChecksDone, Verified, TypeOK
<1>2. written \in Nat /\ written < args.size + BUF_SIZE
  BY <1>1
<1>3. MaxOf(Len(orig), args.file_pos + written) = Len(orig)
  BY <1>1 DEF MaxOf, PartFits
<1>4. file = RegionAfter(orig, pad, args, written)
  BY DEF LoopInv, FileIsRegionAfter
<1>5. /\ RegionAfter(orig, pad, args, written) \in Seq(Byte)
      /\ Len(RegionAfter(orig, pad, args, written))
           = MaxOf(Len(orig), args.file_pos + written)
      /\ \A i \in 1 .. MaxOf(Len(orig), args.file_pos + written) :
           RegionAfter(orig, pad, args, written)[i] =
             IF args.file_pos < i /\ i <= args.file_pos + written
             THEN LoopByte(orig, pad, args, i - args.file_pos - 1)
             ELSE orig[i]
  <2>1. IsRegionAfter(RegionAfter(orig, pad, args, written), orig, pad, args, written)
    BY <1>1, <1>2, RegionAfterLemma
  <2> QED
    BY <2>1 DEF IsRegionAfter
<1> QED
  BY <1>1, <1>3, <1>4, <1>5

-----------------------------------------------------------------------------
(* LoopInv holds when xor_file is called (xor.rs:35-51).                   *)
LEMMA InitEstablishes ==
  ASSUME Init
  PROVE  LoopInv
<1>1. /\ orig \in Seq(Byte) /\ ZeroBuf \in [1 .. BUF_SIZE -> Byte]
      /\ BUF_SIZE \in Nat \ {0}
  BY InputsAssumption, BufSizeAssumption, XorLaws DEF Init, ZeroBuf
<1>2. TypeOK
  BY <1>1 DEF Init, TypeOK, PCs
<1> QED
  BY <1>2 DEF Init, LoopInv, FileIsRegionAfter, RegionAfter, InitialPhase,
     ChecksDone, Progress, CursorsInPlace, BuffersHold, InChunk

-----------------------------------------------------------------------------
(* The parts of LoopInv about buffers, cursors and progress through the    *)
(* four system calls of a chunk.                                           *)
LEMMA ReadFileStep ==
  ASSUME SizesFit, LoopInv, ReadFile
  PROVE  LoopInv'
<1> USE DEF Goto, frozen
<1>1. /\ orig \in Seq(Byte) /\ pad \in Seq(Byte) /\ args \in Args
      /\ BUF_SIZE \in Nat \ {0} /\ total_read_size \in Nat
      /\ read_size \in 0 .. BUF_SIZE /\ InChunk
      /\ pc = "read_file" /\ pc' = "read_pad" /\ result' = result
      /\ file_cursor = args.file_pos + total_read_size
      /\ total_read_size < args.size
      /\ read_size = MinOf(args.size - total_read_size, BUF_SIZE)
      /\ PartFits(Len(orig), args.file_pos, args.size)
  BY InputTypes DEF LoopInv, TypeOK, Progress, ChecksDone, Verified,
     CursorsInPlace, ReadFile, InChunk
<1>2. /\ Len(file) = Len(orig)
      /\ \A i \in 1 .. Len(orig) :
           i > args.file_pos + total_read_size => file[i] = orig[i]
  BY <1>1, UnreadIsOriginal
<1>3. ASSUME NEW i \in 1 .. BUF_SIZE, i <= read_size
      PROVE  /\ file[file_cursor + i] = orig[args.file_pos + total_read_size + i]
             /\ orig[args.file_pos + total_read_size + i] \in Byte
  <2>1. /\ args.file_pos + total_read_size + i \in 1 .. Len(orig)
        /\ args.file_pos + total_read_size + i > args.file_pos + total_read_size
    BY <1>1, <1>3, SMTT(30) DEF MinOf, PartFits
  <2> QED
    BY <1>1, <1>2, <2>1
<1>4. /\ Holds(file_buf, orig, args.file_pos, FALSE)
      /\ Holds(pad_buf, pad, args.pad_pos, FALSE)
      /\ file_buf \in [1 .. BUF_SIZE -> Byte]
  BY <1>1 DEF LoopInv, BuffersHold, TypeOK, Holds
<1>5. file_buf' = [i \in 1 .. BUF_SIZE |->
                    IF i <= read_size THEN file[file_cursor + i] ELSE file_buf[i]]
  BY DEF ReadFile, Fill
<1>6. file_buf' \in [1 .. BUF_SIZE -> Byte]
  BY <1>3, <1>4, <1>5
<1>7. Holds(file_buf', orig, args.file_pos, TRUE)
  BY <1>3, <1>4, <1>5 DEF Holds
<1>8. TypeOK'
  <2>1. TypeOK
    BY DEF LoopInv
  <2>3. file_cursor' = file_cursor + read_size
    BY DEF ReadFile
  <2>4. file_cursor' \in Nat
    BY <1>1, <2>3, SMTT(30)
  <2>2. UNCHANGED <<orig, pad, args, file, pad_cursor, pad_buf, read_size,
                    total_read_size, written>>
    BY DEF ReadFile
  <2> QED
    BY <1>1, <1>6, <2>1, <2>2, <2>4 DEF TypeOK, PCs
<1>9. BuffersHold'
  BY <1>1, <1>4, <1>7 DEF BuffersHold, InChunk, ReadFile, Holds, Previous
<1> QED
  BY <1>1, <1>8, <1>9 DEF LoopInv, FileIsRegionAfter, InitialPhase, ChecksDone,
     Verified, Progress, CursorsInPlace, InChunk, ReadFile

(* read_exact from the pad (xor.rs:59) keeps LoopInv.                      *)
LEMMA ReadPadStep ==
  ASSUME SizesFit, LoopInv, ReadPad
  PROVE  LoopInv'
<1> USE DEF Goto, frozen
<1>1. /\ orig \in Seq(Byte) /\ pad \in Seq(Byte) /\ args \in Args
      /\ BUF_SIZE \in Nat \ {0} /\ total_read_size \in Nat
      /\ read_size \in 0 .. BUF_SIZE /\ InChunk
      /\ pc = "read_pad" /\ pc' = "seek_back" /\ result' = result
      /\ pad_cursor = args.pad_pos + total_read_size
      /\ total_read_size < args.size
      /\ read_size = MinOf(args.size - total_read_size, BUF_SIZE)
      /\ PartFits(Len(pad), args.pad_pos, args.size)
  BY InputTypes DEF LoopInv, TypeOK, Progress, ChecksDone, Verified,
     CursorsInPlace, ReadPad, InChunk
<1>2. ASSUME NEW i \in 1 .. BUF_SIZE, i <= read_size
      PROVE  /\ pad[pad_cursor + i] = pad[args.pad_pos + total_read_size + i]
             /\ pad[args.pad_pos + total_read_size + i] \in Byte
  <2>1. args.pad_pos + total_read_size + i \in 1 .. Len(pad)
    BY <1>1, <1>2, SMTT(30) DEF MinOf, PartFits
  <2> QED
    BY <1>1, <2>1
<1>3. /\ Holds(file_buf, orig, args.file_pos, TRUE)
      /\ Holds(pad_buf, pad, args.pad_pos, FALSE)
      /\ pad_buf \in [1 .. BUF_SIZE -> Byte]
  BY <1>1 DEF LoopInv, BuffersHold, TypeOK, Holds
<1>4. pad_buf' = [i \in 1 .. BUF_SIZE |->
                   IF i <= read_size THEN pad[pad_cursor + i] ELSE pad_buf[i]]
  BY DEF ReadPad, Fill
<1>5. pad_buf' \in [1 .. BUF_SIZE -> Byte]
  BY <1>2, <1>3, <1>4
<1>6. Holds(pad_buf', pad, args.pad_pos, TRUE)
  BY <1>2, <1>3, <1>4 DEF Holds
<1>7. TypeOK'
  <2>1. TypeOK
    BY DEF LoopInv
  <2>2. UNCHANGED <<orig, pad, args, file, file_cursor, file_buf, read_size,
                    total_read_size, written>>
    BY DEF ReadPad
  <2>3. pad_cursor' = pad_cursor + read_size
    BY DEF ReadPad
  <2>4. pad_cursor' \in Nat
    BY <1>1, <2>3, SMTT(30)
  <2> QED
    BY <1>1, <1>5, <2>1, <2>2, <2>4 DEF TypeOK, PCs
<1>8. BuffersHold'
  BY <1>1, <1>3, <1>6 DEF BuffersHold, InChunk, ReadPad, Holds, Previous
<1> QED
  BY <1>1, <1>7, <1>8 DEF LoopInv, FileIsRegionAfter, InitialPhase, ChecksDone,
     Verified, Progress, CursorsInPlace, InChunk, ReadPad

(* What is about to be written is what LoopByte asks for: decrypted bytes  *)
(* up to the end of the region, and what the buffers held past it.         *)
LEMMA BuffersAreLoopBytes ==
  ASSUME LoopInv, pc = "write"
  PROVE  /\ XorBuf(file_buf, pad_buf) \in Seq(Byte)
         /\ Len(XorBuf(file_buf, pad_buf)) = BUF_SIZE
         /\ \A i \in 1 .. BUF_SIZE :
              XorBuf(file_buf, pad_buf)[i]
                = LoopByte(orig, pad, args, total_read_size + i - 1)
<1>1. /\ orig \in Seq(Byte) /\ pad \in Seq(Byte) /\ args \in Args
      /\ BUF_SIZE \in Nat \ {0} /\ total_read_size \in Nat
      /\ total_read_size < args.size
      /\ total_read_size = 0 \/ BUF_SIZE <= total_read_size
      /\ read_size = MinOf(args.size - total_read_size, BUF_SIZE)
      /\ file_buf \in [1 .. BUF_SIZE -> Byte]
      /\ pad_buf \in [1 .. BUF_SIZE -> Byte]
  BY InputTypes DEF LoopInv, TypeOK, Progress, InChunk
<1>2. /\ Holds(file_buf, orig, args.file_pos, TRUE)
      /\ Holds(pad_buf, pad, args.pad_pos, TRUE)
  BY <1>1 DEF LoopInv, BuffersHold, InChunk, Holds
<1>3. /\ file_buf \in Seq(Byte) /\ Len(file_buf) = BUF_SIZE
      /\ pad_buf \in Seq(Byte) /\ Len(pad_buf) = BUF_SIZE
  BY <1>1
<1>4. /\ XorBuf(file_buf, pad_buf) \in Seq(Byte)
      /\ Len(XorBuf(file_buf, pad_buf)) = BUF_SIZE
      /\ \A i \in 1 .. BUF_SIZE :
           XorBuf(file_buf, pad_buf)[i] = Xor(file_buf[i], pad_buf[i])
  BY <1>1, <1>3, XorBufLemma
<1>5. ASSUME NEW i \in 1 .. BUF_SIZE
      PROVE  Xor(file_buf[i], pad_buf[i])
               = LoopByte(orig, pad, args, total_read_size + i - 1)
  <2> DEFINE d == total_read_size + i - 1
  <2>1. CASE i <= read_size
    <3>1. /\ file_buf[i] = orig[args.file_pos + total_read_size + i]
          /\ pad_buf[i] = pad[args.pad_pos + total_read_size + i]
      BY <1>2, <2>1 DEF Holds
    <3>2. /\ d < args.size
          /\ args.file_pos + d + 1 = args.file_pos + total_read_size + i
          /\ args.pad_pos + d + 1 = args.pad_pos + total_read_size + i
      <4>1. i <= args.size - total_read_size
        BY <1>1, <2>1 DEF MinOf
      <4>2. args.file_pos \in Nat /\ args.pad_pos \in Nat /\ args.size \in Nat
        BY <1>1
      <4>3. i \in Nat /\ total_read_size \in Nat
        BY <1>1
      <4> QED
        BY <4>1, <4>2, <4>3
    <3> QED
      BY <3>1, <3>2 DEF LoopByte, Decrypted
  <2>2. CASE ~(i <= read_size) /\ total_read_size = 0
    <3>1. file_buf[i] = Zero /\ pad_buf[i] = Zero
      BY <1>2, <2>2 DEF Holds, Previous
    <3>2. ~(d < args.size) /\ d < BUF_SIZE
      BY <1>1, <2>2 DEF MinOf
    <3> QED
      BY <3>1, <3>2, XorLaws DEF LoopByte
  <2>3. CASE ~(i <= read_size) /\ total_read_size # 0
    <3>1. /\ file_buf[i] = orig[args.file_pos + total_read_size - BUF_SIZE + i]
          /\ pad_buf[i] = pad[args.pad_pos + total_read_size - BUF_SIZE + i]
      BY <1>2, <2>3 DEF Holds, Previous
    <3>2. /\ ~(d < args.size) /\ ~(d < BUF_SIZE)
          /\ args.file_pos + (d - BUF_SIZE) + 1
               = args.file_pos + total_read_size - BUF_SIZE + i
          /\ args.pad_pos + (d - BUF_SIZE) + 1
               = args.pad_pos + total_read_size - BUF_SIZE + i
      BY <1>1, <2>3 DEF MinOf
    <3> QED
      BY <3>1, <3>2 DEF LoopByte, Decrypted
  <2> QED
    BY <2>1, <2>2, <2>3
<1> QED
  BY <1>4, <1>5

(* The first k bytes of the chunk, written at its place, carry the closed  *)
(* form k bytes further: k = BUF_SIZE is WriteChunk, less is PartialWrite. *)
LEMMA ChunkExtends ==
  ASSUME LoopInv, pc = "write", NEW k \in 1 .. BUF_SIZE,
         NEW chunk \in Seq(Byte), Len(chunk) = k,
         \A i \in 1 .. k : chunk[i] = XorBuf(file_buf, pad_buf)[i]
  PROVE  /\ WriteAt(file, file_cursor, chunk)
              = RegionAfter(orig, pad, args, total_read_size + k)
         /\ WriteAt(file, file_cursor, chunk) \in Seq(Byte)
         /\ total_read_size + k < args.size + BUF_SIZE
<1>1. /\ orig \in Seq(Byte) /\ pad \in Seq(Byte) /\ args \in Args
      /\ BUF_SIZE \in Nat \ {0} /\ total_read_size \in Nat
      /\ total_read_size < args.size
      /\ written = total_read_size
      /\ file_cursor = args.file_pos + total_read_size
      /\ PartFits(Len(orig), args.file_pos, args.size)
      /\ PartFits(Len(pad), args.pad_pos, args.size)
  BY InputTypes DEF LoopInv, TypeOK, Progress, InChunk, CursorsInPlace,
     ChecksDone, Verified
<1>2. file = RegionAfter(orig, pad, args, total_read_size)
  BY <1>1 DEF LoopInv, FileIsRegionAfter
<1>3. total_read_size + k < args.size + BUF_SIZE
  BY <1>1
<1>4. \A i \in 1 .. k :
        chunk[i] = LoopByte(orig, pad, args, total_read_size + i - 1)
  BY <1>1, BuffersAreLoopBytes
<1>5. WriteAt(RegionAfter(orig, pad, args, total_read_size),
              args.file_pos + total_read_size, chunk)
        = RegionAfter(orig, pad, args, total_read_size + k)
  <2>1. k \in Nat \ {0}
    BY <1>1
  <2> HIDE DEF Args
  <2> QED
    BY <1>1, <1>3, <1>4, <2>1, WriteExtends
<1>6. RegionAfter(orig, pad, args, total_read_size + k) \in Seq(Byte)
  <2> DEFINE n == total_read_size + k
  <2>1. n \in Nat /\ n < args.size + BUF_SIZE
    BY <1>1, <1>3
  <2> HIDE DEF n
  <2>2. IsRegionAfter(RegionAfter(orig, pad, args, n), orig, pad, args, n)
    BY <1>1, <2>1, RegionAfterLemma
  <2> QED
    BY <2>2 DEF n, IsRegionAfter
<1> QED
  BY <1>1, <1>2, <1>3, <1>5, <1>6

(* The arithmetic of a turn of the loop that began before the end.         *)
LEMMA TurnArithmetic ==
  ASSUME NEW size \in Nat, NEW total \in Nat, total < size, NEW read,
         NEW buf \in Nat \ {0}, read = MinOf(size - total, buf)
  PROVE  /\ read \in 1 .. buf
         /\ total + read <= size
         /\ total + read < size => read = buf
         /\ total + read = size => size <= total + buf
         /\ total + buf < size + buf
BY DEF MinOf

(* Writing a whole chunk (xor.rs:63-65) keeps LoopInv.                     *)
LEMMA WriteChunkStep ==
  ASSUME SizesFit, LoopInv, WriteChunk
  PROVE  LoopInv'
<1> USE DEF Goto, frozen, buffers
<1>1. /\ orig \in Seq(Byte) /\ pad \in Seq(Byte) /\ args \in Args
      /\ BUF_SIZE \in Nat \ {0} /\ total_read_size \in Nat
      /\ read_size \in 0 .. BUF_SIZE
      /\ pc = "write" /\ pc' = "loop" /\ result' = result
      /\ total_read_size < args.size
      /\ written = total_read_size
      /\ read_size = MinOf(args.size - total_read_size, BUF_SIZE)
      /\ pad_cursor = args.pad_pos + total_read_size + read_size
      /\ Verified /\ file_cursor = args.file_pos + total_read_size
  BY InputTypes DEF LoopInv, TypeOK, Progress, ChecksDone, InChunk,
     CursorsInPlace, WriteChunk
<1>2. UNCHANGED <<orig, pad, args, pad_cursor, file_buf, pad_buf, read_size>>
  BY DEF WriteChunk
<1>3. /\ file' = RegionAfter(orig, pad, args, total_read_size + BUF_SIZE)
      /\ file' \in Seq(Byte)
  <2>1. /\ XorBuf(file_buf, pad_buf) \in Seq(Byte)
        /\ Len(XorBuf(file_buf, pad_buf)) = BUF_SIZE
    BY <1>1, BuffersAreLoopBytes
  <2>2. BUF_SIZE \in 1 .. BUF_SIZE
    BY <1>1
  <2>3. file' = WriteAt(file, file_cursor, XorBuf(file_buf, pad_buf))
    BY DEF WriteChunk
  <2> QED
    BY <1>1, <2>1, <2>2, <2>3, ChunkExtends
<1>4. /\ total_read_size' = total_read_size + read_size
      /\ written' = total_read_size + BUF_SIZE
      /\ file_cursor' = args.file_pos + total_read_size + BUF_SIZE
  BY <1>1 DEF WriteChunk
<1>5. /\ total_read_size' \in Nat /\ written' \in Nat /\ file_cursor' \in Nat
      /\ total_read_size' <= args.size
      /\ total_read_size' < args.size
           => read_size = BUF_SIZE /\ written' = total_read_size'
              /\ BUF_SIZE <= total_read_size'
      /\ total_read_size' = args.size
           => args.size <= written' /\ written' < args.size + BUF_SIZE
  <2>1. args.file_pos \in Nat /\ args.size \in Nat
    BY <1>1
  <2>2. /\ read_size \in 1 .. BUF_SIZE
        /\ total_read_size + read_size <= args.size
        /\ total_read_size + read_size < args.size => read_size = BUF_SIZE
        /\ total_read_size + read_size = args.size
             => args.size <= total_read_size + BUF_SIZE
        /\ total_read_size + BUF_SIZE < args.size + BUF_SIZE
    <3> DEFINE size == args.size
    <3>1. /\ size \in Nat /\ total_read_size \in Nat /\ total_read_size < size
          /\ BUF_SIZE \in Nat \ {0}
          /\ read_size = MinOf(size - total_read_size, BUF_SIZE)
      BY <1>1
    <3> HIDE DEF size
    <3>2. /\ read_size \in 1 .. BUF_SIZE
          /\ total_read_size + read_size <= size
          /\ total_read_size + read_size < size => read_size = BUF_SIZE
          /\ total_read_size + read_size = size
               => size <= total_read_size + BUF_SIZE
          /\ total_read_size + BUF_SIZE < size + BUF_SIZE
      BY <3>1, TurnArithmetic
    <3> QED
      BY <3>2 DEF size
  <2>3. BUF_SIZE \in Nat \ {0} /\ total_read_size \in Nat
    BY <1>1
  <2> QED
    BY <1>4, <2>1, <2>2, <2>3
<1>6. \E n \in 0 .. written' : written' = n * BUF_SIZE
  <2>1. PICK n \in 0 .. written : written = n * BUF_SIZE
    BY <1>1 DEF LoopInv, Progress, InChunk
  <2>2. n + 1 \in 0 .. written' /\ written' = (n + 1) * BUF_SIZE
    <3>1. n \in Nat /\ BUF_SIZE \in Nat \ {0} /\ written' = written + BUF_SIZE
      BY <1>1, <1>4
    <3>2. (n + 1) * BUF_SIZE = n * BUF_SIZE + BUF_SIZE
      BY <3>1
    <3>3. n * BUF_SIZE \in Nat
      BY <3>1
    <3> QED
      BY <2>1, <3>1, <3>2, <3>3
  <2> QED
    BY <2>2
<1>7. TypeOK'
  <2>1. TypeOK
    BY DEF LoopInv
  <2> QED
    BY <1>1, <1>2, <1>3, <1>5, <2>1 DEF TypeOK, PCs
<1>8. FileIsRegionAfter'
  BY <1>2, <1>3, <1>4 DEF FileIsRegionAfter
<1>9. Progress'
  <2>1. result' # "ok" /\ pc' = "loop"
    BY <1>1 DEF LoopInv, TypeOK
  <2> QED
    BY <1>2, <1>5, <1>6, <2>1 DEF Progress, InChunk
<1>10. CursorsInPlace'
  <2>1. pc' = "loop"
    BY <1>1
  <2>2. total_read_size' < args.size
          => /\ file_cursor' = args.file_pos + total_read_size'
             /\ pad_cursor = args.pad_pos + total_read_size'
    <3>1. args.file_pos \in Nat /\ args.pad_pos \in Nat
      BY <1>1
    <3>2. pad_cursor = args.pad_pos + total_read_size + read_size
      BY <1>1
    <3>3. total_read_size \in Nat /\ BUF_SIZE \in Nat
      BY <1>1
    <3> QED
      BY <1>4, <1>5, <3>1, <3>2, <3>3
  <2> QED
    BY <1>2, <2>1, <2>2 DEF CursorsInPlace
<1>11. BuffersHold'
  <2>1. SUFFICES ASSUME total_read_size' < args.size
                 PROVE  /\ Holds(file_buf, orig, args.file_pos, FALSE)'
                        /\ Holds(pad_buf, pad, args.pad_pos, FALSE)'
    BY <1>1, <1>2 DEF BuffersHold, InChunk, Holds
  <2>2. /\ read_size = BUF_SIZE
        /\ total_read_size' = total_read_size + BUF_SIZE
        /\ total_read_size' # 0
    BY <1>1, <1>4, <1>5, <2>1
  <2>3. /\ Holds(file_buf, orig, args.file_pos, TRUE)
        /\ Holds(pad_buf, pad, args.pad_pos, TRUE)
    BY <1>1 DEF LoopInv, BuffersHold, InChunk, Holds
  <2>4. ASSUME NEW i \in 1 .. BUF_SIZE
        PROVE  /\ file_buf[i] = orig[args.file_pos + total_read_size + i]
               /\ pad_buf[i] = pad[args.pad_pos + total_read_size + i]
    BY <2>2, <2>3 DEF Holds
  <2>5. ASSUME NEW i \in 1 .. BUF_SIZE
        PROVE  /\ args.file_pos + total_read_size' - BUF_SIZE + i
                    = args.file_pos + total_read_size + i
               /\ args.pad_pos + total_read_size' - BUF_SIZE + i
                    = args.pad_pos + total_read_size + i
    BY <1>1, <2>2
  <2> QED
    BY <1>2, <2>2, <2>4, <2>5 DEF Holds, Previous
<1> QED
  BY <1>1, <1>2, <1>7, <1>8, <1>9, <1>10, <1>11
     DEF LoopInv, InitialPhase, ChecksDone, Verified, InChunk

(* A write that fails midway (xor.rs:63) keeps LoopInv.                    *)
LEMMA PartialWriteStep ==
  ASSUME SizesFit, LoopInv, PartialWrite
  PROVE  LoopInv'
<1>1. PICK k \in 1 .. (BUF_SIZE - 1) :
        /\ file' = WriteAt(file, file_cursor,
                           SubSeq(XorBuf(file_buf, pad_buf), 1, k))
        /\ written' = total_read_size + k
  BY DEF PartialWrite
<1>2. /\ pc = "write" /\ pc' = "done" /\ result' = "io"
      /\ UNCHANGED <<orig, pad, args, file_cursor, pad_cursor, file_buf,
                     pad_buf, read_size, total_read_size>>
  BY DEF PartialWrite, Return, frozen, cursors, buffers
<1>3. /\ BUF_SIZE \in Nat \ {0} /\ total_read_size \in Nat /\ TypeOK
  BY InputTypes DEF LoopInv, TypeOK
<1> DEFINE whole == XorBuf(file_buf, pad_buf)
           chunk == SubSeq(whole, 1, k)
<1>4. whole \in Seq(Byte) /\ Len(whole) = BUF_SIZE
  BY <1>2, BuffersAreLoopBytes
<1> HIDE DEF whole
<1>5. k \in 1 .. BUF_SIZE
  BY <1>3
<1>6. /\ chunk \in Seq(Byte) /\ Len(chunk) = k
      /\ \A i \in 1 .. k : chunk[i] = whole[i]
  BY <1>3, <1>4
<1> HIDE DEF chunk
<1>7. /\ WriteAt(file, file_cursor, chunk)
           = RegionAfter(orig, pad, args, total_read_size + k)
      /\ WriteAt(file, file_cursor, chunk) \in Seq(Byte)
  BY <1>2, <1>5, <1>6, ChunkExtends DEF whole
<1>8. file' = WriteAt(file, file_cursor, chunk)
  BY <1>1 DEF chunk, whole
<1>9. TypeOK'
  <2>1. written' \in Nat
    BY <1>1, <1>3
  <2> QED
    BY <1>2, <1>3, <1>7, <1>8, <2>1 DEF TypeOK, PCs
<1>10. FileIsRegionAfter'
  BY <1>1, <1>2, <1>7, <1>8 DEF FileIsRegionAfter
<1> QED
  BY <1>2, <1>9, <1>10 DEF LoopInv, InitialPhase, ChecksDone, Progress,
     CursorsInPlace, BuffersHold, InChunk

-----------------------------------------------------------------------------
(* Every step of xor_file keeps LoopInv.                                   *)
LEMMA NextPreserves ==
  ASSUME SizesFit, LoopInv, [Next]_vars
  PROVE  LoopInv'
<1> USE DEF Goto, Return, frozen, cursors, buffers
<1>1. TypeOK
  BY DEF LoopInv
<1>2. CASE VerifyFile
  <2>1. TypeOK'
    BY <1>1, <1>2 DEF VerifyFile, TypeOK, PCs
  <2>2. file = orig
    BY <1>2 DEF LoopInv, FileIsRegionAfter, InitialPhase, RegionAfter, VerifyFile
  <2> QED
    BY <1>2, <2>1, <2>2 DEF LoopInv, VerifyFile, FileIsRegionAfter, InitialPhase,
       ChecksDone, Progress, CursorsInPlace, BuffersHold, InChunk, TypeOK
<1>3. CASE VerifyPad
  <2>1. TypeOK'
    BY <1>1, <1>3 DEF VerifyPad, TypeOK, PCs
  <2> QED
    BY <1>3, <2>1 DEF LoopInv, VerifyPad, FileIsRegionAfter, InitialPhase,
       ChecksDone, Verified, Progress, CursorsInPlace, BuffersHold, InChunk, TypeOK
<1>4. CASE OutOfBounds \/ IoError
  <2>1. /\ pc' = "done" /\ result' \in {"io", "panic"}
        /\ UNCHANGED <<orig, pad, args, file, file_cursor, pad_cursor,
                       file_buf, pad_buf, read_size, total_read_size, written>>
    BY <1>4 DEF OutOfBounds, IoError
  <2>2. TypeOK'
    BY <1>1, <2>1 DEF TypeOK, PCs
  <2> QED
    BY <2>1, <2>2 DEF LoopInv, FileIsRegionAfter, InitialPhase,
       ChecksDone, Progress, CursorsInPlace, BuffersHold, InChunk
<1>5. CASE SeekToRegion
  <2>1. /\ args \in Args /\ BUF_SIZE \in Nat \ {0}
        /\ pc = "seek" /\ pc' = "loop" /\ result' = result
        /\ UNCHANGED <<orig, pad, args, file, file_buf, pad_buf, read_size,
                       total_read_size, written>>
        /\ file_cursor' = args.file_pos /\ pad_cursor' = args.pad_pos
        /\ written = 0 /\ total_read_size = 0
        /\ file_buf = ZeroBuf /\ pad_buf = ZeroBuf
        /\ Verified
    BY <1>1, <1>5, InputTypes
       DEF SeekToRegion, LoopInv, InitialPhase, ChecksDone
  <2>2. TypeOK'
    BY <1>1, <2>1 DEF TypeOK, PCs
  <2>3. Progress'
    <3>1. written = 0 * BUF_SIZE /\ 0 \in 0 .. written
      BY <2>1
    <3> QED
      BY <1>1, <2>1, <3>1 DEF Progress, InChunk, TypeOK
  <2>4. BuffersHold'
    BY <2>1 DEF BuffersHold, InChunk, Holds, Previous, ZeroBuf
  <2> QED
    BY <1>1, <2>1, <2>2, <2>3, <2>4 DEF LoopInv, FileIsRegionAfter,
       InitialPhase, ChecksDone, Verified, CursorsInPlace, InChunk, TypeOK
<1>6. CASE BeginChunk
  <2>1. /\ args \in Args /\ BUF_SIZE \in Nat \ {0} /\ total_read_size \in Nat
        /\ pc = "loop" /\ pc' = "read_file" /\ result' = result
        /\ UNCHANGED <<orig, pad, args, file, file_cursor, pad_cursor, file_buf,
                       pad_buf, total_read_size, written>>
        /\ read_size' = ChunkSize /\ ChunkSize # 0
        /\ total_read_size <= args.size
    BY <1>1, <1>6, InputTypes DEF BeginChunk, LoopInv, Progress, TypeOK
  <2>2. /\ ChunkSize = MinOf(args.size - total_read_size, BUF_SIZE)
        /\ ChunkSize \in 0 .. BUF_SIZE
        /\ total_read_size < args.size
    BY <1>1, <2>1, ChunkSizeLemma
  <2>3. TypeOK'
    BY <1>1, <2>1, <2>2 DEF TypeOK, PCs
  <2>4. Progress'
    BY <2>1, <2>2 DEF LoopInv, Progress, InChunk
  <2>5. BuffersHold'
    BY <2>1, <2>2 DEF LoopInv, BuffersHold, InChunk, Holds, Previous
  <2> QED
    BY <2>1, <2>2, <2>3, <2>4, <2>5 DEF LoopInv, FileIsRegionAfter,
       InitialPhase, ChecksDone, Verified, CursorsInPlace, InChunk
<1>7. CASE FinishLoop
  <2>1. /\ args \in Args /\ BUF_SIZE \in Nat \ {0} /\ total_read_size \in Nat
        /\ pc = "loop" /\ pc' = "done" /\ result' = "ok" /\ read_size' = 0
        /\ UNCHANGED <<orig, pad, args, file, file_cursor, pad_cursor, file_buf,
                       pad_buf, total_read_size, written>>
        /\ ChunkSize = 0 /\ total_read_size <= args.size
    BY <1>1, <1>7, InputTypes DEF FinishLoop, LoopInv, Progress, TypeOK
  <2>2. total_read_size = args.size
    BY <1>1, <2>1, ChunkSizeLemma
  <2>3. TypeOK'
    BY <1>1, <2>1 DEF TypeOK, PCs
  <2>4. Progress'
    BY <2>1, <2>2 DEF LoopInv, Progress, InChunk
  <2> QED
    BY <2>1, <2>2, <2>3, <2>4 DEF LoopInv, FileIsRegionAfter,
       InitialPhase, ChecksDone, Verified, CursorsInPlace, BuffersHold, InChunk
<1>8. CASE ReadFile
  BY <1>8, ReadFileStep
<1>9. CASE ReadPad
  BY <1>9, ReadPadStep
<1>10. CASE SeekBack
  <2>1. /\ args \in Args /\ total_read_size \in Nat
        /\ pc = "seek_back" /\ pc' = "write" /\ result' = result
        /\ UNCHANGED <<orig, pad, args, file, pad_cursor, file_buf,
                       pad_buf, read_size, total_read_size, written>>
        /\ file_cursor' = args.file_pos + total_read_size
    BY <1>1, <1>10, InputTypes DEF SeekBack, TypeOK
  <2>2. TypeOK'
    BY <1>1, <2>1 DEF TypeOK, PCs
  <2>3. BuffersHold'
    BY <2>1 DEF LoopInv, BuffersHold, InChunk, Holds, Previous
  <2> QED
    BY <2>1, <2>2, <2>3 DEF LoopInv, FileIsRegionAfter,
       InitialPhase, ChecksDone, Verified, Progress, CursorsInPlace, InChunk
<1>11. CASE WriteChunk
  BY <1>11, WriteChunkStep
<1>12. CASE PartialWrite
  BY <1>12, PartialWriteStep
<1>13. CASE UNCHANGED vars
  BY <1>13 DEF vars, LoopInv, TypeOK, FileIsRegionAfter, InitialPhase,
     ChecksDone, Verified, Progress, CursorsInPlace, BuffersHold, InChunk,
     Holds, Previous
<1> QED
  BY <1>2, <1>3, <1>4, <1>5, <1>6, <1>7, <1>8, <1>9, <1>10, <1>11, <1>12,
     <1>13 DEF Next, Step

-----------------------------------------------------------------------------
(* The inductive invariant holds throughout every call of xor_file.        *)
THEOREM LoopInvariant ==
  ASSUME SizesFit
  PROVE  Spec => []LoopInv
<1>1. Init => LoopInv
  BY InitEstablishes
<1>2. LoopInv /\ [Next]_vars => LoopInv'
  BY NextPreserves
<1> QED
  BY <1>1, <1>2, PTL DEF Spec

(* Type correctness of xor_file's locals, cursors and file (xor.rs:35-68). *)
THEOREM TypeCorrect ==
  ASSUME SizesFit
  PROVE  Spec => []TypeOK
<1>1. LoopInv => TypeOK
  BY DEF LoopInv
<1> QED
  BY <1>1, LoopInvariant, PTL

(* The closed form: at every moment of a call, and after whatever ends it, *)
(* the file is the original with the first `written' bytes of the region   *)
(* decrypted in place (xor.rs:52-66), for every file, pad and BUF_SIZE.    *)
THEOREM FileAlwaysRegionAfter ==
  ASSUME SizesFit
  PROVE  Spec => []FileIsRegionAfter
<1>1. LoopInv => FileIsRegionAfter
  BY DEF LoopInv
<1> QED
  BY <1>1, LoopInvariant, PTL

-----------------------------------------------------------------------------
(* A chunk is written only where the loop stands, over nothing that an     *)
(* earlier chunk handled.                                                  *)
LEMMA WriteKeepsHandled ==
  ASSUME LoopInv, pc = "write", NEW chunk \in Seq(Byte),
         NEW i \in 1 .. (args.file_pos + total_read_size), i <= Len(file)
  PROVE  WriteAt(file, file_cursor, chunk)[i] = file[i]
<1>1. /\ orig \in Seq(Byte) /\ args \in Args /\ total_read_size \in Nat
      /\ total_read_size < args.size
      /\ file_cursor = args.file_pos + total_read_size
      /\ PartFits(Len(orig), args.file_pos, args.size)
  BY InputTypes DEF LoopInv, TypeOK, Progress, InChunk, CursorsInPlace,
     ChecksDone, Verified
<1>2. /\ file \in Seq(Byte) /\ Len(file) = Len(orig)
  BY <1>1, UnreadIsOriginal DEF InChunk
<1>3. file_cursor \in Nat /\ file_cursor <= Len(file)
  BY <1>1, <1>2 DEF PartFits
<1>4. \A j \in 1 .. MaxOf(Len(file), file_cursor + Len(chunk)) :
        WriteAt(file, file_cursor, chunk)[j] =
          IF file_cursor < j /\ j <= file_cursor + Len(chunk)
          THEN chunk[j - file_cursor] ELSE file[j]
  BY <1>2, <1>3, WriteAtLemma DEF IsWritten
<1>5. i \in 1 .. MaxOf(Len(file), file_cursor + Len(chunk)) /\ ~(file_cursor < i)
  BY <1>1, <1>2, <1>3 DEF MaxOf
<1> QED
  BY <1>4, <1>5

(* What has been decrypted is not written again (xor.rs:62-65): a step     *)
(* leaves every byte before the current position as it is.                 *)
THEOREM HandledBytesStay ==
  ASSUME SizesFit
  PROVE  Spec => ForwardOnly
<1> DEFINE Kept == \A i \in 1 .. (args.file_pos + total_read_size) :
                     i <= Len(file) => file'[i] = file[i]
<1>1. ASSUME LoopInv, [Next]_vars
      PROVE  [Kept]_vars
  <2>1. CASE WriteChunk
    <3>1. /\ pc = "write"
          /\ file' = WriteAt(file, file_cursor, XorBuf(file_buf, pad_buf))
      BY <2>1 DEF WriteChunk, Goto
    <3>2. XorBuf(file_buf, pad_buf) \in Seq(Byte)
      BY <1>1, <3>1, BuffersAreLoopBytes
    <3> QED
      BY <1>1, <3>1, <3>2, WriteKeepsHandled
  <2>2. CASE PartialWrite
    <3>1. PICK k \in 1 .. (BUF_SIZE - 1) :
            file' = WriteAt(file, file_cursor,
                            SubSeq(XorBuf(file_buf, pad_buf), 1, k))
      BY <2>2 DEF PartialWrite
    <3>2. pc = "write"
      BY <2>2 DEF PartialWrite
    <3> DEFINE whole == XorBuf(file_buf, pad_buf)
    <3>3. whole \in Seq(Byte) /\ Len(whole) = BUF_SIZE /\ BUF_SIZE \in Nat \ {0}
      BY <1>1, <3>2, BuffersAreLoopBytes, BufSizeAssumption
    <3> HIDE DEF whole
    <3>4. SubSeq(whole, 1, k) \in Seq(Byte)
      BY <3>3
    <3> QED
      BY <1>1, <3>1, <3>2, <3>4, WriteKeepsHandled DEF whole
  <2>3. CASE ~WriteChunk /\ ~PartialWrite
    <3>1. file' = file
      BY <1>1, <2>3 DEF Next, Step, VerifyFile, VerifyPad, OutOfBounds,
         SeekToRegion, BeginChunk, FinishLoop, ReadFile, ReadPad, SeekBack,
         IoError, vars
    <3> QED
      BY <3>1
  <2> QED
    BY <2>1, <2>2, <2>3
<1> QED
  BY <1>1, LoopInvariant, PTL DEF Spec, ForwardOnly

(* The bounds checks before the loop (xor.rs:38-43) cover every read_exact *)
(* in it (xor.rs:58-59).                                                   *)
THEOREM ChecksCoverReads ==
  ASSUME SizesFit
  PROVE  Spec => []NoShortRead
<1>1. ASSUME LoopInv
      PROVE  NoShortRead
  <2>1. /\ orig \in Seq(Byte) /\ pad \in Seq(Byte) /\ args \in Args
        /\ BUF_SIZE \in Nat \ {0} /\ total_read_size \in Nat
    BY <1>1, InputTypes DEF LoopInv, TypeOK
  <2>2. CASE pc = "read_file"
    <3>1. /\ file_cursor = args.file_pos + total_read_size
          /\ total_read_size < args.size
          /\ read_size = MinOf(args.size - total_read_size, BUF_SIZE)
          /\ PartFits(Len(orig), args.file_pos, args.size)
      BY <1>1, <2>2 DEF LoopInv, CursorsInPlace, Progress, InChunk, ChecksDone,
         Verified
    <3>2. Len(file) = Len(orig)
      BY <1>1, <2>2, <3>1, UnreadIsOriginal DEF InChunk
    <3> QED
      BY <2>1, <2>2, <3>1, <3>2 DEF NoShortRead, MinOf, PartFits
  <2>3. CASE pc = "read_pad"
    <3>1. /\ pad_cursor = args.pad_pos + total_read_size
          /\ total_read_size < args.size
          /\ read_size = MinOf(args.size - total_read_size, BUF_SIZE)
          /\ PartFits(Len(pad), args.pad_pos, args.size)
      BY <1>1, <2>3 DEF LoopInv, CursorsInPlace, Progress, InChunk, ChecksDone,
         Verified
    <3> QED
      BY <2>1, <2>3, <3>1, SMTT(30) DEF NoShortRead, MinOf, PartFits
  <2> QED
    BY <2>2, <2>3 DEF NoShortRead
<1> QED
  BY <1>1, LoopInvariant, PTL

(* What Ok means to a caller (main.rs:145, ncch.rs:74-129): the region is  *)
(* decrypted; the bytes before it, and those a chunk past it, are as they  *)
(* were.                                                                   *)
THEOREM OkRegionDecrypted ==
  ASSUME SizesFit
  PROVE  Spec => []OkXorsRegion
<1>1. ASSUME LoopInv, result = "ok"
      PROVE  /\ Len(file) >= Len(orig)
             /\ \A d \in 0 .. (args.size - 1) :
                  file[args.file_pos + d + 1] = Decrypted(orig, pad, args, d)
             /\ \A i \in 1 .. Len(orig) :
                  (i <= args.file_pos \/ i > args.file_pos + args.size + BUF_SIZE - 1)
                    => file[i] = orig[i]
  <2>1. /\ orig \in Seq(Byte) /\ pad \in Seq(Byte) /\ args \in Args
        /\ BUF_SIZE \in Nat \ {0} /\ written \in Nat
        /\ args.size <= written /\ written < args.size + BUF_SIZE
        /\ PartFits(Len(orig), args.file_pos, args.size)
        /\ PartFits(Len(pad), args.pad_pos, args.size)
    BY <1>1, InputTypes DEF LoopInv, TypeOK, Progress, ChecksDone, Verified
  <2>2. /\ Len(file) = MaxOf(Len(orig), args.file_pos + written)
        /\ \A i \in 1 .. MaxOf(Len(orig), args.file_pos + written) :
             file[i] = IF args.file_pos < i /\ i <= args.file_pos + written
                       THEN LoopByte(orig, pad, args, i - args.file_pos - 1)
                       ELSE orig[i]
    <3>1. IsRegionAfter(RegionAfter(orig, pad, args, written),
                        orig, pad, args, written)
      BY <2>1, RegionAfterLemma
    <3> QED
      BY <1>1, <3>1 DEF LoopInv, FileIsRegionAfter, IsRegionAfter
  <2>3. Len(file) >= Len(orig)
    BY <2>1, <2>2 DEF MaxOf
  <2>4. ASSUME NEW d \in 0 .. (args.size - 1)
        PROVE  file[args.file_pos + d + 1] = Decrypted(orig, pad, args, d)
    <3> DEFINE i == args.file_pos + d + 1
    <3>1. /\ i \in 1 .. MaxOf(Len(orig), args.file_pos + written)
          /\ args.file_pos < i /\ i <= args.file_pos + written
          /\ i - args.file_pos - 1 = d /\ d < args.size
      BY <2>1, SMTT(30) DEF MaxOf
    <3> HIDE DEF i
    <3>2. file[i] = LoopByte(orig, pad, args, d)
      BY <2>2, <3>1
    <3> QED
      BY <3>1, <3>2 DEF LoopByte, i
  <2>5. ASSUME NEW i \in 1 .. Len(orig),
               \/ i <= args.file_pos
               \/ i > args.file_pos + args.size + BUF_SIZE - 1
        PROVE  file[i] = orig[i]
    <3>1. /\ i \in 1 .. MaxOf(Len(orig), args.file_pos + written)
          /\ ~(args.file_pos < i /\ i <= args.file_pos + written)
      BY <2>1, <2>5 DEF MaxOf
    <3> QED
      BY <2>2, <3>1
  <2> QED
    BY <2>3, <2>4, <2>5
<1>2. LoopInv => OkXorsRegion
  BY <1>1 DEF OkXorsRegion
<1> QED
  BY <1>2, LoopInvariant, PTL

-----------------------------------------------------------------------------
(* XorCall brings its own copies of the operators of XorRegion.            *)
LEMMA SameOperators ==
  ASSUME NEW f, NEW p, NEW c, NEW w, NEW len, NEW pos, NEW size
  PROVE  /\ Call!RegionAfter(f, p, c, w) = RegionAfter(f, p, c, w)
         /\ Call!PartFits(len, pos, size) <=> PartFits(len, pos, size)
         /\ Call!IsWholeCall(size, w) <=> IsWholeCall(size, w)
BY DEF Call!RegionAfter, RegionAfter, Call!LoopByte, LoopByte, Call!Decrypted,
   Decrypted, Call!MaxOf, MaxOf, Call!PartFits, PartFits, Call!IsWholeCall,
   IsWholeCall

(* xor_file implements XorCall: a chunk is Proceed, a write cut short is   *)
(* Fail, and the rest stutters or returns.                                 *)
THEOREM ImplementsXorCall ==
  ASSUME SizesFit
  PROVE  Spec => RefinesXorCall
<1>1. ASSUME Init
      PROVE  Call!CallInit
  BY <1>1, InputsAssumption DEF Init, Call!CallInit
<1>2. ASSUME LoopInv, [Next]_vars
      PROVE  [Call!CallNext]_Call!callVars
  <2> USE DEF Goto, Return, frozen, cursors, buffers, Call!callVars
  <2>1. /\ TypeOK /\ BUF_SIZE \in Nat \ {0} /\ args \in Args
        /\ total_read_size \in Nat
    BY <1>2, InputTypes DEF LoopInv, TypeOK
  <2>2. CASE WriteChunk \/ PartialWrite
    <3>1. /\ pc = "write" /\ written = total_read_size /\ Verified
          /\ result = "none" /\ total_read_size < args.size
          /\ UNCHANGED <<orig, pad, args>>
      BY <1>2, <2>1, <2>2 DEF WriteChunk, PartialWrite, LoopInv, Progress,
         InChunk, ChecksDone, TypeOK
    <3>2. LoopInv'
      BY <1>2, NextPreserves
    <3>3. file' = RegionAfter(orig, pad, args, written')
      BY <3>1, <3>2 DEF LoopInv, FileIsRegionAfter
    <3>4. PICK k \in 1 .. BUF_SIZE : written' = written + k
      BY <2>1, <2>2, <3>1 DEF WriteChunk, PartialWrite
    <3>5. /\ written + k \in written .. (written + BUF_SIZE)
          /\ written + k < args.size + BUF_SIZE
      BY <2>1, <3>1
    <3>6. Call!Advance
      <4>1. file' = Call!RegionAfter(orig, pad, args, written')
        BY <3>3, SameOperators, Zenon
      <4>2. Call!BothFit
        BY <3>1, SameOperators DEF Call!BothFit, Verified
      <4> QED
        BY <3>1, <3>4, <3>5, <4>1, <4>2 DEF Call!Advance
    <3>7. result' = result \/ result' = "io"
      BY <2>2 DEF WriteChunk, PartialWrite
    <3> QED
      BY <3>6, <3>7 DEF Call!CallNext, Call!Proceed, Call!Fail
  <2>3. CASE IoError
    BY <2>1, <2>3 DEF IoError, TypeOK, Call!CallNext, Call!FailEarly
  <2>4. CASE OutOfBounds
    <3>1. file = orig /\ written = 0
      BY <1>2, <2>4 DEF OutOfBounds, LoopInv, FileIsRegionAfter, InitialPhase,
         RegionAfter
    <3> QED
      <4>1. ~Call!BothFit
        BY <2>4, <3>1, SameOperators DEF OutOfBounds, Call!BothFit
      <4> QED
        BY <2>1, <2>4, <3>1, <4>1 DEF OutOfBounds, TypeOK, Call!CallNext,
           Call!Panic
  <2>5. CASE FinishLoop
    <3>1. /\ pc = "loop" /\ ChunkSize = 0 /\ result = "none" /\ Verified
          /\ total_read_size <= args.size
      BY <1>2, <2>1, <2>5 DEF FinishLoop, LoopInv, ChecksDone, Progress, TypeOK
    <3>2. total_read_size = args.size
      BY <2>1, <3>1, ChunkSizeLemma
    <3>3. IsWholeCall(args.size, written)
      BY <1>2, <3>1, <3>2 DEF LoopInv, Progress, IsWholeCall
    <3> QED
      <4>1. Call!BothFit /\ Call!IsWholeCall(args.size, written)
        BY <3>1, <3>3, SameOperators DEF Call!BothFit, Verified
      <4> QED
        BY <2>5, <3>1, <4>1 DEF FinishLoop, Call!CallNext, Call!ReturnOk
  <2>6. CASE \/ VerifyFile \/ VerifyPad \/ SeekToRegion \/ BeginChunk
             \/ ReadFile \/ ReadPad \/ SeekBack \/ UNCHANGED vars
    BY <2>6 DEF VerifyFile, VerifyPad, SeekToRegion, BeginChunk, ReadFile,
       ReadPad, SeekBack, vars
  <2> QED
    BY <1>2, <2>2, <2>3, <2>4, <2>5, <2>6 DEF Next, Step
<1> QED
  BY <1>1, <1>2, LoopInvariant, PTL
     DEF Spec, RefinesXorCall, Call!CallSpec
=============================================================================
