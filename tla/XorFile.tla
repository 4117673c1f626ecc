------------------------------- MODULE XorFile -------------------------------
(***************************************************************************)
(* xor_file (src/src/xor.rs:35-69), system call by system call: the two    *)
(* bounds checks, the initial seeks, and the loop that reads a chunk of    *)
(* the file and of the pad, seeks back and writes the XOR of the buffers.  *)
(* Any system call may fail; write_all may fail after part of the buffer   *)
(* has reached the disk.                                                   *)
(***************************************************************************)
EXTENDS XorRegion

CONSTANTS
  Files,    \* possible contents of the file when xor_file is called
  Pads,     \* possible contents of the pad
  Calls,    \* possible arguments
  USIZE_MOD \* 2^w for a usize of w bits

ASSUME InputsAssumption ==
  /\ Files \subseteq Seq(Byte)
  /\ Pads \subseteq Seq(Byte)
  /\ Calls \subseteq [file_pos : Nat, pad_pos : Nat, size : Nat]

ASSUME UsizeAssumption == USIZE_MOD \in Nat \ {0}

VARIABLES
  orig,            \* the file when the call was made (never changes)
  pad,             \* the pad (opened for reading, never changes)
  args,            \* file_pos, pad_pos, size (never change)
  file,            \* the file on disk
  file_cursor,     \* the kernel's offset in the file
  pad_cursor,      \* the kernel's offset in the pad
  file_buf,        \* the two buffers
  pad_buf,
  read_size,       \* size of the current chunk
  total_read_size, \* bytes of the region handled
  written,         \* history: bytes put on disk since the region's start
  pc,
  result           \* "none" until xor_file returns

frozen == <<orig, pad, args>>
cursors == <<file_cursor, pad_cursor>>
buffers == <<file_buf, pad_buf>>
vars == <<frozen, file, cursors, buffers, read_size, total_read_size, written,
          pc, result>>

ZeroBuf == [i \in 1 .. BUF_SIZE |-> Zero]

Init ==
  /\ orig \in Files /\ pad \in Pads /\ args \in Calls
  /\ file = orig
  /\ file_cursor = 0 /\ pad_cursor = 0
  /\ file_buf = ZeroBuf /\ pad_buf = ZeroBuf
  /\ read_size = 0 /\ total_read_size = 0 /\ written = 0
  /\ pc = "verify_file"
  /\ result = "none"

Return(r) == result' = r /\ pc' = "done"

Goto(from, to) == pc = from /\ pc' = to /\ UNCHANGED result

-----------------------------------------------------------------------------
VerifyFile ==
  /\ PartFits(Len(file), args.file_pos, args.size)
  /\ Goto("verify_file", "verify_pad")
  /\ UNCHANGED <<frozen, file, cursors, buffers, read_size, total_read_size,
                 written>>

VerifyPadSkipped == \* mutant: only the file is checked
  /\ Goto("verify_pad", "seek")
  /\ UNCHANGED <<frozen, file, cursors, buffers, read_size, total_read_size,
                 written>>

VerifyPad ==
  /\ PartFits(Len(pad), args.pad_pos, args.size)
  /\ Goto("verify_pad", "seek")
  /\ UNCHANGED <<frozen, file, cursors, buffers, read_size, total_read_size,
                 written>>

OutOfBounds ==
  /\ \/ pc = "verify_file" /\ ~PartFits(Len(file), args.file_pos, args.size)
     \/ pc = "verify_pad" /\ ~PartFits(Len(pad), args.pad_pos, args.size)
  /\ Return("panic")
  /\ UNCHANGED <<frozen, file, cursors, buffers, read_size, total_read_size,
                 written>>

SeekToRegionFileOnly == \* mutant: the pad is read from its start
  /\ Goto("seek", "loop")
  /\ file_cursor' = args.file_pos
  /\ UNCHANGED <<frozen, file, pad_cursor, buffers, read_size,
                 total_read_size, written>>

SeekToRegion ==
  /\ Goto("seek", "loop")
  /\ file_cursor' = args.file_pos
  /\ pad_cursor' = args.pad_pos
  /\ UNCHANGED <<frozen, file, buffers, read_size, total_read_size, written>>

-----------------------------------------------------------------------------
ChunkSizeWholeOnly == \* mutant: a last chunk that is not full is dropped
  IF args.size - total_read_size < BUF_SIZE THEN 0 ELSE BUF_SIZE

(* The cast to usize comes before the comparison with BUF_SIZE.            *)
ChunkSize == MinOf((args.size - total_read_size) % USIZE_MOD, BUF_SIZE)

BeginChunk ==
  /\ ChunkSize # 0
  /\ Goto("loop", "read_file")
  /\ read_size' = ChunkSize
  /\ UNCHANGED <<frozen, file, cursors, buffers, total_read_size, written>>

FinishLoop ==
  /\ pc = "loop" /\ ChunkSize = 0
  /\ read_size' = 0
  /\ Return("ok")
  /\ UNCHANGED <<frozen, file, cursors, buffers, total_read_size, written>>

FillResized(buf, f, cursor) == \* mutant: the buffer shrinks to the chunk
  [i \in 1 .. read_size |-> f[cursor + i]]

(* read_exact into buf[0..read_size]: the rest of the buffer is kept. *)
Fill(buf, f, cursor) ==
  [i \in 1 .. BUF_SIZE |-> IF i <= read_size THEN f[cursor + i] ELSE buf[i]]

ReadFile ==
  /\ file_cursor + read_size <= Len(file)
  /\ Goto("read_file", "read_pad")
  /\ file_buf' = Fill(file_buf, file, file_cursor)
  /\ file_cursor' = file_cursor + read_size
  /\ UNCHANGED <<frozen, file, pad_cursor, pad_buf, read_size,
                 total_read_size, written>>

ReadPadFromStart == \* mutant: the pad is rewound for every chunk
  /\ args.pad_pos + read_size <= Len(pad)
  /\ Goto("read_pad", "seek_back")
  /\ pad_buf' = Fill(pad_buf, pad, args.pad_pos)
  /\ UNCHANGED <<frozen, file, cursors, file_buf, read_size,
                 total_read_size, written>>

ReadPad ==
  /\ pad_cursor + read_size <= Len(pad)
  /\ Goto("read_pad", "seek_back")
  /\ pad_buf' = Fill(pad_buf, pad, pad_cursor)
  /\ pad_cursor' = pad_cursor + read_size
  /\ UNCHANGED <<frozen, file, file_cursor, file_buf, read_size,
                 total_read_size, written>>

SeekBackMissing == \* mutant: writes where the read left the cursor
  /\ Goto("seek_back", "write")
  /\ UNCHANGED <<frozen, file, cursors, buffers, read_size,
                 total_read_size, written>>

SeekBackToStart == \* mutant: forgets total_read_size
  /\ Goto("seek_back", "write")
  /\ file_cursor' = args.file_pos
  /\ UNCHANGED <<frozen, file, pad_cursor, buffers, read_size,
                 total_read_size, written>>

(* "file.read() seeks automatically, so let's return to the write position" *)
SeekBack ==
  /\ Goto("seek_back", "write")
  /\ file_cursor' = args.file_pos + total_read_size
  /\ UNCHANGED <<frozen, file, pad_cursor, buffers, read_size,
                 total_read_size, written>>

WriteChunkNoProgress == \* mutant: total_read_size is not advanced
  /\ Goto("write", "loop")
  /\ file' = WriteAt(file, file_cursor, XorBuf(file_buf, pad_buf))
  /\ file_cursor' = file_cursor + BUF_SIZE
  /\ written' = total_read_size + BUF_SIZE
  /\ UNCHANGED <<frozen, pad_cursor, buffers, read_size, total_read_size>>

(* The whole buffers are XORed and written, not only read_size bytes. *)
WriteChunk ==
  /\ Goto("write", "loop")
  /\ file' = WriteAt(file, file_cursor, XorBuf(file_buf, pad_buf))
  /\ file_cursor' = file_cursor + BUF_SIZE
  /\ total_read_size' = total_read_size + read_size
  /\ written' = total_read_size + BUF_SIZE
  /\ UNCHANGED <<frozen, pad_cursor, buffers, read_size>>

-----------------------------------------------------------------------------
(* write_all fails (or the process is killed) after k bytes of the chunk.  *)
PartialWrite ==
  /\ pc = "write"
  /\ \E k \in 1 .. (BUF_SIZE - 1) :
       /\ file' = WriteAt(file, file_cursor,
                          SubSeq(XorBuf(file_buf, pad_buf), 1, k))
       /\ written' = total_read_size + k
  /\ Return("io")
  /\ UNCHANGED <<frozen, cursors, buffers, read_size, total_read_size>>

(* metadata(), seek(), a read (at the end of the file, for one) or a write *)
(* that moves nothing fails.                                               *)
IoError ==
  /\ pc \notin {"loop", "done"}
  /\ Return("io")
  /\ UNCHANGED <<frozen, file, cursors, buffers, read_size, total_read_size,
                 written>>

-----------------------------------------------------------------------------
Step == \/ VerifyFile \/ VerifyPad \/ OutOfBounds \/ SeekToRegion
        \/ BeginChunk \/ FinishLoop \/ ReadFile \/ ReadPad
        \/ SeekBack \/ WriteChunk

Next == Step \/ PartialWrite \/ IoError

(* One thread runs the function and every system call returns. *)
Spec == Init /\ [][Next]_vars /\ WF_vars(Step)
-----------------------------------------------------------------------------
PCs == {"verify_file", "verify_pad", "seek", "loop", "read_file", "read_pad",
        "seek_back", "write", "done"}

(* Every variable has its type; the buffers keep their BUF_SIZE bytes and  *)
(* the frozen inputs stay among the given ones (xor.rs:35-51).             *)
TypeOK ==
  /\ orig \in Files /\ pad \in Pads /\ args \in Calls
  /\ file \in Seq(Byte)
  /\ file_cursor \in Nat /\ pad_cursor \in Nat
  /\ file_buf \in [1 .. BUF_SIZE -> Byte]
  /\ pad_buf \in [1 .. BUF_SIZE -> Byte]
  /\ read_size \in 0 .. BUF_SIZE
  /\ total_read_size \in Nat /\ written \in Nat
  /\ pc \in PCs
  /\ result \in {"none", "ok", "io", "panic"}
  /\ pc = "done" <=> result # "none"

(* At every moment, also after a failed or partial write, the file is the  *)
(* original with exactly the first `written' bytes of the region replaced, *)
(* each by what LoopByte says: nothing is XORed twice, read after it was   *)
(* overwritten, or combined with the wrong byte of the pad.                *)
FileIsRegionAfter ==
  file = RegionAfter(orig, pad, args, written)

(* When xor_file returns Ok, every byte of the region is the XOR of the    *)
(* file's and the pad's, the bytes before the region are untouched, and so *)
(* is everything from the next chunk boundary on.                          *)
OkXorsRegion ==
  result = "ok" =>
    /\ Len(file) >= Len(orig)
    /\ \A d \in 0 .. (args.size - 1) :
         file[args.file_pos + d + 1] = Decrypted(orig, pad, args, d)
    /\ \A i \in 1 .. Len(orig) :
         (i <= args.file_pos \/ i > args.file_pos + args.size + BUF_SIZE - 1)
           => file[i] = orig[i]

(* The checks made once, before the first read, are enough for every later *)
(* read_exact: the loop never runs off the end of the file or of the pad,  *)
(* although it moves both cursors and makes the file longer.               *)
NoShortRead ==
  /\ pc = "read_file" => file_cursor + read_size <= Len(file)
  /\ pc = "read_pad" => pad_cursor + read_size <= Len(pad)

(* A step of the loop only ever changes bytes that no earlier chunk has    *)
(* handled: what has been decrypted is not written again.                  *)
ForwardOnly ==
  [][\A i \in 1 .. (args.file_pos + total_read_size) :
       i <= Len(file) => file'[i] = file[i]]_vars

(* xor_file does what XorCall promises its callers.                        *)
Call == INSTANCE XorCall
RefinesXorCall == Call!CallSpec

(* A call returns: the loop makes progress in every turn and reaches the   *)
(* end of the region, or fails.                                            *)
Returns == <>(result # "none")

(***************************************************************************)
(* The inductive invariant, in parts.                                      *)
(***************************************************************************)
Verified ==
  /\ PartFits(Len(orig), args.file_pos, args.size)
  /\ PartFits(Len(pad), args.pad_pos, args.size)

InChunk == pc \in {"read_file", "read_pad", "seek_back", "write"}

InitialPhase ==
  pc \in {"verify_file", "verify_pad", "seek"}
    => /\ written = 0 /\ total_read_size = 0
       /\ file_buf = ZeroBuf /\ pad_buf = ZeroBuf

ChecksDone ==
  /\ pc = "verify_pad" => PartFits(Len(orig), args.file_pos, args.size)
  /\ (pc = "seek" \/ pc = "loop" \/ InChunk \/ result = "ok") => Verified

(* Before a chunk, all of `written' is region; after the last one it may   *)
(* be up to a chunk less one byte further.                                 *)
Progress ==
  /\ (pc = "loop" \/ InChunk \/ result = "ok")
       => /\ total_read_size <= args.size
          /\ total_read_size < args.size
               => /\ written = total_read_size
                  /\ total_read_size = 0 \/ BUF_SIZE <= total_read_size
          /\ total_read_size = args.size
               => args.size <= written /\ written < args.size + BUF_SIZE
          /\ \E n \in 0 .. written : written = n * BUF_SIZE
  /\ InChunk => /\ total_read_size < args.size
                /\ read_size = MinOf(args.size - total_read_size, BUF_SIZE)
  /\ result = "ok" => total_read_size = args.size

CursorsInPlace ==
  /\ ((pc = "loop" /\ total_read_size < args.size) \/ pc = "read_file")
       => file_cursor = args.file_pos + total_read_size
  /\ ((pc = "loop" /\ total_read_size < args.size)
       \/ pc \in {"read_file", "read_pad"})
       => pad_cursor = args.pad_pos + total_read_size
  /\ pc \in {"seek_back", "write"}
       => pad_cursor = args.pad_pos + total_read_size + read_size
  /\ pc = "write" => file_cursor = args.file_pos + total_read_size

(* What a buffer holds from index i on: the chunk before the current one.  *)
Previous(f, pos, i) ==
  IF total_read_size = 0 THEN Zero ELSE f[pos + total_read_size - BUF_SIZE + i]

Holds(buf, f, pos, filled) ==
  \A i \in 1 .. BUF_SIZE :
    buf[i] = IF filled /\ i <= read_size THEN f[pos + total_read_size + i]
             ELSE Previous(f, pos, i)

BuffersHold ==
  /\ ((pc = "loop" /\ total_read_size < args.size) \/ InChunk)
       => /\ Holds(file_buf, orig, args.file_pos,
                   pc \in {"read_pad", "seek_back", "write"})
          /\ Holds(pad_buf, pad, args.pad_pos, pc \in {"seek_back", "write"})

(* TypeOK and FileIsRegionAfter are not inductive by themselves: that a    *)
(* chunk writes the right bytes depends on the cursors and on what both    *)
(* buffers still hold of the chunk before.                                 *)
LoopInv ==
  /\ TypeOK
  /\ FileIsRegionAfter
  /\ InitialPhase
  /\ ChecksDone
  /\ Progress
  /\ CursorsInPlace
  /\ BuffersHold

(* README.md:26, "just xor one file with another, without anything special *)
(* going on": an Ok call leaves everything outside the region as it was.   *)
OkTouchesOnlyRegion ==
  result = "ok" =>
    /\ Len(file) = Len(orig)
    /\ \A i \in 1 .. Len(orig) :
         (i <= args.file_pos \/ i > args.file_pos + args.size)
           => file[i] = orig[i]

(* README.md:26 again: Ok means that the whole of the file was XORed.      *)
OkMeansWholeRegion == result = "ok" => total_read_size = args.size
=============================================================================
