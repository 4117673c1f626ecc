------------------------------- MODULE XorCall -------------------------------
(***************************************************************************)
(* What a caller of xor_file (src/src/xor.rs) may rely on.  The file is    *)
(* rewritten from the start of the region on; at every moment its contents *)
(* are determined by how many bytes have been written.  Ok is returned     *)
(* only when the whole region has been written, a panic comes before the   *)
(* first write, and an I/O error may leave any prefix behind.              *)
(***************************************************************************)
EXTENDS XorRegion

VARIABLES
  orig,    \* the file when the call was made
  pad,     \* the xorpad
  args,    \* file_pos, pad_pos and size
  file,    \* the file now
  written, \* bytes written so far
  result   \* "none" until the call returns

callVars == <<orig, pad, args, file, written, result>>

CallInit ==
  /\ orig \in Seq(Byte) /\ pad \in Seq(Byte)
  /\ args \in [file_pos : Nat, pad_pos : Nat, size : Nat]
  /\ file = orig
  /\ written = 0
  /\ result = "none"

BothFit ==
  /\ PartFits(Len(orig), args.file_pos, args.size)
  /\ PartFits(Len(pad), args.pad_pos, args.size)

(* One more chunk, or part of one, reaches the disk. *)
Advance ==
  /\ result = "none"
  /\ BothFit
  /\ \E w \in written .. (written + BUF_SIZE) :
       /\ w < args.size + BUF_SIZE
       /\ written' = w
       /\ file' = RegionAfter(orig, pad, args, w)
  /\ UNCHANGED <<orig, pad, args>>

Proceed == Advance /\ UNCHANGED result

Fail == Advance /\ result' = "io"

FailEarly ==
  /\ result = "none"
  /\ result' = "io"
  /\ UNCHANGED <<orig, pad, args, file, written>>

Panic ==
  /\ result = "none"
  /\ written = 0
  /\ ~BothFit
  /\ result' = "panic"
  /\ UNCHANGED <<orig, pad, args, file, written>>

ReturnOk ==
  /\ result = "none"
  /\ BothFit
  /\ IsWholeCall(args.size, written)
  /\ result' = "ok"
  /\ UNCHANGED <<orig, pad, args, file, written>>

CallNext == Proceed \/ Fail \/ FailEarly \/ Panic \/ ReturnOk

CallSpec == CallInit /\ [][CallNext]_callVars
=============================================================================
