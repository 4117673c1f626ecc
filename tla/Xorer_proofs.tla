----------------------------- MODULE Xorer_proofs -----------------------------
(***************************************************************************)
(* What is proved of the program for all images, command lines and sizes.  *)
(***************************************************************************)
EXTENDS Xorer, Ncch_proofs, DataLemmas

(* An invocation that writes to the first argument was given --inplace.    *)
TargetAllowed ==
  /\ pc = "copy" => target = "output"
  /\ pc \in {"open", "magic", "dumb", "work"} /\ target = "input"
       => opts.inplace

(* A step that starts no invocation and chooses no file keeps the target   *)
(* and the command line.                                                   *)
LEMMA TargetKept ==
  ASSUME TargetAllowed, UNCHANGED <<opts, target>>,
         \/ pc' = pc \/ pc' = "idle"
         \/ pc = "copy" /\ pc' = "open"
         \/ pc = "open" /\ pc' \in {"dumb", "magic"}
         \/ pc \in {"dumb", "magic"} /\ pc' = "work"
  PROVE  TargetAllowed'
BY DEF TargetAllowed

(* Every step keeps TargetAllowed.                                         *)
LEMMA TargetAllowedStep ==
  ASSUME TargetAllowed, [Next]_vars
  PROVE  TargetAllowed'
<1>1. CASE UNCHANGED vars
  BY <1>1 DEF TargetAllowed, vars
<1>2. CASE Invoke
  BY <1>2 DEF TargetAllowed, Invoke
<1>3. CASE ChooseInplace
  BY <1>3 DEF TargetAllowed, ChooseInplace, Goto
<1>4. CASE ChooseOutput
  BY <1>4 DEF TargetAllowed, ChooseOutput, Goto
<1>5. CASE CopyInput \/ CopyFails \/ Open
  BY <1>5, TargetKept DEF CopyInput, CopyFails, Open, Goto, Exit
<1>6. CASE PlanNcch \/ PlanNcsd \/ PlanMisread \/ PlanDumb
  BY <1>6, TargetKept DEF PlanNcch, PlanNcsd, PlanMisread, PlanDumb, Planned, Goto
<1>7. CASE ShowHelp \/ HeaderMissing \/ UnknownContainer \/ DumbPadMissing
  BY <1>7, TargetKept
     DEF ShowHelp, HeaderMissing, UnknownContainer, DumbPadMissing, Exit
<1>8. CASE RemoveOutput \/ Killed \/ IoError \/ XorInterrupted
  BY <1>8, TargetKept
     DEF RemoveOutput, Killed, IoError, XorInterrupted, Exit, frame
<1>9. CASE Work
  <2>1. UNCHANGED <<opts, target>> /\ (pc' = pc \/ pc' = "idle")
    BY <1>9 DEF Work, OpenPad, RefuseNothing, BadArgument, XorSection,
       XorOutOfBounds, HashMatches, HashDiffers, ReadPastEnd, ReadExefs,
       NoCode, FilesMatch, FileDiffers, Finish, StepDone, Exit, frame
  <2> QED
    BY <2>1, TargetKept
<1> QED
  BY <1>1, <1>2, <1>3, <1>4, <1>5, <1>6, <1>7, <1>8, <1>9
     DEF Next, Step, Environment

(* The input is written only while the steps of a plan are carried out, as *)
(* the target.                                                             *)
LEMMA InputWrittenAsTarget ==
  ASSUME Next, input' # input
  PROVE  pc = "work" /\ target = "input" /\ opts' = opts
<1>1. CASE XorSection \/ XorInterrupted
  BY <1>1 DEF XorSection, XorInterrupted, WriteFile, Doing, frame
<1>2. CASE Work /\ ~XorSection
  BY <1>2 DEF Work, OpenPad, RefuseNothing, BadArgument,
     XorOutOfBounds, HashMatches, HashDiffers, ReadPastEnd, ReadExefs,
     NoCode, FilesMatch, FileDiffers, Finish
<1>3. CASE Step /\ ~Work
  BY <1>3 DEF Step, ShowHelp, ChooseInplace, ChooseOutput, CopyInput, Open,
     PlanNcch, PlanNcsd, PlanMisread, Planned, HeaderMissing, UnknownContainer, PlanDumb,
     DumbPadMissing
<1>4. CASE Environment /\ ~XorInterrupted
  BY <1>4 DEF Environment, Invoke, RemoveOutput, CopyFails, Killed, IoError
<1> QED
  BY <1>1, <1>2, <1>3, <1>4 DEF Next, Step

(* Without --inplace no step of the program changes the file named by the  *)
(* first free argument (main.rs:172-199), whatever else is on the command  *)
(* line and wherever an earlier invocation was stopped.                    *)
THEOREM InputOnlyRead == Spec => InputUntouched
<1>1. Init => TargetAllowed
  BY DEF Init, TargetAllowed
<1>2. TargetAllowed /\ [Next]_vars => TargetAllowed'
  BY TargetAllowedStep
<1>3. TargetAllowed /\ [Next]_vars => [input' # input => opts.inplace]_vars
  BY InputWrittenAsTarget DEF TargetAllowed, vars
<1> QED
  BY <1>1, <1>2, <1>3, PTL DEF Spec, InputUntouched

-----------------------------------------------------------------------------
(* What a call of xor_file does to the file it is given.                   *)

(* A product is not smaller than its factors.                              *)
LEMMA FactorBound ==
  ASSUME NEW k \in Nat \ {0}, NEW q \in Nat
  PROVE  k * q \in Nat /\ q <= k * q /\ k * q = q * k
<1>1. (k - 1) * q >= 0
  OBVIOUS
<1>2. (k - 1) * q = k * q - q
  OBVIOUS
<1> QED
  BY <1>1, <1>2

(* A size can be rounded up to a whole number of chunks, by less than one. *)
LEMMA WholeCallLemma ==
  ASSUME NEW size \in Nat
  PROVE  /\ WholeCall(size) \in Nat /\ IsWholeCall(size, WholeCall(size))
         /\ size <= WholeCall(size) /\ WholeCall(size) < size + BUF_SIZE
<1> DEFINE a == size + BUF_SIZE - 1 q == a \div BUF_SIZE r == a % BUF_SIZE
           w == BUF_SIZE * q
<1>1. BUF_SIZE \in Nat \ {0} /\ a \in Nat
  BY BufSizeAssumption
<1>2. q \in Nat /\ a = w + r /\ r \in 0 .. (BUF_SIZE - 1)
  <2> HIDE DEF a
  <2> QED
    BY <1>1, DivMod, ModRange
<1>3. w \in Nat /\ q <= w /\ w = q * BUF_SIZE
  <2> HIDE DEF q
  <2> QED
    BY <1>1, <1>2, FactorBound
<1> HIDE DEF q, w, r
<1>4. size <= w /\ w < size + BUF_SIZE
  BY <1>1, <1>2, <1>3
<1>5. w \in 0 .. (size + BUF_SIZE) /\ q \in 0 .. w
  BY <1>1, <1>2, <1>3, <1>4
<1>6. IsWholeCall(size, w)
  BY <1>3, <1>4, <1>5 DEF IsWholeCall
<1>7. WholeCall(size) \in 0 .. (size + BUF_SIZE) /\ IsWholeCall(size, WholeCall(size))
  BY <1>5, <1>6 DEF WholeCall
<1> QED
  BY <1>1, <1>7 DEF IsWholeCall

(* g is f, but for what lies past the first p bytes.                       *)
Beyond(f, g, p) ==
  /\ g \in Seq(Byte) /\ Len(f) <= Len(g)
  /\ \A i \in 1 .. Len(f) : i <= p => g[i] = f[i]

(* A call writes forward from its file_pos; once it has written as much as *)
(* the region, the region is XORed.                                        *)
LEMMA RegionWritten ==
  ASSUME NEW f \in Seq(Byte), NEW pad \in Seq(Byte), NEW c,
         c.file_pos \in Nat, c.pad_pos \in Nat, c.size \in Nat,
         PartFits(Len(f), c.file_pos, c.size), PartFits(Len(pad), c.pad_pos, c.size),
         NEW w \in Nat, w < c.size + BUF_SIZE
  PROVE  LET g == RegionAfter(f, pad, c, w)
         IN /\ Beyond(f, g, c.file_pos) /\ Len(g) = MaxOf(Len(f), c.file_pos + w)
            /\ c.size <= w => \A i \in 1 .. c.size :
                 g[c.file_pos + i] = Xor(f[c.file_pos + i], pad[c.pad_pos + i])
<1> DEFINE d == [file_pos |-> c.file_pos, pad_pos |-> c.pad_pos, size |-> c.size]
           g == RegionAfter(f, pad, d, w)
<1>1. /\ d \in Args /\ d.file_pos = c.file_pos /\ d.pad_pos = c.pad_pos
      /\ d.size = c.size
  BY DEF Args
<1>2. RegionAfter(f, pad, c, w) = g
  <2> HIDE DEF d
  <2> QED
    BY <1>1 DEF RegionAfter, LoopByte, Decrypted
<1> HIDE DEF d
<1>3. IsRegionAfter(g, f, pad, d, w)
  BY <1>1, RegionAfterLemma
<1> HIDE DEF g
<1> DEFINE p == c.file_pos q == c.pad_pos size == c.size m == MaxOf(Len(f), p + w)
<1>4. /\ g \in Seq(Byte) /\ Len(g) = m
      /\ \A i \in 1 .. m : g[i] = IF p < i /\ i <= p + w
                                THEN LoopByte(f, pad, d, i - p - 1) ELSE f[i]
  BY <1>1, <1>3 DEF IsRegionAfter
<1>5. /\ p \in Nat /\ q \in Nat /\ size \in Nat /\ Len(f) \in Nat
      /\ d.file_pos = p /\ d.pad_pos = q /\ d.size = size
  BY <1>1
<1> HIDE DEF p, q, size
<1>6. m \in Nat /\ Len(f) <= m /\ p + w <= m
  BY <1>5 DEF MaxOf
<1> HIDE DEF m
<1>9. Len(g) = MaxOf(Len(f), p + w)
  BY <1>4 DEF m
<1>7. Beyond(f, g, p)
  <2> SUFFICES ASSUME NEW i \in 1 .. Len(f), i <= p
               PROVE  g[i] = f[i]
    BY <1>4, <1>6 DEF Beyond
  <2>1. i \in 1 .. m /\ ~(p < i)
    BY <1>5, <1>6
  <2> QED
    BY <1>4, <2>1
<1>8. ASSUME size <= w, NEW i \in 1 .. size
      PROVE  g[p + i] = Xor(f[p + i], pad[q + i])
  <2> DEFINE k == p + i
  <2>1. /\ k \in 1 .. m /\ p < k /\ k <= p + w
        /\ k - p - 1 = i - 1 /\ i - 1 < size
        /\ p + (i - 1) + 1 = k /\ q + (i - 1) + 1 = q + i
    BY <1>5, <1>6, <1>8
  <2> HIDE DEF k
  <2>2. g[k] = LoopByte(f, pad, d, i - 1)
    BY <1>4, <2>1
  <2>3. LoopByte(f, pad, d, i - 1) = Xor(f[k], pad[q + i])
    BY <1>5, <2>1 DEF LoopByte, Decrypted
  <2> QED
    BY <2>2, <2>3 DEF k
<1> QED
  BY <1>2, <1>7, <1>8, <1>9 DEF p, q, size

-----------------------------------------------------------------------------
(* Types.                                                                  *)

(* The arguments given, and that every pad is asked for before it is used. *)
Given == { a \in PadArgs : Supplied(a) }

PadsReady == Ready(todo, Given)

(* The pad files and the command line are what the program can be given.   *)
LEMMA PadTyped ==
  ASSUME TypeOK, NEW a \in Given
  PROVE  Pad(a) \in Seq(Byte)
<1>1. image \in Images /\ opts \in Options /\ a \in PadArgs /\ opts.pads[a] # "none"
  BY DEF TypeOK, Given, Supplied
<1>2. opts.pads[a] \in DOMAIN image.pads
  BY <1>1, OptionsAssumption DEF IsLine
<1>3. image.pads[opts.pads[a]] \in Seq(Byte)
  BY <1>1, <1>2, ImagesAssumption DEF IsImage
<1> QED
  BY <1>3 DEF Pad

(* The file that is worked on.                                             *)
LEMMA FileTyped ==
  ASSUME TypeOK
  PROVE  File \in Seq(Byte)
BY DEF TypeOK, File

(* What is written to it.                                                  *)
LEMMA FileWritten ==
  ASSUME NEW f, WriteFile(f), UNCHANGED target
  PROVE  File' = f
BY DEF WriteFile, File

(* A section is XORed only if its pad is there and both regions fit.       *)
LEMMA XorFits ==
  ASSUME TypeOK, PadsReady, Doing("xor"), Fits(Head(todo))
  PROVE  LET s == Head(todo)
         IN /\ s.file_pos \in Nat /\ s.pad_pos \in Nat /\ s.size \in Nat
            /\ Pad(s.arg) \in Seq(Byte)
            /\ PartFits(Len(File), s.file_pos, s.size)
            /\ PartFits(Len(Pad(s.arg)), s.pad_pos, s.size)
<1> DEFINE s == Head(todo)
<1>1. todo \in Seq(Steps) /\ todo # <<>> /\ s.kind = "xor"
  BY DEF TypeOK, Doing
<1>2. s \in Steps /\ Uses(s) \subseteq Given
  BY <1>1, TailSteps, TailReady DEF PadsReady
<1>3. s.file_pos \in Nat /\ s.pad_pos \in Nat /\ s.size \in Int
  BY <1>1, <1>2, StepFields DEF IsStep
<1>4. s.arg \in Given
  BY <1>1, <1>2 DEF Uses
<1>5. Pad(s.arg) \in Seq(Byte)
  BY <1>4, PadTyped
<1> QED
  BY <1>3, <1>5 DEF Fits

(* After it, or in the middle of it.                                       *)
LEMMA SectionWritten ==
  ASSUME TypeOK, PadsReady, Doing("xor"), Fits(Head(todo)),
         NEW w \in 0 .. WholeCall(Head(todo).size)
  PROVE  LET s == Head(todo)
             g == RegionAfter(File, Pad(s.arg), s, w)
         IN /\ Beyond(File, g, s.file_pos)
            /\ Len(g) = MaxOf(Len(File), s.file_pos + w)
            /\ w = WholeCall(s.size) => \A i \in 1 .. s.size :
                 g[s.file_pos + i] = Xor(File[s.file_pos + i], Pad(s.arg)[s.pad_pos + i])
<1> DEFINE s == Head(todo)
<1>1. /\ s.file_pos \in Nat /\ s.pad_pos \in Nat /\ s.size \in Nat
      /\ Pad(s.arg) \in Seq(Byte)
      /\ PartFits(Len(File), s.file_pos, s.size)
      /\ PartFits(Len(Pad(s.arg)), s.pad_pos, s.size)
  BY XorFits
<1>2. File \in Seq(Byte)
  BY FileTyped
<1> HIDE DEF s
<1>3. WholeCall(s.size) \in Nat /\ s.size <= WholeCall(s.size)
      /\ WholeCall(s.size) < s.size + BUF_SIZE
  BY <1>1, WholeCallLemma
<1>4. w \in Nat /\ w < s.size + BUF_SIZE /\ (w = WholeCall(s.size) => s.size <= w)
  BY <1>1, <1>3, BufSizeAssumption DEF s
<1>5. LET g == RegionAfter(File, Pad(s.arg), s, w)
      IN /\ Beyond(File, g, s.file_pos)
         /\ Len(g) = MaxOf(Len(File), s.file_pos + w)
         /\ s.size <= w => \A i \in 1 .. s.size :
              g[s.file_pos + i] = Xor(File[s.file_pos + i], Pad(s.arg)[s.pad_pos + i])
  BY <1>1, <1>2, <1>4, RegionWritten
<1> QED
  BY <1>4, <1>5 DEF s

(* The part of the type that calls of xor_file and copies may change.      *)
FilesOK ==
  /\ input \in Seq(Byte) /\ output \in Seq(Byte)
  /\ has_output \in BOOLEAN /\ (~has_output => output = <<>>)
  /\ torn \subseteq {"input", "output"}

(* The rest of it.                                                         *)
ControlOK ==
  /\ image \in Images /\ opts \in Options /\ before \in Seq(Byte)
  /\ target \in {"input", "output"}
  /\ pc \in {"idle", "args", "copy", "open", "magic", "dumb", "work"}
  /\ todo \in Seq(Steps) /\ (pc # "work" => todo = <<>>)
  /\ status \in Statuses /\ (pc = "idle" <=> status # "none")
  /\ runs \in 0 .. MaxRuns

(* Together they are the type invariant.                                   *)
LEMMA TypeParts == TypeOK <=> FilesOK /\ ControlOK
BY DEF TypeOK, FilesOK, ControlOK

(* A section that is XORed, whole or in part, leaves a file.               *)
LEMMA XorKeepsFiles ==
  ASSUME TypeOK, PadsReady, Doing("xor"), Fits(Head(todo)),
         NEW w \in 0 .. WholeCall(Head(todo).size),
         WriteFile(RegionAfter(File, Pad(Head(todo).arg), Head(todo), w)),
         UNCHANGED <<target, has_output>>, torn' \in {torn, torn \union {target}}
  PROVE  FilesOK'
<1> DEFINE s == Head(todo) g == RegionAfter(File, Pad(s.arg), s, w)
<1>1. Beyond(File, g, s.file_pos) /\ WriteFile(g)
  BY SectionWritten
<1>2. PartFits(Len(File), s.file_pos, s.size) /\ s.file_pos \in Nat
  BY XorFits
<1> HIDE DEF g, s
<1>3. g \in Seq(Byte)
  BY <1>1 DEF Beyond
<1>4. File \in Seq(Byte) /\ File # <<>>
  <2>1. File \in Seq(Byte)
    BY FileTyped
  <2> QED
    BY <1>2, <2>1 DEF PartFits
<1>5. target = "output" => has_output
  BY <1>4 DEF TypeOK, File
<1> QED
  BY <1>1, <1>3, <1>5 DEF FilesOK, TypeOK, WriteFile

(* The steps are planned from the image's header or from another.          *)
Planning == PlanNcch \/ PlanNcsd \/ PlanMisread

(* The files stay files.                                                   *)
LEMMA FilesStep ==
  ASSUME TypeOK, PadsReady, [Next]_vars
  PROVE  FilesOK'
<1> DEFINE same == UNCHANGED <<input, output, has_output, torn>>
<1>1. CASE same
  BY <1>1 DEF FilesOK, TypeOK
<1>2. CASE RemoveOutput
  <2>1. <<>> \in Seq(Byte)
    OBVIOUS
  <2>2. output' = <<>> /\ has_output' = FALSE /\ torn' = torn \ {"output"} /\ input' = input
    BY <1>2 DEF RemoveOutput
  <2> QED
    BY <2>1, <2>2 DEF FilesOK, TypeOK
<1>3. CASE CopyInput
  BY <1>3 DEF FilesOK, TypeOK, CopyInput
<1>4. CASE CopyFails
  <2>1. PICK n \in 0 .. (Len(input) - 1) : output' = SubSeq(input, 1, n)
    BY <1>4 DEF CopyFails
  <2>2. input \in Seq(Byte)
    BY DEF TypeOK
  <2>3. n \in 0 .. Len(input)
    BY <2>2
  <2>4. SubSeq(input, 1, n) \in Seq(Byte)
    BY <2>2, <2>3, PrefixProperties
  <2> QED
    BY <1>4, <2>1, <2>4 DEF FilesOK, TypeOK, CopyFails
<1>5. CASE XorSection
  <2> DEFINE s == Head(todo)
  <2>1. /\ Doing("xor") /\ Fits(s)
        /\ WriteFile(RegionAfter(File, Pad(s.arg), s, WholeCall(s.size)))
        /\ UNCHANGED <<target, has_output>> /\ torn' = torn
    BY <1>5 DEF XorSection, frame
  <2>2. WholeCall(s.size) \in 0 .. WholeCall(s.size)
    <3>1. s.size \in Nat
      BY <2>1, XorFits
    <3>2. WholeCall(s.size) \in Nat
      BY <3>1, WholeCallLemma
    <3> QED
      BY <3>2
  <2> QED
    BY <2>1, <2>2, XorKeepsFiles
<1>6. CASE XorInterrupted
  <2> DEFINE s == Head(todo)
  <2>1. /\ Doing("xor") /\ Fits(s)
        /\ UNCHANGED <<target, has_output>> /\ torn' = torn \union {target}
    BY <1>6 DEF XorInterrupted, frame
  <2>2. PICK w \in 1 .. (WholeCall(s.size) - 1) :
          WriteFile(RegionAfter(File, Pad(s.arg), s, w))
    BY <1>6 DEF XorInterrupted
  <2>3. WholeCall(s.size) \in Nat
    BY <2>1, XorFits, WholeCallLemma
  <2>4. w \in 0 .. WholeCall(s.size)
    BY <2>3
  <2> QED
    BY <2>1, <2>2, <2>4, XorKeepsFiles
<1>7. CASE Work /\ ~XorSection
  <2>1. same
    BY <1>7 DEF Work, OpenPad, RefuseNothing, BadArgument, XorOutOfBounds,
       HashMatches, HashDiffers, ReadPastEnd, ReadExefs, NoCode, FilesMatch,
       FileDiffers, Finish, frame
  <2> QED
    BY <1>1, <2>1
<1>8. CASE Step /\ ~Work /\ ~CopyInput /\ ~Planning
  <2>1. same
    BY <1>8 DEF Step, Planning, ShowHelp, ChooseInplace, ChooseOutput, Open,
       HeaderMissing, UnknownContainer, PlanDumb, DumbPadMissing
  <2> QED
    BY <1>1, <2>1
<1>11. CASE Planning
  <2>1. /\ UNCHANGED <<input, output, has_output>>
        /\ torn' \in {torn, torn \union {target}}
    BY <1>11 DEF Planning, PlanNcch, PlanNcsd, PlanMisread, Planned
  <2> QED
    BY <2>1 DEF FilesOK, TypeOK
<1>9. CASE Invoke \/ Killed \/ IoError
  <2>1. same
    BY <1>9 DEF Invoke, Killed, IoError, frame
  <2> QED
    BY <1>1, <2>1
<1>10. CASE UNCHANGED vars
  BY <1>1, <1>10 DEF vars
<1> QED
  BY <1>2, <1>3, <1>4, <1>5, <1>6, <1>7, <1>8, <1>9, <1>10, <1>11
     DEF Next, Step, Environment

(* The next steps stay steps: a plan, the rest of one, or one with the     *)
(* regions around .code before it.                                         *)
TodoOK == todo \in Seq(Steps) /\ PadsReady

(* A plan that has just been made.                                         *)
LEMMA PlanReady ==
  ASSUME NEW n \in Ncchs, NEW base \in Nat, todo' = Plan(n, base), UNCHANGED opts
  PROVE  TodoOK'
<1>1. Given' = Given
  BY DEF Given, Supplied
<1>2. Plan(n, base) \in Seq(Steps) /\ Ready(Plan(n, base), Given)
  BY PlanIsReady
<1> QED
  BY <1>1, <1>2 DEF TodoOK, PadsReady

(* The header of a partition.                                              *)
LEMMA HeaderTyped ==
  ASSUME TypeOK, NEW i \in 1 .. Len(image.parts)
  PROVE  LET p == image.parts[i]
         IN /\ p.base \in Nat /\ p.ncch \in Ncchs
            /\ p.ncch.genuine /\ ~IsCfa(p.ncch) => LaidOut(p.ncch)
<1> DEFINE p == image.parts[i] P == [base : Nat, ncch : Ncchs]
<1>1. IsImage(image)
  BY ImagesAssumption DEF TypeOK
<1>2. image.parts \in Seq(P)
  BY <1>1 DEF IsImage
<1>3. p \in P /\ i \in DOMAIN image.parts
  <2> HIDE DEF P
  <2> QED
    BY <1>2
<1>4. p.base \in Nat /\ p.ncch \in Ncchs
  BY <1>3
<1>5. p.ncch.genuine /\ ~IsCfa(p.ncch) => LaidOut(p.ncch)
  BY <1>1, <1>3 DEF IsImage
<1> QED
  BY <1>4, <1>5

(* Whatever is read as a header is one.                                    *)
LEMMA HeadersTyped ==
  ASSUME TypeOK, NEW base, NEW n \in HeadersAt(base)
  PROVE  n \in Ncchs
<1>1. ZeroNcch \in Ncchs
  <2>1. <<>> \in ExefsFiles /\ [file_off |-> 0, file_size |-> 0] \in ExefsFile
    BY DEF ExefsFiles, ExefsFile
  <2> QED
    BY <2>1 DEF ZeroNcch, Ncchs
<1>2. \A j \in DOMAIN image.parts : image.parts[j].ncch \in Ncchs
  <2> DEFINE P == [base : Nat, ncch : Ncchs]
  <2>1. image.parts \in Seq(P)
    BY ImagesAssumption DEF TypeOK, IsImage
  <2>2. DOMAIN image.parts = 1 .. Len(image.parts)
    <3> HIDE DEF P
    <3> QED
      BY <2>1
  <2> QED
    BY <2>2, HeaderTyped
<1> QED
  BY <1>1, <1>2, MisreadAssumption DEF HeadersAt

(* The first partition, which every image has.                             *)
LEMMA FirstPart ==
  ASSUME TypeOK
  PROVE  1 \in 1 .. Len(image.parts) /\ (image.kind = "NCCH" => image.parts[1].base = 0)
<1> DEFINE P == [base : Nat, ncch : Ncchs]
<1>1. IsImage(image)
  BY ImagesAssumption DEF TypeOK
<1>2. image.parts \in Seq(P) /\ image.parts # <<>>
  BY <1>1 DEF IsImage
<1> HIDE DEF P
<1>3. Len(image.parts) \in Nat \ {0}
  BY <1>2
<1> QED
  BY <1>1, <1>3 DEF IsImage

(* The steps are planned from a header, at a place in the file.            *)
LEMMA PlanningTyped ==
  ASSUME TypeOK, Planning
  PROVE  \E base \in Nat : \E n \in Ncchs : Planned(n, base)
<1>1. CASE PlanNcch
  <2>1. Planned(image.parts[1].ncch, 0) /\ image.parts[1].ncch \in Ncchs
    BY <1>1, FirstPart, HeaderTyped DEF PlanNcch
  <2>2. 0 \in Nat
    OBVIOUS
  <2> QED
    BY <2>1, <2>2
<1>2. CASE PlanNcsd
  <2>1. Planned(Entry.ncch, Entry.base) /\ partition \in 1 .. Len(image.parts)
    BY <1>2 DEF PlanNcsd, InTable
  <2>2. Entry.ncch \in Ncchs /\ Entry.base \in Nat
    BY <2>1, HeaderTyped DEF Entry
  <2> QED
    BY <2>1, <2>2
<1>3. CASE PlanMisread
  <2>1. PICK base \in Astray : \E n \in HeadersAt(base) : Planned(n, base)
    BY <1>3 DEF PlanMisread
  <2>2. base \in 0 .. (Len(File) - 1)
    BY <2>1 DEF Astray
  <2>3. base \in Nat
    BY <2>2, FileTyped
  <2> QED
    BY <2>1, <2>3, HeadersTyped
<1> QED
  BY <1>1, <1>2, <1>3 DEF Planning

(* As a step is done.                                                      *)
LEMMA DoneReady ==
  ASSUME TypeOK, PadsReady, todo # <<>>, todo' = Tail(todo), UNCHANGED opts,
         Head(todo).kind = "need" => Supplied(Head(todo).arg)
  PROVE  TodoOK'
<1> DEFINE h == Head(todo)
<1>1. todo \in Seq(Steps) /\ h \in Steps /\ Tail(todo) \in Seq(Steps)
  BY TailSteps DEF TypeOK
<1>2. h.kind = "need" => h.arg \in Given
  BY <1>1, StepFields DEF IsStep, Given
<1>3. Ready(Tail(todo), Given)
  BY <1>1, <1>2, TailReady DEF PadsReady
<1>4. Given' = Given
  BY DEF Given, Supplied
<1> QED
  BY <1>1, <1>3, <1>4 DEF TodoOK, PadsReady

(* As the header of the ExeFS has been read.                               *)
LEMMA ExefsReady ==
  ASSUME TypeOK, PadsReady, ReadExefs
  PROVE  TodoOK'
<1> DEFINE h == Head(todo) n == h.ncch pos == h.file_pos
           r == CodeRegions(n, pos) t == Tail(todo)
<1>1. /\ todo \in Seq(Steps) /\ todo # <<>> /\ h.kind = "exefs"
      /\ todo' = Join(r, t) /\ UNCHANGED opts
  BY DEF TypeOK, ReadExefs, Doing, CodeFound, Join, frame
<1>2. h \in Steps /\ t \in Seq(Steps) /\ Uses(h) \subseteq Given /\ Ready(t, Given)
  BY <1>1, TailSteps, TailReady DEF PadsReady
<1>3. n \in Ncchs /\ pos \in Nat
  BY <1>1, <1>2, StepFields DEF IsStep
<1>4. {"exefs", "exefs7x"} \subseteq Given
  BY <1>1, <1>2 DEF Uses
<1> HIDE DEF n, pos
<1>5. r \in Seq(Steps) /\ Ready(r, Given)
  BY <1>1, <1>3, <1>4, CodeRegionsLemma DEF n
<1>6. Join(r, t) \in Seq(Steps) /\ Ready(Join(r, t), Given)
  <2> HIDE DEF r, t
  <2> QED
    BY <1>2, <1>5, JoinSteps, JoinReady
<1>7. Given' = Given
  BY <1>1 DEF Given, Supplied
<1> QED
  BY <1>1, <1>6, <1>7 DEF TodoOK, PadsReady

(* A dumb run takes the one pad it has to be given.                        *)
LEMMA DumbReady ==
  ASSUME TypeOK, PlanDumb
  PROVE  TodoOK'
<1> DEFINE x == XorWith("dumb", 0, 0, Len(File)) t == << x >>
<1>1. todo' = t /\ opts' = opts /\ opts.free > 1
  BY DEF PlanDumb
<1>2. x \in Steps /\ x.kind = "xor" /\ x.arg = "dumb"
  <2>1. Len(File) \in Nat
    BY FileTyped
  <2> QED
    BY <2>1 DEF XorWith, Steps, PadArgs
<1>3. "dumb" \in Given
  BY <1>1, OptionsAssumption DEF TypeOK, IsLine, Given, Supplied, PadArgs
<1> HIDE DEF x
<1>4. t \in Seq(Steps) /\ Len(t) = 1 /\ t[1] = x
  BY <1>2
<1> HIDE DEF t
<1>5. Uses(x) \subseteq Given
  BY <1>2, <1>3 DEF Uses
<1>6. \A j \in 1 .. 1 : j = 1
  OBVIOUS
<1>7. Ready(t, Given)
  BY <1>4, <1>5, <1>6 DEF Ready
<1>8. Given' = Given
  BY <1>1 DEF Given, Supplied
<1> QED
  BY <1>1, <1>4, <1>7, <1>8 DEF TodoOK, PadsReady

(* Every step keeps what is left to do a list of steps with their pads.    *)
LEMMA TodoStep ==
  ASSUME TypeOK, PadsReady, [Next]_vars
  PROVE  TodoOK'
<1>1. CASE todo' = <<>>
  <2>1. <<>> \in Seq(Steps) /\ Len(<<>>) = 0
    OBVIOUS
  <2> QED
    BY <1>1, <2>1 DEF TodoOK, PadsReady, Ready
<1>2. CASE UNCHANGED <<todo, opts>>
  <2>1. Given' = Given
    BY <1>2 DEF Given, Supplied
  <2> QED
    BY <1>2, <2>1 DEF TodoOK, PadsReady, TypeOK
<1>3. CASE Planning
  <2>1. PICK base \in Nat, n \in Ncchs : Planned(n, base)
    BY <1>3, PlanningTyped
  <2> QED
    BY <2>1, PlanReady DEF Planned
<1>5. CASE PlanDumb
  BY <1>5, DumbReady
<1>6. CASE ReadExefs
  BY <1>6, ExefsReady
<1>7. CASE XorSection \/ OpenPad \/ RefuseNothing \/ HashMatches \/ FilesMatch
  <2>1. /\ todo # <<>> /\ todo' = Tail(todo) /\ UNCHANGED opts
        /\ Head(todo).kind = "need" => Supplied(Head(todo).arg)
    BY <1>7 DEF XorSection, OpenPad, RefuseNothing, HashMatches, FilesMatch,
       StepDone, Doing, frame
  <2> QED
    BY <2>1, DoneReady
<1>8. CASE BadArgument \/ XorOutOfBounds \/ HashDiffers \/ ReadPastEnd \/ NoCode
             \/ FileDiffers \/ Finish
  <2>1. todo' = <<>>
    BY <1>8 DEF BadArgument, XorOutOfBounds, HashDiffers, ReadPastEnd, NoCode,
       FileDiffers, Finish, Exit
  <2> QED
    BY <1>1, <2>1
<1>9. CASE ShowHelp \/ HeaderMissing \/ UnknownContainer \/ DumbPadMissing
             \/ CopyFails \/ XorInterrupted \/ Killed \/ IoError
  <2>1. todo' = <<>>
    BY <1>9 DEF ShowHelp, HeaderMissing, UnknownContainer, DumbPadMissing,
       CopyFails, XorInterrupted, Killed, IoError, Exit
  <2> QED
    BY <1>1, <2>1
<1>10. CASE ChooseInplace \/ ChooseOutput \/ CopyInput \/ Open \/ RemoveOutput
              \/ UNCHANGED vars
  <2>1. UNCHANGED <<todo, opts>>
    BY <1>10 DEF ChooseInplace, ChooseOutput, CopyInput, Open, RemoveOutput, vars
  <2> QED
    BY <1>2, <2>1
<1>11. CASE Invoke
  <2>1. todo' = <<>>
    BY <1>11 DEF Invoke, TypeOK
  <2> QED
    BY <1>1, <2>1
<1> QED
  BY <1>3, <1>5, <1>6, <1>7, <1>8, <1>9, <1>10, <1>11
     DEF Next, Step, Environment, Work, Planning

(* The control state keeps its type.                                       *)
LEMMA ControlStep ==
  ASSUME TypeOK, PadsReady, [Next]_vars
  PROVE  ControlOK'
<1>1. todo' \in Seq(Steps)
  BY TodoStep DEF TodoOK
<1>2. File \in Seq(Byte)
  BY FileTyped
<1> USE DEF ControlOK, TypeOK, Statuses
<1>3. CASE UNCHANGED vars
  BY <1>3 DEF vars
<1>4. CASE Invoke
  BY <1>1, <1>4, MaxRunsAssumption DEF Invoke
<1>5. CASE RemoveOutput
  BY <1>5 DEF RemoveOutput
<1>6. CASE CopyFails \/ XorInterrupted \/ Killed
  BY <1>1, <1>6 DEF CopyFails, XorInterrupted, Killed, Exit, Doing, frame
<1>7. CASE IoError
  BY <1>1, <1>7 DEF IoError, Exit, frame
<1>8. CASE ShowHelp \/ HeaderMissing \/ UnknownContainer \/ DumbPadMissing
  BY <1>1, <1>8 DEF ShowHelp, HeaderMissing, UnknownContainer, DumbPadMissing, Exit
<1>9. CASE ChooseInplace \/ ChooseOutput \/ CopyInput
  BY <1>9 DEF ChooseInplace, ChooseOutput, CopyInput, Goto
<1>10. CASE Open
  BY <1>2, <1>10 DEF Open, Goto
<1>11. CASE PlanNcch \/ PlanNcsd \/ PlanMisread \/ PlanDumb
  BY <1>1, <1>11 DEF PlanNcch, PlanNcsd, PlanMisread, PlanDumb, Planned, Goto
<1>12. CASE XorSection \/ OpenPad \/ RefuseNothing \/ HashMatches \/ FilesMatch
              \/ ReadExefs
  BY <1>1, <1>12 DEF XorSection, OpenPad, RefuseNothing, HashMatches, FilesMatch,
     ReadExefs, StepDone, Doing, frame
<1>13. CASE BadArgument \/ XorOutOfBounds \/ HashDiffers \/ ReadPastEnd
              \/ NoCode \/ Finish
  BY <1>1, <1>13 DEF BadArgument, XorOutOfBounds, HashDiffers, ReadPastEnd, NoCode,
     Finish, Exit, Doing, frame
<1>14. CASE FileDiffers
  <2>1. pc = "work" /\ UNCHANGED frame /\ \E s \in {"hash", "xor"} : Exit(s)
    BY <1>14 DEF FileDiffers, Doing
  <2> QED
    BY <1>1, <2>1 DEF Exit, frame
<1> QED
  BY <1>3, <1>4, <1>5, <1>6, <1>7, <1>8, <1>9, <1>10, <1>11, <1>12, <1>13, <1>14
     DEF Next, Step, Environment, Work

(* The first state and every step keep the type and the pads.              *)
LEMMA InitTyped == Init => TypeOK /\ PadsReady
<1> SUFFICES ASSUME Init
             PROVE  TypeOK /\ PadsReady
  OBVIOUS
<1>1. <<>> \in Seq(Steps) /\ <<>> \in Seq(Byte) /\ Len(<<>>) = 0
  OBVIOUS
<1>2. image \in Images /\ image.cipher \in Seq(Byte)
  BY ImagesAssumption DEF Init, IsImage
<1>3. opts \in Options
  BY OptionsAssumption DEF Init
<1>4. /\ input = image.cipher /\ output = <<>> /\ has_output = FALSE
      /\ target = "input" /\ pc = "idle" /\ todo = <<>> /\ status = "fresh"
      /\ runs = 0 /\ before = image.cipher /\ torn = {}
  BY DEF Init
<1>5. 0 \in 0 .. MaxRuns
  BY MaxRunsAssumption
<1>6. TypeOK
  BY <1>1, <1>2, <1>3, <1>4, <1>5 DEF TypeOK, Statuses
<1>7. PadsReady
  BY <1>1, <1>4 DEF PadsReady, Ready
<1> QED
  BY <1>6, <1>7

(* Every step keeps TypeOK and PadsReady.                                  *)
LEMMA TypedStep ==
  ASSUME TypeOK, PadsReady, [Next]_vars
  PROVE  TypeOK' /\ PadsReady'
BY TypeParts, FilesStep, ControlStep, TodoStep
   DEF TodoOK, TypeOK, FilesOK, ControlOK

(* The type invariant, for every image, command line and chunk size: what  *)
(* is left to do is always a list of proper steps, none of which takes a   *)
(* pad that was not asked for (main.rs:39-88), and every write leaves a    *)
(* file.                                                                   *)
THEOREM TypeCorrect == Spec => []TypeOK
<1>1. TypeOK /\ PadsReady /\ [Next]_vars => TypeOK' /\ PadsReady'
  BY TypedStep
<1> QED
  BY <1>1, InitTyped, PTL DEF Spec

-----------------------------------------------------------------------------
(* Dumb mode.                                                              *)
DumbDone ==
  /\ Len(File) = WholeCall(Len(before))
  /\ \A i \in DOMAIN before : File[i] = Xor(before[i], Pad("dumb")[i])

(* The one step of a dumb run is still to be done, or it has been done.    *)
DumbInv ==
  /\ pc = "magic" => ~opts.dumb /\ File = before
  /\ pc = "dumb" => opts.dumb /\ File = before
  /\ pc = "work" /\ opts.dumb =>
       \/ todo = << XorWith("dumb", 0, 0, Len(before)) >> /\ File = before
       \/ todo = <<>> /\ DumbDone
  /\ DumbXorsWholeFile

(* The step: XOR with the whole pad.                                       *)
LEMMA DumbXor ==
  ASSUME TypeOK, PadsReady, XorSection,
         todo = << XorWith("dumb", 0, 0, Len(before)) >>, File = before
  PROVE  todo' = <<>> /\ DumbDone'
<1> DEFINE s == Head(todo) w == WholeCall(s.size) pad == Pad("dumb")
           g == RegionAfter(File, Pad(s.arg), s, w)
<1>1. /\ Doing("xor") /\ Fits(s) /\ WriteFile(g) /\ todo' = Tail(todo)
      /\ UNCHANGED <<image, opts, target, before>>
  BY DEF XorSection, StepDone, frame
<1>2. s = XorWith("dumb", 0, 0, Len(before))
  OBVIOUS
<1>3. s.arg = "dumb" /\ s.file_pos = 0 /\ s.pad_pos = 0 /\ s.size = Len(before)
  BY <1>2 DEF XorWith
<1>4. before \in Seq(Byte)
  BY DEF TypeOK
<1>5. w \in 0 .. w /\ Len(before) <= w
  BY <1>3, <1>4, WholeCallLemma, SMTT(30)
<1>6. /\ Beyond(before, g, 0) /\ Len(g) = MaxOf(Len(before), 0 + w)
      /\ \A i \in 1 .. Len(before) : g[0 + i] = Xor(before[0 + i], pad[0 + i])
  BY <1>1, <1>3, <1>5, SectionWritten, SMTT(30)
<1>7. File' = g /\ Pad("dumb")' = pad /\ before' = before
  BY <1>1, FileWritten DEF Pad
<1>8. todo' = <<>> /\ w = WholeCall(Len(before))
  BY <1>1, <1>3
<1> HIDE DEF g, pad, w
<1>9. ASSUME NEW i \in 1 .. Len(before)
      PROVE  g[i] = Xor(before[i], pad[i])
  <2>1. 0 + i = i
    OBVIOUS
  <2> QED
    BY <1>6, <2>1
<1>10. DOMAIN before = 1 .. Len(before) /\ Len(g) = w
  BY <1>4, <1>5, <1>6 DEF MaxOf
<1> QED
  BY <1>7, <1>8, <1>9, <1>10 DEF DumbDone

(* The steps after which there is nothing to say of a dumb run, nor of one *)
(* that decrypts: they end an invocation without success, or come before   *)
(* it has read the file.                                                   *)
Quiet == pc \in {"args", "copy", "open"} \/ (pc = "idle" /\ status # "ok")

QuietStep == \/ Invoke \/ RemoveOutput \/ CopyFails \/ XorInterrupted \/ Killed
             \/ IoError \/ ShowHelp \/ ChooseInplace \/ ChooseOutput \/ CopyInput
             \/ HeaderMissing \/ UnknownContainer \/ DumbPadMissing
             \/ BadArgument \/ XorOutOfBounds \/ HashDiffers \/ ReadPastEnd
             \/ NoCode \/ FileDiffers

(* None of them needs anything but what it sets.                           *)
LEMMA QuietSteps ==
  ASSUME TypeOK, QuietStep
  PROVE  Quiet'
<1>1. CASE Invoke \/ RemoveOutput \/ ChooseInplace \/ ChooseOutput \/ CopyInput
  BY <1>1 DEF Invoke, RemoveOutput, ChooseInplace, ChooseOutput, CopyInput, Goto,
     Quiet
<1>2. CASE CopyFails \/ XorInterrupted \/ Killed \/ IoError \/ ShowHelp
             \/ HeaderMissing \/ UnknownContainer \/ DumbPadMissing
  BY <1>2 DEF CopyFails, XorInterrupted, Killed, IoError, ShowHelp, HeaderMissing,
     UnknownContainer, DumbPadMissing, Exit, Quiet
<1>3. CASE BadArgument \/ XorOutOfBounds \/ HashDiffers \/ ReadPastEnd \/ NoCode
             \/ FileDiffers
  BY <1>3 DEF BadArgument, XorOutOfBounds, HashDiffers, ReadPastEnd, NoCode,
     FileDiffers, Exit, Quiet
<1> QED
  BY <1>1, <1>2, <1>3 DEF QuietStep

(* The steps that are left.                                                *)
LEMMA OtherSteps ==
  ASSUME Next
  PROVE  \/ QuietStep \/ Open \/ Planning \/ PlanDumb
         \/ OpenPad \/ RefuseNothing \/ HashMatches \/ FilesMatch
         \/ XorSection \/ ReadExefs \/ Finish
BY DEF Next, Step, Environment, Work, QuietStep, Planning

(* Every step keeps DumbInv.                                               *)
LEMMA DumbStep ==
  ASSUME TypeOK, PadsReady, DumbInv, [Next]_vars
  PROVE  DumbInv'
<1>1. CASE UNCHANGED vars
  <2>1. File' = File /\ Pad("dumb")' = Pad("dumb")
    BY <1>1 DEF vars, File, Pad
  <2>2. DumbDone' <=> DumbDone
    BY <1>1, <2>1 DEF vars, DumbDone
  <2>3. DumbXorsWholeFile' <=> DumbXorsWholeFile
    BY <1>1, <2>1 DEF vars, DumbXorsWholeFile
  <2> QED
    BY <1>1, <2>1, <2>2, <2>3 DEF vars, DumbInv
<1>2. CASE QuietStep
  BY <1>2, QuietSteps DEF Quiet, DumbInv, DumbXorsWholeFile
<1>3. CASE Open
  <2>1. File' = File
    BY <1>3 DEF Open, File
  <2> QED
    BY <1>3, <2>1 DEF Open, Goto, DumbInv, DumbXorsWholeFile
<1>4. CASE Planning
  <2>1. ~opts'.dumb /\ pc' = "work"
    BY <1>4 DEF Planning, PlanNcch, PlanNcsd, PlanMisread, Planned, Goto, DumbInv
  <2> QED
    BY <2>1 DEF DumbInv, DumbXorsWholeFile
<1>5. CASE PlanDumb
  <2>1. /\ File' = File /\ before' = before /\ pc' = "work" /\ File = before
        /\ todo' = << XorWith("dumb", 0, 0, Len(File)) >>
    BY <1>5 DEF PlanDumb, Goto, File, DumbInv
  <2>2. todo' = << XorWith("dumb", 0, 0, Len(before')) >> /\ File' = before'
    BY <2>1
  <2> QED
    BY <2>1, <2>2 DEF DumbInv, DumbXorsWholeFile
<1>6. CASE OpenPad \/ RefuseNothing \/ HashMatches \/ FilesMatch \/ ReadExefs
  <2>1. /\ pc = "work" /\ pc' = "work" /\ opts' = opts /\ todo # <<>>
        /\ Head(todo).kind # "xor"
    BY <1>6 DEF OpenPad, RefuseNothing, HashMatches, FilesMatch, ReadExefs,
       StepDone, Doing, frame
  <2>2. ~opts.dumb
    <3>1. << XorWith("dumb", 0, 0, Len(before)) >> # todo
      BY <2>1 DEF XorWith
    <3> QED
      BY <2>1, <3>1 DEF DumbInv
  <2> QED
    BY <2>1, <2>2 DEF DumbInv, DumbXorsWholeFile
<1>7. CASE XorSection
  <2>1. pc = "work" /\ pc' = "work" /\ opts' = opts /\ todo # <<>>
    BY <1>7 DEF XorSection, StepDone, Doing, frame
  <2>2. CASE opts.dumb
    <3>1. todo' = <<>> /\ DumbDone'
      BY <1>7, <2>1, <2>2, DumbXor DEF DumbInv
    <3> QED
      BY <2>1, <3>1 DEF DumbInv, DumbXorsWholeFile
  <2>3. CASE ~opts.dumb
    BY <2>1, <2>3 DEF DumbInv, DumbXorsWholeFile
  <2> QED
    BY <2>2, <2>3
<1>8. CASE Finish
  <2>1. /\ pc = "work" /\ pc' = "idle" /\ todo = <<>>
        /\ UNCHANGED <<image, opts, target, before, input, output>>
    BY <1>8 DEF Finish, Exit, frame
  <2>2. opts.dumb => DumbDone
    <3>1. << XorWith("dumb", 0, 0, Len(before)) >> # todo
      BY <2>1
    <3> QED
      BY <2>1, <3>1 DEF DumbInv
  <2>3. File' = File /\ Pad("dumb")' = Pad("dumb")
    BY <2>1 DEF File, Pad
  <2>4. opts'.dumb => DumbDone'
    BY <2>1, <2>2, <2>3 DEF DumbDone
  <2> QED
    BY <2>1, <2>4 DEF DumbInv, DumbXorsWholeFile, DumbDone
<1> QED
  BY <1>1, <1>2, <1>3, <1>4, <1>5, <1>6, <1>7, <1>8, OtherSteps

(* A dumb run that says it succeeded has XORed every byte the file had     *)
(* with the pad's at its place, and left the file as long as a whole       *)
(* number of chunks (main.rs:141-148, xor.rs:51-67).                       *)
THEOREM DumbRunIsXor == Spec => []DumbXorsWholeFile
<1>1. Init => TypeOK /\ PadsReady
  BY InitTyped
<1>2. Init => DumbInv
  BY DEF Init, DumbInv, DumbXorsWholeFile
<1>3. TypeOK /\ PadsReady /\ [Next]_vars => TypeOK' /\ PadsReady'
  BY TypedStep
<1>4. TypeOK /\ PadsReady /\ DumbInv /\ [Next]_vars => DumbInv'
  BY DumbStep
<1>5. DumbInv => DumbXorsWholeFile
  BY DEF DumbInv
<1> QED
  BY <1>1, <1>2, <1>3, <1>4, <1>5, PTL DEF Spec

-----------------------------------------------------------------------------
(* What is verified stays verified.                                        *)

(* An area of the file is as in the decrypted image.                       *)
Plain(a) == Within(a.pos, a.size) /\ IsPlain(File, a.pos, a.size)

(* It will be verified by a step that is still to come, or it is plain;    *)
(* and no later step writes to it.                                         *)
Secured(a) ==
  /\ a.pos \in Nat /\ a.size \in Nat
  /\ Handles(todo, a) \/ (Plain(a) /\ Untouched(todo, a))

(* Unless it is sure to fail, a run that decrypts by the image's header    *)
(* has secured all that the hashes cover.                                  *)
VerifiedInv ==
  /\ pc = "work" /\ ~opts.dumb /\ Legible
       => Doomed(todo) \/ \A a \in Hashed(Part) : Secured(a)
  /\ OkMeansVerified

(* The bytes of an area.                                                   *)
Stretch(f, pos, size) == SubSeq(f, pos + 1, pos + size)

(* Bytes that lie before the place that is written from.                   *)
LEMMA BeyondPart ==
  ASSUME NEW f \in Seq(Byte), NEW g, NEW p \in Int, Beyond(f, g, p),
         NEW pos \in Nat, NEW size \in Nat, pos + size <= Len(f), pos + size <= p
  PROVE  Stretch(g, pos, size) = Stretch(f, pos, size)
<1> DEFINE u == SubSeq(g, pos + 1, pos + size) v == SubSeq(f, pos + 1, pos + size)
<1>1. g \in Seq(Byte) /\ Len(f) <= Len(g) /\ Len(f) \in Nat /\ Len(g) \in Nat
  BY DEF Beyond
<1>2. /\ u \in Seq(Byte) /\ Len(u) = size /\ \A i \in 1 .. size : u[i] = g[pos + i]
      /\ v \in Seq(Byte) /\ Len(v) = size /\ \A i \in 1 .. size : v[i] = f[pos + i]
  BY <1>1, PartProperties
<1> HIDE DEF u, v
<1>3. ASSUME NEW i \in 1 .. size
      PROVE  u[i] = v[i]
  <2> DEFINE k == pos + i
  <2>1. k \in 1 .. Len(f) /\ k <= p
    BY <1>1
  <2> HIDE DEF k
  <2>2. g[k] = f[k]
    BY <2>1 DEF Beyond
  <2> QED
    BY <1>2, <2>2 DEF k
<1>4. u = v
  BY <1>2, <1>3, SeqEqual
<1> QED
  BY <1>4 DEF u, v, Stretch

(* An area that a call of xor_file does not touch stays plain.             *)
LEMMA PlainStays ==
  ASSUME TypeOK, PadsReady, XorSection, NEW a, a.pos \in Nat, a.size \in Nat,
         Plain(a), ~Touches(Head(todo), a)
  PROVE  Plain(a)'
<1> DEFINE s == Head(todo) w == WholeCall(s.size)
           g == RegionAfter(File, Pad(s.arg), s, w)
<1>1. /\ Doing("xor") /\ Fits(s) /\ WriteFile(g) /\ s.kind = "xor"
      /\ UNCHANGED <<image, target>>
  BY DEF XorSection, Doing, frame
<1>2. s.size \in Nat /\ s.file_pos \in Nat
  BY <1>1, XorFits
<1>3. w \in 0 .. w
  BY <1>2, WholeCallLemma
<1>4. Beyond(File, g, s.file_pos)
  BY <1>1, <1>3, SectionWritten
<1>5. File' = g /\ image' = image
  BY <1>1, FileWritten
<1> HIDE DEF g
<1>6. a.pos + a.size <= s.file_pos
  BY <1>1, <1>2 DEF Touches
<1>7. a.pos + a.size <= Len(File) /\ IsPlain(File, a.pos, a.size)
  BY DEF Plain, Within
<1> DEFINE f == File pos == a.pos size == a.size at == s.file_pos
<1>8. f \in Seq(Byte)
  BY FileTyped
<1>9. /\ pos \in Nat /\ size \in Nat /\ at \in Int /\ Beyond(f, g, at)
      /\ pos + size <= Len(f) /\ pos + size <= at
  BY <1>2, <1>4, <1>6, <1>7
<1>10. pos + size <= Len(g)
  <2> HIDE DEF f, pos, size, at
  <2> QED
    BY <1>8, <1>9 DEF Beyond
<1>11. Stretch(g, pos, size) = Stretch(f, pos, size)
  <2> HIDE DEF f, pos, size, at
  <2> QED
    BY <1>8, <1>9, BeyondPart
<1>12. IsPlain(g, a.pos, a.size)
  BY <1>7, <1>11 DEF IsPlain, Stretch
<1>13. IsPlain(File, a.pos, a.size)'
  BY <1>5, <1>12 DEF IsPlain
<1> QED
  BY <1>5, <1>10, <1>13 DEF Plain, Within

(* A step that is done verifies what it hashes, and takes nothing away.    *)
LEMMA DoneSecured ==
  ASSUME TypeOK, todo # <<>>, todo' = Tail(todo), NEW a, Secured(a),
         Verifies(Head(todo), a) => Plain(a),
         Plain(a) /\ ~Touches(Head(todo), a) => Plain(a)'
  PROVE  Secured(a)'
<1>1. todo \in Seq(Steps)
  BY DEF TypeOK
<1>2. CASE Handles(Tail(todo), a)
  BY <1>2 DEF Secured
<1>3. CASE Verifies(Head(todo), a) /\ Untouched(Tail(todo), a)
  <2>1. ~Touches(Head(todo), a)
    BY <1>3 DEF Verifies, Touches
  <2> QED
    BY <1>3, <2>1 DEF Secured
<1>4. CASE Plain(a) /\ Untouched(todo, a)
  BY <1>1, <1>4, TailUntouched DEF Secured
<1> QED
  BY <1>1, <1>2, <1>3, <1>4, TailUntouched DEF Secured

(* A file that has the image's headers is worked on by the one of the      *)
(* partition that the command line is about.                               *)
LEMMA LegiblePlan ==
  ASSUME TypeOK, Planning, File = before, Legible
  PROVE  /\ Planned(Part.ncch, Part.base) /\ Part.base \in Nat /\ Part.ncch \in Ncchs
         /\ Part.ncch.genuine /\ ~IsCfa(Part.ncch) => LaidOut(Part.ncch)
         /\ image.kind = "NCSD" => InTable
<1>1. Keeps(File, 0) /\ Keeps(File, Part.base)
  BY DEF Legible
<1>2. CASE PlanNcch
  <2>1. image.kind = "NCCH" /\ Planned(image.parts[1].ncch, 0)
    BY <1>2 DEF PlanNcch
  <2>2. Part = image.parts[1] /\ image.parts[1].base = 0
    BY <2>1, FirstPart DEF Part
  <2> QED
    BY <2>1, <2>2, FirstPart, HeaderTyped
<1>3. CASE PlanNcsd
  <2>1. /\ image.kind = "NCSD" /\ partition \in 1 .. Len(image.parts)
        /\ Planned(Entry.ncch, Entry.base)
    BY <1>3 DEF PlanNcsd, InTable
  <2>2. Part = Entry
    BY <2>1 DEF Part, Entry, partition
  <2> QED
    BY <2>1, <2>2, HeaderTyped DEF Entry, InTable
<1>4. CASE PlanMisread
  <2>1. PICK base \in Astray : TRUE
    BY <1>4 DEF PlanMisread
  <2>2. image.kind = "NCSD" /\ base = Entry.base /\ ~Keeps(File, base)
    BY <1>1, <2>1 DEF Astray, Altered
  <2>3. Part = Entry
    BY <2>2 DEF Part, Entry, partition
  <2> QED
    BY <1>1, <2>2, <2>3
<1> QED
  BY <1>2, <1>3, <1>4 DEF Planning

(* The plan of a partition secures what its hashes cover, or is sure to    *)
(* fail.                                                                   *)
LEMMA PlanSecures ==
  ASSUME NEW p, p.base \in Nat, p.ncch \in Ncchs,
         p.ncch.genuine /\ ~IsCfa(p.ncch) => LaidOut(p.ncch)
  PROVE  LET t == Plan(p.ncch, p.base)
         IN Doomed(t) \/ \A a \in Hashed(p) : /\ a.pos \in Nat /\ a.size \in Nat
                                              /\ Handles(t, a)
<1>1. CASE p.ncch.genuine
  BY <1>1, PlanVerifies
<1>2. CASE ~p.ncch.genuine /\ ~(IsCfa(p.ncch) /\ p.ncch.noromfs)
  BY <1>2, PlanIsDoomed
<1>3. CASE IsCfa(p.ncch) /\ p.ncch.noromfs
  <2>1. Hashed(p) = {}
    BY <1>3 DEF Hashed
  <2> QED
    BY <2>1
<1> QED
  BY <1>1, <1>2, <1>3

(* The plan is that of the partition the command line is about.            *)
LEMMA PlanVerified ==
  ASSUME TypeOK, Planning, File = before, Legible
  PROVE  Doomed(todo') \/ \A a \in Hashed(Part') : Secured(a)'
<1>1. /\ Planned(Part.ncch, Part.base) /\ Part.base \in Nat /\ Part.ncch \in Ncchs
      /\ Part.ncch.genuine /\ ~IsCfa(Part.ncch) => LaidOut(Part.ncch)
  BY LegiblePlan
<1>2. UNCHANGED <<image, opts>> /\ todo' = Plan(Part.ncch, Part.base)
  BY <1>1 DEF Planned
<1>3. Part' = Part
  BY <1>2 DEF Part, Entry, partition
<1>4. Doomed(todo') \/ \A a \in Hashed(Part) : /\ a.pos \in Nat /\ a.size \in Nat
                                               /\ Handles(todo', a)
  BY <1>1, <1>2, PlanSecures
<1> QED
  BY <1>3, <1>4 DEF Secured

(* Reading the ExeFS header plans no write to an area that was secured.    *)
LEMMA ExefsSecured ==
  ASSUME TypeOK, PadsReady, ReadExefs, NEW a, Secured(a)
  PROVE  Secured(a)'
<1> DEFINE h == Head(todo) n == h.ncch pos == h.file_pos
           r == CodeRegions(n, pos) t == Tail(todo)
<1>1. /\ todo \in Seq(Steps) /\ todo # <<>> /\ h.kind = "exefs"
      /\ todo' = Join(r, t) /\ UNCHANGED <<image, target, input, output>>
  BY DEF TypeOK, ReadExefs, Doing, CodeFound, Join, frame
<1>2. h \in Steps /\ t \in Seq(Steps) /\ Uses(h) \subseteq Given
  BY <1>1, TailSteps, TailReady DEF PadsReady
<1>3. n \in Ncchs /\ pos \in Nat
  BY <1>1, <1>2, StepFields DEF IsStep
<1>4. {"exefs", "exefs7x"} \subseteq Given
  BY <1>1, <1>2 DEF Uses
<1>5. a.pos \in Nat /\ a.size \in Nat
  BY DEF Secured
<1>6. Plain(a)' <=> Plain(a)
  BY <1>1 DEF Plain, Within, IsPlain, File
<1>7. ~Verifies(h, a)
  BY <1>1 DEF Verifies
<1>8. ~Touches(h, a) => a.pos + a.size \in Int /\ a.pos + a.size <= pos
  BY <1>1, <1>3, <1>5 DEF Touches
<1> HIDE DEF n, pos
<1>9. r \in Seq(Steps) /\ (~Touches(h, a) => Untouched(r, a))
  BY <1>1, <1>3, <1>4, <1>8, CodeRegionsLemma DEF n
<1> HIDE DEF r
<1>10. CASE Handles(todo, a)
  <2>1. Handles(t, a)
    BY <1>1, <1>7, <1>10, TailUntouched
  <2>2. Handles(Join(r, t), a)
    BY <1>2, <1>9, <2>1, JoinUntouched
  <2> QED
    BY <1>1, <1>5, <2>2 DEF Secured
<1>11. CASE Plain(a) /\ Untouched(todo, a)
  <2>1. ~Touches(h, a) /\ Untouched(t, a)
    BY <1>1, <1>11, TailUntouched
  <2>2. Untouched(Join(r, t), a)
    BY <1>2, <1>9, <2>1, JoinUntouched
  <2> QED
    BY <1>1, <1>5, <1>6, <1>11, <2>2 DEF Secured
<1> QED
  BY <1>10, <1>11 DEF Secured

(* The regions around .code are steps.                                     *)
LEMMA ExefsRegions ==
  ASSUME TypeOK, PadsReady, ReadExefs
  PROVE  CodeRegions(Head(todo).ncch, Head(todo).file_pos) \in Seq(Steps)
<1> DEFINE h == Head(todo) n == h.ncch pos == h.file_pos
<1>1. /\ todo \in Seq(Steps) /\ todo # <<>> /\ h.kind = "exefs"
  BY DEF TypeOK, ReadExefs, Doing, CodeFound
<1>2. h \in Steps
  BY <1>1, TailSteps
<1>3. n \in Ncchs /\ pos \in Nat
  BY <1>1, <1>2, StepFields DEF IsStep
<1> HIDE DEF pos
<1> QED
  BY <1>1, <1>3, CodeRegionsLemma DEF pos

(* Every hash that was planned has been matched once nothing is left.      *)
LEMMA NothingLeft ==
  ASSUME todo = <<>>
  PROVE  ~Doomed(todo) /\ \A a : Secured(a) => Plain(a)
<1>1. Len(todo) = 0
  OBVIOUS
<1> QED
  BY <1>1 DEF Doomed, Secured, Handles

(* What a step that verifies succeeds on is plain.                         *)
LEMMA HashedPlain ==
  ASSUME TypeOK, HashMatches \/ FilesMatch, NEW a, Verifies(Head(todo), a)
  PROVE  Plain(a)
<1> DEFINE s == Head(todo)
<1>1. todo \in Seq(Steps) /\ todo # <<>> /\ s.kind \in {"hash", "files"}
  BY DEF TypeOK, HashMatches, FilesMatch, Doing
<1>2. CASE HashMatches
  <2>1. /\ s.kind = "hash"
        /\ Within(s.file_pos, s.size) /\ IsPlain(File, s.file_pos, s.size)
    BY <1>2 DEF HashMatches, Doing
  <2>2. s.file_pos = a.pos /\ s.size = a.size
    BY <2>1 DEF Verifies
  <2> QED
    BY <2>1, <2>2 DEF Plain
<1>3. CASE FilesMatch
  <2>1. s.kind = "files" /\ \A i \in DOMAIN s.files : FileIntact(s, i)
    BY <1>3 DEF FilesMatch, Doing
  <2>2. PICK i \in 1 .. Len(s.files) :
          /\ a.pos = s.file_pos + HEADER_SIZE + s.files[i].file_off
          /\ a.size = s.files[i].file_size
    BY <2>1 DEF Verifies
  <2>3. s.files \in ExefsFiles
    BY <1>1, <2>1, TailSteps, StepFields DEF IsStep
  <2>4. DOMAIN s.files = 1 .. Len(s.files)
    BY <2>3 DEF ExefsFiles
  <2>5. FileIntact(s, i)
    BY <2>1, <2>2, <2>4
  <2> QED
    BY <2>2, <2>5 DEF FileIntact, FilePos, Plain
<1> QED
  BY <1>2, <1>3

(* Every step keeps VerifiedInv.                                           *)
LEMMA VerifiedStep ==
  ASSUME TypeOK, PadsReady, DumbInv, VerifiedInv, [Next]_vars
  PROVE  VerifiedInv'
<1> USE DEF Decrypting, Succeeded
<1>1. ASSUME UNCHANGED <<image, opts>>
      PROVE  Part' = Part /\ Hashed(Part)' = Hashed(Part)
  BY <1>1 DEF Part, Entry, partition, Hashed
<1>11. ASSUME UNCHANGED <<image, opts, before>>
       PROVE  Legible' <=> Legible
  BY <1>1, <1>11 DEF Legible, Keeps
<1>2. ASSUME pc = "work", pc' = "work", UNCHANGED <<image, opts, before>>,
             ~opts.dumb /\ Doomed(todo) => Doomed(todo'),
             ~opts.dumb => \A a : Secured(a) => Secured(a)'
      PROVE  VerifiedInv'
  BY <1>1, <1>2, <1>11 DEF VerifiedInv, OkMeansVerified
<1>3. CASE UNCHANGED vars
  <2>1. UNCHANGED <<image, opts, pc, status, todo, input, output, target, before>>
    BY <1>3 DEF vars
  <2>2. \A a : /\ Secured(a) => Secured(a)'
               /\ IsPlain(File, a.pos, a.size)' <=> IsPlain(File, a.pos, a.size)
    BY <2>1 DEF Secured, Plain, Within, IsPlain, File
  <2> QED
    BY <1>1, <1>11, <2>1, <2>2 DEF VerifiedInv, OkMeansVerified
<1>4. CASE QuietStep
  BY <1>4, QuietSteps DEF Quiet, VerifiedInv, OkMeansVerified
<1>5. CASE Open
  BY <1>5 DEF Open, Goto, VerifiedInv, OkMeansVerified
<1>6. CASE Planning
  <2>1. /\ pc = "magic" /\ pc' = "work" /\ File = before
        /\ UNCHANGED <<image, opts, before>>
    BY <1>6 DEF Planning, PlanNcch, PlanNcsd, PlanMisread, Planned, Goto, DumbInv
  <2>2. Legible => Doomed(todo') \/ \A a \in Hashed(Part') : Secured(a)'
    BY <1>6, <2>1, PlanVerified
  <2> QED
    BY <1>11, <2>1, <2>2 DEF VerifiedInv, OkMeansVerified
<1>7. CASE PlanDumb
  <2>1. pc' = "work" /\ opts'.dumb
    BY <1>7 DEF PlanDumb, Goto, DumbInv
  <2> QED
    BY <2>1 DEF VerifiedInv, OkMeansVerified
<1>8. CASE OpenPad \/ RefuseNothing \/ HashMatches \/ FilesMatch \/ XorSection
  <2>1. /\ pc = "work" /\ pc' = "work" /\ UNCHANGED <<image, opts, target, before>>
        /\ todo # <<>> /\ todo' = Tail(todo)
    BY <1>8 DEF OpenPad, RefuseNothing, HashMatches, FilesMatch, XorSection,
       Doing, StepDone, frame
  <2>2. ~Hopeless(Head(todo))
    BY <1>8 DEF OpenPad, RefuseNothing, HashMatches, FilesMatch, XorSection,
       Doing, Hopeless
  <2>3. Doomed(todo) => Doomed(todo')
    BY <2>1, <2>2, TailUntouched DEF TypeOK
  <2>4. ASSUME NEW a, Verifies(Head(todo), a)
        PROVE  Plain(a)
    <3>1. Head(todo).kind \in {"hash", "files"}
      BY <2>4 DEF Verifies
    <3>2. HashMatches \/ FilesMatch
      BY <1>8, <3>1 DEF OpenPad, RefuseNothing, XorSection, Doing
    <3> QED
      BY <2>4, <3>2, HashedPlain
  <2>5. ASSUME NEW a, Secured(a), Plain(a), ~Touches(Head(todo), a)
        PROVE  Plain(a)'
    <3>1. CASE XorSection
      BY <2>5, <3>1, PlainStays DEF Secured
    <3>2. CASE ~XorSection
      <4>1. UNCHANGED <<image, target, input, output>>
        BY <1>8, <3>2 DEF OpenPad, RefuseNothing, HashMatches, FilesMatch, frame
      <4> QED
        BY <2>5, <4>1 DEF Plain, Within, IsPlain, File
    <3> QED
      BY <3>1, <3>2
  <2>6. ASSUME NEW a, Secured(a)
        PROVE  Secured(a)'
    BY <2>1, <2>4, <2>5, <2>6, DoneSecured
  <2> QED
    BY <1>2, <2>1, <2>3, <2>6
<1>9. CASE ReadExefs
  <2> DEFINE r == CodeRegions(Head(todo).ncch, Head(todo).file_pos) t == Tail(todo)
  <2>1. /\ pc = "work" /\ pc' = "work" /\ UNCHANGED <<image, opts, before>>
        /\ todo # <<>> /\ todo \in Seq(Steps) /\ Head(todo).kind = "exefs"
        /\ todo' = Join(r, t)
    BY <1>9 DEF ReadExefs, Doing, frame, Join, TypeOK
  <2>2. r \in Seq(Steps) /\ t \in Seq(Steps)
    BY <1>9, <2>1, ExefsRegions, TailSteps
  <2>3. Doomed(todo) => Doomed(t)
    BY <2>1, TailUntouched DEF Hopeless
  <2> HIDE DEF r, t
  <2>4. Doomed(todo) => Doomed(todo')
    BY <2>1, <2>2, <2>3, JoinUntouched
  <2> QED
    BY <1>2, <1>9, <2>1, <2>4, ExefsSecured
<1>10. CASE Finish
  <2>1. /\ pc = "work" /\ todo = <<>> /\ pc' = "idle"
        /\ UNCHANGED <<image, opts, target, input, output, before>>
    BY <1>10 DEF Finish, Exit, frame
  <2>2. ~opts.dumb /\ Legible => \A a \in Hashed(Part) : Plain(a)
    BY <2>1, NothingLeft DEF VerifiedInv
  <2>3. \A a : IsPlain(File, a.pos, a.size) => IsPlain(File, a.pos, a.size)'
    BY <2>1 DEF IsPlain, File
  <2> QED
    BY <1>1, <1>11, <2>1, <2>2, <2>3 DEF VerifiedInv, OkMeansVerified, Plain
<1> QED
  BY <1>3, <1>4, <1>5, <1>6, <1>7, <1>8, <1>9, <1>10, OtherSteps

(* An invocation that found the image's headers and says it succeeded      *)
(* leaves a file in which all that the hashes cover is as it should be,    *)
(* whatever the image and the command line: no section is decrypted over   *)
(* what was verified before it (main.rs:39-88).                            *)
THEOREM SuccessIsVerified == Spec => []OkMeansVerified
<1>1. Init => DumbInv /\ VerifiedInv
  BY DEF Init, DumbInv, DumbXorsWholeFile, VerifiedInv, OkMeansVerified, Succeeded,
     Decrypting
<1>2. TypeOK /\ PadsReady /\ [Next]_vars => TypeOK' /\ PadsReady'
  BY TypedStep
<1>3. TypeOK /\ PadsReady /\ DumbInv /\ [Next]_vars => DumbInv'
  BY DumbStep
<1>4. TypeOK /\ PadsReady /\ DumbInv /\ VerifiedInv /\ [Next]_vars => VerifiedInv'
  BY VerifiedStep
<1>5. VerifiedInv => OkMeansVerified
  BY DEF VerifiedInv
<1> QED
  BY <1>1, <1>2, <1>3, <1>4, <1>5, InitTyped, PTL DEF Spec

-----------------------------------------------------------------------------
(* Images as they should be, and what a call of xor_file does to one.      *)

(* A partition of such an image can be taken apart.                        *)
LEMMA WellSized ==
  ASSUME NEW m, IsImage(m), WellMade(m), NEW p \in Genuine(m)
  PROVE  /\ Sized(p)
         /\ p.base < Len(m.plain) /\ m.plain[p.base + 1] = m.cipher[p.base + 1]
         /\ m.plain \in Seq(Byte) /\ m.cipher \in Seq(Byte) /\ Len(m.plain) = Len(m.cipher)
<1> DEFINE P == [base : Nat, ncch : Ncchs]
<1>1. m.parts \in Seq(P)
  BY DEF IsImage
<1>2. PICK j \in DOMAIN m.parts : p = m.parts[j] /\ p.ncch.genuine
  BY DEF Genuine
<1>3. p \in P
  <2> HIDE DEF P
  <2> QED
    BY <1>1, <1>2
<1>4. p.base \in Nat /\ p.ncch \in Ncchs
  BY <1>3
<1>5. ~IsCfa(p.ncch) => LaidOut(p.ncch)
  BY <1>2 DEF IsImage
<1>6. /\ p.base < Len(m.plain) /\ m.plain[p.base + 1] = m.cipher[p.base + 1]
      /\ p.ncch.romfs_hashed <= p.ncch.romfs_size
      /\ p.ncch.extra_keyslot /\ ~IsCfa(p.ncch) =>
           p.ncch.has_code /\ p.ncch.exefs_size < U32_MOD
  BY DEF WellMade
<1>7. m.plain \in Seq(Byte) /\ m.cipher \in Seq(Byte) /\ Len(m.plain) = Len(m.cipher)
  BY DEF IsImage, WellMade
<1> QED
  BY <1>2, <1>4, <1>5, <1>6, <1>7 DEF Sized

(* A place in a region, and the same place in its pad.                     *)
LEMMA PlaceOf ==
  ASSUME NEW p \in Nat, NEW q \in Nat, NEW size \in Nat, NEW x \in Nat, NEW y \in Nat,
         x > p, x - p >= size, y > q, y - q >= size,
         NEW u \in (p + 1) .. (p + size)
  PROVE  /\ u - p \in 1 .. size /\ p + (u - p) = u
         /\ u \in 1 .. x /\ q + (u - p) \in 1 .. y
OBVIOUS

(* How such an image is encrypted, unit by unit.                           *)
LEMMA WellEncrypted ==
  ASSUME NEW m, IsImage(m), WellMade(m), NEW p \in Genuine(m), NEW c \in Calls(p)
  PROVE  /\ IsCall(c) /\ c \in AllCalls(m)
         /\ PartFits(Len(m.plain), c.file_pos, c.size)
         /\ c.arg \in DOMAIN m.pads /\ m.pads[c.arg] \in Seq(Byte)
         /\ PartFits(Len(m.pads[c.arg]), c.pad_pos, c.size)
         /\ \A u \in Units(c) :
              /\ u \in 1 .. Len(m.plain) /\ m.plain[u] \in Byte
              /\ c.pad_pos + (u - c.file_pos) \in 1 .. Len(m.pads[c.arg])
              /\ m.pads[c.arg][c.pad_pos + (u - c.file_pos)] \in Byte
              /\ m.cipher[u] = Xor(m.plain[u], m.pads[c.arg][c.pad_pos + (u - c.file_pos)])
<1>1. IsCall(c)
  BY WellSized, CallPlaces
<1>2. c \in AllCalls(m)
  BY DEF AllCalls
<1>3. /\ PartFits(Len(m.plain), c.file_pos, c.size)
      /\ c.arg \in DOMAIN m.pads
      /\ PartFits(Len(m.pads[c.arg]), c.pad_pos, c.size)
      /\ \A d \in 1 .. c.size :
           m.cipher[c.file_pos + d]
              = Xor(m.plain[c.file_pos + d], m.pads[c.arg][c.pad_pos + d])
  BY <1>2 DEF WellMade
<1>4. m.pads[c.arg] \in Seq(Byte) /\ m.plain \in Seq(Byte)
  BY <1>3 DEF IsImage
<1>5. ASSUME NEW u \in Units(c)
      PROVE  /\ u \in 1 .. Len(m.plain) /\ m.plain[u] \in Byte
             /\ c.pad_pos + (u - c.file_pos) \in 1 .. Len(m.pads[c.arg])
             /\ m.pads[c.arg][c.pad_pos + (u - c.file_pos)] \in Byte
             /\ m.cipher[u] = Xor(m.plain[u], m.pads[c.arg][c.pad_pos + (u - c.file_pos)])
  <2> DEFINE d == u - c.file_pos k == c.pad_pos + d f == m.plain pad == m.pads[c.arg]
             x == Len(f) y == Len(pad)
  <2>1. f \in Seq(Byte) /\ pad \in Seq(Byte) /\ x \in Nat /\ y \in Nat
    BY <1>4
  <2>2. /\ c.file_pos \in Nat /\ c.pad_pos \in Nat /\ c.size \in Nat
        /\ x > c.file_pos /\ x - c.file_pos >= c.size
        /\ y > c.pad_pos /\ y - c.pad_pos >= c.size
    BY <1>1, <1>3 DEF IsCall, PartFits
  <2> DEFINE at == c.file_pos q == c.pad_pos size == c.size
  <2>9. u \in (at + 1) .. (at + size)
    BY DEF Units
  <2>3. d \in 1 .. c.size /\ c.file_pos + d = u /\ u \in 1 .. x /\ k \in 1 .. y
    <3>1. /\ at \in Nat /\ q \in Nat /\ size \in Nat /\ x \in Nat /\ y \in Nat
          /\ x > at /\ x - at >= size /\ y > q /\ y - q >= size
      BY <2>1, <2>2
    <3> HIDE DEF at, q, size, x, y
    <3>2. /\ u - at \in 1 .. size /\ at + (u - at) = u
          /\ u \in 1 .. x /\ q + (u - at) \in 1 .. y
      BY <2>9, <3>1, PlaceOf
    <3> QED
      BY <3>2 DEF at, q, size
  <2> HIDE DEF x, y, at, q, size
  <2>4. m.cipher[c.file_pos + d] = Xor(m.plain[c.file_pos + d], m.pads[c.arg][k])
    BY <1>3, <2>3
  <2> HIDE DEF f, pad, d
  <2>5. f[u] \in Byte /\ pad[k] \in Byte
    BY <2>1, <2>3 DEF x, y
  <2> QED
    BY <2>3, <2>4, <2>5 DEF f, pad, d, x, y
<1> QED
  BY <1>1, <1>2, <1>3, <1>4, <1>5

(* What a call makes of f: outside the region and the rest of its last     *)
(* chunk nothing changes, and in the region what has been written is XORed.*)
Key(pad, c, u) == pad[c.pad_pos + (u - c.file_pos)]

Written(f, g, pad, c, whole) ==
  /\ g \in Seq(Byte) /\ Len(f) <= Len(g)
  /\ \A i \in 1 .. Len(g) : i \notin Units(c) /\ i \notin Spill(c) =>
       i \in 1 .. Len(f) /\ g[i] = f[i]
  /\ \A u \in Units(c) :
       /\ u \in 1 .. Len(f)
       /\ g[u] = f[u] \/ g[u] = Xor(f[u], Key(pad, c, u))
       /\ whole => g[u] = Xor(f[u], Key(pad, c, u))

(* A place that no part of a call reaches, and one in the region.          *)
LEMMA PlaceOutside ==
  ASSUME NEW p \in Nat, NEW size \in Nat, NEW all \in Nat, NEW w \in Nat,
         NEW len \in Nat, NEW m \in Nat, size <= all, w <= all, len > p,
         m = len \/ m = p + w, NEW i \in 1 .. m,
         i \notin (p + 1) .. (p + size), i \notin (p + size + 1) .. (p + all)
  PROVE  i \in 1 .. len /\ ~(p < i /\ i <= p + w)
OBVIOUS

(* ... in the region.                                                      *)
LEMMA PlaceInside ==
  ASSUME NEW p \in Nat, NEW q \in Nat, NEW size \in Nat, NEW len \in Nat,
         NEW m \in Nat, len > p, len - p >= size, len <= m,
         NEW u \in (p + 1) .. (p + size)
  PROVE  /\ u \in 1 .. len /\ u \in 1 .. m /\ p < u /\ u <= p + size
         /\ u - p - 1 < size /\ p + (u - p - 1) + 1 = u
         /\ q + (u - p - 1) + 1 = q + (u - p)
OBVIOUS

(* Any part of a call does that.                                           *)
LEMMA CallWrites ==
  ASSUME NEW f \in Seq(Byte), NEW pad \in Seq(Byte), NEW c,
         c.file_pos \in Nat, c.pad_pos \in Nat, c.size \in Nat,
         PartFits(Len(f), c.file_pos, c.size), PartFits(Len(pad), c.pad_pos, c.size),
         NEW w \in 0 .. WholeCall(c.size)
  PROVE  Written(f, RegionAfter(f, pad, c, w), pad, c, w = WholeCall(c.size))
<1> DEFINE d == [file_pos |-> c.file_pos, pad_pos |-> c.pad_pos, size |-> c.size]
           g == RegionAfter(f, pad, d, w) all == WholeCall(c.size)
<1>1. /\ d \in Args /\ d.file_pos = c.file_pos /\ d.pad_pos = c.pad_pos
      /\ d.size = c.size
  BY DEF Args
<1>2. RegionAfter(f, pad, c, w) = g
  <2> HIDE DEF d
  <2> QED
    BY <1>1 DEF RegionAfter, LoopByte, Decrypted
<1>3. /\ all \in Nat /\ c.size <= all /\ all < c.size + BUF_SIZE /\ BUF_SIZE \in Nat
      /\ w \in Nat /\ w <= all /\ w < c.size + BUF_SIZE
  <2>1. all \in Nat /\ c.size <= all /\ all < c.size + BUF_SIZE /\ BUF_SIZE \in Nat
    BY WholeCallLemma, BufSizeAssumption
  <2> HIDE DEF all
  <2>2. w \in 0 .. all
    BY DEF all
  <2> QED
    BY <2>1, <2>2
<1> HIDE DEF d
<1>4. IsRegionAfter(g, f, pad, d, w)
  BY <1>1, <1>3, RegionAfterLemma
<1> HIDE DEF g, all
<1> DEFINE p == c.file_pos q == c.pad_pos size == c.size len == Len(f)
           m == MaxOf(len, p + w)
<1>5. /\ g \in Seq(Byte) /\ Len(g) = m
      /\ \A i \in 1 .. m : g[i] = IF p < i /\ i <= p + w
                                THEN LoopByte(f, pad, d, i - p - 1) ELSE f[i]
  BY <1>1, <1>4 DEF IsRegionAfter
<1>6. /\ p \in Nat /\ q \in Nat /\ size \in Nat /\ len \in Nat
      /\ d.file_pos = p /\ d.pad_pos = q /\ d.size = size
      /\ len > p /\ len - p >= size
      /\ size <= all
  BY <1>1, <1>3 DEF PartFits
<1>7. /\ Units(c) = (p + 1) .. (p + size)
      /\ Spill(c) = (p + size + 1) .. (p + all)
  BY DEF Units, Spill, all
<1> HIDE DEF p, q, size, len
<1>8. m \in Nat /\ len <= m /\ (m = len \/ m = p + w)
  BY <1>3, <1>6 DEF MaxOf
<1> HIDE DEF m
<1>9. ASSUME NEW i \in 1 .. m, i \notin Units(c), i \notin Spill(c)
      PROVE  i \in 1 .. len /\ g[i] = f[i]
  <2>1. i \notin (p + 1) .. (p + size) /\ i \notin (p + size + 1) .. (p + all)
    BY <1>7, <1>9
  <2>2. i \in 1 .. len /\ ~(p < i /\ i <= p + w)
    BY <1>3, <1>6, <1>8, <2>1, PlaceOutside
  <2> QED
    BY <1>5, <2>2
<1>10. ASSUME NEW u \in Units(c)
       PROVE  /\ u \in 1 .. len
              /\ g[u] = f[u] \/ g[u] = Xor(f[u], Key(pad, c, u))
              /\ w = all => g[u] = Xor(f[u], Key(pad, c, u))
  <2>9. u \in (p + 1) .. (p + size)
    BY <1>7
  <2>1. /\ u \in 1 .. len /\ u \in 1 .. m /\ p < u /\ u <= p + size
        /\ u - p - 1 < size /\ p + (u - p - 1) + 1 = u
        /\ q + (u - p - 1) + 1 = q + (u - p)
    BY <1>6, <1>8, <2>9, PlaceInside
  <2>2. CASE u <= p + w
    <3> DEFINE k == u - p - 1
    <3>1. g[u] = LoopByte(f, pad, d, k)
      BY <1>5, <2>1, <2>2
    <3>2. LoopByte(f, pad, d, k) = Xor(f[u], pad[q + (u - p)])
      BY <1>6, <2>1 DEF LoopByte, Decrypted
    <3>3. Key(pad, c, u) = pad[q + (u - p)]
      BY DEF Key, p, q
    <3> QED
      BY <2>1, <3>1, <3>2, <3>3
  <2>3. CASE ~(u <= p + w)
    <3>1. g[u] = f[u]
      BY <1>5, <2>1, <2>3
    <3>2. w # all
      BY <1>3, <1>6, <2>1, <2>3
    <3> QED
      BY <2>1, <3>1, <3>2
  <2> QED
    BY <2>2, <2>3
<1>11. len = Len(f) /\ Len(g) = m
  BY <1>5 DEF len
<1>12. Written(f, g, pad, c, w = all)
  BY <1>5, <1>8, <1>9, <1>10, <1>11 DEF Written
<1> QED
  BY <1>2, <1>12 DEF all

(* A step that XORs, and one that is interrupted in it.                    *)
LEMMA CallDone ==
  ASSUME TypeOK, PadsReady, XorSection
  PROVE  Written(File, File', Pad(Head(todo).arg), Head(todo), TRUE)
<1> DEFINE s == Head(todo) w == WholeCall(s.size) f == File pad == Pad(s.arg)
<1>1. /\ Doing("xor") /\ Fits(s) /\ UNCHANGED target
      /\ WriteFile(RegionAfter(f, pad, s, w))
  BY DEF XorSection, frame
<1>2. /\ s.file_pos \in Nat /\ s.pad_pos \in Nat /\ s.size \in Nat
      /\ pad \in Seq(Byte)
      /\ PartFits(Len(f), s.file_pos, s.size)
      /\ PartFits(Len(pad), s.pad_pos, s.size)
  BY <1>1, XorFits
<1>3. f \in Seq(Byte)
  BY FileTyped
<1>4. File' = RegionAfter(f, pad, s, w)
  BY <1>1, FileWritten
<1>5. w \in 0 .. w
  <2>1. w \in Nat
    BY <1>2, WholeCallLemma
  <2> HIDE DEF w
  <2> QED
    BY <2>1
<1> HIDE DEF f, pad, s
<1>6. Written(f, RegionAfter(f, pad, s, w), pad, s, w = WholeCall(s.size))
  BY <1>2, <1>3, <1>5, CallWrites
<1>7. (w = WholeCall(s.size)) = TRUE
  OBVIOUS
<1> QED
  BY <1>4, <1>6, <1>7 DEF f, pad, s

(* ... interrupted.                                                        *)
LEMMA CallCut ==
  ASSUME TypeOK, PadsReady, XorInterrupted
  PROVE  Written(File, File', Pad(Head(todo).arg), Head(todo), FALSE)
<1> DEFINE s == Head(todo) all == WholeCall(s.size) f == File pad == Pad(s.arg)
<1>1. Doing("xor") /\ Fits(s) /\ UNCHANGED target
  BY DEF XorInterrupted, frame
<1>2. PICK w \in 1 .. (all - 1) : WriteFile(RegionAfter(f, pad, s, w))
  BY DEF XorInterrupted
<1>3. /\ s.file_pos \in Nat /\ s.pad_pos \in Nat /\ s.size \in Nat
      /\ pad \in Seq(Byte)
      /\ PartFits(Len(f), s.file_pos, s.size)
      /\ PartFits(Len(pad), s.pad_pos, s.size)
  BY <1>1, XorFits
<1>4. f \in Seq(Byte)
  BY FileTyped
<1>5. File' = RegionAfter(f, pad, s, w)
  BY <1>1, <1>2, FileWritten
<1>6. all \in Nat
  BY <1>3, WholeCallLemma
<1>7. w \in 0 .. all /\ w # all
  <2> HIDE DEF all
  <2> QED
    BY <1>6
<1> HIDE DEF f, pad, s
<1>8. Written(f, RegionAfter(f, pad, s, w), pad, s, w = WholeCall(s.size))
  BY <1>3, <1>4, <1>7, CallWrites
<1>9. (w = WholeCall(s.size)) = FALSE
  BY <1>7
<1> QED
  BY <1>5, <1>8, <1>9 DEF f, pad, s

-----------------------------------------------------------------------------
(* What becomes of the two files, and of the partition.                    *)

(* No step changes the image.                                              *)
LEMMA ImageFrozen ==
  ASSUME [Next]_vars
  PROVE  image' = image
<1>1. CASE Work
  BY <1>1 DEF Work, OpenPad, RefuseNothing, BadArgument, XorSection, XorOutOfBounds,
     HashMatches, HashDiffers, ReadPastEnd, ReadExefs, NoCode, FilesMatch,
     FileDiffers, Finish, frame
<1>2. CASE Step /\ ~Work
  BY <1>2 DEF Step, ShowHelp, ChooseInplace, ChooseOutput, CopyInput, Open,
     PlanNcch, PlanNcsd, PlanMisread, Planned, HeaderMissing, UnknownContainer, PlanDumb,
     DumbPadMissing
<1>3. CASE Environment
  BY <1>3 DEF Environment, Invoke, RemoveOutput, CopyFails, XorInterrupted,
     Killed, IoError, frame
<1> QED
  BY <1>1, <1>2, <1>3 DEF Next, vars

(* A set that holds both files, and whatever copying and XORing can make   *)
(* of them, holds them after every step.                                   *)
LEMMA GoodFiles ==
  ASSUME TypeOK, PadsReady, [Next]_vars, NEW G, input \in G, output \in G, <<>> \in G,
         \A f \in G : \A n \in 0 .. Len(f) : SubSeq(f, 1, n) \in G,
         XorSection \/ XorInterrupted =>
           \A g : Written(File, g, Pad(Head(todo).arg), Head(todo), FALSE) => g \in G
  PROVE  input' \in G /\ output' \in G
<1>1. CASE UNCHANGED <<input, output>>
  BY <1>1
<1>2. CASE CopyInput
  BY <1>2 DEF CopyInput
<1>3. CASE CopyFails
  <2>1. PICK n \in 0 .. (Len(input) - 1) : output' = SubSeq(input, 1, n)
    BY <1>3 DEF CopyFails
  <2>2. Len(input) \in Nat
    BY DEF TypeOK
  <2>3. n \in 0 .. Len(input)
    BY <2>2
  <2> QED
    BY <1>3, <2>1, <2>3 DEF CopyFails
<1>4. CASE RemoveOutput
  BY <1>4 DEF RemoveOutput
<1>5. CASE XorSection \/ XorInterrupted
  <2> DEFINE pad == Pad(Head(todo).arg) c == Head(todo)
  <2>1. Written(File, File', pad, c, TRUE) \/ Written(File, File', pad, c, FALSE)
    BY <1>5, CallDone, CallCut
  <2>2. Written(File, File', pad, c, FALSE)
    BY <2>1 DEF Written
  <2>3. File' \in G
    BY <1>5, <2>2
  <2>4. /\ target' = target
        /\ target = "input" => output' = output
        /\ target # "input" => input' = input
    BY <1>5 DEF XorSection, XorInterrupted, WriteFile, frame
  <2> QED
    BY <2>3, <2>4 DEF File
<1>6. CASE Work /\ ~XorSection
  BY <1>1, <1>6 DEF Work, OpenPad, RefuseNothing, BadArgument, XorOutOfBounds,
     HashMatches, HashDiffers, ReadPastEnd, ReadExefs, NoCode, FilesMatch,
     FileDiffers, Finish
<1>7. CASE Step /\ ~Work /\ ~CopyInput
  BY <1>1, <1>7 DEF Step, ShowHelp, ChooseInplace, ChooseOutput, Open, PlanNcch,
     PlanNcsd, PlanMisread, Planned, HeaderMissing, UnknownContainer, PlanDumb,
       DumbPadMissing
<1>8. CASE Invoke \/ Killed \/ IoError \/ UNCHANGED vars
  BY <1>1, <1>8 DEF Invoke, Killed, IoError, vars
<1> QED
  BY <1>2, <1>3, <1>4, <1>5, <1>6, <1>7, <1>8 DEF Next, Step, Environment

(* Steps that are planned from the image's own header of a genuine         *)
(* partition.                                                              *)
LEMMA GenuinePlan ==
  ASSUME TypeOK, Planning, File = before, Legible, AsksGenuine(opts, image)
  PROVE  /\ Part \in Genuine(image) /\ Part.ncch.genuine
         /\ image.kind = "NCSD" => InTable
         /\ todo' = Plan(Part.ncch, Part.base)
         /\ pc = "magic" /\ pc' = "work"
         /\ UNCHANGED <<image, input, output, has_output, opts, target, before, torn,
                        status>>
<1>1. Planned(Part.ncch, Part.base) /\ (image.kind = "NCSD" => InTable)
  BY LegiblePlan
<1>2. image.kind \in {"NCCH", "NCSD"} /\ DOMAIN image.parts = 1 .. Len(image.parts)
  BY ImagesAssumption DEF TypeOK, IsImage
<1>3. \E j \in DOMAIN image.parts : Part = image.parts[j] /\ j \in {1} \union opts.partition
  BY <1>1, <1>2, FirstPart DEF Part, Entry, InTable, partition
<1>4. Part.ncch.genuine /\ Part \in Genuine(image)
  BY <1>3 DEF AsksGenuine, Genuine
<1>5. Keeps(File, 0) /\ Keeps(File, Part.base)
  BY DEF Legible
<1> QED
  BY <1>1, <1>4, <1>5 DEF Planned, Goto

(* A step that reads or writes the partition's sections keeps to what it   *)
(* was planned for.                                                        *)
OwnWorkInv ==
  pc = "work" /\ ~opts.dumb /\ Legible
    => Part \in Genuine(image) /\ Proper(todo, Part)

-----------------------------------------------------------------------------
(* Work on partitions of its own: the program reads their own headers, and *)
(* all it does next is their own.                                          *)

(* What stays legible.                                                     *)
LEMMA LegibleKept ==
  ASSUME UNCHANGED <<image, opts, before>>
  PROVE  Part' = Part /\ (Legible' <=> Legible)
<1>1. Part' = Part
  BY DEF Part, Entry, partition
<1> QED
  BY <1>1 DEF Legible, Keeps

(* Reading the header of a partition's ExeFS plans steps of its own.       *)
LEMMA ExefsOwn ==
  ASSUME TypeOK, PadsReady, ReadExefs, NEW p, Sized(p), Proper(todo, p)
  PROVE  /\ ~IsCfa(p.ncch) /\ p.ncch.extra_keyslot
         /\ Head(todo).kind = "exefs" /\ Head(todo).ncch = p.ncch
         /\ Head(todo).file_pos = p.base + p.ncch.exefs_offset
         /\ todo' = Join(CodeRegions(p.ncch, p.base + p.ncch.exefs_offset), Tail(todo))
         /\ Proper(todo', p)
<1> DEFINE h == Head(todo) t == Tail(todo)
           r == CodeRegions(p.ncch, p.base + p.ncch.exefs_offset)
<1>1. /\ todo \in Seq(Steps) /\ todo # <<>> /\ h.kind = "exefs"
      /\ todo' = Join(CodeRegions(h.ncch, h.file_pos), t)
  BY DEF TypeOK, ReadExefs, Doing, Join
<1>2. Belongs(h, p) /\ Proper(t, p) /\ t \in Seq(Steps)
  BY <1>1, TailCourse, TailSteps
<1>3. /\ ~IsCfa(p.ncch) /\ p.ncch.extra_keyslot
      /\ h.file_pos = p.base + p.ncch.exefs_offset /\ h.ncch = p.ncch
  BY <1>1, <1>2 DEF Belongs, AtExefs
<1>4. r \in Seq(Steps) /\ Proper(r, p)
  BY <1>3, RegionsCourse
<1>5. todo' = Join(r, t)
  BY <1>1, <1>3
<1> HIDE DEF r, t
<1>6. Proper(Join(r, t), p)
  BY <1>2, <1>4, JoinProper
<1> QED
  BY <1>1, <1>3, <1>5, <1>6 DEF r, t

(* Every step keeps OwnWorkInv, whatever has become of the file.           *)
LEMMA OwnWorkStep ==
  ASSUME TypeOK, PadsReady, DumbInv, WellMade(image), AsksGenuine(opts, image),
         OwnWorkInv, [Next]_vars
  PROVE  OwnWorkInv'
<1>1. IsImage(image)
  BY ImagesAssumption DEF TypeOK
<1>2. CASE pc' # "work"
  BY <1>2 DEF OwnWorkInv
<1>3. CASE UNCHANGED vars
  <2>1. UNCHANGED <<image, opts, pc, todo, before>>
    BY <1>3 DEF vars
  <2> QED
    BY <2>1, LegibleKept DEF OwnWorkInv
<1>4. CASE QuietStep \/ Open \/ Finish
  <2>1. pc' # "work"
    BY <1>4, QuietSteps DEF Quiet, Open, Finish, Goto, Exit
  <2> QED
    BY <1>2, <2>1
<1>5. CASE Planning
  <2>1. /\ pc = "magic" /\ File = before /\ UNCHANGED <<image, opts, before>>
    BY <1>5 DEF Planning, PlanNcch, PlanNcsd, PlanMisread, Planned, Goto, DumbInv
  <2>2. ASSUME Legible
        PROVE  Part \in Genuine(image) /\ Proper(todo', Part)
    <3>1. Part \in Genuine(image) /\ todo' = Plan(Part.ncch, Part.base)
      BY <1>5, <2>1, <2>2, GenuinePlan
    <3>2. Sized(Part)
      BY <1>1, <3>1, WellSized
    <3> QED
      BY <3>1, <3>2, PlanCourse
  <2> QED
    BY <2>1, <2>2, LegibleKept DEF OwnWorkInv
<1>6. CASE PlanDumb
  <2>1. opts'.dumb
    BY <1>6 DEF PlanDumb, Goto, DumbInv
  <2> QED
    BY <2>1 DEF OwnWorkInv
<1>7. CASE OpenPad \/ RefuseNothing \/ HashMatches \/ FilesMatch \/ XorSection
  <2>1. /\ pc = "work" /\ UNCHANGED <<image, opts, before>>
        /\ todo # <<>> /\ todo' = Tail(todo) /\ todo \in Seq(Steps)
    BY <1>7 DEF OpenPad, RefuseNothing, HashMatches, FilesMatch, XorSection,
       Doing, StepDone, frame, TypeOK
  <2>2. Proper(todo, Part) => Proper(todo', Part)
    BY <2>1, TailCourse
  <2> QED
    BY <2>1, <2>2, LegibleKept DEF OwnWorkInv
<1>8. CASE ReadExefs
  <2>1. pc = "work" /\ UNCHANGED <<image, opts, before>>
    BY <1>8 DEF ReadExefs, Doing, frame
  <2>2. ASSUME Part \in Genuine(image), Proper(todo, Part)
        PROVE  Proper(todo', Part)
    <3>1. Sized(Part)
      BY <1>1, <2>2, WellSized
    <3> QED
      BY <1>8, <2>2, <3>1, ExefsOwn
  <2> QED
    BY <2>1, <2>2, LegibleKept DEF OwnWorkInv
<1> QED
  BY <1>3, <1>4, <1>5, <1>6, <1>7, <1>8, OtherSteps

(* A step that XORs is one of the partition's calls.                       *)
LEMMA OwnCall ==
  ASSUME TypeOK, Part \in Genuine(image), Proper(todo, Part), XorSection \/ XorInterrupted
  PROVE  Head(todo) \in Calls(Part)
<1>1. pc = "work" /\ todo # <<>> /\ Head(todo).kind = "xor" /\ todo \in Seq(Steps)
  BY DEF XorSection, XorInterrupted, Doing, TypeOK
<1>2. Belongs(Head(todo), Part)
  BY <1>1, TailCourse
<1> QED
  BY <1>1, <1>2 DEF Belongs

(* A step on a file that writes to it is a call.                           *)
LEMMA WrittenByCall ==
  ASSUME TypeOK, Next, pc = "work", File' # File
  PROVE  XorSection \/ XorInterrupted
<1>1. CASE Work /\ ~XorSection
  BY <1>1 DEF Work, OpenPad, RefuseNothing, BadArgument, XorOutOfBounds,
     HashMatches, HashDiffers, ReadPastEnd, ReadExefs, NoCode, FilesMatch,
     FileDiffers, Finish, frame, File
<1>2. CASE Step /\ ~Work
  BY <1>2 DEF Step, ShowHelp, ChooseInplace, ChooseOutput, CopyInput, Open,
     PlanNcch, PlanNcsd, PlanMisread, Planned, HeaderMissing, UnknownContainer, PlanDumb,
     DumbPadMissing, Goto
<1>3. CASE Environment /\ ~XorInterrupted
  BY <1>3 DEF Environment, Invoke, RemoveOutput, CopyFails, Killed, IoError, frame, File
<1> QED
  BY <1>1, <1>2, <1>3 DEF Next, Step

(* Whatever earlier invocations have left of the file, and dumb ones too,  *)
(* an invocation that finds the headers in it writes only to the sections  *)
(* of the partition it was told to decrypt and to the rest of their last   *)
(* chunks, wherever it is stopped (main.rs:90-139, README.md:21-22).       *)
THEOREM WritesOwnPartition ==
  ASSUME \A m \in Images : WellMade(m) /\ \A o \in Options : AsksGenuine(o, m)
  PROVE  Spec => OnlyOwnPartition
<1>1. TypeOK => WellMade(image) /\ AsksGenuine(opts, image)
  BY DEF TypeOK
<1>2. Init => TypeOK /\ PadsReady /\ DumbInv /\ OwnWorkInv
  BY InitTyped DEF Init, DumbInv, DumbXorsWholeFile, OwnWorkInv
<1>4. TypeOK /\ PadsReady /\ [Next]_vars => TypeOK' /\ PadsReady'
  BY TypedStep
<1>5. TypeOK /\ PadsReady /\ DumbInv /\ [Next]_vars => DumbInv'
  BY DumbStep
<1>6. TypeOK /\ PadsReady /\ DumbInv /\ OwnWorkInv /\ [Next]_vars => OwnWorkInv'
  BY <1>1, OwnWorkStep
<1> DEFINE Mine == ~opts.dumb /\ pc = "work" /\ Legible =>
                     \A i \in DOMAIN File' :
                       \/ i \in DOMAIN File /\ File'[i] = File[i]
                       \/ \E s \in Sections(Part) : s.pos < i /\ i <= s.pos + s.size
                       \/ \E c \in Calls(Part) : i \in Spill(c)
<1>7. TypeOK /\ PadsReady /\ OwnWorkInv /\ [Next]_vars => [Mine]_vars
  <2> SUFFICES ASSUME TypeOK, PadsReady, OwnWorkInv, Next, pc = "work", ~opts.dumb,
                      Legible, NEW i \in DOMAIN File'
               PROVE  \/ i \in DOMAIN File /\ File'[i] = File[i]
                      \/ \E s \in Sections(Part) : s.pos < i /\ i <= s.pos + s.size
                      \/ \E c \in Calls(Part) : i \in Spill(c)
    OBVIOUS
  <2> DEFINE c == Head(todo)
  <2>1. CASE File' = File
    BY <2>1
  <2>2. CASE File' # File
    <3>1. XorSection \/ XorInterrupted
      BY <2>2, WrittenByCall
    <3>2. Part \in Genuine(image) /\ c \in Calls(Part) /\ IsImage(image)
      BY <3>1, OwnCall, ImagesAssumption DEF TypeOK, OwnWorkInv
    <3>3. Sized(Part)
      BY <1>1, <3>2, WellSized
    <3>4. \/ Written(File, File', Pad(c.arg), c, TRUE)
          \/ Written(File, File', Pad(c.arg), c, FALSE)
      BY <3>1, CallDone, CallCut
    <3>5. i \in 1 .. Len(File')
      <4> DEFINE g == File'
      <4>1. g \in Seq(Byte) /\ i \in DOMAIN g
        BY <3>4 DEF Written
      <4> HIDE DEF g
      <4>2. i \in 1 .. Len(g)
        BY <4>1
      <4> QED
        BY <4>2 DEF g
    <3>6. CASE i \notin Units(c) /\ i \notin Spill(c)
      <4>1. i \in 1 .. Len(File) /\ File'[i] = File[i]
        BY <3>4, <3>5, <3>6 DEF Written
      <4>2. i \in DOMAIN File
        <5> DEFINE f == File
        <5>1. f \in Seq(Byte) /\ i \in 1 .. Len(f)
          BY <4>1, FileTyped
        <5> HIDE DEF f
        <5>2. i \in DOMAIN f
          BY <5>1
        <5> QED
          BY <5>2 DEF f
      <4> QED
        BY <4>1, <4>2
    <3>7. CASE i \in Units(c)
      BY <3>2, <3>3, <3>7, CallInSection
    <3> QED
      BY <3>2, <3>6, <3>7
  <2> QED
    BY <2>1, <2>2
<1> HIDE DEF Mine
<1>8. Spec => [][Mine]_vars
  BY <1>2, <1>4, <1>5, <1>6, <1>7, PTL DEF Spec
<1> QED
  BY <1>8 DEF Mine, OnlyOwnPartition

-----------------------------------------------------------------------------
(* No last chunk reaches a header: the headers stay, and every invocation  *)
(* finds its own.                                                          *)

(* The container's header and the partitions' are intact, as far as the    *)
(* file goes.                                                              *)
Headers(m) == {1} \union { p.base + 1 : p \in Genuine(m) }

Heads(m, f) == \A i \in Headers(m) : i \in 1 .. Len(f) => f[i] = m.plain[i]

(* An image, and the command lines, of which that can be said.             *)
OwnWork(m) == WellMade(m) /\ Guarded(m) /\ \A o \in Options : InOrder(o, m)

OwnInv ==
  /\ Heads(image, input) /\ Heads(image, output)
  /\ pc = "work" => Legible /\ Part \in Genuine(image) /\ Proper(todo, Part)
  /\ status = "ok" => Part \in Genuine(image)

(* The first unit is the last of no call's last chunk.                     *)
LEMMA SpillPastFirst ==
  ASSUME NEW c, IsCall(c)
  PROVE  1 \notin Spill(c)
<1> DEFINE at == c.file_pos size == c.size w == WholeCall(size)
<1>1. at \in Nat /\ size \in Nat
  BY DEF IsCall
<1>2. w \in Nat /\ IsWholeCall(size, w) /\ BUF_SIZE \in Nat
  BY <1>1, WholeCallLemma, BufSizeAssumption
<1> HIDE DEF w
<1>3. PICK n \in 0 .. w : w = n * BUF_SIZE
  BY <1>2 DEF IsWholeCall
<1>4. size = 0 => w = 0
  <2> SUFFICES ASSUME size = 0, n # 0
               PROVE  FALSE
    BY <1>2, <1>3
  <2>1. BUF_SIZE <= n * BUF_SIZE
    BY <1>2, FactorBound
  <2> HIDE DEF size
  <2> QED
    BY <1>2, <1>3, <2>1 DEF IsWholeCall
<1>5. Spill(c) = (at + size + 1) .. (at + w)
  BY DEF Spill, w
<1> HIDE DEF at, size
<1>6. ~(1 \in (at + size + 1) .. (at + w))
  BY <1>1, <1>2, <1>4
<1> QED
  BY <1>5, <1>6

(* No part of a call for a partition, or of a copy, damages a header.      *)
LEMMA HeadsWritten ==
  ASSUME NEW m, IsImage(m), WellMade(m), Guarded(m), NEW p \in Genuine(m),
         NEW c \in Calls(p),
         NEW f \in Seq(Byte), NEW g, NEW pad, Heads(m, f), Written(f, g, pad, c, FALSE)
  PROVE  Heads(m, g)
<1> SUFFICES ASSUME NEW i \in Headers(m), i \in 1 .. Len(g)
             PROVE  g[i] = m.plain[i]
  BY DEF Heads
<1>1. i \notin Units(c)
  <2>1. \A q \in Genuine(m) : {1, q.base + 1} \intersect Units(c) = {}
    BY DEF WellMade
  <2> QED
    BY <2>1 DEF Headers
<1>2. c \in AllCalls(m) /\ IsCall(c)
  BY WellEncrypted
<1>3. i \notin Spill(c)
  BY <1>2, SpillPastFirst DEF Guarded, Headers
<1>4. i \in 1 .. Len(f) /\ g[i] = f[i]
  BY <1>1, <1>3 DEF Written
<1> QED
  BY <1>4 DEF Heads

(* ... of a copy.                                                          *)
LEMMA HeadsCopied ==
  ASSUME NEW m, NEW f \in Seq(Byte), Heads(m, f), NEW n \in 0 .. Len(f)
  PROVE  Heads(m, SubSeq(f, 1, n))
<1> DEFINE g == SubSeq(f, 1, n)
<1>1. g \in Seq(Byte) /\ Len(g) = n /\ \A i \in 1 .. n : g[i] = f[i]
  BY PrefixProperties
<1>2. n \in Nat /\ Len(f) \in Nat /\ n <= Len(f)
  OBVIOUS
<1> HIDE DEF g
<1>3. \A i \in 1 .. Len(g) : i \in 1 .. Len(f) /\ g[i] = f[i]
  BY <1>1, <1>2
<1>4. Heads(m, g)
  BY <1>3 DEF Heads
<1> QED
  BY <1>4 DEF g

(* Every step keeps the headers.                                           *)
LEMMA HeadsStep ==
  ASSUME TypeOK, PadsReady, OwnWork(image), OwnInv, [Next]_vars
  PROVE  Heads(image', input') /\ Heads(image', output')
<1> PICK m : m = image
  OBVIOUS
<1> DEFINE G == { f \in Seq(Byte) : Heads(m, f) }
<1>1. image' = m
  BY ImageFrozen
<1>2. input \in G /\ output \in G
  BY DEF OwnInv, TypeOK
<1>3. <<>> \in G
  <2>1. <<>> \in Seq(Byte) /\ Len(<<>>) = 0
    OBVIOUS
  <2>2. \A i \in Nat : ~(i \in 1 .. 0)
    OBVIOUS
  <2>3. Heads(m, <<>>)
    BY <2>1 DEF Heads
  <2> QED
    BY <2>1, <2>3
<1>4. \A f \in G : \A n \in 0 .. Len(f) : SubSeq(f, 1, n) \in G
  BY HeadsCopied, PrefixProperties
<1>5. ASSUME XorSection \/ XorInterrupted,
             NEW g, Written(File, g, Pad(Head(todo).arg), Head(todo), FALSE)
      PROVE  g \in G
  <2>1. Part \in Genuine(m) /\ Head(todo) \in Calls(Part)
    BY <1>5, OwnCall DEF OwnInv, XorSection, XorInterrupted, Doing
  <2>2. File \in Seq(Byte) /\ Heads(m, File)
    BY FileTyped DEF OwnInv, File
  <2>3. WellMade(m) /\ Guarded(m) /\ IsImage(m)
    BY ImagesAssumption DEF OwnWork, TypeOK
  <2>4. Heads(m, g)
    BY <1>5, <2>1, <2>2, <2>3, HeadsWritten
  <2> QED
    BY <1>5, <2>4 DEF Written
<1> HIDE DEF G
<1>6. input' \in G /\ output' \in G
  BY <1>2, <1>3, <1>4, <1>5, GoodFiles
<1> QED
  BY <1>1, <1>6 DEF G

(* With its headers in place the file is worked on by them.                *)
LEMMA OwnHeaders ==
  ASSUME TypeOK, OwnWork(image), OwnInv, Planning, File = before
  PROVE  Legible
<1>1. Heads(image, File) /\ WellMade(image) /\ AsksGenuine(opts, image)
  BY DEF OwnInv, File, OwnWork, InOrder, TypeOK
<1>2. image.kind \in {"NCCH", "NCSD"} /\ DOMAIN image.parts = 1 .. Len(image.parts)
  BY ImagesAssumption DEF TypeOK, IsImage
<1> DEFINE len == Len(File) max == Len(image.plain)
<1>3. len \in Nat /\ max \in Nat /\ 0 < max
  <2>1. image.plain \in Seq(Byte) /\ image.plain # <<>>
    BY <1>1, ImagesAssumption DEF TypeOK, IsImage, WellMade
  <2> DEFINE plain == image.plain
  <2> HIDE DEF plain
  <2>2. Len(plain) \in Nat /\ Len(plain) # 0
    BY <2>1 DEF plain
  <2> QED
    BY <2>2, FileTyped DEF plain
<1>4. ASSUME NEW base \in Nat, base < len, base < max, base + 1 \in Headers(image)
      PROVE  Keeps(File, base)
  <2>1. base + 1 \in 1 .. len
    BY <1>3, <1>4
  <2> QED
    BY <1>1, <1>4, <2>1 DEF Heads, Keeps
<1>5. 0 < len
  <2>1. PlanNcch \/ PlanNcsd => 0 < len
    BY DEF PlanNcch, PlanNcsd, Keeps
  <2>2. ASSUME PlanMisread
        PROVE  0 < len
    <3>1. PICK base \in Astray : TRUE
      BY <2>2 DEF PlanMisread
    <3>2. base \in 0 .. (len - 1)
      BY <3>1 DEF Astray
    <3> HIDE DEF len
    <3> QED
      BY <1>3, <3>2
  <2> QED
    BY <2>1, <2>2 DEF Planning
<1>6. Keeps(File, 0)
  <2>1. 0 + 1 \in Headers(image) /\ 0 \in Nat
    BY DEF Headers
  <2> QED
    BY <1>3, <1>4, <1>5, <2>1
<1>7. ~Altered
  BY <1>6 DEF Altered
<1>8. ASSUME InTable
      PROVE  /\ Entry \in Genuine(image) /\ Entry.base \in Nat /\ Entry.base < max
             /\ Entry.base + 1 \in Headers(image)
  <2>1. partition \in DOMAIN image.parts /\ partition \in {1} \union opts.partition
    BY <1>2, <1>8 DEF InTable, partition
  <2>2. Entry \in Genuine(image)
    BY <1>1, <2>1 DEF AsksGenuine, Entry, Genuine
  <2>3. Entry.base \in Nat
    BY <1>2, <2>1, HeaderTyped DEF Entry
  <2> QED
    BY <1>1, <2>2, <2>3 DEF WellMade, Headers
<1> HIDE DEF len, max
<1>9. CASE PlanNcch
  <2>1. Part = image.parts[1] /\ image.parts[1].base = 0
    BY <1>9, FirstPart DEF PlanNcch, Part
  <2> QED
    BY <1>6, <2>1 DEF Legible
<1>10. CASE PlanNcsd
  <2>1. Part = Entry /\ Keeps(File, Entry.base)
    BY <1>10 DEF PlanNcsd, Part, Entry, partition
  <2> QED
    BY <1>6, <2>1 DEF Legible
<1>11. CASE PlanMisread
  <2>1. PICK base \in Astray : TRUE
    BY <1>11 DEF PlanMisread
  <2>2. InTable /\ base = Entry.base /\ ~Keeps(File, base) /\ base \in 0 .. (len - 1)
    BY <1>7, <2>1 DEF Astray, len
  <2>3. base < len
    BY <1>3, <2>2
  <2> QED
    BY <1>4, <1>8, <2>2, <2>3
<1> QED
  BY <1>9, <1>10, <1>11 DEF Planning

(* Every step keeps OwnInv.                                                *)
LEMMA OwnStep ==
  ASSUME TypeOK, PadsReady, DumbInv, OwnWork(image), OwnInv, [Next]_vars
  PROVE  OwnInv'
<1>1. Heads(image', input') /\ Heads(image', output')
  BY HeadsStep
<1>2. pc' = "idle" <=> status' # "none"
  BY TypedStep DEF TypeOK
<1>3. opts \in Options /\ ~opts.dumb /\ WellMade(image) /\ AsksGenuine(opts, image)
  BY DEF OwnWork, InOrder, TypeOK
<1>4. OwnWorkInv'
  BY <1>3, OwnWorkStep DEF OwnInv, OwnWorkInv
<1>5. CASE pc' # "work" /\ status' # "ok"
  BY <1>1, <1>5 DEF OwnInv
<1>6. ASSUME UNCHANGED <<image, opts, before>>, pc' = "work", Legible
      PROVE  OwnInv'
  <2>1. Legible' /\ ~opts'.dumb
    BY <1>3, <1>6, LegibleKept
  <2> QED
    BY <1>1, <1>2, <1>4, <1>6, <2>1 DEF OwnInv, OwnWorkInv
<1>7. CASE UNCHANGED vars
  <2>1. UNCHANGED <<image, opts, before, pc, status, todo>>
    BY <1>7 DEF vars
  <2> QED
    BY <1>1, <2>1, LegibleKept DEF OwnInv
<1>8. CASE QuietStep \/ Open
  <2>1. pc' # "work" /\ status' # "ok"
    BY <1>2, <1>8, QuietSteps DEF Quiet, Open, Goto
  <2> QED
    BY <1>5, <2>1
<1>9. CASE Planning
  <2>1. /\ pc' = "work" /\ File = before /\ UNCHANGED <<image, opts, before>>
    BY <1>9 DEF Planning, PlanNcch, PlanNcsd, PlanMisread, Planned, Goto, DumbInv
  <2> QED
    BY <1>6, <1>9, <2>1, OwnHeaders
<1>10. CASE PlanDumb
  BY <1>3, <1>10 DEF PlanDumb, Goto, DumbInv
<1>11. CASE OpenPad \/ RefuseNothing \/ HashMatches \/ FilesMatch \/ XorSection
               \/ ReadExefs
  <2>1. pc = "work" /\ pc' = "work" /\ UNCHANGED <<image, opts, before>>
    BY <1>11 DEF OpenPad, RefuseNothing, HashMatches, FilesMatch, XorSection,
       ReadExefs, Doing, StepDone, frame
  <2> QED
    BY <1>6, <2>1 DEF OwnInv
<1>12. CASE Finish
  <2>1. pc = "work" /\ UNCHANGED <<image, opts, before>> /\ pc' = "idle"
    BY <1>12 DEF Finish, Exit, frame
  <2> QED
    BY <1>1, <2>1, LegibleKept DEF OwnInv
<1> QED
  BY <1>7, <1>8, <1>9, <1>10, <1>11, <1>12, OtherSteps

(* Before the first invocation nothing has been done to the file.          *)
LEMMA InitOwn ==
  ASSUME Init, OwnWork(image)
  PROVE  OwnInv /\ DumbInv
<1>1. /\ image.cipher[1] = image.plain[1]
      /\ \A p \in Genuine(image) : image.cipher[p.base + 1] = image.plain[p.base + 1]
  BY DEF OwnWork, WellMade
<1>2. Heads(image, image.cipher)
  BY <1>1 DEF Heads, Headers
<1>3. Heads(image, <<>>)
  <2>1. Len(<<>>) = 0 /\ \A i \in 1 .. 0 : FALSE
    OBVIOUS
  <2> QED
    BY <2>1 DEF Heads
<1> QED
  BY <1>2, <1>3 DEF Init, OwnInv, DumbInv, DumbXorsWholeFile

-----------------------------------------------------------------------------
(* With its own pads, what the program does to a unit it can undo.         *)

(* The units that some call may write besides those it is asked to.        *)
Spilled(m) == UNION { Spill(c) : c \in AllCalls(m) }

(* Any other is encrypted or decrypted.                                    *)
Cells(m, f) ==
  \A i \in 1 .. Len(f) : i \notin Spilled(m) =>
    i \in 1 .. Len(m.plain) /\ (f[i] = m.cipher[i] \/ f[i] = m.plain[i])

CellsInv ==
  /\ Cells(image, input) /\ Cells(image, output)
  /\ Len(input) >= Len(image.cipher)

(* Nothing is XORed without a pad, and that is the argument's own.         *)
LEMMA OwnPad ==
  ASSUME TypeOK, PadsReady, OwnPads(opts), XorSection \/ XorInterrupted
  PROVE  Pad(Head(todo).arg) = image.pads[Head(todo).arg]
<1>1. todo \in Seq(Steps) /\ todo # <<>> /\ Head(todo).kind = "xor"
  BY DEF TypeOK, XorSection, XorInterrupted, Doing
<1>2. Uses(Head(todo)) \subseteq Given
  BY <1>1, TailReady DEF PadsReady
<1>3. Head(todo).arg \in Given
  BY <1>1, <1>2 DEF Uses
<1> QED
  BY <1>3 DEF Given, Supplied, OwnPads, Pad

(* Encrypting what is decrypted, and decrypting what is encrypted.         *)
LEMMA Toggles ==
  ASSUME NEW m, IsImage(m), WellMade(m), NEW p \in Genuine(m), NEW c \in Calls(p),
         NEW u \in Units(c)
  PROVE  LET k == Key(m.pads[c.arg], c, u)
         IN Xor(m.cipher[u], k) = m.plain[u] /\ Xor(m.plain[u], k) = m.cipher[u]
<1> DEFINE k == Key(m.pads[c.arg], c, u) x == m.plain[u]
<1>1. x \in Byte /\ k \in Byte /\ m.cipher[u] = Xor(x, k)
  BY WellEncrypted DEF Key
<1> HIDE DEF k, x
<1>2. Xor(Xor(x, k), k) = x
  BY <1>1, XorLaws
<1> QED
  BY <1>1, <1>2 DEF k, x

(* No part of a call with the right pad makes anything else of a unit.     *)
LEMMA CellsWritten ==
  ASSUME NEW m, IsImage(m), WellMade(m), NEW p \in Genuine(m), NEW c \in Calls(p),
         NEW f \in Seq(Byte), NEW g, Cells(m, f),
         Written(f, g, m.pads[c.arg], c, FALSE)
  PROVE  Cells(m, g)
<1> SUFFICES ASSUME NEW i \in 1 .. Len(g), i \notin Spilled(m)
             PROVE  /\ i \in 1 .. Len(m.plain)
                    /\ g[i] = m.cipher[i] \/ g[i] = m.plain[i]
  BY DEF Cells
<1>1. i \notin Spill(c)
  BY DEF Spilled, AllCalls
<1>2. CASE i \notin Units(c)
  <2>1. i \in 1 .. Len(f) /\ g[i] = f[i]
    BY <1>1, <1>2 DEF Written
  <2> QED
    BY <2>1 DEF Cells
<1>3. CASE i \in Units(c)
  <2> DEFINE k == Key(m.pads[c.arg], c, i)
  <2>1. i \in 1 .. Len(f) /\ (g[i] = f[i] \/ g[i] = Xor(f[i], k))
    BY <1>3 DEF Written
  <2>2. i \in 1 .. Len(m.plain) /\ (f[i] = m.cipher[i] \/ f[i] = m.plain[i])
    BY <2>1 DEF Cells
  <2>3. Xor(m.cipher[i], k) = m.plain[i] /\ Xor(m.plain[i], k) = m.cipher[i]
    BY <1>3, Toggles
  <2> QED
    BY <2>1, <2>2, <2>3
<1> QED
  BY <1>2, <1>3

(* Nor does copying.                                                       *)
LEMMA CellsCopied ==
  ASSUME NEW m, NEW f \in Seq(Byte), Cells(m, f), NEW n \in 0 .. Len(f)
  PROVE  Cells(m, SubSeq(f, 1, n))
<1> DEFINE g == SubSeq(f, 1, n)
<1>1. g \in Seq(Byte) /\ Len(g) = n /\ \A i \in 1 .. n : g[i] = f[i]
  BY PrefixProperties
<1>2. n \in Nat /\ Len(f) \in Nat /\ n <= Len(f)
  OBVIOUS
<1> HIDE DEF g
<1>3. \A i \in 1 .. Len(g) : i \in 1 .. Len(f) /\ g[i] = f[i]
  BY <1>1, <1>2
<1>4. Cells(m, g)
  BY <1>3 DEF Cells
<1> QED
  BY <1>4 DEF g

(* The input file does not get shorter.                                    *)
LEMMA InputGrows ==
  ASSUME TypeOK, PadsReady, [Next]_vars
  PROVE  Len(input) <= Len(input')
<1>0. CASE input' = input
  <2>1. Len(input) \in Nat
    BY DEF TypeOK
  <2>2. Len(input) <= Len(input)
    BY <2>1
  <2> QED
    BY <1>0, <2>2
<1>1. CASE (XorSection \/ XorInterrupted) /\ target = "input"
  <2>1. \E pad, c, whole : Written(File, File', pad, c, whole)
    BY <1>1, CallDone, CallCut
  <2>2. File = input /\ File' = input'
    BY <1>1 DEF File, XorSection, XorInterrupted, frame
  <2> QED
    BY <2>1, <2>2 DEF Written
<1>2. CASE (XorSection \/ XorInterrupted) /\ target # "input"
  BY <1>0, <1>2 DEF XorSection, XorInterrupted, WriteFile
<1>3. CASE Next /\ input' # input
  <2>1. CASE Work /\ ~XorSection
    BY <1>3, <2>1 DEF Work, OpenPad, RefuseNothing, BadArgument, XorOutOfBounds,
       HashMatches, HashDiffers, ReadPastEnd, ReadExefs, NoCode, FilesMatch,
       FileDiffers, Finish
  <2>2. CASE Step /\ ~Work
    BY <1>3, <2>2 DEF Step, ShowHelp, ChooseInplace, ChooseOutput, CopyInput, Open,
       PlanNcch, PlanNcsd, PlanMisread, Planned, HeaderMissing, UnknownContainer, PlanDumb,
       DumbPadMissing
  <2>3. CASE Environment /\ ~XorInterrupted
    BY <1>3, <2>3 DEF Environment, Invoke, RemoveOutput, CopyFails, Killed, IoError
  <2> QED
    BY <1>1, <1>2, <1>3, <2>1, <2>2, <2>3 DEF Next, Step
<1> QED
  BY <1>0, <1>3 DEF vars

(* Every step keeps CellsInv.                                              *)
LEMMA CellsStep ==
  ASSUME TypeOK, PadsReady, OwnWork(image), OwnPads(opts), OwnInv, CellsInv, [Next]_vars
  PROVE  CellsInv'
<1> PICK m : m = image
  OBVIOUS
<1> DEFINE G == { f \in Seq(Byte) : Cells(m, f) }
<1>1. image' = m /\ IsImage(m)
  BY ImageFrozen, ImagesAssumption DEF TypeOK
<1>2. input \in G /\ output \in G
  BY DEF CellsInv, TypeOK
<1>3. <<>> \in G
  <2>1. <<>> \in Seq(Byte) /\ Len(<<>>) = 0
    OBVIOUS
  <2>2. \A i \in 1 .. 0 : FALSE
    OBVIOUS
  <2>3. Cells(m, <<>>)
    BY <2>1, <2>2 DEF Cells
  <2> QED
    BY <2>1, <2>3
<1>4. \A f \in G : \A n \in 0 .. Len(f) : SubSeq(f, 1, n) \in G
  BY CellsCopied, PrefixProperties
<1>5. ASSUME XorSection \/ XorInterrupted,
             NEW g, Written(File, g, Pad(Head(todo).arg), Head(todo), FALSE)
      PROVE  g \in G
  <2>1. Part \in Genuine(m) /\ Head(todo) \in Calls(Part)
    BY <1>5, OwnCall DEF OwnInv, XorSection, XorInterrupted, Doing
  <2>2. File \in Seq(Byte) /\ Cells(m, File)
    BY FileTyped DEF CellsInv, File
  <2>3. WellMade(m) /\ Pad(Head(todo).arg) = m.pads[Head(todo).arg]
    BY <1>5, OwnPad DEF OwnWork
  <2>5. Written(File, g, m.pads[Head(todo).arg], Head(todo), FALSE)
    BY <1>5, <2>3
  <2> DEFINE c == Head(todo) f == File
  <2>4. Cells(m, g)
    <3> HIDE DEF c, f
    <3>1. /\ Part \in Genuine(m) /\ c \in Calls(Part) /\ f \in Seq(Byte)
          /\ Cells(m, f) /\ Written(f, g, m.pads[c.arg], c, FALSE)
          /\ IsImage(m) /\ WellMade(m)
      BY <1>1, <2>1, <2>2, <2>3, <2>5 DEF c, f
    <3> QED
      BY <3>1, CellsWritten
  <2> QED
    BY <1>5, <2>4 DEF Written
<1> HIDE DEF G
<1>6. input' \in G /\ output' \in G
  BY <1>2, <1>3, <1>4, <1>5, GoodFiles
<1>7. Cells(image', input') /\ Cells(image', output')
  BY <1>1, <1>6 DEF G
<1>8. Len(input') >= Len(image'.cipher)
  <2> DEFINE x == Len(input) y == Len(input') z == Len(m.cipher)
  <2>1. x <= y /\ x >= z
    BY InputGrows DEF CellsInv
  <2>2. x \in Nat /\ y \in Nat /\ z \in Nat
    <3>1. input' \in Seq(Byte)
      BY TypedStep DEF TypeOK
    <3> QED
      BY <1>1, <3>1 DEF IsImage, TypeOK
  <2> HIDE DEF x, y, z
  <2>3. y >= z
    BY <2>1, <2>2
  <2> QED
    BY <1>1, <2>3 DEF y, z
<1> QED
  BY <1>7, <1>8 DEF CellsInv

(* Before the first invocation the file is encrypted.                      *)
LEMMA InitCells ==
  ASSUME Init, WellMade(image)
  PROVE  CellsInv
<1>1. image.cipher \in Seq(Byte) /\ Len(image.plain) = Len(image.cipher)
  BY ImagesAssumption DEF Init, IsImage, WellMade
<1>2. Cells(image, image.cipher)
  BY <1>1 DEF Cells
<1>3. Cells(image, <<>>)
  <2>1. Len(<<>>) = 0 /\ \A i \in 1 .. 0 : FALSE
    OBVIOUS
  <2> QED
    BY <2>1 DEF Cells
<1>4. Len(image.cipher) \in Nat
  BY <1>1
<1>5. Len(image.cipher) >= Len(image.cipher)
  BY <1>4
<1> QED
  BY <1>2, <1>3, <1>5 DEF Init, CellsInv

(* However often the program is run, killed and run again, with some of    *)
(* the image's own pads or all, the units out of reach of the last chunks  *)
(* are never anything but encrypted or decrypted: a call that is cut off   *)
(* leaves none of them in a state that another run cannot take up          *)
(* (main.rs:90-139, xor.rs:51-67).                                         *)
THEOREM UnitsCipherOrPlain ==
  ASSUME \A m \in Images : /\ WellMade(m) /\ Guarded(m)
                           /\ \A o \in Options : InOrder(o, m),
         \A o \in Options : OwnPads(o)
  PROVE  Spec => []CipherOrPlain
<1>1. TypeOK => OwnWork(image) /\ OwnPads(opts) /\ WellMade(image)
  BY DEF TypeOK, OwnWork
<1>2. Init => TypeOK /\ PadsReady
  BY InitTyped
<1>3. Init => OwnInv /\ DumbInv /\ CellsInv
  BY <1>1, <1>2, InitOwn, InitCells
<1>4. TypeOK /\ PadsReady /\ [Next]_vars => TypeOK' /\ PadsReady'
  BY TypedStep
<1>5. TypeOK /\ PadsReady /\ DumbInv /\ [Next]_vars => DumbInv'
  BY DumbStep
<1>6. TypeOK /\ PadsReady /\ DumbInv /\ OwnInv /\ [Next]_vars => OwnInv'
  BY <1>1, OwnStep
<1>7. TypeOK /\ PadsReady /\ OwnInv /\ CellsInv /\ [Next]_vars => CellsInv'
  BY <1>1, CellsStep
<1>8. TypeOK /\ CellsInv => CipherOrPlain
  <2> SUFFICES ASSUME TypeOK, CellsInv, NEW f \in {input, output}, NEW i \in DOMAIN f,
                      \A c \in AllCalls(image) : i \notin Spill(c)
               PROVE  i \in DOMAIN image.cipher /\ f[i] \in {image.cipher[i], image.plain[i]}
    BY DEF CipherOrPlain, CellsInv
  <2> DEFINE cipher == image.cipher
  <2>1. f \in Seq(Byte) /\ cipher \in Seq(Byte) /\ Len(image.plain) = Len(cipher)
    BY <1>1, ImagesAssumption DEF TypeOK, IsImage, WellMade
  <2>2. i \in 1 .. Len(f)
    BY <2>1
  <2>3. i \in 1 .. Len(image.plain) /\ (f[i] = cipher[i] \/ f[i] = image.plain[i])
    BY <2>2 DEF CellsInv, Cells, Spilled
  <2> HIDE DEF cipher
  <2>4. i \in DOMAIN cipher
    BY <2>1, <2>3
  <2> QED
    BY <2>3, <2>4 DEF cipher
<1> QED
  BY <1>2, <1>3, <1>4, <1>5, <1>6, <1>7, <1>8, PTL DEF Spec

-----------------------------------------------------------------------------
(* Areas of a file, unit by unit.                                          *)

(* An area is plain if its units are, and the other way round.             *)
LEMMA AreaUnits ==
  ASSUME NEW f \in Seq(Byte), NEW plain \in Seq(Byte), NEW pos \in Nat, NEW size \in Nat,
         pos + size <= Len(f), pos + size <= Len(plain)
  PROVE  SubSeq(f, pos + 1, pos + size) = SubSeq(plain, pos + 1, pos + size)
           <=> \A u \in (pos + 1) .. (pos + size) : f[u] = plain[u]
<1> DEFINE v == SubSeq(f, pos + 1, pos + size) w == SubSeq(plain, pos + 1, pos + size)
<1>1. /\ v \in Seq(Byte) /\ Len(v) = size /\ \A i \in 1 .. size : v[i] = f[pos + i]
      /\ w \in Seq(Byte) /\ Len(w) = size /\ \A i \in 1 .. size : w[i] = plain[pos + i]
  BY PartProperties
<1> HIDE DEF v, w
<1>2. ASSUME v = w, NEW u \in (pos + 1) .. (pos + size)
      PROVE  f[u] = plain[u]
  <2>1. u - pos \in 1 .. size /\ pos + (u - pos) = u
    OBVIOUS
  <2>2. v[u - pos] = f[pos + (u - pos)] /\ w[u - pos] = plain[pos + (u - pos)]
    BY <1>1, <2>1
  <2> QED
    BY <1>2, <2>1, <2>2
<1>3. ASSUME \A u \in (pos + 1) .. (pos + size) : f[u] = plain[u]
      PROVE  v = w
  <2>1. \A i \in 1 .. size : pos + i \in (pos + 1) .. (pos + size)
    OBVIOUS
  <2>2. \A i \in 1 .. size : v[i] = w[i]
    BY <1>1, <1>3, <2>1
  <2> QED
    BY <1>1, <2>2, SeqEqual
<1>4. v = w <=> \A u \in (pos + 1) .. (pos + size) : f[u] = plain[u]
  BY <1>2, <1>3
<1> QED
  BY <1>4 DEF v, w

(* The sections of a partition, and what is hashed of them, lie in the     *)
(* image.                                                                  *)
LEMMA AreasInImage ==
  ASSUME NEW m, IsImage(m), WellMade(m), NEW p \in Genuine(m)
  PROVE  /\ \A s \in Sections(p) : /\ s.pos \in Nat /\ s.size \in Nat
                                   /\ s.pos + s.size <= Len(m.plain)
         /\ \A a \in Hashed(p) : /\ a.pos \in Nat /\ a.size \in Nat
                                 /\ a.pos + a.size <= Len(m.plain)
<1> DEFINE len == Len(m.plain)
<1>1. Sized(p) /\ m.plain \in Seq(Byte)
  BY WellSized
<1>2. len \in Nat
  BY <1>1
<1>3. ASSUME NEW s \in Sections(p)
      PROVE  s.pos \in Nat /\ s.size \in Nat /\ s.pos + s.size <= len
  <2>1. s.pos \in Nat /\ s.size \in Nat
    BY <1>1, SectionPlaces
  <2>2. PICK c \in Calls(p) : c.file_pos + c.size = s.pos + s.size
    BY <1>1, SectionPlaces
  <2> DEFINE at == c.file_pos size == c.size
  <2>3. at \in Nat /\ size \in Nat /\ PartFits(len, at, size)
    BY WellEncrypted DEF IsCall
  <2> HIDE DEF len, at, size
  <2>4. at + size <= len
    BY <1>2, <2>3 DEF PartFits
  <2> QED
    BY <2>1, <2>2, <2>4 DEF at, size
<1>4. ASSUME NEW a \in Hashed(p)
      PROVE  a.pos \in Nat /\ a.size \in Nat /\ a.pos + a.size <= len
  <2>1. a.pos \in Nat /\ a.size \in Nat
    BY <1>1, HashedInSection
  <2>2. PICK s \in Sections(p) : s.pos <= a.pos /\ a.pos + a.size <= s.pos + s.size
    BY <1>1, HashedInSection
  <2> DEFINE x == a.pos + a.size y == s.pos + s.size
  <2>5. s.pos \in Nat /\ s.size \in Nat /\ y <= len
    BY <1>3
  <2>7. \A i, j \in Nat : i + j \in Nat
    OBVIOUS
  <2>6. x \in Nat /\ y \in Nat
    BY <2>1, <2>5, <2>7
  <2>3. x \in Nat /\ y \in Nat /\ x <= y /\ y <= len
    BY <2>2, <2>5, <2>6
  <2> HIDE DEF x, y, len
  <2>4. x <= len
    BY <1>2, <2>3
  <2> QED
    BY <2>1, <2>4 DEF x
<1> QED
  BY <1>3, <1>4

(* Once every call has been done, every section is plain.                  *)
LEMMA SectionsPlain ==
  ASSUME IsImage(image), WellMade(image), NEW p \in Genuine(image),
         NEW f \in Seq(Byte), Len(image.plain) <= Len(f),
         \A c \in Calls(p) : \A u \in Units(c) : f[u] = image.plain[u]
  PROVE  \A s \in Sections(p) : IsPlain(f, s.pos, s.size)
<1> SUFFICES ASSUME NEW s \in Sections(p)
             PROVE  IsPlain(f, s.pos, s.size)
  OBVIOUS
<1>1. Sized(p) /\ image.plain \in Seq(Byte)
  BY WellSized
<1>2. s.pos \in Nat /\ s.size \in Nat /\ s.pos + s.size <= Len(image.plain)
  BY AreasInImage
<1>3. \A u \in (s.pos + 1) .. (s.pos + s.size) : f[u] = image.plain[u]
  BY <1>1, SectionPlaces
<1> DEFINE plain == image.plain pos == s.pos size == s.size
<1>4. plain \in Seq(Byte) /\ pos \in Nat /\ size \in Nat /\ pos + size <= Len(plain)
      /\ Len(plain) <= Len(f) /\ \A u \in (pos + 1) .. (pos + size) : f[u] = plain[u]
  BY <1>1, <1>2, <1>3
<1> HIDE DEF plain, pos, size
<1>5. pos + size <= Len(f)
  BY <1>4
<1>6. SubSeq(f, pos + 1, pos + size) = SubSeq(plain, pos + 1, pos + size)
  BY <1>4, <1>5, AreaUnits
<1> QED
  BY <1>6 DEF IsPlain, plain, pos, size

(* What a hash has found plain is plain unit by unit.                      *)
LEMMA HashedUnitsPlain ==
  ASSUME IsImage(image), WellMade(image), NEW p \in Genuine(image),
         NEW f \in Seq(Byte), Len(image.plain) <= Len(f),
         NEW a \in Hashed(p), NEW u, u \in Int, a.pos < u, u <= a.pos + a.size
  PROVE  IsPlain(f, a.pos, a.size) => f[u] = image.plain[u]
<1>1. image.plain \in Seq(Byte)
  BY WellSized
<1>2. a.pos \in Nat /\ a.size \in Nat /\ a.pos + a.size <= Len(image.plain)
  BY AreasInImage
<1> DEFINE plain == image.plain pos == a.pos size == a.size
<1>3. plain \in Seq(Byte) /\ pos \in Nat /\ size \in Nat /\ pos + size <= Len(plain)
      /\ Len(plain) <= Len(f) /\ pos < u /\ u <= pos + size
  BY <1>1, <1>2
<1> HIDE DEF plain, pos, size
<1>4. pos + size <= Len(f) /\ u \in (pos + 1) .. (pos + size)
  BY <1>3
<1>5. SubSeq(f, pos + 1, pos + size) = SubSeq(plain, pos + 1, pos + size)
        => f[u] = plain[u]
  BY <1>3, <1>4, AreaUnits
<1> QED
  BY <1>5 DEF IsPlain, plain, pos, size

-----------------------------------------------------------------------------
(* A file that has not been left half-written.                             *)

(* All that a call decrypts is encrypted, or all of it is decrypted.       *)
InPhase(m, f, c) == \/ \A u \in Units(c) : f[u] = m.cipher[u]
                    \/ \A u \in Units(c) : f[u] = m.plain[u]

Whole(m, f) == Len(m.plain) <= Len(f) /\ \A c \in AllCalls(m) : InPhase(m, f, c)

PhaseInv ==
  /\ "input" \notin torn => Whole(image, input)
  /\ has_output /\ "output" \notin torn => Whole(image, output)

(* The output exists once it has been opened.                              *)
OutputInv ==
  target = "output" /\ (pc \in {"open", "magic", "dumb", "work"} \/ status = "ok")
    => has_output

(* Two calls for an image decrypt the same, or nothing in common.          *)
LEMMA AllCallsApart ==
  ASSUME NEW m, IsImage(m), WellMade(m), NEW p \in Genuine(m), NEW c \in Calls(p),
         NEW d \in AllCalls(m), c # d
  PROVE  Units(d) \intersect Units(c) = {}
<1>1. PICK q \in Genuine(m) : d \in Calls(q)
  BY DEF AllCalls
<1>2. CASE p # q
  BY <1>1, <1>2 DEF WellMade
<1>3. CASE p = q
  <2>1. Sized(p) /\ d \in Calls(p)
    BY <1>1, <1>3, WellSized
  <2>2. Apart(c, d) /\ IsCall(c) /\ IsCall(d)
    BY <2>1, CallsApart, CallPlaces
  <2>3. Units(c) \intersect Units(d) = {}
    BY <2>2, UnitsApart
  <2> QED
    BY <2>3
<1> QED
  BY <1>2, <1>3

(* A call that is carried out with its own pad toggles all it decrypts.    *)
LEMMA WholeWritten ==
  ASSUME NEW m, IsImage(m), WellMade(m), Roomy(m), NEW p \in Genuine(m),
         NEW c \in Calls(p), NEW f \in Seq(Byte), NEW g, Whole(m, f),
         Written(f, g, m.pads[c.arg], c, TRUE)
  PROVE  Whole(m, g)
<1>1. Len(m.plain) <= Len(g)
  <2>1. m.plain \in Seq(Byte) /\ g \in Seq(Byte) /\ Len(f) <= Len(g)
        /\ Len(m.plain) <= Len(f)
    BY DEF IsImage, Written, Whole
  <2> DEFINE x == Len(m.plain) y == Len(f) z == Len(g)
  <2>2. x \in Nat /\ y \in Nat /\ z \in Nat /\ x <= y /\ y <= z
    BY <2>1
  <2> HIDE DEF x, y, z
  <2>3. x <= z
    BY <2>2
  <2> QED
    BY <2>3 DEF x, z
<1>2. ASSUME NEW d \in AllCalls(m)
      PROVE  InPhase(m, g, d)
  <2>1. CASE d = c
    <3>1. \A u \in Units(c) :
            LET k == Key(m.pads[c.arg], c, u)
            IN /\ g[u] = Xor(f[u], k)
               /\ Xor(m.cipher[u], k) = m.plain[u] /\ Xor(m.plain[u], k) = m.cipher[u]
      BY Toggles DEF Written
    <3>2. InPhase(m, f, c)
      BY <1>2, <2>1 DEF Whole
    <3> QED
      BY <2>1, <3>1, <3>2 DEF InPhase
  <2>2. CASE d # c
    <3>1. c \in AllCalls(m)
      BY DEF AllCalls
    <3>2. ASSUME NEW u \in Units(d)
          PROVE  g[u] = f[u]
      <4>1. u \notin Units(c) /\ u \notin Spill(c)
        BY <2>2, <3>1, AllCallsApart DEF Roomy
      <4>2. u \in 1 .. Len(m.plain)
        BY WellEncrypted DEF AllCalls
      <4> DEFINE x == Len(m.plain) z == Len(g)
      <4>3. x \in Nat /\ z \in Nat /\ x <= z
        BY <1>1 DEF IsImage, Written
      <4>4. u \in 1 .. x
        BY <4>2
      <4> HIDE DEF x, z
      <4>5. u \in 1 .. z
        BY <4>3, <4>4
      <4> QED
        BY <4>1, <4>5 DEF Written, z
    <3>3. InPhase(m, f, d)
      BY DEF Whole
    <3> QED
      BY <3>2, <3>3 DEF InPhase
  <2> QED
    BY <2>1, <2>2
<1> QED
  BY <1>1, <1>2 DEF Whole

(* Every step keeps PhaseInv.                                              *)
LEMMA PhaseStep ==
  ASSUME TypeOK, PadsReady, OwnWork(image), Roomy(image), OwnPads(opts), OwnInv, PhaseInv,
         [Next]_vars
  PROVE  PhaseInv'
<1>0. image' = image /\ IsImage(image)
  BY ImageFrozen, ImagesAssumption DEF TypeOK
<1> DEFINE same == UNCHANGED <<input, output, has_output, torn>>
<1>1. CASE same
  BY <1>0, <1>1 DEF PhaseInv
<1>2. CASE RemoveOutput
  BY <1>0, <1>2 DEF PhaseInv, RemoveOutput
<1>3. CASE CopyInput
  BY <1>0, <1>3 DEF PhaseInv, CopyInput
<1>4. CASE CopyFails
  BY <1>0, <1>4 DEF PhaseInv, CopyFails
<1>5. CASE XorSection
  <2> DEFINE c == Head(todo) f == File g == File'
  <2>1. Part \in Genuine(image) /\ c \in Calls(Part)
    BY <1>5, OwnCall DEF OwnInv, XorSection, Doing
  <2>2. Pad(c.arg) = image.pads[c.arg] /\ Written(f, g, Pad(c.arg), c, TRUE)
    BY <1>5, OwnPad, CallDone
  <2>3. Written(f, g, image.pads[c.arg], c, TRUE)
    BY <2>2
  <2>4. f \in Seq(Byte)
    BY FileTyped
  <2>5. Whole(image, f) => Whole(image, g)
    <3> HIDE DEF c, f, g
    <3> QED
      BY <1>0, <2>1, <2>3, <2>4, WholeWritten DEF OwnWork
  <2>6. /\ UNCHANGED <<target, has_output, torn>>
        /\ target = "input" => f = input /\ g = input' /\ output' = output
        /\ target = "output" => f = output /\ g = output' /\ input' = input
    BY <1>5 DEF XorSection, WriteFile, File, frame
  <2>7. target \in {"input", "output"}
    BY DEF TypeOK
  <2> HIDE DEF f, g
  <2> QED
    BY <1>0, <2>5, <2>6, <2>7 DEF PhaseInv
<1>6. CASE XorInterrupted
  <2>1. /\ UNCHANGED has_output /\ torn' = torn \union {target}
        /\ target = "input" => output' = output
        /\ target = "output" => input' = input
    BY <1>6 DEF XorInterrupted, WriteFile, frame
  <2>2. target \in {"input", "output"}
    BY DEF TypeOK
  <2> QED
    BY <1>0, <2>1, <2>2 DEF PhaseInv
<1>7. CASE Work /\ ~XorSection
  <2>1. same
    BY <1>7 DEF Work, OpenPad, RefuseNothing, BadArgument, XorOutOfBounds,
       HashMatches, HashDiffers, ReadPastEnd, ReadExefs, NoCode, FilesMatch,
       FileDiffers, Finish, frame
  <2> QED
    BY <1>1, <2>1
<1>8. CASE Step /\ ~Work /\ ~CopyInput /\ ~Planning
  <2>1. same
    BY <1>8 DEF Step, Planning, ShowHelp, ChooseInplace, ChooseOutput, Open,
       HeaderMissing, UnknownContainer, PlanDumb, DumbPadMissing
  <2> QED
    BY <1>1, <2>1
<1>10. CASE Planning
  <2>1. UNCHANGED <<input, output, has_output>> /\ torn' \in {torn, torn \union {target}}
    BY <1>10 DEF Planning, PlanNcch, PlanNcsd, PlanMisread, Planned
  <2> QED
    BY <1>0, <2>1 DEF PhaseInv
<1>9. CASE Invoke \/ Killed \/ IoError \/ UNCHANGED vars
  <2>1. same
    BY <1>9 DEF Invoke, Killed, IoError, frame, vars
  <2> QED
    BY <1>1, <2>1
<1> QED
  BY <1>2, <1>3, <1>4, <1>5, <1>6, <1>7, <1>8, <1>9, <1>10 DEF Next, Step, Environment

(* Every step keeps OutputInv.                                             *)
LEMMA OutputStep ==
  ASSUME TypeOK, PadsReady, OutputInv, [Next]_vars
  PROVE  OutputInv'
<1>0. pc' = "idle" <=> status' # "none"
  BY TypedStep DEF TypeOK
<1>1. CASE UNCHANGED vars
  BY <1>1 DEF OutputInv, vars
<1>2. CASE QuietStep
  <2>1. Quiet'
    BY <1>2, QuietSteps
  <2>2. CASE pc' # "open"
    BY <1>0, <2>1, <2>2 DEF Quiet, OutputInv
  <2>3. CASE pc' = "open"
    <3>1. ChooseInplace \/ ChooseOutput \/ CopyInput
      BY <1>2, <2>3 DEF QuietStep, Invoke, RemoveOutput, CopyFails, XorInterrupted,
         Killed, IoError, ShowHelp, HeaderMissing, UnknownContainer, DumbPadMissing,
         BadArgument, XorOutOfBounds, HashDiffers, ReadPastEnd, NoCode, FileDiffers, Exit
    <3> QED
      BY <2>3, <3>1 DEF ChooseInplace, ChooseOutput, CopyInput, Goto, OutputInv
  <2> QED
    BY <2>2, <2>3
<1>3. CASE Open \/ Planning \/ PlanDumb
  <2>1. /\ UNCHANGED <<has_output, target, status>>
        /\ pc \in {"open", "magic", "dumb", "work"}
    BY <1>3 DEF Open, Planning, PlanNcch, PlanNcsd, PlanMisread, Planned, PlanDumb, Goto
  <2> QED
    BY <2>1 DEF OutputInv
<1>4. CASE OpenPad \/ RefuseNothing \/ HashMatches \/ FilesMatch \/ XorSection
             \/ ReadExefs \/ Finish
  <2>1. UNCHANGED <<has_output, target>> /\ pc = "work"
    BY <1>4 DEF OpenPad, RefuseNothing, HashMatches, FilesMatch, XorSection,
       ReadExefs, Finish, Doing, frame
  <2> QED
    BY <2>1 DEF OutputInv
<1> QED
  BY <1>1, <1>2, <1>3, <1>4, OtherSteps

(* Before the first invocation the file is whole.                          *)
LEMMA InitPhase ==
  ASSUME Init, WellMade(image)
  PROVE  PhaseInv /\ OutputInv
<1>1. Len(image.plain) = Len(image.cipher) /\ image.cipher \in Seq(Byte)
  BY ImagesAssumption DEF Init, IsImage, WellMade
<1>2. Len(image.plain) <= Len(image.cipher)
  <2>1. Len(image.cipher) \in Nat
    BY <1>1
  <2>2. Len(image.cipher) <= Len(image.cipher)
    BY <2>1
  <2> QED
    BY <1>1, <2>2
<1>3. Whole(image, image.cipher)
  BY <1>2 DEF Whole, InPhase
<1> QED
  BY <1>3 DEF Init, PhaseInv, OutputInv

(* A call that a hash vouches for has been done to its last unit.          *)
LEMMA VouchedFor ==
  ASSUME IsImage(image), WellMade(image), Telling(image), NEW p \in Genuine(image),
         NEW f \in Seq(Byte), Whole(image, f),
         \A a \in Hashed(p) : IsPlain(f, a.pos, a.size),
         NEW c \in Calls(p), NEW u \in Units(c)
  PROVE  f[u] = image.plain[u]
<1>1. IsCall(c) /\ c \in AllCalls(image)
  BY WellEncrypted
<1>2. c.size # 0
  <2>1. c.file_pos \in Nat /\ c.size \in Nat
    BY <1>1 DEF IsCall
  <2> DEFINE at == c.file_pos size == c.size
  <2>2. u \in (at + 1) .. (at + size)
    BY DEF Units
  <2> HIDE DEF at, size
  <2>3. size # 0
    BY <2>1, <2>2 DEF at, size
  <2> QED
    BY <2>3 DEF size
<1>3. PICK v \in Units(c), a \in Hashed(p) : /\ a.pos < v /\ v <= a.pos + a.size
                                             /\ image.cipher[v] # image.plain[v]
  BY <1>2 DEF Telling
<1>4. v \in Int
  BY <1>1, WellEncrypted
<1>5. f[v] = image.plain[v]
  BY <1>3, <1>4, HashedUnitsPlain DEF Whole
<1>6. InPhase(image, f, c)
  BY <1>1 DEF Whole
<1> QED
  BY <1>3, <1>5, <1>6 DEF InPhase

(* On an image with room between its sections, success means that every    *)
(* section is decrypted to its last unit, unless the file was left         *)
(* half-written or some call decrypts nothing that a hash can tell: the    *)
(* hashes, which cover only the beginning of a section, are then as good   *)
(* as hashes of all of it (main.rs:39-88, ncch.rs verify_hashes).          *)
THEOREM SuccessIsPlaintext ==
  ASSUME \A m \in Images : WellMade(m) /\ Roomy(m) /\ \A o \in Options : InOrder(o, m),
         \A o \in Options : OwnPads(o)
  PROVE  Spec => []UntornOkIsPlaintext
<1>1. TypeOK => /\ OwnWork(image) /\ Roomy(image) /\ OwnPads(opts) /\ WellMade(image)
                /\ IsImage(image)
  BY ImagesAssumption DEF TypeOK, OwnWork, Roomy
<1>2. Init => TypeOK /\ PadsReady
  BY InitTyped
<1>3. Init => OwnInv /\ DumbInv /\ PhaseInv /\ OutputInv /\ VerifiedInv
  <2>1. Init => OwnInv /\ DumbInv /\ PhaseInv /\ OutputInv
    BY <1>1, <1>2, InitOwn, InitPhase
  <2>2. Init => VerifiedInv
    BY DEF Init, VerifiedInv, OkMeansVerified, Succeeded, Decrypting
  <2> QED
    BY <2>1, <2>2
<1>4. TypeOK /\ PadsReady /\ [Next]_vars => TypeOK' /\ PadsReady'
  BY TypedStep
<1>5. TypeOK /\ PadsReady /\ DumbInv /\ [Next]_vars => DumbInv'
  BY DumbStep
<1>6. TypeOK /\ PadsReady /\ DumbInv /\ OwnInv /\ [Next]_vars => OwnInv'
  BY <1>1, OwnStep
<1>7. TypeOK /\ PadsReady /\ OwnInv /\ PhaseInv /\ [Next]_vars => PhaseInv'
  BY <1>1, PhaseStep
<1>8. TypeOK /\ PadsReady /\ OutputInv /\ [Next]_vars => OutputInv'
  BY OutputStep
<1>9. TypeOK /\ PadsReady /\ DumbInv /\ VerifiedInv /\ [Next]_vars => VerifiedInv'
  BY VerifiedStep
<1>10. TypeOK /\ OwnInv /\ PhaseInv /\ OutputInv /\ VerifiedInv => UntornOkIsPlaintext
  <2> SUFFICES ASSUME TypeOK, OwnInv, PhaseInv, OutputInv, VerifiedInv,
                      Telling(image), Succeeded, Legible, target \notin torn
               PROVE  \A s \in Sections(Part) : IsPlain(File, s.pos, s.size)
    BY DEF UntornOkIsPlaintext
  <2>1. Part \in Genuine(image)
    BY DEF Succeeded, OwnInv
  <2>2. target \in {"input", "output"} /\ (target = "output" => has_output)
    BY DEF TypeOK, OutputInv, Succeeded
  <2>3. Whole(image, File)
    BY <2>2 DEF PhaseInv, File
  <2>4. \A a \in Hashed(Part) : IsPlain(File, a.pos, a.size)
    BY DEF VerifiedInv, OkMeansVerified
  <2>5. File \in Seq(Byte)
    BY FileTyped
  <2>6. \A c \in Calls(Part) : \A u \in Units(c) : File[u] = image.plain[u]
    BY <1>1, <2>1, <2>3, <2>4, <2>5, VouchedFor
  <2> QED
    BY <1>1, <2>1, <2>3, <2>5, <2>6, SectionsPlain DEF Whole
<1> QED
  BY <1>2, <1>3, <1>4, <1>5, <1>6, <1>7, <1>8, <1>9, <1>10, PTL DEF Spec

-----------------------------------------------------------------------------
(* A clean run: the right pads, on the encrypted file.                     *)
Clean ==
  /\ ~opts.dumb /\ before = image.cipher
  /\ image.kind = "NCSD" => InTable
  /\ Part.ncch.genuine /\ RightPads /\ Roomy(image)

(* Of a file f of the image m, with t left to do for p: what t covers is   *)
(* still encrypted, and the rest of p is decrypted.                        *)
InCourse(m, f, t, p) ==
  /\ Len(m.plain) <= Len(f)
  /\ \A c \in Calls(p) : \A u \in Units(c) :
       f[u] = IF Covered(t, u) THEN m.cipher[u] ELSE m.plain[u]

CourseInv ==
  Clean =>
    /\ pc = "magic" => File = before
    /\ pc = "work" => /\ Proper(todo, Part) /\ Ascending(todo)
                      /\ InCourse(image, File, todo, Part)
    /\ pc = "idle" /\ status \in {"ok", "hash", "panic"}
         => status = "ok" /\ InCourse(image, File, <<>>, Part)

(* The partition is one of the image's, if it is in the table.             *)
LEMMA CleanPart ==
  ASSUME TypeOK, image.kind = "NCSD" => InTable, Part.ncch.genuine
  PROVE  Part \in Genuine(image)
<1>1. image.kind \in {"NCCH", "NCSD"} /\ DOMAIN image.parts = 1 .. Len(image.parts)
  BY ImagesAssumption DEF TypeOK, IsImage
<1>2. Part \in { image.parts[j] : j \in DOMAIN image.parts }
  BY <1>1, FirstPart DEF Part, Entry, InTable
<1> QED
  BY <1>2 DEF Genuine

(* A clean run stays one as long as its command line does.                 *)
LEMMA CleanKept ==
  ASSUME UNCHANGED <<image, opts, before>>
  PROVE  Part' = Part /\ (Clean' <=> Clean)
<1>1. Part' = Part
  BY DEF Part, Entry, partition
<1>2. InTable' <=> InTable
  BY DEF InTable, partition
<1>3. RightPads' <=> RightPads
  BY <1>1 DEF RightPads, Supplied
<1> QED
  BY <1>1, <1>2, <1>3 DEF Clean

(* The pads a partition's calls take are wanted.                           *)
LEMMA CallWanted ==
  ASSUME NEW p, Sized(p), NEW c \in Calls(p)
  PROVE  c.arg \in Wanted(p.ncch)
<1>1. CASE ~IsCfa(p.ncch) /\ c = ExheaderCall(p)
  BY <1>1 DEF ExheaderCall, XorWith, Wanted
<1>2. CASE ~IsCfa(p.ncch) /\ c \in ExefsCalls(p) /\ p.ncch.extra_keyslot
  BY <1>2 DEF ExefsCalls, XorWith, Wanted
<1>3. CASE ~IsCfa(p.ncch) /\ c \in ExefsCalls(p) /\ ~p.ncch.extra_keyslot
  BY <1>3 DEF ExefsCalls, XorWith, Wanted
<1>4. CASE ~p.ncch.noromfs /\ c = RomfsCall(p)
  BY <1>4 DEF RomfsCall, XorWith, Wanted
<1> QED
  BY <1>1, <1>2, <1>3, <1>4, CallPlaces

(* What is wanted is given, and what is not is not.                        *)
LEMMA CleanPads ==
  ASSUME Clean
  PROVE  /\ \A a \in Wanted(Part.ncch) : Supplied(a) /\ Pad(a) = image.pads[a]
         /\ \A a \in Unwanted(Part.ncch) : ~Supplied(a)
<1> DEFINE n == Part.ncch
<1>1. RightPads
  BY DEF Clean
<1>2. \A a \in Wanted(n) : opts.pads[a] = a /\ a # "none"
  BY <1>1 DEF RightPads, Wanted
<1>3. \A a \in Unwanted(n) : ~Supplied(a)
  BY <1>1 DEF RightPads, Unwanted
<1> QED
  BY <1>2, <1>3 DEF Supplied, Pad

(* An area that is decrypted by some call, and by none that is left.       *)
LEMMA AreaDone ==
  ASSUME IsImage(image), WellMade(image), NEW p \in Genuine(image),
         NEW f \in Seq(Byte), NEW t, InCourse(image, f, t, p),
         NEW pos \in Nat, NEW size \in Nat, pos + size <= Len(image.plain),
         \A u \in (pos + 1) .. (pos + size) :
           ~Covered(t, u) /\ \E c \in Calls(p) : u \in Units(c)
  PROVE  IsPlain(f, pos, size)
<1> DEFINE plain == image.plain
<1>1. plain \in Seq(Byte)
  BY WellSized
<1>2. \A u \in (pos + 1) .. (pos + size) : f[u] = plain[u]
  BY DEF InCourse
<1>3. pos + size <= Len(plain) /\ Len(plain) <= Len(f)
  BY DEF InCourse
<1> HIDE DEF plain
<1>4. pos + size <= Len(f)
  BY <1>1, <1>3
<1>5. SubSeq(f, pos + 1, pos + size) = SubSeq(plain, pos + 1, pos + size)
  BY <1>1, <1>2, <1>3, <1>4, AreaUnits
<1> QED
  BY <1>5 DEF IsPlain, plain

(* A whole call takes what it covers out of the list.                      *)
LEMMA CourseXor ==
  ASSUME NEW m, IsImage(m), WellMade(m), Roomy(m), NEW p \in Genuine(m),
         NEW t \in Seq(Steps), t # <<>>, Head(t).kind = "xor",
         Proper(t, p), Ascending(t), NEW f \in Seq(Byte), NEW g, InCourse(m, f, t, p),
         Written(f, g, m.pads[Head(t).arg], Head(t), TRUE)
  PROVE  InCourse(m, g, Tail(t), p)
<1> DEFINE c == Head(t) v == Tail(t)
<1>1. c \in Calls(p)
  BY TailCourse DEF Belongs
<1>2. c \in AllCalls(m) /\ IsCall(c)
  BY <1>1, WellEncrypted
<1>3. Len(m.plain) <= Len(g)
  <2>1. m.plain \in Seq(Byte) /\ g \in Seq(Byte) /\ Len(f) <= Len(g)
        /\ Len(m.plain) <= Len(f)
    BY DEF IsImage, Written, InCourse
  <2> DEFINE x == Len(m.plain) y == Len(f) z == Len(g)
  <2>2. x \in Nat /\ y \in Nat /\ z \in Nat /\ x <= y /\ y <= z
    BY <2>1
  <2> HIDE DEF x, y, z
  <2>3. x <= z
    BY <2>2
  <2> QED
    BY <2>3 DEF x, z
<1>4. ASSUME NEW d \in Calls(p), NEW u \in Units(d)
      PROVE  g[u] = IF Covered(v, u) THEN m.cipher[u] ELSE m.plain[u]
  <2>1. f[u] = IF Covered(t, u) THEN m.cipher[u] ELSE m.plain[u]
    BY DEF InCourse
  <2>2. Covered(t, u) <=> Covers(c, u) \/ Covered(v, u)
    BY TailCourse
  <2>3. u \in 1 .. Len(m.plain) /\ d \in AllCalls(m)
    BY WellEncrypted
  <2>4. CASE u \in Units(c)
    <3>1. Covers(c, u)
      BY <2>4 DEF Covers
    <3>2. f[u] = m.cipher[u]
      BY <2>1, <2>2, <3>1
    <3>3. g[u] = m.plain[u]
      BY <1>1, <2>4, <3>2, Toggles DEF Written
    <3>4. u \in Int /\ u <= c.file_pos + c.size
      <4> DEFINE at == c.file_pos size == c.size
      <4>1. u \in (at + 1) .. (at + size) /\ at \in Nat /\ size \in Nat
        BY <1>2, <2>4 DEF Units, IsCall
      <4> HIDE DEF at, size
      <4>2. u \in Int /\ u <= at + size
        BY <4>1
      <4> QED
        BY <4>2 DEF at, size
    <3>5. ~Covered(v, u)
      BY <3>4, DoneNotCovered
    <3> QED
      BY <3>3, <3>5
  <2>5. CASE u \notin Units(c)
    <3>1. u \notin Spill(c)
      BY <1>2, <2>3 DEF Roomy
    <3>2. u \in 1 .. Len(g)
      <4> DEFINE x == Len(m.plain) z == Len(g)
      <4>1. x \in Nat /\ z \in Nat /\ x <= z
        BY <1>3 DEF IsImage, Written
      <4>2. u \in 1 .. x
        BY <2>3
      <4> HIDE DEF x, z
      <4>3. u \in 1 .. z
        BY <4>1, <4>2
      <4> QED
        BY <4>3 DEF z
    <3>3. g[u] = f[u]
      BY <2>5, <3>1, <3>2 DEF Written
    <3>4. ~Covers(c, u)
      BY <2>5 DEF Covers
    <3> QED
      BY <2>1, <2>2, <3>3, <3>4
  <2> QED
    BY <2>4, <2>5
<1> QED
  BY <1>3, <1>4 DEF InCourse

(* Reading an ExeFS header replaces what it covers by steps that cover it. *)
LEMMA CourseExefs ==
  ASSUME NEW p, Sized(p), ~IsCfa(p.ncch), p.ncch.extra_keyslot,
         NEW t \in Seq(Steps), t # <<>>, Head(t).kind = "exefs", Ascending(t),
         Head(t).ncch = p.ncch, Head(t).file_pos = p.base + p.ncch.exefs_offset
  PROVE  LET v == Join(CodeRegions(p.ncch, p.base + p.ncch.exefs_offset), Tail(t))
         IN Ascending(v) /\ \A u \in Int : Covered(v, u) <=> Covered(t, u)
<1> DEFINE h == Head(t) w == Tail(t) n == p.ncch pos == p.base + n.exefs_offset
           r == CodeRegions(n, pos) end == pos + n.exefs_size
<1>1. /\ r \in Seq(Steps) /\ Spans(r, pos + HEADER_SIZE, end)
      /\ \A u \in Int : Covered(r, u) <=> pos + HEADER_SIZE < u /\ u <= end
  BY RegionsCourse
<1>2. /\ w \in Seq(Steps) /\ Ascending(w)
      /\ \A j \in 1 .. Len(w) : Writes(w[j]) => EndsBy(h, Start(w[j]))
      /\ \A u : Covered(t, u) <=> Covers(h, u) \/ Covered(w, u)
  BY TailSteps, TailCourse
<1>3. h.kind = "exefs" /\ h.ncch = n /\ h.file_pos = pos
  OBVIOUS
<1>4. end \in Int
  <2>1. p.base \in Nat /\ n.exefs_offset \in Nat /\ n.exefs_size \in Nat
    BY SectionOrder
  <2>2. \A i, j, k \in Nat : i + j + k \in Int
    OBVIOUS
  <2> QED
    BY <2>1, <2>2
<1>5. \A u : Covers(h, u) <=> pos + HEADER_SIZE < u /\ u <= end
  BY <1>3 DEF Covers
<1>6. StartsPast(w, end)
  BY <1>2, <1>3 DEF StartsPast, EndsBy
<1>7. Ascending(r) /\ \A i \in 1 .. Len(r) : EndsBy(r[i], end)
  BY <1>1 DEF Spans, Between
<1> HIDE DEF r, w, end
<1>8. Ascending(Join(r, w))
  BY <1>1, <1>2, <1>4, <1>6, <1>7, JoinAscends
<1>9. \A u : Covered(Join(r, w), u) <=> Covered(r, u) \/ Covered(w, u)
  BY <1>1, <1>2, JoinProper
<1>10. \A u \in Int : Covered(Join(r, w), u) <=> Covered(t, u)
  BY <1>1, <1>2, <1>5, <1>9
<1> QED
  BY <1>8, <1>10 DEF r, w

(* A clean run in the middle of its work.                                  *)
OnCourse ==
  /\ Clean /\ pc = "work" /\ Proper(todo, Part) /\ Ascending(todo)
  /\ InCourse(image, File, todo, Part)

(* What there is to know of it.                                            *)
LEMMA CourseFacts ==
  ASSUME TypeOK, WellMade(image), OnCourse
  PROVE  /\ IsImage(image) /\ Part \in Genuine(image) /\ Sized(Part)
         /\ File \in Seq(Byte) /\ todo \in Seq(Steps)
         /\ InCourse(image, File, todo, Part)
         /\ todo # <<>> => Belongs(Head(todo), Part) /\ Head(todo) \in Steps
<1>1. IsImage(image) /\ todo \in Seq(Steps)
  BY ImagesAssumption DEF TypeOK
<1>2. Part \in Genuine(image)
  BY CleanPart DEF OnCourse, Clean
<1>3. Sized(Part)
  BY <1>1, <1>2, WellSized
<1>4. todo # <<>> => Belongs(Head(todo), Part) /\ Head(todo) \in Steps
  BY <1>1, TailCourse, TailSteps DEF OnCourse
<1> QED
  BY <1>1, <1>2, <1>3, <1>4, FileTyped DEF OnCourse

(* It is given what it asks for and nothing it refuses.                    *)
LEMMA NoBadArgument ==
  ASSUME TypeOK, WellMade(image), OnCourse
  PROVE  ~BadArgument
<1>1. todo # <<>> => Belongs(Head(todo), Part)
  BY CourseFacts
<1> QED
  BY <1>1, CleanPads DEF OnCourse, BadArgument, Doing, Belongs

(* What it is to XOR lies in the file and in the pad.                      *)
LEMMA NoOutOfBounds ==
  ASSUME TypeOK, WellMade(image), OnCourse
  PROVE  ~XorOutOfBounds
<1> SUFFICES ASSUME Doing("xor")
             PROVE  Fits(Head(todo))
  BY DEF XorOutOfBounds
<1> DEFINE c == Head(todo) x == Len(image.plain) y == Len(File)
           at == c.file_pos size == c.size
<1>1. c \in Calls(Part) /\ Part \in Genuine(image) /\ Sized(Part) /\ IsImage(image)
  BY CourseFacts DEF Doing, Belongs
<1>2. /\ IsCall(c) /\ PartFits(x, at, size)
      /\ PartFits(Len(image.pads[c.arg]), c.pad_pos, size)
  BY <1>1, WellEncrypted
<1>3. Pad(c.arg) = image.pads[c.arg]
  BY <1>1, CallWanted, CleanPads DEF OnCourse
<1>4. x \in Nat /\ y \in Nat /\ x <= y
  BY <1>1, FileTyped DEF IsImage, OnCourse, InCourse
<1>5. at \in Nat /\ size \in Nat
  BY <1>2 DEF IsCall
<1> HIDE DEF x, y, at, size
<1>6. PartFits(y, at, size) /\ size >= 0
  BY <1>2, <1>4, <1>5 DEF PartFits
<1> QED
  BY <1>2, <1>3, <1>6 DEF Fits, y, at, size

(* No hash of a section differs.                                           *)
LEMMA NoHashDiffers ==
  ASSUME TypeOK, WellMade(image), OnCourse
  PROVE  ~HashDiffers
<1> SUFFICES ASSUME Doing("hash")
             PROVE  LET s == Head(todo)
                    IN s.genuine /\ IsPlain(File, s.file_pos, s.size)
  BY DEF HashDiffers
<1> DEFINE s == Head(todo) pos == s.file_pos size == s.size
           a == [pos |-> pos, size |-> size]
<1>1. /\ IsImage(image) /\ Part \in Genuine(image) /\ Sized(Part)
      /\ File \in Seq(Byte) /\ todo \in Seq(Steps) /\ todo # <<>>
      /\ Belongs(s, Part) /\ s.kind = "hash" /\ InCourse(image, File, todo, Part)
      /\ Ascending(todo)
  BY CourseFacts DEF Doing, OnCourse
<1>2. s.genuine = Part.ncch.genuine /\ Part.ncch.genuine /\ a \in Hashed(Part)
  BY <1>1 DEF Belongs, OnCourse, Clean
<1>3. pos \in Nat /\ size \in Nat /\ pos + size <= Len(image.plain)
  <2>1. a.pos = pos /\ a.size = size
    OBVIOUS
  <2> QED
    BY <1>1, <1>2, <2>1, AreasInImage
<1>4. ASSUME NEW u \in (pos + 1) .. (pos + size)
      PROVE  ~Covered(todo, u) /\ \E c \in Calls(Part) : u \in Units(c)
  <2>1. \E c \in Calls(Part) : u \in Units(c)
    <3>1. a.pos = pos /\ a.size = size
      OBVIOUS
    <3> HIDE DEF a, pos, size
    <3>2. u \in (a.pos + 1) .. (a.pos + a.size)
      BY <3>1
    <3> QED
      BY <1>1, <1>2, <3>2, HashedUnits
  <2>2. u \in Int /\ u <= pos + size
    <3> HIDE DEF pos, size
    <3> QED
      BY <1>3
  <2>3. ~Covered(Tail(todo), u)
    BY <1>1, <2>2, DoneNotCovered
  <2>4. ~Covers(s, u)
    BY <1>1 DEF Covers
  <2> QED
    BY <1>1, <2>1, <2>3, <2>4, TailCourse
<1> HIDE DEF pos, size
<1>5. IsPlain(File, pos, size)
  BY <1>1, <1>3, <1>4, AreaDone
<1> QED
  BY <1>2, <1>5 DEF pos, size

(* The header of an ExeFS names its .code.                                 *)
LEMMA NoNoCode ==
  ASSUME TypeOK, WellMade(image), OnCourse
  PROVE  ~NoCode
<1> SUFFICES ASSUME Doing("exefs")
             PROVE  CodeFound(Head(todo))
  BY DEF NoCode
<1> DEFINE h == Head(todo) n == Part.ncch pos == Part.base + n.exefs_offset
           end == pos + n.exefs_size s == Area(Part, n.exefs_offset, n.exefs_size)
<1>1. /\ IsImage(image) /\ Part \in Genuine(image) /\ Sized(Part)
      /\ File \in Seq(Byte) /\ todo \in Seq(Steps) /\ todo # <<>>
      /\ Belongs(h, Part) /\ h.kind = "exefs" /\ InCourse(image, File, todo, Part)
      /\ Ascending(todo)
  BY CourseFacts DEF Doing, OnCourse
<1>2. /\ ~IsCfa(n) /\ n.extra_keyslot /\ h.file_pos = pos /\ h.ncch = n
  BY <1>1 DEF Belongs, AtExefs
<1>3. n.has_code
  BY <1>1, <1>2 DEF Sized
<1>4. s \in Sections(Part) /\ s.pos = pos /\ s.size = n.exefs_size
  BY <1>2 DEF Sections, Area
<1>5. pos \in Nat /\ n.exefs_size \in Nat /\ end <= Len(image.plain)
  BY <1>1, <1>4, AreasInImage
<1>6. HEADER_SIZE = 1 /\ HEADER_SIZE <= n.exefs_size
  BY <1>1, <1>2, CodePlace DEF HEADER_SIZE
<1>7. \A u \in (pos + 1) .. end : \E c \in Calls(Part) : u \in Units(c)
  BY <1>1, <1>4, SectionPlaces
<1>8. StartsPast(Tail(todo), end)
  BY <1>1, <1>2, TailCourse DEF StartsPast, EndsBy
<1>9. Tail(todo) \in Seq(Steps)
  BY <1>1, TailSteps
<1>10. h.kind = "exefs" /\ h.file_pos = pos
  BY <1>1, <1>2
<1> DEFINE size == n.exefs_size len == Len(image.plain)
<1>11. end = pos + size /\ end <= len /\ size >= 1 /\ pos \in Nat /\ size \in Nat
       /\ HEADER_SIZE = 1
  <2>1. size \in Nat /\ 1 <= size
    BY <1>5, <1>6
  <2> QED
    BY <1>5, <1>6, <2>1
<1>12. len \in Nat
  BY <1>1 DEF IsImage
<1> DEFINE w == Tail(todo)
<1>13. w \in Seq(Steps) /\ StartsPast(w, end)
       /\ \A u : Covered(todo, u) <=> Covers(h, u) \/ Covered(w, u)
  BY <1>1, <1>8, <1>9, TailCourse
<1>14. \A u \in (pos + 1) .. end : \E c \in Calls(Part) : u \in Units(c)
  BY <1>7
<1> HIDE DEF h, n, pos, end, size, len, w
<1>15. \A u \in Int : Covers(h, u) => pos + 1 < u
  BY <1>10, <1>11 DEF Covers
<1>16. end \in Int /\ pos + 1 \in Int /\ pos + 1 <= end /\ pos + 1 <= len
  BY <1>11, <1>12
<1>17. ASSUME NEW u \in (pos + 1) .. (pos + HEADER_SIZE)
       PROVE  ~Covered(todo, u) /\ \E c \in Calls(Part) : u \in Units(c)
  <2>1. u \in Int /\ u <= end /\ u \in (pos + 1) .. end /\ ~(pos + 1 < u)
    BY <1>11, <1>16
  <2>2. ~Covered(w, u)
    BY <1>13, <1>16, <2>1, NotCovered
  <2> QED
    BY <1>13, <1>14, <1>15, <2>1, <2>2
<1>18. HEADER_SIZE \in Nat /\ pos \in Nat /\ pos + HEADER_SIZE <= Len(image.plain)
  BY <1>11, <1>16 DEF len
<1>19. IsPlain(File, pos, HEADER_SIZE)
  BY <1>1, <1>17, <1>18, AreaDone
<1> QED
  BY <1>2, <1>3, <1>10, <1>19 DEF CodeFound, h, n, pos

(* Nor does the hash of any file of it differ.                             *)
LEMMA NoFileDiffers ==
  ASSUME TypeOK, WellMade(image), OnCourse, FileDiffers
  PROVE  status' = "xor"
<1> DEFINE h == Head(todo) n == Part.ncch
<1>1. /\ IsImage(image) /\ Part \in Genuine(image) /\ Sized(Part)
      /\ File \in Seq(Byte) /\ todo \in Seq(Steps) /\ todo # <<>>
      /\ Belongs(h, Part) /\ h.kind = "files" /\ InCourse(image, File, todo, Part)
      /\ Ascending(todo)
  BY CourseFacts DEF FileDiffers, Doing, OnCourse
<1>2. /\ ~IsCfa(n) /\ n.extra_keyslot /\ h.file_pos = Part.base + n.exefs_offset
      /\ h.files = n.files
  BY <1>1 DEF Belongs, AtExefs
<1>3. PICK i \in DOMAIN h.files :
        /\ ~FileIntact(h, i)
        /\ Exit(IF Within(FilePos(h, i), h.files[i].file_size) THEN "hash" ELSE "xor")
  BY DEF FileDiffers
<1> DEFINE pos == FilePos(h, i) size == h.files[i].file_size
           off == n.files[i].file_off a == Area(Part, n.exefs_offset + HEADER_SIZE + off, size)
<1>4. n.files \in ExefsFiles /\ DOMAIN n.files = 1 .. Len(n.files)
  <2>1. n.files \in ExefsFiles
    BY <1>1, NcchFields DEF Sized
  <2> QED
    BY <2>1 DEF ExefsFiles
<1>5. i \in 1 .. Len(n.files) /\ i \in 1 .. Len(h.files) /\ i \in DOMAIN n.files
  BY <1>2, <1>3, <1>4
<1>6. off \in Nat /\ n.files[i].file_size \in Nat
  BY <1>4, <1>5, FileFields
<1>7. a.pos = pos /\ a.size = size
  <2>1. Part.base \in Nat /\ n.exefs_offset \in Nat /\ HEADER_SIZE \in Nat
    BY <1>1, SectionOrder
  <2>2. \A w, x, y, z \in Nat : w + (x + y + z) = (w + x) + y + z
    OBVIOUS
  <2>3. pos = (Part.base + n.exefs_offset) + HEADER_SIZE + off
    BY <1>2 DEF FilePos
  <2>4. Part.base + (n.exefs_offset + HEADER_SIZE + off)
          = (Part.base + n.exefs_offset) + HEADER_SIZE + off
    BY <1>6, <2>1, <2>2
  <2> QED
    BY <2>3, <2>4 DEF Area
<1>8. a \in Hashed(Part)
  <2>1. a \in HashedFiles(Part)
    BY <1>2, <1>5 DEF HashedFiles
  <2> QED
    BY <1>2, <2>1 DEF Hashed
<1>9. pos \in Nat /\ size \in Nat /\ pos + size <= Len(image.plain)
  BY <1>1, <1>7, <1>8, AreasInImage
<1>10. \A u \in (a.pos + 1) .. (a.pos + a.size) : \E c \in Calls(Part) : u \in Units(c)
  BY <1>1, <1>8, HashedUnits
<1>11. StartsPast(Tail(todo), pos + size)
  <2>1. \A x : EndsBy(h, x) => pos + size <= x
    BY <1>1, <1>5 DEF EndsBy, FilePos
  <2> QED
    BY <1>1, <2>1, TailCourse DEF StartsPast
<1>12. Tail(todo) \in Seq(Steps)
  BY <1>1, TailSteps
<1>13. \A u : ~Covers(h, u)
  BY <1>1 DEF Covers
<1> HIDE DEF pos, size, a
<1>14. ASSUME NEW u \in (pos + 1) .. (pos + size)
       PROVE  ~Covered(todo, u) /\ \E c \in Calls(Part) : u \in Units(c)
  <2>1. u \in Int /\ u <= pos + size /\ pos + size \in Int
    BY <1>9
  <2>2. ~Covered(Tail(todo), u)
    BY <1>11, <1>12, <2>1, NotCovered
  <2> QED
    BY <1>1, <1>7, <1>10, <1>13, <2>2, TailCourse
<1>15. IsPlain(File, pos, size)
  BY <1>1, <1>9, <1>14, AreaDone
<1>16. ~Within(pos, size)
  BY <1>3, <1>15 DEF FileIntact, pos, size
<1> QED
  BY <1>3, <1>16 DEF Exit, pos, size

(* The encrypted file has the image's headers.                             *)
LEMMA CleanLegible ==
  ASSUME TypeOK, WellMade(image), Clean
  PROVE  Legible
<1>1. IsImage(image) /\ Part \in Genuine(image) /\ before = image.cipher
  BY ImagesAssumption, CleanPart DEF Clean, TypeOK
<1>2. /\ image.plain \in Seq(Byte) /\ image.plain # <<>>
      /\ Len(image.plain) = Len(image.cipher) /\ image.plain[1] = image.cipher[1]
      /\ Part.base < Len(image.plain)
      /\ image.plain[Part.base + 1] = image.cipher[Part.base + 1]
  BY <1>1, WellSized DEF WellMade
<1> DEFINE plain == image.plain
<1>3. 0 < Len(plain)
  <2> HIDE DEF plain
  <2>1. Len(plain) \in Nat /\ Len(plain) # 0
    BY <1>2 DEF plain
  <2> QED
    BY <2>1
<1> QED
  BY <1>1, <1>2, <1>3 DEF Legible, Keeps

(* The container is known.                                                 *)
LEMMA NoUnknown ==
  ASSUME TypeOK, WellMade(image), Clean, File = before
  PROVE  ~UnknownContainer
BY CleanLegible DEF UnknownContainer, Clean, Legible

(* What ends an invocation before its work is done.                        *)
LEMMA EarlyEnds ==
  ASSUME QuietStep, pc' = "idle", status' \in {"ok", "hash", "panic"}
  PROVE  /\ \/ BadArgument \/ XorOutOfBounds \/ HashDiffers \/ NoCode \/ FileDiffers
            \/ UnknownContainer \/ DumbPadMissing
         /\ UNCHANGED <<image, opts, before>>
<1>1. CASE Invoke \/ ChooseInplace \/ ChooseOutput \/ CopyInput
  BY <1>1 DEF Invoke, ChooseInplace, ChooseOutput, CopyInput, Goto
<1>2. CASE RemoveOutput \/ CopyFails \/ XorInterrupted \/ Killed \/ IoError
             \/ ShowHelp \/ HeaderMissing \/ ReadPastEnd
  BY <1>2 DEF RemoveOutput, CopyFails, XorInterrupted, Killed, IoError, ShowHelp,
     HeaderMissing, ReadPastEnd, Exit
<1>3. CASE BadArgument \/ XorOutOfBounds \/ HashDiffers \/ NoCode \/ FileDiffers
             \/ UnknownContainer \/ DumbPadMissing
  BY <1>3 DEF BadArgument, XorOutOfBounds, HashDiffers, NoCode, FileDiffers,
     UnknownContainer, DumbPadMissing, frame
<1> QED
  BY <1>1, <1>2, <1>3 DEF QuietStep

(* A clean run is planned in the order of its partition, from the header   *)
(* that the image has.                                                     *)
LEMMA CoursePlanned ==
  ASSUME TypeOK, WellMade(image), Clean, File = before, Planning
  PROVE  /\ Proper(todo', Part) /\ Ascending(todo')
         /\ InCourse(image, File, todo', Part)
<1>1. IsImage(image)
  BY ImagesAssumption DEF TypeOK
<1>2. Part \in Genuine(image)
  BY CleanPart DEF Clean
<1>3. Sized(Part) /\ Len(image.plain) = Len(image.cipher)
  BY <1>1, <1>2, WellSized
<1>4. File = image.cipher
  BY DEF Clean
<1>5. todo' = Plan(Part.ncch, Part.base)
  BY CleanLegible, LegiblePlan DEF Planned
<1>6. /\ Proper(todo', Part) /\ Ascending(todo')
      /\ \A c \in Calls(Part) : \A u \in Units(c) : Covered(todo', u)
  BY <1>3, <1>5, PlanCourse
<1>7. Len(image.plain) <= Len(File)
  <2>1. Len(image.cipher) \in Nat
    BY <1>1 DEF IsImage
  <2> QED
    BY <1>3, <1>4, <2>1
<1> QED
  BY <1>4, <1>6, <1>7 DEF InCourse

(* A step of the work of a clean run that XORs nothing and covers nothing. *)
LEMMA CourseIdle ==
  ASSUME TypeOK, OnCourse, todo # <<>>,
         Head(todo).kind \in {"need", "refuse", "hash", "files"}
  PROVE  /\ Proper(Tail(todo), Part) /\ Ascending(Tail(todo))
         /\ InCourse(image, File, Tail(todo), Part)
<1>1. todo \in Seq(Steps)
  BY DEF TypeOK
<1>2. \A u : ~Covers(Head(todo), u)
  BY DEF Covers
<1>3. \A u : Covered(todo, u) <=> Covered(Tail(todo), u)
  BY <1>1, <1>2, TailCourse
<1> QED
  BY <1>1, <1>3, TailCourse DEF OnCourse, InCourse

(* A call of it.                                                           *)
LEMMA CourseCall ==
  ASSUME TypeOK, PadsReady, WellMade(image), OnCourse, XorSection
  PROVE  /\ Proper(Tail(todo), Part) /\ Ascending(Tail(todo))
         /\ InCourse(image, File', Tail(todo), Part)
<1> DEFINE c == Head(todo)
<1>1. /\ todo \in Seq(Steps) /\ todo # <<>> /\ c.kind = "xor"
      /\ Proper(todo, Part) /\ Ascending(todo)
  BY DEF XorSection, Doing, OnCourse, TypeOK
<1>2. IsImage(image) /\ Part \in Genuine(image) /\ Sized(Part)
      /\ File \in Seq(Byte) /\ InCourse(image, File, todo, Part) /\ Belongs(c, Part)
  BY <1>1, CourseFacts
<1>3. c \in Calls(Part)
  BY <1>1, <1>2 DEF Belongs
<1>4. Pad(c.arg) = image.pads[c.arg]
  BY <1>2, <1>3, CallWanted, CleanPads DEF OnCourse
<1>5. Written(File, File', image.pads[c.arg], c, TRUE)
  BY <1>4, CallDone
<1>6. Roomy(image)
  BY DEF OnCourse, Clean
<1>7. InCourse(image, File', Tail(todo), Part)
  BY <1>1, <1>2, <1>5, <1>6, CourseXor
<1> QED
  BY <1>1, <1>7, TailCourse

(* And the reading of its ExeFS header.                                    *)
LEMMA CourseRead ==
  ASSUME TypeOK, PadsReady, WellMade(image), OnCourse, ReadExefs
  PROVE  /\ Proper(todo', Part) /\ Ascending(todo')
         /\ InCourse(image, File, todo', Part)
<1>1. /\ todo \in Seq(Steps) /\ todo # <<>>
      /\ Proper(todo, Part) /\ Ascending(todo)
  BY DEF ReadExefs, Doing, OnCourse, TypeOK
<1>2. IsImage(image) /\ Part \in Genuine(image) /\ Sized(Part)
      /\ InCourse(image, File, todo, Part)
  BY CourseFacts
<1>3. /\ ~IsCfa(Part.ncch) /\ Part.ncch.extra_keyslot
      /\ Head(todo).kind = "exefs" /\ Head(todo).ncch = Part.ncch
      /\ Head(todo).file_pos = Part.base + Part.ncch.exefs_offset
      /\ todo' = Join(CodeRegions(Part.ncch, Part.base + Part.ncch.exefs_offset), Tail(todo))
      /\ Proper(todo', Part)
  BY <1>1, <1>2, ExefsOwn
<1>4. Ascending(todo') /\ \A u \in Int : Covered(todo', u) <=> Covered(todo, u)
  BY <1>1, <1>2, <1>3, CourseExefs
<1>5. \A c \in Calls(Part) : \A u \in Units(c) : u \in Int
  BY <1>2, WellEncrypted
<1> QED
  BY <1>2, <1>3, <1>4, <1>5 DEF InCourse

(* Every step keeps it.                                                    *)
LEMMA CourseStep ==
  ASSUME TypeOK, PadsReady, DumbInv, WellMade(image), CourseInv, [Next]_vars
  PROVE  CourseInv'
<1>1. CASE UNCHANGED vars
  <2>1. UNCHANGED <<image, opts, before, pc, todo, status, target, input, output>>
    BY <1>1 DEF vars
  <2>2. Part' = Part /\ (Clean' <=> Clean) /\ File' = File
    BY <2>1, CleanKept DEF File
  <2> QED
    BY <2>1, <2>2 DEF CourseInv
<1>2. CASE QuietStep
  <2>1. pc' # "magic" /\ pc' # "work"
    BY <1>2, QuietSteps DEF Quiet
  <2>2. ASSUME Clean', pc' = "idle", status' \in {"ok", "hash", "panic"}
        PROVE  FALSE
    <3>1. UNCHANGED <<image, opts, before>>
      BY <1>2, <2>2, EarlyEnds
    <3>2. Clean
      BY <2>2, <3>1, CleanKept
    <3>3. pc = "work" => OnCourse
      BY <3>2 DEF CourseInv, OnCourse
    <3>4. ~(BadArgument \/ XorOutOfBounds \/ HashDiffers \/ NoCode)
      BY <3>3, NoBadArgument, NoOutOfBounds, NoHashDiffers, NoNoCode
         DEF BadArgument, XorOutOfBounds, HashDiffers, NoCode, Doing
    <3>5. ~FileDiffers
      BY <2>2, <3>3, NoFileDiffers DEF FileDiffers, Doing
    <3>6. ~UnknownContainer
      BY <3>2, NoUnknown DEF UnknownContainer, CourseInv
    <3>7. ~DumbPadMissing
      BY <3>2 DEF DumbPadMissing, DumbInv, Clean
    <3> QED
      BY <1>2, <2>2, <3>4, <3>5, <3>6, <3>7, EarlyEnds
  <2> QED
    BY <2>1, <2>2 DEF CourseInv
<1>3. CASE Open
  <2>1. pc' \in {"dumb", "magic"} /\ File' = File /\ before' = File
    BY <1>3 DEF Open, Goto, File
  <2> QED
    BY <2>1 DEF CourseInv
<1>4. CASE Planning
  <2>1. /\ pc = "magic" /\ pc' = "work" /\ UNCHANGED <<image, opts, before>>
        /\ File' = File
    BY <1>4 DEF Planning, PlanNcch, PlanNcsd, PlanMisread, Planned, Goto, File
  <2>2. Part' = Part /\ (Clean' <=> Clean)
    BY <2>1, CleanKept
  <2>3. Clean => /\ Proper(todo', Part) /\ Ascending(todo')
                 /\ InCourse(image, File, todo', Part)
    BY <1>4, <2>1, CoursePlanned DEF CourseInv
  <2> QED
    BY <2>1, <2>2, <2>3 DEF CourseInv
<1>5. CASE PlanDumb
  <2>1. pc' = "work" /\ opts'.dumb
    BY <1>5 DEF PlanDumb, Goto, DumbInv
  <2> QED
    BY <2>1 DEF CourseInv, Clean
<1>6. CASE OpenPad \/ RefuseNothing \/ HashMatches \/ FilesMatch
  <2>1. /\ pc = "work" /\ pc' = "work" /\ UNCHANGED <<image, opts, before>>
        /\ todo # <<>> /\ todo' = Tail(todo) /\ File' = File
        /\ Head(todo).kind \in {"need", "refuse", "hash", "files"}
    BY <1>6 DEF OpenPad, RefuseNothing, HashMatches, FilesMatch, Doing, StepDone,
       frame, File
  <2>2. Part' = Part /\ (Clean' <=> Clean)
    BY <2>1, CleanKept
  <2>3. Clean => OnCourse
    BY <2>1 DEF CourseInv, OnCourse
  <2> QED
    BY <2>1, <2>2, <2>3, CourseIdle DEF CourseInv
<1>7. CASE XorSection
  <2>1. /\ pc = "work" /\ pc' = "work" /\ UNCHANGED <<image, opts, before>>
        /\ todo' = Tail(todo)
    BY <1>7 DEF XorSection, Doing, StepDone, frame
  <2>2. Part' = Part /\ (Clean' <=> Clean)
    BY <2>1, CleanKept
  <2>3. Clean => OnCourse
    BY <2>1 DEF CourseInv, OnCourse
  <2> QED
    BY <1>7, <2>1, <2>2, <2>3, CourseCall DEF CourseInv
<1>8. CASE ReadExefs
  <2>1. /\ pc = "work" /\ pc' = "work" /\ UNCHANGED <<image, opts, before>>
        /\ File' = File
    BY <1>8 DEF ReadExefs, Doing, frame, File
  <2>2. Part' = Part /\ (Clean' <=> Clean)
    BY <2>1, CleanKept
  <2>3. Clean => OnCourse
    BY <2>1 DEF CourseInv, OnCourse
  <2> QED
    BY <1>8, <2>1, <2>2, <2>3, CourseRead DEF CourseInv
<1>9. CASE Finish
  <2>1. /\ pc = "work" /\ pc' = "idle" /\ UNCHANGED <<image, opts, before>>
        /\ File' = File /\ todo = <<>> /\ status' = "ok"
    BY <1>9 DEF Finish, Exit, frame, File
  <2>2. Part' = Part /\ (Clean' <=> Clean)
    BY <2>1, CleanKept
  <2> QED
    BY <2>1, <2>2 DEF CourseInv
<1> QED
  BY <1>1, <1>2, <1>3, <1>4, <1>5, <1>6, <1>7, <1>8, <1>9, OtherSteps

(* What a clean run that has ended leaves.                                 *)
LEMMA CourseEnds ==
  ASSUME TypeOK, WellMade(image), CourseInv
  PROVE  RoomyRunDecrypts
<1> SUFFICES ASSUME Roomy(image), CleanRun
             PROVE  /\ status = "ok"
                    /\ \A s \in Sections(Part) : IsPlain(File, s.pos, s.size)
  BY DEF RoomyRunDecrypts
<1>1. Clean /\ pc = "idle" /\ status \in {"ok", "hash", "panic"}
  BY DEF CleanRun, Decrypting, Clean, TypeOK, Statuses
<1>2. status = "ok" /\ InCourse(image, File, <<>>, Part)
  BY <1>1 DEF CourseInv
<1>3. IsImage(image) /\ Part \in Genuine(image)
  BY <1>1, ImagesAssumption, CleanPart DEF TypeOK, Clean
<1>4. \A u : ~Covered(<<>>, u)
  BY DEF Covered
<1>5. /\ Len(image.plain) <= Len(File)
      /\ \A c \in Calls(Part) : \A u \in Units(c) : File[u] = image.plain[u]
  BY <1>2, <1>4 DEF InCourse
<1>6. \A s \in Sections(Part) : IsPlain(File, s.pos, s.size)
  BY <1>3, <1>5, FileTyped, SectionsPlain
<1> QED
  BY <1>2, <1>6

(* On well-made images on which the last chunk of no section reaches into  *)
(* another one or into a header, the right pads on the encrypted file do   *)
(* what the tool is for: whatever was run and killed before, the           *)
(* invocation succeeds and every section is decrypted, unless it is        *)
(* interrupted (main.rs:39-88, README.md:10-14).                           *)
THEOREM RoomyRunSucceeds ==
  ASSUME \A m \in Images : WellMade(m)
  PROVE  Spec => []RoomyRunDecrypts
<1>1. Init => DumbInv /\ CourseInv
  BY DEF Init, DumbInv, DumbXorsWholeFile, CourseInv
<1>2. TypeOK => WellMade(image)
  BY DEF TypeOK
<1>3. TypeOK /\ PadsReady /\ [Next]_vars => TypeOK' /\ PadsReady'
  BY TypedStep
<1>4. TypeOK /\ PadsReady /\ DumbInv /\ [Next]_vars => DumbInv'
  BY DumbStep
<1>5. TypeOK /\ PadsReady /\ DumbInv /\ CourseInv /\ [Next]_vars => CourseInv'
  BY <1>2, CourseStep
<1>6. TypeOK /\ CourseInv => RoomyRunDecrypts
  BY <1>2, CourseEnds
<1> QED
  BY <1>1, <1>3, <1>4, <1>5, <1>6, InitTyped, PTL DEF Spec

-----------------------------------------------------------------------------
(* What an invocation decrypts first it finds encrypted, if it succeeds:   *)
(* the first call toggles units that are hashed and not written again.     *)

(* The first call and what is hashed of what it writes.                    *)
LEMMA FirstPlace ==
  ASSUME NEW p, Sized(p), ~(IsCfa(p.ncch) /\ p.ncch.noromfs)
  PROVE  LET c == FirstCall(p) a == FirstHash(p)
         IN /\ c.kind = "xor" /\ c.file_pos \in Nat /\ c.pad_pos = 0 /\ c.size \in Nat
            /\ c.arg = (IF IsCfa(p.ncch) THEN "romfs" ELSE "exheader")
            /\ a.pos = c.file_pos /\ a.size \in Nat /\ a.size <= c.size
            /\ a.size = (IF IsCfa(p.ncch) THEN MinOf(p.ncch.romfs_hashed, p.ncch.romfs_size)
                         ELSE EXHEADER_HASHED)
            /\ a \in Hashed(p)
            /\ \E s \in Sections(p) : s.pos = c.file_pos /\ s.size = c.size
<1> DEFINE n == p.ncch base == p.base c == FirstCall(p) a == FirstHash(p)
<1>1. /\ n \in Ncchs /\ base \in Nat /\ n.romfs_offset \in Nat /\ n.romfs_size \in Nat
      /\ n.romfs_hashed \in Nat /\ n.romfs_hashed <= n.romfs_size
      /\ EXHEADER_SIZE \in Nat /\ EXHEADER_HASHED \in Nat
      /\ EXHEADER_HASHED <= EXHEADER_SIZE /\ HEADER_SIZE \in Nat
  BY SectionOrder, NcchFields, ExheaderAssumption DEF Sized
<1>2. CASE IsCfa(n)
  <2>1. c = XorWith("romfs", base + n.romfs_offset, 0, n.romfs_size)
    BY <1>2 DEF FirstCall, RomfsCall
  <2>2. MinOf(n.romfs_hashed, n.romfs_size) = n.romfs_hashed
    BY <1>1 DEF MinOf
  <2>3. a = [pos |-> base + n.romfs_offset, size |-> n.romfs_hashed]
    BY <1>2, <2>1, <2>2 DEF FirstHash, XorWith
  <2>4. a = Area(p, n.romfs_offset, n.romfs_hashed)
    BY <2>3 DEF Area
  <2>5. a \in Hashed(p) /\ Area(p, n.romfs_offset, n.romfs_size) \in Sections(p)
    BY <1>2, <2>4 DEF Hashed, Sections
  <2>6. base + n.romfs_offset \in Nat
    BY <1>1
  <2> QED
    BY <1>1, <1>2, <2>1, <2>2, <2>3, <2>5, <2>6 DEF XorWith, Area
<1>3. CASE ~IsCfa(n)
  <2>1. c = XorWith("exheader", base + HEADER_SIZE, 0, EXHEADER_SIZE)
    BY <1>3 DEF FirstCall, ExheaderCall
  <2>2. a = [pos |-> base + HEADER_SIZE, size |-> EXHEADER_HASHED]
    BY <1>3, <2>1 DEF FirstHash, XorWith
  <2>3. a = Area(p, HEADER_SIZE, EXHEADER_HASHED)
    BY <2>2 DEF Area
  <2>4. a \in Hashed(p) /\ Area(p, HEADER_SIZE, EXHEADER_SIZE) \in Sections(p)
    BY <1>3, <2>3 DEF Hashed, Sections
  <2>5. base + HEADER_SIZE \in Nat
    BY <1>1
  <2> QED
    BY <1>1, <1>3, <2>1, <2>2, <2>4, <2>5 DEF XorWith, Area
<1> QED
  BY <1>2, <1>3

(* The first call has been made, and what is hashed of it stands.          *)
Toggled ==
  LET c == FirstCall(Part)
      a == FirstHash(Part)
  IN /\ PartFits(Len(before), c.file_pos, c.size) /\ Len(before) <= Len(File)
     /\ c.arg \in Given /\ PartFits(Len(Pad(c.arg)), 0, c.size)
     /\ \A d \in 1 .. a.size :
          File[a.pos + d] = Xor(before[a.pos + d], Pad(c.arg)[d])

FirstWork ==
  /\ Part \in Genuine(image)
  /\ \/ File = before /\ Leads(todo, FirstCall(Part), FirstHash(Part))
     \/ Toggled /\ Untouched(todo, FirstHash(Part))

FirstInv ==
  /\ pc = "magic" => File = before
  /\ pc = "work" /\ ~opts.dumb /\ Legible => Doomed(todo) \/ FirstWork
  /\ Succeeded /\ Legible => Part \in Genuine(image) /\ Toggled

(* An image, and the command lines, of which that can be said.             *)
KeyedWork(m) == WellMade(m) /\ \A o \in Options : Keyed(o, m)

(* A partition of such an image.                                           *)
LEMMA KeyedPart ==
  ASSUME TypeOK, KeyedWork(image), Part \in Genuine(image)
  PROVE  /\ IsImage(image) /\ Sized(Part) /\ ~(IsCfa(Part.ncch) /\ Part.ncch.noromfs)
         /\ FirstCall(Part).arg \in Given =>
              \E d \in 1 .. FirstHash(Part).size :
                Pad(FirstCall(Part).arg)[d] # Zero
<1>1. IsImage(image) /\ opts \in Options
  BY ImagesAssumption DEF TypeOK
<1>2. Sized(Part)
  BY <1>1, WellSized DEF KeyedWork
<1>3. PICK j \in DOMAIN image.parts : Part = image.parts[j]
  BY SMTT(30) DEF Genuine
<1> DEFINE n == Part.ncch
           arg == IF IsCfa(n) THEN "romfs" ELSE "exheader"
           hashed == IF IsCfa(n) THEN MinOf(n.romfs_hashed, n.romfs_size)
                     ELSE EXHEADER_HASHED
<1>4. /\ ~(IsCfa(n) /\ n.noromfs)
      /\ n.genuine /\ opts.pads[arg] # "none" =>
           \E d \in 1 .. hashed : image.pads[opts.pads[arg]][d] # Zero
  BY <1>1, <1>3 DEF KeyedWork, Keyed
<1>5. FirstCall(Part).arg = arg /\ FirstHash(Part).size = hashed /\ n.genuine
  BY <1>2, <1>4, FirstPlace DEF Sized
<1>6. FirstCall(Part).arg \in Given => opts.pads[arg] # "none"
  BY <1>5 DEF Given, Supplied
<1> HIDE DEF arg, hashed
<1> QED
  BY <1>1, <1>2, <1>4, <1>5, <1>6 DEF Pad

(* What was toggled stays so as long as it is left alone.                  *)
LEMMA ToggledKept ==
  ASSUME Toggled, UNCHANGED <<image, opts, before>>,
         Len(before) <= Len(File'),
         \A d \in 1 .. FirstHash(Part).size :
           File'[FirstHash(Part).pos + d] = File[FirstHash(Part).pos + d]
  PROVE  Toggled'
<1>1. Part' = Part
  BY CleanKept
<1>2. Given' = Given /\ \A a : Pad(a)' = Pad(a)
  BY DEF Given, Supplied, Pad
<1> QED
  BY <1>1, <1>2 DEF Toggled

(* The plan of an invocation begins with the first call, or cannot         *)
(* succeed.                                                                *)
LEMMA FirstPlanned ==
  ASSUME TypeOK, KeyedWork(image), File = before, Legible, Planning
  PROVE  \/ Doomed(todo')
         \/ /\ Part \in Genuine(image)
            /\ Leads(todo', FirstCall(Part), FirstHash(Part))
<1>1. /\ Part.base \in Nat /\ Part.ncch \in Ncchs
      /\ (Part.ncch.genuine /\ ~IsCfa(Part.ncch) => LaidOut(Part.ncch))
      /\ todo' = Plan(Part.ncch, Part.base)
      /\ (image.kind = "NCSD" => InTable)
  BY LegiblePlan DEF Planned
<1>2. image.kind \in {"NCCH", "NCSD"} /\ DOMAIN image.parts = 1 .. Len(image.parts)
  BY ImagesAssumption DEF TypeOK, IsImage
<1>3. PICK j \in DOMAIN image.parts : Part = image.parts[j]
  BY <1>1, <1>2, FirstPart DEF Part, Entry, InTable
<1>4. ~(IsCfa(Part.ncch) /\ Part.ncch.noromfs)
  BY <1>3 DEF KeyedWork, Keyed, TypeOK
<1>5. CASE ~Part.ncch.genuine
  BY <1>1, <1>4, <1>5, PlanIsDoomed
<1>6. CASE Part.ncch.genuine
  <2>1. Part \in Genuine(image)
    BY <1>3, <1>6 DEF Genuine
  <2>2. Leads(Plan(Part.ncch, Part.base), FirstCall(Part), FirstHash(Part))
    BY <1>1, <1>4, <1>6, PlanLeads
  <2> QED
    BY <1>1, <2>1, <2>2
<1> QED
  BY <1>5, <1>6

(* The first call toggles what is hashed of what it writes.                *)
LEMMA FirstToggles ==
  ASSUME TypeOK, PadsReady, XorSection, Sized(Part),
         ~(IsCfa(Part.ncch) /\ Part.ncch.noromfs),
         File = before, Head(todo) = FirstCall(Part)
  PROVE  Toggled'
<1> DEFINE s == Head(todo) a == FirstHash(Part) w == WholeCall(s.size)
           g == RegionAfter(File, Pad(s.arg), s, w)
<1>1. /\ Doing("xor") /\ Fits(s) /\ WriteFile(g) /\ s.kind = "xor" /\ todo # <<>>
      /\ UNCHANGED <<image, opts, before, target>>
  BY DEF XorSection, Doing, frame
<1>2. /\ s.file_pos \in Nat /\ s.pad_pos = 0 /\ s.size \in Nat
      /\ a.pos = s.file_pos /\ a.size \in Nat /\ a.size <= s.size
  BY FirstPlace
<1>3. w \in 0 .. w
  BY <1>2, WholeCallLemma
<1>4. /\ Beyond(File, g, s.file_pos)
      /\ \A i \in 1 .. s.size :
           g[s.file_pos + i] = Xor(File[s.file_pos + i], Pad(s.arg)[s.pad_pos + i])
  BY <1>1, <1>3, SectionWritten
<1>5. File' = g
  BY <1>1, FileWritten
<1>6. s.arg \in Given
  BY <1>1, TailReady DEF PadsReady, Uses, TypeOK
<1>7. PartFits(Len(before), s.file_pos, s.size) /\ PartFits(Len(Pad(s.arg)), 0, s.size)
  BY <1>1, <1>2, XorFits
<1> HIDE DEF g
<1>8. Len(before) <= Len(g)
  BY <1>4 DEF Beyond
<1>9. ASSUME NEW d \in 1 .. a.size
      PROVE  g[a.pos + d] = Xor(before[a.pos + d], Pad(s.arg)[d])
  <2>1. d \in 1 .. s.size /\ 0 + d = d
    <3> DEFINE x == a.size y == s.size
    <3>1. x \in Nat /\ y \in Nat /\ x <= y /\ d \in 1 .. x
      BY <1>2, <1>9
    <3> HIDE DEF x, y
    <3>2. d \in 1 .. y /\ 0 + d = d
      BY <3>1
    <3> QED
      BY <3>2 DEF y
  <2> QED
    BY <1>2, <1>4, <2>1
<1>10. Part' = Part /\ Given' = Given /\ \A x : Pad(x)' = Pad(x)
  BY <1>1, CleanKept DEF Given, Supplied, Pad
<1> QED
  BY <1>1, <1>5, <1>6, <1>7, <1>8, <1>9, <1>10 DEF Toggled

(* A later call leaves it alone.                                           *)
LEMMA FirstStands ==
  ASSUME TypeOK, PadsReady, XorSection, Sized(Part),
         ~(IsCfa(Part.ncch) /\ Part.ncch.noromfs),
         Toggled, ~Touches(Head(todo), FirstHash(Part))
  PROVE  Toggled'
<1> DEFINE s == Head(todo) a == FirstHash(Part) w == WholeCall(s.size)
           g == RegionAfter(File, Pad(s.arg), s, w)
<1>1. /\ Doing("xor") /\ Fits(s) /\ WriteFile(g) /\ s.kind = "xor"
      /\ UNCHANGED <<image, opts, before, target>>
  BY DEF XorSection, Doing, frame
<1>2. s.size \in Nat /\ s.file_pos \in Nat
  BY <1>1, XorFits
<1>3. w \in 0 .. w
  BY <1>2, WholeCallLemma
<1>4. Beyond(File, g, s.file_pos)
  BY <1>1, <1>3, SectionWritten
<1>5. File' = g
  BY <1>1, FileWritten
<1> HIDE DEF g
<1>6. LET c == FirstCall(Part)
      IN /\ c.file_pos \in Nat /\ c.size \in Nat
         /\ a.pos = c.file_pos /\ a.size \in Nat /\ a.size <= c.size
         /\ PartFits(Len(before), c.file_pos, c.size)
  BY FirstPlace DEF Toggled
<1>7. a.pos + a.size <= s.file_pos
  BY <1>1, <1>2, <1>6 DEF Touches
<1> DEFINE x == Len(before) y == Len(File) z == Len(g) pos == a.pos size == a.size
           at == s.file_pos full == FirstCall(Part).size
<1>8. x \in Nat /\ y \in Nat /\ z \in Nat /\ x <= y /\ y <= z
  <2>1. File \in Seq(Byte) /\ before \in Seq(Byte) /\ g \in Seq(Byte)
    BY <1>4, FileTyped DEF Beyond, TypeOK
  <2>2. x <= y /\ y <= z
    BY <1>4 DEF Beyond, Toggled
  <2> QED
    BY <2>1, <2>2
<1>9. /\ pos \in Nat /\ size \in Nat /\ at \in Nat /\ pos + size <= at
      /\ full \in Nat /\ size <= full /\ PartFits(x, pos, full)
  BY <1>2, <1>6, <1>7
<1>10. \A i \in 1 .. y : i <= at => g[i] = File[i]
  BY <1>4 DEF Beyond
<1> HIDE DEF x, y, z, pos, size, at, full
<1>11. \A d \in 1 .. size : g[pos + d] = File[pos + d]
  <2> SUFFICES ASSUME NEW d \in 1 .. size
               PROVE  g[pos + d] = File[pos + d]
    OBVIOUS
  <2>1. pos + d \in 1 .. y /\ pos + d <= at
    BY <1>8, <1>9 DEF PartFits
  <2> QED
    BY <1>10, <2>1
<1>12. x <= z
  BY <1>8
<1> QED
  BY <1>1, <1>5, <1>11, <1>12, ToggledKept DEF x, z, pos, size

(* Only zeros leave a unit as it is.                                       *)
LEMMA SameXor ==
  ASSUME NEW x \in Byte, NEW k \in Byte, Xor(x, k) = x
  PROVE  k = Zero
<1>1. Xor(k, x) = x /\ Xor(x, x) = Zero /\ Xor(k, Zero) = k
  BY XorLaws
<1>2. Xor(Xor(k, x), x) = Xor(k, Xor(x, x))
  BY XorLaws
<1> QED
  BY <1>1, <1>2

(* A step of the work that writes nothing.                                 *)
LEMMA FirstIdle ==
  ASSUME TypeOK, FirstWork, todo # <<>>, ~Writes(Head(todo)), KeyedWork(image),
         todo' = Tail(todo), UNCHANGED <<image, opts, before, target, input, output>>
  PROVE  FirstWork'
<1>1. todo \in Seq(Steps) /\ File' = File
  BY DEF TypeOK, File
<1>2. Part' = Part /\ Part \in Genuine(image)
  BY CleanKept DEF FirstWork
<1>3. CASE File = before /\ Leads(todo, FirstCall(Part), FirstHash(Part))
  <2>1. FirstCall(Part).kind = "xor"
    BY <1>2, KeyedPart, FirstPlace
  <2>2. Leads(Tail(todo), FirstCall(Part), FirstHash(Part))
    BY <1>1, <1>3, <2>1, TailLeads DEF Writes
  <2> QED
    BY <1>1, <1>2, <1>3, <2>2 DEF FirstWork
<1>4. CASE Toggled /\ Untouched(todo, FirstHash(Part))
  <2>1. Untouched(Tail(todo), FirstHash(Part))
    BY <1>1, <1>4, TailUntouched
  <2>2. Toggled'
    BY <1>1, <1>4, ToggledKept DEF Toggled
  <2> QED
    BY <1>2, <2>1, <2>2 DEF FirstWork
<1> QED
  BY <1>3, <1>4 DEF FirstWork

(* A call is the first one, or comes after it and leaves alone what is     *)
(* hashed of it.                                                           *)
LEMMA FirstCallStep ==
  ASSUME TypeOK, PadsReady, FirstWork, KeyedWork(image), XorSection
  PROVE  FirstWork'
<1>1. /\ todo \in Seq(Steps) /\ todo # <<>> /\ Head(todo).kind = "xor"
      /\ todo' = Tail(todo) /\ UNCHANGED <<image, opts, before>>
  BY DEF TypeOK, XorSection, Doing, StepDone, frame
<1>2. Part' = Part /\ Part \in Genuine(image)
  BY <1>1, CleanKept DEF FirstWork
<1>3. Sized(Part) /\ ~(IsCfa(Part.ncch) /\ Part.ncch.noromfs)
  BY <1>2, KeyedPart
<1>4. CASE File = before /\ Leads(todo, FirstCall(Part), FirstHash(Part))
  <2>1. Head(todo) = FirstCall(Part) /\ Untouched(Tail(todo), FirstHash(Part))
    BY <1>1, <1>4, TailLeads DEF Writes
  <2>2. Toggled'
    BY <1>3, <1>4, <2>1, FirstToggles
  <2> QED
    BY <1>1, <1>2, <2>1, <2>2 DEF FirstWork
<1>5. CASE Toggled /\ Untouched(todo, FirstHash(Part))
  <2>1. ~Touches(Head(todo), FirstHash(Part)) /\ Untouched(Tail(todo), FirstHash(Part))
    BY <1>1, <1>5, TailUntouched
  <2>2. Toggled'
    BY <1>3, <1>5, <2>1, FirstStands
  <2> QED
    BY <1>1, <1>2, <2>1, <2>2 DEF FirstWork
<1> QED
  BY <1>4, <1>5 DEF FirstWork

(* The ExeFS header is read after the first call, and the calls around     *)
(* .code come after what is hashed of that.                                *)
LEMMA FirstRead ==
  ASSUME TypeOK, PadsReady, FirstWork, KeyedWork(image), ReadExefs
  PROVE  FirstWork'
<1> DEFINE h == Head(todo) n == h.ncch pos == h.file_pos
           r == CodeRegions(n, pos) t == Tail(todo) a == FirstHash(Part)
<1>1. /\ todo \in Seq(Steps) /\ todo # <<>> /\ h.kind = "exefs"
      /\ todo' = Join(r, t)
      /\ UNCHANGED <<image, opts, before, target, input, output>>
  BY DEF TypeOK, ReadExefs, Doing, CodeFound, Join, frame
<1>2. Part' = Part /\ Part \in Genuine(image) /\ File' = File
  BY <1>1, CleanKept DEF FirstWork, File
<1>3. Sized(Part) /\ ~(IsCfa(Part.ncch) /\ Part.ncch.noromfs)
  BY <1>2, KeyedPart
<1>4. FirstCall(Part).kind = "xor" /\ a.pos \in Nat /\ a.size \in Nat
  BY <1>3, FirstPlace
<1>5. Toggled /\ Untouched(todo, a)
  BY <1>1, <1>4, TailLeads DEF FirstWork, Writes
<1>6. Toggled'
  BY <1>1, <1>2, <1>5, ToggledKept DEF Toggled
<1>7. ~Touches(h, a) /\ Untouched(t, a)
  BY <1>1, <1>5, TailUntouched
<1>8. h \in Steps /\ t \in Seq(Steps) /\ Uses(h) \subseteq Given
  BY <1>1, TailSteps, TailReady DEF PadsReady
<1>9. n \in Ncchs /\ pos \in Nat
  BY <1>1, <1>8, StepFields DEF IsStep
<1>10. {"exefs", "exefs7x"} \subseteq Given
  BY <1>1, <1>8 DEF Uses
<1> HIDE DEF n, pos, a
<1>11. a.pos + a.size \in Int /\ a.pos + a.size <= pos
  BY <1>1, <1>4, <1>7, <1>9 DEF Touches, pos
<1>12. r \in Seq(Steps) /\ Untouched(r, a)
  BY <1>1, <1>9, <1>10, <1>11, CodeRegionsLemma DEF n
<1> HIDE DEF r, t
<1>13. Untouched(Join(r, t), a)
  BY <1>7, <1>8, <1>12, JoinUntouched
<1> QED
  BY <1>1, <1>2, <1>6, <1>13 DEF FirstWork, a

(* Every step keeps it.                                                    *)
LEMMA FirstStep ==
  ASSUME TypeOK, PadsReady, DumbInv, KeyedWork(image), FirstInv, [Next]_vars
  PROVE  FirstInv'
<1>1. CASE UNCHANGED vars
  <2>1. UNCHANGED <<image, opts, before, pc, todo, status, target, input, output>>
    BY <1>1 DEF vars
  <2>2. Part' = Part /\ File' = File /\ (Succeeded' <=> Succeeded)
    BY <2>1, CleanKept DEF File, Succeeded, Decrypting
  <2>3. Toggled => Toggled'
    BY <2>1, <2>2, ToggledKept DEF Toggled
  <2>4. Legible' <=> Legible
    BY <2>1, LegibleKept
  <2> QED
    BY <2>1, <2>2, <2>3, <2>4 DEF FirstInv, FirstWork
<1>2. CASE QuietStep
  <2>1. pc' # "magic" /\ pc' # "work" /\ ~Succeeded'
    BY <1>2, QuietSteps DEF Quiet, Succeeded, Decrypting
  <2> QED
    BY <2>1 DEF FirstInv
<1>3. CASE Open
  <2>1. pc' \in {"dumb", "magic"} /\ File' = File /\ before' = File
    BY <1>3 DEF Open, Goto, File
  <2> QED
    BY <2>1 DEF FirstInv, Succeeded, Decrypting
<1>4. CASE Planning
  <2>1. /\ pc = "magic" /\ pc' = "work" /\ UNCHANGED <<image, opts, before>>
        /\ File' = File
    BY <1>4 DEF Planning, PlanNcch, PlanNcsd, PlanMisread, Planned, Goto, File
  <2>2. Part' = Part /\ (Legible' <=> Legible)
    BY <2>1, LegibleKept
  <2>3. Legible => \/ Doomed(todo')
                   \/ /\ Part \in Genuine(image)
                      /\ Leads(todo', FirstCall(Part), FirstHash(Part))
    BY <1>4, <2>1, FirstPlanned DEF FirstInv
  <2> QED
    BY <2>1, <2>2, <2>3 DEF FirstInv, FirstWork, Succeeded, Decrypting
<1>5. CASE PlanDumb
  <2>1. pc' = "work" /\ opts'.dumb
    BY <1>5 DEF PlanDumb, Goto, DumbInv
  <2> QED
    BY <2>1 DEF FirstInv, Succeeded, Decrypting
<1>6. CASE OpenPad \/ RefuseNothing \/ HashMatches \/ FilesMatch \/ XorSection
  <2>1. /\ pc = "work" /\ pc' = "work" /\ UNCHANGED <<image, opts, before, target>>
        /\ todo # <<>> /\ todo' = Tail(todo)
    BY <1>6 DEF OpenPad, RefuseNothing, HashMatches, FilesMatch, XorSection,
       Doing, StepDone, frame
  <2>2. ~Hopeless(Head(todo))
    BY <1>6 DEF OpenPad, RefuseNothing, HashMatches, FilesMatch, XorSection,
       Doing, Hopeless
  <2>3. Doomed(todo) => Doomed(todo')
    BY <2>1, <2>2, TailUntouched DEF TypeOK
  <2>4. FirstWork => FirstWork'
    <3>1. CASE XorSection
      BY <3>1, FirstCallStep
    <3>2. CASE ~XorSection
      <4>1. ~Writes(Head(todo)) /\ UNCHANGED <<input, output>>
        BY <1>6, <3>2 DEF OpenPad, RefuseNothing, HashMatches, FilesMatch, Doing,
           Writes
      <4> QED
        BY <2>1, <4>1, FirstIdle
    <3> QED
      BY <3>1, <3>2
  <2>5. Legible' <=> Legible
    BY <2>1, LegibleKept
  <2> QED
    BY <2>1, <2>3, <2>4, <2>5 DEF FirstInv, Succeeded, Decrypting
<1>7. CASE ReadExefs
  <2> DEFINE r == CodeRegions(Head(todo).ncch, Head(todo).file_pos) t == Tail(todo)
  <2>1. /\ pc = "work" /\ pc' = "work" /\ UNCHANGED <<image, opts, before>>
        /\ todo # <<>> /\ todo \in Seq(Steps) /\ Head(todo).kind = "exefs"
        /\ todo' = Join(r, t)
    BY <1>7 DEF ReadExefs, Doing, frame, Join, TypeOK
  <2>2. r \in Seq(Steps) /\ t \in Seq(Steps)
    BY <1>7, <2>1, ExefsRegions, TailSteps
  <2>3. Doomed(todo) => Doomed(t)
    BY <2>1, TailUntouched DEF Hopeless
  <2> HIDE DEF r, t
  <2>4. Doomed(todo) => Doomed(todo')
    BY <2>1, <2>2, <2>3, JoinUntouched
  <2>5. FirstWork => FirstWork'
    BY <1>7, FirstRead
  <2>6. Legible' <=> Legible
    BY <2>1, LegibleKept
  <2> QED
    BY <2>1, <2>4, <2>5, <2>6 DEF FirstInv, Succeeded, Decrypting
<1>8. CASE Finish
  <2>1. /\ pc = "work" /\ todo = <<>> /\ pc' = "idle" /\ status' = "ok"
        /\ UNCHANGED <<image, opts, before>> /\ File' = File
    BY <1>8 DEF Finish, Exit, frame, File
  <2>2. ~Doomed(todo)
    BY <2>1, NothingLeft
  <2>3. \A c, a : ~Leads(todo, c, a)
    BY <2>1 DEF Leads
  <2>4. Succeeded' /\ Legible => Part \in Genuine(image) /\ Toggled
    BY <2>1, <2>2, <2>3 DEF FirstInv, FirstWork, Succeeded, Decrypting
  <2>5. Part' = Part /\ (Legible' <=> Legible) /\ (Toggled => Toggled')
    BY <2>1, LegibleKept, ToggledKept DEF Toggled
  <2> QED
    BY <2>1, <2>4, <2>5 DEF FirstInv
<1> QED
  BY <1>1, <1>2, <1>3, <1>4, <1>5, <1>6, <1>7, <1>8, OtherSteps

(* If what is hashed was toggled and is decrypted, it was not before.      *)
LEMMA FirstEnds ==
  ASSUME TypeOK, KeyedWork(image), FirstInv, VerifiedInv
  PROVE  OkOnlyFromCiphertext
<1> SUFFICES ASSUME Succeeded, Legible,
                    \A s \in Sections(Part) : IsPlain(before, s.pos, s.size)
             PROVE  FALSE
  BY DEF OkOnlyFromCiphertext
<1> DEFINE c == FirstCall(Part) a == FirstHash(Part) key == Pad(c.arg)
           pos == a.pos size == a.size full == c.size
           x == Len(before) y == Len(File) z == Len(image.plain) k == Len(key)
<1>1. Part \in Genuine(image) /\ Toggled
  BY DEF FirstInv
<1>2. /\ IsImage(image) /\ Sized(Part) /\ ~(IsCfa(Part.ncch) /\ Part.ncch.noromfs)
      /\ c.arg \in Given => \E d \in 1 .. a.size : key[d] # Zero
  BY <1>1, KeyedPart
<1>3. /\ pos = c.file_pos /\ pos \in Nat /\ full \in Nat /\ size \in Nat
      /\ size <= full /\ a \in Hashed(Part)
  BY <1>2, FirstPlace
<1>4. PICK s \in Sections(Part) : s.pos = pos /\ s.size = full
  BY <1>2, <1>3, FirstPlace
<1>5. PICK d \in 1 .. size : key[d] # Zero
  BY <1>1, <1>2 DEF Toggled
<1>6. key \in Seq(Byte) /\ before \in Seq(Byte) /\ File \in Seq(Byte)
      /\ image.plain \in Seq(Byte)
  BY <1>1, <1>2, PadTyped, FileTyped DEF Toggled, TypeOK, IsImage
<1>7. x \in Nat /\ y \in Nat /\ z \in Nat /\ k \in Nat
  BY <1>6
<1>8. PartFits(x, pos, full) /\ x <= y /\ PartFits(k, 0, full)
  BY <1>1, <1>3 DEF Toggled
<1>9. pos + full <= z
  <2>1. s.pos + s.size <= Len(image.plain)
    BY <1>1, <1>2, AreasInImage DEF KeyedWork
  <2> QED
    BY <1>4, <2>1
<1>10. File[pos + d] = Xor(before[pos + d], key[d])
  BY <1>1, <1>5 DEF Toggled
<1>11. SubSeq(before, pos + 1, pos + full) = SubSeq(image.plain, pos + 1, pos + full)
  <2>1. IsPlain(before, s.pos, s.size)
    OBVIOUS
  <2> QED
    BY <1>4, <2>1 DEF IsPlain
<1>12. SubSeq(File, pos + 1, pos + size) = SubSeq(image.plain, pos + 1, pos + size)
  <2>1. IsPlain(File, a.pos, a.size)
    BY <1>3 DEF VerifiedInv, OkMeansVerified
  <2> QED
    BY <2>1 DEF IsPlain
<1> HIDE DEF pos, size, full, x, y, z, k, key
<1>13. /\ pos + full <= x /\ pos + size <= y /\ pos + size <= z
       /\ pos + d \in (pos + 1) .. (pos + full) /\ pos + d \in (pos + 1) .. (pos + size)
       /\ pos + d \in 1 .. x /\ d \in 1 .. k
  BY <1>3, <1>5, <1>7, <1>8, <1>9 DEF PartFits
<1>14. before[pos + d] = image.plain[pos + d]
  <2>1. pos + full <= Len(before) /\ pos + full <= Len(image.plain)
    BY <1>9, <1>13 DEF x, z
  <2> DEFINE b == before plain == image.plain
  <2>2. b \in Seq(Byte) /\ plain \in Seq(Byte) /\ pos \in Nat /\ full \in Nat
        /\ pos + full <= Len(b) /\ pos + full <= Len(plain)
        /\ SubSeq(b, pos + 1, pos + full) = SubSeq(plain, pos + 1, pos + full)
    BY <1>3, <1>6, <1>11, <2>1
  <2> HIDE DEF b, plain
  <2>3. \A u \in (pos + 1) .. (pos + full) : b[u] = plain[u]
    BY <2>2, AreaUnits
  <2>4. \A u \in (pos + 1) .. (pos + full) : before[u] = image.plain[u]
    BY <2>3 DEF b, plain
  <2> QED
    BY <1>13, <2>4
<1>15. File[pos + d] = image.plain[pos + d]
  <2>1. pos + size <= Len(File) /\ pos + size <= Len(image.plain)
    BY <1>13 DEF y, z
  <2> DEFINE f == File plain == image.plain
  <2>2. f \in Seq(Byte) /\ plain \in Seq(Byte) /\ pos \in Nat /\ size \in Nat
        /\ pos + size <= Len(f) /\ pos + size <= Len(plain)
        /\ SubSeq(f, pos + 1, pos + size) = SubSeq(plain, pos + 1, pos + size)
    BY <1>3, <1>6, <1>12, <2>1
  <2> HIDE DEF f, plain
  <2>3. \A u \in (pos + 1) .. (pos + size) : f[u] = plain[u]
    BY <2>2, AreaUnits
  <2>4. \A u \in (pos + 1) .. (pos + size) : File[u] = image.plain[u]
    BY <2>3 DEF f, plain
  <2> QED
    BY <1>13, <2>4
<1>16. before[pos + d] \in Byte /\ key[d] \in Byte
  BY <1>6, <1>13 DEF x, k
<1>17. key[d] = Zero
  BY <1>10, <1>14, <1>15, <1>16, SameXor
<1> QED
  BY <1>5, <1>17

(* On well-made images, and whatever is given for the pads as long as it   *)
(* is not zeros over what is hashed first, an invocation that found the    *)
(* image's headers succeeds only on a file in which some section was not   *)
(* decrypted: run on its own output, the program encrypts it again and     *)
(* says so (main.rs:39-88).                                                *)
THEOREM SuccessFromCiphertext ==
  ASSUME \A m \in Images : WellMade(m) /\ \A o \in Options : Keyed(o, m)
  PROVE  Spec => []OkOnlyFromCiphertext
<1>1. Init => DumbInv /\ VerifiedInv /\ FirstInv
  BY DEF Init, DumbInv, DumbXorsWholeFile, VerifiedInv, OkMeansVerified, FirstInv,
     Succeeded, Decrypting
<1>2. TypeOK => KeyedWork(image)
  BY DEF TypeOK, KeyedWork
<1>3. TypeOK /\ PadsReady /\ [Next]_vars => TypeOK' /\ PadsReady'
  BY TypedStep
<1>4. TypeOK /\ PadsReady /\ DumbInv /\ [Next]_vars => DumbInv'
  BY DumbStep
<1>5. TypeOK /\ PadsReady /\ DumbInv /\ VerifiedInv /\ [Next]_vars => VerifiedInv'
  BY VerifiedStep
<1>6. TypeOK /\ PadsReady /\ DumbInv /\ FirstInv /\ [Next]_vars => FirstInv'
  BY <1>2, FirstStep
<1>7. TypeOK /\ FirstInv /\ VerifiedInv => OkOnlyFromCiphertext
  BY <1>2, FirstEnds
<1> QED
  BY <1>1, <1>3, <1>4, <1>5, <1>6, <1>7, InitTyped, PTL DEF Spec
=============================================================================
