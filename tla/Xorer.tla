-------------------------------- MODULE Xorer --------------------------------
(***************************************************************************)
(* The program (src/src/main.rs): one invocation after another on the same *)
(* files, each of which may be killed or fail at any point.  An invocation *)
(* picks the file it writes to, plans its steps from the container's       *)
(* header and carries them out one by one.                                 *)
(*                                                                         *)
(* A call of xor_file is one step here: what it may leave behind is what   *)
(* XorCall promises, which XorFile is shown to implement.                  *)
(***************************************************************************)
EXTENDS Ncch

CONSTANTS
  Images,  \* the containers a behaviour may be about
  Options, \* the command lines it may use
  Misread, \* what may be read where the image's own header no longer is
  MaxRuns  \* bound: invocations per behaviour

(* An image has a kind ("NCCH" or "NCSD"), its partitions as [base, ncch], *)
(* its contents before (cipher) and after (plain) decryption, and the      *)
(* contents of the pad files.  An NCCH image has one partition, at 0; an   *)
(* NCSD image has one for each entry of the partition table.               *)
(*                                                                         *)
(* Options: inplace and dumb (flags), out (-o given), free (number of free *)
(* arguments), partition (the number given with -p, as a set that is empty *)
(* if there is none or if what was given is no number), and for each of    *)
(* pads' arguments the name of a pad file or "none".  In dumb mode the pad *)
(* is pads.dumb, args.free[1].                                             *)

ASSUME MaxRunsAssumption == MaxRuns \in Nat

IsImage(m) ==
  /\ m.kind \in {"NCCH", "NCSD"}
  /\ m.parts \in Seq([base : Nat, ncch : Ncchs]) /\ m.parts # <<>>
  /\ m.kind = "NCCH" => m.parts[1].base = 0
  /\ \A j \in DOMAIN m.parts :
       LET n == m.parts[j].ncch IN n.genuine /\ ~IsCfa(n) => LaidOut(n)
  /\ m.cipher \in Seq(Byte) /\ m.plain \in Seq(Byte)
  /\ \A name \in DOMAIN m.pads : m.pads[name] \in Seq(Byte)

ASSUME MisreadAssumption == Misread \subseteq Ncchs

ASSUME ImagesAssumption == \A m \in Images : IsImage(m)

IsLine(o) ==
  /\ {o.inplace, o.dumb, o.out} \subseteq BOOLEAN /\ o.free \in Nat
  /\ \A a \in PadArgs :
       o.pads[a] # "none" => \A m \in Images : o.pads[a] \in DOMAIN m.pads
  /\ o.free > 1 => o.pads["dumb"] # "none"

ASSUME OptionsAssumption == Options # {} /\ \A o \in Options : IsLine(o)

VARIABLES
  image,      \* the container (frozen)
  input,      \* the file named by the first free argument
  output,     \* the file named by -o
  has_output, \* whether that file exists
  opts,       \* the command line of the current or last invocation
  target,     \* the file it writes to: "input" or "output"
  pc,
  todo,       \* steps left
  status,     \* how the last invocation ended: "none" while it runs,
              \* "fresh" if the user has removed its output since
  runs,       \* invocations so far
  before,     \* history: the target when it was opened
  torn        \* history: the files that were left half-written, or worked
              \* on by a header that is none of the image's partitions'

vars == <<image, input, output, has_output, opts, target, pc, todo, status,
          runs, before, torn>>

File == IF target = "input" THEN input ELSE output

WriteFile(f) ==
  IF target = "input" THEN input' = f /\ UNCHANGED output
  ELSE output' = f /\ UNCHANGED input

Init ==
  /\ image \in Images
  /\ input = image.cipher
  /\ output = <<>> /\ has_output = FALSE
  /\ opts = CHOOSE o \in Options : TRUE
  /\ target = "input"
  /\ pc = "idle" /\ todo = <<>> /\ status = "fresh" /\ runs = 0
  /\ before = image.cipher /\ torn = {}

Exit(s) == status' = s /\ pc' = "idle" /\ todo' = <<>>

Goto(from, to) == pc = from /\ pc' = to /\ UNCHANGED status

-----------------------------------------------------------------------------
(* The user runs the program (again), or removes the output first.         *)
Invoke ==
  /\ pc = "idle" /\ runs < MaxRuns
  /\ opts' \in Options
  /\ runs' = runs + 1
  /\ status' = "none" /\ pc' = "args"
  /\ UNCHANGED <<image, input, output, has_output, target, todo, before, torn>>

RemoveOutput ==
  /\ pc = "idle" /\ has_output /\ runs < MaxRuns
  /\ has_output' = FALSE /\ output' = <<>> /\ status' = "fresh"
  /\ torn' = torn \ {"output"}
  /\ UNCHANGED <<image, input, opts, target, pc, todo, runs, before>>

-----------------------------------------------------------------------------
ShowHelp ==
  /\ pc = "args"
  /\ opts.free = 0 \/ (~opts.inplace /\ ~opts.out)
  /\ Exit("help")
  /\ UNCHANGED <<image, input, output, has_output, opts, target, runs, before,
                 torn>>

ChooseInplace ==
  /\ opts.free # 0 /\ opts.inplace
  /\ Goto("args", "open")
  /\ target' = "input"
  /\ UNCHANGED <<image, input, output, has_output, opts, todo, runs, before,
                 torn>>

ChooseOutputForgetful == \* mutant: the file is opened by its input name
  /\ opts.free # 0 /\ ~opts.inplace /\ opts.out
  /\ Goto("args", IF has_output THEN "open" ELSE "copy")
  /\ target' = "input"
  /\ UNCHANGED <<image, input, output, has_output, opts, todo, runs, before,
                 torn>>

(* "Only copy if output file doesn't exist. Otherwise, will use the        *)
(* current contents."                                                      *)
ChooseOutput ==
  /\ opts.free # 0 /\ ~opts.inplace /\ opts.out
  /\ Goto("args", IF has_output THEN "open" ELSE "copy")
  /\ target' = "output"
  /\ UNCHANGED <<image, input, output, has_output, opts, todo, runs, before,
                 torn>>

CopyInputUnnoticed == \* mutant: the next run does not find the copy
  /\ Goto("copy", "open")
  /\ output' = input
  /\ UNCHANGED <<image, input, has_output, opts, target, todo, runs, before, torn>>

CopyInput ==
  /\ Goto("copy", "open")
  /\ output' = input /\ has_output' = TRUE
  /\ torn' = IF "input" \in torn THEN torn \union {"output"} ELSE torn
  /\ UNCHANGED <<image, input, opts, target, todo, runs, before>>

(* fs::copy fails or is killed: what it has copied stays behind. *)
CopyFails ==
  /\ pc = "copy"
  /\ \E n \in 0 .. (Len(input) - 1) : output' = SubSeq(input, 1, n)
  /\ has_output' = TRUE
  /\ torn' = torn \union {"output"}
  /\ Exit("copy")
  /\ UNCHANGED <<image, input, opts, target, runs, before>>

Open ==
  /\ Goto("open", IF opts.dumb THEN "dumb" ELSE "magic")
  /\ before' = File
  /\ UNCHANGED <<image, input, output, has_output, opts, target, todo, runs,
                 torn>>

-----------------------------------------------------------------------------
(* The unit at base is still what the image has there: a header is read    *)
(* for what it is.                                                         *)
Keeps(f, base) ==
  base < Len(f) /\ base < Len(image.plain) /\ f[base + 1] = image.plain[base + 1]

(* The steps of decrypt_file are planned from the header n at base.        *)
Planned(n, base) ==
  /\ todo' = Plan(n, base)
  /\ Goto("magic", "work")
  /\ torn' = IF n.genuine /\ Keeps(File, 0) /\ Keeps(File, base) THEN torn
             ELSE torn \union {target}
  /\ UNCHANGED <<image, input, output, has_output, opts, target, runs, before>>

PlanNcch ==
  /\ image.kind = "NCCH" /\ Keeps(File, 0)
  /\ Planned(image.parts[1].ncch, 0)

(* The index into the table, counted from 1 here: the first one without -p *)
(* and also with one that does not parse.                                  *)
partition ==
  IF opts.partition = {} THEN 1 ELSE CHOOSE p \in opts.partition : TRUE

InTable == partition \in 1 .. Len(image.parts)

(* Where get_ncch finds the header and get_ncch_offset the sections.       *)
Entry == image.parts[partition]

PlanNcsd ==
  /\ image.kind = "NCSD" /\ Keeps(File, 0)
  /\ InTable /\ Keeps(File, Entry.base)
  /\ Planned(Entry.ncch, Entry.base)

(* A first unit that is neither the image's own nor zeros may still hold   *)
(* either magic, and a table of any entries.                               *)
Altered == File # <<>> /\ ~Keeps(File, 0) /\ File[1] # Zero

(* Where a header is looked for that may not be the image's.               *)
Astray ==
  IF Altered THEN 0 .. (Len(File) - 1)
  ELSE { base \in 0 .. (Len(File) - 1) :
           /\ image.kind = "NCSD" /\ Keeps(File, 0)
           /\ InTable /\ base = Entry.base /\ ~Keeps(File, base) }

(* NCCH::new checks no magic: whatever is there is read as a header.       *)
HeadersAt(base) ==
  LET here == { p \in { image.parts[j] : j \in DOMAIN image.parts } : p.base = base }
  IN IF File[base + 1] = Zero THEN {ZeroNcch}
     ELSE IF here # {} /\ Keeps(File, base) THEN { p.ncch : p \in here }
     ELSE Misread

PlanMisread ==
  \E base \in Astray : \E n \in HeadersAt(base) : Planned(n, base)

(* The header, or the partition's, lies past the end of the file. *)
HeaderMissing ==
  /\ pc = "magic"
  /\ \/ File = <<>> \/ Altered
     \/ /\ image.kind = "NCSD" /\ Keeps(File, 0)
        /\ InTable /\ Entry.base >= Len(File)
  /\ Exit("io")
  /\ UNCHANGED <<image, input, output, has_output, opts, target, runs, before,
                 torn>>

UnknownContainer ==
  /\ pc = "magic" /\ File # <<>>
  /\ ~Keeps(File, 0) \/ (image.kind = "NCSD" /\ ~InTable)
  /\ Exit("panic")
  /\ UNCHANGED <<image, input, output, has_output, opts, target, runs, before,
                 torn>>

PlanDumbShort == \* mutant: the last unit is forgotten
  /\ opts.free > 1
  /\ todo' = << XorWith("dumb", 0, 0, Len(File) - 1) >>
  /\ Goto("dumb", "work")
  /\ UNCHANGED <<image, input, output, has_output, opts, target, runs, before,
                 torn>>

PlanDumb ==
  /\ opts.free > 1
  /\ todo' = << XorWith("dumb", 0, 0, Len(File)) >>
  /\ Goto("dumb", "work")
  /\ UNCHANGED <<image, input, output, has_output, opts, target, runs, before,
                 torn>>

(* args.free[1] is out of bounds. *)
DumbPadMissing ==
  /\ pc = "dumb" /\ opts.free <= 1
  /\ Exit("panic")
  /\ UNCHANGED <<image, input, output, has_output, opts, target, runs, before,
                 torn>>
-----------------------------------------------------------------------------
(* Carrying out the first step of todo.                                    *)
Doing(kind) == pc = "work" /\ todo # <<>> /\ Head(todo).kind = kind

frame == <<image, has_output, opts, target, runs, before>>

StepDone ==
  /\ todo' = Tail(todo)
  /\ UNCHANGED <<pc, status>>

Supplied(arg) == opts.pads[arg] # "none"

Pad(arg) == image.pads[opts.pads[arg]]

OpenPad ==
  /\ Doing("need") /\ Supplied(Head(todo).arg)
  /\ StepDone
  /\ UNCHANGED <<frame, input, output, torn>>

RefuseNothing ==
  /\ Doing("refuse") /\ ~Supplied(Head(todo).arg)
  /\ StepDone
  /\ UNCHANGED <<frame, input, output, torn>>

(* A missing or an extraneous argument is noticed only when its section's  *)
(* turn comes.                                                             *)
BadArgument ==
  /\ \/ Doing("need") /\ ~Supplied(Head(todo).arg)
     \/ Doing("refuse") /\ Supplied(Head(todo).arg)
  /\ Exit("panic")
  /\ UNCHANGED <<frame, input, output, torn>>

Fits(s) ==
  /\ s.size >= 0
  /\ PartFits(Len(File), s.file_pos, s.size)
  /\ PartFits(Len(Pad(s.arg)), s.pad_pos, s.size)

WholeCall(size) == CHOOSE w \in 0 .. (size + BUF_SIZE) : IsWholeCall(size, w)

XorSectionRepeats == \* mutant: the step is never done
  /\ Doing("xor") /\ Fits(Head(todo))
  /\ LET s == Head(todo)
     IN WriteFile(RegionAfter(File, Pad(s.arg), s, WholeCall(s.size)))
  /\ UNCHANGED <<frame, pc, todo, status, torn>>

XorSection ==
  /\ Doing("xor") /\ Fits(Head(todo))
  /\ LET s == Head(todo)
     IN WriteFile(RegionAfter(File, Pad(s.arg), s, WholeCall(s.size)))
  /\ StepDone
  /\ UNCHANGED <<frame, torn>>

XorInterrupted ==
  /\ Doing("xor") /\ Fits(Head(todo))
  /\ LET s == Head(todo)
     IN \E w \in 1 .. (WholeCall(s.size) - 1) :
          WriteFile(RegionAfter(File, Pad(s.arg), s, w))
  /\ torn' = torn \union {target}
  /\ \E s \in {"xor", "killed"} : Exit(s)
  /\ UNCHANGED frame

XorOutOfBounds ==
  /\ Doing("xor") /\ ~Fits(Head(todo))
  /\ Exit("panic")
  /\ UNCHANGED <<frame, input, output, torn>>

Within(pos, size) == pos + size <= Len(File)

IsPlain(f, pos, size) ==
  SubSeq(f, pos + 1, pos + size) = SubSeq(image.plain, pos + 1, pos + size)

HashIgnored == \* mutant: any hash will do
  /\ Doing("hash")
  /\ StepDone
  /\ UNCHANGED <<frame, input, output, torn>>

HashMatches ==
  /\ Doing("hash")
  /\ LET s == Head(todo)
     IN Within(s.file_pos, s.size) /\ s.genuine /\ IsPlain(File, s.file_pos, s.size)
  /\ StepDone
  /\ UNCHANGED <<frame, input, output, torn>>

HashDiffers ==
  /\ Doing("hash")
  /\ LET s == Head(todo)
     IN /\ Within(s.file_pos, s.size)
        /\ ~(s.genuine /\ IsPlain(File, s.file_pos, s.size))
  /\ Exit("hash")
  /\ UNCHANGED <<frame, input, output, torn>>

(* EXEFS::new and get_code_header: an ExeFS header that is not the plain   *)
(* one names no .code.  It has just been XORed, so it is within the file.  *)
CodeFound(s) ==
  s.ncch.has_code /\ IsPlain(File, s.file_pos, HEADER_SIZE)

ReadExefs ==
  /\ Doing("exefs") /\ CodeFound(Head(todo))
  /\ todo' = CodeRegions(Head(todo).ncch, Head(todo).file_pos) \o Tail(todo)
  /\ UNCHANGED <<frame, input, output, pc, status, torn>>

NoCode ==
  /\ Doing("exefs") /\ ~CodeFound(Head(todo))
  /\ Exit("panic")
  /\ UNCHANGED <<frame, input, output, torn>>

FilePos(s, i) == s.file_pos + HEADER_SIZE + s.files[i].file_off

FileIntact(s, i) ==
  /\ Within(FilePos(s, i), s.files[i].file_size)
  /\ IsPlain(File, FilePos(s, i), s.files[i].file_size)

FilesMatch ==
  /\ Doing("files")
  /\ \A i \in DOMAIN Head(todo).files : FileIntact(Head(todo), i)
  /\ StepDone
  /\ UNCHANGED <<frame, input, output, torn>>

(* verify_hashes stops at the first file that differs. *)
FileDiffers ==
  /\ Doing("files")
  /\ LET s == Head(todo)
     IN \E i \in DOMAIN s.files :
          /\ ~FileIntact(s, i)
          /\ \A j \in 1 .. (i - 1) : FileIntact(s, j)
          /\ Exit(IF Within(FilePos(s, i), s.files[i].file_size) THEN "hash"
                  ELSE "xor")
  /\ UNCHANGED <<frame, input, output, torn>>

ReadPastEnd ==
  /\ Doing("hash") /\ ~Within(Head(todo).file_pos, Head(todo).size)
  /\ Exit("xor")
  /\ UNCHANGED <<frame, input, output, torn>>

Finish ==
  /\ pc = "work" /\ todo = <<>>
  /\ Exit("ok")
  /\ UNCHANGED <<frame, input, output, torn>>

-----------------------------------------------------------------------------
(* The process is killed, or a system call fails, between two steps.       *)
Killed ==
  /\ pc # "idle"
  /\ Exit("killed")
  /\ UNCHANGED <<frame, input, output, torn>>

IoError ==
  /\ \/ pc = "open" /\ Exit("open")
     \/ pc = "magic" /\ Exit("io")
     \/ pc = "dumb" /\ \E s \in {"open", "io"} : Exit(s)
     \/ pc = "work" /\ todo # <<>> /\ Head(todo).kind = "need" /\ Exit("io")
     \/ /\ pc = "work" /\ todo # <<>>
        /\ Head(todo).kind \in {"xor", "hash", "exefs", "files"}
        /\ Exit("xor")
  /\ UNCHANGED <<frame, input, output, torn>>

-----------------------------------------------------------------------------
Work == \/ OpenPad \/ RefuseNothing \/ BadArgument
        \/ XorSection \/ XorOutOfBounds
        \/ HashMatches \/ HashDiffers \/ ReadPastEnd
        \/ ReadExefs \/ NoCode \/ FilesMatch \/ FileDiffers
        \/ Finish

Step == \/ ShowHelp \/ ChooseInplace \/ ChooseOutput \/ CopyInput \/ Open
        \/ PlanNcch \/ PlanNcsd \/ PlanMisread \/ HeaderMissing \/ UnknownContainer
        \/ PlanDumb \/ DumbPadMissing
        \/ Work

Environment == \/ Invoke \/ RemoveOutput \/ CopyFails \/ XorInterrupted
               \/ Killed \/ IoError

Next == Step \/ Environment

(* A running process takes its next step.                                  *)
Spec == Init /\ [][Next]_vars /\ WF_vars(Step)
-----------------------------------------------------------------------------
Statuses == {"none", "fresh", "ok", "help", "copy", "open", "io", "xor", "hash",
             "panic", "killed"}

TypeOK ==
  /\ image \in Images /\ opts \in Options
  /\ input \in Seq(Byte) /\ output \in Seq(Byte) /\ before \in Seq(Byte)
  /\ has_output \in BOOLEAN
  /\ ~has_output => output = <<>>
  /\ target \in {"input", "output"}
  /\ pc \in {"idle", "args", "copy", "open", "magic", "dumb", "work"}
  /\ todo \in Seq(Steps)
  /\ pc # "work" => todo = <<>>
  /\ status \in Statuses
  /\ pc = "idle" <=> status # "none"
  /\ runs \in 0 .. MaxRuns
  /\ torn \subseteq {"input", "output"}

(* The partition that an invocation decrypts.                              *)
Part == IF image.kind = "NCSD" /\ opts.partition # {} THEN Entry
        ELSE image.parts[1]

Decrypting == ~opts.dumb /\ pc = "idle" /\ status \notin {"fresh", "help", "copy", "open"}

Succeeded == Decrypting /\ status = "ok"

(* The invocation found the headers it goes by as the image has them.  No  *)
(* other header can be relied on: one that is read as a CFA's without a    *)
(* RomFS has an invocation without pads end well with nothing verified.    *)
Legible == Keeps(before, 0) /\ Keeps(before, Part.base)

(* Success is never reported over a hash that does not match: what an      *)
(* invocation verified is still so when it ends, whatever it was given,    *)
(* wrong pads and half-written sections included (main.rs:39-88).          *)
OkMeansVerified ==
  Succeeded /\ Legible => \A a \in Hashed(Part) : IsPlain(File, a.pos, a.size)

Genuine(m) == { p \in { m.parts[j] : j \in DOMAIN m.parts } : p.ncch.genuine }

(* Every call decrypts something that a hash would tell from ciphertext.   *)
Telling(m) ==
  \A p \in Genuine(m) : \A c \in Calls(p) :
    c.size # 0 => \E u \in Units(c), a \in Hashed(p) :
                    /\ a.pos < u /\ u <= a.pos + a.size
                    /\ m.cipher[u] # m.plain[u]

(* Unless the file has been left half-written before, success means that   *)
(* the sections are decrypted to their last unit, although the hashes      *)
(* cover only their beginning: wherever each call decrypts something that  *)
(* a hash tells from ciphertext.                                           *)
UntornOkIsPlaintext ==
  Telling(image) /\ Succeeded /\ Legible /\ target \notin torn
    => \A s \in Sections(Part) : IsPlain(File, s.pos, s.size)

(* An invocation reports success only for a file it found encrypted: what  *)
(* is decrypted is encrypted again by the next invocation, which says so.  *)
OkOnlyFromCiphertext ==
  Succeeded /\ Legible => \E s \in Sections(Part) : ~IsPlain(before, s.pos, s.size)

(* What a call of xor_file writes besides what it is asked to.             *)
Spill(c) == (c.file_pos + c.size + 1) .. (c.file_pos + WholeCall(c.size))

AllCalls(m) == UNION { Calls(p) : p \in Genuine(m) }

(* Out of reach of the last chunks a unit is never anything but encrypted  *)
(* or decrypted, however often the program is run, killed and run again    *)
(* with the same pads; and only a last chunk makes a file longer.          *)
CipherOrPlain ==
  /\ Len(input) >= Len(image.cipher)
  /\ \A f \in {input, output} : \A i \in DOMAIN f :
       \/ i \in DOMAIN image.cipher /\ f[i] \in {image.cipher[i], image.plain[i]}
       \/ \E c \in AllCalls(image) : i \in Spill(c)

(* Without --inplace the first free argument is only read.                 *)
InputUntouched == [][input' # input => opts.inplace]_vars

(* No step writes outside the sections of the partition it was told to     *)
(* decrypt (README.md:21-22), the rest of a last chunk apart.              *)
OnlyOwnPartition ==
  [][~opts.dumb /\ pc = "work" /\ Legible =>
       \A i \in DOMAIN File' :
         \/ i \in DOMAIN File /\ File'[i] = File[i]
         \/ \E s \in Sections(Part) : s.pos < i /\ i <= s.pos + s.size
         \/ \E c \in Calls(Part) : i \in Spill(c)]_vars

(* No last chunk reaches a header, or anything that matters.               *)
Guarded(m) ==
  \A c \in AllCalls(m), p \in Genuine(m) : p.base + 1 \notin Spill(c)
Roomy(m) ==
  Guarded(m) /\ \A c, d \in AllCalls(m) : Spill(c) \intersect Units(d) = {}

(* The image of a container as it should be: its sections are apart from   *)
(* one another and from the headers, and encrypted with its pads, which    *)
(* are long enough.                                                        *)
WellMade(m) ==
  /\ Len(m.plain) = Len(m.cipher) /\ m.plain # <<>> /\ m.plain[1] = m.cipher[1]
  /\ \A p \in Genuine(m) :
       /\ p.base < Len(m.plain) /\ m.plain[p.base + 1] = m.cipher[p.base + 1]
       /\ p.ncch.romfs_hashed <= p.ncch.romfs_size
       /\ p.ncch.extra_keyslot /\ ~IsCfa(p.ncch) =>
            p.ncch.has_code /\ p.ncch.exefs_size < U32_MOD
       /\ \A q \in Genuine(m), c \in Calls(p) :
            /\ {1, q.base + 1} \intersect Units(c) = {}
            /\ p # q => \A d \in Calls(q) : Units(c) \intersect Units(d) = {}
  /\ \A c \in AllCalls(m) :
       /\ PartFits(Len(m.plain), c.file_pos, c.size)
       /\ c.arg \in DOMAIN m.pads
       /\ PartFits(Len(m.pads[c.arg]), c.pad_pos, c.size)
       /\ \A d \in 1 .. c.size :
            m.cipher[c.file_pos + d]
              = Xor(m.plain[c.file_pos + d], m.pads[c.arg][c.pad_pos + d])

(* A command line that is about a genuine partition, and one that decrypts *)
(* it.                                                                     *)
AsksGenuine(o, m) ==
  \A k \in {1} \union o.partition : k \in DOMAIN m.parts => m.parts[k].ncch.genuine

InOrder(o, m) == ~o.dumb /\ AsksGenuine(o, m)

OwnPads(o) == \A a \in PadArgs : o.pads[a] \in {a, "none"}

(* Whatever is given for a pad, it changes something that is hashed first. *)
Keyed(o, m) ==
  \A j \in DOMAIN m.parts :
    LET n == m.parts[j].ncch
        arg == IF IsCfa(n) THEN "romfs" ELSE "exheader"
        hashed == IF IsCfa(n) THEN MinOf(n.romfs_hashed, n.romfs_size)
                  ELSE EXHEADER_HASHED
    IN /\ ~(IsCfa(n) /\ n.noromfs)
       /\ n.genuine /\ o.pads[arg] # "none" =>
            \E d \in 1 .. hashed : m.pads[o.pads[arg]][d] # Zero

(* The right pads, all of them and no other, on the encrypted file.        *)
RightPads ==
  LET n == Part.ncch
      given(arg) == opts.pads[arg] = arg
  IN /\ IF IsCfa(n)
        THEN \A a \in {"exheader", "exefs", "exefs7x"} : ~Supplied(a)
        ELSE given("exheader") /\ given("exefs") /\ given("exefs7x")
     /\ IF n.noromfs THEN ~Supplied("romfs") ELSE given("romfs")

CleanRun ==
  /\ Decrypting /\ status \notin {"killed", "io", "xor"}
  /\ before = image.cipher
  /\ image.kind = "NCSD" => InTable
  /\ Part.ncch.genuine /\ RightPads

(* Unless it is interrupted such an invocation succeeds and leaves the     *)
(* sections decrypted (README.md:10-16).                                   *)
CleanRunDecrypts ==
  CleanRun => /\ status = "ok"
              /\ \A s \in Sections(Part) : IsPlain(File, s.pos, s.size)

(* The same, for the images on which the last chunk of no section reaches  *)
(* into another section or a header.                                       *)
RoomyRunDecrypts ==
  Roomy(image) /\ CleanRun =>
    /\ status = "ok"
    /\ \A s \in Sections(Part) : IsPlain(File, s.pos, s.size)

(* A dumb run that succeeds has XORed every unit that the file had, and    *)
(* made it as long as its last chunk is (main.rs:141-148): what it has XORed *)
(* with a pad as long as the file, it can seldom XOR again.                *)
DumbXorsWholeFile ==
  opts.dumb /\ pc = "idle" /\ status = "ok" =>
    /\ Len(File) = WholeCall(Len(before))
    /\ \A i \in DOMAIN before : File[i] = Xor(before[i], Pad("dumb")[i])

(* README.md:16: a merged ExeFS pad is "just passed in with -x".           *)
MergedPadAccepted ==
  /\ Decrypting /\ Part.ncch.extra_keyslot
  /\ \A a \in {"exheader", "exefs", "romfs"} : Supplied(a)
  => status # "panic"

(* README.md:28, "xorer --dumb somefile.bin xorpad.bin": a dumb command    *)
(* line with a file and a pad is carried out.                              *)
DumbExampleRuns ==
  pc = "idle" /\ opts.dumb /\ opts.free = 2 => status # "help"

(* Every invocation ends.                                                  *)
Ends == pc # "idle" ~> pc = "idle"
=============================================================================
