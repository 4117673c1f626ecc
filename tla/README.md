# A TLA+ model of xorer

xorer decrypts 3DS containers (NCCH and NCSD images) by XORing their sections,
in place, with key streams ("xorpads") that the user has dumped to files.  This
directory models the program, checks it with TLC on small instances, and proves
with TLAPS what holds of its routines for every file, pad, message and buffer
size.

All paths below are relative to the repository.

## 1. The system

| Component | Source | State it keeps | Operations |
|---|---|---|---|
| XOR of a region | `src/xor.rs` | two file cursors, two 128 KiB buffers, a count of handled bytes | `xor_file`, `verify_file_part_size`, `xor` |
| Containers | `src/types/ncch.rs`, `src/types/ncsd.rs` | headers read from the file (offsets, sizes, hashes, flags; ExeFS file table; partition table) | `NCCH::new`, `decrypt_exheader/exefs/exefs7x/romfs`, `EXEFS::new`, `get_code_header`, `verify_hashes`, `NCSD::get_ncch` |
| Program flow | `src/main.rs` | which file is written, which step comes next; between invocations only the files themselves | `main`, `decrypt_file`, `decrypt_ncsd`, `decrypt_ncch`, `decrypt_cxi`, `decrypt_cfa`, `padxor_dumb` |
| Command line | `src/cli.rs` | the parsed options | `parse_args`, `get_arg`, `open_arg_file!`, `extraneous_if!` |
| Hash check | `src/verify.rs` | none | `verify_hash`, `is_zeroed`, `is_buf_same` |
| Reading structures | `src/filedata.rs` | none | `get_data` |
| SHA-2 | `crypto/src/sha2.rs` | bit count, block buffer, chaining value, finished flag | `input`, `result`, `reset` of six digests over two engines; the compression functions |
| Digest trait | `crypto/src/digest.rs` | none | `input`, `result`, `reset` |
| cryptoutil | `crypto/src/cryptoutil.rs` | `FixedBuffer`: bytes and position | `FixedBuffer`, `StandardPadding`, `add_bytes_to_bits(_tuple)`, big/little-endian words, `symm_enc_or_dec` |
| Buffers | `crypto/src/buffer.rs` | position and length in a byte slice or `Vec`; which of them holds the `Vec` | reading, writing, rewinding, truncating; one buffer turned into or lent to another; pushing from one to the other |
| Cipher traits, SIMD words | `crypto/src/symmetriccipher.rs`, `simd.rs` | none | traits; four- and two-lane words |

How they interact.  `main` chooses the file to write (the first argument with
`--inplace`, otherwise the output, a copy of the input unless it exists
already), reads the magic, and walks through the sections in a fixed order:
exheader, ExeFS, RomFS.  For each it opens the pad named on the command line,
calls `xor_file` on the section's region, and hashes a prefix of the section
with `verify_hash`.  Nothing is buffered or journalled: the container itself is
the only state, and it is rewritten as the program goes.  `verify_hash` feeds the
region to a fresh `Sha256`.  There is one thread, no callback that outlives a
call and no shared memory.

What is hard here:

* **Chunks.** `xor_file` reads with a cursor that moves, seeks back, and writes
  both buffers whole although the last chunk is rarely full.
* **Interruption.** A kill, an I/O error, a missing pad or a hash mismatch leaves
  the file with some sections decrypted and some not, or one of them half so.
* **Rerunning.** XOR is its own inverse, so the next invocation decrypts what is
  still encrypted and encrypts what is not.
* **Hashes that cover less than what is XORed**, and headers that are themselves
  encrypted and are read back after they were XORed.
* **Boundaries** of blocks and counters in the digest: a block filled exactly,
  the marker that leaves no room for the length, carries of the bit count.
* **The compression functions** are written for vector instructions: the message
  schedule lives in a ring that is written over while the rounds go on, with the
  lanes in reverse and the registers changing places.
* **Buffers that share one `Vec`**: who may read or write it, how far, and what an
  earlier use left in it.

What makes each component correct:

* `xor_file`: at every moment the file is determined by how many bytes have been
  written; Ok means that the region is decrypted; a read never runs short; a
  call ends.
* containers and `main`: success is reported only for sections that are
  decrypted; only the chosen partition is written; the input is not written
  without `--inplace`; the right pads on the encrypted file succeed (which they
  do not in general, section 5).
* digests: the result is a function of the message, however it is cut, and
  whatever the object was used for before; a block is compressed as the scalar
  definition of SHA-2 says.
* buffers: what is read is what was written since the buffer was last emptied;
  bytes that are pushed or encrypted on arrive whole and in order.

## 2. Modules

| Module | Models |
|---|---|
| `XorRegion` | data of `xor.rs`: bytes as a group in which each element is its own inverse, the bounds check, the XOR of buffers, a write at an offset, and `RegionAfter`, the file after `w` bytes have been written |
| `XorCall` | abstract: what a caller of `xor_file` may rely on |
| `XorFile` | `xor_file`, one action per system call; implements `XorCall` |
| `Ncch` | containers as records and the plan (sequence of steps) of `decrypt_cxi`/`decrypt_cfa` and the `decrypt_*` methods |
| `Xorer` | the program over several invocations; a call of `xor_file` is one step whose outcomes are those of `XorCall` |
| `CryptoUtil` | `FixedBuffer`, `StandardPadding`, bit counts, big-endian words |
| `MessageDigest` | abstract: the `Digest` trait as a function of the message |
| `Sha2Engine` | both engines and the six digests; implements `MessageDigest` |
| `Words` | `u32` and `u64`, the lanes of `simd.rs`, big-endian conversion |
| `Sha2Rounds` | abstract: SHA-2 in its scalar form, as the comments of `sha2.rs` give it |
| `Sha2Blocks` | `sha256_digest_block` and `sha512_digest_block`; implements `Sha2Rounds` |
| `ByteStore` | abstract: a store that is written, then read, over and over |
| `ByteBuffers` | the buffers of `buffer.rs`, with `push_to` and `symm_enc_or_dec` between them; implements `ByteStore` |
| `MCXorFile`, `MCXorer`, `MCSha2Engine`, `MCSha2Blocks`, `MCByteBuffers` | instances for TLC |
| `DataLemmas` | lemmas about sequences, powers of two and division that several proofs need |
| `XorRegion_proofs`, `XorFile_proofs` | proofs about `xor_file` |
| `Ncch_proofs`, `Xorer_proofs` | proofs about the plans, and about the program |
| `Sha2Engine_proofs` | proofs about the digests |
| `Sha2Blocks_proofs` | proofs about the compression functions |
| `ByteBuffers_proofs` | proofs about the buffers |

### XorFile

`file`, `file_cursor` and `pad_cursor` are the operating system's; `file_buf`,
`pad_buf`, `read_size` and `total_read_size` are the locals of `xor_file`.
`written` is a history variable: how many bytes have reached the disk, counted
from the start of the region.  The actions, in program order, are `VerifyFile`,
`VerifyPad` (`OutOfBounds` panics), `SeekToRegion`, `BeginChunk`/`FinishLoop`,
`ReadFile`, `ReadPad`, `SeekBack`, `WriteChunk`.  `IoError` makes any system call
fail; `PartialWrite` is a `write_all` that fails after part of the chunk has been
written, or a kill at that moment.  `Fill` keeps what a buffer held past
`read_size`, `WriteChunk` writes both buffers to their end, and `ChunkSize` takes
the remainder modulo `USIZE_MOD` before it compares it with `BUF_SIZE`, as the
code does.

`RegionAfter(f, pad, c, w)` says in closed form what that does: byte `d` of the
region becomes `f XOR pad`, and past the end of the region comes what the
buffers still held, which is zero in the first chunk and the decrypted bytes of
the previous chunk in a later one.

### Ncch and Xorer

A container is cut into units of 0x200 bytes, the granularity of every offset in
its headers, except that ExeFS files are taken to start and end on units too.
A unit is one "byte" of `XorRegion`.  An image has its contents before (`cipher`)
and after (`plain`) decryption, its partitions and the pad files.  A hash matches
exactly when the hashed units are the plain ones (SHA-256 is taken to be free of
collisions), and an ExeFS header that is not the plain one names no `.code`.

A header is a record, which stands for one unit of the file.  Headers are not encrypted, but
the last chunk of a call or a dumb run may write over one, and `NCCH::new` checks no
magic.  So `PlanNcch` and `PlanNcsd` plan from the image's header where the file `Keeps`
its unit.  `PlanMisread` is every other way to come by a header: a partition's is
gone, or the first unit of the file is `Altered`, in which case either magic and a
table of any entries may be there and the header may be looked for anywhere
(`Astray`).  What is read at such a place (`HeadersAt`) is a `ZeroNcch` if there are zeros,
an intact header of the image if there is one, and otherwise any member of `Misread`:
in the runs a CFA without a RomFS, with which an invocation without pads ends well
and has verified nothing, and a CFA with a RomFS whose hash may match.  `Legible` says
that an invocation found the headers it goes by as the image has them.  The properties about
what success means say so only of those; a file worked on by another header counts as
`torn` from then on.

`partition` is the number of `-p`, and 0 (the first entry) both without `-p` and with
one that does not parse (`main.rs:104-110`); `Entry` is its row of the table.

`Ncchs` are the headers there can be and `Steps` the steps a plan is of.
`LaidOut` says of a CXI that its sections follow one another and that what is
hashed of the ExeFS lies in it; `ImagesAssumption` asks that of every header that is the
image's own, and nothing of what else is read as one.  It is the format of the
containers, not something the program checks: with sections that overlap, a later
one would be decrypted over an earlier one that has been verified, and
`OkMeansVerified` would be false.  `OptionsAssumption` says that a pad named on
the command line is a file, and that two free arguments come with a pad for
`--dumb`, which is the second of them.

`Hashed(p)` is what the hashes in the headers of partition `p` cover: the first
half of the exheader, the hashed prefixes of the ExeFS and the RomFS, and with
the second key slot the files of the ExeFS: those in front of the first empty
entry, where `verify_hashes` stops (`files`).  `.code` is found among all ten entries and
is a field of its own (`has_code`, `code`).

`Calls(p)` is how a partition is encrypted, as the calls of `xor_file` that decrypt
it, and `Spill(c)` what a call writes past its region.  Conditions on images and
command lines are definitions of `Xorer`, for the proofs and for `RoomyRunDecrypts`:
`WellMade` (an image's sections are apart from one another and from the headers, and
encrypted with its pads), `Guarded` (nothing is spilled on a header), `Roomy` (nor on a
section), `Telling` (each call decrypts something that a hash tells
from ciphertext, a part of `UntornOkIsPlaintext`), `AsksGenuine` (a command line that names a partition of the image's own),
`InOrder` (and is not for dumb mode), `OwnPads` (a pad is the right one or left out) and `Keyed`
(the pad that is used first is not zeros over what is hashed first).

`Plan` is `decrypt_ncch` with the order of its steps, and `todo` what is left of
it.  `decrypt_exefs7x` is planned in two parts, since where `.code` lies is read
from the header that has just been decrypted (`ReadExefs`, `CodeRegions`).  Each
kind of step has an action for each way it can go.  `CopyFails`,
`XorInterrupted`, `Killed` and `IoError` are failures; `Invoke` runs the program
(again), with any command line of `Options`, and `RemoveOutput` is the user
removing the output in between.  `status` says how an invocation ended, by the
message printed (`main.rs:187-218`).  `before` and `torn` are history.

### CryptoUtil and Sha2Engine

A `FixedBuffer` is its bytes and its index; the bytes behind the index are kept,
since `reset` does not clear them.  Counts of bits are integers below the word
size with the code's own overflow tests; an addition that panics has no result.
A chaining value is kept as an initial value and the blocks compressed so far:
whatever the compression function, equal chains give equal values.  `digest`
says which of the six structs the object is; `Engine256` and `Engine512` differ
in block size, length field, and a bit count of one word or two.  `result` is
given a slice of `output_bytes` bytes, as both of its callers do.

### Words, Sha2Rounds and Sha2Blocks

A word is the set of the positions of its ones, at its real width; TLC's own
integers are narrower.  A vector is a tuple in the order of the fields of the
struct, so that lane 1 holds the latest word of the schedule.  `sha256msg1`,
`sha256msg2`, `sha256_digest_round_x2`, `sha512_schedule_x2` and the others are
operators of the same names.  The code of the two block functions is unrolled:
an action `Rounds256` or `Rounds512` is one `rounds4!` with the loads or
`schedule!`s in front of it, and `Slot` says which of the vectors `w0`, `w1`, ...
stands where in them.  The arguments of every `schedule!` line follow that
pattern, offsets 1 to 4 modulo 5, and 2, 3, 6, 7 and 9 modulo 10.  `sched` is
history, the words in the order the rounds use them; with it a state is a state of
`Sha2Rounds`.  `Sha2Engine` says which blocks are compressed, `Sha2Blocks` what
that does to the chaining value; they meet at `process_block`.

### ByteStore and ByteBuffers

A caller puts bytes into a `RefReadBuffer`, a sender moves them into a store, a
receiver moves them on into a `RefWriteBuffer`, and the caller drains that.  The
store is one `Vec` that an `OwnedWriteBuffer` or an `OwnedReadBuffer` owns; `kind`
says which, or that the latter is lent to a `BorrowedWriteBuffer`, and `view` is
the `RefReadBuffer` of `take_read_buffer` while it lives.  The borrow checker's
rules are guards: a lent buffer is not used until the loan has ended.  `Send` and
`Receive` are `symm_enc_or_dec`, or `push_to` where `ciphered` is false; the
cipher is external and XORs a repeating keystream.  The other actions have the
names of the methods.  `sent` and `got` are history until the first call that
takes bytes out of the stream or puts some back (`edited`).

## 3. Runs

| Run | Instance | Shows |
|---|---|---|
| `xor_file` | all files of 1 and 5 bits, pads of 3 and 4, offsets 0..2 and 0..1, sizes 0..4, `BUF_SIZE` 2 | `TypeOK`, `FileIsRegionAfter`, `OkXorsRegion`, `NoShortRead`, `LoopInv`, `ForwardOnly`, `RefinesXorCall`, `Returns` |
| `xorer_reruns` | five images on which no last chunk reaches a header: a CXI with room after its sections and one without, a 7.x CXI without RomFS, a CFA, a card of two partitions; the right pads, all, some or none; 3 invocations | `TypeOK`, `OkMeansVerified`, `UntornOkIsPlaintext`, `OkOnlyFromCiphertext`, `CipherOrPlain`, `InputUntouched`, `OnlyOwnPartition`, `Ends` |
| `xorer_chunks` | twelve images. Six: sections shorter than a chunk, of one and of more, with room after them or none, a card whose second header the first RomFS spills on, a hash region past the end of the file; swapped and missing pads, no pads, partition numbers of an unused entry and past the table. Three, a CFA, a CXI and a card: dumb runs with a long pad, a short one and none, between decrypting ones with pads or without. Three 7.x titles: one whose `.code` ends where 32 bits wrap (`U32_MOD` 6), and two on which the file check can succeed, since what the call for the ExeFS header overwrites is in no listed file, with `.code` at a distance or after an empty entry: right and wrong pads. 3 invocations | `OkMeansVerified`, `UntornOkIsPlaintext`, `RoomyRunDecrypts`, `DumbXorsWholeFile`, `InputUntouched` |
| `sha2_engine` | bytes of 2 bits, blocks of 4 (narrow) and 3 (wide) bytes, length field of 2, all inputs of up to 3 bytes over two values, one of two blocks and one longer than a word of bits | `TypeOK`, `Consumed`, `Answered`, `ResultStays`, `RefinesMessageDigest` |
| `sha2_blocks` | 32 and 64 bits, the constants and initial values of `sha2.rs`; two examples of the tests for each of the six digests, a message of two blocks for both functions | `TypeOK`, `RingHoldsSchedule`, `KnownAnswers`, `RefinesSha2Rounds` |
| `byte_buffers` | bytes of 1 bit, a keystream of period 3, inputs of 0 to 3 bytes, a store of 2, an output of 1, up to 4 bytes sent, with and without the cipher | `TypeOK`, `Conserved`, `EndsInStep`, `OverflowMeansFull`, `RefinesByteStore` |
| `xor_file_tail`, `xor_file_32bit`, `xorer_tight_cxi`, `xorer_7x`, `xorer_merged_pad`, `xorer_dumb_example` | one question each | disagreements, section 5 |

Why the bounds are enough.  In `xor_file` a call takes up to two chunks, so that
there is a first, a last and a full chunk, partial ones, and buffers that hold an
earlier chunk; every byte the loop writes is a linear function over GF(2) of bytes
of the file and the pad, so that single bits tell any two of them apart.  The
proofs remove these bounds.  In the runs of `Xorer` units are sets of atoms with
an atom for each pad, so that a unit shows which pads have been applied to it;
three invocations are enough for decrypted, encrypted again and decrypted once
more, and for an interruption followed by two reruns.  `MaxRuns` is the only
bound on behaviours, but that `xorer_chunks` runs each image with the command lines it is
there for (`OwnLines`, a constraint).  A chunk is three units and the exheader two, the ExeFS header
one: as with the 256, 4 and 1 units of the code (`ChunkAssumption`), the last chunk of the
exheader and of the ExeFS header always reaches past them, so that no CXI can have its
sections end on chunk boundaries; a RomFS or the ExeFS of the runs is less than a chunk,
one, or more.  In `sha2_engine` nothing but the size of the count bounds
the message: it overflows at eight bytes, in both kinds of engine, after every
position of the marker in a block has been seen.  `sha2_blocks` is not reduced at
all but for its messages: every round runs at its own width with its own constant.
There is no branch on data in it, a word wrong anywhere changes all that follow,
and a second block starts from the chaining value of the first.  In
`byte_buffers` the input is longer than the store and the store than the output,
so that every transfer is cut by either side; four bytes fill the store twice and
pass the end of the keystream, with the store changing hands in between.

`CHECK_DEADLOCK FALSE`: a call that has returned, a digest that has panicked, a
message whose blocks have all been compressed, and a user who has made `MaxRuns`
invocations do nothing more.

Fairness.  `Spec` of `XorFile` and `Xorer` has weak fairness of `Step`: there is
one thread, and every system call returns.  Failures, kills and the user are not
in `Step` and need never happen.  `Returns` and `Ends` need nothing stronger.
`Sha2Engine`, `Sha2Blocks` and `ByteBuffers` have no liveness property and no
fairness: their steps are calls that someone else makes, or straight-line code.

Every property has a mutant, a bug of the kind the code could have had, under
which its run fails (`PROJECT.json`, "mutants"; the mutated definitions stand in
front of the real ones).

## 4. Proofs

`XorFile_proofs` proves, for all files, pads, calls and buffer sizes,

* `LoopInvariant`: `Spec => []LoopInv`, the inductive invariant;
* `TypeCorrect`, `FileAlwaysRegionAfter`, `ChecksCoverReads`, `OkRegionDecrypted`:
  the invariants of the run `xor_file`;
* `HandledBytesStay`: the action property `ForwardOnly`;
* `ImplementsXorCall`: `Spec => RefinesXorCall`.

They assume `XorLaws` (XOR is an associative, commutative operation with a zero,
each element its own inverse), `BUF_SIZE` positive, the inputs sequences of bytes,
and `SizesFit`: every size is smaller than `USIZE_MOD`, so that the cast in
`xor.rs:53` loses nothing.  That is so with a 64-bit `usize`; without it the
theorems are false (run `xor_file_32bit`).

The argument.  `FileIsRegionAfter` alone is not inductive: that a chunk writes the
right bytes depends on where both cursors are and on what both buffers hold,
past `read_size` too.  `LoopInv` adds `Progress` (all of `written` is whole chunks,
equal to `total_read_size` until the last), `CursorsInPlace` and `BuffersHold`
(each buffer holds the current chunk where it has been read and the previous one
elsewhere), and `ChecksDone`.  The one step with content is the write:
`BuffersAreLoopBytes` shows that the XOR of the buffers is what `RegionAfter` asks
for, `ChunkExtends` that writing any prefix of it extends the closed form by as
many bytes; `WriteChunk` and `PartialWrite` are its two uses.  The reads rest on
`UnreadIsOriginal`: from the current position on the file is still the original.
`XorRegion_proofs` has the lemmas about the operators.

`Xorer_proofs` proves, for all images, command lines, chunk sizes and numbers of
invocations,

* `InputOnlyRead`: `Spec => InputUntouched`, from the invariant `TargetAllowed` (an
  invocation past its choice of a file that is about to write to the first argument
  was given `--inplace`);
* `TypeCorrect`: `Spec => []TypeOK`;
* `DumbRunIsXor`: `Spec => []DumbXorsWholeFile`;
* `SuccessIsVerified`: `Spec => []OkMeansVerified`, with nothing asked of the images, the
  command lines or what is read where a header was;

and, under hypotheses on the images and the command lines,

| Theorem | States | For |
|---|---|---|
| `WritesOwnPartition` | `OnlyOwnPartition` | images `WellMade`, lines `AsksGenuine` |
| `UnitsCipherOrPlain` | `CipherOrPlain` | images `WellMade` and `Guarded`, lines `InOrder` with `OwnPads` |
| `SuccessIsPlaintext` | `UntornOkIsPlaintext` | images `WellMade` and `Roomy`, lines `InOrder` with `OwnPads` |
| `RoomyRunSucceeds` | `RoomyRunDecrypts` | images `WellMade` |
| `SuccessFromCiphertext` | `OkOnlyFromCiphertext` | images `WellMade`, lines `Keyed` |

The program checks none of these, and the properties are about what it does when they
hold: without `Roomy` the documented command fails (`xorer_tight_cxi`), a pad of
zeros makes any decrypted file succeed again.  Executables can meet them, with chunks of
the code's length: `Guarded` asks for 128 KiB between a section and the next header, and `Roomy`
between two sections, which no packed container has.  TLC evaluates them on the images and
command lines of the runs (`InstancesAsAssumed` of `MCXorer`): in `xorer_reruns` all but
`Roomy` hold of every image, and `Roomy` of some; `xorer_chunks` has images that are not
`Guarded`, on which the second partition's header is lost.

Besides `XorLaws` and `BUF_SIZE` they use `ImagesAssumption` and
`OptionsAssumption`.  `TypeOK` is not inductive: that a write leaves a file of
bytes depends on the pad being a file, which is only so if an `open_arg_file!`
came before it in the plan.  `PadsReady` says so of what is left of the plan.  The
two are inductive together, since `PlanIsReady` shows that every plan starts out
with it and `TailReady` and `JoinReady` that taking a step, or putting the regions
around `.code` in front, keeps it.  A dumb run has one step, either to be
done on the file as it was opened or done (`DumbInv`).  Doing it again does not give the
file back in general: the first run makes the file as long as its last chunk, so that the
second one needs a pad longer than the file was, and panics without.

`SuccessIsVerified` is about the order of the steps.  `Secured(a)` says of a hashed
area that a step still to come verifies it and no step after that one writes to
it, or that it is plain and no step to come writes to it; `VerifiedInv` that
everything in `Hashed(Part)` is secured, unless some step to come is a hash
that cannot match (`Doomed`: the hashes in the header match nothing).  It says so of
invocations that are `Legible`; `LegiblePlan` shows that these plan from the header of `Part`,
whatever else could be read elsewhere, and `LegibleKept` that they stay so.  Three facts carry
it.  A plan secures all of `Hashed` (`PlanVerifies`; here `LaidOut` is needed), a
call of `xor_file` writes nothing in front of its region (`RegionWritten`, `PlainStays`),
however far the last chunk runs past its end, and the regions around `.code`
do not start before the ExeFS (`CodeRegionsLemma`), however the 32-bit sum of
`ncch.rs:102` comes out.  `Ncch_proofs` has the lemmas on plans, in terms of lists
of steps, so that none of them is about the state.

The theorems of the table follow three lines of thought.

*Where calls write.*  `Written` says what a call of `xor_file` leaves (`CallDone`), or
what is left of it when it is cut short (`CallCut`): its units are toggled or, if
it was cut, some of them not, what is spilled is anything, and the rest is as it was.
`OwnWorkInv` says of a legible invocation that all that is left to do belongs to the
partition (`Proper`), so that every call is one of `Calls(Part)` (`OwnCall`); that is enough for
`WritesOwnPartition`, on any file.  `OwnInv` adds that every invocation at work is
legible, since the headers of the image are intact in both files (`HeadsStep`, from
`Guarded`: no call writes to a header, nor does what it spills).  With it, `CellsInv`: every
unit that no last chunk reaches is the encrypted or the decrypted one, since each lies in one
call at most and the pad of that call toggles between the two (`Toggles`).

*What phase a section is in.*  `PhaseInv` says that in a file that is not torn the
units of each call are all encrypted or all decrypted (`Whole`), which a whole call keeps.
What was verified then settles the rest: a call that has a hashed
unit by which the two can be told apart is in the phase of that unit (`SuccessIsPlaintext`,
with `OkMeansVerified`).  `OutputInv` is there for the copy that the output begins as.

*The course of an invocation.*  Steps come in the order of the file (`Ascending`), so
what is hashed is never written to again and what is still to be written is known:
`Covered(t, u)` says that some step left in `t` will write unit `u`.  `CourseInv` says of a
clean run that the covered units are encrypted and the others of the partition decrypted.
`PlanCourse` starts it, `CourseXor` takes a call's units out, `CourseExefs` shows that
the regions around `.code` cover what reading the header was to lead to, and
under it, and with the headers being those of the encrypted file (`CleanLegible`), none of
the ways to fail is possible (`NoBadArgument`, `NoOutOfBounds`,
`NoHashDiffers`, `NoNoCode`, `NoFileDiffers`, `NoUnknown`); `RoomyRunSucceeds` is what
is left.  `FirstInv` follows the first call alone: before it (`Leads`) the file is as
it was opened, and after it the units that are hashed of what it wrote are the
toggled ones (`Toggled`) and are left alone.  If the invocation succeeds they are
decrypted, so they were not when it began, unless the pad is zeros there.

`Sha2Engine_proofs` proves all the properties of its run: `TypeCorrect`,
`InputsConsumed`, `DigestAnswered`, `SameResult` and `KeepsPromise` (`Spec =>
RefinesMessageDigest`), for every block size, length field, byte and word width.
`Consumed` is inductive with `TypeOK` and the facts about a finished digest.  The arithmetic behind it:
the blocks of a concatenation are those of the first message and then those of
its rest and the second one; the padded message is a whole number of
blocks whether the marker leaves room for the length or not; the two words of the
length field, written big-endian one after the other, are the count as one number; and
the bit count overflows exactly where the abstract digest says it panics,
be it one word or two with a carry.

`ByteBuffers_proofs` proves all the properties of its run: `TypeCorrect`,
`OverflowCorrect`, `BytesConserved`, `KeystreamInStep` and
`ImplementsByteStore` (`Spec => RefinesByteStore`), for every size of the store
and of the output, every keystream and every input.  `TypeOK`, which
includes that a borrowed buffer's position is its parent's length, is inductive.
`Conserved` is inductive with it and with `EndsInStep`: that the plain text
comes out again needs the two ends of the cipher to be apart by exactly what is
stored.  The refinement is one step per method.

`Sha2Blocks_proofs` proves, for every message, every initial value and every table of
constants (`JobsAssumption` and `KAssumption` only give them their widths),

* `TypeCorrect`: `Spec => []TypeOK`;
* `RingCorrect`: `Spec => []RingHoldsSchedule`;
* `ComputesSha2Rounds`: `Spec => RefinesSha2Rounds`.

The vector code adds, shifts and selects in another order than the scalar
form, so the argument starts with words.  `AddComm` and `AddAssoc` are the laws of
`wrapping_add` on sets of bits, by way of the carries of a ripple-carry adder;
`Rotated` says that a rotation is two shifts, and `Bool3ary` that the two
forms of "choose" and "majority" agree.  Then one round of
either code is a `Turn` of the eight registers (`RoundIsTurn`, `TurnNamed`), a
`rounds4!` with its registers changing places is four (`FourTurns256`,
`FourTurns512`), and `sha256_schedule_x4` and `sha512_schedule_x2` give the next words of
the schedule when their arguments are the right vectors (`Schedule256`,
`Schedule512`).  The inductive invariant `IInv` is the types together with
`RingHoldsSchedule`, which is what makes the arguments the right ones: a group reads
words up to sixteen back, the ring has the last twenty, and the slot that is written
over held the oldest (`RingNext256`, `RingNext512`).  The refinement
is one step per action.

Induction over data.  The library's induction theorems cannot be used, but a property of all
naturals can be had from the absence of a least counterexample, which
`DataLemmas` takes from the well-ordering of the naturals; the powers of two,
the sums and the carries of the proofs above are done that way.

Only model-checked: the liveness properties `Returns` and `Ends` (liveness and
ENABLED are out of the prover's reach), and `KnownAnswers` of `Sha2Blocks`, the digests
of particular messages under the real constants.

## 5. What the checks found

* **The last chunk is written whole** (`xor.rs:63`; run `xor_file_tail`).  An Ok
  call overwrites up to 128 KiB past its region, with zeros or with bytes of the
  previous chunk, and makes the file longer if the region is near its end.
  `--dumb` rounds the size of its output up to a whole chunk.
  Running it again with a pad as long as the original therefore panics.
* **So the documented command cannot work on a packed container** (run
  `xorer_tight_cxi`): XORing the exheader destroys the ExeFS that follows it.  Since a
  chunk is longer than the exheader, there is no CXI whose sections all end on chunk
  boundaries; the command works only with a chunk of room after each section
  (`RoomyRunDecrypts`, run `xorer_chunks`).
* **And `-7` cannot work on a usual 7.x title**, with room or without (`ncch.rs:94`; run
  `xorer_7x`): the ExeFS header is XORed by a call for its 0x200 bytes, which overwrites the
  128 KiB after it, the beginning of the files.  The calls that follow XOR what is left
  there, and the hash of the first file differs.  Only when nothing that is listed in the
  ExeFS lies in those 128 KiB does an invocation end well (`xorer_chunks`).
* **The remaining size is truncated to `usize`** (`xor.rs:53`; run
  `xor_file_32bit`): on a 32-bit machine a remainder of a multiple of 4 GiB ends the
  loop with Ok.
* **A merged ExeFS pad is refused** (`main.rs:48-49` against `README.md:16`; run
  `xorer_merged_pad`).
* **The example of `--dumb` shows the help** (`main.rs:176-181` against
  `README.md:28`; run `xorer_dumb_example`).

Not listed as disagreements, since no document says otherwise:

* After an interruption inside the exheader, of which half is hashed
  (`ncch.rs:74-77`), later runs XOR its two halves in opposite phase.  That is why
  `UntornOkIsPlaintext` is about files that were not left half-written; of the others
  `OkMeansVerified` says what success means.
* A header that has been written over may be read as that of a CFA without a RomFS
  (`ncch.rs:35-69`), with which an invocation without pads succeeds and has verified
  nothing.  That is why these properties ask for `Legible`.
* A partition number that does not parse is taken for 0 (`main.rs:107`).
* `peek_next` of a reader slices up to `count`, not up to `pos + count` (`buffer.rs:92`,
  `143`).  Nothing calls it.

## 6. Not modelled, and why

* Ciphers: `symmetriccipher.rs` has traits without an implementation here.  Of
  them `ByteBuffers` has the stream cipher, as an external one; the block cipher
  traits have no user.
* Calls of the buffers that no caller in the repository makes: `peek_next`, a `rewind` or
  `truncate` by more than there is, which underflows, and a `take_next` of more
  than `remaining()`, which panics, or, on an `OwnedReadBuffer` that is shorter
  than its `Vec`, returns stale bytes (`buffer.rs:145`).
* Little-endian conversion, `xor_keystream`, `WriteExt`, and of `simd.rs` `Sub`,
  `BitAnd`, shifts by a scalar and `simd_eq`: no caller.
* Option parsing (getopts) and `--help`: they end the program before it touches a
  file.  An output name that is the input's own name, and two programs on one
  file at a time, are left out.
* The layout of bytes inside headers; a file that changes under the program.
* Build scripts.

## 7. Plan

1. Done: `XorRegion`, `XorCall`, `XorFile` and their proofs; `Ncch`, `Xorer` and
   `InputOnlyRead`; `CryptoUtil`, `MessageDigest`, `Sha2Engine`.
2. Done: `Words`, `Sha2Rounds`, `Sha2Blocks` (the order of the SIMD code against
   the scalar definition); `ByteStore`, `ByteBuffers` (hand-overs, pushing, the
   stream helper).
3. Done: the proofs of `Sha2Engine`, `Sha2Blocks`, `ByteBuffers`, and of `TypeOK`,
   `DumbXorsWholeFile` and `OkMeansVerified` of `Xorer`.
4. Done: the proofs of the other safety properties of `Xorer`, for images as they
   should be.
5. Open: a second program on the same file, and the layout of the headers.
