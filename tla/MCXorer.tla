------------------------------- MODULE MCXorer -------------------------------
(***************************************************************************)
(* Images and command lines for Xorer.  A unit is a set of atoms and XOR   *)
(* is symmetric difference: p and q make up the plain units, and each pad  *)
(* has an atom of its own.                                                 *)
(***************************************************************************)
EXTENDS Xorer

Atoms == {"p", "q", "e", "x", "s", "r"}
AtomSets == SUBSET Atoms
NoAtoms == {}
SymDiff(a, b) == (a \ b) \union (b \ a)

(* Plain unit i, and unit i of the pad with atom a: never zero, and        *)
(* different from the unit next to it.                                     *)
PlainUnit(i) == IF i % 3 = 0 THEN {"p"} ELSE IF i % 3 = 1 THEN {"q"} ELSE {"p", "q"}
PadUnits(a, n) == [i \in 1 .. n |-> IF i % 2 = 0 THEN {a} ELSE {a, "q"}]

PadLength == 8
PadFiles == [exheader |-> PadUnits("e", PadLength),
             exefs |-> PadUnits("x", 2 * PadLength),
             exefs7x |-> PadUnits("s", 2 * PadLength),
             romfs |-> PadUnits("r", PadLength),
             dumb |-> PadUnits("x", 24)]

(* The pad that unit i (counted from the partition's start) is encrypted   *)
(* with, and at what distance into the pad.                                *)
InCode(n, d) == /\ n.extra_keyslot
                /\ 1 + n.code.file_off <= d /\ d < FileEnd(n.code)

UnitKey(n, d) ==
  IF ~IsCfa(n) /\ 1 <= d /\ d < 1 + EXHEADER_SIZE
  THEN PadFiles.exheader[d]
  ELSE IF ~IsCfa(n) /\ n.exefs_offset <= d /\ d < n.exefs_offset + n.exefs_size
  THEN LET k == d - n.exefs_offset
       IN IF InCode(n, k) THEN PadFiles.exefs7x[k + 1] ELSE PadFiles.exefs[k + 1]
  ELSE IF ~n.noromfs /\ n.romfs_offset <= d /\ d < n.romfs_offset + n.romfs_size
  THEN PadFiles.romfs[d - n.romfs_offset + 1]
  ELSE {}

(* Part i of an image of length len. *)
KeyAt(parts, len, i) ==
  LET mine == { p \in { parts[j] : j \in DOMAIN parts } :
                  p.ncch.genuine /\ p.base < i /\ UnitKey(p.ncch, i - 1 - p.base) # {} }
  IN IF mine = {} THEN {}
     ELSE LET p == CHOOSE p \in mine : \A q \in mine : q.base <= p.base
          IN UnitKey(p.ncch, i - 1 - p.base)

MakeImage(kind, parts, len) ==
  [kind |-> kind, parts |-> parts, pads |-> PadFiles,
   plain |-> [i \in 1 .. len |-> PlainUnit(i)],
   cipher |-> [i \in 1 .. len |-> SymDiff(PlainUnit(i), KeyAt(parts, len, i))]]

-----------------------------------------------------------------------------
(* Containers.  gap is what is left free after each section.               *)
Cxi(exefs, exefs_hashed, romfs, romfs_hashed, gap) ==
  [ZeroNcch EXCEPT
     !.exec = TRUE, !.genuine = TRUE,
     !.exefs_offset = 1 + EXHEADER_SIZE + gap, !.exefs_size = exefs,
     !.exefs_hashed = exefs_hashed,
     !.romfs_offset = 1 + EXHEADER_SIZE + exefs + 2 * gap,
     !.romfs_size = romfs, !.romfs_hashed = romfs_hashed]

File7x(off, size) == [file_off |-> off, file_size |-> size]
Cxi7x(lead, code, after, romfs, gap) ==
  [Cxi(1 + lead + code + after, 1, romfs, 1, gap) EXCEPT
     !.extra_keyslot = TRUE, !.has_code = TRUE, !.code = File7x(lead, code),
     !.files = (IF lead = 0 THEN <<>> ELSE << File7x(0, lead) >>)
               \o << File7x(lead, code) >>
               \o (IF after = 0 THEN <<>> ELSE << File7x(lead + code, after) >>)]

(* The entries of the ExeFS header before the first empty one are files.   *)
Listing(n, files) == [n EXCEPT !.files = files]

NoRomfs(n) == [n EXCEPT !.noromfs = TRUE, !.romfs_size = 0, !.romfs_hashed = 0]

Cfa(romfs, romfs_hashed) ==
  [ZeroNcch EXCEPT !.data = TRUE, !.genuine = TRUE, !.romfs_offset = 1,
                   !.romfs_size = romfs, !.romfs_hashed = romfs_hashed]

Single(n, len) == MakeImage("NCCH", << [base |-> 0, ncch |-> n] >>, len)

(* What may be read where there is no header: with and without a RomFS,    *)
(* whose hash matches or not.                                              *)
Stray == [Cfa(2, 1) EXCEPT !.genuine = FALSE]
StrayHeaders == { NoRomfs(Stray), Cfa(3, 1) }

(* Two partitions; the third entry of the table is unused, and points to   *)
(* the card's own header.                                                  *)
Card(n1, n2, base2, len) ==
  MakeImage("NCSD", << [base |-> 1, ncch |-> n1], [base |-> base2, ncch |-> n2],
                       [base |-> 0, ncch |-> Stray] >>, len)

-----------------------------------------------------------------------------
(* Command lines.                                                          *)
AllPads == [exheader |-> "exheader", exefs |-> "exefs", exefs7x |-> "exefs7x",
            romfs |-> "romfs", dumb |-> "dumb"]
Line(pads) == [inplace |-> FALSE, dumb |-> FALSE, out |-> TRUE, free |-> 1,
               partition |-> {}, pads |-> pads]
Without(args) == [a \in DOMAIN AllPads |-> IF a \in args THEN "none" ELSE AllPads[a]]
OnlyRomfs == Without({"exheader", "exefs", "exefs7x"})
Swapped == [AllPads EXCEPT !.exefs = "exefs7x", !.exefs7x = "exefs"]

NoPads == Without(DOMAIN AllPads)

RightLines ==
  { Line(AllPads), Line(Without({"romfs"})), Line(OnlyRomfs), Line(NoPads),
    [Line(OnlyRomfs) EXCEPT !.partition = {2}],
    [Line(AllPads) EXCEPT !.inplace = TRUE, !.out = FALSE] }

WrongLines ==
  { [Line(AllPads) EXCEPT !.free = 0], [Line(AllPads) EXCEPT !.out = FALSE],
    Line(Swapped), Line(NoPads), [Line(NoPads) EXCEPT !.partition = {2}],
    [Line(OnlyRomfs) EXCEPT !.partition = {3}],
    [Line(OnlyRomfs) EXCEPT !.partition = {9}] }

DumbWith(pad) == [Line([AllPads EXCEPT !.dumb = pad]) EXCEPT !.dumb = TRUE, !.free = 2]
DumbLines ==
  { DumbWith("dumb"), [DumbWith("dumb") EXCEPT !.free = 1],
    [DumbWith("exheader") EXCEPT !.inplace = TRUE] }

-----------------------------------------------------------------------------
(* Chunks are of three units.  The right pads and no others, on containers *)
(* in which a last chunk may reach into another section, but no header.    *)
RerunImages ==
  { Single(Cxi(2, 1, 4, 1, 2), 14), Single(Cxi(2, 1, 2, 1, 0), 8),
    Single(NoRomfs(Cxi7x(1, 5, 1, 0, 1)), 13),
    Single(Cfa(4, 2), 5), Card(Cfa(3, 1), Cfa(2, 2), 5, 8) }
RerunOptions == RightLines

(* Any pads, on containers with room after the sections or none, sections  *)
(* of less than a chunk, of one, and of more.  Last chunks put zeros or    *)
(* what is decrypted over the header of the second partition of a card.    *)
ChunkImages ==
  { Single(Cxi(2, 1, 4, 1, 2), 14), Single(Cxi(3, 3, 2, 2, 0), 9),
    Single(Cxi7x(1, 1, 0, 2, 0), 8), Single(Cfa(2, 9), 4),
    Card(Cfa(4, 1), Cfa(3, 2), 8, 13), Card(Cfa(4, 1), Cfa(2, 2), 6, 9) }
ChunkOptions ==
  WrongLines \union { Line(AllPads), Line(OnlyRomfs),
                      [Line(OnlyRomfs) EXCEPT !.partition = {2}],
                      [Line(AllPads) EXCEPT !.inplace = TRUE] }

(* Dumb runs between others: every header and table may be altered.  The   *)
(* pad of one dumb line is longer than the card, but not than what one run *)
(* makes of it.                                                            *)
DumbImages ==
  { Single(Cfa(2, 1), 4), Single(Cxi(1, 1, 2, 1, 1), 8),
    Card(Cfa(2, 1), Cfa(2, 2), 4, 7) }
DumbOptions ==
  DumbLines \union { Line(AllPads), Line(NoPads),
                     [Line(OnlyRomfs) EXCEPT !.partition = {2}] }

(* 7.x titles: one whose .code ends where 32 bits wrap, and two that an    *)
(* invocation can be done with, since what the call for the ExeFS header   *)
(* overwrites is in no file that is hashed: .code is the only one and lies *)
(* at a distance, or it comes after an empty entry.                        *)
FilesImages ==
  { Single(Cxi7x(0, 5, 0, 2, 1), 16),
    Single(NoRomfs(Listing(Cxi7x(3, 1, 0, 0, 1), << File7x(3, 1) >>)), 12),
    Single(NoRomfs(Listing(Cxi7x(0, 1, 1, 0, 1), <<>>)), 7) }
FilesOptions ==
  { Line(AllPads), Line(Without({"romfs"})), Line(Without({"romfs", "exefs7x"})),
    Line([Without({"romfs"}) EXCEPT !.exefs7x = "exefs"]) }

(* All of these in one run, each image with the command lines it is here   *)
(* for.                                                                    *)
MixedImages == ChunkImages \union DumbImages \union FilesImages
MixedOptions == ChunkOptions \union DumbOptions \union FilesOptions

LinesFor(m) == IF m \in DumbImages THEN DumbOptions
               ELSE IF m \in FilesImages THEN FilesOptions ELSE ChunkOptions

OwnLines == runs = 0 \/ opts \in LinesFor(image)

(* What the theorems assume is so of these, where it should be: one image  *)
(* is made to be hashed past its end, and the .code of one to end past     *)
(* what 32 bits can count to.                                              *)
Overlong(m) == m \in { Single(Cfa(2, 9), 4), Single(Cxi7x(0, 5, 0, 2, 1), 16) }

ASSUME InstancesAsAssumed ==
  LET proper(m, os) ==
        /\ WellMade(m) /\ Telling(m)
        /\ \A o \in os : InOrder(o, m) /\ OwnPads(o) /\ Keyed(o, m)
  IN /\ Images = RerunImages =>
          /\ \A m \in Images : Guarded(m) /\ proper(m, Options)
          /\ \E m \in Images : Roomy(m)
          /\ \E m \in Images : ~Roomy(m)
     /\ Images = MixedImages =>
          /\ \A m \in Images : Overlong(m) \/ WellMade(m)
          /\ \E m \in ChunkImages : Roomy(m) /\ proper(m, RightLines)
          /\ \E m \in ChunkImages : ~Guarded(m)

(* One image and one command line each, for single questions.              *)
TightCxi == { Single(Cxi(2, 1, 2, 1, 0), 8) }
SevenX == { Single(Cxi7x(1, 1, 1, 2, 0), 10) }
RoomySevenX == { Single(Cxi7x(0, 3, 0, 2, 3), 18) }
CleanLine == { Line(AllPads) }
MergedLine == { Line(Without({"exefs7x"})) }
DumbLine == { [DumbWith("dumb") EXCEPT !.out = FALSE] }
=============================================================================
