--------------------------------- MODULE Ncch ---------------------------------
(***************************************************************************)
(* NCCH containers (src/src/types/ncch.rs) and the order in which main.rs  *)
(* decrypts their sections.  A container is cut into units; a unit is one  *)
(* byte of XorRegion.  The NCCH header and the ExeFS header are a unit     *)
(* each (0x200 bytes), and no property looks inside them.                  *)
(*                                                                         *)
(* A plan is the sequence of steps that decrypt_cxi or decrypt_cfa takes   *)
(* if none of them fails.                                                  *)
(***************************************************************************)
EXTENDS XorRegion

CONSTANTS
  EXHEADER_SIZE,   \* units of exheader that are XORed (0x800 bytes)
  EXHEADER_HASHED, \* units of exheader that are hashed (0x400 bytes)
  U32_MOD          \* 2^32, in units

ASSUME ExheaderAssumption ==
  /\ EXHEADER_SIZE \in Nat /\ EXHEADER_HASHED \in Nat
  /\ 0 < EXHEADER_HASHED /\ EXHEADER_HASHED <= EXHEADER_SIZE

ASSUME U32Assumption == U32_MOD \in Nat \ {0}

(* A chunk of xor_file (xor.rs:6) is longer than the headers and the       *)
(* exheader: no executable can have all its sections end on chunk          *)
(* boundaries.                                                             *)
ASSUME ChunkAssumption == EXHEADER_SIZE < BUF_SIZE

HEADER_SIZE == 1

(* A header of zeros, as NCCH::new reads it.  files, has_code and code     *)
(* stand for the ExeFS header: the files before its first empty entry,     *)
(* and .code, which may come after that.  A header that is genuine has the *)
(* hashes of what the image decrypts to, and one that is not has hashes    *)
(* that match nothing.                                                     *)
ZeroNcch ==
  [data |-> FALSE, exec |-> FALSE, extra_keyslot |-> FALSE, noromfs |-> FALSE,
   exefs_offset |-> 0, exefs_size |-> 0, exefs_hashed |-> 0,
   romfs_offset |-> 0, romfs_size |-> 0, romfs_hashed |-> 0,
   files |-> <<>>, has_code |-> FALSE,
   code |-> [file_off |-> 0, file_size |-> 0], genuine |-> FALSE]

IsCfa(n) == n.data /\ ~n.exec

(* The headers that can be read, and the files of their ExeFS.             *)
ExefsFile == [file_off : Nat, file_size : Nat]
ExefsFiles == Seq(ExefsFile)

Ncchs ==
  [data : BOOLEAN, exec : BOOLEAN, extra_keyslot : BOOLEAN, noromfs : BOOLEAN,
   exefs_offset : Nat, exefs_size : Nat, exefs_hashed : Nat,
   romfs_offset : Nat, romfs_size : Nat, romfs_hashed : Nat,
   files : ExefsFiles, has_code : BOOLEAN, code : ExefsFile, genuine : BOOLEAN]

FileEnd(file) == HEADER_SIZE + file.file_off + file.file_size

(* The sections of a CXI follow one another, and what is hashed of the     *)
(* ExeFS, its files too, lies in it.                                       *)
LaidOut(n) ==
  /\ HEADER_SIZE + EXHEADER_SIZE <= n.exefs_offset
  /\ n.exefs_hashed <= n.exefs_size
  /\ \A i \in DOMAIN n.files : FileEnd(n.files[i]) <= n.exefs_size
  /\ n.has_code => FileEnd(n.code) <= n.exefs_size
  /\ n.noromfs \/ n.exefs_offset + n.exefs_size <= n.romfs_offset

-----------------------------------------------------------------------------
(* The kinds of step.                                                      *)
Need(arg) == [kind |-> "need", arg |-> arg]        \* open_arg_file!
Refuse(arg) == [kind |-> "refuse", arg |-> arg]    \* extraneous_if!
XorWith(arg, pos, pad_pos, size) ==
  [kind |-> "xor", arg |-> arg, file_pos |-> pos, pad_pos |-> pad_pos,
   size |-> size]
Hash(n, pos, size) ==                              \* verify_hash
  [kind |-> "hash", file_pos |-> pos, size |-> size, genuine |-> n.genuine]
ParseExefs(n, pos) ==                              \* EXEFS::new
  [kind |-> "exefs", file_pos |-> pos, ncch |-> n]
HashFiles(n, pos) ==                               \* EXEFS::verify_hashes
  [kind |-> "files", file_pos |-> pos, files |-> n.files]

(* The arguments that name a pad file, and the steps that a plan is of.    *)
PadArgs == {"exheader", "exefs", "exefs7x", "romfs", "dumb"}

Steps ==
  [kind : {"need", "refuse"}, arg : PadArgs]
    \union [kind : {"xor"}, arg : PadArgs, file_pos : Nat, pad_pos : Nat, size : Int]
    \union [kind : {"hash"}, file_pos : Nat, size : Nat, genuine : BOOLEAN]
    \union [kind : {"exefs"}, file_pos : Nat, ncch : Ncchs]
    \union [kind : {"files"}, file_pos : Nat, files : ExefsFiles]

DecryptExheader(n, base) ==
  << Need("exheader"),
     XorWith("exheader", base + HEADER_SIZE, 0, EXHEADER_SIZE),
     Hash(n, base + HEADER_SIZE, EXHEADER_HASHED) >>

DecryptExefsUnverified(n, base) == \* mutant: no hash
  << Need("exefs"),
     XorWith("exefs", base + n.exefs_offset, 0, n.exefs_size) >>

DecryptExefs(n, base) ==
  << Need("exefs"),
     XorWith("exefs", base + n.exefs_offset, 0, n.exefs_size),
     Hash(n, base + n.exefs_offset, n.exefs_hashed) >>

DecryptExefs7xUnlisted(n, base) == \* mutant: the files are not hashed
  << Need("exefs"), Need("exefs7x"),
     XorWith("exefs", base + n.exefs_offset, 0, HEADER_SIZE),
     ParseExefs(n, base + n.exefs_offset),
     Hash(n, base + n.exefs_offset, n.exefs_hashed) >>

(* The rest is planned once the ExeFS header has been decrypted and read.  *)
DecryptExefs7x(n, base) ==
  << Need("exefs"), Need("exefs7x"),
     XorWith("exefs", base + n.exefs_offset, 0, HEADER_SIZE),
     ParseExefs(n, base + n.exefs_offset),
     Hash(n, base + n.exefs_offset, n.exefs_hashed),
     HashFiles(n, base + n.exefs_offset) >>

DecryptRomfsHashedOnly(n, base) == \* mutant: only what is verified is XORed
  IF n.noromfs THEN << Refuse("romfs") >>
  ELSE << Need("romfs"),
          XorWith("romfs", base + n.romfs_offset, 0, n.romfs_hashed),
          Hash(n, base + n.romfs_offset, n.romfs_hashed) >>

DecryptRomfs(n, base) ==
  IF n.noromfs THEN << Refuse("romfs") >>
  ELSE << Need("romfs"),
          XorWith("romfs", base + n.romfs_offset, 0, n.romfs_size),
          Hash(n, base + n.romfs_offset, n.romfs_hashed) >>

PlanRelative(n, base) == \* mutant: offsets are taken from the start of the file
  IF IsCfa(n)
  THEN << Refuse("exheader"), Refuse("exefs"), Refuse("exefs7x") >>
         \o DecryptRomfs(n, 0)
  ELSE DecryptExheader(n, base)
         \o (IF n.extra_keyslot THEN DecryptExefs7x(n, base)
             ELSE DecryptExefs(n, base))
         \o DecryptRomfs(n, base)

Plan(n, base) ==
  IF IsCfa(n)
  THEN << Refuse("exheader"), Refuse("exefs"), Refuse("exefs7x") >>
         \o DecryptRomfs(n, base)
  ELSE DecryptExheader(n, base)
         \o (IF n.extra_keyslot THEN DecryptExefs7x(n, base)
             ELSE DecryptExefs(n, base))
         \o DecryptRomfs(n, base)

-----------------------------------------------------------------------------
CodeRegionsOneKey(n, pos) == \* mutant: the 7x pad is not used for .code
  << XorWith("exefs", pos + HEADER_SIZE, HEADER_SIZE, n.exefs_size - HEADER_SIZE) >>

(* decrypt_exefs7x after the header: what comes before .code, .code itself *)
(* and what comes after it.  code_end_off is computed in 32 bits.          *)
CodeRegions(n, pos) ==
  LET code == n.code
      code_start == HEADER_SIZE + code.file_off
      code_end == code_start + code.file_size
      code_end_off == code_end % U32_MOD
  IN << XorWith("exefs", pos + HEADER_SIZE, HEADER_SIZE, code.file_off),
        XorWith("exefs7x", pos + code_start, code_start, code.file_size),
        XorWith("exefs", pos + code_end, code_end, n.exefs_size - code_end_off) >>

-----------------------------------------------------------------------------
(* A partition is [base, ncch]; an area of it, [pos, size] in the file.    *)
Area(p, pos, size) == [pos |-> p.base + pos, size |-> size]

(* The sections of a partition, and what the hashes cover of them.         *)
Sections(p) ==
  LET n == p.ncch
  IN (IF IsCfa(n) THEN {}
      ELSE { Area(p, HEADER_SIZE, EXHEADER_SIZE),
             Area(p, n.exefs_offset, n.exefs_size) })
     \union (IF n.noromfs THEN {} ELSE { Area(p, n.romfs_offset, n.romfs_size) })

HashedFiles(p) ==
  { Area(p, p.ncch.exefs_offset + HEADER_SIZE + file.file_off, file.file_size) :
      file \in { p.ncch.files[i] : i \in DOMAIN p.ncch.files } }

Hashed(p) ==
  LET n == p.ncch
  IN (IF IsCfa(n) THEN {}
      ELSE { Area(p, HEADER_SIZE, EXHEADER_HASHED),
             Area(p, n.exefs_offset, n.exefs_hashed) })
     \union (IF ~IsCfa(n) /\ n.extra_keyslot THEN HashedFiles(p) ELSE {})
     \union (IF n.noromfs THEN {} ELSE { Area(p, n.romfs_offset, n.romfs_hashed) })

(* How a partition is encrypted: which units with which part of which pad, *)
(* each stretch as the call of xor_file that decrypts it.                  *)
Calls(p) ==
  LET n == p.ncch
      exefs == p.base + n.exefs_offset
      code == n.code
      start == HEADER_SIZE + code.file_off
      end == start + code.file_size
  IN (IF IsCfa(n) THEN {}
      ELSE { XorWith("exheader", p.base + HEADER_SIZE, 0, EXHEADER_SIZE) }
             \union
           IF ~n.extra_keyslot THEN { XorWith("exefs", exefs, 0, n.exefs_size) }
           ELSE { XorWith("exefs", exefs, 0, HEADER_SIZE),
                  XorWith("exefs", exefs + HEADER_SIZE, HEADER_SIZE, code.file_off),
                  XorWith("exefs7x", exefs + start, start, code.file_size),
                  XorWith("exefs", exefs + end, end, n.exefs_size - end) })
     \union (IF n.noromfs THEN {}
             ELSE { XorWith("romfs", p.base + n.romfs_offset, 0, n.romfs_size) })

(* What such a call is asked to write.                                     *)
Units(c) == (c.file_pos + 1) .. (c.file_pos + c.size)
=============================================================================
