------------------------------ MODULE Sha2Engine ------------------------------
(***************************************************************************)
(* The six digests of src/crypto/src/sha2.rs: two engines (Engine256 and   *)
(* Engine512) that keep a bit count, a FixedBuffer, a chaining value and a *)
(* finished flag, and a wrapper for each digest.  An object is used by one *)
(* thread; an action is a call of input, result or reset.                  *)
(*                                                                         *)
(* The chaining value is kept as what it was computed from: an initial     *)
(* value and the blocks compressed so far.                                 *)
(***************************************************************************)
EXTENDS CryptoUtil

CONSTANTS
  Inputs,             \* what a call of input may be given
  Block256, Block512, \* bytes per block: 64 and 128
  Rem256, Rem512,     \* bytes of the length field: 8 and 16
  Word256, Word512    \* values of a word of the bit count: 2^64

ASSUME InputsAssumption == Inputs \subseteq Seq(Bytes)

ASSUME SizesAssumption ==
  /\ Rem256 \in Nat /\ Rem512 \in Nat /\ Rem256 % 2 = 0 /\ Rem512 % 2 = 0
  /\ Block256 \in Nat /\ Block512 \in Nat
  /\ 0 < Rem256 /\ Rem256 < Block256
  /\ 0 < Rem512 /\ Rem512 < Block512
  /\ Word256 = Power[Rem256]
  /\ Word512 = Power[Rem512 \div 2]

-----------------------------------------------------------------------------
(* The wrappers: the engine, its initial value and the bits of it returned. *)
Engine256(iv, bits) ==
  [wide |-> FALSE, block |-> Block256, rem |-> Rem256, word |-> Word256,
   iv |-> iv, bits |-> bits]
Engine512(iv, bits) ==
  [wide |-> TRUE, block |-> Block512, rem |-> Rem512, word |-> Word512,
   iv |-> iv, bits |-> bits]

Sha256 == Engine256("H256", 256)
Sha224 == Engine256("H224", 224)
Sha512 == Engine512("H512", 512)
Sha384 == Engine512("H384", 384)
Sha512Trunc256 == Engine512("H512_TRUNC_256", 256)
Sha512Trunc224 == Engine512("H512_TRUNC_224", 224)

Digests == {Sha256, Sha224, Sha512, Sha384, Sha512Trunc256, Sha512Trunc224}

VARIABLES
  digest,      \* which digest the object is (never changes)
  length_bits, \* u64 in Engine256, a pair (high, low) in Engine512
  buffer,      \* FixedBuffer64 or FixedBuffer128
  state,       \* the chaining value
  finished,
  panicked,    \* a call has panicked: the object is gone
  message,     \* history: the bytes input since the last reset
  out          \* the last result, if any since the last reset

vars == <<digest, length_bits, buffer, state, finished, panicked, message, out>>

NoBits(d) == IF d.wide THEN <<0, 0>> ELSE 0

InitialState(d) == [iv |-> d.iv, blocks |-> <<>>]

Init ==
  /\ digest \in Digests
  /\ length_bits = NoBits(digest)
  /\ buffer = NewBuffer(digest.block)
  /\ state = InitialState(digest)
  /\ finished = FALSE /\ panicked = FALSE
  /\ message = <<>> /\ out = {}

(* process_block, once for each block. *)
Process(s, blocks) == [s EXCEPT !.blocks = @ \o blocks]

-----------------------------------------------------------------------------
(* "Assumes that input.len() can be converted to u64 without overflow".    *)
Given == { data \in Inputs : Len(data) < digest.word }

AddBytes(bits, n) ==
  IF digest.wide THEN add_bytes_to_bits_tuple(bits, n, digest.word)
  ELSE add_bytes_to_bits(bits, n, digest.word)

Input ==
  /\ ~panicked /\ ~finished
  /\ \E data \in Given :
       /\ length_bits' \in AddBytes(length_bits, Len(data))
       /\ LET in == input(buffer, data)
          IN /\ buffer' = in.buffer
             /\ state' = Process(state, in.blocks)
       /\ message' = message \o data
  /\ UNCHANGED <<digest, finished, panicked, out>>

(* The count overflows, before anything else has changed, or assert!(!self. *)
(* finished) fails.                                                        *)
InputPanics ==
  /\ ~panicked
  /\ \E data \in Given :
       finished \/ AddBytes(length_bits, Len(data)) = {}
  /\ panicked' = TRUE
  /\ UNCHANGED <<digest, length_bits, buffer, state, finished, message, out>>

LengthFieldLowFirst == \* mutant: the low word is written first
  LET half == digest.rem \div 2
      mod == Power[half]
      hi == IF digest.wide THEN length_bits[1] ELSE length_bits \div mod
      low == IF digest.wide THEN length_bits[2] ELSE length_bits % mod
  IN BigEndian(low, half) \o BigEndian(hi, half)

(* The two words of the length field. *)
LengthField ==
  LET half == digest.rem \div 2
      mod == Power[half]
      hi == IF digest.wide THEN length_bits[1] ELSE length_bits \div mod
      low == IF digest.wide THEN length_bits[2] ELSE length_bits % mod
  IN BigEndian(hi, half) \o BigEndian(low, half)

(* What result writes to out: the first words of the chaining value.       *)
Truncated(s) == [iv |-> s.iv, blocks |-> s.blocks, bits |-> digest.bits]

Finish ==
  LET padding == standard_padding(buffer, digest.rem)
      last == WriteNext(padding.buffer, LengthField)
  IN /\ buffer' = Emptied(last)
     /\ state' = Process(state, padding.blocks \o << last.bytes >>)

ResultTwice == \* mutant: finish does not look at finished
  /\ ~panicked
  /\ Finish
  /\ finished' = TRUE
  /\ out' = {Truncated(state')}
  /\ UNCHANGED <<digest, length_bits, panicked, message>>

Result ==
  /\ ~panicked
  /\ IF finished THEN UNCHANGED <<buffer, state>> ELSE Finish
  /\ finished' = TRUE
  /\ out' = {Truncated(state')}
  /\ UNCHANGED <<digest, length_bits, panicked, message>>

ResetKeepsCount == \* mutant: length_bits is not reset
  /\ ~panicked
  /\ buffer' = Emptied(buffer)
  /\ state' = InitialState(digest)
  /\ finished' = FALSE
  /\ message' = <<>> /\ out' = {}
  /\ UNCHANGED <<digest, length_bits, panicked>>

Reset ==
  /\ ~panicked
  /\ length_bits' = NoBits(digest)
  /\ buffer' = Emptied(buffer)
  /\ state' = InitialState(digest)
  /\ finished' = FALSE
  /\ message' = <<>> /\ out' = {}
  /\ UNCHANGED <<digest, panicked>>

Next == Input \/ InputPanics \/ Result \/ Reset

Spec == Init /\ [][Next]_vars
-----------------------------------------------------------------------------
(* Every field has its type; between two calls the buffer is never full,   *)
(* which is what next(1) in standard_padding relies on (cryptoutil.rs:496). *)
TypeOK ==
  /\ digest \in Digests
  /\ length_bits \in IF digest.wide
                     THEN (0 .. digest.word - 1) \X (0 .. digest.word - 1)
                     ELSE 0 .. digest.word - 1
  /\ buffer \in [bytes : Block(digest.block), idx : 0 .. (digest.block - 1)]
  /\ state \in [iv : {digest.iv}, blocks : Seq(Block(digest.block))]
  /\ finished \in BOOLEAN /\ panicked \in BOOLEAN
  /\ message \in Seq(Bytes)

(* The message is never cut, reordered or repeated by the buffer: what has *)
(* been compressed is its whole blocks, the buffer holds the rest of it    *)
(* from its first byte on, and the count is its length to the last bit,    *)
(* carries included (cryptoutil.rs:283-322, 343-386).                      *)
Consumed ==
  LET bits == IF digest.wide THEN length_bits[1] * digest.word + length_bits[2]
              ELSE length_bits
  IN /\ bits = Len(message) * BITS
     /\ ~finished =>
          /\ state.blocks = Blocks(message, digest.block)
          /\ SubSeq(buffer.bytes, 1, buffer.idx) = Rest(message, digest.block)
     /\ finished => buffer.idx = 0

(* "This method may be called multiple times" (digest.rs:29): once a       *)
(* result has been given, every other one is the same until the reset.     *)
ResultStays ==
  [][finished /\ finished' => out' = out /\ state' = state]_vars

(* An engine keeps the promise of the trait: padding, the length field,    *)
(* the two-block case and the stale bytes of a reset buffer included.      *)
Abstract ==
  INSTANCE MessageDigest
    WITH phase <- IF panicked THEN "panicked"
                  ELSE IF finished THEN "finished" ELSE "open"
RefinesMessageDigest == Abstract!DigestSpec

(* Once a result has been given, the chaining value is that of the whole   *)
(* padded message, length field included, so that a further call of result *)
(* gives what the first one gave (sha2.rs: finish and result).             *)
Answered ==
  finished => /\ out = {Abstract!Digest(digest, message)}
              /\ Truncated(state) = Abstract!Digest(digest, message)
=============================================================================
