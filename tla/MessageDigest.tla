---------------------------- MODULE MessageDigest ----------------------------
(***************************************************************************)
(* What the trait Digest (src/crypto/src/digest.rs) promises of a SHA-2    *)
(* digest: however the message is cut into inputs, and whatever the object *)
(* was used for before it was reset, result is a function of the message   *)
(* alone.  That function pads the message to whole blocks and chains them; *)
(* what a chain of blocks is compressed to is left open.                   *)
(***************************************************************************)
EXTENDS CryptoUtil

CONSTANTS Digests, Inputs

VARIABLES
  digest,  \* which digest this is
  message, \* the bytes input since the last reset
  phase,   \* "open", "finished" or "panicked"
  out      \* the last result, if any since the last reset

digestVars == <<digest, message, phase, out>>

(* The number of bits that the length field can hold.                      *)
Capacity(d) == IF d.wide THEN d.word * d.word ELSE d.word

(* The message, a marker, the least number of zeros that leaves room for   *)
(* the length and makes the blocks whole, and the length in bits.          *)
Padded(d, m) ==
  m \o << MARKER >> \o Zeros((- (Len(m) + 1 + d.rem)) % d.block)
    \o BigEndian(Len(m) * BITS, d.rem)

Digest(d, m) ==
  [iv |-> d.iv, blocks |-> Blocks(Padded(d, m), d.block), bits |-> d.bits]

DigestInit ==
  /\ digest \in Digests
  /\ message = <<>>
  /\ phase = "open"
  /\ out = {}

AddInput ==
  /\ phase = "open"
  /\ \E data \in Inputs :
       IF (Len(message) + Len(data)) * BITS < Capacity(digest)
       THEN message' = message \o data /\ UNCHANGED phase
       ELSE phase' = "panicked" /\ UNCHANGED message
  /\ UNCHANGED <<digest, out>>

InputAfterResult ==
  /\ phase = "finished"
  /\ phase' = "panicked"
  /\ UNCHANGED <<digest, message, out>>

GetResult ==
  /\ phase \in {"open", "finished"}
  /\ phase' = "finished"
  /\ out' = {Digest(digest, message)}
  /\ UNCHANGED <<digest, message>>

StartOver ==
  /\ phase # "panicked"
  /\ phase' = "open" /\ message' = <<>> /\ out' = {}
  /\ UNCHANGED digest

DigestNext == AddInput \/ InputAfterResult \/ GetResult \/ StartOver

DigestSpec == DigestInit /\ [][DigestNext]_digestVars
=============================================================================
