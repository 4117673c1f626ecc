----------------------------- MODULE MCSha2Engine -----------------------------
(***************************************************************************)
(* Sha2Engine with bytes of two bits: the bit count holds messages of up   *)
(* to seven bytes, which is three blocks of the wide engine.               *)
(***************************************************************************)
EXTENDS Sha2Engine

Strings(chars, n) == UNION { [1 .. k -> chars] : k \in 0 .. n }

(* Short inputs of any contents, two blocks at once, and one whose length  *)
(* in bits is more than a word.                                            *)
MCInputs == Strings({1, 3}, 3) \union { <<3, 1, 1, 3, 3, 1, 3>>, Zeros(9) }
=============================================================================
