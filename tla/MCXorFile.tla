------------------------------ MODULE MCXorFile ------------------------------
(***************************************************************************)
(* Instances of XorFile for TLC.  Bytes are single bits: every byte the    *)
(* loop writes is a GF(2)-linear function of the bytes of the file and of  *)
(* the pad, and two such functions that agree on all bit strings are equal. *)
(***************************************************************************)
EXTENDS XorFile

Bits == {0, 1}
BitXor(a, b) == (a + b) % 2

AllStrings(lens) == UNION {[1 .. n -> Bits] : n \in lens}

MCFiles == AllStrings({1, 5})
MCPads == AllStrings({3, 4})
MCCalls == [file_pos : 0 .. 2, pad_pos : 0 .. 1, size : {0, 1, 2, 3, 4}]

OneFile == {<<1, 1, 0, 1, 0>>}
OnePad == {<<0, 1, 1, 1, 1>>}
WholeFile == {[file_pos |-> 0, pad_pos |-> 0, size |-> 5]}

=============================================================================
