---------------------------- MODULE MCByteBuffers ----------------------------
(***************************************************************************)
(* ByteBuffers with bytes of one bit, a keystream of period three, and     *)
(* inputs longer than the store, which is longer than the output.          *)
(***************************************************************************)
EXTENDS ByteBuffers

MCBytes == {0, 1}
BitXor(a, b) == IF a = b THEN 0 ELSE 1
MCKey == <<1, 0, 0>>
MCInputs == { <<>>, <<0>>, <<1, 0>>, <<0, 1, 1>> }
=============================================================================
