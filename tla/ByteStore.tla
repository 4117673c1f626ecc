------------------------------ MODULE ByteStore ------------------------------
(***************************************************************************)
(* What the buffers of src/crypto/src/buffer.rs are for: a store that is   *)
(* written and then read, over and over.  What is read is what has been    *)
(* written since the store was last made empty, in order, and nothing of   *)
(* what the memory held before.                                            *)
(***************************************************************************)
EXTENDS Integers, Sequences

CONSTANTS Byte, Capacity

VARIABLES
  mode,  \* "writing" or "reading"
  data,  \* what has been written
  taken, \* how much of it has been read
  out    \* the bytes that were read last

storeVars == <<mode, data, taken, out>>

StoreInit == mode = "writing" /\ data = <<>> /\ taken = 0 /\ out = <<>>

Write ==
  /\ mode = "writing"
  /\ \E n \in 0 .. (Capacity - Len(data)) :
       \E bytes \in [1 .. n -> Byte] : data' = data \o bytes
  /\ UNCHANGED <<mode, taken, out>>

Unwrite ==
  /\ mode = "writing"
  /\ \E n \in 0 .. Len(data) : data' = SubSeq(data, 1, n)
  /\ UNCHANGED <<mode, taken, out>>

PeekAll ==
  /\ mode = "writing"
  /\ out' = data
  /\ UNCHANGED <<mode, data, taken>>

StartReading ==
  /\ mode = "writing"
  /\ mode' = "reading" /\ taken' = 0
  /\ UNCHANGED <<data, out>>

Read ==
  /\ mode = "reading"
  /\ taken' \in taken .. Len(data)
  /\ out' = SubSeq(data, taken + 1, taken')
  /\ UNCHANGED <<mode, data>>

Unread ==
  /\ mode = "reading"
  /\ taken' \in 0 .. taken
  /\ UNCHANGED <<mode, data, out>>

Truncate ==
  /\ mode = "reading"
  /\ \E n \in taken .. Len(data) : data' = SubSeq(data, 1, n)
  /\ UNCHANGED <<mode, taken, out>>

StartWriting ==
  /\ mode = "reading"
  /\ mode' = "writing" /\ data' = <<>> /\ taken' = 0
  /\ UNCHANGED out

StoreNext ==
  \/ Write \/ Unwrite \/ PeekAll \/ StartReading
  \/ Read \/ Unread \/ Truncate \/ StartWriting

StoreSpec == StoreInit /\ [][StoreNext]_storeVars
=============================================================================
