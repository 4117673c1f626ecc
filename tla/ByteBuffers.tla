----------------------------- MODULE ByteBuffers -----------------------------
(***************************************************************************)
(* The buffers of src/crypto/src/buffer.rs and the stream helper           *)
(* symm_enc_or_dec (cryptoutil.rs:249) in the arrangement they are made    *)
(* for: a caller feeds an input buffer, a sender moves bytes into a store, *)
(* a receiver moves them on to an output buffer, and the caller drains it. *)
(* Sender and receiver either encrypt and decrypt or push_to.              *)
(*                                                                         *)
(* The store is one Vec that changes hands: OwnedWriteBuffer,              *)
(* OwnedReadBuffer, or an OwnedReadBuffer lent to a BorrowedWriteBuffer;   *)
(* while either kind of writer is lent to the RefReadBuffer that           *)
(* take_read_buffer returns, that one is the reader.  All counts are ones  *)
(* that the buffers' own callers pass, which never exceed remaining().     *)
(***************************************************************************)
EXTENDS Integers, Sequences

CONSTANTS
  Byte,      \* the values of a byte
  Xor(_, _), \* `^' on bytes
  Key,       \* the keystream, which repeats
  Inputs,    \* what the caller may put into the input buffer
  Capacity,  \* bytes of the store
  OutSize,   \* bytes of the output buffer
  MaxBytes   \* bound: bytes that are sent

ASSUME ByteAssumption == \A a, b \in Byte : Xor(a, b) \in Byte /\ Xor(Xor(a, b), b) = a
ASSUME KeyAssumption == Key \in Seq(Byte) /\ Key # <<>>
ASSUME SizeAssumption ==
  /\ Inputs \subseteq Seq(Byte)
  /\ Capacity \in Nat \ {0} /\ OutSize \in Nat \ {0} /\ MaxBytes \in Nat

VARIABLES
  ciphered, \* whether the ends encrypt and decrypt (never changes)
  input,    \* RefReadBuffer over what the caller has given
  kind,     \* what the store is: "write", "read" or "borrowed"
  store,    \* its fields: buff, len, pos
  borrow,   \* len and pos of the BorrowedWriteBuffer
  view,     \* the RefReadBuffer of take_read_buffer, if alive
  output,   \* RefWriteBuffer
  enc, dec, \* where the two ends are in the keystream
  result,   \* what symm_enc_or_dec returned last
  out,      \* history: what was read from the store last
  sent,     \* history: all that the caller has put in
  got,      \* history: all that the caller has drained
  edited    \* history: bytes have been put back, dropped or taken away

vars == <<ciphered, input, kind, store, borrow, view, output, enc, dec, result,
          out, sent, got, edited>>

-----------------------------------------------------------------------------
(* Buffers of every kind: the bytes, the end and the position.             *)
NewRef(bytes) == [buff |-> bytes, len |-> Len(bytes), pos |-> 0]

remaining(b) == b.len - b.pos
is_empty(b) == b.pos = b.len
MinOf(a, b) == IF a < b THEN a ELSE b

(* take_next of a reader, as what it returns and as what it leaves.        *)
TakeFromStart(b, count) == SubSeq(b.buff, 1, count) \* mutant: pos forgotten

Slice(b, count) == SubSeq(b.buff, b.pos + 1, b.pos + count)

Advance(b, count) == [b EXCEPT !.pos = @ + count]

(* take_next of a writer, filled with bytes.                               *)
Filled(b, bytes) ==
  [buff |-> [i \in DOMAIN b.buff |->
               IF b.pos < i /\ i <= b.pos + Len(bytes)
               THEN bytes[i - b.pos] ELSE b.buff[i]],
   len |-> b.len, pos |-> b.pos + Len(bytes)]

(* SynchronousStreamCipher::process, from a position in the keystream.     *)
process(at, bytes) ==
  [i \in 1 .. Len(bytes) |-> Xor(bytes[i], Key[((at + i - 1) % Len(Key)) + 1])]

Moved(at, count) == (at + count) % Len(Key)

-----------------------------------------------------------------------------
(* The writer and the reader that the store is at the moment.              *)
Writing == view = {} /\ kind \in {"write", "borrowed"}
Reading == view # {} \/ kind = "read"

Writer == IF kind = "borrowed" THEN [borrow EXCEPT !.buff = store.buff] ELSE store
Reader == IF view # {} THEN CHOOSE v \in view : TRUE ELSE store
Written == SubSeq(store.buff, 1, Writer.pos)

(* A BorrowedWriteBuffer keeps the length of its parent with its position. *)
BorrowForgetsParent(w) == \* mutant: the parent's length is not kept
  IF kind = "borrowed"
  THEN /\ borrow' = [w EXCEPT !.buff = <<>>]
       /\ store' = [store EXCEPT !.buff = w.buff]
  ELSE store' = w /\ UNCHANGED borrow

SetWriter(w) ==
  IF kind = "borrowed"
  THEN /\ borrow' = [w EXCEPT !.buff = <<>>]
       /\ store' = [buff |-> w.buff, len |-> store.len + (w.pos - borrow.pos),
                    pos |-> store.pos]
  ELSE store' = w /\ UNCHANGED borrow

WriterKeepsPosition == UNCHANGED <<store, borrow>> \* mutant: pos is not reset

(* reset of a writer, and what take_read_buffer leaves of it.              *)
EmptyWriter ==
  IF kind = "borrowed"
  THEN borrow' = [borrow EXCEPT !.pos = 0] /\ store' = [store EXCEPT !.len = 0]
  ELSE store' = [store EXCEPT !.pos = 0] /\ UNCHANGED borrow

SetReader(r) ==
  IF view # {} THEN view' = {r} /\ UNCHANGED store
  ELSE store' = r /\ UNCHANGED view

NoBorrow == [buff |-> <<>>, len |-> 0, pos |-> 0]

Init ==
  /\ ciphered \in BOOLEAN
  /\ input = NewRef(<<>>)
  /\ kind = "write"
  /\ \E b \in Byte :
       /\ store = NewRef([i \in 1 .. Capacity |-> b])
       /\ output = NewRef([i \in 1 .. OutSize |-> b])
  /\ borrow = NoBorrow /\ view = {}
  /\ enc = 0 /\ dec = 0 /\ result = "none"
  /\ out = <<>> /\ sent = <<>> /\ got = <<>> /\ edited = FALSE

(* Histories end with the first edit.                                      *)
Edit == edited' = TRUE /\ sent' = <<>> /\ got' = <<>>

-----------------------------------------------------------------------------
(* The caller: RefReadBuffer::new, and take_read_buffer + take_remaining.  *)
Give ==
  /\ is_empty(input)
  /\ \E bytes \in Inputs :
       /\ Len(sent) + Len(bytes) <= MaxBytes
       /\ input' = NewRef(bytes)
       /\ sent' = IF edited THEN sent ELSE sent \o bytes
  /\ UNCHANGED <<ciphered, kind, store, borrow, view, output, enc, dec, result,
                 out, got, edited>>

Drain ==
  /\ got' = IF edited THEN got ELSE got \o SubSeq(output.buff, 1, output.pos)
  /\ output' = [output EXCEPT !.pos = 0]
  /\ UNCHANGED <<ciphered, input, kind, store, borrow, view, enc, dec, result,
                 out, sent, edited>>

(* What symm_enc_or_dec returns, once both have been taken from.           *)
ResultOfOutput(in, w) == \* mutant: asks the output instead of the input
  IF is_empty(w) THEN "BufferUnderflow" ELSE "BufferOverflow"

Result(in, w) == IF is_empty(in) THEN "BufferUnderflow" ELSE "BufferOverflow"

(* symm_enc_or_dec or push_to, from the input into the store.              *)
Send ==
  /\ Writing
  /\ LET count == MinOf(remaining(input), remaining(Writer))
         bytes == Slice(input, count)
         w == Filled(Writer, IF ciphered THEN process(enc, bytes) ELSE bytes)
     IN /\ input' = Advance(input, count)
        /\ SetWriter(w)
        /\ IF ciphered
           THEN enc' = Moved(enc, count) /\ result' = Result(input', w)
           ELSE UNCHANGED <<enc, result>>
  /\ UNCHANGED <<ciphered, kind, view, output, dec, out, sent, got, edited>>

(* The same, from the store into the output.                               *)
Receive ==
  /\ Reading
  /\ LET count == MinOf(remaining(Reader), remaining(output))
         bytes == Slice(Reader, count)
         r == Advance(Reader, count)
     IN /\ out' = bytes
        /\ SetReader(r)
        /\ output' = Filled(output, IF ciphered THEN process(dec, bytes) ELSE bytes)
        /\ IF ciphered
           THEN dec' = Moved(dec, count) /\ result' = Result(r, output')
           ELSE UNCHANGED <<dec, result>>
  /\ UNCHANGED <<ciphered, input, kind, borrow, enc, sent, got, edited>>
-----------------------------------------------------------------------------
(* The store changes hands.  What the reader has left is dropped.          *)
DropsRest ==
  IF is_empty(Reader) THEN UNCHANGED <<sent, got, edited>> ELSE Edit

take_read_buffer ==
  /\ Writing
  /\ view' = {NewRef(Written)}
  /\ EmptyWriter
  /\ UNCHANGED <<ciphered, input, kind, output, enc, dec, result, out, sent, got,
                 edited>>

DropView ==
  /\ view # {}
  /\ view' = {}
  /\ DropsRest
  /\ UNCHANGED <<ciphered, input, kind, store, borrow, output, enc, dec, result,
                 out>>

into_read_buffer ==
  /\ kind = "write" /\ view = {}
  /\ kind' = "read"
  /\ store' = [buff |-> store.buff, len |-> store.pos, pos |-> 0]
  /\ UNCHANGED <<ciphered, input, borrow, view, output, enc, dec, result, out,
                 sent, got, edited>>

into_write_buffer ==
  /\ kind = "read"
  /\ kind' = "write"
  /\ store' = NewRef(store.buff)
  /\ DropsRest
  /\ UNCHANGED <<ciphered, input, borrow, view, output, enc, dec, result, out>>

borrow_write_buffer ==
  /\ kind = "read"
  /\ kind' = "borrowed"
  /\ store' = [buff |-> store.buff, len |-> 0, pos |-> 0]
  /\ borrow' = [NoBorrow EXCEPT !.len = Len(store.buff)]
  /\ DropsRest
  /\ UNCHANGED <<ciphered, input, view, output, enc, dec, result, out>>

(* The parent is an OwnedReadBuffer again.                                 *)
EndBorrow ==
  /\ kind = "borrowed" /\ view = {}
  /\ kind' = "read"
  /\ borrow' = NoBorrow
  /\ UNCHANGED <<ciphered, input, store, view, output, enc, dec, result, out,
                 sent, got, edited>>

-----------------------------------------------------------------------------
(* peek_read_buffer, and take_remaining from what it returns.              *)
peek_read_buffer ==
  /\ Writing
  /\ out' = Written
  /\ UNCHANGED <<ciphered, input, kind, store, borrow, view, output, enc, dec,
                 result, sent, got, edited>>

rewind_writer ==
  /\ Writing
  /\ \E distance \in 1 .. Writer.pos :
       SetWriter([Writer EXCEPT !.pos = @ - distance])
  /\ Edit
  /\ UNCHANGED <<ciphered, input, kind, view, output, enc, dec, result, out>>

reset_writer ==
  /\ Writing
  /\ EmptyWriter
  /\ Edit
  /\ UNCHANGED <<ciphered, input, kind, view, output, enc, dec, result, out>>

(* take_next by the caller itself.                                         *)
take_next ==
  /\ Reading
  /\ \E count \in 1 .. remaining(Reader) :
       /\ out' = Slice(Reader, count)
       /\ SetReader(Advance(Reader, count))
  /\ Edit
  /\ UNCHANGED <<ciphered, input, kind, borrow, output, enc, dec, result>>

rewind_reader ==
  /\ Reading
  /\ \E distance \in 1 .. Reader.pos :
       SetReader([Reader EXCEPT !.pos = @ - distance])
  /\ Edit
  /\ UNCHANGED <<ciphered, input, kind, borrow, output, enc, dec, result, out>>

reset_reader ==
  /\ Reading
  /\ SetReader([Reader EXCEPT !.pos = 0])
  /\ Edit
  /\ UNCHANGED <<ciphered, input, kind, borrow, output, enc, dec, result, out>>

(* A RefReadBuffer gives up the end of its slice, an OwnedReadBuffer keeps *)
(* its Vec.                                                                *)
truncate ==
  /\ Reading
  /\ \E amount \in 1 .. remaining(Reader) :
       LET end == Reader.len - amount
       IN SetReader([buff |-> IF view # {} THEN SubSeq(Reader.buff, 1, end)
                              ELSE Reader.buff,
                     len |-> end, pos |-> Reader.pos])
  /\ Edit
  /\ UNCHANGED <<ciphered, input, kind, borrow, output, enc, dec, result, out>>

Move == Send \/ Receive

HandOver ==
  \/ take_read_buffer \/ DropView \/ into_read_buffer \/ into_write_buffer
  \/ borrow_write_buffer \/ EndBorrow

Change ==
  \/ peek_read_buffer \/ rewind_writer \/ reset_writer
  \/ take_next \/ rewind_reader \/ reset_reader \/ truncate

Next == Give \/ Drain \/ Move \/ HandOver \/ Change

Spec == Init /\ [][Next]_vars
-----------------------------------------------------------------------------
(* Buffers that own memory of n bytes, and one over a slice that it ends    *)
(* with.                                                                   *)
Buffer(n) ==
  { b \in [buff : [1 .. n -> Byte], len : 0 .. n, pos : 0 .. n] : b.pos <= b.len }

IsRef(b) ==
  /\ b.buff \in Seq(Byte) /\ b.pos \in 0 .. Len(b.buff)
  /\ b = [NewRef(b.buff) EXCEPT !.pos = b.pos]

StoreOK ==
  /\ kind \in {"read", "write", "borrowed"}
  /\ store \in Buffer(Capacity)
  /\ kind = "write" => store.len = Capacity
  /\ kind = "borrowed" => store.pos = 0
  /\ borrow = IF kind = "borrowed"
              THEN [buff |-> <<>>, len |-> Capacity, pos |-> store.len] ELSE NoBorrow
  /\ view = {} \/ \E v \in view : /\ view = {v} /\ IsRef(v)
                               /\ kind # "read" /\ Writer.pos = 0

(* Every buffer is within its memory, and a borrowed one in step with its  *)
(* parent, whose length is what has been written through it (buffer.rs:219, *)
(* 223, 233, 239): what the parent will then let be read.                  *)
TypeOK ==
  /\ ciphered \in BOOLEAN /\ edited \in BOOLEAN
  /\ IsRef(input) /\ input.buff \in Inputs \cup {<<>>}
  /\ StoreOK
  /\ output \in Buffer(OutSize) /\ output.len = OutSize
  /\ enc \in 0 .. (Len(Key) - 1) /\ dec \in 0 .. (Len(Key) - 1)
  /\ result \in {"none"} \cup IF ciphered THEN {"BufferUnderflow", "BufferOverflow"}
                                ELSE {}
  /\ out \in Seq(Byte) /\ sent \in Seq(Byte) /\ got \in Seq(Byte)

(* What has been written and is still to be read.                          *)
Stored == IF Reading THEN Slice(Reader, remaining(Reader)) ELSE Written

(* No byte is lost, doubled, reordered or stale on the way, and the two    *)
(* ends stay at the same place of the keystream: what the caller put in is *)
(* what it has drained, what waits in the output, what waits in the store  *)
(* once decrypted, and what waits in the input, however the buffers' sizes *)
(* cut it and whoever holds the store (buffer.rs:41, cryptoutil.rs:255).   *)
Conserved ==
  ~edited =>
    sent = got \o SubSeq(output.buff, 1, output.pos)
               \o (IF ciphered THEN process(dec, Stored) ELSE Stored)
               \o Slice(input, remaining(input))

(* The two ends process as many bytes as they move (cryptoutil.rs:255): the *)
(* sender is ahead in the keystream by what waits in the store.            *)
EndsInStep == ciphered /\ ~edited => enc = Moved(dec, Len(Stored))

(* "BufferOverflow" is returned only with a full output, so that a caller  *)
(* who drains it gets further by calling again (cryptoutil.rs:256).        *)
OverflowMeansFull ==
  [][/\ Send /\ result' = "BufferOverflow" => (remaining(Writer) = 0)'
     /\ Receive /\ result' = "BufferOverflow" => (remaining(output) = 0)']_vars

(* Through all changes of hands the store gives back what was written into *)
(* it since it was last empty, never what the Vec held before.             *)
Mode == IF Reading THEN "reading" ELSE "writing"
Data == IF Reading THEN SubSeq(Reader.buff, 1, Reader.len) ELSE Written
Taken == IF Reading THEN Reader.pos ELSE 0
Store == INSTANCE ByteStore WITH mode <- Mode, data <- Data, taken <- Taken
RefinesByteStore == Store!StoreSpec
=============================================================================
