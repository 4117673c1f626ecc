------------------------------ MODULE Sha2Blocks ------------------------------
(***************************************************************************)
(* sha256_digest_block and sha512_digest_block of src/crypto/src/sha2.rs,  *)
(* called for one block of a message after the other, as process_block is  *)
(* by the engines.                                                         *)
(*                                                                         *)
(* The words of the message schedule live in a ring of vectors that are    *)
(* written over as the rounds go, five u32x4 or ten u64x2, each with its   *)
(* latest word in lane 1; the registers are paired, <<abef, cdgh>> or      *)
(* <<ae, bf, cg, dh>>, and change places instead of moving.  The code is   *)
(* unrolled; a step is one of its rounds4!, with what goes before it.      *)
(***************************************************************************)
EXTENDS Words

CONSTANTS
  Jobs,     \* [n, iv, bits, blocks]: a word size, an initial value, the bits
            \* of it returned, and the padded message as blocks of bytes
  K32, K64  \* the constants of the rounds (sha2.rs:668-689, 993-1010)

ASSUME JobsAssumption ==
  \A job \in Jobs :
    /\ job.n \in {32, 64}
    /\ job.iv \in [1 .. 8 -> Word(job.n)]
    /\ job.blocks \in Seq([1 .. 2 * job.n -> Word(8)])

ASSUME KAssumption ==
  /\ K32 \in [1 .. 64 -> Word(32)]
  /\ K64 \in [1 .. 80 -> Word(64)]

VARIABLES
  job,   \* the message and its digest (never changes)
  done,  \* how many of its blocks have been processed
  state, \* the chaining value
  regs,  \* the paired registers, <<>> between two calls
  ring,  \* the vectors w0, w1, ...; <<>> if not yet assigned
  group, \* how many rounds4! have been done
  sched  \* history: the words of the schedule in the order of their use

vars == <<job, done, state, regs, ring, group, sched>>

-----------------------------------------------------------------------------
SlotEarly(i, vectors) == i % (vectors - 1) \* mutant: a vector too few

(* The vector of the ring that is assigned in the i-th place.              *)
Slot(i, vectors) == i % vectors

(* SHA-256: an u32x4 is <<w[t+3], w[t+2], w[t+1], w[t]>>.                  *)
sha256load(v2, v3) == << v3[4], v2[1], v2[2], v2[3] >>

sha256swap(u) == << u[3], u[4], u[1], u[2] >>

sigma0x4(u) ==
  [i \in 1 .. 4 |->
     Xor(Xor(shr(u[i], 7, 32) \cup shl(u[i], 25, 32),
             shr(u[i], 18, 32) \cup shl(u[i], 14, 32)),
         shr(u[i], 3, 32))]

sha256msg1(v0, v1) == Add(v0, sigma0x4(sha256load(v0, v1)), 32)

(* The second pair of words needs the first one.                           *)
sha256msg2(v4, v3) ==
  LET sigma1(x) == Xor(Xor(rotate_right(x, 17, 32), rotate_right(x, 19, 32)),
                       shr(x, 10, 32))
      w16 == wrapping_add(v4[4], sigma1(v3[2]), 32)
      w17 == wrapping_add(v4[3], sigma1(v3[1]), 32)
      w18 == wrapping_add(v4[2], sigma1(w16), 32)
      w19 == wrapping_add(v4[1], sigma1(w17), 32)
  IN << w19, w18, w17, w16 >>

sha256_schedule_x4(v0, v1, v2, v3) ==
  sha256msg2(Add(sha256msg1(v0, v1), sha256load(v2, v3), 32), v3)

bool3ary_202(a, b, c) == Xor(c, a \cap Xor(b, c))
bool3ary_232(a, b, c) == Xor(Xor(a \cap b, a \cap c), b \cap c)

Sigma(x, p, q, r, n) ==
  Xor(Xor(rotate_right(x, p, n), rotate_right(x, q, n)), rotate_right(x, r, n))

(* A round: the new a and e, and the others moved down.                    *)
round(sigma1, sigma0, r, wk, n) ==
  LET x == wrapping_add(wrapping_add(wrapping_add(
             sigma1, bool3ary_202(r.e, r.f, r.g), n), wk, n), r.h, n)
      y == wrapping_add(sigma0, bool3ary_232(r.a, r.b, r.c), n)
  IN [a |-> wrapping_add(x, y, n), b |-> r.a, c |-> r.b, d |-> r.c,
      e |-> wrapping_add(x, r.d, n), f |-> r.e, g |-> r.f, h |-> r.g]

round256(r, wk) ==
  round(Sigma(r.e, 6, 11, 25, 32), Sigma(r.a, 2, 13, 22, 32), r, wk, 32)

sha256_digest_round_x2(cdgh, abef, wk) ==
  LET r0 == [a |-> abef[1], b |-> abef[2], c |-> cdgh[1], d |-> cdgh[2],
             e |-> abef[3], f |-> abef[4], g |-> cdgh[3], h |-> cdgh[4]]
      r2 == round256(round256(r0, wk[4]), wk[3])
  IN << r2.a, r2.b, r2.e, r2.f >>

K32X4(t) == << K32[4*t + 4], K32[4*t + 3], K32[4*t + 2], K32[4*t + 1] >>

Rounds4NoSwap(r, rest) == \* mutant: the same two words in both halves
  LET cdgh == sha256_digest_round_x2(r[2], r[1], rest)
      abef == sha256_digest_round_x2(r[1], cdgh, rest)
  IN << abef, cdgh >>

rounds4_256(r, rest) ==
  LET cdgh == sha256_digest_round_x2(r[2], r[1], rest)
      abef == sha256_digest_round_x2(r[1], cdgh, sha256swap(rest))
  IN << abef, cdgh >>

-----------------------------------------------------------------------------
(* SHA-512: an u64x2 is <<w[t+1], w[t]>>.                                  *)
sha512load(v0, v1) == << v1[2], v0[1] >>

sha512_schedule_x2(v0, v1, v4to5, v7) ==
  LET sigma0(x) == Xor(Xor(shl(x, 63, 64) \cup shr(x, 1, 64),
                           shl(x, 56, 64) \cup shr(x, 8, 64)), shr(x, 7, 64))
      sigma1(x) == Xor(Xor(shl(x, 45, 64) \cup shr(x, 19, 64),
                           shl(x, 3, 64) \cup shr(x, 61, 64)), shr(x, 6, 64))
      next(w14, w9, w1, w0) ==
        wrapping_add(wrapping_add(wrapping_add(
          sigma1(w14), w9, 64), sigma0(w1), 64), w0, 64)
  IN << next(v7[1], v4to5[1], v1[2], v0[1]), next(v7[2], v4to5[2], v0[1], v0[2]) >>

round512(r, wk) ==
  round(Sigma(r.e, 14, 18, 41, 64), Sigma(r.a, 28, 34, 39, 64), r, wk, 64)

sha512_digest_round(ae, bf, cg, dh, wk) ==
  LET r0 == [a |-> ae[1], b |-> bf[1], c |-> cg[1], d |-> dh[1],
             e |-> ae[2], f |-> bf[2], g |-> cg[2], h |-> dh[2]]
      r1 == round512(r0, wk)
  IN << r1.a, r1.e >>

K64X2(t) == << K64[2*t + 2], K64[2*t + 1] >>

rounds4_512(r, wk0, wk1) ==
  LET dh == sha512_digest_round(r[1], r[2], r[3], r[4], wk0[2])
      cg == sha512_digest_round(dh, r[1], r[2], r[3], wk0[1])
      bf == sha512_digest_round(cg, dh, r[1], r[2], wk1[2])
      ae == sha512_digest_round(bf, cg, dh, r[1], wk1[1])
  IN << ae, bf, cg, dh >>

-----------------------------------------------------------------------------
Init ==
  /\ job \in Jobs
  /\ done = 0 /\ state = job.iv
  /\ regs = <<>> /\ ring = <<>> /\ group = 0 /\ sched = <<>>

(* The block as words, converted when the call begins.                     *)
Block == read_be(job.blocks[done + 1], job.n)

BeginBlock ==
  /\ regs = <<>> /\ done < Len(job.blocks)
  /\ IF job.n = 32
     THEN /\ regs' = << << state[1], state[2], state[5], state[6] >>,
                        << state[3], state[4], state[7], state[8] >> >>
          /\ ring' = [i \in 0 .. 4 |-> <<>>]
     ELSE /\ regs' = [i \in 1 .. 4 |-> << state[i], state[i + 4] >>]
          /\ ring' = [i \in 0 .. 9 |-> <<>>]
  /\ group' = 0 /\ sched' = <<>>
  /\ UNCHANGED <<job, done, state>>

Rounds256 ==
  /\ job.n = 32 /\ regs # <<>> /\ group < 16
  /\ LET v(i) == ring[Slot(group + i, 5)]
         next == IF group < 4
                 THEN << Block[4*group + 4], Block[4*group + 3],
                         Block[4*group + 2], Block[4*group + 1] >>
                 ELSE sha256_schedule_x4(v(1), v(2), v(3), v(4))
     IN /\ ring' = [ring EXCEPT ![Slot(group, 5)] = next]
        /\ regs' = rounds4_256(regs, Add(K32X4(group), next, 32))
        /\ sched' = sched \o << next[4], next[3], next[2], next[1] >>
  /\ group' = group + 1
  /\ UNCHANGED <<job, done, state>>

Rounds512 ==
  /\ job.n = 64 /\ regs # <<>> /\ group < 20
  /\ LET v(i) == ring[Slot(2*group + i, 10)]
         next0 == IF group < 4
                  THEN << Block[4*group + 2], Block[4*group + 1] >>
                  ELSE sha512_schedule_x2(v(2), v(3), sha512load(v(6), v(7)), v(9))
         next1 == IF group < 4
                  THEN << Block[4*group + 4], Block[4*group + 3] >>
                  ELSE sha512_schedule_x2(v(3), v(4), sha512load(v(7), v(8)), next0)
     IN /\ ring' = [ring EXCEPT ![Slot(2*group, 10)] = next0,
                                ![Slot(2*group + 1, 10)] = next1]
        /\ regs' = rounds4_512(regs, Add(K64X2(2*group), next0, 64),
                               Add(K64X2(2*group + 1), next1, 64))
        /\ sched' = sched \o << next0[2], next0[1], next1[2], next1[1] >>
  /\ group' = group + 1
  /\ UNCHANGED <<job, done, state>>

(* The registers in the order a to h.                                      *)
Unpaired(n, r) ==
  IF n = 32
  THEN << r[1][1], r[1][2], r[2][1], r[2][2], r[1][3], r[1][4], r[2][3], r[2][4] >>
  ELSE << r[1][1], r[2][1], r[3][1], r[4][1], r[1][2], r[2][2], r[3][2], r[4][2] >>

EndBlock ==
  /\ regs # <<>> /\ group = (IF job.n = 32 THEN 16 ELSE 20)
  /\ state' = Add(state, Unpaired(job.n, regs), job.n)
  /\ done' = done + 1
  /\ regs' = <<>>
  /\ UNCHANGED <<job, ring, group, sched>>

Next == BeginBlock \/ Rounds256 \/ Rounds512 \/ EndBlock

Spec == Init /\ [][Next]_vars

(* What result writes out when the last block has been processed.          *)
Output == SubSeq(write_be(state, job.n), 1, job.bits \div 8)
-----------------------------------------------------------------------------
(* Every word has its width, and every group of rounds four words.         *)
TypeOK ==
  LET W == Word(job.n)
      Vector == [1 .. (IF job.n = 32 THEN 4 ELSE 2) -> W]
  IN /\ job \in Jobs /\ done \in 0 .. Len(job.blocks)
     /\ state \in [1 .. 8 -> W]
     /\ regs = <<>> \/ regs \in [1 .. (IF job.n = 32 THEN 2 ELSE 4) -> Vector]
     /\ regs # <<>> =>
          /\ done < Len(job.blocks)
          /\ ring \in [0 .. (IF job.n = 32 THEN 4 ELSE 9) -> Vector \cup {<<>>}]
     /\ group \in 0 .. (IF job.n = 32 THEN 16 ELSE 20)
     /\ sched \in Seq(W) /\ Len(sched) = 4 * group

(* A vector is written over only when no later word needs it: the ring     *)
(* holds the last twenty words of the schedule, each in its lane, when the *)
(* next group is computed from it (sha2.rs:201-245, 452-526).              *)
RingHoldsSchedule ==
  LET lanes == IF job.n = 32 THEN 4 ELSE 2
      slots == 20 \div lanes
      next == (4 * group) \div lanes
  IN regs # <<>> =>
       \A k \in 0 .. (next - 1) :
         k >= next - slots =>
           ring[k % slots] =
             [i \in 1 .. lanes |-> sched[lanes * k + (lanes + 1 - i)]]

(* The vectors, the lanes in reverse, the registers that change places and *)
(* the constants added in fours compute what the comments say they replace *)
(* ("instead of 4 rounds of", sha2.rs:300-345, 589-636), block after block. *)
Scalar ==
  INSTANCE Sha2Rounds
    WITH h <- state,
         v <- IF regs = <<>> THEN <<>> ELSE Unpaired(job.n, regs),
         w <- sched
RefinesSha2Rounds == Scalar!RoundsSpec
=============================================================================
