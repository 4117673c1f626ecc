------------------------------ MODULE Sha2Rounds ------------------------------
(***************************************************************************)
(* What the compression functions of src/crypto/src/sha2.rs stand for: the *)
(* scalar form of SHA-2 that the comments there give as the code replaced  *)
(* ("instead of 4 rounds of", sha2.rs:300-345), with an array w of message *)
(* words that grows and eight registers, one round after another.          *)
(***************************************************************************)
EXTENDS Words

CONSTANTS
  Jobs,    \* [n, iv, blocks]: a word size, an initial value, the blocks
  K32, K64 \* the constants of the rounds

VARIABLES
  job,   \* what is to be compressed (never changes)
  done,  \* blocks that have been added to the chaining value
  h,     \* the chaining value
  v,     \* the registers a to h, <<>> between two blocks
  w      \* the message words so far

roundVars == <<job, done, h, v, w>>

Rounds(n) == IF n = 32 THEN 64 ELSE 80

-----------------------------------------------------------------------------
Rotations(x, r, n) ==
  Xor(Xor(rotate_right(x, r[1], n), rotate_right(x, r[2], n)),
      rotate_right(x, r[3], n))

RotationsAndShift(x, r, n) ==
  Xor(Xor(rotate_right(x, r[1], n), rotate_right(x, r[2], n)), shr(x, r[3], n))

big_sigma0(x, n) ==
  Rotations(x, IF n = 32 THEN <<2, 13, 22>> ELSE <<28, 34, 39>>, n)
big_sigma1(x, n) ==
  Rotations(x, IF n = 32 THEN <<6, 11, 25>> ELSE <<14, 18, 41>>, n)
sigma0(x, n) ==
  RotationsAndShift(x, IF n = 32 THEN <<7, 18, 3>> ELSE <<1, 8, 7>>, n)
sigma1(x, n) ==
  RotationsAndShift(x, IF n = 32 THEN <<17, 19, 10>> ELSE <<19, 61, 6>>, n)

choose(e, f, g) == (e \cap f) \cup (g \ e)
majority(a, b, c) == (a \cap b) \cup (a \cap c) \cup (b \cap c)

(* w[t] of the schedule; words[t + 1] is w[t].                             *)
ScheduleWord(words, n) ==
  LET t == Len(words) + 1
  IN wrapping_add(
       wrapping_add(
         wrapping_add(sigma1(words[t - 2], n), words[t - 7], n),
         sigma0(words[t - 15], n), n),
       words[t - 16], n)

(* h += big_sigma1(e) + choose(e, f, g) + K + w; d += h;                   *)
(* h += big_sigma0(a) + majority(a, b, c).                                 *)
Round(r, k, word, n) ==
  LET mixed == wrapping_add(big_sigma1(r[5], n), choose(r[5], r[6], r[7]), n)
      h1 == wrapping_add(
              r[8], wrapping_add(wrapping_add(mixed, k, n), word, n), n)
      h2 == wrapping_add(
              h1, wrapping_add(big_sigma0(r[1], n),
                               majority(r[1], r[2], r[3]), n), n)
  IN << h2, r[1], r[2], r[3], wrapping_add(r[4], h1, n), r[5], r[6], r[7] >>

(* One round of a pair of registers and words.                             *)
OneRound(s, block, n) ==
  LET t == Len(s.w)
      word == IF t < 16 THEN block[t + 1] ELSE ScheduleWord(s.w, n)
      k == IF n = 32 THEN K32[t + 1] ELSE K64[t + 1]
  IN [v |-> Round(s.v, k, word, n), w |-> Append(s.w, word)]

FourRounds(s, block, n) ==
  OneRound(OneRound(OneRound(OneRound(s, block, n), block, n), block, n),
           block, n)

-----------------------------------------------------------------------------
RoundsInit ==
  /\ job \in Jobs
  /\ done = 0 /\ h = job.iv
  /\ v = <<>> /\ w = <<>>

StartBlock ==
  /\ v = <<>> /\ done < Len(job.blocks)
  /\ v' = h /\ w' = <<>>
  /\ UNCHANGED <<job, done, h>>

NextRounds ==
  /\ v # <<>> /\ Len(w) < Rounds(job.n)
  /\ LET block == read_be(job.blocks[done + 1], job.n)
         next == FourRounds([v |-> v, w |-> w], block, job.n)
     IN v' = next.v /\ w' = next.w
  /\ UNCHANGED <<job, done, h>>

EndBlock ==
  /\ v # <<>> /\ Len(w) = Rounds(job.n)
  /\ h' = [i \in 1 .. 8 |-> wrapping_add(h[i], v[i], job.n)]
  /\ done' = done + 1
  /\ v' = <<>>
  /\ UNCHANGED <<job, w>>

RoundsNext == StartBlock \/ NextRounds \/ EndBlock

RoundsSpec == RoundsInit /\ [][RoundsNext]_roundVars
=============================================================================
