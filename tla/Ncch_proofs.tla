------------------------------ MODULE Ncch_proofs ------------------------------
(***************************************************************************)
(* Lemmas about the steps that decrypt a container: what kind of record a  *)
(* step is, what is known of a list of steps as its first one is taken and *)
(* as others are put before it, and what the plans of main.rs guarantee.   *)
(***************************************************************************)
EXTENDS Ncch, XorRegion_proofs

(* The records that steps are.                                             *)
IsStep(s) ==
  /\ s.kind \in {"need", "refuse", "xor", "hash", "exefs", "files"}
  /\ s.kind \in {"need", "refuse", "xor"} => s.arg \in PadArgs
  /\ s.kind \in {"xor", "hash", "exefs", "files"} => s.file_pos \in Nat
  /\ s.kind = "xor" => s.pad_pos \in Nat /\ s.size \in Int
  /\ s.kind = "hash" => s.size \in Nat
  /\ s.kind = "exefs" => s.ncch \in Ncchs
  /\ s.kind = "files" => s.files \in ExefsFiles

(* Every step is one of them.                                              *)
LEMMA StepFields ==
  ASSUME NEW s \in Steps
  PROVE  IsStep(s)
<1>1. CASE s \in [kind : {"need", "refuse"}, arg : PadArgs]
  BY <1>1 DEF IsStep
<1>2. CASE s \in [kind : {"xor"}, arg : PadArgs, file_pos : Nat, pad_pos : Nat,
                  size : Int]
  BY <1>2 DEF IsStep
<1>3. CASE s \in [kind : {"hash"}, file_pos : Nat, size : Nat, genuine : BOOLEAN]
  BY <1>3 DEF IsStep
<1>4. CASE s \in [kind : {"exefs"}, file_pos : Nat, ncch : Ncchs]
  BY <1>4 DEF IsStep
<1>5. CASE s \in [kind : {"files"}, file_pos : Nat, files : ExefsFiles]
  BY <1>5 DEF IsStep
<1> QED
  BY <1>1, <1>2, <1>3, <1>4, <1>5 DEF Steps

(* The numbers of a header.                                                *)
LEMMA NcchFields ==
  ASSUME NEW n \in Ncchs
  PROVE  /\ n.exefs_offset \in Nat /\ n.exefs_size \in Nat /\ n.exefs_hashed \in Nat
         /\ n.romfs_offset \in Nat /\ n.romfs_size \in Nat /\ n.romfs_hashed \in Nat
         /\ n.files \in ExefsFiles /\ n.genuine \in BOOLEAN
         /\ n.code.file_off \in Nat /\ n.code.file_size \in Nat
<1>1. n.code \in ExefsFile
  BY DEF Ncchs
<1>2. n.code.file_off \in Nat /\ n.code.file_size \in Nat
  BY <1>1 DEF ExefsFile
<1> QED
  BY <1>2 DEF Ncchs

(* The places of a file.                                                   *)
LEMMA FileFields ==
  ASSUME NEW files \in ExefsFiles, NEW i \in 1 .. Len(files)
  PROVE  files[i].file_off \in Nat /\ files[i].file_size \in Nat
<1>1. files[i] \in ExefsFile
  BY DEF ExefsFiles
<1> QED
  BY <1>1 DEF ExefsFile

(* The kinds of step are steps.                                            *)
LEMMA StepsMade ==
  ASSUME NEW arg \in PadArgs, NEW n \in Ncchs, NEW pos \in Nat, NEW pad_pos \in Nat,
         NEW size \in Int, NEW hashed \in Nat
  PROVE  /\ Need(arg) \in Steps /\ Refuse(arg) \in Steps
         /\ XorWith(arg, pos, pad_pos, size) \in Steps
         /\ Hash(n, pos, hashed) \in Steps
         /\ ParseExefs(n, pos) \in Steps /\ HashFiles(n, pos) \in Steps
<1>1. Need(arg) \in Steps /\ Refuse(arg) \in Steps
  BY DEF Need, Refuse, Steps
<1>2. XorWith(arg, pos, pad_pos, size) \in Steps
  BY DEF XorWith, Steps
<1>3. Hash(n, pos, hashed) \in Steps
  <2>1. n.genuine \in BOOLEAN
    BY NcchFields
  <2>2. Hash(n, pos, hashed)
          \in [kind : {"hash"}, file_pos : Nat, size : Nat, genuine : BOOLEAN]
    BY <2>1, Zenon DEF Hash
  <2> QED
    BY <2>2 DEF Steps
<1>4. ParseExefs(n, pos) \in Steps
  BY DEF ParseExefs, Steps
<1>5. HashFiles(n, pos) \in Steps
  BY NcchFields DEF HashFiles, Steps
<1> QED
  BY <1>1, <1>2, <1>3, <1>4, <1>5

-----------------------------------------------------------------------------
(* Lists of steps.                                                         *)
Join(r, t) == r \o t

(* The arguments whose pads a step takes.                                  *)
Uses(s) == IF s.kind = "xor" THEN {s.arg}
           ELSE IF s.kind = "exefs" THEN {"exefs", "exefs7x"} ELSE {}

(* A step that may write to the area a, or that plans steps that may; and  *)
(* one that only succeeds if a is plain.                                   *)
Touches(s, a) == s.kind \in {"xor", "exefs"} /\ s.file_pos < a.pos + a.size

Verifies(s, a) ==
  \/ /\ s.kind = "hash" /\ s.genuine
     /\ s.file_pos = a.pos /\ s.size = a.size
  \/ /\ s.kind = "files"
     /\ \E i \in 1 .. Len(s.files) :
          /\ a.pos = s.file_pos + HEADER_SIZE + s.files[i].file_off
          /\ a.size = s.files[i].file_size

(* A step that never succeeds.                                             *)
Hopeless(s) == s.kind = "hash" /\ ~s.genuine

(* With the arguments in given, every pad that t takes is there, or asked  *)
(* for before.                                                             *)
Ready(t, given) ==
  \A j \in 1 .. Len(t) : \A arg \in Uses(t[j]) :
    arg \in given \/ \E i \in 1 .. (j - 1) : t[i] = Need(arg)

(* t leaves a alone; t verifies a and then leaves it alone; t fails.       *)
Untouched(t, a) == \A j \in 1 .. Len(t) : ~Touches(t[j], a)

Handles(t, a) ==
  \E i \in 1 .. Len(t) :
    /\ Verifies(t[i], a)
    /\ \A j \in (i + 1) .. Len(t) : ~Touches(t[j], a)

Doomed(t) == \E i \in 1 .. Len(t) : Hopeless(t[i])

(* Where the steps of a joined list come from.                             *)
LEMMA JoinSteps ==
  ASSUME NEW r \in Seq(Steps), NEW t \in Seq(Steps)
  PROVE  /\ Join(r, t) \in Seq(Steps)
         /\ Len(Join(r, t)) = Len(r) + Len(t)
         /\ Len(r) \in Nat /\ Len(t) \in Nat
         /\ \A i \in 1 .. Len(r) : Join(r, t)[i] = r[i]
         /\ \A i \in 1 .. Len(t) : Join(r, t)[Len(r) + i] = t[i]
BY DEF Join

(* Where those of the rest of a list do.                                   *)
LEMMA TailSteps ==
  ASSUME NEW t \in Seq(Steps), t # <<>>
  PROVE  /\ Tail(t) \in Seq(Steps) /\ Len(Tail(t)) = Len(t) - 1
         /\ Len(t) \in Nat \ {0}
         /\ Head(t) = t[1] /\ Head(t) \in Steps
         /\ \A i \in 1 .. (Len(t) - 1) : Tail(t)[i] = t[i + 1]
OBVIOUS

(* What is known of two lists is known of the joined one.                  *)
LEMMA JoinReady ==
  ASSUME NEW r \in Seq(Steps), NEW t \in Seq(Steps), NEW given,
         Ready(r, given), Ready(t, given)
  PROVE  Ready(Join(r, t), given)
<1> DEFINE u == Join(r, t) m == Len(r) n == Len(t)
<1>1. /\ Len(u) = m + n /\ m \in Nat /\ n \in Nat
      /\ \A i \in 1 .. m : u[i] = r[i]
      /\ \A i \in 1 .. n : u[m + i] = t[i]
  BY JoinSteps
<1> HIDE DEF u
<1> SUFFICES ASSUME NEW j \in 1 .. (m + n), NEW arg \in Uses(u[j]), arg \notin given
             PROVE  \E i \in 1 .. (j - 1) : u[i] = Need(arg)
  BY <1>1 DEF Ready, u
<1>2. CASE j \in 1 .. m
  <2>1. PICK i \in 1 .. (j - 1) : r[i] = Need(arg)
    BY <1>1, <1>2 DEF Ready
  <2> QED
    BY <1>1, <1>2, <2>1
<1>3. CASE j \notin 1 .. m
  <2> DEFINE k == j - m
  <2>1. k \in 1 .. n /\ u[j] = t[k]
    <3>1. k \in 1 .. n /\ m + k = j
      BY <1>1, <1>3
    <3> QED
      BY <1>1, <3>1
  <2>2. PICK i \in 1 .. (k - 1) : t[i] = Need(arg)
    BY <2>1 DEF Ready
  <2>3. i \in 1 .. n /\ m + i \in 1 .. (j - 1)
    BY <1>1, <2>1, <2>2
  <2> QED
    BY <1>1, <2>2, <2>3
<1> QED
  BY <1>2, <1>3

(* Leaving an area alone, verifying it and failing are kept, too.          *)
LEMMA JoinUntouched ==
  ASSUME NEW r \in Seq(Steps), NEW t \in Seq(Steps), NEW a
  PROVE  /\ Untouched(r, a) /\ Untouched(t, a) => Untouched(Join(r, t), a)
         /\ Handles(r, a) /\ Untouched(t, a) => Handles(Join(r, t), a)
         /\ Handles(t, a) => Handles(Join(r, t), a)
         /\ Doomed(r) \/ Doomed(t) => Doomed(Join(r, t))
<1> DEFINE u == Join(r, t) m == Len(r) n == Len(t)
<1>1. /\ Len(u) = m + n /\ m \in Nat /\ n \in Nat
      /\ \A i \in 1 .. m : u[i] = r[i]
      /\ \A i \in 1 .. n : u[m + i] = t[i]
  BY JoinSteps
<1> HIDE DEF u
<1>2. ASSUME NEW j \in 1 .. (m + n), ~(j \in 1 .. m)
      PROVE  j - m \in 1 .. n /\ u[j] = t[j - m]
  <2>1. j - m \in 1 .. n /\ m + (j - m) = j
    BY <1>1, <1>2
  <2> QED
    BY <1>1, <2>1
<1>3. ASSUME Untouched(r, a), Untouched(t, a)
      PROVE  Untouched(u, a)
  <2> SUFFICES ASSUME NEW j \in 1 .. (m + n)
               PROVE  ~Touches(u[j], a)
    BY <1>1 DEF Untouched
  <2>1. CASE j \in 1 .. m
    BY <1>1, <1>3, <2>1 DEF Untouched
  <2>2. CASE ~(j \in 1 .. m)
    BY <1>2, <1>3, <2>2 DEF Untouched
  <2> QED
    BY <2>1, <2>2
<1>4. ASSUME Handles(r, a), Untouched(t, a)
      PROVE  Handles(u, a)
  <2>1. PICK i \in 1 .. m : /\ Verifies(r[i], a)
                            /\ \A j \in (i + 1) .. m : ~Touches(r[j], a)
    BY <1>4 DEF Handles
  <2>2. ASSUME NEW j \in (i + 1) .. (m + n)
        PROVE  ~Touches(u[j], a)
    <3>1. CASE j \in 1 .. m
      <4>1. j \in (i + 1) .. m
        BY <1>1, <2>1, <2>2, <3>1
      <4> QED
        BY <1>1, <2>1, <3>1, <4>1
    <3>2. CASE ~(j \in 1 .. m)
      <4>1. j \in 1 .. (m + n)
        BY <1>1, <2>1, <2>2
      <4> QED
        BY <1>2, <1>4, <3>2, <4>1 DEF Untouched
    <3> QED
      BY <3>1, <3>2
  <2>3. i \in 1 .. (m + n) /\ u[i] = r[i]
    BY <1>1, <2>1
  <2> QED
    BY <1>1, <2>1, <2>2, <2>3 DEF Handles
<1>5. ASSUME Handles(t, a)
      PROVE  Handles(u, a)
  <2>1. PICK i \in 1 .. n : /\ Verifies(t[i], a)
                            /\ \A j \in (i + 1) .. n : ~Touches(t[j], a)
    BY <1>5 DEF Handles
  <2>2. m + i \in 1 .. (m + n) /\ u[m + i] = t[i]
    <3>1. i \in 1 .. n
      OBVIOUS
    <3>2. m + i \in 1 .. (m + n)
      BY <1>1, <3>1
    <3> QED
      BY <1>1, <3>1, <3>2
  <2>3. ASSUME NEW j \in (m + i + 1) .. (m + n)
        PROVE  ~Touches(u[j], a)
    <3>1. j \in 1 .. (m + n) /\ ~(j \in 1 .. m) /\ j - m \in (i + 1) .. n
      BY <1>1, <2>1, <2>3
    <3>2. u[j] = t[j - m]
      BY <1>2, <3>1
    <3> QED
      BY <2>1, <3>1, <3>2
  <2> QED
    BY <1>1, <2>1, <2>2, <2>3 DEF Handles
<1>6. ASSUME Doomed(r) \/ Doomed(t)
      PROVE  Doomed(u)
  <2>1. CASE Doomed(r)
    <3>1. PICK i \in 1 .. m : Hopeless(r[i])
      BY <2>1 DEF Doomed
    <3>2. i \in 1 .. (m + n) /\ u[i] = r[i]
      BY <1>1
    <3> QED
      BY <1>1, <3>1, <3>2 DEF Doomed
  <2>2. CASE Doomed(t)
    <3>1. PICK i \in 1 .. n : Hopeless(t[i])
      BY <2>2 DEF Doomed
    <3>2. m + i \in 1 .. (m + n) /\ u[m + i] = t[i]
      BY <1>1
    <3> QED
      BY <1>1, <3>1, <3>2 DEF Doomed
  <2> QED
    BY <1>6, <2>1, <2>2
<1> QED
  BY <1>3, <1>4, <1>5, <1>6 DEF u

(* As the first step is taken: what the rest of the list keeps.            *)
LEMMA TailReady ==
  ASSUME NEW t \in Seq(Steps), t # <<>>, NEW given, Ready(t, given)
  PROVE  /\ Uses(Head(t)) \subseteq given
         /\ (Head(t).kind = "need" => Head(t).arg \in given) => Ready(Tail(t), given)
<1> DEFINE h == Head(t) u == Tail(t) n == Len(t)
<1>1. /\ Len(u) = n - 1 /\ n \in Nat \ {0} /\ h = t[1]
      /\ \A i \in 1 .. (n - 1) : u[i] = t[i + 1]
  BY TailSteps
<1> HIDE DEF u
<1>2. \A arg \in Uses(h) : arg \in given
  BY <1>1 DEF Ready
<1>3. ASSUME h.kind = "need" => h.arg \in given
      PROVE  Ready(u, given)
  <2> SUFFICES ASSUME NEW j \in 1 .. (n - 1), NEW arg \in Uses(u[j]), arg \notin given
               PROVE  \E i \in 1 .. (j - 1) : u[i] = Need(arg)
    BY <1>1 DEF Ready
  <2>1. j + 1 \in 1 .. n /\ u[j] = t[j + 1]
    BY <1>1
  <2>2. PICK i \in 1 .. ((j + 1) - 1) : t[i] = Need(arg)
    BY <2>1 DEF Ready
  <2>3. i # 1
    <3> SUFFICES ASSUME i = 1 PROVE FALSE
      OBVIOUS
    <3>1. h = Need(arg)
      BY <1>1, <2>2
    <3>2. h.kind = "need" /\ h.arg = arg
      BY <3>1 DEF Need
    <3> QED
      BY <1>3, <3>2
  <2>4. i - 1 \in 1 .. (j - 1) /\ i - 1 \in 1 .. (n - 1) /\ (i - 1) + 1 = i
    BY <1>1, <2>2, <2>3
  <2>5. u[i - 1] = t[i]
    BY <1>1, <2>4
  <2> QED
    BY <2>2, <2>4, <2>5
<1> QED
  BY <1>2, <1>3 DEF u

(* ... an area is still left alone, or has just been verified.             *)
LEMMA TailUntouched ==
  ASSUME NEW t \in Seq(Steps), t # <<>>, NEW a
  PROVE  /\ Untouched(t, a) => ~Touches(Head(t), a) /\ Untouched(Tail(t), a)
         /\ Handles(t, a) => \/ Handles(Tail(t), a)
                             \/ Verifies(Head(t), a) /\ Untouched(Tail(t), a)
         /\ Doomed(t) => Hopeless(Head(t)) \/ Doomed(Tail(t))
<1> DEFINE h == Head(t) u == Tail(t) n == Len(t)
<1>1. /\ Len(u) = n - 1 /\ n \in Nat \ {0} /\ h = t[1]
      /\ \A i \in 1 .. (n - 1) : u[i] = t[i + 1]
  BY TailSteps
<1> HIDE DEF u
<1>2. ASSUME NEW i \in 1 .. n, i # 1
      PROVE  i - 1 \in 1 .. (n - 1) /\ u[i - 1] = t[i]
  <2>1. i - 1 \in 1 .. (n - 1) /\ (i - 1) + 1 = i
    BY <1>1, <1>2
  <2> QED
    BY <1>1, <2>1
<1>3. ASSUME NEW i \in 1 .. n, \A j \in (i + 1) .. n : ~Touches(t[j], a)
      PROVE  \A j \in i .. (n - 1) : ~Touches(u[j], a)
  <2> SUFFICES ASSUME NEW j \in i .. (n - 1)
               PROVE  ~Touches(u[j], a)
    OBVIOUS
  <2>1. j \in 1 .. (n - 1) /\ j + 1 \in (i + 1) .. n
    BY <1>1
  <2> QED
    BY <1>1, <1>3, <2>1
<1>4. ASSUME Untouched(t, a)
      PROVE  ~Touches(h, a) /\ Untouched(u, a)
  <2>1. \A j \in 2 .. n : ~Touches(t[j], a)
    BY <1>4 DEF Untouched
  <2>2. \A j \in 1 .. (n - 1) : ~Touches(u[j], a)
    BY <1>1, <1>3, <2>1
  <2> QED
    BY <1>1, <1>4, <2>2 DEF Untouched
<1>5. ASSUME Handles(t, a)
      PROVE  Handles(u, a) \/ (Verifies(h, a) /\ Untouched(u, a))
  <2>1. PICK i \in 1 .. n : /\ Verifies(t[i], a)
                            /\ \A j \in (i + 1) .. n : ~Touches(t[j], a)
    BY <1>5 DEF Handles
  <2>2. \A j \in i .. (n - 1) : ~Touches(u[j], a)
    BY <1>3, <2>1
  <2>3. CASE i = 1
    BY <1>1, <2>1, <2>2, <2>3 DEF Untouched
  <2>4. CASE i # 1
    <3>1. i - 1 \in 1 .. (n - 1) /\ u[i - 1] = t[i]
      BY <1>2, <2>4
    <3>2. (i - 1) + 1 = i
      OBVIOUS
    <3> QED
      BY <1>1, <2>1, <2>2, <3>1, <3>2 DEF Handles
  <2> QED
    BY <2>3, <2>4
<1>6. ASSUME Doomed(t)
      PROVE  Hopeless(h) \/ Doomed(u)
  <2>1. PICK i \in 1 .. n : Hopeless(t[i])
    BY <1>6 DEF Doomed
  <2>2. CASE i = 1
    BY <1>1, <2>1, <2>2
  <2>3. CASE i # 1
    BY <1>1, <1>2, <2>1, <2>3 DEF Doomed
  <2> QED
    BY <2>2, <2>3
<1> QED
  BY <1>4, <1>5, <1>6 DEF u

-----------------------------------------------------------------------------
(* The parts of a plan.                                                    *)

(* A list of three steps.                                                  *)
LEMMA ThreeSteps ==
  ASSUME NEW x \in Steps, NEW y \in Steps, NEW z \in Steps
  PROVE  /\ <<x, y, z>> \in Seq(Steps) /\ Len(<<x, y, z>>) = 3
         /\ <<x, y, z>>[1] = x /\ <<x, y, z>>[2] = y /\ <<x, y, z>>[3] = z
OBVIOUS

(* Decrypting and verifying a section, which no step before it touches.    *)
SectionSteps(arg, n, pos, size, hashed) ==
  << Need(arg), XorWith(arg, pos, 0, size), Hash(n, pos, hashed) >>

(* A section's steps ask for its pad, write from its start on, and verify  *)
(* its hashed area, which fails if the header is not the image's.          *)
LEMMA SectionLemma ==
  ASSUME NEW arg \in PadArgs, NEW n \in Ncchs, NEW pos \in Nat, NEW size \in Nat,
         NEW hashed \in Nat, NEW given
  PROVE  LET t == SectionSteps(arg, n, pos, size, hashed)
         IN /\ t \in Seq(Steps) /\ Ready(t, given)
            /\ ~n.genuine => Doomed(t)
            /\ \A a : n.genuine /\ a.pos = pos /\ a.size = hashed => Handles(t, a)
            /\ \A a : a.pos + a.size \in Int /\ a.pos + a.size <= pos => Untouched(t, a)
<1> DEFINE t == SectionSteps(arg, n, pos, size, hashed)
           x == Need(arg) y == XorWith(arg, pos, 0, size) z == Hash(n, pos, hashed)
<1>1. x \in Steps /\ y \in Steps /\ z \in Steps
  BY StepsMade
<1>2. /\ t \in Seq(Steps) /\ Len(t) = 3
      /\ t[1] = x /\ t[2] = y /\ t[3] = z
  BY <1>1, ThreeSteps DEF SectionSteps
<1>3. /\ x.kind = "need" /\ x.arg = arg
      /\ y.kind = "xor" /\ y.arg = arg /\ y.file_pos = pos
      /\ z.kind = "hash" /\ z.file_pos = pos /\ z.size = hashed
  BY DEF Need, XorWith, Hash
<1>4. z.genuine = n.genuine
  BY DEF Hash
<1> HIDE DEF t, y, z
<1>5. \A j \in 1 .. 3 : j = 1 \/ j = 2 \/ j = 3
  OBVIOUS
<1>6. Ready(t, given)
  <2>1. Uses(x) = {} /\ Uses(y) = {arg} /\ Uses(z) = {}
    BY <1>3 DEF Uses
  <2> HIDE DEF x
  <2>2. 1 \in 1 .. (2 - 1)
    OBVIOUS
  <2>3. \A j \in 1 .. 3 : \A b \in Uses(t[j]) : j = 2 /\ b = arg
    BY <1>2, <1>5, <2>1
  <2> QED
    BY <1>2, <2>2, <2>3 DEF Ready, x
<1> HIDE DEF x
<1>7. ASSUME ~n.genuine
      PROVE  Doomed(t)
  <2>1. Hopeless(z)
    BY <1>3, <1>4, <1>7 DEF Hopeless
  <2> QED
    BY <1>2, <2>1 DEF Doomed
<1>8. ASSUME NEW a, n.genuine, a.pos = pos, a.size = hashed
      PROVE  Handles(t, a)
  <2>1. Verifies(z, a)
    BY <1>3, <1>4, <1>8 DEF Verifies
  <2>2. 3 \in 1 .. 3 /\ (3 + 1) .. 3 = {}
    OBVIOUS
  <2> QED
    BY <1>2, <2>1, <2>2 DEF Handles
<1>9. ASSUME NEW a, a.pos + a.size \in Int, a.pos + a.size <= pos
      PROVE  Untouched(t, a)
  <2>1. ~Touches(x, a) /\ ~Touches(y, a) /\ ~Touches(z, a)
    BY <1>3, <1>9 DEF Touches
  <2> QED
    BY <1>2, <1>5, <2>1 DEF Untouched
<1> QED
  BY <1>2, <1>6, <1>7, <1>8, <1>9 DEF t

(* The steps of a 7.x ExeFS ask for both pads, write from its start on and *)
(* verify its header and every file.                                       *)
LEMMA Exefs7xLemma ==
  ASSUME NEW n \in Ncchs, NEW base \in Nat, NEW given
  PROVE  LET t == DecryptExefs7x(n, base)
             pos == base + n.exefs_offset
         IN /\ t \in Seq(Steps) /\ Ready(t, given)
            /\ \A a : n.genuine /\ a.pos = pos /\ a.size = n.exefs_hashed
                        => Handles(t, a)
            /\ \A a : (\E i \in 1 .. Len(n.files) :
                         /\ a.pos = pos + HEADER_SIZE + n.files[i].file_off
                         /\ a.size = n.files[i].file_size)
                        => Handles(t, a)
            /\ \A a : a.pos + a.size \in Int /\ a.pos + a.size <= pos => Untouched(t, a)
<1> DEFINE pos == base + n.exefs_offset
           r == << Need("exefs"), Need("exefs7x"), XorWith("exefs", pos, 0, HEADER_SIZE) >>
           s == << ParseExefs(n, pos), Hash(n, pos, n.exefs_hashed), HashFiles(n, pos) >>
           t == << Need("exefs"), Need("exefs7x"), XorWith("exefs", pos, 0, HEADER_SIZE),
                   ParseExefs(n, pos), Hash(n, pos, n.exefs_hashed), HashFiles(n, pos) >>
<1>1. t = DecryptExefs7x(n, base)
  BY DEF DecryptExefs7x
<1>2. /\ pos \in Nat /\ n.exefs_hashed \in Nat /\ HEADER_SIZE \in Int
      /\ "exefs" \in PadArgs /\ "exefs7x" \in PadArgs /\ 0 \in Nat
  BY NcchFields DEF HEADER_SIZE, PadArgs
<1>3. /\ Need("exefs") \in Steps /\ Need("exefs7x") \in Steps
      /\ XorWith("exefs", pos, 0, HEADER_SIZE) \in Steps
      /\ ParseExefs(n, pos) \in Steps /\ Hash(n, pos, n.exefs_hashed) \in Steps
      /\ HashFiles(n, pos) \in Steps
  <2> HIDE DEF pos
  <2> QED
    BY <1>2, StepsMade
<1>4. /\ Need("exefs").kind = "need" /\ Need("exefs7x").kind = "need"
      /\ XorWith("exefs", pos, 0, HEADER_SIZE).kind = "xor"
      /\ XorWith("exefs", pos, 0, HEADER_SIZE).arg = "exefs"
      /\ XorWith("exefs", pos, 0, HEADER_SIZE).file_pos = pos
      /\ ParseExefs(n, pos).kind = "exefs" /\ ParseExefs(n, pos).file_pos = pos
      /\ Hash(n, pos, n.exefs_hashed).kind = "hash"
      /\ Hash(n, pos, n.exefs_hashed).file_pos = pos
      /\ Hash(n, pos, n.exefs_hashed).size = n.exefs_hashed
      /\ HashFiles(n, pos).kind = "files" /\ HashFiles(n, pos).file_pos = pos
      /\ HashFiles(n, pos).files = n.files
  BY DEF Need, XorWith, ParseExefs, Hash, HashFiles
<1>5. Hash(n, pos, n.exefs_hashed).genuine = n.genuine
  BY DEF Hash
<1> DEFINE x == XorWith("exefs", pos, 0, HEADER_SIZE)
           e == ParseExefs(n, pos)
           h == Hash(n, pos, n.exefs_hashed)
           f == HashFiles(n, pos)
           n1 == Need("exefs") n2 == Need("exefs7x")
<1>6. t = << n1, n2, x, e, h, f >>
  OBVIOUS
<1> HIDE DEF x, e, h, f, n1, n2, t
<1>7. t \in Seq(Steps)
  <2>1. n1 \in Steps /\ n2 \in Steps /\ x \in Steps /\ e \in Steps /\ h \in Steps
        /\ f \in Steps
    BY <1>3 DEF x, e, h, f, n1, n2
  <2> QED
    BY <1>6, <2>1
<1>8. /\ Len(t) = 6 /\ t[1] = n1 /\ t[2] = n2 /\ t[3] = x /\ t[4] = e
      /\ t[5] = h /\ t[6] = f
  BY <1>6
<1>9. \A j \in 1 .. 6 : j = 1 \/ j = 2 \/ j = 3 \/ j = 4 \/ j = 5 \/ j = 6
  OBVIOUS
<1>10. Ready(t, given)
  <2>1. /\ Uses(n1) = {} /\ Uses(n2) = {} /\ Uses(x) = {"exefs"}
        /\ Uses(e) = {"exefs", "exefs7x"} /\ Uses(h) = {} /\ Uses(f) = {}
    BY <1>4 DEF Uses, x, e, h, f, n1, n2
  <2>2. ASSUME NEW j \in 1 .. 6, NEW b \in Uses(t[j])
        PROVE  \E i \in 1 .. (j - 1) : t[i] = Need(b)
    <3>1. (j = 3 /\ b = "exefs") \/ (j = 4 /\ b \in {"exefs", "exefs7x"})
      BY <1>8, <1>9, <2>1, <2>2
    <3>2. j = 3 \/ j = 4
      BY <3>1
    <3>3. 1 \in 1 .. (j - 1) /\ 2 \in 1 .. (j - 1)
      BY <3>2
    <3>4. b = "exefs" \/ b = "exefs7x"
      BY <3>1
    <3>5. t[1] = Need("exefs") /\ t[2] = Need("exefs7x")
      BY <1>8 DEF n1, n2
    <3> QED
      BY <3>3, <3>4, <3>5
  <2> QED
    BY <1>8, <2>2 DEF Ready
<1>11. /\ h.kind = "hash" /\ h.file_pos = pos /\ h.size = n.exefs_hashed
       /\ h.genuine = n.genuine
       /\ f.kind = "files" /\ f.file_pos = pos /\ f.files = n.files
       /\ x.file_pos = pos /\ e.file_pos = pos
       /\ n1.kind = "need" /\ n2.kind = "need"
  BY <1>4, <1>5 DEF h, f, x, e, n1, n2
<1> HIDE DEF pos
<1>12. ASSUME NEW a, n.genuine, a.pos = pos, a.size = n.exefs_hashed
       PROVE  Handles(t, a)
  <2>1. Verifies(h, a)
    BY <1>11, <1>12 DEF Verifies
  <2>2. ~Touches(f, a)
    BY <1>11 DEF Touches
  <2>3. \A j \in (5 + 1) .. 6 : j = 6
    OBVIOUS
  <2>4. 5 \in 1 .. 6
    OBVIOUS
  <2> QED
    BY <1>8, <2>1, <2>2, <2>3, <2>4 DEF Handles
<1>13. ASSUME NEW a, NEW i \in 1 .. Len(n.files),
              a.pos = pos + HEADER_SIZE + n.files[i].file_off,
              a.size = n.files[i].file_size
       PROVE  Handles(t, a)
  <2>1. Verifies(f, a)
    BY <1>11, <1>13 DEF Verifies
  <2>2. 6 \in 1 .. 6 /\ (6 + 1) .. 6 = {}
    OBVIOUS
  <2> QED
    BY <1>8, <2>1, <2>2 DEF Handles
<1>14. ASSUME NEW a, a.pos + a.size \in Int, a.pos + a.size <= pos
       PROVE  Untouched(t, a)
  <2>1. ~(pos < a.pos + a.size)
    BY <1>2, <1>14
  <2>2. /\ ~Touches(n1, a) /\ ~Touches(n2, a) /\ ~Touches(x, a)
        /\ ~Touches(e, a) /\ ~Touches(h, a) /\ ~Touches(f, a)
    BY <1>11, <2>1 DEF Touches
  <2> QED
    BY <1>8, <1>9, <2>2 DEF Untouched
<1> QED
  BY <1>1, <1>7, <1>10, <1>12, <1>13, <1>14 DEF pos

(* The RomFS comes last, if there is one.                                  *)
LEMMA RomfsLemma ==
  ASSUME NEW n \in Ncchs, NEW base \in Nat, NEW given
  PROVE  LET t == DecryptRomfs(n, base)
             pos == base + n.romfs_offset
         IN /\ t \in Seq(Steps) /\ Ready(t, given)
            /\ ~n.noromfs /\ ~n.genuine => Doomed(t)
            /\ \A a : ~n.noromfs /\ n.genuine /\ a.pos = pos /\ a.size = n.romfs_hashed
                        => Handles(t, a)
            /\ \A a : n.noromfs => Untouched(t, a)
            /\ \A a : a.pos + a.size \in Int /\ a.pos + a.size <= pos => Untouched(t, a)
<1> DEFINE t == DecryptRomfs(n, base) pos == base + n.romfs_offset
<1>1. CASE n.noromfs
  <2> DEFINE x == Refuse("romfs")
  <2>1. t = << x >> /\ x \in Steps /\ x.kind = "refuse"
    <3>1. "romfs" \in PadArgs /\ 0 \in Nat /\ 0 \in Int
      BY DEF PadArgs
    <3>2. x \in Steps
      BY <3>1, StepsMade
    <3> QED
      BY <1>1, <3>2 DEF DecryptRomfs, Refuse
  <2> HIDE DEF x, t
  <2>2. t \in Seq(Steps) /\ Len(t) = 1 /\ t[1] = x
    BY <2>1
  <2>3. Uses(x) = {} /\ \A a : ~Touches(x, a)
    BY <2>1 DEF Uses, Touches
  <2>4. \A j \in 1 .. 1 : j = 1
    OBVIOUS
  <2>5. Ready(t, given)
    BY <2>2, <2>3, <2>4 DEF Ready
  <2>6. \A a : Untouched(t, a)
    BY <2>2, <2>3, <2>4 DEF Untouched
  <2> QED
    BY <1>1, <2>2, <2>5, <2>6 DEF t
<1>2. CASE ~n.noromfs
  <2>1. t = SectionSteps("romfs", n, pos, n.romfs_size, n.romfs_hashed)
    BY <1>2 DEF DecryptRomfs, SectionSteps
  <2>2. /\ "romfs" \in PadArgs /\ pos \in Nat /\ n.romfs_size \in Nat
        /\ n.romfs_hashed \in Nat
    BY NcchFields DEF PadArgs
  <2> HIDE DEF t, pos
  <2>3. /\ t \in Seq(Steps) /\ Ready(t, given)
        /\ ~n.genuine => Doomed(t)
        /\ \A a : n.genuine /\ a.pos = pos /\ a.size = n.romfs_hashed => Handles(t, a)
        /\ \A a : a.pos + a.size \in Int /\ a.pos + a.size <= pos => Untouched(t, a)
    BY <2>1, <2>2, SectionLemma
  <2> QED
    BY <1>2, <2>3 DEF t, pos
<1> QED
  BY <1>1, <1>2

(* A CFA refuses the pads of the sections it has not got.                  *)
Refusals == << Refuse("exheader"), Refuse("exefs"), Refuse("exefs7x") >>

(* A refusal takes no pad.                                                 *)
LEMMA RefusalsLemma ==
  ASSUME NEW given
  PROVE  Refusals \in Seq(Steps) /\ Ready(Refusals, given)
<1> DEFINE x == Refuse("exheader") y == Refuse("exefs") z == Refuse("exefs7x")
<1>1. x \in Steps /\ y \in Steps /\ z \in Steps
  BY DEF Refuse, Steps, PadArgs
<1>2. Uses(x) = {} /\ Uses(y) = {} /\ Uses(z) = {}
  BY DEF Refuse, Uses
<1> DEFINE t == <<x, y, z>>
<1>3. t = Refusals
  BY DEF Refusals
<1> HIDE DEF x, y, z
<1>4. t \in Seq(Steps) /\ Len(t) = 3 /\ t[1] = x /\ t[2] = y /\ t[3] = z
  BY <1>1, ThreeSteps
<1> HIDE DEF t
<1>5. \A j \in 1 .. 3 : j = 1 \/ j = 2 \/ j = 3
  OBVIOUS
<1>6. Ready(t, given)
  BY <1>2, <1>4, <1>5 DEF Ready
<1> QED
  BY <1>3, <1>4, <1>6

(* The ExeFS of either kind.                                               *)
Exefs(n, base) ==
  IF n.extra_keyslot THEN DecryptExefs7x(n, base) ELSE DecryptExefs(n, base)

(* Its steps, of which the last verifies the last of its files.            *)
LEMMA ExefsLemma ==
  ASSUME NEW n \in Ncchs, NEW base \in Nat, NEW given
  PROVE  LET t == Exefs(n, base)
             pos == base + n.exefs_offset
         IN /\ t \in Seq(Steps) /\ Ready(t, given)
            /\ \A a : n.genuine /\ a.pos = pos /\ a.size = n.exefs_hashed
                        => Handles(t, a)
            /\ \A a : (n.extra_keyslot
                       /\ \E i \in 1 .. Len(n.files) :
                            /\ a.pos = pos + HEADER_SIZE + n.files[i].file_off
                            /\ a.size = n.files[i].file_size)
                        => Handles(t, a)
            /\ \A a : a.pos + a.size \in Int /\ a.pos + a.size <= pos => Untouched(t, a)
<1> DEFINE t == Exefs(n, base) pos == base + n.exefs_offset
<1>1. CASE n.extra_keyslot
  <2>1. t = DecryptExefs7x(n, base)
    BY <1>1 DEF Exefs
  <2> QED
    BY <1>1, <2>1, Exefs7xLemma
<1>2. CASE ~n.extra_keyslot
  <2>1. t = SectionSteps("exefs", n, pos, n.exefs_size, n.exefs_hashed)
    BY <1>2 DEF Exefs, DecryptExefs, SectionSteps
  <2>2. /\ "exefs" \in PadArgs /\ pos \in Nat /\ n.exefs_size \in Nat
        /\ n.exefs_hashed \in Nat
    BY NcchFields DEF PadArgs
  <2> HIDE DEF t, pos
  <2>3. /\ t \in Seq(Steps) /\ Ready(t, given)
        /\ \A a : n.genuine /\ a.pos = pos /\ a.size = n.exefs_hashed => Handles(t, a)
        /\ \A a : a.pos + a.size \in Int /\ a.pos + a.size <= pos => Untouched(t, a)
    BY <2>1, <2>2, SectionLemma
  <2> QED
    BY <1>2, <2>3 DEF t, pos
<1> QED
  BY <1>1, <1>2

(* A plan is joined from those parts.                                      *)
LEMMA PlanParts ==
  ASSUME NEW n, NEW base
  PROVE  Plan(n, base) = IF IsCfa(n) THEN Join(Refusals, DecryptRomfs(n, base))
                         ELSE Join(Join(DecryptExheader(n, base), Exefs(n, base)),
                                   DecryptRomfs(n, base))
BY DEF Plan, Join, Refusals, Exefs

(* The exheader comes first.                                               *)
LEMMA ExheaderLemma ==
  ASSUME NEW n \in Ncchs, NEW base \in Nat, NEW given
  PROVE  LET t == DecryptExheader(n, base)
         IN /\ t \in Seq(Steps) /\ Ready(t, given)
            /\ ~n.genuine => Doomed(t)
            /\ \A a : n.genuine /\ a.pos = base + HEADER_SIZE /\ a.size = EXHEADER_HASHED
                        => Handles(t, a)
<1> DEFINE t == DecryptExheader(n, base) pos == base + HEADER_SIZE
<1>1. t = SectionSteps("exheader", n, pos, EXHEADER_SIZE, EXHEADER_HASHED)
  BY DEF DecryptExheader, SectionSteps
<1>2. /\ "exheader" \in PadArgs /\ pos \in Nat /\ EXHEADER_SIZE \in Nat
      /\ EXHEADER_HASHED \in Nat
  BY ExheaderAssumption DEF PadArgs, HEADER_SIZE
<1> HIDE DEF t, pos
<1>3. /\ t \in Seq(Steps) /\ Ready(t, given)
      /\ ~n.genuine => Doomed(t)
      /\ \A a : n.genuine /\ a.pos = pos /\ a.size = EXHEADER_HASHED => Handles(t, a)
  BY <1>1, <1>2, SectionLemma
<1> QED
  BY <1>3 DEF t, pos

(* Every plan is a list of steps in which each pad is asked for before it  *)
(* is used.                                                                *)
LEMMA PlanIsReady ==
  ASSUME NEW n \in Ncchs, NEW base \in Nat, NEW given
  PROVE  Plan(n, base) \in Seq(Steps) /\ Ready(Plan(n, base), given)
<1> DEFINE r == Refusals h == DecryptExheader(n, base) e == Exefs(n, base)
           f == DecryptRomfs(n, base)
<1>1. /\ r \in Seq(Steps) /\ h \in Seq(Steps) /\ e \in Seq(Steps) /\ f \in Seq(Steps)
      /\ Ready(r, given) /\ Ready(h, given) /\ Ready(e, given) /\ Ready(f, given)
  BY RefusalsLemma, ExheaderLemma, ExefsLemma, RomfsLemma
<1>2. Plan(n, base) = IF IsCfa(n) THEN Join(r, f) ELSE Join(Join(h, e), f)
  BY PlanParts
<1> HIDE DEF r, h, e, f
<1>3. Join(r, f) \in Seq(Steps) /\ Ready(Join(r, f), given)
  BY <1>1, JoinSteps, JoinReady
<1>4. Join(h, e) \in Seq(Steps) /\ Ready(Join(h, e), given)
  BY <1>1, JoinSteps, JoinReady
<1>5. Join(Join(h, e), f) \in Seq(Steps) /\ Ready(Join(Join(h, e), f), given)
  BY <1>1, <1>4, JoinSteps, JoinReady
<1> QED
  BY <1>2, <1>3, <1>5

(* The plan from a header that is not the image's fails, unless it plans   *)
(* nothing at all.                                                         *)
LEMMA PlanIsDoomed ==
  ASSUME NEW n \in Ncchs, NEW base \in Nat, ~n.genuine, ~(IsCfa(n) /\ n.noromfs)
  PROVE  Doomed(Plan(n, base))
<1> DEFINE r == Refusals h == DecryptExheader(n, base) e == Exefs(n, base)
           f == DecryptRomfs(n, base)
<1>1. /\ r \in Seq(Steps) /\ h \in Seq(Steps) /\ e \in Seq(Steps) /\ f \in Seq(Steps)
      /\ Doomed(h) /\ (~n.noromfs => Doomed(f))
  BY RefusalsLemma, ExheaderLemma, ExefsLemma, RomfsLemma
<1>2. Plan(n, base) = IF IsCfa(n) THEN Join(r, f) ELSE Join(Join(h, e), f)
  BY PlanParts
<1> HIDE DEF r, h, e, f
<1>3. Join(h, e) \in Seq(Steps)
  BY <1>1, JoinSteps
<1>4. Doomed(Join(h, e)) /\ (Doomed(f) => Doomed(Join(r, f)))
  BY <1>1, JoinUntouched
<1>5. Doomed(Join(Join(h, e), f))
  BY <1>1, <1>3, <1>4, JoinUntouched
<1> QED
  BY <1>1, <1>2, <1>4, <1>5

(* What the hashes cover of a CXI, in terms of its header.                 *)
LEMMA HashedAreas ==
  ASSUME NEW p, NEW a \in Hashed(p)
  PROVE  \/ /\ ~IsCfa(p.ncch)
            /\ a.pos = p.base + HEADER_SIZE /\ a.size = EXHEADER_HASHED
         \/ /\ ~IsCfa(p.ncch)
            /\ a.pos = p.base + p.ncch.exefs_offset /\ a.size = p.ncch.exefs_hashed
         \/ /\ ~IsCfa(p.ncch) /\ p.ncch.extra_keyslot
            /\ \E i \in DOMAIN p.ncch.files :
                 /\ a.pos = p.base + (p.ncch.exefs_offset + HEADER_SIZE
                                        + p.ncch.files[i].file_off)
                 /\ a.size = p.ncch.files[i].file_size
         \/ /\ ~p.ncch.noromfs
            /\ a.pos = p.base + p.ncch.romfs_offset /\ a.size = p.ncch.romfs_hashed
<1>1. CASE ~IsCfa(p.ncch) /\ a \in { Area(p, HEADER_SIZE, EXHEADER_HASHED),
                                     Area(p, p.ncch.exefs_offset, p.ncch.exefs_hashed) }
  BY <1>1 DEF Area
<1>2. CASE ~IsCfa(p.ncch) /\ p.ncch.extra_keyslot /\ a \in HashedFiles(p)
  <2>1. PICK file \in { p.ncch.files[i] : i \in DOMAIN p.ncch.files } :
          a = Area(p, p.ncch.exefs_offset + HEADER_SIZE + file.file_off, file.file_size)
    BY <1>2 DEF HashedFiles
  <2>2. PICK i \in DOMAIN p.ncch.files : file = p.ncch.files[i]
    BY <2>1
  <2> QED
    BY <1>2, <2>1, <2>2 DEF Area
<1>3. CASE ~p.ncch.noromfs /\ a = Area(p, p.ncch.romfs_offset, p.ncch.romfs_hashed)
  BY <1>3 DEF Area
<1> QED
  BY <1>1, <1>2, <1>3 DEF Hashed

(* A file of the ExeFS ends in it.                                         *)
LEMMA FilePlace ==
  ASSUME NEW base \in Nat, NEW pos \in Nat, NEW head \in Nat, NEW off \in Nat,
         NEW size \in Nat, NEW total \in Nat, head + off + size <= total
  PROVE  /\ base + (pos + head + off) \in Nat
         /\ (base + (pos + head + off)) + size \in Int
         /\ (base + (pos + head + off)) + size <= base + pos + total
         /\ base + (pos + head + off) = (base + pos) + head + off
OBVIOUS

(* A plan from the image's own header verifies whatever the hashes cover,  *)
(* and writes to none of it afterwards.                                    *)
LEMMA PlanVerifies ==
  ASSUME NEW p, p.ncch \in Ncchs, p.base \in Nat, p.ncch.genuine,
         ~IsCfa(p.ncch) => LaidOut(p.ncch),
         NEW a \in Hashed(p)
  PROVE  a.pos \in Nat /\ a.size \in Nat /\ Handles(Plan(p.ncch, p.base), a)
<1> DEFINE n == p.ncch base == p.base
           r == Refusals h == DecryptExheader(n, base) e == Exefs(n, base)
           f == DecryptRomfs(n, base) end == a.pos + a.size
<1>0. n \in Ncchs /\ base \in Nat /\ n.genuine /\ (~IsCfa(n) => LaidOut(n))
  OBVIOUS
<1>1. Plan(n, base) = IF IsCfa(n) THEN Join(r, f) ELSE Join(Join(h, e), f)
  BY PlanParts
<1>2. /\ r \in Seq(Steps) /\ h \in Seq(Steps) /\ e \in Seq(Steps) /\ f \in Seq(Steps)
      /\ Join(h, e) \in Seq(Steps)
  BY <1>0, RefusalsLemma, ExheaderLemma, ExefsLemma, RomfsLemma, JoinSteps
<1>3. /\ n.exefs_offset \in Nat /\ n.exefs_size \in Nat /\ n.exefs_hashed \in Nat
      /\ n.romfs_offset \in Nat /\ n.romfs_hashed \in Nat /\ n.files \in ExefsFiles
      /\ EXHEADER_SIZE \in Nat /\ EXHEADER_HASHED \in Nat
      /\ EXHEADER_HASHED <= EXHEADER_SIZE /\ HEADER_SIZE \in Nat
  BY <1>0, NcchFields, ExheaderAssumption DEF HEADER_SIZE
<1>4. \A i \in DOMAIN n.files :
        /\ n.files[i].file_off \in Nat /\ n.files[i].file_size \in Nat
        /\ i \in 1 .. Len(n.files)
  <2>1. DOMAIN n.files = 1 .. Len(n.files)
    BY <1>3 DEF ExefsFiles
  <2> QED
    BY <1>3, <2>1, FileFields
<1>5. ASSUME Handles(f, a)
      PROVE  Handles(Plan(n, base), a)
  BY <1>1, <1>2, <1>5, JoinUntouched
<1>6. ASSUME ~IsCfa(n), end \in Int, end <= base + n.exefs_offset + n.exefs_size,
             (Handles(h, a) /\ end <= base + n.exefs_offset) \/ Handles(e, a)
      PROVE  Handles(Plan(n, base), a)
  <2>1. Handles(Join(h, e), a)
    <3>1. CASE Handles(e, a)
      BY <1>2, <3>1, JoinUntouched
    <3>2. CASE Handles(h, a) /\ end <= base + n.exefs_offset
      <4>1. Untouched(e, a)
        BY <1>0, <1>6, <3>2, ExefsLemma
      <4> QED
        BY <1>2, <3>2, <4>1, JoinUntouched
    <3> QED
      BY <1>6, <3>1, <3>2
  <2>2. Untouched(f, a)
    <3>1. CASE n.noromfs
      BY <1>0, <3>1, RomfsLemma
    <3>2. CASE ~n.noromfs
      <4>1. n.exefs_offset + n.exefs_size <= n.romfs_offset
        BY <1>0, <1>6, <3>2 DEF LaidOut
      <4>2. end <= base + n.romfs_offset
        BY <1>0, <1>3, <1>6, <4>1
      <4> QED
        BY <1>0, <1>6, <4>2, RomfsLemma
    <3> QED
      BY <3>1, <3>2
  <2> QED
    BY <1>1, <1>2, <1>6, <2>1, <2>2, JoinUntouched
<1>7. CASE ~IsCfa(n) /\ a.pos = base + HEADER_SIZE /\ a.size = EXHEADER_HASHED
  <2>1. Handles(h, a)
    BY <1>0, <1>7, ExheaderLemma
  <2>2. HEADER_SIZE + EXHEADER_SIZE <= n.exefs_offset
    BY <1>0, <1>7 DEF LaidOut
  <2>3. /\ a.pos \in Nat /\ a.size \in Nat /\ end \in Int
        /\ end <= base + n.exefs_offset /\ end <= base + n.exefs_offset + n.exefs_size
    BY <1>0, <1>3, <1>7, <2>2
  <2> QED
    BY <1>6, <1>7, <2>1, <2>3
<1>8. CASE ~IsCfa(n) /\ a.pos = base + n.exefs_offset /\ a.size = n.exefs_hashed
  <2>1. Handles(e, a)
    BY <1>0, <1>8, ExefsLemma
  <2>2. n.exefs_hashed <= n.exefs_size
    BY <1>0, <1>8 DEF LaidOut
  <2>3. /\ a.pos \in Nat /\ a.size \in Nat /\ end \in Int
        /\ end <= base + n.exefs_offset + n.exefs_size
    BY <1>0, <1>3, <1>8, <2>2
  <2> QED
    BY <1>6, <1>8, <2>1, <2>3
<1>9. CASE /\ ~IsCfa(n) /\ n.extra_keyslot
           /\ \E i \in DOMAIN n.files :
                /\ a.pos = base + (n.exefs_offset + HEADER_SIZE + n.files[i].file_off)
                /\ a.size = n.files[i].file_size
  <2>1. PICK i \in DOMAIN n.files :
               /\ a.pos = base + (n.exefs_offset + HEADER_SIZE + n.files[i].file_off)
               /\ a.size = n.files[i].file_size
    BY <1>9
  <2> DEFINE off == n.files[i].file_off size == n.files[i].file_size
  <2>2. i \in 1 .. Len(n.files) /\ off \in Nat /\ size \in Nat
    BY <1>4
  <2>3. HEADER_SIZE + off + size <= n.exefs_size
    BY <1>0, <1>9, <2>1 DEF LaidOut, FileEnd
  <2>4. a.pos = base + (n.exefs_offset + HEADER_SIZE + off) /\ a.size = size
    BY <2>1
  <2> HIDE DEF off, size
  <2>5. /\ a.pos \in Nat /\ a.size \in Nat /\ end \in Int
        /\ end <= base + n.exefs_offset + n.exefs_size
        /\ a.pos = (base + n.exefs_offset) + HEADER_SIZE + off
    <3>1. n.exefs_offset \in Nat /\ n.exefs_size \in Nat /\ HEADER_SIZE \in Nat /\ base \in Nat
      BY <1>0, <1>3
    <3> DEFINE b == base o == n.exefs_offset t == n.exefs_size
    <3>2. b \in Nat /\ o \in Nat /\ t \in Nat /\ HEADER_SIZE + off + size <= t
      BY <2>3, <3>1
    <3>3. a.pos = b + (o + HEADER_SIZE + off) /\ a.size = size
      BY <2>4
    <3> HIDE DEF b, o, t
    <3>4. /\ b + (o + HEADER_SIZE + off) \in Nat
          /\ (b + (o + HEADER_SIZE + off)) + size \in Int
          /\ (b + (o + HEADER_SIZE + off)) + size <= b + o + t
          /\ b + (o + HEADER_SIZE + off) = (b + o) + HEADER_SIZE + off
      BY <2>2, <3>1, <3>2, FilePlace
    <3>5. /\ a.pos \in Nat /\ a.size \in Nat /\ a.pos + a.size \in Int
          /\ a.pos + a.size <= b + o + t /\ a.pos = (b + o) + HEADER_SIZE + off
      BY <2>2, <3>3, <3>4
    <3> QED
      BY <3>5 DEF b, o, t
  <2>6. Handles(e, a)
    BY <1>0, <1>9, <2>2, <2>4, <2>5, ExefsLemma DEF off, size
  <2> QED
    BY <1>6, <1>9, <2>5, <2>6
<1>10. CASE ~n.noromfs /\ a.pos = base + n.romfs_offset /\ a.size = n.romfs_hashed
  <2>1. Handles(f, a)
    BY <1>0, <1>10, RomfsLemma
  <2>2. a.pos \in Nat /\ a.size \in Nat
    BY <1>0, <1>3, <1>10
  <2> QED
    BY <1>5, <2>1, <2>2
<1> QED
  BY <1>7, <1>8, <1>9, <1>10, HashedAreas

(* The regions around .code are steps that need nothing else, and none of  *)
(* them starts before the ExeFS.                                           *)
LEMMA CodeRegionsLemma ==
  ASSUME NEW n \in Ncchs, NEW pos \in Nat, NEW given,
         {"exefs", "exefs7x"} \subseteq given
  PROVE  LET t == CodeRegions(n, pos)
         IN /\ t \in Seq(Steps) /\ Ready(t, given)
            /\ \A a : a.pos + a.size \in Int /\ a.pos + a.size <= pos => Untouched(t, a)
<1> DEFINE off == n.code.file_off
           size == n.code.file_size
           start == HEADER_SIZE + off
           end == start + size
           rest == n.exefs_size - (end % U32_MOD)
           x == XorWith("exefs", pos + HEADER_SIZE, HEADER_SIZE, off)
           y == XorWith("exefs7x", pos + start, start, size)
           z == XorWith("exefs", pos + end, end, rest)
           t == <<x, y, z>>
<1>1. t = CodeRegions(n, pos)
  BY DEF CodeRegions
<1>2. off \in Nat /\ size \in Nat /\ n.exefs_size \in Nat
  BY NcchFields
<1> HIDE DEF off, size
<1>3. start \in Nat /\ end \in Nat /\ HEADER_SIZE \in Nat
  BY <1>2 DEF HEADER_SIZE
<1>4. rest \in Int
  BY <1>2, <1>3, U32Assumption
<1>5. /\ pos + HEADER_SIZE \in Nat /\ pos + start \in Nat /\ pos + end \in Nat
      /\ pos <= pos + HEADER_SIZE /\ pos <= pos + start /\ pos <= pos + end
  BY <1>3
<1> HIDE DEF start, end, rest
<1>6. /\ x \in Steps /\ y \in Steps /\ z \in Steps
      /\ "exefs" \in PadArgs /\ "exefs7x" \in PadArgs
  BY <1>2, <1>3, <1>4, <1>5, StepsMade DEF XorWith, Steps, PadArgs
<1>7. /\ x.kind = "xor" /\ x.arg = "exefs" /\ x.file_pos = pos + HEADER_SIZE
      /\ y.kind = "xor" /\ y.arg = "exefs7x" /\ y.file_pos = pos + start
      /\ z.kind = "xor" /\ z.arg = "exefs" /\ z.file_pos = pos + end
  BY DEF XorWith
<1> HIDE DEF x, y, z
<1>8. t \in Seq(Steps) /\ Len(t) = 3 /\ t[1] = x /\ t[2] = y /\ t[3] = z
  BY <1>6, ThreeSteps
<1> HIDE DEF t
<1>9. \A j \in 1 .. 3 : j = 1 \/ j = 2 \/ j = 3
  OBVIOUS
<1>10. Ready(t, given)
  <2>1. Uses(x) = {"exefs"} /\ Uses(y) = {"exefs7x"} /\ Uses(z) = {"exefs"}
    BY <1>7 DEF Uses
  <2>2. \A j \in 1 .. 3 : Uses(t[j]) \subseteq given
    BY <1>8, <1>9, <2>1
  <2> QED
    BY <1>8, <2>2 DEF Ready
<1>11. ASSUME NEW a, a.pos + a.size \in Int, a.pos + a.size <= pos
       PROVE  Untouched(t, a)
  <2>1. ~Touches(x, a) /\ ~Touches(y, a) /\ ~Touches(z, a)
    BY <1>5, <1>7, <1>11 DEF Touches
  <2> QED
    BY <1>8, <1>9, <2>1 DEF Untouched
<1> QED
  BY <1>1, <1>8, <1>10, <1>11

-----------------------------------------------------------------------------
(* What a clean run does with a partition: its steps are the partition's   *)
(* own, and they go through it from its beginning to its end.              *)

(* A partition as the program can take it apart.                           *)
Sized(p) ==
  LET n == p.ncch
  IN /\ n \in Ncchs /\ p.base \in Nat /\ n.genuine
     /\ ~IsCfa(n) => LaidOut(n)
     /\ n.romfs_hashed <= n.romfs_size
     /\ n.extra_keyslot /\ ~IsCfa(n) => n.has_code /\ n.exefs_size < U32_MOD

(* The arguments that are asked for, and those that are refused.           *)
Wanted(n) == (IF IsCfa(n) THEN {} ELSE {"exheader", "exefs"})
               \union (IF ~IsCfa(n) /\ n.extra_keyslot THEN {"exefs7x"} ELSE {})
               \union (IF n.noromfs THEN {} ELSE {"romfs"})

Unwanted(n) == (IF IsCfa(n) THEN {"exheader", "exefs", "exefs7x"} ELSE {})
                 \union (IF n.noromfs THEN {"romfs"} ELSE {})

(* A step that is about p and nothing else.                                *)
AtExefs(s, p) == /\ ~IsCfa(p.ncch) /\ p.ncch.extra_keyslot
                 /\ s.file_pos = p.base + p.ncch.exefs_offset

Belongs(s, p) ==
  /\ s.kind = "need" => s.arg \in Wanted(p.ncch)
  /\ s.kind = "refuse" => s.arg \in Unwanted(p.ncch)
  /\ s.kind = "xor" => s \in Calls(p)
  /\ s.kind = "hash" => /\ s.genuine = p.ncch.genuine
                        /\ [pos |-> s.file_pos, size |-> s.size] \in Hashed(p)
  /\ s.kind = "exefs" => AtExefs(s, p) /\ s.ncch = p.ncch
  /\ s.kind = "files" => AtExefs(s, p) /\ s.files = p.ncch.files

Proper(t, p) == \A j \in 1 .. Len(t) : Belongs(t[j], p)

(* What a step is still to decrypt, itself or by the steps it plans.       *)
Covers(s, u) ==
  \/ s.kind = "xor" /\ u \in Units(s)
  \/ /\ s.kind = "exefs"
     /\ s.file_pos + HEADER_SIZE < u /\ u <= s.file_pos + s.ncch.exefs_size

Covered(t, u) == \E j \in 1 .. Len(t) : Covers(t[j], u)

(* Where a step begins to write, and how far it looks or writes.           *)
Writes(s) == s.kind \in {"xor", "exefs"}
Start(s) == IF s.kind = "xor" THEN s.file_pos ELSE s.file_pos + HEADER_SIZE

EndsBy(s, x) ==
  /\ s.kind \in {"xor", "hash"} => s.file_pos + s.size <= x
  /\ s.kind = "exefs" => s.file_pos + s.ncch.exefs_size <= x
  /\ s.kind = "files" =>
       \A i \in 1 .. Len(s.files) :
         s.file_pos + HEADER_SIZE + s.files[i].file_off + s.files[i].file_size <= x

(* No step writes where an earlier one has written or looked.              *)
Ascending(t) ==
  \A j \in 1 .. Len(t) : Writes(t[j]) =>
    \A i \in 1 .. (j - 1) : EndsBy(t[i], Start(t[j]))

(* t does all it does from lo to hi.                                       *)
Between(t, lo, hi) ==
  \A j \in 1 .. Len(t) : EndsBy(t[j], hi) /\ (Writes(t[j]) => lo <= Start(t[j]))

Spans(t, lo, hi) == Ascending(t) /\ Between(t, lo, hi)

(* Places further on.                                                      *)
LEMMA EndsLater ==
  ASSUME NEW s \in Steps, NEW x \in Int, NEW y \in Int, x <= y, EndsBy(s, x)
  PROVE  EndsBy(s, y)
<1>1. IsStep(s)
  BY StepFields
<1>2. CASE s.kind \in {"xor", "hash"}
  <2>1. s.file_pos \in Nat /\ s.size \in Int /\ s.file_pos + s.size <= x
    BY <1>1, <1>2 DEF IsStep, EndsBy
  <2>2. s.file_pos + s.size <= y
    BY <2>1
  <2> QED
    BY <1>2, <2>2 DEF EndsBy
<1>3. CASE s.kind = "exefs"
  <2>1. s.file_pos \in Nat /\ s.ncch.exefs_size \in Nat
        /\ s.file_pos + s.ncch.exefs_size <= x
    BY <1>1, <1>3, NcchFields DEF IsStep, EndsBy
  <2>2. s.file_pos + s.ncch.exefs_size <= y
    BY <2>1
  <2> QED
    BY <1>3, <2>2 DEF EndsBy
<1>4. CASE s.kind = "files"
  <2>1. s.file_pos \in Nat /\ s.files \in ExefsFiles
    BY <1>1, <1>4 DEF IsStep
  <2>2. ASSUME NEW i \in 1 .. Len(s.files)
        PROVE  s.file_pos + HEADER_SIZE + s.files[i].file_off + s.files[i].file_size <= y
    <3> DEFINE off == s.files[i].file_off size == s.files[i].file_size
               e == s.file_pos + HEADER_SIZE + off + size
    <3>1. off \in Nat /\ size \in Nat
      BY <2>1, FileFields
    <3>2. e <= x
      BY <1>4 DEF EndsBy
    <3> HIDE DEF off, size
    <3>3. e \in Int
      BY <2>1, <3>1 DEF HEADER_SIZE
    <3> HIDE DEF e
    <3>4. e <= y
      BY <3>2, <3>3
    <3> QED
      BY <3>4 DEF e, off, size
  <2> QED
    BY <1>4, <2>2 DEF EndsBy
<1>5. CASE s.kind \in {"need", "refuse"}
  BY <1>5 DEF EndsBy
<1> QED
  BY <1>1, <1>2, <1>3, <1>4, <1>5 DEF IsStep

(* Joined lists: whose steps they are of, and what they cover.             *)
LEMMA JoinProper ==
  ASSUME NEW r \in Seq(Steps), NEW t \in Seq(Steps)
  PROVE  /\ \A p : Proper(r, p) /\ Proper(t, p) => Proper(Join(r, t), p)
         /\ \A u : Covered(Join(r, t), u) <=> Covered(r, u) \/ Covered(t, u)
<1> DEFINE v == Join(r, t) m == Len(r) n == Len(t)
<1>1. /\ Len(v) = m + n /\ m \in Nat /\ n \in Nat
      /\ \A i \in 1 .. m : v[i] = r[i]
      /\ \A i \in 1 .. n : v[m + i] = t[i]
  BY JoinSteps
<1> HIDE DEF v
<1>2. ASSUME NEW j \in 1 .. (m + n)
      PROVE  (j \in 1 .. m /\ v[j] = r[j]) \/ (j - m \in 1 .. n /\ v[j] = t[j - m])
  <2>1. CASE j \in 1 .. m
    BY <1>1, <2>1
  <2>2. CASE j \notin 1 .. m
    <3>1. j - m \in 1 .. n /\ m + (j - m) = j
      BY <1>1, <2>2
    <3> QED
      BY <1>1, <3>1
  <2> QED
    BY <2>1, <2>2
<1>3. ASSUME NEW p, Proper(r, p), Proper(t, p)
      PROVE  Proper(v, p)
  BY <1>1, <1>2, <1>3 DEF Proper
<1>4. ASSUME NEW u
      PROVE  Covered(v, u) <=> Covered(r, u) \/ Covered(t, u)
  <2>1. \A i \in 1 .. m : i \in 1 .. (m + n)
    BY <1>1
  <2>2. \A i \in 1 .. n : m + i \in 1 .. (m + n)
    BY <1>1
  <2>3. Covered(v, u) => Covered(r, u) \/ Covered(t, u)
    BY <1>1, <1>2 DEF Covered
  <2>4. Covered(r, u) => Covered(v, u)
    BY <1>1, <2>1 DEF Covered
  <2>5. Covered(t, u) => Covered(v, u)
    <3> SUFFICES ASSUME NEW i \in 1 .. n, Covers(t[i], u)
                 PROVE  Covered(v, u)
      BY DEF Covered
    <3>1. m + i \in 1 .. Len(v) /\ Covers(v[m + i], u)
      BY <1>1, <2>2
    <3> QED
      BY <3>1 DEF Covered
  <2> QED
    BY <2>3, <2>4, <2>5
<1> QED
  BY <1>3, <1>4 DEF v

(* Every step of t writes only past x.                                     *)
StartsPast(t, x) == \A j \in 1 .. Len(t) : Writes(t[j]) => x <= Start(t[j])

(* A step that writes, and what it covers.                                 *)
LEMMA CoversPastStart ==
  ASSUME NEW s \in Steps
  PROVE  /\ Writes(s) => Start(s) \in Int
         /\ \A u : Covers(s, u) => Writes(s) /\ Start(s) < u
<1>1. CASE s.kind = "xor"
  <2>1. s.file_pos \in Nat /\ s.size \in Int
    BY <1>1, StepFields DEF IsStep
  <2>2. Start(s) \in Int
    BY <1>1, <2>1 DEF Start
  <2>3. \A u : Covers(s, u) => Start(s) < u
    BY <1>1, <2>1 DEF Covers, Start, Units
  <2> QED
    BY <1>1, <2>2, <2>3 DEF Writes
<1>2. CASE s.kind = "exefs"
  <2>1. s.file_pos \in Nat
    BY <1>2, StepFields DEF IsStep
  <2>2. Start(s) \in Int
    BY <1>2, <2>1 DEF Start, HEADER_SIZE
  <2>3. \A u : Covers(s, u) => Start(s) < u
    BY <1>2 DEF Covers, Start
  <2> QED
    BY <1>2, <2>2, <2>3 DEF Writes
<1> QED
  BY <1>1, <1>2 DEF Writes, Covers

(* What lies before all a list writes is not covered by it.                *)
LEMMA NotCovered ==
  ASSUME NEW t \in Seq(Steps), NEW x \in Int, StartsPast(t, x),
         NEW u \in Int, u <= x
  PROVE  ~Covered(t, u)
<1> SUFFICES ASSUME NEW j \in 1 .. Len(t), Covers(t[j], u)
             PROVE  FALSE
  BY DEF Covered
<1> DEFINE y == Start(t[j])
<1>1. t[j] \in Steps
  OBVIOUS
<1>2. y \in Int /\ y < u /\ x <= y
  BY <1>1, CoversPastStart DEF StartsPast
<1> HIDE DEF y
<1> QED
  BY <1>2

(* One list after another.                                                 *)
LEMMA JoinAscends ==
  ASSUME NEW r \in Seq(Steps), NEW t \in Seq(Steps), NEW mid \in Int,
         Ascending(r), \A i \in 1 .. Len(r) : EndsBy(r[i], mid),
         Ascending(t), StartsPast(t, mid)
  PROVE  Ascending(Join(r, t))
<1> DEFINE v == Join(r, t) m == Len(r) n == Len(t)
<1>1. /\ Len(v) = m + n /\ m \in Nat /\ n \in Nat
      /\ \A i \in 1 .. m : v[i] = r[i]
      /\ \A i \in 1 .. n : v[m + i] = t[i]
  BY JoinSteps
<1> HIDE DEF v
<1>2. ASSUME NEW j \in 1 .. (m + n), ~(j \in 1 .. m)
      PROVE  j - m \in 1 .. n /\ v[j] = t[j - m]
  <2>1. j - m \in 1 .. n /\ m + (j - m) = j
    BY <1>1, <1>2
  <2> QED
    BY <1>1, <2>1
<1> SUFFICES ASSUME NEW j \in 1 .. (m + n), Writes(v[j]), NEW i \in 1 .. (j - 1)
             PROVE  EndsBy(v[i], Start(v[j]))
  BY <1>1 DEF Ascending, v
<1>3. CASE j \in 1 .. m
  <2>1. i \in 1 .. m
    BY <1>1, <1>3
  <2> QED
    BY <1>1, <1>3, <2>1 DEF Ascending
<1>4. CASE ~(j \in 1 .. m)
  <2>1. j - m \in 1 .. n /\ v[j] = t[j - m]
    BY <1>2, <1>4
  <2> DEFINE k == j - m x == Start(v[j])
  <2>2. x \in Int /\ mid <= x
    <3>1. t[k] \in Steps /\ v[j] = t[k]
      BY <2>1
    <3> QED
      BY <2>1, <3>1, CoversPastStart DEF StartsPast
  <2>3. CASE i \in 1 .. m
    <3>1. r[i] \in Steps /\ EndsBy(r[i], mid) /\ v[i] = r[i]
      BY <1>1, <2>3
    <3> HIDE DEF x
    <3>2. EndsBy(r[i], x)
      BY <2>2, <3>1, EndsLater
    <3> QED
      BY <3>1, <3>2 DEF x
  <2>4. CASE ~(i \in 1 .. m)
    <3>1. i \in 1 .. (m + n)
      BY <1>1
    <3>2. i - m \in 1 .. n /\ v[i] = t[i - m]
      BY <1>2, <2>4, <3>1
    <3>3. i - m \in 1 .. (k - 1)
      BY <1>1, <2>1, <3>2
    <3>4. \A l \in 1 .. (k - 1) : EndsBy(t[l], Start(t[k]))
      BY <2>1 DEF Ascending
    <3> QED
      BY <2>1, <3>2, <3>3, <3>4
  <2> QED
    BY <2>3, <2>4
<1> QED
  BY <1>3, <1>4

(* ... in the place where it is.                                           *)
LEMMA JoinSpans ==
  ASSUME NEW r \in Seq(Steps), NEW t \in Seq(Steps),
         NEW lo \in Int, NEW mid \in Int, NEW low \in Int, NEW hi \in Int,
         Spans(r, lo, mid), Spans(t, low, hi), lo <= low, mid <= low, mid <= hi
  PROVE  Spans(Join(r, t), lo, hi)
<1> DEFINE v == Join(r, t) m == Len(r) n == Len(t)
<1>1. /\ Len(v) = m + n /\ m \in Nat /\ n \in Nat
      /\ \A i \in 1 .. m : v[i] = r[i]
      /\ \A i \in 1 .. n : v[m + i] = t[i]
  BY JoinSteps
<1>2. /\ \A i \in 1 .. m : r[i] \in Steps /\ EndsBy(r[i], mid)
                          /\ (Writes(r[i]) => lo <= Start(r[i]))
      /\ \A i \in 1 .. n : t[i] \in Steps /\ EndsBy(t[i], hi)
                          /\ (Writes(t[i]) => low <= Start(t[i]))
  BY DEF Spans, Between
<1>3. ASSUME NEW i \in 1 .. n, Writes(t[i])
      PROVE  mid <= Start(t[i]) /\ lo <= Start(t[i])
  <2> DEFINE x == Start(t[i])
  <2>1. x \in Int /\ low <= x
    BY <1>2, <1>3, CoversPastStart
  <2> HIDE DEF x
  <2>2. mid <= x /\ lo <= x
    BY <2>1
  <2> QED
    BY <2>2 DEF x
<1>4. Ascending(v)
  BY <1>2, <1>3, JoinAscends DEF Spans, StartsPast
<1> HIDE DEF v
<1>5. Between(v, lo, hi)
  <2> SUFFICES ASSUME NEW j \in 1 .. (m + n)
               PROVE  EndsBy(v[j], hi) /\ (Writes(v[j]) => lo <= Start(v[j]))
    BY <1>1 DEF Between
  <2>1. CASE j \in 1 .. m
    BY <1>1, <1>2, <2>1, EndsLater
  <2>2. CASE ~(j \in 1 .. m)
    <3>1. j - m \in 1 .. n /\ m + (j - m) = j
      BY <1>1, <2>2
    <3>2. j - m \in 1 .. n /\ v[j] = t[j - m]
      BY <1>1, <3>1
    <3> QED
      BY <1>2, <1>3, <3>2
  <2> QED
    BY <2>1, <2>2
<1> QED
  BY <1>4, <1>5 DEF Spans, v

(* As the first step is taken.                                             *)
LEMMA TailCourse ==
  ASSUME NEW t \in Seq(Steps), t # <<>>
  PROVE  /\ \A p : Proper(t, p) => Belongs(Head(t), p) /\ Proper(Tail(t), p)
         /\ \A u : Covered(t, u) <=> Covers(Head(t), u) \/ Covered(Tail(t), u)
         /\ Ascending(t) =>
              /\ Ascending(Tail(t))
              /\ \A j \in 1 .. Len(Tail(t)) :
                   Writes(Tail(t)[j]) => EndsBy(Head(t), Start(Tail(t)[j]))
<1> DEFINE h == Head(t) v == Tail(t) n == Len(t)
<1>1. /\ Len(v) = n - 1 /\ n \in Nat \ {0} /\ h = t[1]
      /\ \A i \in 1 .. (n - 1) : v[i] = t[i + 1]
  BY TailSteps
<1> HIDE DEF v
<1>2. ASSUME NEW i \in 1 .. n, i # 1
      PROVE  i - 1 \in 1 .. (n - 1) /\ v[i - 1] = t[i]
  <2>1. i - 1 \in 1 .. (n - 1) /\ (i - 1) + 1 = i
    BY <1>1, <1>2
  <2> QED
    BY <1>1, <2>1
<1>3. \A i \in 1 .. (n - 1) : i + 1 \in 1 .. n /\ i + 1 # 1
  BY <1>1
<1>4. 1 \in 1 .. n
  BY <1>1
<1>5. ASSUME NEW p, Proper(t, p)
      PROVE  Belongs(h, p) /\ Proper(v, p)
  BY <1>1, <1>3, <1>4, <1>5 DEF Proper
<1>6. ASSUME NEW u
      PROVE  Covered(t, u) <=> Covers(h, u) \/ Covered(v, u)
  <2>1. Covered(t, u) => Covers(h, u) \/ Covered(v, u)
    BY <1>1, <1>2 DEF Covered
  <2>2. Covers(h, u) => Covered(t, u)
    BY <1>1, <1>4 DEF Covered
  <2>3. Covered(v, u) => Covered(t, u)
    BY <1>1, <1>3 DEF Covered
  <2> QED
    BY <2>1, <2>2, <2>3
<1>7. ASSUME Ascending(t)
      PROVE  /\ Ascending(v)
             /\ \A j \in 1 .. (n - 1) : Writes(v[j]) => EndsBy(h, Start(v[j]))
  <2>1. ASSUME NEW j \in 1 .. (n - 1), Writes(v[j])
        PROVE  \A i \in 1 .. j : EndsBy(t[i], Start(v[j]))
    <3>1. j + 1 \in 1 .. n /\ (j + 1) - 1 = j /\ v[j] = t[j + 1]
      BY <1>1
    <3> QED
      BY <1>7, <2>1, <3>1 DEF Ascending
  <2>2. ASSUME NEW j \in 1 .. (n - 1), Writes(v[j]), NEW i \in 1 .. (j - 1)
        PROVE  EndsBy(v[i], Start(v[j]))
    <3>1. i \in 1 .. (n - 1) /\ i + 1 \in 1 .. j
      BY <1>1, <2>2
    <3> QED
      BY <1>1, <2>1, <2>2, <3>1
  <2>3. \A j \in 1 .. (n - 1) : 1 \in 1 .. j
    BY <1>1
  <2> QED
    BY <1>1, <2>1, <2>2, <2>3 DEF Ascending
<1> QED
  BY <1>1, <1>5, <1>6, <1>7 DEF v

(* Once a region has been XORed, looked at or both, it is not covered.     *)
LEMMA DoneNotCovered ==
  ASSUME NEW t \in Seq(Steps), t # <<>>, Ascending(t),
         Head(t).kind \in {"xor", "hash"},
         NEW u \in Int, u <= Head(t).file_pos + Head(t).size
  PROVE  ~Covered(Tail(t), u)
<1> DEFINE h == Head(t) v == Tail(t) x == h.file_pos + h.size
<1>1. h \in Steps /\ v \in Seq(Steps)
  BY TailSteps
<1>2. h.file_pos \in Nat /\ h.size \in Int
  BY <1>1, StepFields DEF IsStep
<1>3. x \in Int /\ u <= x
  BY <1>2
<1>4. StartsPast(v, x)
  BY TailCourse DEF StartsPast, EndsBy
<1> HIDE DEF x, v
<1>5. ~Covered(v, u)
  BY <1>1, <1>3, <1>4, NotCovered
<1> QED
  BY <1>5 DEF v

-----------------------------------------------------------------------------
(* The parts of a plan, once more: that they are the partition's own, that *)
(* they go through it in order, and that they leave nothing out.           *)

(* Asking for a pad and refusing one look at nothing.                      *)
LEMMA AskingCourse ==
  ASSUME NEW arg
  PROVE  /\ ~Writes(Need(arg)) /\ ~Writes(Refuse(arg))
         /\ \A x : EndsBy(Need(arg), x) /\ EndsBy(Refuse(arg), x)
         /\ \A p : arg \in Wanted(p.ncch) => Belongs(Need(arg), p)
         /\ \A p : arg \in Unwanted(p.ncch) => Belongs(Refuse(arg), p)
<1> DEFINE x == Need(arg) y == Refuse(arg)
<1>1. x.kind = "need" /\ x.arg = arg /\ y.kind = "refuse" /\ y.arg = arg
  BY DEF Need, Refuse
<1> HIDE DEF x, y
<1> QED
  BY <1>1 DEF Writes, EndsBy, Belongs, x, y

(* A section: one call, and a hash of its beginning.                       *)
LEMMA SectionCourse ==
  ASSUME NEW arg \in PadArgs, NEW n \in Ncchs, NEW pos \in Nat, NEW size \in Nat,
         NEW hashed \in Nat, hashed <= size
  PROVE  LET t == SectionSteps(arg, n, pos, size, hashed)
             c == XorWith(arg, pos, 0, size)
         IN /\ t \in Seq(Steps)
            /\ Spans(t, pos, pos + size)
            /\ \A u \in Units(c) : Covered(t, u)
            /\ \A p : (/\ p.ncch = n /\ arg \in Wanted(n) /\ c \in Calls(p)
                       /\ [pos |-> pos, size |-> hashed] \in Hashed(p))
                         => Proper(t, p)
<1> DEFINE t == SectionSteps(arg, n, pos, size, hashed)
           x == Need(arg) y == XorWith(arg, pos, 0, size) z == Hash(n, pos, hashed)
           hi == pos + size
<1>1. x \in Steps /\ y \in Steps /\ z \in Steps
  BY StepsMade
<1>2. /\ t \in Seq(Steps) /\ Len(t) = 3
      /\ t[1] = x /\ t[2] = y /\ t[3] = z
  BY <1>1, ThreeSteps DEF SectionSteps
<1>3. /\ y.kind = "xor" /\ y.file_pos = pos /\ y.size = size
      /\ z.kind = "hash" /\ z.file_pos = pos /\ z.size = hashed
  BY DEF XorWith, Hash
<1>4. z.genuine = n.genuine
  BY DEF Hash
<1>5. ~Writes(x) /\ (\A e : EndsBy(x, e)) /\ (\A p : arg \in Wanted(p.ncch) => Belongs(x, p))
  BY AskingCourse
<1> HIDE DEF t, x, y, z
<1>6. \A j \in 1 .. 3 : j = 1 \/ j = 2 \/ j = 3
  OBVIOUS
<1>7. hi \in Int /\ pos + hashed <= hi /\ pos + size <= hi
  OBVIOUS
<1> HIDE DEF hi
<1>8. Writes(y) /\ ~Writes(z) /\ Start(y) = pos /\ EndsBy(y, hi) /\ EndsBy(z, hi)
  BY <1>3, <1>7 DEF Writes, Start, EndsBy
<1>9. Between(t, pos, hi)
  BY <1>2, <1>5, <1>6, <1>8 DEF Between
<1>10. Ascending(t)
  <2>1. \A i \in 1 .. (2 - 1) : i = 1
    OBVIOUS
  <2>2. \A j \in 1 .. 3 : Writes(t[j]) => j = 2
    BY <1>2, <1>5, <1>6, <1>8
  <2> QED
    BY <1>2, <1>5, <2>1, <2>2 DEF Ascending
<1>11. \A u \in Units(y) : Covered(t, u)
  <2>1. \A u \in Units(y) : Covers(y, u)
    BY <1>3 DEF Covers
  <2> QED
    BY <1>2, <2>1 DEF Covered
<1>12. ASSUME NEW p, p.ncch = n, arg \in Wanted(n), y \in Calls(p),
              [pos |-> pos, size |-> hashed] \in Hashed(p)
       PROVE  Proper(t, p)
  <2>1. Belongs(x, p)
    BY <1>5, <1>12
  <2>2. Belongs(y, p)
    BY <1>3, <1>12 DEF Belongs
  <2>3. Belongs(z, p)
    BY <1>3, <1>4, <1>12 DEF Belongs
  <2> QED
    BY <1>2, <1>6, <2>1, <2>2, <2>3 DEF Proper
<1> QED
  BY <1>2, <1>9, <1>10, <1>11, <1>12 DEF t, y, hi, Spans

(* Where .code lies in a 7.x ExeFS.                                        *)
LEMMA CodePlace ==
  ASSUME NEW p, Sized(p), ~IsCfa(p.ncch), p.ncch.extra_keyslot
  PROVE  LET n == p.ncch
             code == n.code
         IN /\ code.file_off \in Nat /\ code.file_size \in Nat
            /\ HEADER_SIZE + code.file_off + code.file_size <= n.exefs_size
            /\ n.exefs_size < U32_MOD /\ HEADER_SIZE <= n.exefs_size
<1> DEFINE n == p.ncch off == n.code.file_off size == n.code.file_size
           total == n.exefs_size
<1>1. /\ n \in Ncchs /\ n.has_code /\ total < U32_MOD /\ LaidOut(n)
  BY DEF Sized
<1>2. off \in Nat /\ size \in Nat /\ total \in Nat
  BY <1>1, NcchFields
<1>3. HEADER_SIZE + off + size <= total
  BY <1>1 DEF LaidOut, FileEnd
<1> HIDE DEF off, size, total
<1>4. HEADER_SIZE <= total
  BY <1>2, <1>3 DEF HEADER_SIZE
<1> QED
  BY <1>1, <1>2, <1>3, <1>4 DEF off, size, total

(* The 7.x ExeFS: its header, what is planned from it, and the hashes.     *)
LEMMA Exefs7xCourse ==
  ASSUME NEW p, Sized(p), ~IsCfa(p.ncch), p.ncch.extra_keyslot
  PROVE  LET n == p.ncch
             pos == p.base + n.exefs_offset
             t == DecryptExefs7x(n, p.base)
         IN /\ t \in Seq(Steps)
            /\ Spans(t, pos, pos + n.exefs_size)
            /\ Proper(t, p)
            /\ \A u \in (pos + 1) .. (pos + n.exefs_size) : Covered(t, u)
<1> DEFINE n == p.ncch base == p.base pos == base + n.exefs_offset
           total == n.exefs_size hashed == n.exefs_hashed hi == pos + total
           t == << Need("exefs"), Need("exefs7x"), XorWith("exefs", pos, 0, HEADER_SIZE),
                   ParseExefs(n, pos), Hash(n, pos, n.exefs_hashed), HashFiles(n, pos) >>
           n1 == Need("exefs") n2 == Need("exefs7x")
           x == XorWith("exefs", pos, 0, HEADER_SIZE)
           e == ParseExefs(n, pos)
           h == Hash(n, pos, n.exefs_hashed)
           f == HashFiles(n, pos)
<1>1. t = DecryptExefs7x(n, base)
  BY DEF DecryptExefs7x
<1>2. n \in Ncchs /\ base \in Nat /\ LaidOut(n)
  BY DEF Sized
<1>3. /\ n.exefs_offset \in Nat /\ total \in Nat /\ hashed \in Nat
      /\ n.files \in ExefsFiles /\ hashed <= total /\ HEADER_SIZE <= total
  BY <1>2, NcchFields, CodePlace DEF LaidOut
<1>4. pos \in Nat /\ "exefs" \in PadArgs /\ "exefs7x" \in PadArgs /\ 0 \in Nat
      /\ HEADER_SIZE \in Int
  BY <1>2, <1>3 DEF HEADER_SIZE, PadArgs
<1>5. t \in Seq(Steps)
  BY <1>1, <1>2, Exefs7xLemma
<1>6. /\ x.kind = "xor" /\ x.file_pos = pos /\ x.size = HEADER_SIZE
      /\ e.kind = "exefs" /\ e.file_pos = pos /\ e.ncch = n
      /\ h.kind = "hash" /\ h.file_pos = pos /\ h.size = hashed
      /\ f.kind = "files" /\ f.file_pos = pos /\ f.files = n.files
  BY DEF XorWith, ParseExefs, Hash, HashFiles
<1>7. h.genuine = n.genuine
  BY DEF Hash
<1>8. /\ ~Writes(n1) /\ ~Writes(n2) /\ \A y : EndsBy(n1, y) /\ EndsBy(n2, y)
  BY AskingCourse
<1>9. t = << n1, n2, x, e, h, f >>
  OBVIOUS
<1>10. [pos |-> pos, size |-> hashed] \in Hashed(p)
  <2>1. Area(p, n.exefs_offset, n.exefs_hashed) = [pos |-> pos, size |-> hashed]
    BY DEF Area
  <2>2. Area(p, n.exefs_offset, n.exefs_hashed) \in Hashed(p)
    BY DEF Hashed
  <2> QED
    BY <2>1, <2>2
<1>11. x \in Calls(p)
  BY DEF Calls
<1>12. pos = p.base + p.ncch.exefs_offset
  OBVIOUS
<1>13. Belongs(n1, p) /\ Belongs(n2, p)
  <2>1. "exefs" \in Wanted(p.ncch) /\ "exefs7x" \in Wanted(p.ncch)
    BY DEF Wanted
  <2> QED
    BY <2>1, AskingCourse
<1> HIDE DEF x, e, h, f, n1, n2, t
<1>14. /\ Len(t) = 6 /\ t[1] = n1 /\ t[2] = n2 /\ t[3] = x /\ t[4] = e
       /\ t[5] = h /\ t[6] = f
  BY <1>9
<1>15. \A j \in 1 .. 6 : j = 1 \/ j = 2 \/ j = 3 \/ j = 4 \/ j = 5 \/ j = 6
  OBVIOUS
<1>16. Proper(t, p)
  <2>1. Belongs(x, p) /\ Belongs(e, p) /\ Belongs(h, p) /\ Belongs(f, p)
    BY <1>6, <1>7, <1>10, <1>11, <1>12 DEF Belongs, AtExefs
  <2> QED
    BY <1>13, <1>14, <1>15, <2>1 DEF Proper
<1> HIDE DEF pos, total, hashed
<1>17. hi \in Int /\ pos + HEADER_SIZE <= hi /\ pos + hashed <= hi /\ pos + total <= hi
  BY <1>3, <1>4
<1>18. EndsBy(f, hi)
  <2> SUFFICES ASSUME NEW i \in 1 .. Len(n.files)
               PROVE  pos + HEADER_SIZE + n.files[i].file_off + n.files[i].file_size <= hi
    BY <1>6 DEF EndsBy
  <2> DEFINE off == n.files[i].file_off size == n.files[i].file_size
  <2>1. off \in Nat /\ size \in Nat
    BY <1>3, FileFields
  <2>2. DOMAIN n.files = 1 .. Len(n.files)
    BY <1>3 DEF ExefsFiles
  <2>3. HEADER_SIZE + off + size <= total
    BY <1>2, <2>2 DEF LaidOut, FileEnd, total
  <2> HIDE DEF off, size
  <2>4. pos + HEADER_SIZE + off + size <= hi
    BY <1>3, <1>4, <2>1, <2>3
  <2> QED
    BY <2>4 DEF off, size
<1> HIDE DEF hi
<1>19. /\ EndsBy(x, hi) /\ EndsBy(e, hi) /\ EndsBy(h, hi)
       /\ EndsBy(x, pos + HEADER_SIZE)
       /\ Writes(x) /\ Writes(e) /\ ~Writes(h) /\ ~Writes(f)
       /\ Start(x) = pos /\ Start(e) = pos + HEADER_SIZE
  BY <1>3, <1>4, <1>6, <1>17 DEF EndsBy, Writes, Start, total
<1>20. pos <= pos /\ pos <= pos + HEADER_SIZE
  BY <1>4 DEF HEADER_SIZE
<1>21. Between(t, pos, hi)
  BY <1>8, <1>14, <1>15, <1>18, <1>19, <1>20 DEF Between
<1>22. Ascending(t)
  <2>1. \A i \in 1 .. (3 - 1) : i = 1 \/ i = 2
    OBVIOUS
  <2>2. \A i \in 1 .. (4 - 1) : i = 1 \/ i = 2 \/ i = 3
    OBVIOUS
  <2>3. \A j \in 1 .. 6 : Writes(t[j]) => j = 3 \/ j = 4
    BY <1>8, <1>14, <1>15, <1>19
  <2>4. \A i \in 1 .. (3 - 1) : EndsBy(t[i], Start(t[3]))
    BY <1>8, <1>14, <2>1
  <2>5. \A i \in 1 .. (4 - 1) : EndsBy(t[i], Start(t[4]))
    BY <1>8, <1>14, <1>19, <2>2
  <2> QED
    BY <1>14, <2>3, <2>4, <2>5 DEF Ascending
<1>23. ASSUME NEW u \in (pos + 1) .. (pos + total)
       PROVE  Covered(t, u)
  <2>1. CASE u <= pos + HEADER_SIZE
    <3>1. u \in Units(x)
      BY <1>3, <1>4, <1>6, <2>1 DEF Units
    <3>2. Covers(x, u)
      BY <1>6, <3>1 DEF Covers
    <3> QED
      BY <1>14, <3>2 DEF Covered
  <2>2. CASE ~(u <= pos + HEADER_SIZE)
    <3>1. pos + HEADER_SIZE < u /\ u <= pos + total
      BY <1>3, <1>4, <2>2
    <3>2. Covers(e, u)
      BY <1>6, <3>1 DEF Covers, total
    <3> QED
      BY <1>14, <3>2 DEF Covered
  <2> QED
    BY <2>1, <2>2
<1> QED
  BY <1>1, <1>5, <1>16, <1>21, <1>22, <1>23 DEF pos, total, hi, Spans

-----------------------------------------------------------------------------
(* The calls that decrypt a partition.                                     *)
ExheaderCall(p) == XorWith("exheader", p.base + HEADER_SIZE, 0, EXHEADER_SIZE)
RomfsCall(p) ==
  XorWith("romfs", p.base + p.ncch.romfs_offset, 0, p.ncch.romfs_size)

ExefsCalls(p) ==
  LET n == p.ncch
      exefs == p.base + n.exefs_offset
      code == n.code
      start == HEADER_SIZE + code.file_off
      end == start + code.file_size
  IN IF ~n.extra_keyslot THEN { XorWith("exefs", exefs, 0, n.exefs_size) }
     ELSE { XorWith("exefs", exefs, 0, HEADER_SIZE),
            XorWith("exefs", exefs + HEADER_SIZE, HEADER_SIZE, code.file_off),
            XorWith("exefs7x", exefs + start, start, code.file_size),
            XorWith("exefs", exefs + end, end, n.exefs_size - end) }

(* They are those of its sections.                                         *)
LEMMA CallParts ==
  ASSUME NEW p
  PROVE  Calls(p) = (IF IsCfa(p.ncch) THEN {} ELSE {ExheaderCall(p)} \union ExefsCalls(p))
                    \union (IF p.ncch.noromfs THEN {} ELSE {RomfsCall(p)})
BY DEF Calls, ExheaderCall, RomfsCall, ExefsCalls

(* Where a call writes, and from where in its pad.                         *)
IsCall(c) ==
  /\ c.kind = "xor" /\ c.arg \in PadArgs
  /\ c.file_pos \in Nat /\ c.pad_pos \in Nat /\ c.size \in Nat

(* One call comes before another, or is the same.                          *)
Apart(c, d) == \/ c = d
               \/ c.file_pos + c.size <= d.file_pos
               \/ d.file_pos + d.size <= c.file_pos

Inside(c, lo, hi) == lo <= c.file_pos /\ c.file_pos + c.size <= hi

(* The calls for the ExeFS cut it into pieces.                             *)
LEMMA ExefsCallPlaces ==
  ASSUME NEW p, Sized(p), ~IsCfa(p.ncch)
  PROVE  LET pos == p.base + p.ncch.exefs_offset
             total == p.ncch.exefs_size
         IN /\ \A c \in ExefsCalls(p) : IsCall(c) /\ Inside(c, pos, pos + total)
            /\ \A c, d \in ExefsCalls(p) : Apart(c, d)
            /\ \A u \in (pos + 1) .. (pos + total) : \E c \in ExefsCalls(p) : u \in Units(c)
            /\ \E c \in ExefsCalls(p) : c.file_pos + c.size = pos + total
<1> DEFINE n == p.ncch pos == p.base + n.exefs_offset total == n.exefs_size
           off == n.code.file_off size == n.code.file_size
           start == HEADER_SIZE + off end == start + size
<1>1. pos \in Nat /\ total \in Nat
  BY NcchFields DEF Sized
<1>2. CASE ~n.extra_keyslot
  <2> DEFINE c == XorWith("exefs", pos, 0, n.exefs_size)
  <2>1. /\ c.kind = "xor" /\ c.arg = "exefs" /\ c.file_pos = pos /\ c.pad_pos = 0
        /\ c.size = total
    BY DEF XorWith
  <2>2. ExefsCalls(p) = {c}
    BY <1>2 DEF ExefsCalls
  <2> HIDE DEF c, pos, total
  <2>3. IsCall(c) /\ Inside(c, pos, pos + total)
    BY <1>1, <2>1 DEF IsCall, PadArgs, Inside
  <2>4. Units(c) = (pos + 1) .. (pos + total)
    BY <2>1 DEF Units
  <2> QED
    BY <2>1, <2>2, <2>3, <2>4 DEF pos, total, Apart
<1>3. CASE n.extra_keyslot
  <2> DEFINE x == XorWith("exefs", pos, 0, HEADER_SIZE)
             y == XorWith("exefs", pos + HEADER_SIZE, HEADER_SIZE, off)
             z == XorWith("exefs7x", pos + start, start, size)
             w == XorWith("exefs", pos + end, end, n.exefs_size - end)
  <2>1. off \in Nat /\ size \in Nat /\ end <= total /\ HEADER_SIZE \in Nat
    BY <1>3, CodePlace DEF HEADER_SIZE
  <2>2. /\ x.kind = "xor" /\ x.arg = "exefs" /\ x.file_pos = pos /\ x.pad_pos = 0
        /\ x.size = HEADER_SIZE
        /\ y.kind = "xor" /\ y.arg = "exefs" /\ y.file_pos = pos + HEADER_SIZE
        /\ y.pad_pos = HEADER_SIZE /\ y.size = off
        /\ z.kind = "xor" /\ z.arg = "exefs7x" /\ z.file_pos = pos + start
        /\ z.pad_pos = start /\ z.size = size
        /\ w.kind = "xor" /\ w.arg = "exefs" /\ w.file_pos = pos + end
        /\ w.pad_pos = end /\ w.size = total - end
    BY DEF XorWith
  <2>3. ExefsCalls(p) = {x, y, z, w}
    BY <1>3 DEF ExefsCalls
  <2>4. "exefs" \in PadArgs /\ "exefs7x" \in PadArgs
    BY DEF PadArgs
  <2> HIDE DEF off, size, pos, total, x, y, z, w
  <2>5. IsCall(x) /\ IsCall(y) /\ IsCall(z) /\ IsCall(w)
    BY <1>1, <2>1, <2>2, <2>4 DEF IsCall
  <2>6. /\ Inside(x, pos, pos + total) /\ Inside(y, pos, pos + total)
        /\ Inside(z, pos, pos + total) /\ Inside(w, pos, pos + total)
    BY <1>1, <2>1, <2>2 DEF Inside
  <2>7. /\ Apart(x, y) /\ Apart(x, z) /\ Apart(x, w)
        /\ Apart(y, x) /\ Apart(y, z) /\ Apart(y, w)
        /\ Apart(z, x) /\ Apart(z, y) /\ Apart(z, w)
        /\ Apart(w, x) /\ Apart(w, y) /\ Apart(w, z)
    BY <1>1, <2>1, <2>2 DEF Apart
  <2>8. ASSUME NEW u \in (pos + 1) .. (pos + total)
        PROVE  u \in Units(x) \/ u \in Units(y) \/ u \in Units(z) \/ u \in Units(w)
    BY <1>1, <2>1, <2>2 DEF Units
  <2>9. w.file_pos + w.size = pos + total
    BY <1>1, <2>1, <2>2
  <2>10. Apart(x, x) /\ Apart(y, y) /\ Apart(z, z) /\ Apart(w, w)
    BY DEF Apart
  <2>11. \A c \in ExefsCalls(p) : IsCall(c) /\ Inside(c, pos, pos + total)
    BY <2>3, <2>5, <2>6
  <2>12. \A c, d \in ExefsCalls(p) : Apart(c, d)
    BY <2>3, <2>7, <2>10
  <2> QED
    BY <2>3, <2>8, <2>9, <2>11, <2>12 DEF pos, total
<1> QED
  BY <1>2, <1>3

(* Those for the other sections.                                           *)
LEMMA OtherCallPlaces ==
  ASSUME NEW p, Sized(p)
  PROVE  LET c == ExheaderCall(p)
             d == RomfsCall(p)
         IN /\ IsCall(c) /\ c.file_pos = p.base + HEADER_SIZE /\ c.size = EXHEADER_SIZE
            /\ IsCall(d) /\ d.file_pos = p.base + p.ncch.romfs_offset
            /\ d.size = p.ncch.romfs_size
            /\ c.arg = "exheader" /\ c.pad_pos = 0 /\ d.arg = "romfs" /\ d.pad_pos = 0
<1> DEFINE c == ExheaderCall(p) d == RomfsCall(p)
<1>1. /\ p.base \in Nat /\ p.ncch.romfs_offset \in Nat /\ p.ncch.romfs_size \in Nat
      /\ EXHEADER_SIZE \in Nat
  BY NcchFields, ExheaderAssumption DEF Sized
<1>2. /\ c.kind = "xor" /\ c.arg = "exheader" /\ c.file_pos = p.base + HEADER_SIZE
      /\ c.pad_pos = 0 /\ c.size = EXHEADER_SIZE
      /\ d.kind = "xor" /\ d.arg = "romfs" /\ d.file_pos = p.base + p.ncch.romfs_offset
      /\ d.pad_pos = 0 /\ d.size = p.ncch.romfs_size
  BY DEF ExheaderCall, RomfsCall, XorWith
<1> HIDE DEF c, d
<1>3. IsCall(c) /\ IsCall(d)
  BY <1>1, <1>2 DEF IsCall, PadArgs, HEADER_SIZE
<1> QED
  BY <1>2, <1>3 DEF c, d

(* Any of them.                                                            *)
LEMMA CallPlaces ==
  ASSUME NEW p, Sized(p), NEW c \in Calls(p)
  PROVE  /\ IsCall(c)
         /\ \/ ~IsCfa(p.ncch) /\ c = ExheaderCall(p)
            \/ ~IsCfa(p.ncch) /\ c \in ExefsCalls(p)
            \/ ~p.ncch.noromfs /\ c = RomfsCall(p)
<1>1. \/ ~IsCfa(p.ncch) /\ c = ExheaderCall(p)
      \/ ~IsCfa(p.ncch) /\ c \in ExefsCalls(p)
      \/ ~p.ncch.noromfs /\ c = RomfsCall(p)
  BY CallParts
<1> QED
  BY <1>1, ExefsCallPlaces, OtherCallPlaces

(* The places of the sections, one after another.                          *)
LEMMA SectionOrder ==
  ASSUME NEW p, Sized(p)
  PROVE  LET n == p.ncch
         IN /\ p.base \in Nat /\ n.exefs_offset \in Nat /\ n.exefs_size \in Nat
            /\ n.romfs_offset \in Nat /\ n.romfs_size \in Nat
            /\ EXHEADER_SIZE \in Nat /\ HEADER_SIZE = 1
            /\ ~IsCfa(n) => HEADER_SIZE + EXHEADER_SIZE <= n.exefs_offset
            /\ ~IsCfa(n) /\ ~n.noromfs => n.exefs_offset + n.exefs_size <= n.romfs_offset
BY NcchFields, ExheaderAssumption DEF Sized, LaidOut, HEADER_SIZE

(* No two calls decrypt the same.                                          *)
LEMMA CallsApart ==
  ASSUME NEW p, Sized(p), NEW c \in Calls(p), NEW d \in Calls(p)
  PROVE  Apart(c, d)
<1> DEFINE n == p.ncch e == ExheaderCall(p) r == RomfsCall(p)
           lo == p.base + n.exefs_offset hi == lo + n.exefs_size
           at == p.base + n.romfs_offset ex == p.base + HEADER_SIZE + EXHEADER_SIZE
<1>1. /\ lo \in Nat /\ hi \in Nat /\ at \in Nat /\ ex \in Nat
      /\ ~IsCfa(n) => ex <= lo /\ lo <= hi
      /\ ~IsCfa(n) /\ ~n.noromfs => hi <= at
  BY SectionOrder
<1>2. /\ e.file_pos + e.size = ex /\ r.file_pos = at /\ IsCall(e) /\ IsCall(r)
  BY OtherCallPlaces
<1>3. ~IsCfa(n) => \A x \in ExefsCalls(p) : /\ IsCall(x) /\ Inside(x, lo, hi)
                                            /\ \A y \in ExefsCalls(p) : Apart(x, y)
  BY ExefsCallPlaces
<1>4. /\ IsCall(c)
      /\ (~IsCfa(n) /\ c = e) \/ (~IsCfa(n) /\ c \in ExefsCalls(p))
           \/ (~n.noromfs /\ c = r)
  BY CallPlaces
<1>5. /\ IsCall(d)
      /\ (~IsCfa(n) /\ d = e) \/ (~IsCfa(n) /\ d \in ExefsCalls(p))
           \/ (~n.noromfs /\ d = r)
  BY CallPlaces
<1> HIDE DEF lo, hi, at, ex, e, r, n
<1>6. ASSUME NEW x, IsCall(x), NEW y, IsCall(y), ~IsCfa(n), x = e,
             y \in ExefsCalls(p) \/ (~n.noromfs /\ y = r)
      PROVE  x.file_pos + x.size <= y.file_pos
  <2>1. x.file_pos + x.size = ex /\ y.file_pos \in Nat
    BY <1>2, <1>6 DEF IsCall
  <2>2. lo <= y.file_pos \/ (y.file_pos = at /\ hi <= at)
    BY <1>1, <1>2, <1>3, <1>6 DEF Inside
  <2> QED
    BY <1>1, <1>6, <2>1, <2>2
<1>7. ASSUME NEW x, ~IsCfa(n), ~n.noromfs, x \in ExefsCalls(p)
      PROVE  x.file_pos + x.size <= r.file_pos
  <2>1. x.file_pos \in Nat /\ x.size \in Nat /\ x.file_pos + x.size <= hi
    BY <1>3, <1>7 DEF Inside, IsCall
  <2> QED
    BY <1>1, <1>2, <1>7, <2>1
<1> QED
  BY <1>2, <1>3, <1>4, <1>5, <1>6, <1>7 DEF Apart

(* Numbers apart.                                                          *)
LEMMA UnitsApart ==
  ASSUME NEW c, IsCall(c), NEW d, IsCall(d), Apart(c, d), c # d
  PROVE  Units(c) \intersect Units(d) = {}
<1>1. /\ c.file_pos \in Nat /\ c.size \in Nat /\ d.file_pos \in Nat /\ d.size \in Nat
  BY DEF IsCall
<1> SUFFICES ASSUME NEW u \in Units(c), u \in Units(d)
             PROVE  FALSE
  OBVIOUS
<1> QED
  BY <1>1 DEF Units, Apart

(* The sections of a partition are what its calls decrypt.                 *)
LEMMA SectionPlaces ==
  ASSUME NEW p, Sized(p), NEW s \in Sections(p)
  PROVE  /\ s.pos \in Nat /\ s.size \in Nat
         /\ \A u \in (s.pos + 1) .. (s.pos + s.size) :
              \E c \in Calls(p) : u \in Units(c)
         /\ \E c \in Calls(p) : c.file_pos + c.size = s.pos + s.size
<1> DEFINE n == p.ncch e == ExheaderCall(p) r == RomfsCall(p)
<1>1. /\ e.file_pos = p.base + HEADER_SIZE /\ e.size = EXHEADER_SIZE
      /\ r.file_pos = p.base + n.romfs_offset /\ r.size = n.romfs_size
  BY OtherCallPlaces
<1>2. /\ ~IsCfa(n) => e \in Calls(p) /\ \A c \in ExefsCalls(p) : c \in Calls(p)
      /\ ~n.noromfs => r \in Calls(p)
  BY CallParts
<1>3. /\ p.base \in Nat /\ n.exefs_offset \in Nat /\ n.exefs_size \in Nat
      /\ n.romfs_offset \in Nat /\ n.romfs_size \in Nat
      /\ EXHEADER_SIZE \in Nat /\ HEADER_SIZE \in Nat
  BY SectionOrder
<1>4. \/ ~IsCfa(n) /\ s = Area(p, HEADER_SIZE, EXHEADER_SIZE)
      \/ ~IsCfa(n) /\ s = Area(p, n.exefs_offset, n.exefs_size)
      \/ ~n.noromfs /\ s = Area(p, n.romfs_offset, n.romfs_size)
  BY DEF Sections
<1> HIDE DEF e, r
<1>5. CASE ~IsCfa(n) /\ s = Area(p, HEADER_SIZE, EXHEADER_SIZE)
  <2>1. s.pos = p.base + HEADER_SIZE /\ s.size = EXHEADER_SIZE
    BY <1>5 DEF Area
  <2>2. Units(e) = (s.pos + 1) .. (s.pos + s.size) /\ e.file_pos + e.size = s.pos + s.size
    BY <1>1, <2>1 DEF Units
  <2>3. s.pos \in Nat /\ s.size \in Nat
    BY <1>3, <2>1
  <2>4. e \in Calls(p)
    BY <1>2, <1>5
  <2>5. \A u \in (s.pos + 1) .. (s.pos + s.size) : \E c \in Calls(p) : u \in Units(c)
    BY <2>2, <2>4, Zenon
  <2> QED
    BY <2>2, <2>3, <2>4, <2>5
<1>6. CASE ~IsCfa(n) /\ s = Area(p, n.exefs_offset, n.exefs_size)
  <2>1. s.pos = p.base + n.exefs_offset /\ s.size = n.exefs_size
    BY <1>6 DEF Area
  <2>2. /\ \A u \in (s.pos + 1) .. (s.pos + s.size) : \E c \in ExefsCalls(p) : u \in Units(c)
        /\ \E c \in ExefsCalls(p) : c.file_pos + c.size = s.pos + s.size
    BY <1>6, <2>1, ExefsCallPlaces
  <2> QED
    BY <1>2, <1>3, <1>6, <2>1, <2>2
<1>7. CASE ~n.noromfs /\ s = Area(p, n.romfs_offset, n.romfs_size)
  <2>1. s.pos = p.base + n.romfs_offset /\ s.size = n.romfs_size
    BY <1>7 DEF Area
  <2>2. Units(r) = (s.pos + 1) .. (s.pos + s.size) /\ r.file_pos + r.size = s.pos + s.size
    BY <1>1, <2>1 DEF Units
  <2>3. s.pos \in Nat /\ s.size \in Nat
    BY <1>3, <2>1
  <2>4. r \in Calls(p)
    BY <1>2, <1>7
  <2>5. \A u \in (s.pos + 1) .. (s.pos + s.size) : \E c \in Calls(p) : u \in Units(c)
    BY <2>2, <2>4, Zenon
  <2> QED
    BY <2>2, <2>3, <2>4, <2>5
<1> QED
  BY <1>4, <1>5, <1>6, <1>7

(* ... and nothing else is.                                                *)
LEMMA CallInSection ==
  ASSUME NEW p, Sized(p), NEW c \in Calls(p), NEW u \in Units(c)
  PROVE  \E s \in Sections(p) : s.pos < u /\ u <= s.pos + s.size
<1> DEFINE n == p.ncch
           a == Area(p, HEADER_SIZE, EXHEADER_SIZE)
           b == Area(p, n.exefs_offset, n.exefs_size)
           d == Area(p, n.romfs_offset, n.romfs_size)
<1>1. /\ ~IsCfa(n) => a \in Sections(p) /\ b \in Sections(p)
      /\ ~n.noromfs => d \in Sections(p)
  BY DEF Sections
<1>2. /\ a.pos = p.base + HEADER_SIZE /\ a.size = EXHEADER_SIZE
      /\ b.pos = p.base + n.exefs_offset /\ b.size = n.exefs_size
      /\ d.pos = p.base + n.romfs_offset /\ d.size = n.romfs_size
  BY DEF Area
<1> HIDE DEF a, b, d
<1>3. /\ p.base \in Nat /\ n.exefs_offset \in Nat /\ n.exefs_size \in Nat
      /\ n.romfs_offset \in Nat /\ n.romfs_size \in Nat
      /\ EXHEADER_SIZE \in Nat /\ HEADER_SIZE \in Nat
  BY SectionOrder
<1>4. /\ IsCall(c)
      /\ \/ ~IsCfa(n) /\ c = ExheaderCall(p)
         \/ ~IsCfa(n) /\ c \in ExefsCalls(p)
         \/ ~n.noromfs /\ c = RomfsCall(p)
  BY CallPlaces
<1>5. CASE ~IsCfa(n) /\ c = ExheaderCall(p)
  <2>1. c.file_pos = a.pos /\ c.size = a.size
    BY <1>2, <1>5, OtherCallPlaces
  <2>2. a.pos < u /\ u <= a.pos + a.size
    BY <1>2, <1>3, <2>1 DEF Units
  <2> QED
    BY <1>1, <1>5, <2>2
<1>6. CASE ~IsCfa(n) /\ c \in ExefsCalls(p)
  <2>1. Inside(c, b.pos, b.pos + b.size) /\ c.file_pos \in Nat /\ c.size \in Nat
    BY <1>2, <1>4, <1>6, ExefsCallPlaces DEF IsCall
  <2>2. b.pos < u /\ u <= b.pos + b.size
    BY <1>2, <1>3, <2>1 DEF Units, Inside
  <2> QED
    BY <1>1, <1>6, <2>2
<1>7. CASE ~n.noromfs /\ c = RomfsCall(p)
  <2>1. c.file_pos = d.pos /\ c.size = d.size
    BY <1>2, <1>7, OtherCallPlaces
  <2>2. d.pos < u /\ u <= d.pos + d.size
    BY <1>2, <1>3, <2>1 DEF Units
  <2> QED
    BY <1>1, <1>7, <2>2
<1> QED
  BY <1>4, <1>5, <1>6, <1>7

(* What is hashed is part of a section.                                    *)
LEMMA HashedInSection ==
  ASSUME NEW p, Sized(p), NEW a \in Hashed(p)
  PROVE  /\ a.pos \in Nat /\ a.size \in Nat
         /\ \E s \in Sections(p) : s.pos <= a.pos /\ a.pos + a.size <= s.pos + s.size
<1> DEFINE n == p.ncch
           x == Area(p, HEADER_SIZE, EXHEADER_SIZE)
           y == Area(p, n.exefs_offset, n.exefs_size)
           z == Area(p, n.romfs_offset, n.romfs_size)
<1>1. /\ ~IsCfa(n) => x \in Sections(p) /\ y \in Sections(p)
      /\ ~n.noromfs => z \in Sections(p)
  BY DEF Sections
<1>2. /\ x.pos = p.base + HEADER_SIZE /\ x.size = EXHEADER_SIZE
      /\ y.pos = p.base + n.exefs_offset /\ y.size = n.exefs_size
      /\ z.pos = p.base + n.romfs_offset /\ z.size = n.romfs_size
  BY DEF Area
<1> HIDE DEF x, y, z
<1>3. /\ p.base \in Nat /\ n.exefs_offset \in Nat /\ n.exefs_size \in Nat
      /\ n.romfs_offset \in Nat /\ n.romfs_size \in Nat
      /\ EXHEADER_SIZE \in Nat /\ HEADER_SIZE \in Nat
  BY SectionOrder
<1>4. /\ n \in Ncchs /\ (~IsCfa(n) => LaidOut(n)) /\ n.romfs_hashed <= n.romfs_size
      /\ n.exefs_hashed \in Nat /\ n.romfs_hashed \in Nat /\ n.files \in ExefsFiles
      /\ EXHEADER_HASHED \in Nat /\ EXHEADER_HASHED <= EXHEADER_SIZE
  BY NcchFields, ExheaderAssumption DEF Sized
<1>5. CASE ~IsCfa(n) /\ a.pos = p.base + HEADER_SIZE /\ a.size = EXHEADER_HASHED
  <2>1. /\ a.pos \in Nat /\ a.size \in Nat
        /\ x.pos <= a.pos /\ a.pos + a.size <= x.pos + x.size
    BY <1>2, <1>3, <1>4, <1>5
  <2> QED
    BY <1>1, <1>5, <2>1
<1>6. CASE ~IsCfa(n) /\ a.pos = p.base + n.exefs_offset /\ a.size = n.exefs_hashed
  <2>1. n.exefs_hashed <= n.exefs_size
    BY <1>4, <1>6 DEF LaidOut
  <2>2. /\ a.pos \in Nat /\ a.size \in Nat
        /\ y.pos <= a.pos /\ a.pos + a.size <= y.pos + y.size
    BY <1>2, <1>3, <1>4, <1>6, <2>1
  <2> QED
    BY <1>1, <1>6, <2>2
<1>7. CASE /\ ~IsCfa(n) /\ n.extra_keyslot
           /\ \E i \in DOMAIN n.files :
                /\ a.pos = p.base + (n.exefs_offset + HEADER_SIZE + n.files[i].file_off)
                /\ a.size = n.files[i].file_size
  <2>1. PICK i \in DOMAIN n.files :
               /\ a.pos = p.base + (n.exefs_offset + HEADER_SIZE + n.files[i].file_off)
               /\ a.size = n.files[i].file_size
    BY <1>7
  <2> DEFINE off == n.files[i].file_off size == n.files[i].file_size
             base == p.base o == n.exefs_offset total == n.exefs_size
  <2>2. i \in 1 .. Len(n.files)
    <3>1. DOMAIN n.files = 1 .. Len(n.files)
      BY <1>4 DEF ExefsFiles
    <3> QED
      BY <3>1
  <2>3. off \in Nat /\ size \in Nat /\ HEADER_SIZE + off + size <= total
    BY <1>4, <1>7, <2>2, FileFields DEF LaidOut, FileEnd
  <2>4. /\ base \in Nat /\ o \in Nat /\ total \in Nat /\ y.pos = base + o /\ y.size = total
        /\ a.pos = base + (o + HEADER_SIZE + off) /\ a.size = size
    BY <1>2, <1>3, <2>1
  <2> HIDE DEF off, size, base, o, total
  <2>5. /\ a.pos \in Nat /\ a.size \in Nat
        /\ y.pos <= a.pos /\ a.pos + a.size <= y.pos + y.size
    BY <1>3, <2>3, <2>4
  <2> QED
    BY <1>1, <1>7, <2>5
<1>8. CASE ~n.noromfs /\ a.pos = p.base + n.romfs_offset /\ a.size = n.romfs_hashed
  <2>1. /\ a.pos \in Nat /\ a.size \in Nat
        /\ z.pos <= a.pos /\ a.pos + a.size <= z.pos + z.size
    BY <1>2, <1>3, <1>4, <1>8
  <2> QED
    BY <1>1, <1>8, <2>1
<1> QED
  BY <1>5, <1>6, <1>7, <1>8, HashedAreas

(* Every unit that is hashed is decrypted by some call.                    *)
LEMMA HashedUnits ==
  ASSUME NEW p, Sized(p), NEW a \in Hashed(p), NEW u \in (a.pos + 1) .. (a.pos + a.size)
  PROVE  \E c \in Calls(p) : u \in Units(c)
<1>1. PICK s \in Sections(p) :
        s.pos <= a.pos /\ a.pos + a.size <= s.pos + s.size
  BY HashedInSection
<1>2. /\ a.pos \in Nat /\ a.size \in Nat /\ s.pos \in Nat /\ s.size \in Nat
  BY HashedInSection, SectionPlaces
<1>3. u \in (s.pos + 1) .. (s.pos + s.size)
  BY <1>1, <1>2
<1> QED
  BY <1>3, SectionPlaces

-----------------------------------------------------------------------------
(* The whole plan.                                                         *)

(* What a CFA refuses is in nobody's way.                                  *)
LEMMA RefusalsCourse ==
  ASSUME NEW p, IsCfa(p.ncch)
  PROVE  /\ Refusals \in Seq(Steps) /\ Proper(Refusals, p)
         /\ \A lo, hi : Spans(Refusals, lo, hi)
<1> DEFINE x == Refuse("exheader") y == Refuse("exefs") z == Refuse("exefs7x")
           t == <<x, y, z>>
<1>1. x \in Steps /\ y \in Steps /\ z \in Steps
  BY DEF Refuse, Steps, PadArgs
<1>2. t = Refusals
  BY DEF Refusals
<1>3. Belongs(x, p) /\ Belongs(y, p) /\ Belongs(z, p)
  <2>1. {"exheader", "exefs", "exefs7x"} \subseteq Unwanted(p.ncch)
    BY DEF Unwanted
  <2> QED
    BY <2>1, AskingCourse
<1>4. /\ ~Writes(x) /\ ~Writes(y) /\ ~Writes(z)
      /\ \A e : EndsBy(x, e) /\ EndsBy(y, e) /\ EndsBy(z, e)
  BY AskingCourse
<1> HIDE DEF x, y, z
<1>5. t \in Seq(Steps) /\ Len(t) = 3 /\ t[1] = x /\ t[2] = y /\ t[3] = z
  BY <1>1, ThreeSteps
<1> HIDE DEF t
<1>6. \A j \in 1 .. 3 : j = 1 \/ j = 2 \/ j = 3
  OBVIOUS
<1>7. Proper(t, p)
  BY <1>3, <1>5, <1>6 DEF Proper
<1>8. \A j \in 1 .. 3 : ~Writes(t[j]) /\ \A e : EndsBy(t[j], e)
  BY <1>4, <1>5, <1>6
<1>9. \A lo, hi : Spans(t, lo, hi)
  BY <1>5, <1>8 DEF Spans, Between, Ascending
<1> QED
  BY <1>2, <1>5, <1>7, <1>9

(* The exheader's steps.                                                   *)
LEMMA ExheaderCourse ==
  ASSUME NEW p, Sized(p), ~IsCfa(p.ncch)
  PROVE  LET t == DecryptExheader(p.ncch, p.base)
             lo == p.base + HEADER_SIZE
         IN /\ t \in Seq(Steps) /\ Proper(t, p) /\ Spans(t, lo, lo + EXHEADER_SIZE)
            /\ \A u \in Units(ExheaderCall(p)) : Covered(t, u)
<1> DEFINE n == p.ncch lo == p.base + HEADER_SIZE
           t == DecryptExheader(n, p.base) c == XorWith("exheader", lo, 0, EXHEADER_SIZE)
<1>1. t = SectionSteps("exheader", n, lo, EXHEADER_SIZE, EXHEADER_HASHED)
  BY DEF DecryptExheader, SectionSteps
<1>2. /\ "exheader" \in PadArgs /\ n \in Ncchs /\ lo \in Nat /\ EXHEADER_SIZE \in Nat
      /\ EXHEADER_HASHED \in Nat /\ EXHEADER_HASHED <= EXHEADER_SIZE
  BY ExheaderAssumption DEF PadArgs, Sized, HEADER_SIZE
<1>3. c = ExheaderCall(p) /\ c \in Calls(p) /\ "exheader" \in Wanted(n)
  BY CallParts DEF ExheaderCall, Wanted
<1>4. [pos |-> lo, size |-> EXHEADER_HASHED] \in Hashed(p)
  <2>1. Area(p, HEADER_SIZE, EXHEADER_HASHED) = [pos |-> lo, size |-> EXHEADER_HASHED]
    BY DEF Area
  <2>2. Area(p, HEADER_SIZE, EXHEADER_HASHED) \in Hashed(p)
    BY DEF Hashed
  <2> QED
    BY <2>1, <2>2
<1> HIDE DEF t, lo
<1>5. /\ t \in Seq(Steps) /\ Spans(t, lo, lo + EXHEADER_SIZE)
      /\ \A u \in Units(c) : Covered(t, u)
      /\ Proper(t, p)
  BY <1>1, <1>2, <1>3, <1>4, SectionCourse
<1> QED
  BY <1>3, <1>5 DEF t, lo

(* The ExeFS's, of either kind.                                            *)
LEMMA ExefsCourse ==
  ASSUME NEW p, Sized(p), ~IsCfa(p.ncch)
  PROVE  LET n == p.ncch
             t == Exefs(n, p.base)
             lo == p.base + n.exefs_offset
         IN /\ t \in Seq(Steps) /\ Proper(t, p) /\ Spans(t, lo, lo + n.exefs_size)
            /\ \A u \in (lo + 1) .. (lo + n.exefs_size) : Covered(t, u)
<1> DEFINE n == p.ncch lo == p.base + n.exefs_offset t == Exefs(n, p.base)
           c == XorWith("exefs", lo, 0, n.exefs_size)
<1>1. CASE n.extra_keyslot
  <2>1. t = DecryptExefs7x(n, p.base)
    BY <1>1 DEF Exefs
  <2> QED
    BY <1>1, <2>1, Exefs7xCourse
<1>2. CASE ~n.extra_keyslot
  <2>1. t = SectionSteps("exefs", n, lo, n.exefs_size, n.exefs_hashed)
    BY <1>2 DEF Exefs, DecryptExefs, SectionSteps
  <2>2. /\ "exefs" \in PadArgs /\ n \in Ncchs /\ lo \in Nat /\ n.exefs_size \in Nat
        /\ n.exefs_hashed \in Nat /\ n.exefs_hashed <= n.exefs_size
    BY NcchFields DEF PadArgs, Sized, LaidOut
  <2>3. c \in Calls(p) /\ "exefs" \in Wanted(n)
    BY <1>2 DEF Calls, Wanted
  <2>4. [pos |-> lo, size |-> n.exefs_hashed] \in Hashed(p)
    <3>1. Area(p, n.exefs_offset, n.exefs_hashed) = [pos |-> lo, size |-> n.exefs_hashed]
      BY DEF Area
    <3>2. Area(p, n.exefs_offset, n.exefs_hashed) \in Hashed(p)
      BY DEF Hashed
    <3> QED
      BY <3>1, <3>2
  <2>5. Units(c) = (lo + 1) .. (lo + n.exefs_size)
    BY DEF Units, XorWith
  <2> HIDE DEF t, lo
  <2>6. /\ t \in Seq(Steps) /\ Spans(t, lo, lo + n.exefs_size)
        /\ \A u \in Units(c) : Covered(t, u)
        /\ Proper(t, p)
    BY <2>1, <2>2, <2>3, <2>4, SectionCourse
  <2> QED
    BY <2>5, <2>6 DEF t, lo
<1> QED
  BY <1>1, <1>2

(* The RomFS's, or the refusal of its pad.                                 *)
LEMMA RomfsCourse ==
  ASSUME NEW p, Sized(p)
  PROVE  LET n == p.ncch
             t == DecryptRomfs(n, p.base)
             lo == p.base + n.romfs_offset
         IN /\ t \in Seq(Steps) /\ Proper(t, p)
            /\ n.noromfs => \A x, y : Spans(t, x, y)
            /\ ~n.noromfs => /\ Spans(t, lo, lo + n.romfs_size)
                             /\ \A u \in Units(RomfsCall(p)) : Covered(t, u)
<1> DEFINE n == p.ncch lo == p.base + n.romfs_offset t == DecryptRomfs(n, p.base)
           c == XorWith("romfs", lo, 0, n.romfs_size)
<1>1. CASE n.noromfs
  <2> DEFINE x == Refuse("romfs")
  <2>1. t = << x >>
    BY <1>1 DEF DecryptRomfs
  <2>2. x \in Steps
    BY DEF Refuse, Steps, PadArgs
  <2>3. "romfs" \in Unwanted(n)
    BY <1>1 DEF Unwanted
  <2>4. Belongs(x, p) /\ ~Writes(x) /\ \A e : EndsBy(x, e)
    BY <2>3, AskingCourse
  <2> HIDE DEF x, t
  <2>5. t \in Seq(Steps) /\ Len(t) = 1 /\ t[1] = x
    BY <2>1, <2>2
  <2>6. \A j \in 1 .. 1 : j = 1
    OBVIOUS
  <2>7. Proper(t, p)
    BY <2>4, <2>5, <2>6 DEF Proper
  <2>8. \A a, b : Spans(t, a, b)
    BY <2>4, <2>5, <2>6 DEF Spans, Between, Ascending
  <2> QED
    BY <1>1, <2>5, <2>7, <2>8 DEF t
<1>2. CASE ~n.noromfs
  <2>1. t = SectionSteps("romfs", n, lo, n.romfs_size, n.romfs_hashed)
    BY <1>2 DEF DecryptRomfs, SectionSteps
  <2>2. /\ "romfs" \in PadArgs /\ n \in Ncchs /\ lo \in Nat /\ n.romfs_size \in Nat
        /\ n.romfs_hashed \in Nat /\ n.romfs_hashed <= n.romfs_size
    BY NcchFields DEF PadArgs, Sized
  <2>3. c = RomfsCall(p) /\ c \in Calls(p) /\ "romfs" \in Wanted(n)
    BY <1>2, CallParts DEF RomfsCall, Wanted
  <2>4. [pos |-> lo, size |-> n.romfs_hashed] \in Hashed(p)
    <3>1. Area(p, n.romfs_offset, n.romfs_hashed) = [pos |-> lo, size |-> n.romfs_hashed]
      BY DEF Area
    <3>2. Area(p, n.romfs_offset, n.romfs_hashed) \in Hashed(p)
      BY <1>2 DEF Hashed
    <3> QED
      BY <3>1, <3>2
  <2> HIDE DEF t, lo
  <2>5. /\ t \in Seq(Steps) /\ Spans(t, lo, lo + n.romfs_size)
        /\ \A u \in Units(c) : Covered(t, u)
        /\ Proper(t, p)
    BY <2>1, <2>2, <2>3, <2>4, SectionCourse
  <2> QED
    BY <1>2, <2>3, <2>5 DEF t, lo
<1> QED
  BY <1>1, <1>2

(* The plan of a partition is of its own steps, goes through it from the   *)
(* beginning to the end, and decrypts every unit that is encrypted.        *)
LEMMA PlanCourse ==
  ASSUME NEW p, Sized(p)
  PROVE  LET t == Plan(p.ncch, p.base)
         IN /\ Proper(t, p) /\ Ascending(t)
            /\ \A c \in Calls(p) : \A u \in Units(c) : Covered(t, u)
<1> DEFINE n == p.ncch base == p.base
           r == Refusals h == DecryptExheader(n, base) e == Exefs(n, base)
           f == DecryptRomfs(n, base)
           x == base + HEADER_SIZE xx == x + EXHEADER_SIZE
           y == base + n.exefs_offset yy == y + n.exefs_size
           z == base + n.romfs_offset zz == z + n.romfs_size
           c1 == ExheaderCall(p) c3 == RomfsCall(p)
<1>1. Plan(n, base) = IF IsCfa(n) THEN Join(r, f) ELSE Join(Join(h, e), f)
  BY PlanParts
<1>2. /\ x \in Int /\ xx \in Int /\ y \in Int /\ yy \in Int /\ z \in Int /\ zz \in Int
      /\ x <= xx /\ y <= yy /\ z <= zz
      /\ ~IsCfa(n) => xx <= y
      /\ ~IsCfa(n) /\ ~n.noromfs => yy <= z
  BY SectionOrder
<1>3. /\ f \in Seq(Steps) /\ Proper(f, p)
      /\ n.noromfs => \A a, b : Spans(f, a, b)
      /\ ~n.noromfs => Spans(f, z, zz) /\ \A u \in Units(c3) : Covered(f, u)
  BY RomfsCourse
<1>4. ASSUME ~IsCfa(n)
      PROVE  /\ h \in Seq(Steps) /\ Proper(h, p) /\ Spans(h, x, xx)
             /\ \A u \in Units(c1) : Covered(h, u)
             /\ e \in Seq(Steps) /\ Proper(e, p) /\ Spans(e, y, yy)
             /\ \A u \in (y + 1) .. yy : Covered(e, u)
  <2>1. /\ h \in Seq(Steps) /\ Proper(h, p) /\ Spans(h, x, xx)
        /\ \A u \in Units(c1) : Covered(h, u)
    BY <1>4, ExheaderCourse
  <2>2. /\ e \in Seq(Steps) /\ Proper(e, p) /\ Spans(e, y, yy)
        /\ \A u \in (y + 1) .. yy : Covered(e, u)
    BY <1>4, ExefsCourse
  <2> QED
    BY <2>1, <2>2
<1>5. ASSUME ~IsCfa(n), NEW c \in ExefsCalls(p), NEW u \in Units(c)
      PROVE  u \in (y + 1) .. yy
  <2>1. IsCall(c) /\ Inside(c, y, yy)
    BY <1>5, ExefsCallPlaces
  <2> HIDE DEF y, yy
  <2>2. c.file_pos \in Nat /\ c.size \in Nat
    BY <2>1 DEF IsCall
  <2> QED
    BY <1>2, <2>1, <2>2 DEF Inside, Units
<1>6. \A c \in Calls(p) : \/ ~IsCfa(n) /\ (c = c1 \/ c \in ExefsCalls(p))
                          \/ ~n.noromfs /\ c = c3
  BY CallPlaces
<1> HIDE DEF r, h, e, f, x, xx, y, yy, z, zz, c1, c3
<1>7. CASE IsCfa(n)
  <2>1. r \in Seq(Steps) /\ Proper(r, p) /\ \A a, b : Spans(r, a, b)
    BY <1>7, RefusalsCourse DEF r
  <2>2. Proper(Join(r, f), p) /\ \A u : Covered(Join(r, f), u) <=> Covered(r, u) \/ Covered(f, u)
    BY <1>3, <2>1, JoinProper
  <2>3. Spans(f, z, zz)
    BY <1>3
  <2>4. Spans(r, z, z) /\ z <= z
    BY <1>2, <2>1
  <2>5. Spans(Join(r, f), z, zz)
    BY <1>2, <1>3, <2>1, <2>3, <2>4, JoinSpans
  <2>6. \A c \in Calls(p) : \A u \in Units(c) : Covered(f, u)
    BY <1>3, <1>6, <1>7
  <2> QED
    BY <1>1, <1>7, <2>2, <2>5, <2>6 DEF Spans
<1>8. CASE ~IsCfa(n)
  <2> DEFINE g == Join(h, e)
  <2>1. /\ g \in Seq(Steps) /\ Proper(g, p)
        /\ \A u : Covered(g, u) <=> Covered(h, u) \/ Covered(e, u)
    BY <1>4, <1>8, JoinSteps, JoinProper
  <2>2. x <= y /\ xx <= y /\ xx <= yy
    BY <1>2, <1>8
  <2>3. Spans(g, x, yy)
    BY <1>2, <1>4, <1>8, <2>2, JoinSpans
  <2> HIDE DEF g
  <2>4. /\ Proper(Join(g, f), p)
        /\ \A u : Covered(Join(g, f), u) <=> Covered(g, u) \/ Covered(f, u)
    BY <1>3, <2>1, JoinProper
  <2>5. Ascending(Join(g, f))
    <3>1. CASE n.noromfs
      <4>1. Spans(f, yy, yy) /\ x <= yy /\ yy <= yy
        BY <1>2, <1>3, <2>2, <3>1
      <4>2. Spans(Join(g, f), x, yy)
        BY <1>2, <1>3, <2>1, <2>3, <4>1, JoinSpans
      <4> QED
        BY <4>2 DEF Spans
    <3>2. CASE ~n.noromfs
      <4>1. Spans(f, z, zz) /\ x <= z /\ yy <= z /\ yy <= zz
        BY <1>2, <1>3, <1>8, <2>2, <3>2
      <4>2. Spans(Join(g, f), x, zz)
        BY <1>2, <1>3, <2>1, <2>3, <4>1, JoinSpans
      <4> QED
        BY <4>2 DEF Spans
    <3> QED
      BY <3>1, <3>2
  <2>6. ASSUME NEW c \in Calls(p), NEW u \in Units(c)
        PROVE  Covered(Join(g, f), u)
    <3>1. CASE c = c1
      BY <1>4, <1>8, <2>1, <2>4, <2>6, <3>1
    <3>2. CASE c \in ExefsCalls(p)
      BY <1>4, <1>5, <1>8, <2>1, <2>4, <2>6, <3>2
    <3>3. CASE ~n.noromfs /\ c = c3
      BY <1>3, <2>4, <2>6, <3>3
    <3> QED
      BY <1>6, <3>1, <3>2, <3>3
  <2> QED
    BY <1>1, <1>8, <2>4, <2>5, <2>6 DEF g
<1> QED
  BY <1>7, <1>8

(* A number below the modulus.                                             *)
LEMMA ModBelow ==
  ASSUME NEW k \in Nat \ {0}, NEW a \in Nat, a < k
  PROVE  a % k = a
OBVIOUS

(* What is planned from the header of a 7.x ExeFS is what was left of it,  *)
(* as long as it is smaller than 2^32.                                     *)
LEMMA RegionsCourse ==
  ASSUME NEW p, Sized(p), ~IsCfa(p.ncch), p.ncch.extra_keyslot
  PROVE  LET n == p.ncch
             pos == p.base + n.exefs_offset
             t == CodeRegions(n, pos)
         IN /\ t \in Seq(Steps) /\ Proper(t, p)
            /\ Spans(t, pos + HEADER_SIZE, pos + n.exefs_size)
            /\ \A u \in Int : Covered(t, u) <=> /\ pos + HEADER_SIZE < u
                                                /\ u <= pos + n.exefs_size
<1> DEFINE n == p.ncch pos == p.base + n.exefs_offset total == n.exefs_size
           off == n.code.file_off size == n.code.file_size
           start == HEADER_SIZE + off end == start + size
           rest == total - (end % U32_MOD)
           x == XorWith("exefs", pos + HEADER_SIZE, HEADER_SIZE, off)
           y == XorWith("exefs7x", pos + start, start, size)
           z == XorWith("exefs", pos + end, end, rest)
           lo == pos + HEADER_SIZE hi == pos + total
           t == <<x, y, z>>
<1>1. t = CodeRegions(n, pos)
  BY DEF CodeRegions
<1>2. /\ off \in Nat /\ size \in Nat /\ end <= total /\ total < U32_MOD /\ total \in Nat
      /\ pos \in Nat /\ HEADER_SIZE \in Nat
  BY CodePlace, SectionOrder
<1>3. end % U32_MOD = end
  <2>1. end \in Nat /\ end < U32_MOD /\ U32_MOD \in Nat \ {0}
    <3> HIDE DEF off, size, total
    <3> QED
      BY <1>2, U32Assumption
  <2> HIDE DEF end
  <2> QED
    BY <2>1, ModBelow
<1> DEFINE w == XorWith("exefs", pos + end, end, total - end)
<1>4. z = w
  BY <1>3
<1>5. x \in Calls(p) /\ y \in Calls(p) /\ w \in Calls(p)
  <2>1. x \in ExefsCalls(p) /\ y \in ExefsCalls(p) /\ w \in ExefsCalls(p)
    BY DEF ExefsCalls
  <2> QED
    BY <2>1, CallParts
<1>6. /\ x.kind = "xor" /\ x.arg = "exefs" /\ x.file_pos = lo
      /\ x.pad_pos = HEADER_SIZE /\ x.size = off
      /\ y.kind = "xor" /\ y.arg = "exefs7x" /\ y.file_pos = pos + start
      /\ y.pad_pos = start /\ y.size = size
      /\ z.kind = "xor" /\ z.arg = "exefs" /\ z.file_pos = pos + end
      /\ z.pad_pos = end /\ z.size = total - end
  BY <1>4 DEF XorWith
<1> HIDE DEF w
<1>7. {"exefs", "exefs7x"} \subseteq {"exefs", "exefs7x"} /\ n \in Ncchs
  BY DEF Sized
<1>8. t \in Seq(Steps)
  <2> HIDE DEF pos, x, y, z
  <2> QED
    BY <1>1, <1>2, <1>7, CodeRegionsLemma
<1> HIDE DEF x, y, z
<1>9. Len(t) = 3 /\ t[1] = x /\ t[2] = y /\ t[3] = z
  OBVIOUS
<1> HIDE DEF t, off, size, total, pos
<1>10. /\ lo \in Int /\ hi \in Int /\ lo <= pos + start /\ lo <= pos + end
       /\ lo + off = pos + start /\ pos + start + size = pos + end
       /\ pos + end + (total - end) = hi
       /\ pos + start <= hi /\ pos + end <= hi
       /\ pos + start \in Int /\ pos + end \in Int
       /\ pos + start <= pos + end
  BY <1>2
<1> HIDE DEF lo, hi, start, end
<1>11. \A j \in 1 .. 3 : j = 1 \/ j = 2 \/ j = 3
  OBVIOUS
<1>12. Proper(t, p)
  <2>1. Belongs(x, p) /\ Belongs(y, p) /\ Belongs(z, p)
    BY <1>4, <1>5, <1>6 DEF Belongs
  <2> QED
    BY <1>9, <1>11, <2>1 DEF Proper
<1>13. /\ Start(x) = lo /\ Start(y) = pos + start /\ Start(z) = pos + end
       /\ EndsBy(x, pos + start) /\ EndsBy(x, pos + end) /\ EndsBy(x, hi)
       /\ EndsBy(y, pos + end) /\ EndsBy(y, hi) /\ EndsBy(z, hi)
  BY <1>6, <1>10 DEF Start, EndsBy
<1>14. Between(t, lo, hi)
  BY <1>9, <1>10, <1>11, <1>13 DEF Between
<1>15. Ascending(t)
  <2>1. \A i \in 1 .. (1 - 1) : FALSE
    OBVIOUS
  <2>2. \A i \in 1 .. (2 - 1) : i = 1
    OBVIOUS
  <2>3. \A i \in 1 .. (3 - 1) : i = 1 \/ i = 2
    OBVIOUS
  <2> QED
    BY <1>9, <1>11, <1>13, <2>1, <2>2, <2>3 DEF Ascending
<1>16. ASSUME NEW u \in Int
       PROVE  Covered(t, u) <=> lo < u /\ u <= hi
  <2>1. Covered(t, u) <=> Covers(x, u) \/ Covers(y, u) \/ Covers(z, u)
    BY <1>9, <1>11 DEF Covered
  <2>2. /\ Covers(x, u) <=> u \in Units(x)
        /\ Covers(y, u) <=> u \in Units(y)
        /\ Covers(z, u) <=> u \in Units(z)
    BY <1>6 DEF Covers
  <2>3. /\ u \in Units(x) <=> lo < u /\ u <= pos + start
        /\ u \in Units(y) <=> pos + start < u /\ u <= pos + end
        /\ u \in Units(z) <=> pos + end < u /\ u <= hi
    BY <1>6, <1>10 DEF Units
  <2> QED
    BY <1>10, <2>1, <2>2, <2>3
<1> QED
  BY <1>1, <1>8, <1>12, <1>14, <1>15, <1>16 DEF Spans, lo, hi, pos, total

-----------------------------------------------------------------------------
(* What a plan begins with.                                                *)

(* The first thing t writes is c, and it leaves a alone from then on.      *)
Leads(t, c, a) ==
  \E i \in 1 .. Len(t) :
    /\ t[i] = c
    /\ \A j \in 1 .. (i - 1) : ~Writes(t[j])
    /\ \A j \in (i + 1) .. Len(t) : ~Touches(t[j], a)

(* The first call for a partition, and what is hashed of what it decrypts. *)
FirstCall(p) == IF IsCfa(p.ncch) THEN RomfsCall(p) ELSE ExheaderCall(p)

FirstHash(p) ==
  [pos |-> FirstCall(p).file_pos,
   size |-> IF IsCfa(p.ncch) THEN MinOf(p.ncch.romfs_hashed, p.ncch.romfs_size)
            ELSE EXHEADER_HASHED]

(* A section's steps begin with its call.                                  *)
LEMMA SectionLeads ==
  ASSUME NEW arg \in PadArgs, NEW n \in Ncchs, NEW pos \in Nat, NEW size \in Nat,
         NEW hashed \in Nat, NEW a
  PROVE  Leads(SectionSteps(arg, n, pos, size, hashed), XorWith(arg, pos, 0, size), a)
<1> DEFINE t == SectionSteps(arg, n, pos, size, hashed)
           x == Need(arg) y == XorWith(arg, pos, 0, size) z == Hash(n, pos, hashed)
<1>1. x \in Steps /\ y \in Steps /\ z \in Steps
  BY StepsMade
<1>2. /\ t \in Seq(Steps) /\ Len(t) = 3
      /\ t[1] = x /\ t[2] = y /\ t[3] = z
  BY <1>1, ThreeSteps DEF SectionSteps
<1>3. ~Writes(x) /\ ~Touches(z, a)
  BY DEF Need, Hash, Writes, Touches
<1> HIDE DEF t, x, y, z
<1>4. /\ \A j \in 1 .. (2 - 1) : j = 1
      /\ \A j \in (2 + 1) .. 3 : j = 3
      /\ 2 \in 1 .. 3
  OBVIOUS
<1>5. /\ \A j \in 1 .. (2 - 1) : ~Writes(t[j])
      /\ \A j \in (2 + 1) .. 3 : ~Touches(t[j], a)
  BY <1>2, <1>3, <1>4
<1>6. Leads(t, y, a)
  BY <1>2, <1>4, <1>5 DEF Leads
<1> QED
  BY <1>6 DEF t, y

(* With steps after it, or steps before it that write nothing.             *)
LEMMA JoinLeads ==
  ASSUME NEW r \in Seq(Steps), NEW t \in Seq(Steps), NEW c, NEW a
  PROVE  /\ Leads(r, c, a) /\ Untouched(t, a) => Leads(Join(r, t), c, a)
         /\ (\A j \in 1 .. Len(r) : ~Writes(r[j])) /\ Leads(t, c, a)
              => Leads(Join(r, t), c, a)
<1> DEFINE v == Join(r, t) m == Len(r) n == Len(t)
<1>1. /\ Len(v) = m + n /\ m \in Nat /\ n \in Nat
      /\ \A i \in 1 .. m : v[i] = r[i]
      /\ \A i \in 1 .. n : v[m + i] = t[i]
  BY JoinSteps
<1> HIDE DEF v
<1>2. ASSUME NEW j \in 1 .. (m + n), ~(j \in 1 .. m)
      PROVE  j - m \in 1 .. n /\ v[j] = t[j - m]
  <2>1. j - m \in 1 .. n /\ m + (j - m) = j
    BY <1>1, <1>2
  <2> QED
    BY <1>1, <2>1
<1>3. ASSUME Leads(r, c, a), Untouched(t, a)
      PROVE  Leads(v, c, a)
  <2>1. PICK i \in 1 .. m : /\ r[i] = c
                            /\ \A j \in 1 .. (i - 1) : ~Writes(r[j])
                            /\ \A j \in (i + 1) .. m : ~Touches(r[j], a)
    BY <1>3 DEF Leads
  <2>2. i \in 1 .. (m + n) /\ v[i] = c
    BY <1>1, <2>1
  <2>3. ASSUME NEW j \in 1 .. (i - 1)
        PROVE  ~Writes(v[j])
    <3>1. j \in 1 .. m
      BY <1>1, <2>1
    <3> QED
      BY <1>1, <2>1, <3>1
  <2>4. ASSUME NEW j \in (i + 1) .. (m + n)
        PROVE  ~Touches(v[j], a)
    <3>1. CASE j \in 1 .. m
      <4>1. j \in (i + 1) .. m
        BY <1>1, <2>1, <3>1
      <4> QED
        BY <1>1, <2>1, <3>1, <4>1
    <3>2. CASE ~(j \in 1 .. m)
      <4>1. j \in 1 .. (m + n)
        BY <1>1, <2>1
      <4> QED
        BY <1>2, <1>3, <3>2, <4>1 DEF Untouched
    <3> QED
      BY <3>1, <3>2
  <2> QED
    BY <1>1, <2>2, <2>3, <2>4 DEF Leads
<1>4. ASSUME \A j \in 1 .. m : ~Writes(r[j]), Leads(t, c, a)
      PROVE  Leads(v, c, a)
  <2>1. PICK i \in 1 .. n : /\ t[i] = c
                            /\ \A j \in 1 .. (i - 1) : ~Writes(t[j])
                            /\ \A j \in (i + 1) .. n : ~Touches(t[j], a)
    BY <1>4 DEF Leads
  <2> DEFINE k == m + i
  <2>2. k \in 1 .. (m + n) /\ v[k] = c
    BY <1>1, <2>1
  <2>3. ASSUME NEW j \in 1 .. (k - 1)
        PROVE  ~Writes(v[j])
    <3>1. CASE j \in 1 .. m
      BY <1>1, <1>4, <3>1
    <3>2. CASE ~(j \in 1 .. m)
      <4>1. j \in 1 .. (m + n) /\ j - m \in 1 .. (i - 1)
        BY <1>1, <2>1, <2>2, <3>2
      <4> QED
        BY <1>2, <2>1, <3>2, <4>1
    <3> QED
      BY <3>1, <3>2
  <2>4. ASSUME NEW j \in (k + 1) .. (m + n)
        PROVE  ~Touches(v[j], a)
    <3>1. j \in 1 .. (m + n) /\ ~(j \in 1 .. m) /\ j - m \in (i + 1) .. n
      BY <1>1, <2>1, <2>4
    <3> QED
      BY <1>2, <2>1, <3>1
  <2> HIDE DEF k
  <2> QED
    BY <1>1, <2>2, <2>3, <2>4 DEF Leads
<1> QED
  BY <1>3, <1>4 DEF v

(* As the first step is taken: it is the call, or there is nothing changed.*)
LEMMA TailLeads ==
  ASSUME NEW t \in Seq(Steps), t # <<>>, NEW c, NEW a, Leads(t, c, a)
  PROVE  \/ Head(t) = c /\ Untouched(Tail(t), a)
         \/ ~Writes(Head(t)) /\ Leads(Tail(t), c, a)
<1> DEFINE h == Head(t) v == Tail(t) n == Len(t)
<1>1. /\ Len(v) = n - 1 /\ n \in Nat \ {0} /\ h = t[1]
      /\ \A i \in 1 .. (n - 1) : v[i] = t[i + 1]
  BY TailSteps
<1> HIDE DEF v
<1>2. PICK i \in 1 .. n : /\ t[i] = c
                          /\ \A j \in 1 .. (i - 1) : ~Writes(t[j])
                          /\ \A j \in (i + 1) .. n : ~Touches(t[j], a)
  BY DEF Leads
<1>3. \A j \in i .. (n - 1) : ~Touches(v[j], a)
  <2> SUFFICES ASSUME NEW j \in i .. (n - 1)
               PROVE  ~Touches(v[j], a)
    OBVIOUS
  <2>1. j \in 1 .. (n - 1) /\ j + 1 \in (i + 1) .. n
    BY <1>1, <1>2
  <2> QED
    BY <1>1, <1>2, <2>1
<1>4. CASE i = 1
  BY <1>1, <1>2, <1>3, <1>4 DEF Untouched, v
<1>5. CASE i # 1
  <2>1. 1 \in 1 .. (i - 1) /\ i - 1 \in 1 .. (n - 1) /\ (i - 1) + 1 = i
    BY <1>1, <1>2, <1>5
  <2>2. v[i - 1] = c /\ ~Writes(h)
    BY <1>1, <1>2, <2>1
  <2>3. ASSUME NEW j \in 1 .. ((i - 1) - 1)
        PROVE  ~Writes(v[j])
    <3>1. j \in 1 .. (n - 1) /\ j + 1 \in 1 .. (i - 1)
      BY <1>1, <1>2
    <3> QED
      BY <1>1, <1>2, <3>1
  <2>4. \A j \in ((i - 1) + 1) .. (n - 1) : ~Touches(v[j], a)
    BY <1>3, <2>1
  <2> QED
    BY <1>1, <2>1, <2>2, <2>3, <2>4 DEF Leads, v
<1> QED
  BY <1>4, <1>5

(* The plan of a partition begins with its first call, and what is hashed  *)
(* of what that decrypts is not written to again.                          *)
LEMMA PlanLeads ==
  ASSUME NEW p, p.ncch \in Ncchs, p.base \in Nat,
         ~IsCfa(p.ncch) => LaidOut(p.ncch), ~(IsCfa(p.ncch) /\ p.ncch.noromfs)
  PROVE  Leads(Plan(p.ncch, p.base), FirstCall(p), FirstHash(p))
<1> DEFINE n == p.ncch base == p.base c == FirstCall(p) a == FirstHash(p)
           r == Refusals h == DecryptExheader(n, base) e == Exefs(n, base)
           f == DecryptRomfs(n, base) end == a.pos + a.size
<1>1. Plan(n, base) = IF IsCfa(n) THEN Join(r, f) ELSE Join(Join(h, e), f)
  BY PlanParts
<1>2. /\ r \in Seq(Steps) /\ h \in Seq(Steps) /\ e \in Seq(Steps) /\ f \in Seq(Steps)
      /\ Join(h, e) \in Seq(Steps)
  BY RefusalsLemma, ExheaderLemma, ExefsLemma, RomfsLemma, JoinSteps
<1>3. /\ n.exefs_offset \in Nat /\ n.exefs_size \in Nat
      /\ n.romfs_offset \in Nat /\ n.romfs_size \in Nat /\ n.romfs_hashed \in Nat
      /\ EXHEADER_SIZE \in Nat /\ EXHEADER_HASHED \in Nat
      /\ EXHEADER_HASHED <= EXHEADER_SIZE /\ HEADER_SIZE \in Nat
  BY NcchFields, ExheaderAssumption DEF HEADER_SIZE
<1>4. CASE IsCfa(n)
  <2> DEFINE pos == base + n.romfs_offset
  <2>1. f = SectionSteps("romfs", n, pos, n.romfs_size, n.romfs_hashed)
    BY <1>4 DEF DecryptRomfs, SectionSteps
  <2>2. c = XorWith("romfs", pos, 0, n.romfs_size)
    BY <1>4 DEF FirstCall, RomfsCall
  <2>3. "romfs" \in PadArgs /\ pos \in Nat
    BY <1>3 DEF PadArgs
  <2> HIDE DEF pos, f, a, c
  <2>4. Leads(f, c, a)
    BY <1>3, <2>1, <2>2, <2>3, SectionLeads
  <2>5. \A j \in 1 .. Len(r) : ~Writes(r[j])
    BY <1>4, RefusalsCourse DEF Refusals, Writes, Refuse
  <2>6. Leads(Join(r, f), c, a)
    BY <1>2, <2>4, <2>5, JoinLeads
  <2> QED
    BY <1>1, <1>4, <2>6 DEF c, a
<1>5. CASE ~IsCfa(n)
  <2> DEFINE pos == base + HEADER_SIZE
  <2>1. h = SectionSteps("exheader", n, pos, EXHEADER_SIZE, EXHEADER_HASHED)
    BY DEF DecryptExheader, SectionSteps
  <2>2. c = XorWith("exheader", pos, 0, EXHEADER_SIZE) /\ c.file_pos = pos
    BY <1>5 DEF FirstCall, ExheaderCall, XorWith
  <2>3. "exheader" \in PadArgs /\ pos \in Nat
    BY <1>3 DEF PadArgs
  <2>4. a.pos = pos /\ a.size = EXHEADER_HASHED
    BY <1>5, <2>2 DEF FirstHash
  <2>5. HEADER_SIZE + EXHEADER_SIZE <= n.exefs_offset
    BY <1>5 DEF LaidOut
  <2>6. end \in Int /\ end <= base + n.exefs_offset
    BY <1>3, <2>4, <2>5
  <2>7. Untouched(e, a)
    BY <2>6, ExefsLemma
  <2>8. Untouched(f, a)
    <3>1. CASE n.noromfs
      BY <3>1, RomfsLemma
    <3>2. CASE ~n.noromfs
      <4>1. n.exefs_offset + n.exefs_size <= n.romfs_offset
        BY <1>5, <3>2 DEF LaidOut
      <4>2. end <= base + n.romfs_offset
        BY <1>3, <2>6, <4>1
      <4> QED
        BY <2>6, <4>2, RomfsLemma
    <3> QED
      BY <3>1, <3>2
  <2> HIDE DEF pos, h, a, c, e, f
  <2>9. Leads(h, c, a)
    BY <1>3, <2>1, <2>2, <2>3, SectionLeads
  <2>10. Leads(Join(h, e), c, a)
    BY <1>2, <2>7, <2>9, JoinLeads
  <2>11. Leads(Join(Join(h, e), f), c, a)
    BY <1>2, <2>8, <2>10, JoinLeads
  <2> QED
    BY <1>1, <1>5, <2>11 DEF c, a, h, e, f
<1> QED
  BY <1>4, <1>5
=============================================================================
