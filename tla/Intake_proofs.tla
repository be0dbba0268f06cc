--------------------------- MODULE Intake_proofs ----------------------------
(***************************************************************************)
(* Proofs about Intake, for every length of a block and a payload with     *)
(* room for its encoding, every line and every way it is cut into reads,   *)
(* any pool limit and requests: decoding inverts encoding; the framer      *)
(* finds every frame that arrives whole; what the pool holds was sent; the *)
(* block list is a row of bytes (FlatPool).                                *)
(*                                                                         *)
(* Encoding, decoding and flattening are recursive.  What they compute is  *)
(* proved by SetInduction, which takes the set of the numbers a claim      *)
(* holds for.                                                              *)
(***************************************************************************)
EXTENDS Intake, WellFoundedInduction, SequenceTheorems, FiniteSetTheorems, TLAPS

-----------------------------------------------------------------------------
(* Induction, and sequences                                                *)

(* Induction over the natural numbers, for a set of them.                  *)
LEMMA SetInduction ==
  ASSUME NEW S, 0 \in S, \A n \in Nat : n \in S => n + 1 \in S
  PROVE  Nat \subseteq S
<1> DEFINE T == Nat \ S
           R == {ss \in Nat \X Nat : ss[1] < ss[2]}
<1> SUFFICES ASSUME T # {} PROVE FALSE
  OBVIOUS
<1>1. OpToRel(<, Nat) = R
  BY DEF OpToRel
<1>2. IsWellFoundedOn(R, Nat)
  BY <1>1, NatLessThanWellFounded
<1>3. PICK x \in T : \A y \in T : ~ (<<y, x>> \in R)
  <2>1. T \subseteq Nat
    OBVIOUS
  <2> HIDE DEF T, R
  <2> QED
    BY <1>2, <2>1, WFMin
<1>4. \A y \in T : ~(y < x)
  BY <1>3
<1>5. x # 0
  BY <1>3
<1>6. x - 1 \in Nat
  BY <1>3, <1>5
<1>7. x - 1 \in S
  BY <1>4, <1>6
<1>8. x \in S
  BY <1>6, <1>7
<1> QED
  BY <1>8, <1>3

(* What FlattenSeq computes along a sequence of sequences.                 *)
Flattens(f, ss) ==
  f = [i \in 1 .. Len(ss) |-> IF i = 1 THEN ss[i] ELSE f[i - 1] \o ss[i]]

(* Such a function exists for every sequence of sequences.                 *)
LEMMA FlattenExists ==
  ASSUME NEW S, NEW ss \in Seq(Seq(S))
  PROVE  \E f : Flattens(f, ss)
<1> DEFINE Upto(f, n) ==
             f = [i \in 1 .. n |-> IF i = 1 THEN ss[i] ELSE f[i - 1] \o ss[i]]
           Q == {n \in Nat : \E f : Upto(f, n)}
<1>1. 0 \in Q
  <2>1. Upto(<<>>, 0)
    OBVIOUS
  <2> QED
    BY <2>1
<1>2. ASSUME NEW n \in Nat, n \in Q
      PROVE  n + 1 \in Q
  <2>1. PICK f : Upto(f, n)
    BY <1>2
  <2> DEFINE g == [i \in 1 .. n + 1 |->
                     IF i = n + 1 THEN IF i = 1 THEN ss[i] ELSE f[i - 1] \o ss[i] ELSE f[i]]
  <2>2. \A i \in 1 .. n + 1 : g[i] = IF i = 1 THEN ss[i] ELSE g[i - 1] \o ss[i]
    <3> SUFFICES ASSUME NEW i \in 1 .. n + 1
                 PROVE  g[i] = IF i = 1 THEN ss[i] ELSE g[i - 1] \o ss[i]
      OBVIOUS
    <3>1. CASE i = 1
      BY <2>1, <3>1
    <3>2. CASE i # 1
      <4>1. i - 1 \in 1 .. n /\ g[i - 1] = f[i - 1]
        BY <3>2
      <4>2. CASE i = n + 1
        BY <3>2, <4>1, <4>2
      <4>3. CASE i # n + 1
        <5>1. i \in 1 .. n /\ g[i] = f[i]
          BY <4>3
        <5> HIDE DEF g
        <5> QED
          BY <2>1, <3>2, <4>1, <5>1
      <4> QED
        BY <4>2, <4>3
    <3> QED
      BY <3>1, <3>2
  <2>3. Upto(g, n + 1)
    <3>1. g = [i \in 1 .. n + 1 |-> g[i]]
      OBVIOUS
    <3> HIDE DEF g
    <3> QED
      BY <2>2, <3>1
  <2> HIDE DEF g, Upto
  <2> QED
    BY <2>3
<1>3. Nat \subseteq Q
  <2> HIDE DEF Q
  <2> QED
    BY <1>1, <1>2, SetInduction
<1>4. \E f : Upto(f, Len(ss))
  <2> HIDE DEF Upto
  <2> QED
    BY <1>3
<1> QED
  BY <1>4 DEF Flattens

(* FlattenSeq is the last value of one.                                    *)
LEMMA FlattenIs ==
  ASSUME NEW S, NEW ss \in Seq(Seq(S)), ss # <<>>
  PROVE  \E f : Flattens(f, ss) /\ FlattenSeq(ss) = f[Len(ss)]
<1> DEFINE f == CHOOSE g : Flattens(g, ss)
<1>1. Flattens(f, ss)
  BY FlattenExists
<1>2. FlattenSeq(ss) = f[Len(ss)]
  BY DEF FlattenSeq, Flattens
<1> QED
  BY <1>1, <1>2

-----------------------------------------------------------------------------
(* Its values, one by one.                                                 *)
LEMMA FlattensAt ==
  ASSUME NEW ss, NEW f, Flattens(f, ss), NEW i \in 1 .. Len(ss)
  PROVE  f[i] = IF i = 1 THEN ss[i] ELSE f[i - 1] \o ss[i]
BY DEF Flattens

(* Two of them, for sequences that begin alike, begin alike.               *)
LEMMA FlattensAgree ==
  ASSUME NEW S, NEW ss \in Seq(Seq(S)), NEW tt \in Seq(Seq(S)),
         Len(ss) <= Len(tt), \A i \in 1 .. Len(ss) : ss[i] = tt[i],
         NEW f, NEW g, Flattens(f, ss), Flattens(g, tt)
  PROVE  \A i \in 1 .. Len(ss) : f[i] = g[i] /\ f[i] \in Seq(S)
<1> DEFINE n == Len(ss)
<1> DEFINE Q == {i \in Nat : i \in 1 .. n => f[i] = g[i] /\ f[i] \in Seq(S)}
<1>1. 0 \in Q
  OBVIOUS
<1>2. ASSUME NEW i \in Nat, i \in Q
      PROVE  i + 1 \in Q
  <2> SUFFICES ASSUME i + 1 \in 1 .. n
               PROVE  f[i + 1] = g[i + 1] /\ f[i + 1] \in Seq(S)
    OBVIOUS
  <2>1. /\ f[i + 1] = IF i + 1 = 1 THEN ss[i + 1] ELSE f[i + 1 - 1] \o ss[i + 1]
        /\ g[i + 1] = IF i + 1 = 1 THEN tt[i + 1] ELSE g[i + 1 - 1] \o tt[i + 1]
    <3>1. i + 1 \in 1 .. Len(ss) /\ i + 1 \in 1 .. Len(tt)
      BY LenProperties
    <3> QED
      BY <3>1, FlattensAt
  <2>2. ss[i + 1] = tt[i + 1] /\ ss[i + 1] \in Seq(S)
    OBVIOUS
  <2>3. CASE i = 0
    BY <2>1, <2>2, <2>3
  <2>4. CASE i # 0
    <3>1. f[i] = g[i] /\ f[i] \in Seq(S)
      BY <1>2, <2>4
    <3> QED
      BY <2>1, <2>2, <2>4, <3>1
  <2> QED
    BY <2>3, <2>4
<1>3. Nat \subseteq Q
  <2> HIDE DEF Q
  <2> QED
    BY <1>1, <1>2, SetInduction
<1> QED
  BY <1>3

(* FlattenSeq, one sequence more at a time.                                *)
LEMMA FlattenAppend ==
  ASSUME NEW S, NEW ss \in Seq(Seq(S)), NEW s \in Seq(S)
  PROVE  /\ FlattenSeq(ss) \in Seq(S)
         /\ FlattenSeq(Append(ss, s)) = FlattenSeq(ss) \o s
<1> DEFINE tt == Append(ss, s)
<1>1. /\ tt \in Seq(Seq(S)) /\ tt # <<>> /\ Len(tt) = Len(ss) + 1 /\ tt[Len(ss) + 1] = s
      /\ \A i \in 1 .. Len(ss) : ss[i] = tt[i]
  <2> s \in Seq(S)
    OBVIOUS
  <2> QED
    BY AppendProperties
<1>2. PICK g : Flattens(g, tt) /\ FlattenSeq(tt) = g[Len(tt)]
  <2> HIDE DEF tt
  <2> QED
    BY <1>1, FlattenIs
<1> HIDE DEF tt
<1>3. g[Len(tt)] = IF Len(tt) = 1 THEN s ELSE g[Len(ss)] \o s
  <2>1. Len(ss) \in Nat /\ Len(tt) \in 1 .. Len(tt) /\ Len(tt) - 1 = Len(ss)
    BY <1>1, LenProperties
  <2>2. g[Len(tt)] = IF Len(tt) = 1 THEN tt[Len(tt)] ELSE g[Len(tt) - 1] \o tt[Len(tt)]
    BY <1>2, <2>1, FlattensAt
  <2> QED
    BY <1>1, <2>1, <2>2
<1>4. CASE ss = <<>>
  <2>1. FlattenSeq(ss) = <<>>
    BY <1>4 DEF FlattenSeq
  <2>2. Len(tt) = 1
    BY <1>1, <1>4
  <2>3. FlattenSeq(ss) \in Seq(S) /\ FlattenSeq(ss) \o s = s
    BY <2>1, EmptySeq, ConcatEmptySeq
  <2> QED
    BY <1>2, <1>3, <2>2, <2>3 DEF tt
<1>5. CASE ss # <<>>
  <2>1. PICK f : Flattens(f, ss) /\ FlattenSeq(ss) = f[Len(ss)]
    BY <1>5, FlattenIs
  <2>2. Len(ss) \in Nat /\ Len(ss) >= 1 /\ Len(ss) <= Len(tt) /\ Len(tt) # 1
    BY <1>1, <1>5
  <2>3. \A i \in 1 .. Len(ss) : f[i] = g[i] /\ f[i] \in Seq(S)
    <3>1. Flattens(f, ss) /\ Flattens(g, tt)
      BY <1>2, <2>1
    <3> QED
      BY <1>1, <2>2, <3>1, FlattensAgree
  <2>4. f[Len(ss)] = g[Len(ss)] /\ f[Len(ss)] \in Seq(S)
    BY <2>2, <2>3
  <2> QED
    BY <1>2, <1>3, <2>1, <2>2, <2>4 DEF tt
<1> QED
  BY <1>4, <1>5

(* Concatenation is associative.                                           *)
LEMMA Associative ==
  ASSUME NEW S, NEW a \in Seq(S), NEW b \in Seq(S), NEW c \in Seq(S)
  PROVE  a \o (b \o c) = (a \o b) \o c
OBVIOUS

(* The facts about sequences that are needed again and again.              *)
LEMMA SeqFacts ==
  ASSUME NEW S, NEW s \in Seq(S)
  PROVE  /\ Len(s) \in Nat /\ DOMAIN s = 1 .. Len(s) /\ (s # <<>> => Len(s) >= 1)
         /\ \A i \in 1 .. Len(s) : s[i] \in S
BY LenProperties, ElementOfSeq, EmptySeq

(* A sequence with one element more.                                       *)
LEMMA AppendFacts ==
  ASSUME NEW S, NEW s \in Seq(S), NEW e \in S
  PROVE  /\ Append(s, e) \in Seq(S) /\ Len(Append(s, e)) = Len(s) + 1
         /\ Append(s, e)[Len(s) + 1] = e
         /\ \A i \in 1 .. Len(s) : Append(s, e)[i] = s[i]
BY AppendProperties

(* The elements of two sequences in a row.                                 *)
LEMMA Joined ==
  ASSUME NEW S, NEW x \in Seq(S), NEW y \in Seq(S)
  PROVE  /\ x \o y \in Seq(S) /\ Len(x \o y) = Len(x) + Len(y)
         /\ \A i \in 1 .. Len(x) : (x \o y)[i] = x[i]
         /\ \A i \in 1 .. Len(y) : (x \o y)[Len(x) + i] = y[i]
<1>1. Len(x) \in Nat /\ Len(y) \in Nat
  BY SeqFacts
<1>2. /\ x \o y \in Seq(S) /\ Len(x \o y) = Len(x) + Len(y)
      /\ \A i \in 1 .. Len(x) + Len(y) : (x \o y)[i] = IF i <= Len(x) THEN x[i]
                                                        ELSE y[i - Len(x)]
  BY ConcatProperties
<1>3. ASSUME NEW i \in 1 .. Len(y)
      PROVE  (x \o y)[Len(x) + i] = y[i]
  <2>1. Len(x) + i \in 1 .. Len(x) + Len(y) /\ ~(Len(x) + i <= Len(x))
        /\ Len(x) + i - Len(x) = i
    BY <1>1
  <2> QED
    BY <1>2, <2>1
<1>4. ASSUME NEW i \in 1 .. Len(x)
      PROVE  (x \o y)[i] = x[i]
  <2>1. i \in 1 .. Len(x) + Len(y) /\ i <= Len(x)
    BY <1>1
  <2> QED
    BY <1>2, <2>1
<1> QED
  BY <1>2, <1>3, <1>4

(* A piece of a sequence.                                                  *)
LEMMA Piece ==
  ASSUME NEW S, NEW s \in Seq(S), NEW m \in 0 .. Len(s), NEW n \in m .. Len(s)
  PROVE  /\ SubSeq(s, m + 1, n) \in Seq(S) /\ Len(SubSeq(s, m + 1, n)) = n - m
         /\ \A i \in 1 .. n - m : SubSeq(s, m + 1, n)[i] = s[m + i]
<1>1. Len(s) \in Nat /\ m \in Nat /\ n \in Nat /\ m <= n /\ n <= Len(s)
  BY SeqFacts
<1>2. \A i \in m + 1 .. n : s[i] \in S
  BY <1>1, SeqFacts
<1>3. /\ SubSeq(s, m + 1, n) \in Seq(S)
      /\ Len(SubSeq(s, m + 1, n)) = IF m + 1 <= n THEN n - (m + 1) + 1 ELSE 0
      /\ \A i \in 1 .. n - (m + 1) + 1 : SubSeq(s, m + 1, n)[i] = s[m + 1 + i - 1]
  <2>1. m + 1 \in Int /\ n \in Int
    BY <1>1
  <2> QED
    BY <1>2, <2>1, SubSeqProperties
<1> QED
  BY <1>1, <1>3

(* Pieces that follow one another up to the end make the whole.            *)
LEMMA FlattenPieces ==
  ASSUME NEW S, NEW t \in Seq(S), NEW ss \in Seq(Seq(S)),
         NEW ends \in [0 .. Len(ss) -> 0 .. Len(t)], ends[0] = 0, ends[Len(ss)] = Len(t),
         \A g \in 1 .. Len(ss) :
           ends[g - 1] <= ends[g] /\ ss[g] = SubSeq(t, ends[g - 1] + 1, ends[g])
  PROVE  FlattenSeq(ss) = t
<1>0. Len(t) \in Nat /\ Len(ss) \in Nat
  BY SeqFacts
<1>1. CASE ss = <<>>
  <2>1. Len(t) = 0
    BY <1>1
  <2>2. t = <<>>
    BY <2>1, EmptySeq
  <2> QED
    BY <1>1, <2>2 DEF FlattenSeq
<1>2. CASE ss # <<>>
  <2>1. PICK f : Flattens(f, ss) /\ FlattenSeq(ss) = f[Len(ss)]
    BY <1>2, FlattenIs
  <2> DEFINE Q == {n \in Nat : n \in 1 .. Len(ss) => f[n] = SubSeq(t, 1, ends[n])}
  <2>2. 0 \in Q
    OBVIOUS
  <2>3. ASSUME NEW n \in Nat, n \in Q
        PROVE  n + 1 \in Q
    <3> SUFFICES ASSUME n + 1 \in 1 .. Len(ss)
                 PROVE  f[n + 1] = SubSeq(t, 1, ends[n + 1])
      OBVIOUS
    <3>1. f[n + 1] = IF n + 1 = 1 THEN ss[n + 1] ELSE f[n + 1 - 1] \o ss[n + 1]
      BY <2>1, FlattensAt
    <3>2. n + 1 - 1 = n
      OBVIOUS
    <3>3. ends[n] <= ends[n + 1] /\ ss[n + 1] = SubSeq(t, ends[n] + 1, ends[n + 1])
      BY <3>2
    <3>4. CASE n = 0
      <4>1. ends[n] + 1 = 1
        BY <3>4
      <4> QED
        BY <3>1, <3>3, <3>4, <4>1
    <3>5. CASE n # 0
      <4>1. n \in 1 .. Len(ss)
        BY <3>5, <1>0
      <4>0. f[n] = SubSeq(t, 1, ends[n])
        BY <2>3, <4>1
      <4>2. f[n + 1] = SubSeq(t, 1, ends[n]) \o SubSeq(t, ends[n] + 1, ends[n + 1])
        <5>1. n + 1 # 1
          BY <3>5
        <5> HIDE DEF Q
        <5> QED
          BY <3>1, <3>2, <3>3, <4>0, <5>1
      <4>3. n \in 0 .. Len(ss) /\ n + 1 \in 0 .. Len(ss)
        BY <4>1, <1>0
      <4>4. PICK x \in 0 .. Len(t), y \in 0 .. Len(t) : x = ends[n] /\ y = ends[n + 1]
        BY <4>3
      <4>5. x <= y
        BY <3>3, <4>4
      <4>6. 1 \in 1 .. Len(t) + 1 /\ x \in 1 - 1 .. Len(t) /\ y \in x .. Len(t)
        BY <1>0, <4>4, <4>5
      <4>7. SubSeq(t, 1, x) \o SubSeq(t, x + 1, y) = SubSeq(t, 1, y)
        BY <4>6, ConcatAdjacentSubSeq
      <4> QED
        BY <4>2, <4>4, <4>7
    <3> QED
      BY <3>4, <3>5
  <2>4. Nat \subseteq Q
    <3> HIDE DEF Q
    <3> QED
      BY <2>2, <2>3, SetInduction
  <2>5. Len(ss) \in 1 .. Len(ss)
    BY <1>0, <1>2, SeqFacts
  <2>6. FlattenSeq(ss) = SubSeq(t, 1, Len(t))
    BY <1>0, <2>1, <2>4, <2>5
  <2> QED
    BY <2>6, SubSeqFull
<1> QED
  BY <1>1, <1>2

(* One sequence more at the front.                                         *)
LEMMA FlattenCons ==
  ASSUME NEW S, NEW x \in Seq(S), NEW ss \in Seq(Seq(S))
  PROVE  FlattenSeq(<<x>> \o ss) = x \o FlattenSeq(ss)
<1> DEFINE P(n) == \A tt \in Seq(Seq(S)) :
                     Len(tt) = n => FlattenSeq(<<x>> \o tt) = x \o FlattenSeq(tt)
           Q == {n \in Nat : P(n)}
<1>0. <<x>> \in Seq(Seq(S)) /\ <<>> \in Seq(Seq(S)) /\ <<>> \in Seq(S)
  OBVIOUS
<1>1. P(0)
  <2> SUFFICES ASSUME NEW tt \in Seq(Seq(S)), Len(tt) = 0
               PROVE  FlattenSeq(<<x>> \o tt) = x \o FlattenSeq(tt)
    OBVIOUS
  <2>1. tt = <<>>
    BY EmptySeq
  <2>2. FlattenSeq(tt) = <<>>
    BY <2>1 DEF FlattenSeq
  <2>3. <<x>> \o tt = Append(<<>>, x)
    BY <1>0, <2>1, ConcatEmptySeq
  <2>4. FlattenSeq(Append(<<>>, x)) = FlattenSeq(<<>>) \o x
    BY <1>0, FlattenAppend
  <2> QED
    BY <1>0, <2>1, <2>2, <2>3, <2>4, ConcatEmptySeq
<1>2. ASSUME NEW n \in Nat, P(n)
      PROVE  P(n + 1)
  <2> TAKE tt \in Seq(Seq(S))
  <2> HAVE Len(tt) = n + 1
  <2>1. tt # <<>>
    BY EmptySeq
  <2>2. PICK front \in Seq(Seq(S)), e \in Seq(S) : tt = Append(front, e)
    BY <2>1, SequenceEmptyOrAppend
  <2>3. Len(front) = n
    <3>1. Len(Append(front, e)) = Len(front) + 1 /\ Len(front) \in Nat
      BY AppendFacts, SeqFacts
    <3> QED
      BY <2>2, <3>1
  <2>4. FlattenSeq(<<x>> \o front) = x \o FlattenSeq(front)
    BY <1>2, <2>3
  <2>5. /\ <<x>> \o tt = Append(<<x>> \o front, e)
        /\ <<x>> \o front \in Seq(Seq(S))
    BY <1>0, <2>2
  <2>6. /\ FlattenSeq(front) \in Seq(S) /\ FlattenSeq(tt) = FlattenSeq(front) \o e
        /\ FlattenSeq(Append(<<x>> \o front, e)) = FlattenSeq(<<x>> \o front) \o e
    BY <2>2, <2>5, FlattenAppend
  <2>7. \A y \in Seq(S) : x \o (y \o e) = (x \o y) \o e
    <3>1. x \in Seq(S) /\ e \in Seq(S)
      OBVIOUS
    <3> QED
      BY ONLY <3>1, Associative
  <2> QED
    BY ONLY <2>4, <2>5, <2>6, <2>7
<1>3. Nat \subseteq Q
  <2>1. 0 \in Q /\ \A n \in Nat : n \in Q => n + 1 \in Q
    <3> HIDE DEF P
    <3> QED
      BY <1>1, <1>2
  <2> HIDE DEF Q
  <2> QED
    BY <2>1, SetInduction
<1>4. Len(ss) \in Nat
  BY SeqFacts
<1> QED
  BY <1>3, <1>4

(* A set of numbers has a least one.                                       *)
LEMMA LeastIs ==
  ASSUME NEW T, T \subseteq Nat, T # {}
  PROVE  Min(T) \in T /\ \A y \in T : Min(T) <= y
<1> DEFINE R == {ss \in Nat \X Nat : ss[1] < ss[2]}
<1>1. OpToRel(<, Nat) = R
  BY DEF OpToRel
<1>2. IsWellFoundedOn(R, Nat)
  BY <1>1, NatLessThanWellFounded
<1>3. PICK x \in T : \A y \in T : ~ (<<y, x>> \in R)
  <2> HIDE DEF R
  <2> QED
    BY <1>2, WFMin
<1>4. \A y \in T : x <= y
  <2> SUFFICES ASSUME NEW y \in T PROVE x <= y
    OBVIOUS
  <2>1. x \in Nat /\ y \in Nat /\ <<y, x>> \notin R
    BY <1>3
  <2>2. ~(y < x)
    BY <2>1
  <2> QED
    BY <2>1, <2>2
<1> QED
  BY <1>4 DEF Min

-----------------------------------------------------------------------------
(* The codec                                                               *)

Encoded == Alphabet \cup {FILLERCHAR}

(* The encoding of a block, character by character.                        *)
byteAt(b, i) == IF i <= Len(b) THEN b[i] ELSE 0

Group(b, g) ==
  [q \in 1 .. 4 |->
     IF 3 * g - 3 + q > Len(b) + 1 THEN FILLERCHAR
     ELSE Sextets(byteAt(b, 3 * g - 2), byteAt(b, 3 * g - 1), byteAt(b, 3 * g))[q]]

Groups(b) == (Len(b) + 2) \div 3

Text(b) ==
  [k \in 1 .. 4 * Groups(b) |-> Group(b, (k + 3) \div 4)[k - 4 * ((k + 3) \div 4) + 4]]

(* Four sextets hold the 24 bits of three bytes.                           *)
LEMMA SextetsOK ==
  ASSUME NEW x \in Bytes, NEW y \in Bytes, NEW z \in Bytes
  PROVE  /\ Sextets(x, y, z)[1] = x \div 4
         /\ Sextets(x, y, z)[2] = (x % 4) * 16 + y \div 16
         /\ Sextets(x, y, z)[3] = (y % 16) * 4 + z \div 64
         /\ Sextets(x, y, z)[4] = z % 64
         /\ \A q \in 1 .. 4 : Sextets(x, y, z)[q] \in Alphabet
<1>1. /\ Sextets(x, y, z)[1] = x \div 4
      /\ Sextets(x, y, z)[2] = (x % 4) * 16 + y \div 16
      /\ Sextets(x, y, z)[3] = (y % 16) * 4 + z \div 64
      /\ Sextets(x, y, z)[4] = z % 64
  BY DEF Sextets
<1>2. /\ x \div 4 \in 0 .. 63 /\ z % 64 \in 0 .. 63
      /\ (x % 4) * 16 + y \div 16 \in 0 .. 63
      /\ (y % 16) * 4 + z \div 64 \in 0 .. 63
  BY DEF Bytes
<1>3. \A q \in 1 .. 4 : q = 1 \/ q = 2 \/ q = 3 \/ q = 4
  OBVIOUS
<1> QED
  BY <1>1, <1>2, <1>3 DEF Alphabet

(* A number split into its upper and its lower bits.                       *)
LEMMA Split ==
  /\ \A x \in 0 .. 255 : x \div 4 \in 0 .. 63 /\ x % 4 \in 0 .. 3 /\ (x \div 4) * 4 + (x % 4) = x
  /\ \A x \in 0 .. 255 : x \div 16 \in 0 .. 15 /\ x % 16 \in 0 .. 15
                         /\ (x \div 16) * 16 + (x % 16) = x
  /\ \A x \in 0 .. 255 : x \div 64 \in 0 .. 3 /\ x % 64 \in 0 .. 63 /\ (x \div 64) * 64 + (x % 64) = x
OBVIOUS

(* And put together.                                                       *)
LEMMA Together ==
  /\ \A h \in 0 .. 3, l \in 0 .. 15 : (h * 16 + l) \div 16 = h /\ (h * 16 + l) % 16 = l
  /\ \A h \in 0 .. 15, l \in 0 .. 3 : (h * 4 + l) \div 4 = h /\ (h * 4 + l) % 4 = l
OBVIOUS

(* They are enough to tell the bytes.                                      *)
LEMMA BytesOfSextets ==
  ASSUME NEW x \in Bytes, NEW y \in Bytes, NEW z \in Bytes
  PROVE  /\ (x \div 4) * 4 + ((x % 4) * 16 + y \div 16) \div 16 = x
         /\ (((x % 4) * 16 + y \div 16) % 16) * 16 + ((y % 16) * 4 + z \div 64) \div 4 = y
         /\ (((y % 16) * 4 + z \div 64) % 4) * 64 + (z % 64) = z
<1>0. x \in 0 .. 255 /\ y \in 0 .. 255 /\ z \in 0 .. 255
  BY DEF Bytes
<1>1. x % 4 \in 0 .. 3 /\ y \div 16 \in 0 .. 15 /\ y % 16 \in 0 .. 15 /\ z \div 64 \in 0 .. 3
  BY <1>0, Split
<1>2. /\ ((x % 4) * 16 + y \div 16) \div 16 = x % 4
      /\ ((x % 4) * 16 + y \div 16) % 16 = y \div 16
      /\ ((y % 16) * 4 + z \div 64) \div 4 = y % 16
      /\ ((y % 16) * 4 + z \div 64) % 4 = z \div 64
  BY ONLY <1>1, Together
<1>3. /\ (x \div 4) * 4 + (x % 4) = x
      /\ (y \div 16) * 16 + (y % 16) = y
      /\ (z \div 64) * 64 + (z % 64) = z
  BY <1>0, Split
<1> QED
  BY <1>2, <1>3

(* What the decoder looks up.                                              *)
LEMMA LookUp ==
  /\ \A c \in Alphabet : inverse_dictionary(c) = c /\ c # FILLERCHAR
  /\ \A c \in Encoded : inverse_dictionary(c) # Invalid
  /\ inverse_dictionary(SOF1) = Invalid
<1>1. \A c \in Alphabet : inverse_dictionary(c) = c /\ c # FILLERCHAR /\ c # Invalid
  BY DEF inverse_dictionary, Alphabet, FILLERCHAR, Invalid
<1>2. inverse_dictionary(FILLERCHAR) = 0 /\ 0 # Invalid
  BY DEF inverse_dictionary, Alphabet, FILLERCHAR, Invalid
<1>3. inverse_dictionary(SOF1) = Invalid
  BY DEF inverse_dictionary, Alphabet, FILLERCHAR, SOF1
<1> QED
  BY <1>1, <1>2, <1>3 DEF Encoded

(* A function on 1 .. n is a sequence.                                     *)
LEMMA FunSeq ==
  ASSUME NEW S, NEW n \in Nat, NEW f \in [1 .. n -> S]
  PROVE  f \in Seq(S) /\ Len(f) = n
OBVIOUS

(* One, two or three bytes in a row.                                       *)
LEMMA InARow ==
  ASSUME NEW S, NEW x \in S, NEW y \in S, NEW z \in S
  PROVE  /\ <<x>> \o <<>> \o <<>> = <<x>>
         /\ <<x>> \o <<y>> \o <<>> = <<x, y>>
         /\ <<x>> \o <<y>> \o <<z>> = <<x, y, z>>
<1>1. /\ <<x>> \in Seq(S) /\ <<y>> \in Seq(S) /\ <<z>> \in Seq(S)
      /\ <<x, y>> \in Seq(S) /\ <<x, y, z>> \in Seq(S) /\ <<>> \in Seq(S)
  OBVIOUS
<1>2. <<x>> \o <<y>> = <<x, y>>
  <2> DEFINE t == <<x>> \o <<y>>
             u == <<x, y>>
  <2>1. Len(<<x>>) = 1 /\ <<x>>[1] = x /\ Len(<<y>>) = 1 /\ <<y>>[1] = y
    OBVIOUS
  <2>2. t \in Seq(S) /\ Len(t) = 2 /\ t[1] = x /\ t[2] = y
    BY <1>1, <2>1, Joined
  <2>3. u \in Seq(S) /\ Len(u) = 2 /\ u[1] = x /\ u[2] = y
    BY <1>1
  <2> HIDE DEF t, u
  <2>4. \A i \in 1 .. Len(t) : t[i] = u[i]
    BY <2>2, <2>3
  <2>5. t = u
    BY <2>2, <2>3, <2>4, SeqEqual
  <2> QED
    BY <2>5 DEF t, u
<1>3. <<x, y>> \o <<z>> = <<x, y, z>>
  <2> DEFINE t == <<x, y>> \o <<z>>
             u == <<x, y, z>>
  <2>1. /\ Len(<<x, y>>) = 2 /\ <<x, y>>[1] = x /\ <<x, y>>[2] = y
        /\ Len(<<z>>) = 1 /\ <<z>>[1] = z
    OBVIOUS
  <2>2. t \in Seq(S) /\ Len(t) = 3 /\ t[1] = x /\ t[2] = y /\ t[3] = z
    BY <1>1, <2>1, Joined
  <2>3. u \in Seq(S) /\ Len(u) = 3 /\ u[1] = x /\ u[2] = y /\ u[3] = z
    BY <1>1
  <2> HIDE DEF t, u
  <2>4. \A i \in 1 .. Len(t) : t[i] = u[i]
    BY <2>2, <2>3
  <2>5. t = u
    BY <2>2, <2>3, <2>4, SeqEqual
  <2> QED
    BY <2>5 DEF t, u
<1>4. <<x>> \o <<>> = <<x>> /\ <<x, y>> \o <<>> = <<x, y>>
  BY <1>1, ConcatEmptySeq
<1> QED
  BY <1>2, <1>3, <1>4

(* How many groups there are.                                              *)
LEMMA GroupsAre ==
  ASSUME NEW b \in Seq(Bytes)
  PROVE  /\ Groups(b) \in Nat /\ Len(b) \in Nat
         /\ 3 * Groups(b) >= Len(b) /\ 3 * Groups(b) <= Len(b) + 2
<1>1. Len(b) \in Nat
  BY SeqFacts
<1> QED
  BY <1>1 DEF Groups

(* The bytes of a group.                                                   *)
LEMMA ByteOK ==
  ASSUME NEW b \in Seq(Bytes), NEW g \in Nat \ {0}
  PROVE  /\ byteAt(b, 3 * g - 2) \in Bytes /\ byteAt(b, 3 * g - 1) \in Bytes
         /\ byteAt(b, 3 * g) \in Bytes
<1>1. \A i \in Nat \ {0} : byteAt(b, i) \in Bytes
  <2>1. Len(b) \in Nat /\ \A i \in 1 .. Len(b) : b[i] \in Bytes
    BY SeqFacts
  <2> QED
    BY <2>1 DEF byteAt, Bytes
<1> QED
  BY <1>1

(* A group is four characters.                                             *)
LEMMA GroupOK ==
  ASSUME NEW b \in Seq(Bytes), NEW g \in Nat \ {0}
  PROVE  /\ Group(b, g) \in Seq(Encoded) /\ Len(Group(b, g)) = 4
         /\ \A q \in 1 .. 4 : Group(b, g)[q] \in Encoded
<1>1. \A q \in 1 .. 4 : Group(b, g)[q] \in Encoded
  BY ByteOK, SextetsOK DEF Group, Encoded
<1>2. Group(b, g) \in [1 .. 4 -> Encoded]
  BY <1>1 DEF Group
<1>3. \A n \in Nat :
        Group(b, g) \in [1 .. n -> Encoded] =>
          Group(b, g) \in Seq(Encoded) /\ Len(Group(b, g)) = n
  BY FunSeq
<1> QED
  BY <1>1, <1>2, <1>3

(* The encoding is a text of groups.                                       *)
LEMMA TextIs ==
  ASSUME NEW b \in Seq(Bytes)
  PROVE  /\ Text(b) \in Seq(Encoded) /\ Len(Text(b)) = 4 * Groups(b)
         /\ \A g \in 1 .. Groups(b), q \in 1 .. 4 : Text(b)[4 * g - 4 + q] = Group(b, g)[q]
<1> DEFINE n == Groups(b)
<1>0. n \in Nat
  BY GroupsAre
<1>1. ASSUME NEW g \in 1 .. n, NEW q \in 1 .. 4
      PROVE  Text(b)[4 * g - 4 + q] = Group(b, g)[q]
  <2> DEFINE k == 4 * g - 4 + q
  <2>1. k \in 1 .. 4 * n /\ (k + 3) \div 4 = g /\ k - 4 * g + 4 = q
    <3> HIDE DEF n
    <3> QED
      BY <1>0
  <2> HIDE DEF k
  <2>2. Text(b)[k] = Group(b, g)[q]
    BY <2>1 DEF Text
  <2> QED
    BY <2>2 DEF k
<1>2. ASSUME NEW k \in 1 .. 4 * n
      PROVE  Text(b)[k] \in Encoded
  <2>1. PICK g \in 1 .. n, q \in 1 .. 4 : k = 4 * g - 4 + q
    <3> DEFINE g == (k + 3) \div 4
               q == k - 4 * g + 4
    <3>1. g \in 1 .. n /\ q \in 1 .. 4 /\ k = 4 * g - 4 + q
      <4> HIDE DEF n
      <4> QED
        BY <1>0
    <3> HIDE DEF g, q
    <3> QED
      BY <3>1
  <2>2. g \in Nat \ {0}
    BY <1>0
  <2>3. Group(b, g)[q] \in Encoded
    BY <2>2, GroupOK
  <2> QED
    BY <1>1, <2>1, <2>3
<1>3. Text(b) \in [1 .. 4 * n -> Encoded]
  <2>1. Text(b) = [k \in 1 .. 4 * n |-> Text(b)[k]]
    BY DEF Text
  <2> QED
    BY <1>2, <2>1
<1>4. 4 * n \in Nat
  <2> HIDE DEF n
  <2> QED
    BY <1>0
<1>5. Text(b) \in Seq(Encoded) /\ Len(Text(b)) = 4 * n
  <2> HIDE DEF n
  <2> QED
    BY <1>3, <1>4, FunSeq
<1> QED
  BY <1>1, <1>5

(* pem64_encode_bytes makes this text.                                     *)
LEMMA EncodeIs ==
  ASSUME NEW b \in Seq(Bytes)
  PROVE  pem64_encode_bytes(b) = Text(b)
<1> DEFINE n == Groups(b)
           ss == [g \in 1 .. n |-> Group(b, g)]
           ends == [g \in 0 .. n |-> 4 * g]
<1>0. n \in Nat
  BY GroupsAre
<1>1. pem64_encode_bytes(b) = FlattenSeq(ss)
  BY DEF pem64_encode_bytes, Group, Groups, byteAt
<1>2. ss \in Seq(Seq(Encoded)) /\ Len(ss) = n /\ \A g \in 1 .. n : ss[g] = Group(b, g)
  <2>1. \A g \in 1 .. n : Group(b, g) \in Seq(Encoded)
    BY GroupOK
  <2> HIDE DEF n
  <2> QED
    BY <1>0, <2>1
<1>3. /\ Text(b) \in Seq(Encoded) /\ Len(Text(b)) = 4 * n
      /\ \A g \in 1 .. n, q \in 1 .. 4 : Text(b)[4 * g - 4 + q] = Group(b, g)[q]
  BY TextIs
<1>4. /\ ends \in [0 .. n -> 0 .. 4 * n] /\ ends[0] = 0 /\ ends[n] = 4 * n
      /\ \A g \in 1 .. n : ends[g - 1] = 4 * g - 4 /\ ends[g] = 4 * g
  <2> HIDE DEF n
  <2> QED
    BY <1>0
<1> HIDE DEF n, ss, ends
<1>5. ASSUME NEW g \in 1 .. n
      PROVE  /\ ends[g - 1] <= ends[g]
             /\ ss[g] = SubSeq(Text(b), ends[g - 1] + 1, ends[g])
  <2>1. 4 * g - 4 \in 0 .. 4 * n /\ 4 * g \in 4 * g - 4 .. 4 * n /\ 4 * g - (4 * g - 4) = 4
    BY <1>0
  <2> DEFINE m == 4 * g - 4
             e == 4 * g
             p == SubSeq(Text(b), m + 1, e)
  <2>2. /\ p \in Seq(Encoded) /\ Len(p) = e - m
        /\ \A i \in 1 .. e - m : p[i] = Text(b)[m + i]
    <3>1. m \in 0 .. Len(Text(b)) /\ e \in m .. Len(Text(b))
      BY <1>3, <2>1
    <3> HIDE DEF m, e
    <3> QED
      BY <1>3, <3>1, Piece
  <2>3. Len(p) = 4 /\ \A i \in 1 .. 4 : p[i] = Group(b, g)[i]
    <3> HIDE DEF p
    <3> QED
      BY <1>3, <2>1, <2>2
  <2>4. Group(b, g) \in Seq(Encoded) /\ Len(Group(b, g)) = 4
    BY GroupOK
  <2>5. p = Group(b, g)
    <3> HIDE DEF p
    <3> QED
      BY <2>2, <2>3, <2>4, SeqEqual
  <2>6. ends[g - 1] = m /\ ends[g] = e /\ m <= e
    BY <1>4, <2>1
  <2> HIDE DEF m, e
  <2> QED
    BY <1>2, <2>5, <2>6
<1>6. FlattenSeq(ss) = Text(b)
  BY <1>2, <1>3, <1>4, <1>5, FlattenPieces
<1> QED
  BY <1>1, <1>6

(* What pem64_decode_bytes makes of a group.                               *)
Ungroup(text, g) ==
  LET i == 4 * g - 3
      v(k) == inverse_dictionary(text[k])
  IN <<v(i) * 4 + v(i + 1) \div 16>>
       \o byteUnlessFiller(text[i + 2], (v(i + 1) % 16) * 16 + v(i + 2) \div 4)
       \o byteUnlessFiller(text[i + 3], (v(i + 2) % 4) * 64 + v(i + 3))

Known(text, g) == \A i \in 4 * g - 3 .. 4 * g : inverse_dictionary(text[i]) # Invalid

(* A text that begins with the encoding of b and goes on with padding.     *)
Padded(text, b) ==
  /\ text \in Seq(Chars) /\ Len(text) >= 4 * Groups(b)
  /\ \A i \in 1 .. 4 * Groups(b) : text[i] = Text(b)[i]
  /\ \A i \in 4 * Groups(b) + 1 .. Len(text) : text[i] = SOF1

(* As far as the groups go.                                                *)
LEMMA DecodeIs ==
  ASSUME NEW b \in Seq(Bytes), NEW text, Padded(text, b)
  PROVE  pem64_decode_bytes(text) = FlattenSeq([g \in 1 .. Groups(b) |-> Ungroup(text, g)])
<1> DEFINE n == Groups(b)
           L == Len(text)
           groups == {g \in 0 .. L \div 4 : \A h \in 1 .. g : Known(text, h)}
           last == CHOOSE g \in groups : \A h \in groups : h <= g
<1>0. n \in Nat /\ L \in Nat /\ L >= 4 * n
  BY GroupsAre, SeqFacts DEF Padded
<1>1. pem64_decode_bytes(text) = FlattenSeq([g \in 1 .. last |-> Ungroup(text, g)])
  BY DEF pem64_decode_bytes, Ungroup, Known
<1>2. ASSUME NEW g \in 1 .. n
      PROVE  Known(text, g)
  <2> SUFFICES ASSUME NEW i \in 4 * g - 3 .. 4 * g
               PROVE  inverse_dictionary(text[i]) # Invalid
    BY DEF Known
  <2>1. i \in 1 .. 4 * n
    <3> HIDE DEF n
    <3> QED
      BY <1>0
  <2>2. text[i] \in Encoded
    BY <2>1, TextIs, SeqFacts DEF Padded
  <2> QED
    BY <2>2, LookUp
<1>3. ~(n + 1 \in groups)
  <2> SUFFICES ASSUME n + 1 \in 0 .. L \div 4, Known(text, n + 1) PROVE FALSE
    <3>1. n + 1 \in 1 .. n + 1
      BY <1>0
    <3> QED
      BY <3>1
  <2>1. 4 * n + 1 \in 4 * (n + 1) - 3 .. 4 * (n + 1) /\ 4 * n + 1 \in 4 * n + 1 .. L
    <3> HIDE DEF n, L
    <3> QED
      BY <1>0
  <2>2. text[4 * n + 1] = SOF1
    BY <2>1 DEF Padded
  <2> QED
    BY <2>1, <2>2, LookUp DEF Known
<1>4. n \in groups
  <2>1. n \in 0 .. L \div 4
    <3> HIDE DEF n, L
    <3> QED
      BY <1>0
  <2> QED
    BY <1>2, <2>1
<1>5. \A g \in groups : g \in Nat /\ (g >= n + 1 => n + 1 \in groups)
  <2> SUFFICES ASSUME NEW g \in groups
               PROVE  g \in Nat /\ (g >= n + 1 => n + 1 \in groups)
    OBVIOUS
  <2>1. g \in 0 .. L \div 4 /\ \A h \in 1 .. g : Known(text, h)
    OBVIOUS
  <2>2. L \div 4 \in Nat
    <3> HIDE DEF L
    <3> QED
      BY <1>0
  <2>3. g >= n + 1 => n + 1 \in 0 .. L \div 4 /\ \A h \in 1 .. n + 1 : h \in 1 .. g
    <3> HIDE DEF n
    <3> QED
      BY <1>0, <2>1, <2>2
  <2> QED
    BY <2>1, <2>2, <2>3
<1> HIDE DEF groups, n
<1>6. \A g \in groups : g <= n
  BY <1>0, <1>3, <1>5
<1>7. last = n
  <2>1. \E g \in groups : \A h \in groups : h <= g
    BY <1>4, <1>6
  <2>2. last \in groups /\ n <= last
    BY <1>4, <2>1
  <2> HIDE DEF last
  <2> QED
    BY <1>0, <1>5, <1>6, <2>2
<1> HIDE DEF last
<1> QED
  BY <1>1, <1>7 DEF n

(* A group gives its bytes back.                                           *)
LEMMA UngroupIs ==
  ASSUME NEW b \in Seq(Bytes), NEW text, Padded(text, b), NEW g \in 1 .. Groups(b)
  PROVE  Ungroup(text, g) = SubSeq(b, 3 * g - 2, IF 3 * g <= Len(b) THEN 3 * g ELSE Len(b))
<1> DEFINE x == byteAt(b, 3 * g - 2)
           y == byteAt(b, 3 * g - 1)
           z == byteAt(b, 3 * g)
           s == Sextets(x, y, z)
           v(k) == inverse_dictionary(text[k])
<1>0. /\ g \in Nat /\ g >= 1 /\ g <= Groups(b) /\ Groups(b) \in Nat /\ Len(b) \in Nat
      /\ 3 * g <= Len(b) + 2
  BY GroupsAre
<1>1. \A q \in 1 .. 4 : 4 * g - 4 + q \in 1 .. 4 * Groups(b)
  BY <1>0
<1>2. \A q \in 1 .. 4 : text[4 * g - 4 + q] = Group(b, g)[q]
  BY <1>1, TextIs DEF Padded
<1>3. /\ text[4 * g - 3] = Group(b, g)[1] /\ text[4 * g - 3 + 1] = Group(b, g)[2]
      /\ text[4 * g - 3 + 2] = Group(b, g)[3] /\ text[4 * g - 3 + 3] = Group(b, g)[4]
  <2>1. /\ 4 * g - 4 + 1 = 4 * g - 3 /\ 4 * g - 4 + 2 = 4 * g - 3 + 1
        /\ 4 * g - 4 + 3 = 4 * g - 3 + 2 /\ 4 * g - 4 + 4 = 4 * g - 3 + 3
    BY <1>0
  <2>2. 1 \in 1 .. 4 /\ 2 \in 1 .. 4 /\ 3 \in 1 .. 4 /\ 4 \in 1 .. 4
    OBVIOUS
  <2> QED
    BY <1>2, <2>1, <2>2
<1>4. x \in Bytes /\ y \in Bytes /\ z \in Bytes
  BY <1>0, ByteOK
<1>5. /\ s[1] = x \div 4 /\ s[2] = (x % 4) * 16 + y \div 16
      /\ s[3] = (y % 16) * 4 + z \div 64 /\ s[4] = z % 64
      /\ s[1] \in Alphabet /\ s[2] \in Alphabet /\ s[3] \in Alphabet /\ s[4] \in Alphabet
  <2> HIDE DEF x, y, z
  <2> QED
    BY <1>4, SextetsOK
<1>6. /\ Group(b, g)[1] = s[1] /\ Group(b, g)[2] = s[2]
      /\ Group(b, g)[3] = (IF 3 * g > Len(b) + 1 THEN FILLERCHAR ELSE s[3])
      /\ Group(b, g)[4] = (IF 3 * g > Len(b) THEN FILLERCHAR ELSE s[4])
  <2>1. \A q \in 1 .. 4 :
          Group(b, g)[q] = IF 3 * g - 3 + q > Len(b) + 1 THEN FILLERCHAR ELSE s[q]
    BY DEF Group
  <2> HIDE DEF s
  <2> QED
    BY <1>0, <2>1
<1>7. /\ inverse_dictionary(text[4 * g - 3]) = s[1]
      /\ inverse_dictionary(text[4 * g - 3 + 1]) = s[2]
      /\ 3 * g <= Len(b) + 1 => inverse_dictionary(text[4 * g - 3 + 2]) = s[3]
                            /\ text[4 * g - 3 + 2] # FILLERCHAR
      /\ 3 * g > Len(b) + 1 => text[4 * g - 3 + 2] = FILLERCHAR
      /\ 3 * g <= Len(b) => inverse_dictionary(text[4 * g - 3 + 3]) = s[4]
                        /\ text[4 * g - 3 + 3] # FILLERCHAR
      /\ 3 * g > Len(b) => text[4 * g - 3 + 3] = FILLERCHAR
  <2> HIDE DEF s
  <2> QED
    BY <1>0, <1>3, <1>5, <1>6, LookUp
<1>8. /\ s[1] * 4 + s[2] \div 16 = x
      /\ (s[2] % 16) * 16 + s[3] \div 4 = y
      /\ (s[3] % 4) * 64 + s[4] = z
  <2>1. /\ (x \div 4) * 4 + ((x % 4) * 16 + y \div 16) \div 16 = x
        /\ (((x % 4) * 16 + y \div 16) % 16) * 16 + ((y % 16) * 4 + z \div 64) \div 4 = y
        /\ (((y % 16) * 4 + z \div 64) % 4) * 64 + (z % 64) = z
    <3> HIDE DEF x, y, z
    <3> QED
      BY <1>4, BytesOfSextets
  <2> HIDE DEF x, y, z, s
  <2> QED
    BY ONLY <1>5, <2>1
<1> HIDE DEF s
<1>9. Ungroup(text, g) =
        <<x>> \o (IF 3 * g > Len(b) + 1 THEN <<>> ELSE <<y>>)
              \o (IF 3 * g > Len(b) THEN <<>> ELSE <<z>>)
  <2>1. Ungroup(text, g) =
          <<s[1] * 4 + s[2] \div 16>>
            \o byteUnlessFiller(text[4 * g - 3 + 2], (s[2] % 16) * 16 + v(4 * g - 3 + 2) \div 4)
            \o byteUnlessFiller(text[4 * g - 3 + 3],
                                (v(4 * g - 3 + 2) % 4) * 64 + v(4 * g - 3 + 3))
    BY <1>7 DEF Ungroup
  <2>2. byteUnlessFiller(text[4 * g - 3 + 2], (s[2] % 16) * 16 + v(4 * g - 3 + 2) \div 4)
          = IF 3 * g > Len(b) + 1 THEN <<>> ELSE <<y>>
    BY <1>0, <1>7, <1>8 DEF byteUnlessFiller
  <2>3. byteUnlessFiller(text[4 * g - 3 + 3], (v(4 * g - 3 + 2) % 4) * 64 + v(4 * g - 3 + 3))
          = IF 3 * g > Len(b) THEN <<>> ELSE <<z>>
    <3>1. 3 * g <= Len(b) => 3 * g <= Len(b) + 1
      BY <1>0
    <3> QED
      BY <1>0, <1>7, <1>8, <3>1 DEF byteUnlessFiller
  <2> QED
    BY <1>8, <2>1, <2>2, <2>3
<1>10. \A i \in 1 .. Len(b) : byteAt(b, i) = b[i]
  BY DEF byteAt
<1>11. CASE 3 * g <= Len(b)
  <2>1. Ungroup(text, g) = <<x, y, z>>
    <3>1. ~(3 * g > Len(b)) /\ ~(3 * g > Len(b) + 1)
      BY <1>0, <1>11
    <3>2. Ungroup(text, g) = <<x>> \o <<y>> \o <<z>>
      BY <1>9, <3>1
    <3> HIDE DEF x, y, z
    <3> QED
      BY <1>4, <3>2, InARow
  <2>2. 3 * g - 3 \in 0 .. Len(b) /\ 3 * g \in 3 * g - 3 .. Len(b) /\ 3 * g - (3 * g - 3) = 3
    BY <1>0, <1>11
  <2>3. 3 * g - 3 + 1 = 3 * g - 2 /\ 3 * g - 3 + 2 = 3 * g - 1 /\ 3 * g - 3 + 3 = 3 * g
    BY <1>0
  <2> DEFINE m == 3 * g - 3
             e == 3 * g
             p == SubSeq(b, m + 1, e)
  <2>4. p \in Seq(Bytes) /\ Len(p) = e - m /\ \A i \in 1 .. e - m : p[i] = b[m + i]
    <3>1. m \in 0 .. Len(b) /\ e \in m .. Len(b)
      BY <2>2
    <3> HIDE DEF m, e
    <3> QED
      BY <3>1, Piece
  <2>5. Len(p) = 3 /\ p[1] = x /\ p[2] = y /\ p[3] = z
    <3>1. /\ 3 * g - 2 \in 1 .. Len(b) /\ 3 * g - 1 \in 1 .. Len(b) /\ 3 * g \in 1 .. Len(b)
      BY <1>0, <1>11
    <3>2. /\ Len(p) = 3 /\ p[1] = b[m + 1] /\ p[2] = b[m + 2] /\ p[3] = b[m + 3]
      <4> HIDE DEF p
      <4> QED
        BY <2>2, <2>4
    <3> QED
      BY <1>10, <2>3, <3>1, <3>2
  <2>6. p = <<x, y, z>>
    <3> HIDE DEF x, y, z, p
    <3> QED
      BY <1>4, <2>4, <2>5
  <2> QED
    BY <1>11, <2>1, <2>3, <2>6
<1>12. CASE 3 * g = Len(b) + 1
  <2>1. Ungroup(text, g) = <<x, y>>
    <3>1. 3 * g > Len(b) /\ ~(3 * g > Len(b) + 1)
      BY <1>0, <1>12
    <3>2. Ungroup(text, g) = <<x>> \o <<y>> \o <<>>
      BY <1>9, <3>1
    <3> HIDE DEF x, y, z
    <3> QED
      BY <1>4, <3>2, InARow
  <2>2. 3 * g - 3 \in 0 .. Len(b) /\ Len(b) \in 3 * g - 3 .. Len(b) /\ Len(b) - (3 * g - 3) = 2
    BY <1>0, <1>12
  <2>3. 3 * g - 3 + 1 = 3 * g - 2 /\ 3 * g - 3 + 2 = 3 * g - 1
    BY <1>0
  <2> DEFINE m == 3 * g - 3
             e == Len(b)
             p == SubSeq(b, m + 1, e)
  <2>4. p \in Seq(Bytes) /\ Len(p) = e - m /\ \A i \in 1 .. e - m : p[i] = b[m + i]
    <3>1. m \in 0 .. Len(b) /\ e \in m .. Len(b)
      BY <2>2
    <3> HIDE DEF m, e
    <3> QED
      BY <3>1, Piece
  <2>5. Len(p) = 2 /\ p[1] = x /\ p[2] = y
    <3>1. 3 * g - 2 \in 1 .. Len(b) /\ 3 * g - 1 \in 1 .. Len(b)
      BY <1>0, <1>12
    <3>2. Len(p) = 2 /\ p[1] = b[m + 1] /\ p[2] = b[m + 2]
      <4> HIDE DEF p
      <4> QED
        BY <2>2, <2>4
    <3> QED
      BY <1>10, <2>3, <3>1, <3>2
  <2>6. p = <<x, y>>
    <3> HIDE DEF x, y, p
    <3> QED
      BY <1>4, <2>4, <2>5
  <2>7. ~(3 * g <= Len(b))
    BY <1>0, <1>12
  <2> QED
    BY <2>1, <2>3, <2>6, <2>7
<1>13. CASE 3 * g = Len(b) + 2
  <2>1. Ungroup(text, g) = <<x>>
    <3>1. 3 * g > Len(b) /\ 3 * g > Len(b) + 1
      BY <1>0, <1>13
    <3>2. Ungroup(text, g) = <<x>> \o <<>> \o <<>>
      BY <1>9, <3>1
    <3> HIDE DEF x, y, z
    <3> QED
      BY <1>4, <3>2, InARow
  <2>2. 3 * g - 3 \in 0 .. Len(b) /\ Len(b) \in 3 * g - 3 .. Len(b) /\ Len(b) - (3 * g - 3) = 1
    BY <1>0, <1>13
  <2>3. 3 * g - 3 + 1 = 3 * g - 2
    BY <1>0
  <2> DEFINE m == 3 * g - 3
             e == Len(b)
             p == SubSeq(b, m + 1, e)
  <2>4. p \in Seq(Bytes) /\ Len(p) = e - m /\ \A i \in 1 .. e - m : p[i] = b[m + i]
    <3>1. m \in 0 .. Len(b) /\ e \in m .. Len(b)
      BY <2>2
    <3> HIDE DEF m, e
    <3> QED
      BY <3>1, Piece
  <2>5. Len(p) = 1 /\ p[1] = x
    <3>1. 3 * g - 2 \in 1 .. Len(b)
      BY <1>0, <1>13
    <3>2. Len(p) = 1 /\ p[1] = b[m + 1]
      <4> HIDE DEF p
      <4> QED
        BY <2>2, <2>4
    <3> QED
      BY <1>10, <2>3, <3>1, <3>2
  <2>6. p = <<x>>
    <3> HIDE DEF x, p
    <3> QED
      BY <1>4, <2>4, <2>5
  <2>7. ~(3 * g <= Len(b))
    BY <1>0, <1>13
  <2> QED
    BY <2>1, <2>3, <2>6, <2>7
<1>14. 3 * g <= Len(b) \/ 3 * g = Len(b) + 1 \/ 3 * g = Len(b) + 2
  BY <1>0
<1> QED
  BY <1>11, <1>12, <1>13, <1>14

(* Decoding gives back what was encoded, also with padding behind it.      *)
LEMMA RoundTrip ==
  ASSUME NEW b \in Seq(Bytes), NEW text, Padded(text, b)
  PROVE  pem64_decode_bytes(text) = b
<1> DEFINE n == Groups(b)
           ss == [g \in 1 .. n |-> Ungroup(text, g)]
           end(g) == IF 3 * g <= Len(b) THEN 3 * g ELSE Len(b)
           ends == [g \in 0 .. n |-> end(g)]
<1>0. n \in Nat /\ Len(b) \in Nat /\ 3 * n >= Len(b) /\ 3 * n <= Len(b) + 2
  BY GroupsAre
<1>1. pem64_decode_bytes(text) = FlattenSeq(ss)
  BY DecodeIs
<1>2. \A g \in 1 .. n : ss[g] = SubSeq(b, 3 * g - 2, end(g))
  BY UngroupIs
<1>3. /\ ends \in [0 .. n -> 0 .. Len(b)] /\ ends[0] = 0 /\ ends[n] = Len(b)
      /\ \A g \in 1 .. n : ends[g - 1] = 3 * g - 3 /\ ends[g] = end(g) /\ 3 * g - 3 <= end(g)
      /\ \A g \in 1 .. n : 3 * g - 3 \in 0 .. Len(b) /\ end(g) \in 3 * g - 3 .. Len(b)
                           /\ 3 * g - 3 + 1 = 3 * g - 2
  <2> HIDE DEF n
  <2>1. \A g \in 1 .. n : 3 * g - 3 <= Len(b) /\ 3 * (g - 1) = 3 * g - 3
                          /\ 3 * g - 3 + 1 = 3 * g - 2
    BY <1>0
  <2>2. \A g \in 0 .. n : end(g) \in 0 .. Len(b)
    BY <1>0
  <2>3. end(0) = 0 /\ end(n) = Len(b)
    BY <1>0
  <2>4. \A g \in 1 .. n : end(g - 1) = 3 * g - 3 /\ 3 * g - 3 <= end(g)
    BY <1>0, <2>1
  <2> QED
    BY <1>0, <2>1, <2>2, <2>3, <2>4
<1> HIDE DEF n, ends, end
<1>4. ASSUME NEW g \in 1 .. n
      PROVE  /\ ss[g] \in Seq(Bytes) /\ ends[g - 1] <= ends[g]
             /\ ss[g] = SubSeq(b, ends[g - 1] + 1, ends[g])
  <2>1. ss[g] = SubSeq(b, 3 * g - 3 + 1, end(g))
    BY <1>2, <1>3
  <2> HIDE DEF ss
  <2>2. SubSeq(b, 3 * g - 3 + 1, end(g)) \in Seq(Bytes)
    BY <1>3, Piece
  <2> QED
    BY <1>3, <2>1, <2>2
<1>5. ss \in Seq(Seq(Bytes)) /\ Len(ss) = n
  BY <1>0, <1>4
<1> HIDE DEF ss
<1>6. FlattenSeq(ss) = b
  BY <1>3, <1>4, <1>5, FlattenPieces
<1> QED
  BY <1>1, <1>6

-----------------------------------------------------------------------------
(* Frames                                                                  *)

Block == [1 .. BlockLen -> Bytes]

(* The characters of a frame but for its end.                              *)
Body == Encoded \cup {SOF0, SOF1, Letter}

(* The constants are numbers.                                              *)
LEMMA Sizes ==
  /\ BlockLen \in Nat /\ BlockLen >= 1 /\ PayloadLen \in Nat /\ MAX_ENTROPY \in Nat
  /\ MaxAsk \in Nat /\ NULL \notin Nat
  /\ EFRAME_LEN = PayloadLen + 5 /\ EFRAME_LEN \in Nat
  /\ \A b \in Block : b \in Seq(Bytes) /\ Len(b) = BlockLen /\ 4 * Groups(b) <= PayloadLen
<1>1. /\ BlockLen \in Nat /\ BlockLen >= 1 /\ PayloadLen \in Nat /\ MAX_ENTROPY \in Nat
      /\ MaxAsk \in Nat /\ NULL \notin Nat
      /\ PayloadLen >= 4 * ((BlockLen + 2) \div 3)
  BY IntakeAssumption
<1>2. ASSUME NEW b \in Block
      PROVE  b \in Seq(Bytes) /\ Len(b) = BlockLen
  BY <1>1, FunSeq DEF Block
<1>3. ASSUME NEW b \in Block
      PROVE  4 * Groups(b) <= PayloadLen
  <2>1. Len(b) = BlockLen
    BY <1>2
  <2> QED
    BY <1>1, <2>1 DEF Groups
<1> QED
  BY <1>1, <1>2, <1>3 DEF EFRAME_LEN

(* What the characters are told apart by.                                  *)
LEMMA Delimiters ==
  /\ Body \subseteq Chars /\ {EOF0, EOF1} \subseteq Chars /\ EOF0 \notin Body
  /\ EOF0 # EOF1 /\ SOF1 \in Body /\ Encoded \subseteq Body
BY DEF Body, Encoded, Alphabet, FILLERCHAR, Chars, SOF0, SOF1, EOF0, EOF1, Letter

(* A frame, place by place.                                                *)
LEMMA FrameIs ==
  ASSUME NEW b \in Block, NEW f, f = framer_fill_frame(b)
  PROVE  /\ f \in Seq(Chars) /\ Len(f) = EFRAME_LEN
         /\ f[1] = SOF0 /\ f[2] = SOF1
         /\ f[PayloadLen + 4] = EOF0 /\ f[PayloadLen + 5] = EOF1
         /\ \A i \in 1 .. EFRAME_LEN : f[i] = EOF0 => i = EFRAME_LEN - 1
         /\ \A i \in 1 .. 4 * Groups(b) : f[3 + i] = Text(b)[i]
         /\ \A i \in 4 * Groups(b) + 1 .. PayloadLen : f[3 + i] = SOF1
<1> DEFINE n == 4 * Groups(b)
           P == PayloadLen
           a == <<SOF0, SOF1, Letter>>
           p == Text(b)
           pad == [i \in 1 .. P - n |-> SOF1]
           e == <<EOF0, EOF1>>
           x == a \o p
           y == x \o pad
<1>0. b \in Seq(Bytes) /\ n \in Nat /\ P \in Nat /\ n <= P /\ P - n \in Nat
  <2>1. b \in Seq(Bytes) /\ n <= P /\ P \in Nat
    BY Sizes
  <2>2. n \in Nat
    BY <2>1, GroupsAre
  <2> HIDE DEF n, P
  <2> QED
    BY <2>1, <2>2
<1>1. Len(p) = n /\ p \in Seq(Body)
  <2>1. p \in Seq(Encoded) /\ Len(p) = n
    BY <1>0, TextIs
  <2> HIDE DEF p, n
  <2> QED
    BY <2>1, Delimiters, SeqMonotonic
<1>2. f = y \o e
  <2>1. Len(pem64_encode_bytes(b)) = n /\ pem64_encode_bytes(b) = p
    BY <1>0, <1>1, EncodeIs
  <2> QED
    BY <2>1 DEF framer_fill_frame
<1>3. a \in Seq(Body) /\ Len(a) = 3 /\ a[1] = SOF0 /\ a[2] = SOF1
  <2>1. SOF0 \in Body /\ SOF1 \in Body /\ Letter \in Body
    BY DEF Body
  <2> QED
    BY <2>1
<1>4. pad \in Seq(Body) /\ Len(pad) = P - n /\ \A i \in 1 .. P - n : pad[i] = SOF1
  <2>1. SOF1 \in Body
    BY Delimiters
  <2> DEFINE k == P - n
  <2>2. k \in Nat
    BY <1>0
  <2> HIDE DEF k
  <2>3. [i \in 1 .. k |-> SOF1] \in [1 .. k -> Body]
    BY <2>1
  <2>4. [i \in 1 .. k |-> SOF1] \in Seq(Body) /\ Len([i \in 1 .. k |-> SOF1]) = k
    BY <2>2, <2>3, FunSeq
  <2>5. \A i \in 1 .. k : [j \in 1 .. k |-> SOF1][i] = SOF1
    OBVIOUS
  <2> QED
    BY <2>4, <2>5 DEF k
<1>5. e \in Seq({EOF0, EOF1}) /\ Len(e) = 2 /\ e[1] = EOF0 /\ e[2] = EOF1
  OBVIOUS
<1> HIDE DEF a, p, pad, e, x, y, n, P
<1>6. /\ x \in Seq(Body) /\ Len(x) = 3 + n /\ x[1] = SOF0 /\ x[2] = SOF1
      /\ \A i \in 1 .. n : x[3 + i] = p[i]
  <2>1. /\ a \o p \in Seq(Body) /\ Len(a \o p) = Len(a) + Len(p)
        /\ \A i \in 1 .. Len(a) : (a \o p)[i] = a[i]
        /\ \A i \in 1 .. Len(p) : (a \o p)[Len(a) + i] = p[i]
    <3>1. a \in Seq(Body) /\ p \in Seq(Body)
      BY <1>1, <1>3
    <3> QED
      BY ONLY <3>1, Joined
  <2> QED
    BY <1>0, <1>1, <1>3, <2>1 DEF x
<1>7. /\ y \in Seq(Body) /\ Len(y) = 3 + P /\ y[1] = SOF0 /\ y[2] = SOF1
      /\ \A i \in 1 .. n : y[3 + i] = p[i]
      /\ \A i \in n + 1 .. P : y[3 + i] = SOF1
  <2>1. /\ y \in Seq(Body) /\ Len(y) = Len(x) + Len(pad)
        /\ \A i \in 1 .. Len(x) : y[i] = x[i]
        /\ \A i \in 1 .. Len(pad) : y[Len(x) + i] = pad[i]
    <3>1. x \in Seq(Body) /\ pad \in Seq(Body)
      BY <1>4, <1>6
    <3> QED
      BY ONLY <3>1, Joined DEF y
  <2>2. Len(y) = 3 + P
    BY <1>0, <1>4, <1>6, <2>1
  <2>3. \A i \in 1 .. n : 3 + i \in 1 .. Len(x)
    BY <1>0, <1>6
  <2>4. 1 \in 1 .. Len(x) /\ 2 \in 1 .. Len(x)
    BY <1>0, <1>6
  <2>5. ASSUME NEW i \in n + 1 .. P
        PROVE  y[3 + i] = SOF1
    <3>1. i - n \in 1 .. Len(pad) /\ Len(x) + (i - n) = 3 + i /\ i - n \in 1 .. P - n
      BY <1>0, <1>4, <1>6
    <3>2. y[Len(x) + (i - n)] = pad[i - n]
      BY <2>1, <3>1
    <3> QED
      BY <1>4, <3>1, <3>2
  <2> QED
    BY <1>6, <2>1, <2>2, <2>3, <2>4, <2>5
<1>8. /\ f \in Seq(Chars) /\ Len(f) = 3 + P + 2
      /\ \A i \in 1 .. 3 + P : f[i] = y[i]
      /\ f[3 + P + 1] = EOF0 /\ f[3 + P + 2] = EOF1
  <2>1. y \in Seq(Chars) /\ e \in Seq(Chars)
    BY <1>5, <1>7, Delimiters, SeqMonotonic
  <2>2. /\ f \in Seq(Chars) /\ Len(f) = Len(y) + Len(e)
        /\ \A i \in 1 .. Len(y) : f[i] = y[i]
        /\ \A i \in 1 .. Len(e) : f[Len(y) + i] = e[i]
    BY <1>2, <2>1, Joined
  <2>3. 1 \in 1 .. 2 /\ 2 \in 1 .. 2
    OBVIOUS
  <2> QED
    BY <1>5, <1>7, <2>2, <2>3
<1>9. /\ 1 \in 1 .. 3 + P /\ 2 \in 1 .. 3 + P /\ \A i \in 1 .. P : 3 + i \in 1 .. 3 + P
      /\ 3 + P + 1 = P + 4 /\ 3 + P + 2 = P + 5 /\ P + 5 = EFRAME_LEN
      /\ EFRAME_LEN - 1 = P + 4
      /\ \A i \in 1 .. P + 5 : i \in 1 .. 3 + P \/ i = P + 4 \/ i = P + 5
      /\ (\A i \in 1 .. n : i \in 1 .. P) /\ (\A i \in n + 1 .. P : i \in 1 .. P)
  BY <1>0 DEF EFRAME_LEN, P
<1>10. \A i \in 1 .. 3 + P : f[i] # EOF0
  <2>1. \A i \in 1 .. 3 + P : y[i] \in Body
    BY <1>7, SeqFacts
  <2> QED
    BY <1>8, <2>1, Delimiters
<1>11. \A i \in 1 .. EFRAME_LEN : f[i] = EOF0 => i = EFRAME_LEN - 1
  BY <1>8, <1>9, <1>10, Delimiters
<1>12. /\ \A i \in 1 .. n : f[3 + i] = p[i]
       /\ \A i \in n + 1 .. P : f[3 + i] = SOF1
       /\ f[1] = SOF0 /\ f[2] = SOF1 /\ f[P + 4] = EOF0 /\ f[P + 5] = EOF1
       /\ f \in Seq(Chars) /\ Len(f) = EFRAME_LEN
  BY <1>7, <1>8, <1>9
<1> QED
  BY <1>11, <1>12 DEF n, p, P

(* It is taken for one, and decoded to its block.                          *)
LEMMA FrameDecodes ==
  ASSUME NEW b \in Block, NEW f, f = framer_fill_frame(b)
  PROVE  wellFormed(f) /\ decode_packet(f) = b
<1>0. b \in Seq(Bytes) /\ PayloadLen \in Nat /\ EFRAME_LEN = PayloadLen + 5
      /\ 4 * Groups(b) <= PayloadLen
  BY Sizes
<1>1. 4 * Groups(b) \in Nat
  BY <1>0, GroupsAre
<1>2. /\ f \in Seq(Chars) /\ Len(f) = EFRAME_LEN
      /\ f[1] = SOF0 /\ f[2] = SOF1
      /\ f[PayloadLen + 4] = EOF0 /\ f[PayloadLen + 5] = EOF1
      /\ \A i \in 1 .. 4 * Groups(b) : f[3 + i] = Text(b)[i]
      /\ \A i \in 4 * Groups(b) + 1 .. PayloadLen : f[3 + i] = SOF1
  BY FrameIs
<1>3. wellFormed(f)
  BY <1>0, <1>2 DEF wellFormed
<1> DEFINE m == 3
           e == PayloadLen + 3
           t == SubSeq(f, m + 1, e)
<1>4. decode_packet(f) = pem64_decode_bytes(t)
  BY <1>0 DEF decode_packet
<1>5. t \in Seq(Chars) /\ Len(t) = PayloadLen /\ \A i \in 1 .. PayloadLen : t[i] = f[3 + i]
  <2>1. m \in 0 .. Len(f) /\ e \in m .. Len(f) /\ e - m = PayloadLen
    BY <1>0, <1>2
  <2>2. t \in Seq(Chars) /\ Len(t) = e - m /\ \A i \in 1 .. e - m : t[i] = f[m + i]
    <3> HIDE DEF m, e
    <3> QED
      BY <1>2, <2>1, Piece
  <2> QED
    BY <2>1, <2>2
<1> HIDE DEF t
<1>6. Padded(t, b)
  <2>1. (\A i \in 1 .. 4 * Groups(b) : i \in 1 .. PayloadLen)
        /\ \A i \in 4 * Groups(b) + 1 .. PayloadLen : i \in 1 .. PayloadLen
    BY <1>0, <1>1
  <2> QED
    BY <1>0, <1>2, <1>5, <2>1 DEF Padded
<1> QED
  BY <1>0, <1>3, <1>4, <1>6, RoundTrip

(* What arrives is characters.                                             *)
LEMMA LineOK ==
  ASSUME NEW case \in Cases
  PROVE  case.blocks \in Seq(Block) /\ Line(case) \in Seq(Chars)
<1>1. /\ case.blocks \in Seq(Block) /\ case.cut \in Nat /\ case.noise \in Seq(Chars)
      /\ case.at \in Nat /\ case.blocks # <<>>
  BY IntakeAssumption DEF Block
<1> DEFINE frames == [i \in DOMAIN case.blocks |-> framer_fill_frame(case.blocks[i])]
           n == Len(case.blocks)
<1>2. frames \in Seq(Seq(Chars)) /\ Len(frames) = n /\ n >= 1
      /\ \A i \in 1 .. n : frames[i] \in Seq(Chars) /\ Len(frames[i]) = EFRAME_LEN
  <2>1. n \in Nat /\ n >= 1 /\ DOMAIN case.blocks = 1 .. n
    BY <1>1, SeqFacts
  <2>2. \A i \in 1 .. n : case.blocks[i] \in Block
    BY <1>1, SeqFacts
  <2>3. \A i \in 1 .. n : frames[i] = framer_fill_frame(case.blocks[i])
    BY <2>1
  <2>4. \A i \in 1 .. n : frames[i] \in Seq(Chars) /\ Len(frames[i]) = EFRAME_LEN
    <3> SUFFICES ASSUME NEW i \in 1 .. n
                 PROVE  frames[i] \in Seq(Chars) /\ Len(frames[i]) = EFRAME_LEN
      OBVIOUS
    <3>1. case.blocks[i] \in Block /\ frames[i] = framer_fill_frame(case.blocks[i])
      BY <2>2, <2>3
    <3> HIDE DEF frames
    <3> QED
      BY <3>1, FrameIs
  <2>5. frames \in [1 .. n -> Seq(Chars)]
    BY <2>1, <2>4
  <2>6. frames \in Seq(Seq(Chars)) /\ Len(frames) = n
    <3> HIDE DEF frames, n
    <3> QED
      BY <2>1, <2>5, FunSeq
  <2> QED
    BY <2>1, <2>4, <2>6
<1>3. Line(case) = Damage(SubSeq(Head(frames), case.cut + 1, EFRAME_LEN) \o case.noise
                            \o FlattenSeq(Tail(frames)), case.at, case.as)
  BY DEF Line
<1> HIDE DEF frames, n
<1>4. Head(frames) \in Seq(Chars) /\ Len(Head(frames)) = EFRAME_LEN
      /\ Tail(frames) \in Seq(Seq(Chars))
  <2>1. frames # <<>> /\ 1 \in 1 .. n
    BY <1>1, <1>2, SeqFacts, EmptySeq DEF n
  <2>2. Head(frames) = frames[1]
    BY <1>2
  <2> QED
    BY <1>2, <2>1, <2>2, HeadTailProperties
<1>5. SubSeq(Head(frames), case.cut + 1, EFRAME_LEN) \in Seq(Chars)
  <2>1. \A i \in case.cut + 1 .. EFRAME_LEN : Head(frames)[i] \in Chars
    <3>1. \A i \in 1 .. EFRAME_LEN : Head(frames)[i] \in Chars
      BY <1>4, SeqFacts
    <3> QED
      BY <1>1, <3>1, Sizes
  <2>2. case.cut + 1 \in Int /\ EFRAME_LEN \in Int
    BY <1>1, Sizes
  <2> QED
    BY <2>1, <2>2, SubSeqProperties
<1>6. FlattenSeq(Tail(frames)) \in Seq(Chars)
  <2>1. <<>> \in Seq(Chars)
    OBVIOUS
  <2> QED
    BY <1>4, <2>1, FlattenAppend
<1>7. ASSUME NEW s \in Seq(Chars)
      PROVE  Damage(s, case.at, case.as) \in Seq(Chars)
  <2>0. Len(s) \in Nat /\ DOMAIN s = 1 .. Len(s)
    BY SeqFacts
  <2>1. CASE case.at \notin DOMAIN s
    BY <2>1 DEF Damage
  <2>2. CASE case.at \in DOMAIN s /\ case.as \in Chars
    BY <2>0, <2>2, ExceptSeq DEF Damage
  <2>3. CASE case.at \in DOMAIN s /\ case.as \notin Chars
    <3> DEFINE k == case.at
    <3>1. k \in 1 .. Len(s)
      BY <2>0, <2>3
    <3> HIDE DEF k
    <3>2. SubSeq(s, 0 + 1, k - 1) \in Seq(Chars)
      <4>1. 0 \in 0 .. Len(s) /\ k - 1 \in 0 .. Len(s)
        BY <2>0, <3>1
      <4> QED
        BY <4>1, Piece
    <3>3. SubSeq(s, k + 1, Len(s)) \in Seq(Chars)
      <4>1. k \in 0 .. Len(s) /\ Len(s) \in k .. Len(s)
        BY <2>0, <3>1
      <4> QED
        BY <4>1, Piece
    <3>4. SubSeq(s, 1, k - 1) \o SubSeq(s, k + 1, Len(s)) \in Seq(Chars)
      BY <3>2, <3>3, Joined
    <3>5. Damage(s, case.at, case.as) = SubSeq(s, 1, k - 1) \o SubSeq(s, k + 1, Len(s))
      BY <2>3 DEF Damage, RemoveAt, k
    <3> QED
      BY <3>4, <3>5
  <2> QED
    BY <2>1, <2>2, <2>3
<1>8. SubSeq(Head(frames), case.cut + 1, EFRAME_LEN) \o case.noise
        \o FlattenSeq(Tail(frames)) \in Seq(Chars)
  BY <1>1, <1>5, <1>6, Joined
<1> QED
  BY <1>1, <1>3, <1>7, <1>8

(* What stays of a full buffer without a frame: its end, from a place on   *)
(* that is not the first; a frame starts at none of the others.            *)
LEMMA SkipIs ==
  ASSUME NEW buf \in Seq(Chars), Len(buf) = EFRAME_LEN
  PROVE  \E k \in 1 .. EFRAME_LEN :
           /\ skipsof0(buf) = SubSeq(buf, k + 1, Len(buf))
           /\ \A j \in 2 .. k : buf[j] # SOF0
<1>0. Len(buf) \in Nat /\ Len(buf) >= 5 /\ EFRAME_LEN \in Nat
  BY Sizes
<1> DEFINE i == IF buf[1] = SOF0 THEN 2 ELSE 1
           T == stars(buf, i)
<1>1. skipsof0(buf) = IF T = {} THEN <<>> ELSE SubSeq(buf, Min(T), Len(buf))
  BY DEF skipsof0, from
<1>2. i \in {1, 2} /\ (buf[1] = SOF0 => i = 2)
  OBVIOUS
<1>3. T \subseteq Nat /\ \A j \in T : j \in i .. Len(buf) /\ buf[j] = SOF0
  BY <1>0, <1>2 DEF stars
<1>4. \A j \in i .. Len(buf) : buf[j] = SOF0 => j \in T
  BY DEF stars
<1> HIDE DEF i, T
<1>5. CASE T = {}
  <2>1. \A j \in 2 .. Len(buf) : buf[j] # SOF0
    BY <1>0, <1>2, <1>4, <1>5
  <2>2. SubSeq(buf, Len(buf) + 1, Len(buf)) = <<>>
    <3>1. Len(buf) + 1 \in Int /\ Len(buf) \in Int /\ Len(buf) < Len(buf) + 1
      BY <1>0
    <3> QED
      BY <3>1, SubSeqEmpty
  <2>3. Len(buf) \in 1 .. EFRAME_LEN
    BY <1>0
  <2> QED
    BY <1>1, <1>5, <2>1, <2>2, <2>3
<1>6. CASE T # {}
  <2>1. Min(T) \in T /\ \A j \in T : Min(T) <= j
    BY <1>3, <1>6, LeastIs
  <2>2. PICK m \in Nat : m = Min(T)
    BY <1>3, <2>1
  <2>3. m \in i .. Len(buf) /\ buf[m] = SOF0 /\ \A j \in T : m <= j
    BY <1>3, <2>1, <2>2
  <2>4. m >= 2
    BY <1>0, <1>2, <2>3
  <2>5. m - 1 \in 1 .. EFRAME_LEN /\ m - 1 + 1 = m
    BY <1>0, <1>2, <2>3, <2>4
  <2>6. \A j \in 2 .. m - 1 : buf[j] # SOF0
    <3> SUFFICES ASSUME NEW j \in 2 .. m - 1, buf[j] = SOF0 PROVE FALSE
      OBVIOUS
    <3>1. j \in i .. Len(buf)
      BY <1>0, <1>2, <2>3
    <3>2. m <= j
      BY <1>4, <2>3, <3>1
    <3> QED
      BY <2>2, <3>2
  <2> QED
    BY <1>1, <1>6, <2>2, <2>5, <2>6
<1> QED
  BY <1>5, <1>6

-----------------------------------------------------------------------------
(* The list of blocks as a row of bytes                                    *)

(* A sequence from its end.                                                *)
LEMMA ReverseIs ==
  ASSUME NEW S, NEW s \in Seq(S)
  PROVE  /\ Reverse(s) \in Seq(S) /\ Len(Reverse(s)) = Len(s)
         /\ \A i \in 1 .. Len(s) : Reverse(s)[i] = s[Len(s) - i + 1]
<1> DEFINE n == Len(s)
<1>1. n \in Nat /\ \A i \in 1 .. n : s[i] \in S
  BY SeqFacts
<1>2. \A i \in 1 .. n : Reverse(s)[i] = s[n - i + 1] /\ n - i + 1 \in 1 .. n
  BY <1>1 DEF Reverse
<1>3. Reverse(s) \in [1 .. n -> S]
  BY <1>1, <1>2 DEF Reverse
<1>4. Reverse(s) \in Seq(S) /\ Len(Reverse(s)) = n
  <2> HIDE DEF n
  <2> QED
    BY <1>1, <1>3, FunSeq
<1> QED
  BY <1>2, <1>4

(* The last becomes the first.                                             *)
LEMMA ReverseAppend ==
  ASSUME NEW S, NEW s \in Seq(S), NEW e \in S
  PROVE  Reverse(Append(s, e)) = <<e>> \o Reverse(s)
<1> DEFINE n == Len(s)
           a == Append(s, e)
           u == Reverse(a)
           v == <<e>> \o Reverse(s)
<1>1. /\ n \in Nat /\ a \in Seq(S) /\ Len(a) = n + 1 /\ a[n + 1] = e
      /\ \A i \in 1 .. n : a[i] = s[i]
  BY SeqFacts, AppendFacts
<1> HIDE DEF a
<1>2. u \in Seq(S) /\ Len(u) = n + 1 /\ \A i \in 1 .. n + 1 : u[i] = a[n + 1 - i + 1]
  BY <1>1, ReverseIs
<1>3. Reverse(s) \in Seq(S) /\ Len(Reverse(s)) = n
      /\ \A i \in 1 .. n : Reverse(s)[i] = s[n - i + 1]
  BY ReverseIs
<1>4. <<e>> \in Seq(S) /\ Len(<<e>>) = 1 /\ <<e>>[1] = e
  OBVIOUS
<1>5. /\ v \in Seq(S) /\ Len(v) = 1 + n /\ v[1] = e
      /\ \A i \in 1 .. n : v[1 + i] = Reverse(s)[i]
  BY <1>3, <1>4, Joined
<1> HIDE DEF u, v, n
<1>6. ASSUME NEW i \in 1 .. n + 1
      PROVE  u[i] = v[i]
  <2>1. CASE i = 1
    BY <1>1, <1>2, <1>5, <2>1
  <2>2. CASE i # 1
    <3>1. i - 1 \in 1 .. n /\ 1 + (i - 1) = i /\ n + 1 - i + 1 \in 1 .. n
          /\ n - (i - 1) + 1 = n + 1 - i + 1
      BY <1>1, <2>2
    <3>2. v[1 + (i - 1)] = s[n - (i - 1) + 1]
      BY <1>3, <1>5, <3>1
    <3> QED
      BY <1>1, <1>2, <3>1, <3>2
  <2> QED
    BY <2>1, <2>2
<1>7. u = v
  BY <1>1, <1>2, <1>5, <1>6, SeqEqual
<1> QED
  BY <1>7 DEF u, v, a

(* The bytes of a list of blocks, in the order they are handed out.        *)
HeldOf(list) == FlattenSeq(Reverse(list))

(* A block at the end of the list is handed out first.                     *)
LEMMA HeldAppend ==
  ASSUME NEW list \in Seq(Seq(Bytes)), NEW b \in Seq(Bytes)
  PROVE  /\ HeldOf(list) \in Seq(Bytes)
         /\ HeldOf(Append(list, b)) = b \o HeldOf(list)
         /\ Len(HeldOf(Append(list, b))) = Len(b) + Len(HeldOf(list))
<1>1. Reverse(list) \in Seq(Seq(Bytes))
  BY ReverseIs
<1>2. Reverse(Append(list, b)) = <<b>> \o Reverse(list)
  BY ReverseAppend
<1>3. HeldOf(Append(list, b)) = b \o HeldOf(list)
  BY <1>1, <1>2, FlattenCons DEF HeldOf
<1>4. <<>> \in Seq(Bytes)
  OBVIOUS
<1>5. HeldOf(list) \in Seq(Bytes)
  BY <1>1, <1>4, FlattenAppend DEF HeldOf
<1>6. Len(b \o HeldOf(list)) = Len(b) + Len(HeldOf(list))
  BY <1>5, Joined
<1> QED
  BY <1>3, <1>5, <1>6

(* Nothing in the list, nothing held.                                      *)
LEMMA HeldNone == HeldOf(<<>>) = <<>>
<1>1. Reverse(<<>>) \in Seq({}) /\ Len(Reverse(<<>>)) = 0
  <2>1. <<>> \in Seq({}) /\ Len(<<>>) = 0
    OBVIOUS
  <2> QED
    BY <2>1, ReverseIs
<1>2. Reverse(<<>>) = <<>>
  BY <1>1, EmptySeq
<1> QED
  BY <1>2 DEF HeldOf, FlattenSeq

(* A list with a block in it has a last one.                               *)
LEMMA LastBlock ==
  ASSUME NEW S, NEW list \in Seq(S), list # <<>>
  PROVE  /\ Front(list) \in Seq(S) /\ Last(list) \in S
         /\ list = Append(Front(list), Last(list))
         /\ Len(Front(list)) = Len(list) - 1
         /\ \A i \in 1 .. Len(list) - 1 : Front(list)[i] = list[i]
<1>1. PICK s \in Seq(S), e \in S : list = Append(s, e)
  BY SequenceEmptyOrAppend
<1>2. /\ Len(list) = Len(s) + 1 /\ list[Len(list)] = e /\ Len(s) \in Nat
      /\ \A i \in 1 .. Len(s) : list[i] = s[i]
  BY <1>1, AppendFacts, SeqFacts
<1>3. Last(list) = e
  BY <1>2 DEF Last
<1>4. Front(list) = s
  <2> DEFINE f == SubSeq(list, 0 + 1, Len(s))
  <2>1. f \in Seq(S) /\ Len(f) = Len(s) - 0 /\ \A i \in 1 .. Len(s) - 0 : f[i] = list[0 + i]
    <3>1. 0 \in 0 .. Len(list) /\ Len(s) \in 0 .. Len(list)
      BY <1>2
    <3> QED
      BY <3>1, Piece
  <2>2. Len(f) = Len(s) /\ \A i \in 1 .. Len(f) : f[i] = s[i]
    <3> HIDE DEF f
    <3> QED
      BY <1>2, <2>1
  <2>3. f = s
    <3> HIDE DEF f
    <3> QED
      BY <2>1, <2>2, SeqEqual
  <2>4. Front(list) = f
    <3>1. Len(list) - 1 = Len(s)
      BY <1>2
    <3> QED
      BY <3>1 DEF Front
  <2> QED
    BY <2>3, <2>4
<1>5. Len(list) - 1 = Len(s)
  BY <1>2
<1> QED
  BY <1>1, <1>2, <1>3, <1>4, <1>5

(* Suffixes, from the end.                                                 *)
LEMMA SuffixIs ==
  ASSUME NEW S, NEW s \in Seq(S), NEW b \in Seq(S)
  PROVE  IsSuffix(s, b) <=>
           Len(s) <= Len(b) /\ \A i \in 1 .. Len(s) : Reverse(s)[i] = Reverse(b)[i]
<1> DEFINE u == Reverse(s)
           v == Reverse(b)
<1>1. u \in Seq(S) /\ v \in Seq(S) /\ Len(u) = Len(s) /\ Len(v) = Len(b)
      /\ Len(s) \in Nat /\ Len(b) \in Nat
  BY ReverseIs, SeqFacts
<1>2. IsSuffix(s, b) <=> Len(u) <= Len(v) /\ SubSeq(u, 1, Len(u)) = SubSeq(v, 1, Len(u))
  BY DEF IsSuffix, IsPrefix
<1> HIDE DEF u, v
<1>3. ASSUME Len(u) <= Len(v)
      PROVE  SubSeq(u, 1, Len(u)) = SubSeq(v, 1, Len(u)) <=> \A i \in 1 .. Len(u) : u[i] = v[i]
  <2> DEFINE w == SubSeq(v, 0 + 1, Len(u))
  <2>1. SubSeq(u, 1, Len(u)) = u
    BY <1>1, SubSeqFull
  <2>2. w \in Seq(S) /\ Len(w) = Len(u) - 0 /\ \A i \in 1 .. Len(u) - 0 : w[i] = v[0 + i]
    <3>1. 0 \in 0 .. Len(v) /\ Len(u) \in 0 .. Len(v)
      BY <1>1, <1>3
    <3> QED
      BY <1>1, <3>1, Piece
  <2>3. Len(w) = Len(u) /\ \A i \in 1 .. Len(u) : w[i] = v[i]
    <3> HIDE DEF w
    <3> QED
      BY <1>1, <2>2
  <2>4. u = w <=> \A i \in 1 .. Len(u) : u[i] = w[i]
    <3> HIDE DEF w
    <3> QED
      BY <1>1, <2>2, <2>3, SeqEqual
  <2>5. SubSeq(v, 1, Len(u)) = w
    OBVIOUS
  <2> HIDE DEF w
  <2> QED
    BY <2>1, <2>3, <2>4, <2>5
<1> QED
  BY <1>1, <1>2, <1>3 DEF u, v

(* A block is a suffix of itself, and what is left of a suffix is one.     *)
LEMMA SuffixRest ==
  ASSUME NEW S, NEW b \in Seq(S)
  PROVE  /\ IsSuffix(b, b)
         /\ \A s \in Seq(S) : \A k \in 0 .. Len(s) :
              IsSuffix(s, b) => IsSuffix(SubSeq(s, k + 1, Len(s)), b)
<1>1. IsSuffix(b, b)
  <2>1. Len(b) <= Len(b)
    BY SeqFacts
  <2> QED
    BY <2>1, SuffixIs
<1>2. ASSUME NEW s \in Seq(S), NEW k \in 0 .. Len(s), IsSuffix(s, b)
      PROVE  IsSuffix(SubSeq(s, k + 1, Len(s)), b)
  <2> DEFINE r == SubSeq(s, k + 1, Len(s))
             n == Len(s)
  <2>0. n \in Nat /\ Len(b) \in Nat
    BY SeqFacts
  <2>1. r \in Seq(S) /\ Len(r) = n - k /\ \A i \in 1 .. n - k : r[i] = s[k + i]
    <3>1. n \in k .. n
      BY <2>0
    <3> QED
      BY <3>1, Piece
  <2>2. n <= Len(b) /\ \A i \in 1 .. n : Reverse(s)[i] = Reverse(b)[i]
    BY <1>2, SuffixIs
  <2>3. \A i \in 1 .. n : Reverse(s)[i] = s[n - i + 1]
    BY ReverseIs
  <2> HIDE DEF r, n
  <2>4. \A i \in 1 .. n - k : Reverse(r)[i] = r[n - k - i + 1]
    <3>1. r \in Seq(S)
      BY <2>1
    <3>2. \A i \in 1 .. Len(r) : Reverse(r)[i] = r[Len(r) - i + 1]
      BY ONLY <3>1, ReverseIs
    <3> QED
      BY <2>1, <3>2
  <2>5. ASSUME NEW i \in 1 .. n - k
        PROVE  Reverse(r)[i] = Reverse(b)[i]
    <3>1. i \in 1 .. n /\ n - k - i + 1 \in 1 .. n - k /\ k + (n - k - i + 1) = n - i + 1
      BY <1>2, <2>0 DEF n
    <3>2. Reverse(r)[i] = s[k + (n - k - i + 1)]
      BY <2>1, <2>4, <3>1
    <3> QED
      BY <2>2, <2>3, <3>1, <3>2
  <2>6. Len(r) <= Len(b)
    BY <1>2, <2>0, <2>1, <2>2 DEF n
  <2>7. IsSuffix(r, b)
    BY <2>1, <2>5, <2>6, SuffixIs
  <2> QED
    BY <2>7 DEF r, n
<1> QED
  BY <1>1, <1>2

-----------------------------------------------------------------------------
(* The inductive invariant                                                 *)

(* What is sent and what arrives.                                          *)
Arriving == blocks \in Seq(Block) /\ line \in Seq(Chars)

(* The place on the line at which the buffer starts.                       *)
start == bytes_read - Len(frame)

(* The buffer is a piece of the line: what is read next joins on to it.    *)
Buffered ==
  /\ bytes_read \in 0 .. Len(line) /\ frame \in Seq(Chars)
  /\ Len(frame) < EFRAME_LEN /\ Len(frame) <= bytes_read
  /\ \A i \in 1 .. Len(frame) : frame[i] = line[start + i]

(* No whole frame was passed over, and no two of those found overlap.      *)
Framed ==
  /\ open \in BOOLEAN /\ found \in Seq(Nat)
  /\ \A o \in Intact : open /\ o < start => o \in Range(found)
  /\ \A i, j \in DOMAIN found : i < j => found[i] + EFRAME_LEN <= found[j]
  /\ \A i \in DOMAIN found : found[i] + EFRAME_LEN <= start /\ wellFormed(Window(found[i]))

(* What may be in the list: the end of a block that was sent.              *)
Remains ==
  {s \in Seq(Bytes) : Len(s) \in 1 .. BlockLen /\ \E b \in Range(blocks) : IsSuffix(s, b)}

Pooled ==
  /\ entropy_blocks \in Seq(Remains)
  /\ total_entropy = Len(held) /\ total_entropy <= MAX_ENTROPY

(* What is gathered and what is still asked for are what was asked for.    *)
Served ==
  /\ asked \in 0 .. MaxAsk \cup {NULL} /\ retstr \in Seq(Bytes) /\ out \in Seq(Bytes)
  /\ idle => retstr = <<>>
  /\ ~idle => asked + Len(retstr) <= MaxAsk

IInv == Arriving /\ Buffered /\ Framed /\ Pooled /\ Served

(* A stretch of the line.                                                  *)
LEMMA WindowIs ==
  ASSUME Arriving, NEW o \in Nat, o + EFRAME_LEN <= Len(line)
  PROVE  /\ Window(o) \in Seq(Chars) /\ Len(Window(o)) = EFRAME_LEN
         /\ \A i \in 1 .. EFRAME_LEN : Window(o)[i] = line[o + i]
<1> DEFINE e == o + EFRAME_LEN
<1>1. line \in Seq(Chars) /\ o \in 0 .. Len(line) /\ e \in o .. Len(line)
      /\ e - o = EFRAME_LEN
  <2>1. Len(line) \in Nat /\ EFRAME_LEN \in Nat
    BY Sizes, SeqFacts DEF Arriving
  <2> QED
    BY <2>1 DEF Arriving
<1>2. Window(o) = SubSeq(line, o + 1, e)
  BY DEF Window
<1> HIDE DEF e
<1> QED
  BY <1>1, <1>2, Piece

(* A frame that was sent is that of one of the blocks.                     *)
LEMMA SentIs ==
  ASSUME Arriving, NEW s, Sent(s)
  PROVE  \E b \in Block : b \in Range(blocks) /\ s = framer_fill_frame(b)
<1>1. PICK i \in DOMAIN blocks : s = framer_fill_frame(blocks[i])
  BY DEF Sent
<1>2. blocks[i] \in Block
  BY SeqFacts DEF Arriving
<1> QED
  BY <1>1, <1>2 DEF Range

(* A frame that arrives whole, place by place.                             *)
LEMMA IntactIs ==
  ASSUME Arriving, NEW o \in Intact
  PROVE  /\ o \in Nat /\ o + EFRAME_LEN <= Len(line) /\ wellFormed(Window(o))
         /\ line[o + 1] = SOF0
         /\ \A i \in 1 .. EFRAME_LEN : line[o + i] = EOF0 => i = EFRAME_LEN - 1
<1>1. o \in Nat /\ o + EFRAME_LEN <= Len(line) /\ Sent(Window(o))
  <2>1. Len(line) \in Nat /\ EFRAME_LEN \in Nat
    BY Sizes, SeqFacts DEF Arriving
  <2> QED
    BY <2>1 DEF Intact
<1>2. PICK b \in Block : Window(o) = framer_fill_frame(b)
  BY <1>1, SentIs
<1> DEFINE w == Window(o)
<1>3. \A i \in 1 .. EFRAME_LEN : w[i] = line[o + i]
  BY <1>1, WindowIs
<1>4. /\ wellFormed(w) /\ w[1] = SOF0
      /\ \A i \in 1 .. EFRAME_LEN : w[i] = EOF0 => i = EFRAME_LEN - 1
  <2>1. w = framer_fill_frame(b)
    BY <1>2
  <2> HIDE DEF w
  <2> QED
    BY <2>1, FrameIs, FrameDecodes
<1>5. 1 \in 1 .. EFRAME_LEN
  BY Sizes
<1> QED
  BY <1>1, <1>3, <1>4, <1>5

(* What the buffer holds after a read.                                     *)
LEMMA Filled ==
  ASSUME Arriving, Buffered, NEW n \in 1 .. EFRAME_LEN, read(n)
  PROVE  /\ open /\ idle /\ bytes_read' = bytes_read + n /\ bytes_read' \in 0 .. Len(line)
         /\ start \in Nat /\ Len(frame) \in Nat /\ start + Len(frame) = bytes_read
         /\ filled(n) \in Seq(Chars) /\ Len(filled(n)) = Len(frame) + n
         /\ Len(filled(n)) <= EFRAME_LEN /\ start + Len(filled(n)) = bytes_read'
         /\ \A i \in 1 .. Len(filled(n)) : filled(n)[i] = line[start + i]
<1> DEFINE N == Len(line)
           u == Len(frame)
           m == bytes_read
           e == bytes_read + n
           x == SubSeq(line, m + 1, e)
<1>0. N \in Nat /\ u \in Nat /\ m \in 0 .. N /\ u < EFRAME_LEN /\ u <= m /\ EFRAME_LEN \in Nat
      /\ frame \in Seq(Chars) /\ line \in Seq(Chars) /\ start = m - u
      /\ \A i \in 1 .. u : frame[i] = line[start + i]
  BY Sizes, SeqFacts DEF Arriving, Buffered, start
<1>1. n <= EFRAME_LEN - u /\ n <= N - m /\ open /\ idle /\ bytes_read' = bytes_read + n
  <2> DEFINE T == {EFRAME_LEN - u, N - m}
  <2>1. n \in 1 .. Min(T) /\ open /\ idle /\ bytes_read' = bytes_read + n
    BY DEF read, idle
  <2>2. T \subseteq Nat /\ T # {}
    <3> HIDE DEF N, u, m
    <3> QED
      BY <1>0
  <2>3. Min(T) \in Nat /\ Min(T) <= EFRAME_LEN - u /\ Min(T) <= N - m
    <3>1. EFRAME_LEN - u \in T /\ N - m \in T
      OBVIOUS
    <3> HIDE DEF T
    <3> QED
      BY <2>2, <3>1, LeastIs
  <2> HIDE DEF T, N, u, m
  <2> QED
    BY <1>0, <2>1, <2>3
<1>2. e \in m .. N /\ e - m = n /\ m \in 0 .. N /\ e = m + n
  <2> HIDE DEF N, u
  <2> QED
    BY <1>0, <1>1
<1>3. x \in Seq(Chars) /\ Len(x) = n /\ \A i \in 1 .. n : x[i] = line[m + i]
  <2>1. x \in Seq(Chars) /\ Len(x) = e - m /\ \A i \in 1 .. e - m : x[i] = line[m + i]
    <3>1. line \in Seq(Chars) /\ m \in 0 .. Len(line) /\ e \in m .. Len(line)
      BY <1>0, <1>2
    <3> HIDE DEF m, e
    <3> QED
      BY ONLY <3>1, Piece DEF x
  <2> HIDE DEF x, m, e
  <2> QED
    BY <1>2, <2>1
<1>4. filled(n) = frame \o x
  BY DEF filled
<1> HIDE DEF x
<1>5. /\ filled(n) \in Seq(Chars) /\ Len(filled(n)) = u + n
      /\ \A i \in 1 .. u : filled(n)[i] = frame[i]
      /\ \A i \in 1 .. n : filled(n)[u + i] = x[i]
  <2>1. frame \in Seq(Chars) /\ x \in Seq(Chars) /\ Len(x) = n
    BY <1>0, <1>3
  <2>2. /\ frame \o x \in Seq(Chars) /\ Len(frame \o x) = Len(frame) + Len(x)
        /\ \A i \in 1 .. Len(frame) : (frame \o x)[i] = frame[i]
        /\ \A i \in 1 .. Len(x) : (frame \o x)[Len(frame) + i] = x[i]
    <3>1. frame \in Seq(Chars) /\ x \in Seq(Chars)
      BY <2>1
    <3> QED
      BY ONLY <3>1, Joined
  <2> QED
    BY <1>4, <2>1, <2>2
<1> HIDE DEF N, u, m, e
<1>6. ASSUME NEW i \in 1 .. u + n
      PROVE  filled(n)[i] = line[start + i]
  <2>1. CASE i <= u
    BY <1>0, <1>5, <2>1
  <2>2. CASE i > u
    <3>1. i - u \in 1 .. n /\ u + (i - u) = i /\ m + (i - u) = start + i
      BY <1>0, <2>2
    <3>2. filled(n)[u + (i - u)] = line[m + (i - u)]
      BY <1>3, <1>5, <3>1
    <3> QED
      BY <3>1, <3>2
  <2> QED
    BY <1>0, <2>1, <2>2
<1>7. start \in Nat /\ start + u = bytes_read /\ start + (u + n) = bytes_read'
      /\ bytes_read' \in 0 .. N /\ u + n <= EFRAME_LEN
  BY <1>0, <1>1, <1>2 DEF m
<1> QED
  BY <1>0, <1>1, <1>5, <1>6, <1>7 DEF N, u

(* A full buffer is the stretch of the line from its start on.             *)
LEMMA FullBuffer ==
  ASSUME Arriving, Buffered, NEW n \in 1 .. EFRAME_LEN, read(n), Len(filled(n)) = EFRAME_LEN
  PROVE  filled(n) = Window(start) /\ start + EFRAME_LEN <= Len(line)
<1>1. /\ start \in Nat /\ start + EFRAME_LEN = bytes_read' /\ bytes_read' \in 0 .. Len(line)
      /\ filled(n) \in Seq(Chars)
      /\ \A i \in 1 .. EFRAME_LEN : filled(n)[i] = line[start + i]
  BY Filled
<1>2. start + EFRAME_LEN <= Len(line)
  BY <1>1, SeqFacts, Sizes DEF Arriving
<1>3. /\ Window(start) \in Seq(Chars) /\ Len(Window(start)) = EFRAME_LEN
      /\ \A i \in 1 .. EFRAME_LEN : Window(start)[i] = line[start + i]
  BY <1>1, <1>2, WindowIs
<1> HIDE DEF start
<1>4. filled(n) = Window(start)
  <2> DEFINE f == filled(n)
             w == Window(start)
  <2>1. f \in Seq(Chars) /\ w \in Seq(Chars) /\ Len(f) = Len(w)
        /\ \A i \in 1 .. Len(f) : f[i] = w[i]
    BY <1>1, <1>3
  <2> HIDE DEF f, w
  <2>2. f = w
    BY <2>1, SeqEqual
  <2> QED
    BY <2>2 DEF f, w
<1> QED
  BY <1>2, <1>4

(* Blocks and line stay, and with them the frames that arrive whole.       *)
LEMMA SameLine ==
  ASSUME UNCHANGED <<blocks, line>>
  PROVE  /\ Intact' = Intact /\ Remains' = Remains /\ (Arriving => Arriving')
         /\ \A o : Window(o)' = Window(o)
BY DEF Intact, Remains, Arriving, Window, Sent

(* The beginning.                                                          *)
LEMMA InitFound ==
  ASSUME Init
  PROVE  IInv
<1>1. Arriving
  BY LineOK DEF Init, Arriving
<1>2. Buffered
  <2>1. Len(line) \in Nat /\ EFRAME_LEN > 0
    BY <1>1, Sizes, SeqFacts DEF Arriving
  <2>2. bytes_read = 0 /\ frame = <<>> /\ Len(frame) = 0
    BY DEF Init
  <2> QED
    BY <2>1, <2>2 DEF Buffered
<1>3. Framed
  <2>1. open = TRUE /\ found = <<>> /\ bytes_read = 0 /\ frame = <<>> /\ Len(frame) = 0
    BY DEF Init
  <2>2. start = 0
    <3>1. bytes_read = 0 /\ Len(frame) = 0
      BY <2>1
    <3> QED
      BY ONLY <3>1 DEF start
  <2>3. \A o \in Intact : o \in Nat
    BY <1>1, IntactIs
  <2>4. \A o \in Intact : ~ (o < start)
    BY <2>2, <2>3
  <2>5. DOMAIN found = {}
    BY <2>1
  <2> QED
    BY <2>1, <2>4, <2>5 DEF Framed
<1>4. Pooled
  <2>1. entropy_blocks = <<>> /\ total_entropy = 0
    BY DEF Init
  <2>2. held = <<>>
    BY <2>1, HeldNone DEF held, HeldOf
  <2> QED
    BY <2>1, <2>2, Sizes DEF Pooled
<1>5. Served
  BY DEF Init, Served, idle
<1> QED
  BY <1>1, <1>2, <1>3, <1>4, <1>5 DEF IInv

(* The buffer moves on without a frame: what it leaves behind is not the   *)
(* start of a frame that arrives whole.                                    *)
LEMMA FurtherOn ==
  ASSUME Arriving, Buffered, Framed, UNCHANGED <<blocks, line, open, found>>,
         NEW k \in Nat, start' = start + k,
         \A o \in Intact : ~ (start <= o /\ o < start + k)
  PROVE  Framed'
<1>1. Intact' = Intact /\ \A o : Window(o)' = Window(o)
  BY SameLine
<1>2. \A o \in Intact : o \in Nat
  BY IntactIs
<1>3. start \in Int
  <2>1. Len(frame) \in Nat /\ bytes_read \in Nat
    BY SeqFacts DEF Arriving, Buffered
  <2> QED
    BY <2>1 DEF start
<1> DEFINE R == Range(found)
<1>4. ASSUME NEW o \in Intact, open, o < start + k
      PROVE  o \in Range(found)
  <2>1. o < start
    BY <1>2, <1>3, <1>4
  <2> QED
    BY <1>4, <2>1 DEF Framed
<1>5. ASSUME NEW i \in DOMAIN found
      PROVE  found[i] + EFRAME_LEN <= start + k /\ wellFormed(Window(found[i]))
  <2>1. found[i] \in Nat /\ EFRAME_LEN \in Nat
    BY SeqFacts, Sizes DEF Framed
  <2>2. found[i] + EFRAME_LEN <= start /\ wellFormed(Window(found[i]))
    BY DEF Framed
  <2> QED
    BY <1>3, <2>1, <2>2
<1>6. Range(found)' = Range(found) /\ found' = found /\ open' = open
  OBVIOUS
<1>7. ASSUME NEW i \in DOMAIN found
      PROVE  wellFormed(Window(found[i]))'
  BY <1>1, <1>5, <1>6 DEF wellFormed
<1> HIDE DEF start
<1> QED
  BY <1>1, <1>4, <1>5, <1>6, <1>7 DEF Framed

(* The framer, between two frames.                                         *)
LEMMA IncompleteKeeps ==
  ASSUME IInv, Incomplete, UNCHANGED <<blocks, line>>
  PROVE  IInv'
<1>1. PICK n \in 1 .. EFRAME_LEN :
        /\ read(n)
        /\ \/ Len(filled(n)) < EFRAME_LEN /\ frame' = filled(n)
           \/ /\ Len(filled(n)) = EFRAME_LEN /\ ~wellFormed(filled(n))
              /\ frame' = skipsof0(filled(n))
  BY DEF Incomplete
<1>2. Arriving /\ Buffered /\ Framed /\ Pooled /\ Served
  BY DEF IInv
<1>3. UNCHANGED <<open, found, poolVars>>
  BY DEF Incomplete
<1>4. Pooled' /\ Served' /\ Arriving'
  BY <1>2, <1>3, SameLine DEF Pooled, Served, held, idle, poolVars
<1> DEFINE f == filled(n)
           s == start
           e == bytes_read'
<1>5. /\ e \in 0 .. Len(line) /\ s \in Nat /\ Len(frame) \in Nat /\ s + Len(frame) = bytes_read
      /\ f \in Seq(Chars) /\ Len(f) = Len(frame) + n /\ Len(f) <= EFRAME_LEN
      /\ s + Len(f) = e /\ \A i \in 1 .. Len(f) : f[i] = line[s + i]
  BY <1>1, <1>2, Filled
<1>6. EFRAME_LEN \in Nat /\ EFRAME_LEN >= 5 /\ Len(line) \in Nat
  BY <1>2, Sizes, SeqFacts DEF Arriving
<1>7. CASE Len(f) < EFRAME_LEN /\ frame' = f
  <2>1. start' = s
    <3> HIDE DEF f, s, e
    <3>1. e - Len(f) = s
      BY <1>5
    <3> QED
      BY <1>7, <3>1 DEF start, e
  <2>2. Framed'
    <3>1. start' = start + 0
      BY <1>5, <2>1
    <3>2. \A o \in Intact : ~ (start <= o /\ o < start + 0)
      BY <1>2, <1>5, IntactIs
    <3>3. UNCHANGED <<blocks, line, open, found>>
      BY <1>3
    <3> HIDE DEF f, s, e
    <3> QED
      BY <1>2, <3>1, <3>2, <3>3, FurtherOn
  <2>3. Buffered'
    <3> HIDE DEF f, s
    <3>1. Len(f) <= e
      BY <1>5
    <3> QED
      BY <1>5, <1>7, <2>1, <3>1 DEF Buffered
  <2> QED
    BY <1>4, <2>2, <2>3 DEF IInv
<1>8. CASE Len(f) = EFRAME_LEN /\ ~wellFormed(f) /\ frame' = skipsof0(f)
  <2>1. PICK k \in 1 .. EFRAME_LEN :
          skipsof0(f) = SubSeq(f, k + 1, Len(f)) /\ \A j \in 2 .. k : f[j] # SOF0
    <3> HIDE DEF f
    <3> QED
      BY <1>5, <1>8, SkipIs
  <2>2. /\ frame' \in Seq(Chars) /\ Len(frame') = EFRAME_LEN - k
        /\ \A i \in 1 .. EFRAME_LEN - k : frame'[i] = f[k + i]
    <3>1. k \in 0 .. Len(f) /\ Len(f) \in k .. Len(f)
      BY <1>6, <1>8
    <3>2. /\ SubSeq(f, k + 1, Len(f)) \in Seq(Chars)
          /\ Len(SubSeq(f, k + 1, Len(f))) = Len(f) - k
          /\ \A i \in 1 .. Len(f) - k : SubSeq(f, k + 1, Len(f))[i] = f[k + i]
      <4>1. f \in Seq(Chars)
        BY <1>5
      <4> HIDE DEF f
      <4> QED
        BY ONLY <3>1, <4>1, Piece
    <3> HIDE DEF f
    <3> QED
      BY <1>8, <2>1, <3>2
  <2>3. start' = s + k /\ k \in Nat /\ Len(frame') <= e
    <3>1. s + EFRAME_LEN = e
      BY <1>5, <1>8
    <3> HIDE DEF f, s, e
    <3>2. e - (EFRAME_LEN - k) = s + k /\ EFRAME_LEN - k <= e
      BY <1>5, <1>6, <3>1
    <3>3. start' = e - Len(frame')
      BY DEF start, e
    <3> QED
      BY <2>2, <3>2, <3>3
  <2>4. Buffered'
    <3>1. ASSUME NEW i \in 1 .. EFRAME_LEN - k
          PROVE  frame'[i] = line[s + k + i]
      <4>1. k + i \in 1 .. EFRAME_LEN /\ s + (k + i) = s + k + i
        BY <1>5, <1>6
      <4> HIDE DEF f, s, e
      <4>2. f[k + i] = line[s + (k + i)]
        BY <1>5, <1>8, <4>1
      <4> QED
        BY <2>2, <4>1, <4>2
    <3>2. Len(frame') < EFRAME_LEN
      BY <1>6, <2>2
    <3> HIDE DEF f, s
    <3> QED
      BY <1>5, <2>2, <2>3, <3>1, <3>2 DEF Buffered
  <2>5. \A o \in Intact : ~ (start <= o /\ o < start + k)
    <3> SUFFICES ASSUME NEW o \in Intact, s <= o, o < s + k
                 PROVE  FALSE
      OBVIOUS
    <3>1. o \in Nat /\ wellFormed(Window(o)) /\ line[o + 1] = SOF0
      BY <1>2, IntactIs
    <3>2. CASE o = s
      <4>1. f = Window(s)
        BY <1>1, <1>2, <1>8, FullBuffer
      <4> HIDE DEF f, s
      <4> QED
        BY <1>8, <3>1, <3>2, <4>1
    <3>3. CASE o # s
      <4> HIDE DEF f, s, e
      <4>1. o - s + 1 \in 2 .. k /\ o - s + 1 \in 1 .. EFRAME_LEN /\ s + (o - s + 1) = o + 1
        BY <1>5, <1>6, <3>1, <3>3
      <4>2. f[o - s + 1] = line[s + (o - s + 1)]
        BY <1>5, <1>8, <4>1
      <4> QED
        BY <2>1, <3>1, <4>1, <4>2
    <3> QED
      BY <3>2, <3>3
  <2>6. Framed'
    <3>1. start' = start + k /\ k \in Nat
      BY <2>3
    <3>2. UNCHANGED <<blocks, line, open, found>>
      BY <1>3
    <3> HIDE DEF f, s, e
    <3> QED
      BY <1>2, <2>5, <3>1, <3>2, FurtherOn
  <2> QED
    BY <1>4, <2>4, <2>6 DEF IInv
<1> QED
  BY <1>1, <1>7, <1>8

(* A frame that is found ends before the next that arrives whole begins.   *)
LEMMA NoneInside ==
  ASSUME Arriving, NEW s \in Nat, s + EFRAME_LEN <= Len(line), wellFormed(Window(s)),
         NEW o \in Intact, s < o
  PROVE  o >= s + EFRAME_LEN
<1> SUFFICES ASSUME o < s + EFRAME_LEN PROVE FALSE
  <2>1. o \in Nat /\ EFRAME_LEN \in Nat
    BY IntactIs, Sizes
  <2> QED
    BY <2>1
<1>1. /\ o \in Nat /\ line[o + 1] = SOF0
      /\ \A i \in 1 .. EFRAME_LEN : line[o + i] = EOF0 => i = EFRAME_LEN - 1
  BY IntactIs
<1>2. EFRAME_LEN \in Nat /\ EFRAME_LEN >= 5
  BY Sizes
<1>3. line[s + (EFRAME_LEN - 1)] = EOF0 /\ line[s + EFRAME_LEN] = EOF1
  <2>1. \A i \in 1 .. EFRAME_LEN : Window(s)[i] = line[s + i]
    BY WindowIs
  <2>2. EFRAME_LEN - 1 \in 1 .. EFRAME_LEN /\ EFRAME_LEN \in 1 .. EFRAME_LEN
    BY <1>2
  <2> QED
    BY <2>1, <2>2 DEF wellFormed
<1>4. CASE o = s + EFRAME_LEN - 1
  <2>1. o + 1 = s + EFRAME_LEN
    BY <1>2, <1>4
  <2> QED
    BY <1>1, <1>3, <2>1 DEF SOF0, EOF1
<1>5. CASE o # s + EFRAME_LEN - 1
  <2> DEFINE i == s + (EFRAME_LEN - 1) - o
  <2>1. i \in 1 .. EFRAME_LEN /\ i # EFRAME_LEN - 1 /\ o + i = s + (EFRAME_LEN - 1)
    BY <1>1, <1>2, <1>5
  <2> HIDE DEF i
  <2> QED
    BY <1>1, <1>3, <2>1
<1> QED
  BY <1>4, <1>5

(* A block joins the list, or does not fit.                                *)
LEMMA Enqueued ==
  ASSUME Pooled, UNCHANGED blocks,
         NEW b \in Block, b \in Range(blocks), enqueue_entropy(b)
  PROVE  /\ Pooled'
         /\ \/ UNCHANGED <<entropy_blocks, total_entropy>>
            \/ /\ entropy_blocks' = Append(entropy_blocks, b)
               /\ total_entropy + BlockLen <= MAX_ENTROPY
<1>0. b \in Seq(Bytes) /\ Len(b) = BlockLen /\ BlockLen \in 1 .. BlockLen
  BY Sizes
<1>1. Remains' = Remains
  BY DEF Remains
<1>2. b \in Remains
  BY <1>0, SuffixRest DEF Remains
<1>3. CASE UNCHANGED <<entropy_blocks, total_entropy>>
  BY <1>1, <1>3 DEF Pooled, held
<1>4. CASE /\ total_entropy + Len(b) <= MAX_ENTROPY
           /\ entropy_blocks' = Append(entropy_blocks, b)
           /\ total_entropy' = total_entropy + Len(b)
  <2>1. entropy_blocks \in Seq(Remains) /\ total_entropy = Len(held)
    BY DEF Pooled
  <2>2. entropy_blocks' \in Seq(Remains)
    BY <1>2, <1>4, <2>1
  <2>3. entropy_blocks \in Seq(Seq(Bytes))
    <3>1. Remains \subseteq Seq(Bytes)
      BY DEF Remains
    <3> QED
      BY <2>1, <3>1, SeqMonotonic
  <2>4. /\ HeldOf(entropy_blocks) \in Seq(Bytes)
        /\ Len(HeldOf(Append(entropy_blocks, b))) = Len(b) + Len(HeldOf(entropy_blocks))
    BY <1>0, <2>3, HeldAppend
  <2>5. total_entropy' = Len(held')
    <3>1. held = HeldOf(entropy_blocks) /\ held' = HeldOf(Append(entropy_blocks, b))
      BY <1>4 DEF held, HeldOf
    <3>2. Len(HeldOf(entropy_blocks)) \in Nat /\ Len(b) \in Nat
      BY <1>0, <2>4, SeqFacts
    <3> QED
      BY <1>4, <2>1, <2>4, <3>1, <3>2
  <2> QED
    BY <1>0, <1>1, <1>4, <2>2, <2>5 DEF Pooled
<1> QED
  BY <1>3, <1>4 DEF enqueue_entropy

(* A frame.                                                                *)
LEMMA FrameReadKeeps ==
  ASSUME IInv, FrameRead, UNCHANGED <<blocks, line>>
  PROVE  IInv'
<1>1. PICK n \in 1 .. EFRAME_LEN :
        /\ read(n)
        /\ Len(filled(n)) = EFRAME_LEN /\ wellFormed(filled(n))
        /\ open' = (filled(n)[3] = Letter)
        /\ IF Sent(filled(n)) THEN enqueue_entropy(decode_packet(filled(n)))
           ELSE UNCHANGED <<entropy_blocks, total_entropy>>
  BY DEF FrameRead
<1>2. Arriving /\ Buffered /\ Framed /\ Pooled /\ Served
  BY DEF IInv
<1>3. /\ frame' = <<>> /\ found' = Append(found, bytes_read' - EFRAME_LEN)
      /\ UNCHANGED <<asked, retstr, out>>
  BY DEF FrameRead
<1>4. Served' /\ Arriving'
  BY <1>2, <1>3, SameLine DEF Served, idle
<1> DEFINE f == filled(n)
           s == start
           e == bytes_read'
<1>5. /\ e \in 0 .. Len(line) /\ s \in Nat /\ s + EFRAME_LEN = e
      /\ f = Window(s) /\ s + EFRAME_LEN <= Len(line) /\ open
  BY <1>1, <1>2, Filled, FullBuffer
<1>6. EFRAME_LEN \in Nat /\ EFRAME_LEN >= 5 /\ Len(line) \in Nat
  BY <1>2, Sizes, SeqFacts DEF Arriving
<1>7. frame' \in Seq(Chars) /\ Len(frame') = 0
  BY <1>3
<1>8. Pooled'
  <2>1. CASE Sent(f)
    <3>1. PICK b \in Block : b \in Range(blocks) /\ f = framer_fill_frame(b)
      BY <1>2, <2>1, SentIs
    <3>2. decode_packet(f) = b
      <4> HIDE DEF f
      <4> QED
        BY <3>1, FrameDecodes
    <3>3. enqueue_entropy(b)
      BY <1>1, <2>1, <3>2
    <3> QED
      BY <1>2, <3>1, <3>3, Enqueued
  <2>2. CASE ~ Sent(f)
    <3>1. UNCHANGED <<entropy_blocks, total_entropy>>
      BY <1>1, <2>2
    <3> QED
      BY <1>2, <3>1, SameLine DEF Pooled, held
  <2> QED
    BY <2>1, <2>2
<1>9. start' = e /\ e - EFRAME_LEN = s
  <2> HIDE DEF s, f
  <2>1. start' = e - Len(frame')
    BY DEF start
  <2> HIDE DEF e
  <2> QED
    BY <1>5, <1>6, <1>7, <2>1
<1>10. Buffered'
  <2> HIDE DEF s, f
  <2>1. 0 < EFRAME_LEN /\ Len(frame') <= bytes_read' /\ bytes_read' \in 0 .. Len(line)
        /\ \A i \in 1 .. Len(frame') : FALSE
    BY <1>5, <1>6, <1>7
  <2> QED
    BY <1>7, <2>1 DEF Buffered
<1>11. Framed'
  <2>1. Intact' = Intact /\ \A o : Window(o)' = Window(o)
    BY SameLine
  <2>2. /\ found \in Seq(Nat) /\ found' = Append(found, s) /\ s \in Nat
    BY <1>2, <1>3, <1>5, <1>9 DEF Framed
  <2>3. /\ found' \in Seq(Nat) /\ Len(found) \in Nat /\ DOMAIN found' = 1 .. Len(found) + 1
        /\ \A i \in 1 .. Len(found) : found'[i] = found[i]
        /\ found'[Len(found) + 1] = s /\ DOMAIN found = 1 .. Len(found)
        /\ DOMAIN found' = DOMAIN found \cup {Len(found) + 1}
    <3> DEFINE a == Append(found, s)
               N == Len(found)
    <3>1. /\ a \in Seq(Nat) /\ Len(a) = N + 1 /\ a[N + 1] = s
          /\ \A i \in 1 .. N : a[i] = found[i]
      BY <2>2, AppendFacts
    <3>2. N \in Nat /\ DOMAIN found = 1 .. N /\ DOMAIN a = 1 .. Len(a)
      BY <2>2, <3>1, SeqFacts
    <3> HIDE DEF a, N
    <3>3. DOMAIN a = 1 .. N + 1 /\ 1 .. N + 1 = (1 .. N) \cup {N + 1}
      BY <3>1, <3>2
    <3> QED
      BY <2>2, <3>1, <3>2, <3>3 DEF a, N
  <2>4. ASSUME NEW o \in Intact, o < e
        PROVE  o \in Range(found')
    <3>0. o \in Nat
      BY <1>2, IntactIs
    <3>1. CASE o < s
      <4>1. o \in Range(found)
        BY <1>2, <1>5, <3>1 DEF Framed
      <4> QED
        BY <2>3, <4>1 DEF Range
    <3>2. CASE o = s
      <4>1. Len(found) + 1 \in DOMAIN found'
        BY <2>3
      <4> QED
        BY <2>3, <3>2, <4>1 DEF Range
    <3>3. CASE s < o
      <4>1. wellFormed(Window(s)) /\ s \in Nat /\ s + EFRAME_LEN <= Len(line)
        BY <1>1, <1>5
      <4> HIDE DEF s, e, f
      <4>2. o >= s + EFRAME_LEN
        BY <1>2, <3>3, <4>1, NoneInside
      <4> QED
        BY <1>5, <1>6, <2>4, <3>0, <4>2
    <3> HIDE DEF s, e, f
    <3> QED
      BY <1>5, <3>0, <3>1, <3>2, <3>3
  <2>5. ASSUME NEW i \in DOMAIN found'
        PROVE  found'[i] \in Nat /\ found'[i] + EFRAME_LEN <= e /\ wellFormed(Window(found'[i]))
    <3>1. CASE i \in DOMAIN found
      <4>1. found'[i] = found[i] /\ found[i] \in Nat
        BY <2>2, <2>3, <3>1, SeqFacts
      <4>2. found[i] + EFRAME_LEN <= s /\ wellFormed(Window(found[i]))
        BY <1>2, <3>1 DEF Framed
      <4> HIDE DEF s, e, f
      <4>3. found[i] + EFRAME_LEN <= e
        BY <1>5, <1>6, <4>1, <4>2
      <4> QED
        BY <4>1, <4>2, <4>3
    <3>2. CASE i = Len(found) + 1
      <4>1. found'[i] = s /\ wellFormed(Window(s))
        BY <1>1, <1>5, <2>3, <3>2
      <4> HIDE DEF s, e, f
      <4> QED
        BY <1>5, <1>6, <4>1
    <3> QED
      BY <2>3, <3>1, <3>2
  <2>6. ASSUME NEW i \in DOMAIN found', NEW j \in DOMAIN found', i < j
        PROVE  found'[i] + EFRAME_LEN <= found'[j]
    <3>1. i \in DOMAIN found
      BY <2>3, <2>6
    <3>2. CASE j \in DOMAIN found
      <4>1. found[i] + EFRAME_LEN <= found[j]
        BY <1>2, <2>6, <3>1, <3>2 DEF Framed
      <4> QED
        BY <2>3, <3>1, <3>2, <4>1
    <3>3. CASE j = Len(found) + 1
      <4>1. found[i] + EFRAME_LEN <= s
        BY <1>2, <3>1 DEF Framed
      <4>2. found'[i] = found[i] /\ found'[j] = s
        BY <2>3, <3>1, <3>3
      <4> HIDE DEF s, e, f
      <4> QED
        BY <4>1, <4>2
    <3> QED
      BY <2>3, <3>2, <3>3
  <2>7. open' \in BOOLEAN
    BY <1>1
  <2>8. ASSUME NEW i \in DOMAIN found'
        PROVE  wellFormed(Window(found[i]))'
    BY <2>1, <2>5 DEF wellFormed
  <2>9. Range(found)' = Range(found')
    BY DEF Range
  <2> HIDE DEF s, f
  <2> QED
    BY <1>9, <2>1, <2>3, <2>4, <2>5, <2>6, <2>7, <2>8, <2>9 DEF Framed
<1> QED
  BY <1>4, <1>8, <1>10, <1>11 DEF IInv

(* End of file.                                                            *)
LEMMA EofKeeps ==
  ASSUME IInv, Eof, UNCHANGED <<blocks, line>>
  PROVE  IInv'
<1>1. open' = FALSE /\ UNCHANGED <<bytes_read, frame, found, poolVars>>
  BY DEF Eof
<1>2. Intact' = Intact /\ Remains' = Remains /\ Arriving' /\ \A o : Window(o)' = Window(o)
  BY SameLine DEF IInv
<1>3. start' = start /\ held' = held /\ idle' = idle
  BY <1>1 DEF start, held, idle, poolVars
<1>4. Buffered' /\ Pooled' /\ Served'
  BY <1>1, <1>2, <1>3 DEF IInv, Buffered, Pooled, Served, poolVars
<1>5. Framed'
  <2>1. \A i \in DOMAIN found : found[i] + EFRAME_LEN <= start /\ wellFormed(Window(found[i]))'
    <3>1. ASSUME NEW i \in DOMAIN found
          PROVE  wellFormed(Window(found[i]))' <=> wellFormed(Window(found[i]))
      BY <1>1, <1>2 DEF wellFormed
    <3> QED
      BY <3>1 DEF IInv, Framed
  <2> QED
    BY <1>1, <1>3, <2>1 DEF IInv, Framed
<1> QED
  BY <1>2, <1>4, <1>5 DEF IInv

(* A request changes nothing the framer keeps.                             *)
LEMMA FramerRests ==
  ASSUME Arriving, Buffered, Framed, UNCHANGED <<blocks, line, framerVars>>
  PROVE  Arriving' /\ Buffered' /\ Framed'
<1>1. UNCHANGED <<bytes_read, frame, open, found>>
  BY DEF framerVars
<1>2. Arriving' /\ start' = start
  BY <1>1, SameLine DEF start
<1>3. Buffered'
  BY <1>1, <1>2 DEF Buffered
<1>4. Framed'
  <2>1. start' = start + 0 /\ \A o \in Intact : ~ (start <= o /\ o < start + 0)
    <3>1. start \in Int
      <4>1. Len(frame) \in Nat /\ bytes_read \in Nat
        BY SeqFacts DEF Arriving, Buffered
      <4> QED
        BY <4>1 DEF start
    <3>2. \A o \in Intact : o \in Nat
      BY IntactIs
    <3> HIDE DEF start
    <3> QED
      BY <1>2, <3>1, <3>2
  <2> HIDE DEF start
  <2> QED
    BY <1>1, <2>1, FurtherOn
<1> QED
  BY <1>2, <1>3, <1>4

(* A request is taken up.                                                  *)
LEMMA AskKeeps ==
  ASSUME IInv, NEW n \in 0 .. MaxAsk, Ask(n), UNCHANGED <<blocks, line>>
  PROVE  IInv'
<1>1. Arriving' /\ Buffered' /\ Framed'
  BY FramerRests DEF IInv, Ask
<1>2. Pooled'
  BY SameLine DEF IInv, Pooled, Ask, held
<1>3. Served'
  <2>1. asked' = n /\ retstr' = <<>> /\ out' = out /\ Len(<<>>) = 0 /\ n + 0 <= MaxAsk
    BY Sizes DEF Ask
  <2>2. out \in Seq(Bytes)
    BY DEF IInv, Served
  <2> QED
    BY <2>1, <2>2 DEF Served, idle
<1> QED
  BY <1>1, <1>2, <1>3 DEF IInv

(* It ends.                                                                *)
LEMMA ReturnKeeps ==
  ASSUME IInv, Return, UNCHANGED <<blocks, line>>
  PROVE  IInv'
<1>1. Arriving' /\ Buffered' /\ Framed'
  BY FramerRests DEF IInv, Return
<1>2. Pooled'
  BY SameLine DEF IInv, Pooled, Return, held
<1>3. Served'
  BY DEF IInv, Served, Return, idle
<1> QED
  BY <1>1, <1>2, <1>3 DEF IInv

(* The loop looks at the last block of a list that is not empty.           *)
LEMMA Looping ==
  ASSUME Pooled, Served, looping
  PROVE  /\ asked \in 1 .. MaxAsk /\ asked + Len(retstr) <= MaxAsk
         /\ retstr \in Seq(Bytes) /\ eval \in Remains /\ Front(entropy_blocks) \in Seq(Remains)
         /\ Front(entropy_blocks) \in Seq(Seq(Bytes)) /\ eval \in Seq(Bytes)
         /\ Len(eval) \in 1 .. BlockLen /\ BlockLen \in Nat
         /\ held = eval \o HeldOf(Front(entropy_blocks))
         /\ HeldOf(Front(entropy_blocks)) \in Seq(Bytes)
         /\ total_entropy = Len(eval) + Len(HeldOf(Front(entropy_blocks)))
<1>1. asked \in 1 .. MaxAsk /\ asked + Len(retstr) <= MaxAsk /\ retstr \in Seq(Bytes)
  BY Sizes DEF Served, looping, idle
<1>2. entropy_blocks # <<>>
  <2> SUFFICES ASSUME entropy_blocks = <<>> PROVE FALSE
    OBVIOUS
  <2>1. held = <<>>
    BY HeldNone DEF held, HeldOf
  <2>2. Len(held) = 0
    BY <2>1
  <2> QED
    BY <2>2 DEF Pooled, looping
<1> DEFINE front == Front(entropy_blocks)
<1>3. /\ front \in Seq(Remains) /\ eval \in Remains
      /\ entropy_blocks = Append(front, eval)
  BY <1>2, LastBlock DEF Pooled, eval
<1>4. Remains \subseteq Seq(Bytes) /\ \A s \in Remains : Len(s) \in 1 .. BlockLen
  BY DEF Remains
<1>5. front \in Seq(Seq(Bytes)) /\ eval \in Seq(Bytes) /\ Len(eval) \in 1 .. BlockLen
  BY <1>3, <1>4, SeqMonotonic
<1>6. /\ HeldOf(front) \in Seq(Bytes) /\ held = eval \o HeldOf(front)
      /\ Len(held) = Len(eval) + Len(HeldOf(front))
  <2>1. held = HeldOf(Append(front, eval))
    BY <1>3 DEF held, HeldOf
  <2>2. /\ HeldOf(front) \in Seq(Bytes)
        /\ HeldOf(Append(front, eval)) = eval \o HeldOf(front)
        /\ Len(HeldOf(Append(front, eval))) = Len(eval) + Len(HeldOf(front))
    <3> HIDE DEF front
    <3> QED
      BY ONLY <1>5, HeldAppend
  <2> QED
    BY <2>1, <2>2
<1>7. total_entropy = Len(held)
  BY DEF Pooled
<1> QED
  BY <1>1, <1>3, <1>5, <1>6, <1>7, Sizes

(* The bytes taken and the bytes held stay the same row, and the bytes     *)
(* taken and those still asked for the same number.                        *)
LEMMA TakeBlockKeeps ==
  ASSUME IInv, TakeBlock, UNCHANGED <<blocks, line>>
  PROVE  /\ IInv' /\ retstr' \o held' = retstr \o held
         /\ ~idle /\ ~idle' /\ asked' + Len(retstr') = asked + Len(retstr)
<1> DEFINE front == Front(entropy_blocks)
           r == HeldOf(front)
           e == eval
           g == retstr
<1>1. /\ asked \in 1 .. MaxAsk /\ asked + Len(g) <= MaxAsk
      /\ g \in Seq(Bytes) /\ front \in Seq(Remains) /\ e \in Seq(Bytes)
      /\ Len(e) \in 1 .. BlockLen /\ BlockLen \in Nat
      /\ held = e \o r /\ r \in Seq(Bytes) /\ total_entropy = Len(e) + Len(r)
  BY Looping DEF IInv, TakeBlock
<1>2. /\ Len(e) <= asked /\ retstr' = g \o e /\ asked' = asked - Len(e)
      /\ entropy_blocks' = front /\ total_entropy' = total_entropy - Len(e)
      /\ out' = out /\ ~idle
  BY DEF TakeBlock, looping
<1>3. held' = r
  BY <1>2 DEF held, HeldOf
<1>4. Len(g) \in Nat /\ Len(e) \in Nat /\ Len(r) \in Nat /\ MaxAsk \in Nat /\ MAX_ENTROPY \in Nat
      /\ NULL \notin Nat /\ total_entropy <= MAX_ENTROPY /\ out \in Seq(Bytes)
  BY <1>1, SeqFacts, Sizes DEF IInv, Pooled, Served
<1>5. g \o e \in Seq(Bytes) /\ Len(g \o e) = Len(g) + Len(e)
  BY ONLY <1>1, Joined
<1> HIDE DEF front, r, e, g
<1>6. g \o (e \o r) = (g \o e) \o r
  <2>1. g \in Seq(Bytes) /\ e \in Seq(Bytes) /\ r \in Seq(Bytes)
    BY <1>1
  <2> QED
    BY ONLY <2>1, Associative
<1>7. Arriving' /\ Buffered' /\ Framed'
  BY FramerRests DEF IInv, TakeBlock
<1>8. Pooled'
  <2>1. Remains' = Remains
    BY SameLine
  <2>2. total_entropy - Len(e) = Len(r) /\ Len(r) <= MAX_ENTROPY
    BY <1>1, <1>4
  <2> QED
    BY <1>1, <1>2, <1>3, <2>1, <2>2 DEF Pooled
<1>9. Served'
  <2>1. asked' \in 0 .. MaxAsk /\ asked' + Len(retstr') <= MaxAsk
    BY <1>1, <1>2, <1>4, <1>5
  <2>2. ~ idle'
    BY <1>4, <2>1 DEF idle
  <2> QED
    BY <1>2, <1>4, <1>5, <2>1, <2>2 DEF Served
<1>10. retstr' \o held' = retstr \o held
  BY <1>1, <1>2, <1>3, <1>6 DEF g
<1>11. asked' + Len(retstr') = asked + Len(retstr) /\ ~idle'
  <2>1. asked' + Len(retstr') = asked + Len(g) /\ asked' \in Nat
    BY <1>1, <1>2, <1>4, <1>5
  <2> QED
    BY <1>4, <2>1 DEF g, idle
<1> QED
  BY <1>2, <1>7, <1>8, <1>9, <1>10, <1>11 DEF IInv

LEMMA TakePartKeeps ==
  ASSUME IInv, TakePart, UNCHANGED <<blocks, line>>
  PROVE  /\ IInv' /\ retstr' \o held' = retstr \o held
         /\ ~idle /\ ~idle' /\ asked' + Len(retstr') = asked + Len(retstr)
<1> DEFINE front == Front(entropy_blocks)
           r == HeldOf(front)
           e == eval
           g == retstr
           n == asked
           a == SubSeq(e, 0 + 1, n)
           b == SubSeq(e, n + 1, Len(e))
<1>1. /\ n \in 1 .. MaxAsk /\ n + Len(g) <= MaxAsk
      /\ g \in Seq(Bytes) /\ front \in Seq(Remains) /\ e \in Seq(Bytes)
      /\ front \in Seq(Seq(Bytes)) /\ e \in Remains
      /\ Len(e) \in 1 .. BlockLen /\ BlockLen \in Nat
      /\ held = e \o r /\ r \in Seq(Bytes) /\ total_entropy = Len(e) + Len(r)
  BY Looping DEF IInv, TakePart
<1>2. /\ Len(e) > n /\ retstr' = g \o a /\ asked' = 0
      /\ entropy_blocks' = Append(front, b) /\ total_entropy' = total_entropy - n
      /\ out' = out /\ ~idle
  BY DEF TakePart, looping
<1>3. held' = HeldOf(Append(front, b))
  BY <1>2 DEF held, HeldOf
<1>4. Len(g) \in Nat /\ Len(e) \in Nat /\ Len(r) \in Nat /\ MaxAsk \in Nat /\ MAX_ENTROPY \in Nat
      /\ NULL \notin Nat /\ total_entropy <= MAX_ENTROPY /\ out \in Seq(Bytes)
  BY <1>1, SeqFacts, Sizes DEF IInv, Pooled, Served
<1> HIDE DEF front, r, e, g, n
<1>5. a \in Seq(Bytes) /\ Len(a) = n
  <2>1. 0 \in 0 .. Len(e) /\ n \in 0 .. Len(e) /\ n - 0 = n
    BY <1>1, <1>2, <1>4
  <2> QED
    BY <1>1, <2>1, Piece
<1>6. b \in Seq(Bytes) /\ Len(b) = Len(e) - n
  <2>1. n \in 0 .. Len(e) /\ Len(e) \in n .. Len(e)
    BY <1>1, <1>2, <1>4
  <2> QED
    BY <1>1, <2>1, Piece
<1>7. a \o b = e
  <2>1. 1 \in 1 .. Len(e) + 1 /\ n \in 1 - 1 .. Len(e) /\ Len(e) \in n .. Len(e)
    BY <1>1, <1>2, <1>4
  <2>2. SubSeq(e, 1, n) \o SubSeq(e, n + 1, Len(e)) = SubSeq(e, 1, Len(e))
    BY <1>1, <2>1, ConcatAdjacentSubSeq
  <2> QED
    BY <1>1, <2>2, SubSeqFull
<1>8. b \in Remains
  <2>1. PICK blk \in Range(blocks) : IsSuffix(e, blk)
    BY <1>1 DEF Remains
  <2>2. blk \in Seq(Bytes)
    <3>1. PICK i \in DOMAIN blocks : blk = blocks[i]
      BY <2>1 DEF Range
    <3>2. blocks[i] \in Block
      BY SeqFacts DEF IInv, Arriving
    <3> QED
      BY <3>1, <3>2, Sizes
  <2>3. n \in 0 .. Len(e)
    BY <1>1, <1>2, <1>4
  <2>4. IsSuffix(b, blk)
    BY <1>1, <2>1, <2>2, <2>3, SuffixRest
  <2>5. Len(b) \in 1 .. BlockLen
    BY <1>1, <1>2, <1>4, <1>6
  <2> HIDE DEF b
  <2> QED
    BY <1>6, <2>1, <2>4, <2>5 DEF Remains
<1> HIDE DEF a, b
<1>9. held' = b \o r /\ Len(held') = Len(b) + Len(r)
  <2>1. /\ HeldOf(Append(front, b)) = b \o HeldOf(front)
        /\ Len(HeldOf(Append(front, b))) = Len(b) + Len(HeldOf(front))
    BY <1>1, <1>6, HeldAppend
  <2> QED
    BY <1>3, <2>1 DEF r
<1>10. Arriving' /\ Buffered' /\ Framed'
  BY FramerRests DEF IInv, TakePart
<1>11. Pooled'
  <2>1. Remains' = Remains
    BY SameLine
  <2>2. total_entropy - n = Len(b) + Len(r) /\ total_entropy - n <= MAX_ENTROPY
    BY <1>1, <1>4, <1>6
  <2>3. Append(front, b) \in Seq(Remains)
    BY <1>1, <1>8
  <2> QED
    BY <1>2, <1>9, <2>1, <2>2, <2>3 DEF Pooled
<1>12. Served'
  <2>1. retstr' \in Seq(Bytes) /\ Len(retstr') = Len(g) + Len(a)
    <3>1. g \o a \in Seq(Bytes) /\ Len(g \o a) = Len(g) + Len(a)
      BY <1>1, <1>5, Joined
    <3> QED
      BY <1>2, <3>1
  <2>2. asked' \in 0 .. MaxAsk /\ asked' + Len(retstr') <= MaxAsk
    BY <1>1, <1>2, <1>4, <1>5, <2>1
  <2>3. ~ idle'
    BY <1>4, <2>2 DEF idle
  <2> QED
    BY <1>2, <1>4, <2>1, <2>2, <2>3 DEF Served
<1>13. retstr' \o held' = retstr \o held
  <2>1. (g \o a) \o (b \o r) = g \o (a \o (b \o r))
    <3>1. b \o r \in Seq(Bytes)
      BY <1>1, <1>6, Joined
    <3> DEFINE c == b \o r
    <3>2. g \in Seq(Bytes) /\ a \in Seq(Bytes) /\ c \in Seq(Bytes)
      BY <1>1, <1>5, <3>1
    <3>3. g \o (a \o c) = (g \o a) \o c
      <4> HIDE DEF c
      <4> QED
        BY ONLY <3>2, Associative
    <3> QED
      BY <3>3
  <2>2. a \o (b \o r) = (a \o b) \o r
    <3>1. a \in Seq(Bytes) /\ b \in Seq(Bytes) /\ r \in Seq(Bytes)
      BY <1>1, <1>5, <1>6
    <3> QED
      BY ONLY <3>1, Associative
  <2> QED
    BY <1>1, <1>2, <1>7, <1>9, <2>1, <2>2 DEF g
<1>14. asked' + Len(retstr') = asked + Len(retstr) /\ ~idle'
  <2>1. g \o a \in Seq(Bytes) /\ Len(g \o a) = Len(g) + Len(a)
    BY <1>1, <1>5, Joined
  <2>2. asked' + Len(retstr') = n + Len(g) /\ asked' \in Nat
    BY <1>1, <1>2, <1>4, <1>5, <2>1
  <2> QED
    BY <1>4, <2>2 DEF g, n, idle
<1> QED
  BY <1>2, <1>10, <1>11, <1>12, <1>13, <1>14 DEF IInv

(* Every step.                                                             *)
LEMMA StepKeeps ==
  ASSUME IInv, [Next]_vars
  PROVE  IInv'
<1>1. CASE UNCHANGED vars
  <2>1. UNCHANGED <<blocks, line, framerVars, poolVars>>
    BY <1>1 DEF vars
  <2>2. Arriving' /\ Buffered' /\ Framed'
    BY <2>1, FramerRests DEF IInv
  <2>3. Pooled' /\ Served'
    BY <2>1, SameLine DEF IInv, Pooled, Served, held, idle, poolVars
  <2> QED
    BY <2>2, <2>3 DEF IInv
<1>2. CASE Next
  <2>1. UNCHANGED <<blocks, line>>
    BY <1>2 DEF Next
  <2>2. CASE Framer
    BY <2>1, <2>2, IncompleteKeeps, FrameReadKeeps, EofKeeps DEF Framer
  <2>3. CASE \E n \in 0 .. MaxAsk : Ask(n)
    BY <2>1, <2>3, AskKeeps
  <2>4. CASE dequeue_entropy
    BY <2>1, <2>4, TakeBlockKeeps, TakePartKeeps, ReturnKeeps DEF dequeue_entropy
  <2> QED
    BY <1>2, <2>2, <2>3, <2>4 DEF Next
<1> QED
  BY <1>1, <1>2

LEMMA Inductive == Spec => []IInv
<1>1. Init => IInv
  BY InitFound
<1>2. IInv /\ [Next]_vars => IInv'
  BY StepKeeps
<1> QED
  BY <1>1, <1>2, PTL DEF Spec

-----------------------------------------------------------------------------
(* The theorems                                                            *)

(* Encoding and decoding lose, change and add nothing: what                *)
(* framer_fill_frame makes of a block is taken for a frame by eframe_read, *)
(* and decode_packet gets the block back from it.  For every length of a   *)
(* block and every payload that has room for its encoding.                 *)
THEOREM DecodesWhatWasEncoded ==
  \A b \in [1 .. BlockLen -> Bytes] :
    /\ wellFormed(framer_fill_frame(b))
    /\ decode_packet(framer_fill_frame(b)) = b
BY FrameDecodes DEF Block

(* The buffer always has room when it is read into, and total_entropy is   *)
(* the number of bytes in the list, which stays within its limit.          *)
THEOREM TypeCorrect == Spec => []TypeOK
<1>1. IInv => TypeOK
  <2> SUFFICES ASSUME IInv PROVE TypeOK
    OBVIOUS
  <2>1. ASSUME NEW i \in DOMAIN entropy_blocks
        PROVE  entropy_blocks[i] \in Seq(Bytes) /\ Len(entropy_blocks[i]) \in 1 .. BlockLen
    <3>1. entropy_blocks[i] \in Remains
      BY SeqFacts DEF IInv, Pooled
    <3> QED
      BY <3>1 DEF Remains
  <2> QED
    BY <2>1 DEF IInv, Buffered, Framed, Pooled, Served, TypeOK
<1> QED
  BY <1>1, Inductive, PTL

(* However the line is cut into reads and whatever damage comes before it: *)
(* a frame that arrives whole is found at its place when its last byte has *)
(* been read, as long as the connection is open, and no other twice.       *)
THEOREM FramesAreFound == Spec => []IntactFound
<1>1. IInv => IntactFound
  <2> SUFFICES ASSUME IInv PROVE IntactFound
    OBVIOUS
  <2>1. /\ Len(frame) \in Nat /\ bytes_read \in Nat /\ EFRAME_LEN \in Nat
        /\ Len(frame) < EFRAME_LEN /\ start = bytes_read - Len(frame)
    BY SeqFacts, Sizes DEF IInv, Arriving, Buffered, start
  <2>2. ASSUME NEW o \in Intact, open, o + EFRAME_LEN <= bytes_read
        PROVE  o \in Range(found)
    <3>1. o \in Nat
      BY IntactIs DEF IInv
    <3>2. o < start
      BY <2>1, <2>2, <3>1
    <3> QED
      BY <2>2, <3>2 DEF IInv, Framed
  <2>3. ASSUME NEW i \in DOMAIN found
        PROVE  found[i] + EFRAME_LEN <= bytes_read /\ wellFormed(Window(found[i]))
    <3>1. found[i] \in Nat
      BY SeqFacts DEF IInv, Framed
    <3>2. found[i] + EFRAME_LEN <= start /\ wellFormed(Window(found[i]))
      BY DEF IInv, Framed
    <3> QED
      BY <2>1, <3>1, <3>2
  <2>4. \A i, j \in DOMAIN found : i < j => found[i] + EFRAME_LEN <= found[j]
    BY DEF IInv, Framed
  <2> QED
    BY <2>2, <2>3, <2>4 DEF IntactFound
<1> QED
  BY <1>1, Inductive, PTL

(* Every block in the list is one that the device has sent or the rest of  *)
(* one, after any number of requests of any size.                          *)
THEOREM BytesAreGenuine == Spec => []Genuine
<1>1. IInv => Genuine
  <2> SUFFICES ASSUME IInv, NEW i \in DOMAIN entropy_blocks
               PROVE  \E b \in Range(blocks) : IsSuffix(entropy_blocks[i], b)
    BY DEF Genuine
  <2>1. entropy_blocks[i] \in Remains
    BY SeqFacts DEF IInv, Pooled
  <2> QED
    BY <2>1 DEF Remains
<1> QED
  BY <1>1, Inductive, PTL

(* A row of bytes, cut behind its first part.                              *)
LEMMA CutBehind ==
  ASSUME NEW S, NEW a \in Seq(S), NEW b \in Seq(S)
  PROVE  /\ a \o b \in Seq(S) /\ Len(a \o b) = Len(a) + Len(b)
         /\ SubSeq(a \o b, 1, Len(a)) = a
         /\ SubSeq(a \o b, Len(a) + 1, Len(a \o b)) = b
<1> DEFINE c == a \o b
           m == Len(a)
           n == Len(c)
           x == SubSeq(c, 0 + 1, m)
           y == SubSeq(c, m + 1, n)
<1>1. /\ c \in Seq(S) /\ n = m + Len(b)
      /\ (\A i \in 1 .. m : c[i] = a[i]) /\ \A i \in 1 .. Len(b) : c[m + i] = b[i]
  BY Joined
<1>2. m \in Nat /\ Len(b) \in Nat /\ n \in Nat
  BY <1>1, SeqFacts
<1> HIDE DEF c
<1>3. x \in Seq(S) /\ Len(x) = m - 0 /\ \A i \in 1 .. m - 0 : x[i] = c[0 + i]
  <2>1. 0 \in 0 .. Len(c) /\ m \in 0 .. Len(c)
    BY <1>1, <1>2
  <2> QED
    BY <1>1, <2>1, Piece
<1>4. y \in Seq(S) /\ Len(y) = n - m /\ \A i \in 1 .. n - m : y[i] = c[m + i]
  <2>1. m \in 0 .. Len(c) /\ n \in m .. Len(c)
    BY <1>1, <1>2
  <2> QED
    BY <1>1, <2>1, Piece
<1> HIDE DEF x, y
<1>5. x = a
  <2>1. Len(x) = Len(a) /\ \A i \in 1 .. Len(x) : x[i] = a[i]
    BY <1>1, <1>2, <1>3
  <2> QED
    BY <1>3, <2>1, SeqEqual
<1>6. y = b
  <2>1. Len(y) = Len(b) /\ \A i \in 1 .. Len(y) : y[i] = b[i]
    BY <1>1, <1>2, <1>4
  <2> QED
    BY <1>4, <2>1, SeqEqual
<1> QED
  BY <1>1, <1>5, <1>6 DEF c, x, y

(* The row of bytes: what has been gathered, then what is in the list.     *)
Row == retstr \o held

LEMMA HeldIs ==
  ASSUME Pooled
  PROVE  held \in Seq(Bytes) /\ held = HeldOf(entropy_blocks) /\ entropy_blocks \in Seq(Seq(Bytes))
<1>1. Remains \subseteq Seq(Bytes)
  BY DEF Remains
<1>2. entropy_blocks \in Seq(Seq(Bytes))
  BY <1>1, SeqMonotonic DEF Pooled
<1>3. <<>> \in Seq(Bytes)
  OBVIOUS
<1> QED
  BY <1>2, <1>3, HeldAppend DEF held, HeldOf

(* Nothing gathered: the row is what is in the list.                       *)
LEMMA RowIdle ==
  ASSUME Pooled, retstr = <<>>
  PROVE  Row = held
BY HeldIs, ConcatEmptySeq DEF Row

(* A frame puts its block in front of the row, or leaves it.               *)
LEMMA FrameIsPut ==
  ASSUME IInv, IInv', FrameRead, UNCHANGED <<blocks, line>>
  PROVE  Flat!Put \/ UNCHANGED Flat!poolVars
<1>1. PICK n \in 1 .. EFRAME_LEN :
        /\ read(n)
        /\ IF Sent(filled(n)) THEN enqueue_entropy(decode_packet(filled(n)))
           ELSE UNCHANGED <<entropy_blocks, total_entropy>>
  BY DEF FrameRead
<1>2. /\ Arriving /\ Pooled /\ Pooled' /\ idle /\ idle'
      /\ retstr = <<>> /\ retstr' = <<>> /\ out' = out
  BY <1>1 DEF IInv, Served, FrameRead, read, idle
<1>3. Row = held /\ Row' = held'
  <2>1. Row = held
    BY <1>2, RowIdle
  <2>2. held' \in Seq(Bytes)
    <3>1. entropy_blocks' \in Seq(Remains') /\ Remains' \subseteq Seq(Bytes)
      BY <1>2 DEF Pooled, Remains
    <3>2. entropy_blocks' \in Seq(Seq(Bytes)) /\ <<>> \in Seq(Bytes)
      BY <3>1, SeqMonotonic
    <3>3. HeldOf(entropy_blocks') \in Seq(Bytes)
      BY <3>2, HeldAppend
    <3> QED
      BY <3>3 DEF held, HeldOf
  <2> QED
    BY <1>2, <2>1, <2>2, ConcatEmptySeq DEF Row
<1>4. ASSUME UNCHANGED <<entropy_blocks, total_entropy>>
      PROVE  UNCHANGED Flat!poolVars
  <2>1. held' = held
    BY <1>4 DEF held
  <2> QED
    BY <1>2, <1>3, <2>1 DEF Flat!poolVars, Row
<1>5. CASE Sent(filled(n))
  <2> DEFINE f == filled(n)
  <2>1. PICK b \in Block : b \in Range(blocks) /\ f = framer_fill_frame(b)
    BY <1>2, <1>5, SentIs
  <2>2. decode_packet(f) = b
    <3> HIDE DEF f
    <3> QED
      BY <2>1, FrameDecodes
  <2>3. \/ UNCHANGED <<entropy_blocks, total_entropy>>
        \/ /\ entropy_blocks' = Append(entropy_blocks, b)
           /\ total_entropy + BlockLen <= MAX_ENTROPY
    <3>1. enqueue_entropy(b)
      BY <1>1, <1>5, <2>2
    <3> QED
      BY <1>2, <2>1, <3>1, Enqueued
  <2>4. ASSUME entropy_blocks' = Append(entropy_blocks, b),
               total_entropy + BlockLen <= MAX_ENTROPY
        PROVE  Flat!Put
    <3>1. b \in Seq(Bytes) /\ Len(b) = BlockLen /\ BlockLen \in Nat
      BY Sizes
    <3>2. held \in Seq(Bytes) /\ held' = b \o held /\ Len(held) \in Nat /\ total_entropy = Len(held)
      <4>1. held = HeldOf(entropy_blocks) /\ entropy_blocks \in Seq(Seq(Bytes)) /\ held \in Seq(Bytes)
        BY <1>2, HeldIs
      <4>2. held' = HeldOf(Append(entropy_blocks, b))
        BY <2>4 DEF held, HeldOf
      <4> QED
        BY <1>2, <3>1, <4>1, <4>2, HeldAppend, SeqFacts DEF Pooled
    <3>3. /\ b \o held \in Seq(Bytes) /\ Len(b \o held) = Len(b) + Len(held)
          /\ SubSeq(b \o held, Len(b) + 1, Len(b \o held)) = held
      <4> DEFINE h == held
      <4>1. b \in Seq(Bytes) /\ h \in Seq(Bytes)
        BY <3>1, <3>2
      <4> HIDE DEF h
      <4>2. /\ b \o h \in Seq(Bytes) /\ Len(b \o h) = Len(b) + Len(h)
            /\ SubSeq(b \o h, Len(b) + 1, Len(b \o h)) = h
        BY ONLY <4>1, CutBehind
      <4> QED
        BY <4>2 DEF h
    <3>4. Len(b) + Len(held) = Len(held) + BlockLen
      BY <3>1, <3>2
    <3> QED
      BY <1>2, <1>3, <2>4, <3>1, <3>2, <3>3, <3>4 DEF Flat!Put, Row
  <2> QED
    BY <1>4, <2>3, <2>4
<1> QED
  BY <1>1, <1>4, <1>5

(* The end of a request takes from the front of the row.                   *)
LEMMA ReturnIsGet ==
  ASSUME IInv, IInv', Return
  PROVE  Flat!Get
<1> DEFINE g == retstr
           h == held
           n == asked + Len(g)
<1>1. /\ asked \in 0 .. MaxAsk /\ g \in Seq(Bytes) /\ asked + Len(g) <= MaxAsk /\ ~looping /\ ~idle
      /\ Pooled /\ Pooled'
  BY DEF IInv, Served, Return, idle
<1>2. h \in Seq(Bytes) /\ Len(h) \in Nat /\ Len(g) \in Nat /\ MaxAsk \in Nat
  BY <1>1, HeldIs, SeqFacts, Sizes
<1>3. asked = 0 \/ Len(h) = 0
  BY <1>1, <1>2 DEF looping, Pooled
<1>4. out' = g /\ retstr' = <<>> /\ held' = h /\ idle'
  BY DEF Return, held, idle
<1>5. retstr' \o held' = h
  BY <1>2, <1>4, ConcatEmptySeq
<1>6. /\ g \o h \in Seq(Bytes) /\ Len(g \o h) = Len(g) + Len(h)
      /\ SubSeq(g \o h, 1, Len(g)) = g /\ SubSeq(g \o h, Len(g) + 1, Len(g \o h)) = h
  BY <1>1, <1>2, CutBehind
<1> HIDE DEF g, h
<1>7. n \in 0 .. MaxAsk /\ Flat!Least(n, Len(g \o h)) = Len(g)
  <2> DEFINE k == Len(g \o h)
             m == Len(g)
  <2>1. n \in 0 .. MaxAsk
    BY <1>1, <1>2
  <2>2. n \in Nat /\ m \in Nat /\ k \in Nat /\ m <= n /\ m <= k /\ (n = m \/ k = m)
    <3> DEFINE q == Len(h)
    <3>1. /\ k = m + q /\ m \in Nat /\ q \in Nat /\ MaxAsk \in Nat
          /\ asked \in 0 .. MaxAsk /\ (asked = 0 \/ q = 0) /\ n = asked + m
      BY <1>1, <1>2, <1>3, <1>6
    <3> HIDE DEF k, m, q, n
    <3> QED
      BY ONLY <3>1
  <2> HIDE DEF n, k, m
  <2>3. Flat!Least(n, k) = m
    BY <2>2 DEF Flat!Least
  <2> QED
    BY <2>1, <2>3 DEF k, m
<1>8. n # NULL /\ ~idle /\ n = asked + Len(retstr)
  <2>1. NULL \notin Nat /\ n \in Nat
    BY <1>2, <1>7, Sizes
  <2> QED
    BY <1>1, <2>1 DEF n, g
<1> HIDE DEF n
<1>9. Flat!Get
  BY <1>4, <1>5, <1>6, <1>7, <1>8 DEF Flat!Get, g, h
<1> QED
  BY <1>9

(* Taking entropy from a list of blocks, from its end and in the middle of *)
(* a block, is taking bytes from the front of a row: none is lost, given   *)
(* twice, moved or added, and the bytes returned are as many as the        *)
(* request being served has asked for, or all there are.                   *)
THEOREM PoolIsARow == Spec => PoolIsFlat
<1>1. Init => Flat!Init
  <2> SUFFICES ASSUME Init PROVE Flat!Init
    OBVIOUS
  <2>1. entropy_blocks = <<>> /\ retstr = <<>> /\ out = <<>> /\ idle
    BY DEF Init, idle
  <2>2. held = <<>>
    BY <2>1, HeldNone DEF held, HeldOf
  <2>3. retstr \o held = <<>>
    BY <2>1, <2>2
  <2> QED
    BY <2>1, <2>3 DEF Flat!Init
<1>2. IInv /\ IInv' /\ [Next]_vars => [Flat!Next]_(Flat!poolVars)
  <2> SUFFICES ASSUME IInv, IInv', [Next]_vars
               PROVE  Flat!Next \/ UNCHANGED Flat!poolVars
    OBVIOUS
  <2>1. ASSUME UNCHANGED <<entropy_blocks, asked, retstr, out>>
        PROVE  UNCHANGED Flat!poolVars
    BY <2>1 DEF Flat!poolVars, held, idle
  <2>2. CASE UNCHANGED vars
    BY <2>1, <2>2 DEF vars, poolVars
  <2>3. ASSUME Framer, UNCHANGED <<blocks, line>>
        PROVE  Flat!Next \/ UNCHANGED Flat!poolVars
    <3>1. CASE FrameRead
      BY <2>3, <3>1, FrameIsPut DEF Flat!Next
    <3>2. CASE Incomplete \/ Eof
      <4>1. UNCHANGED <<entropy_blocks, asked, retstr, out>>
        BY <3>2 DEF Incomplete, Eof, poolVars
      <4> QED
        BY <2>1, <4>1
    <3> QED
      BY <2>3, <3>1, <3>2 DEF Framer
  <2>4. ASSUME NEW n \in 0 .. MaxAsk, Ask(n)
        PROVE  Flat!Ask(n)
    <3>1. /\ idle /\ retstr = <<>> /\ asked' = n /\ retstr' = <<>> /\ out' = out
          /\ entropy_blocks' = entropy_blocks
      BY <2>4 DEF IInv, Served, Ask
    <3>2. n \in Nat /\ NULL \notin Nat /\ n + Len(<<>>) = n
      BY Sizes
    <3>3. ~ idle' /\ held' = held
      BY <3>1, <3>2 DEF idle, held
    <3> QED
      BY <3>1, <3>2, <3>3 DEF Flat!Ask
  <2>5. ASSUME TakeBlock \/ TakePart, UNCHANGED <<blocks, line>>
        PROVE  UNCHANGED Flat!poolVars
    <3>1. /\ retstr' \o held' = retstr \o held /\ ~idle /\ ~idle'
          /\ asked' + Len(retstr') = asked + Len(retstr)
      BY <2>5, TakeBlockKeeps, TakePartKeeps
    <3>2. out' = out
      BY <2>5 DEF TakeBlock, TakePart
    <3> QED
      BY <3>1, <3>2 DEF Flat!poolVars
  <2>6. ASSUME Return
        PROVE  Flat!Next
    BY <2>6, ReturnIsGet DEF Flat!Next
  <2> QED
    BY <2>2, <2>3, <2>4, <2>5, <2>6 DEF Next, Flat!Next, dequeue_entropy
<1> QED
  BY <1>1, <1>2, Inductive, PTL DEF Spec, PoolIsFlat, Flat!Spec
=============================================================================
