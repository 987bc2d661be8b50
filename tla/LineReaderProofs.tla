-------------------------- MODULE LineReaderProofs --------------------------
(***************************************************************************)
(* The reader for every size of buffer, every set of lines and every       *)
(* number of them.                                                         *)
(*                                                                         *)
(* FlattenSeq, and Visible through it, is a recursive function.  What it   *)
(* does with one element more follows from the fact that a set of numbers  *)
(* has a least one, taken of the counterexamples (1).  After the types (2) *)
(* and the replies (3), the rest is algebra of sequences: the bytes        *)
(* served, kept and under way are what was sent (4), and the bytes of the  *)
(* line being read go on in the wire as that line, its line feed and the   *)
(* lines after it (5, and 6 for lines of any length).                      *)
(***************************************************************************)
EXTENDS LineReader, SequenceTheorems, WellFoundedInduction, TLAPS

(* 1. Recursive functions on sequences. *)

LEMMA LeastNat ==
  ASSUME NEW T, T \subseteq Nat, T # {}
  PROVE  \E x \in T : \A y \in T : x <= y
<1> DEFINE R == OpToRel(<, Nat)
<1>1. IsWellFoundedOn(R, Nat)
  BY NatLessThanWellFounded
<1>2. \A x, y \in Nat : <<y, x>> \in R <=> y < x
  BY DEF OpToRel
<1> HIDE DEF R
<1>3. PICK x \in T : \A y \in T : ~(<<y, x>> \in R)
  BY <1>1, WFMin
<1>4. ASSUME NEW y \in T PROVE x <= y
  <2>1. x \in Nat /\ y \in Nat
    OBVIOUS
  <2>2. ~(y < x)
    BY <1>2, <1>3, <2>1
  <2> QED
    BY <2>1, <2>2
<1> QED
  BY <1>4

\* A set of numbers that has 0 and with each number the next has them all.
LEMMA Reaches ==
  ASSUME NEW m \in Nat, NEW P, 0 \in P, \A n \in 0 .. m - 1 : n \in P => n + 1 \in P
  PROVE  \A n \in 0 .. m : n \in P
<1> DEFINE T == {n \in 0 .. m : n \notin P}
<1> SUFFICES ASSUME T # {} PROVE FALSE
  OBVIOUS
<1>0. T \subseteq Nat
  OBVIOUS
<1>1. \E x \in T : \A y \in T : x <= y
  <2> HIDE DEF T
  <2> QED
    BY <1>0, LeastNat
<1>1a. PICK x \in T : \A y \in T : x <= y
  BY <1>1
<1>2. x \in 0 .. m /\ x # 0 /\ x \notin P
  OBVIOUS
<1>3. x - 1 \in 0 .. m - 1 /\ x - 1 \notin T
  BY <1>1a, <1>2
<1>4. x - 1 \in P
  BY <1>3
<1> QED
  BY <1>2, <1>3, <1>4

\* f is the function that FlattenSeq builds, as far as place n.
Flattens(f, seqs, n) == f = [i \in 1 .. n |-> IF i = 1 THEN seqs[i] ELSE f[i - 1] \o seqs[i]]

LEMMA FlattensAt ==
  ASSUME NEW f, NEW seqs, NEW n, Flattens(f, seqs, n), NEW i \in 1 .. n
  PROVE  f[i] = IF i = 1 THEN seqs[i] ELSE f[i - 1] \o seqs[i]
<1> DEFINE g == [j \in 1 .. n |-> IF j = 1 THEN seqs[j] ELSE f[j - 1] \o seqs[j]]
<1>1. f = g
  BY DEF Flattens
<1>2. g[i] = IF i = 1 THEN seqs[i] ELSE f[i - 1] \o seqs[i]
  OBVIOUS
<1> HIDE DEF g
<1> QED
  BY <1>1, <1>2

LEMMA FlattensExists ==
  ASSUME NEW seqs, NEW m \in Nat
  PROVE  \E f : Flattens(f, seqs, m)
<1> DEFINE P == {n \in 0 .. m : \E f : Flattens(f, seqs, n)}
<1>1. 0 \in P
  <2> DEFINE f == [i \in 1 .. 0 |-> <<>>]
  <2>1. f = [i \in 1 .. 0 |-> IF i = 1 THEN seqs[i] ELSE f[i - 1] \o seqs[i]]
    OBVIOUS
  <2> HIDE DEF f
  <2>2. Flattens(f, seqs, 0)
    BY <2>1 DEF Flattens
  <2> QED
    BY <2>2
<1>2. ASSUME NEW n \in 0 .. m - 1, n \in P PROVE n + 1 \in P
  <2>1. PICK f : Flattens(f, seqs, n)
    BY <1>2
  <2> DEFINE last == IF n = 0 THEN seqs[1] ELSE f[n] \o seqs[n + 1]
             g == [i \in 1 .. n + 1 |-> IF i <= n THEN f[i] ELSE last]
  <2>2. ASSUME NEW i \in 1 .. n + 1
        PROVE  g[i] = IF i = 1 THEN seqs[i] ELSE g[i - 1] \o seqs[i]
    <3>1. CASE i <= n
      <4>1. f[i] = IF i = 1 THEN seqs[i] ELSE f[i - 1] \o seqs[i]
        <5>1. i \in 1 .. n
          BY <3>1
        <5> QED
          BY <2>1, <5>1, FlattensAt
      <4>2. g[i] = f[i] /\ (i # 1 => g[i - 1] = f[i - 1])
        BY <3>1
      <4> HIDE DEF g
      <4> QED
        BY <4>1, <4>2
    <3>2. CASE i = n + 1
      <4>1. g[i] = last /\ (i # 1 => n # 0 /\ g[i - 1] = f[n])
        BY <3>2
      <4> HIDE DEF g
      <4> QED
        BY <3>2, <4>1
    <3> QED
      BY <3>1, <3>2
  <2>3. g = [i \in 1 .. n + 1 |-> IF i = 1 THEN seqs[i] ELSE g[i - 1] \o seqs[i]]
    BY <2>2
  <2> HIDE DEF g, last
  <2>4. Flattens(g, seqs, n + 1)
    BY <2>3 DEF Flattens
  <2>5. \E h : Flattens(h, seqs, n + 1)
    BY <2>4
  <2> QED
    BY <2>5
<1> HIDE DEF P
<1>3. m \in P
  BY <1>1, <1>2, Reaches
<1> QED
  BY <1>3 DEF P

\* Functions for sequences that begin alike agree there.
LEMMA FlattensAgree ==
  ASSUME NEW m \in Nat, NEW k \in Nat, m <= k, NEW s, NEW t, \A i \in 1 .. m : s[i] = t[i],
         NEW f, Flattens(f, s, m), NEW g, Flattens(g, t, k)
  PROVE  \A i \in 1 .. m : f[i] = g[i]
<1> DEFINE P == {n \in 0 .. m : n = 0 \/ f[n] = g[n]}
<1>1. 0 \in P
  OBVIOUS
<1>2. ASSUME NEW n \in 0 .. m - 1, n \in P PROVE n + 1 \in P
  <2>2. n + 1 - 1 = n /\ n + 1 \in 1 .. m /\ n + 1 \in 1 .. k
    OBVIOUS
  <2>1. f[n + 1] = IF n + 1 = 1 THEN s[n + 1] ELSE f[n + 1 - 1] \o s[n + 1]
    BY <2>2, FlattensAt
  <2>3. g[n + 1] = IF n + 1 = 1 THEN t[n + 1] ELSE g[n + 1 - 1] \o t[n + 1]
    BY <2>2, FlattensAt
  <2> QED
    BY <1>2, <2>1, <2>2, <2>3
<1> HIDE DEF P
<1>3. \A n \in 0 .. m : n \in P
  BY <1>1, <1>2, Reaches
<1>4. ASSUME NEW i \in 1 .. m PROVE f[i] = g[i]
  <2>1. i \in P /\ i # 0
    BY <1>3
  <2> QED
    BY <2>1 DEF P
<1> QED
  BY <1>4

LEMMA FlattenIs ==
  ASSUME NEW s, Len(s) \in Nat
  PROVE  \E f : /\ Flattens(f, s, Len(s))
                /\ FlattenSeq(s) = IF Len(s) = 0 THEN s ELSE f[Len(s)]
<1> DEFINE f == CHOOSE f : Flattens(f, s, Len(s))
<1>1. Flattens(f, s, Len(s))
  BY FlattensExists
<1>2. FlattenSeq(s) = IF Len(s) = 0 THEN s ELSE f[Len(s)]
  BY DEF FlattenSeq, Flattens
<1> HIDE DEF f
<1> QED
  BY <1>1, <1>2

\* The last place of the function for one element more.
LEMMA FlattenLast ==
  ASSUME NEW n \in Nat, NEW s, NEW t, \A i \in 1 .. n : s[i] = t[i],
         NEW f, Flattens(f, s, n), NEW g, Flattens(g, t, n + 1)
  PROVE  g[n + 1] = IF n = 0 THEN t[n + 1] ELSE f[n] \o t[n + 1]
<1>1. n + 1 \in Nat /\ n <= n + 1 /\ n + 1 \in 1 .. n + 1 /\ n + 1 - 1 = n
  OBVIOUS
<1>2. g[n + 1] = IF n + 1 = 1 THEN t[n + 1] ELSE g[n + 1 - 1] \o t[n + 1]
  BY <1>1, FlattensAt
<1>3. \A i \in 1 .. n : f[i] = g[i]
  BY <1>1, FlattensAgree
<1> QED
  BY <1>1, <1>2, <1>3

LEMMA FlattenGrows ==
  ASSUME NEW S, NEW seqs \in Seq(Seq(S)), NEW x \in Seq(S)
  PROVE  FlattenSeq(Append(seqs, x)) = FlattenSeq(seqs) \o x
<1> DEFINE n == Len(seqs)
           t == Append(seqs, x)
<1>1. /\ n \in Nat /\ Len(t) = n + 1 /\ t[n + 1] = x
      /\ \A i \in 1 .. n : seqs[i] = t[i]
  BY AppendProperties
<1>2. PICK f : Flattens(f, seqs, n) /\ FlattenSeq(seqs) = IF n = 0 THEN seqs ELSE f[n]
  BY <1>1, FlattenIs
<1>3. n = 0 => seqs = <<>>
  BY EmptySeq
<1>4. <<>> \o x = x
  OBVIOUS
<1> HIDE DEF n, t
<1>5. PICK g : Flattens(g, t, n + 1) /\ FlattenSeq(t) = g[n + 1]
  <2>1. Len(t) \in Nat /\ Len(t) # 0
    BY <1>1
  <2> QED
    BY <1>1, <2>1, FlattenIs
<1>6. g[n + 1] = IF n = 0 THEN x ELSE f[n] \o x
  BY <1>1, <1>2, <1>5, FlattenLast
<1>7. FlattenSeq(t) = FlattenSeq(seqs) \o x
  <2>1. CASE n = 0
    BY <2>1, <1>2, <1>3, <1>4, <1>5, <1>6
  <2>2. CASE n # 0
    BY <2>2, <1>2, <1>5, <1>6
  <2> QED
    BY <2>1, <2>2
<1> QED
  BY <1>7 DEF t

LEMMA FlattenEmpty == FlattenSeq(<<>>) = <<>>
BY FlattenIs

LEMMA FlattenTyped ==
  ASSUME NEW S, NEW seqs \in Seq(Seq(S))
  PROVE  FlattenSeq(seqs) \in Seq(S)
<1> DEFINE n == Len(seqs)
<1>1. n \in Nat /\ \A i \in 1 .. n : seqs[i] \in Seq(S)
  OBVIOUS
<1>2. PICK f : Flattens(f, seqs, n) /\ FlattenSeq(seqs) = IF n = 0 THEN seqs ELSE f[n]
  BY <1>1, FlattenIs
<1>3. n = 0 => seqs = <<>>
  BY EmptySeq
<1> HIDE DEF n
<1> DEFINE P == {m \in 0 .. n : m = 0 \/ f[m] \in Seq(S)}
<1>4. 0 \in P
  BY <1>1
<1>5. ASSUME NEW m \in 0 .. n - 1, m \in P PROVE m + 1 \in P
  <2>1. m + 1 \in 1 .. n /\ m + 1 - 1 = m
    BY <1>1
  <2>2. f[m + 1] = IF m + 1 = 1 THEN seqs[m + 1] ELSE f[m + 1 - 1] \o seqs[m + 1]
    BY <1>2, <2>1, FlattensAt
  <2>3. f[m + 1] \in Seq(S)
    BY <1>1, <1>5, <2>1, <2>2
  <2> QED
    BY <2>1, <2>3
<1> HIDE DEF P
<1>6. \A m \in 0 .. n : m \in P
  BY <1>1, <1>4, <1>5, Reaches
<1>7. n \in P
  BY <1>1, <1>6
<1> QED
  BY <1>2, <1>3, <1>7 DEF P

LEMMA AppendConcat ==
  ASSUME NEW S, NEW s \in Seq(S), NEW u \in Seq(S), NEW x \in S
  PROVE  s \o Append(u, x) = Append(s \o u, x)
<1>1. s \o u \in Seq(S) /\ <<x>> \in Seq(S)
  OBVIOUS
<1>2. Append(u, x) = u \o <<x>> /\ Append(s \o u, x) = (s \o u) \o <<x>>
  BY <1>1, AppendIsConcat
<1> QED
  BY <1>1, <1>2, ConcatAssociative

LEMMA Regroup ==
  ASSUME NEW S, NEW a, NEW b, NEW c, a \in Seq(S), b \in Seq(S), c \in Seq(S)
  PROVE  (a \o b) \o c = a \o (b \o c)
BY ConcatAssociative

LEMMA FlattenConcatStep ==
  ASSUME NEW S, NEW s \in Seq(Seq(S)), NEW v \in Seq(Seq(S)), NEW x \in Seq(S),
         FlattenSeq(s \o v) = FlattenSeq(s) \o FlattenSeq(v)
  PROVE  FlattenSeq(s \o Append(v, x)) = FlattenSeq(s) \o FlattenSeq(Append(v, x))
<1> DEFINE a == FlattenSeq(s)
           b == FlattenSeq(v)
<1>1. s \o Append(v, x) = Append(s \o v, x) /\ s \o v \in Seq(Seq(S))
  BY AppendConcat
<1>2. /\ FlattenSeq(s \o Append(v, x)) = (a \o b) \o x
      /\ FlattenSeq(Append(v, x)) = b \o x
  BY <1>1, FlattenGrows
<1>3. a \in Seq(S) /\ b \in Seq(S)
  BY FlattenTyped
<1> HIDE DEF a, b
<1>4. (a \o b) \o x = a \o (b \o x)
  BY ONLY <1>3, Regroup, SMTT(30)
<1> QED
  BY <1>2, <1>4 DEF a, b

LEMMA FlattenConcat ==
  ASSUME NEW S, NEW s \in Seq(Seq(S)), NEW t \in Seq(Seq(S))
  PROVE  FlattenSeq(s \o t) = FlattenSeq(s) \o FlattenSeq(t)
<1> DEFINE P == {n \in 0 .. Len(t) : \A u \in Seq(Seq(S)) :
                   Len(u) = n => FlattenSeq(s \o u) = FlattenSeq(s) \o FlattenSeq(u)}
<1>1. 0 \in P
  <2>1. ASSUME NEW u \in Seq(Seq(S)), Len(u) = 0
        PROVE  FlattenSeq(s \o u) = FlattenSeq(s) \o FlattenSeq(u)
    <3>1. u = <<>> /\ s \o u = s
      BY <2>1, EmptySeq, ConcatEmptySeq
    <3>2. FlattenSeq(u) = <<>> /\ FlattenSeq(s) \in Seq(S)
      BY <3>1, FlattenEmpty, FlattenTyped
    <3> QED
      BY <3>1, <3>2, ConcatEmptySeq
  <2>2. 0 \in 0 .. Len(t)
    OBVIOUS
  <2> QED
    BY <2>1, <2>2
<1>2. ASSUME NEW n \in 0 .. Len(t) - 1, n \in P PROVE n + 1 \in P
  <2>1. ASSUME NEW u \in Seq(Seq(S)), Len(u) = n + 1
        PROVE  FlattenSeq(s \o u) = FlattenSeq(s) \o FlattenSeq(u)
    <3>1. u # <<>>
      BY <2>1
    <3>2. PICK v \in Seq(Seq(S)), x \in Seq(S) : u = Append(v, x)
      BY <3>1, SequenceEmptyOrAppend
    <3>3. Len(v) = n
      BY <2>1, <3>2
    <3>4. FlattenSeq(s \o v) = FlattenSeq(s) \o FlattenSeq(v)
      BY <1>2, <3>3
    <3> QED
      BY <3>2, <3>4, FlattenConcatStep
  <2>2. n + 1 \in 0 .. Len(t)
    OBVIOUS
  <2> QED
    BY <2>1, <2>2
<1> HIDE DEF P
<1>3. Len(t) \in Nat
  OBVIOUS
<1>4. \A n \in 0 .. Len(t) : n \in P
  BY <1>1, <1>2, <1>3, Reaches
<1>5. Len(t) \in P
  BY <1>3, <1>4
<1> QED
  BY <1>5 DEF P

\* What is kept of a line.
Text == Bytes \ {"CR", "LF"}

\* What is kept of each byte.
Kept(bytes) == [n \in 1 .. Len(bytes) |->
                  IF bytes[n] \in {"CR", "LF"} THEN <<>> ELSE <<bytes[n]>>]

LEMMA KeptTyped ==
  ASSUME NEW s \in Seq(Bytes)
  PROVE  Kept(s) \in Seq(Seq(Text)) /\ Len(Kept(s)) = Len(s)
<1>1. ASSUME NEW n \in 1 .. Len(s)
      PROVE  (IF s[n] \in {"CR", "LF"} THEN <<>> ELSE <<s[n]>>) \in Seq(Text)
  <2>1. s[n] \in Bytes
    OBVIOUS
  <2>2. CASE s[n] \in {"CR", "LF"}
    BY <2>2
  <2>3. CASE s[n] \notin {"CR", "LF"}
    <3>1. s[n] \in Text
      BY <2>1, <2>3 DEF Text
    <3> QED
      BY <2>3, <3>1
  <2> QED
    BY <2>2, <2>3
<1>2. Kept(s) \in [1 .. Len(s) -> Seq(Text)]
  BY <1>1 DEF Kept
<1>3. Len(s) \in Nat
  OBVIOUS
<1> QED
  BY <1>2, <1>3

\* A sequence is two others if it has their elements in their order.
LEMMA IsConcat ==
  ASSUME NEW S, NEW a \in Seq(S), NEW b \in Seq(S), NEW c \in Seq(S),
         Len(c) = Len(a) + Len(b),
         \A n \in 1 .. Len(a) : c[n] = a[n],
         \A n \in 1 .. Len(b) : c[n + Len(a)] = b[n]
  PROVE  c = a \o b
<1>1. a \o b \in Seq(S) /\ Len(a \o b) = Len(a) + Len(b) /\ Len(a) \in Nat /\ Len(b) \in Nat
  BY ConcatProperties
<1>2. ASSUME NEW n \in 1 .. Len(a) + Len(b) PROVE c[n] = (a \o b)[n]
  <2>1. (a \o b)[n] = IF n <= Len(a) THEN a[n] ELSE b[n - Len(a)]
    BY ConcatProperties
  <2>2. CASE n <= Len(a)
    BY <1>1, <2>1, <2>2
  <2>3. CASE ~(n <= Len(a))
    <3>1. n - Len(a) \in 1 .. Len(b) /\ n - Len(a) + Len(a) = n
      BY <1>1, <2>3
    <3> QED
      BY <2>1, <2>3, <3>1
  <2> QED
    BY <2>2, <2>3
<1> QED
  BY <1>1, <1>2, SeqEqual

LEMMA KeptAt ==
  ASSUME NEW s, NEW n \in 1 .. Len(s)
  PROVE  Kept(s)[n] = IF s[n] \in {"CR", "LF"} THEN <<>> ELSE <<s[n]>>
BY DEF Kept

LEMMA KeptConcat ==
  ASSUME NEW s \in Seq(Bytes), NEW t \in Seq(Bytes)
  PROVE  Kept(s \o t) = Kept(s) \o Kept(t)
<1> DEFINE a == Kept(s)
           b == Kept(t)
           c == Kept(s \o t)
<1>1. s \o t \in Seq(Bytes) /\ Len(s \o t) = Len(s) + Len(t) /\ Len(s) \in Nat /\ Len(t) \in Nat
  BY ConcatProperties
<1>2. /\ a \in Seq(Seq(Text)) /\ Len(a) = Len(s)
      /\ b \in Seq(Seq(Text)) /\ Len(b) = Len(t)
      /\ c \in Seq(Seq(Text)) /\ Len(c) = Len(s) + Len(t)
  BY <1>1, KeptTyped
<1>3. ASSUME NEW n \in 1 .. Len(s) PROVE c[n] = a[n]
  <2>1. n \in 1 .. Len(s \o t) /\ (s \o t)[n] = s[n]
    BY <1>1
  <2> QED
    BY <2>1, KeptAt
<1>4. ASSUME NEW n \in 1 .. Len(t) PROVE c[n + Len(s)] = b[n]
  <2>1. n + Len(s) \in 1 .. Len(s \o t) /\ (s \o t)[n + Len(s)] = t[n]
    BY <1>1
  <2>2. c[n + Len(s)] = IF t[n] \in {"CR", "LF"} THEN <<>> ELSE <<t[n]>>
    BY <2>1, KeptAt
  <2> QED
    BY <2>2, KeptAt
<1> HIDE DEF a, b, c
<1>5. /\ Len(c) = Len(a) + Len(b)
      /\ \A n \in 1 .. Len(a) : c[n] = a[n]
      /\ \A n \in 1 .. Len(b) : c[n + Len(a)] = b[n]
  BY <1>2, <1>3, <1>4
<1>6. c = a \o b
  BY <1>2, <1>5, IsConcat
<1> QED
  BY <1>6 DEF a, b, c

LEMMA VisibleTyped ==
  ASSUME NEW s \in Seq(Bytes)
  PROVE  Visible(s) \in Seq(Text)
BY KeptTyped, FlattenTyped DEF Visible, Kept

LEMMA VisibleConcat ==
  ASSUME NEW s \in Seq(Bytes), NEW t \in Seq(Bytes)
  PROVE  Visible(s \o t) = Visible(s) \o Visible(t)
<1>1. \A u : Visible(u) = FlattenSeq(Kept(u))
  BY DEF Visible, Kept
<1>2. Kept(s) \in Seq(Seq(Text)) /\ Kept(t) \in Seq(Seq(Text))
  BY KeptTyped
<1> QED
  BY <1>1, <1>2, KeptConcat, FlattenConcat

LEMMA VisibleEmpty == Visible(<<>>) = <<>>
<1>1. Kept(<<>>) = <<>>
  BY DEF Kept
<1> QED
  BY <1>1, FlattenEmpty DEF Visible, Kept

LEMMA VisibleByte ==
  ASSUME NEW b \in Bytes
  PROVE  Visible(<<b>>) = IF b \in {"CR", "LF"} THEN <<>> ELSE <<b>>
<1> DEFINE x == IF b \in {"CR", "LF"} THEN <<>> ELSE <<b>>
<1>1. Kept(<<b>>) = <<x>>
  BY DEF Kept
<1>3. x \in Seq(Text)
  <2>1. CASE b \in {"CR", "LF"}
    BY <2>1
  <2>2. CASE b \notin {"CR", "LF"}
    <3>1. b \in Text
      BY <2>2 DEF Text
    <3> QED
      BY <2>2, <3>1
  <2> QED
    BY <2>1, <2>2
<1> HIDE DEF x
<1>4. <<x>> = Append(<<>>, x) /\ <<>> \o x = x
  BY <1>3
<1>5. FlattenSeq(<<x>>) = x
  BY <1>3, <1>4, FlattenGrows, FlattenEmpty, EmptySeq
<1> QED
  BY <1>1, <1>5 DEF Visible, Kept, x

-----------------------------------------------------------------------------
(* 2. What the variables are. *)

ReaderTypes ==
  /\ sent \in Seq(Lines) /\ Len(sent) <= MaxLines
  /\ whole \in Nat /\ whole \in Len(sent) - 1 .. Len(sent)
  /\ peer \in {"open", "closed", "reset"}
  /\ peer = "open" => whole = Len(sent)
  /\ wire \in Seq(Bytes)
  /\ at \in {"recv", "serve", "done"}
  /\ buf \in Seq(Text) /\ Len(buf) < BufferSize - 1
  /\ served \in Seq(Seq(Text))
  /\ \A k \in 1 .. Len(served) : Len(served[k]) \in 1 .. BufferSize - 1
  /\ at = "serve" => served # <<>>
  /\ answers \subseteq 1 .. Len(served)

LEMMA LineIsBytes ==
  ASSUME NEW line \in Lines
  PROVE  /\ line \in Seq(Bytes) /\ line \in Seq(Bytes \ {"LF"}) /\ Len(line) \in Nat
         /\ \A n \in 0 .. Len(line) : /\ SubSeq(line, 1, n) \in Seq(Bytes)
                                      /\ SubSeq(line, n + 1, Len(line)) \in Seq(Bytes)
                                      /\ SubSeq(line, 1, n) \o SubSeq(line, n + 1, Len(line)) = line
<1>1. line \in Seq(Bytes \ {"LF"})
  BY BufferAssumption
<1>2. line \in Seq(Bytes) /\ Len(line) \in Nat
  BY <1>1
<1>3. ASSUME NEW n \in 0 .. Len(line)
      PROVE  /\ SubSeq(line, 1, n) \in Seq(Bytes)
             /\ SubSeq(line, n + 1, Len(line)) \in Seq(Bytes)
             /\ SubSeq(line, 1, n) \o SubSeq(line, n + 1, Len(line)) = line
  <2>1. \A i \in 1 .. Len(line) : line[i] \in Bytes
    BY <1>2
  <2>2. SubSeq(line, 1, n) \in Seq(Bytes) /\ SubSeq(line, n + 1, Len(line)) \in Seq(Bytes)
    BY <1>2, <2>1, SubSeqProperties
  <2>3. SubSeq(line, 1, n) \o SubSeq(line, n + 1, Len(line)) = SubSeq(line, 1, Len(line))
    <3>1. 1 \in 1 .. Len(line) + 1 /\ n \in 1 - 1 .. Len(line) /\ Len(line) \in n .. Len(line)
      BY <1>2
    <3> QED
      BY <1>2, <3>1, ConcatAdjacentSubSeq
  <2>4. SubSeq(line, 1, Len(line)) = line
    BY <1>2, SubSeqFull
  <2> QED
    BY <2>2, <2>3, <2>4
<1> QED
  BY <1>1, <1>2, <1>3

\* What a turn of recv_line does with the byte it takes.
Taken(b) ==
  \/ b = "LF" /\ Return(buf)
  \/ b = "CR" /\ UNCHANGED <<at, buf, served>>
  \/ b \in Text /\ Len(buf) + 1 < BufferSize - 1 /\ buf' = Append(buf, b) /\ UNCHANGED <<at, served>>
  \/ b \in Text /\ Len(buf) + 1 = BufferSize - 1 /\ Return(Append(buf, b))

LEMMA RecvByteTakes ==
  ASSUME ReaderTypes, RecvByte
  PROVE  \E b \in Bytes : \E rest \in Seq(Bytes) :
           wire = <<b>> \o rest /\ wire' = rest /\ Taken(b)
<1>1. wire \in Seq(Bytes) /\ wire # <<>>
  BY DEF ReaderTypes, RecvByte
<1> DEFINE b == Head(wire)
           rest == Tail(wire)
<1>2. b \in Bytes /\ rest \in Seq(Bytes) /\ wire = <<b>> \o rest
  BY <1>1
<1>3. wire' = rest
  BY DEF RecvByte
<1>4. (CASE b = "LF" -> Return(buf)
         [] b = "CR" -> UNCHANGED <<at, buf, served>>
         [] OTHER    -> Stored(b))
  BY DEF RecvByte
<1>5. Len(buf) \in Nat /\ Len(buf) < BufferSize - 1 /\ BufferSize \in Nat
  BY BufferAssumption DEF ReaderTypes
<1> HIDE DEF b, rest
<1>6. CASE b = "LF"
  BY <1>2, <1>3, <1>4, <1>6 DEF Taken
<1>7. CASE b = "CR"
  BY <1>2, <1>3, <1>4, <1>7 DEF Taken
<1>8. CASE b \notin {"CR", "LF"}
  <2>1. b \in Text /\ Stored(b)
    BY <1>2, <1>4, <1>8 DEF Text
  <2>2. Taken(b)
    <3>1. CASE Len(buf) + 1 < BufferSize - 1
      BY <2>1, <3>1 DEF Taken, Stored
    <3>2. CASE ~(Len(buf) + 1 < BufferSize - 1)
      <4>1. Len(buf) + 1 = BufferSize - 1
        BY <1>5, <3>2
      <4> QED
        BY <2>1, <3>2, <4>1 DEF Taken, Stored
    <3> QED
      BY <3>1, <3>2
  <2> QED
    BY <1>2, <1>3, <2>2
<1> QED
  BY <1>2, <1>6, <1>7, <1>8

LEMMA ReturnTypes ==
  ASSUME ReaderTypes, NEW line \in Seq(Text), Len(line) <= BufferSize - 1, Return(line),
         answers' = answers
  PROVE  /\ at' \in {"serve", "done"}
         /\ buf' \in Seq(Text) /\ Len(buf)' < BufferSize - 1
         /\ served' \in Seq(Seq(Text))
         /\ \A k \in 1 .. Len(served') : Len(served'[k]) \in 1 .. BufferSize - 1
         /\ at' = "serve" => served' # <<>>
         /\ answers' \subseteq 1 .. Len(served')
<1>1. /\ served \in Seq(Seq(Text)) /\ answers \subseteq 1 .. Len(served)
      /\ \A k \in 1 .. Len(served) : Len(served[k]) \in 1 .. BufferSize - 1
      /\ Len(served) \in Nat /\ BufferSize \in Nat /\ BufferSize > 2
  BY BufferAssumption DEF ReaderTypes
<1>2. buf' = <<>> /\ buf' \in Seq(Text) /\ Len(buf)' < BufferSize - 1
  BY <1>1 DEF Return
<1>3. CASE line = <<>>
  <2>1. at' = "done" /\ served' = served
    BY <1>3 DEF Return
  <2> QED
    BY <1>1, <1>2, <2>1
<1>4. CASE line # <<>>
  <2>1. at' = "serve" /\ served' = Append(served, line)
    BY <1>4 DEF Return
  <2>2. Len(line) \in 1 .. BufferSize - 1
    BY <1>1, <1>4, EmptySeq
  <2>3. /\ served' \in Seq(Seq(Text)) /\ served' # <<>> /\ Len(served') = Len(served) + 1
        /\ \A k \in 1 .. Len(served) : served'[k] = served[k]
        /\ served'[Len(served) + 1] = line
    BY <1>1, <2>1, AppendProperties
  <2>4. ASSUME NEW k \in 1 .. Len(served') PROVE Len(served'[k]) \in 1 .. BufferSize - 1
    <3>1. k \in 1 .. Len(served) \/ k = Len(served) + 1
      BY <1>1, <2>3
    <3>2. CASE k \in 1 .. Len(served)
      <4>1. served'[k] = served[k] /\ Len(served[k]) \in 1 .. BufferSize - 1
        BY <1>1, <2>3, <3>2
      <4> QED
        BY <4>1
    <3>3. CASE k = Len(served) + 1
      <4>1. served'[k] = line
        BY <2>3, <3>3
      <4> QED
        BY <2>2, <4>1
    <3> QED
      BY <3>1, <3>2, <3>3
  <2>5. answers' \subseteq 1 .. Len(served')
    BY <1>1, <2>3
  <2> QED
    BY <1>2, <2>1, <2>3, <2>4, <2>5
<1> QED
  BY <1>3, <1>4

LEMMA TypesNext ==
  ASSUME ReaderTypes, [ReaderNext]_readerVars
  PROVE  ReaderTypes'
<1> USE DEF peerVars
<1>0. BufferSize \in Nat /\ BufferSize > 2 /\ MaxLines \in Nat
  BY BufferAssumption
<1>1. ASSUME NEW line \in Lines, Send(line) PROVE ReaderTypes'
  <2>1. line \in Seq(Bytes)
    BY LineIsBytes
  <2>2. /\ sent \in Seq(Lines) /\ Len(sent) \in Nat /\ Len(sent) < MaxLines /\ whole = Len(sent)
        /\ wire \in Seq(Bytes) /\ whole \in Nat
    BY <1>1 DEF ReaderTypes, Send
  <2>3. sent' \in Seq(Lines) /\ Len(sent') = Len(sent) + 1
    BY <1>1, <2>2, AppendProperties DEF Send
  <2>4. <<"LF">> \in Seq(Bytes)
    BY DEF Bytes
  <2>5. wire' \in Seq(Bytes)
    BY <1>1, <2>1, <2>2, <2>4 DEF Send
  <2>6. whole' = Len(sent')
    BY <1>1, <2>2, <2>3 DEF Send
  <2>7. UNCHANGED <<peer, at, buf, served, answers>>
    BY <1>1 DEF Send
  <2> QED
    BY <1>0, <2>2, <2>3, <2>5, <2>6, <2>7 DEF ReaderTypes
<1>2. ASSUME NEW line \in Lines, NEW n \in 0 .. Len(line), SendCut(line, n) PROVE ReaderTypes'
  <2>1. SubSeq(line, 1, n) \in Seq(Bytes)
    BY LineIsBytes
  <2>2. /\ sent \in Seq(Lines) /\ Len(sent) \in Nat /\ Len(sent) < MaxLines /\ whole = Len(sent)
        /\ wire \in Seq(Bytes) /\ whole \in Nat
    BY <1>2 DEF ReaderTypes, SendCut
  <2>3. sent' \in Seq(Lines) /\ Len(sent') = Len(sent) + 1
    BY <1>2, <2>2, AppendProperties DEF SendCut
  <2>4. wire' \in Seq(Bytes)
    BY <1>2, <2>1, <2>2 DEF SendCut
  <2>5. peer' = "closed" /\ UNCHANGED <<whole, at, buf, served, answers>>
    BY <1>2 DEF SendCut
  <2> QED
    BY <1>0, <2>2, <2>3, <2>4, <2>5 DEF ReaderTypes
<1>3. CASE EndConnection
  BY <1>3 DEF EndConnection, ReaderTypes
<1>4. CASE RecvByte
  <2>1. PICK b \in Bytes : \E rest \in Seq(Bytes) :
          wire = <<b>> \o rest /\ wire' = rest /\ Taken(b)
    BY <1>4, RecvByteTakes
  <2>2. wire' \in Seq(Bytes) /\ Taken(b)
    BY <2>1
  <2>3. UNCHANGED <<sent, whole, peer, answers>> /\ at = "recv"
    BY <1>4 DEF RecvByte
  <2>4. buf \in Seq(Text) /\ Len(buf) \in Nat /\ Len(buf) < BufferSize - 1
    BY DEF ReaderTypes
  <2>5. ASSUME NEW line \in Seq(Text), Len(line) <= BufferSize - 1, Return(line)
        PROVE  ReaderTypes'
    <3>1. /\ at' \in {"serve", "done"}
          /\ buf' \in Seq(Text) /\ Len(buf)' < BufferSize - 1
          /\ served' \in Seq(Seq(Text))
          /\ \A k \in 1 .. Len(served') : Len(served'[k]) \in 1 .. BufferSize - 1
          /\ at' = "serve" => served' # <<>>
          /\ answers' \subseteq 1 .. Len(served')
      BY <2>3, <2>5, ReturnTypes
    <3> QED
      BY <2>2, <2>3, <3>1 DEF ReaderTypes
  <2>6. CASE b = "LF" /\ Return(buf)
    <3>1. Len(buf) <= BufferSize - 1
      BY <1>0, <2>4
    <3> QED
      BY <2>4, <2>5, <2>6, <3>1
  <2>7. CASE b = "CR" /\ UNCHANGED <<at, buf, served>>
    BY <2>2, <2>3, <2>7 DEF ReaderTypes
  <2>8. CASE /\ b \in Text /\ Len(buf) + 1 < BufferSize - 1 /\ buf' = Append(buf, b)
             /\ UNCHANGED <<at, served>>
    <3>1. buf' \in Seq(Text) /\ Len(buf') < BufferSize - 1
      BY <2>4, <2>8, AppendProperties
    <3> QED
      BY <2>2, <2>3, <2>8, <3>1 DEF ReaderTypes
  <2>9. CASE b \in Text /\ Len(buf) + 1 = BufferSize - 1 /\ Return(Append(buf, b))
    <3>1. Append(buf, b) \in Seq(Text) /\ Len(Append(buf, b)) <= BufferSize - 1
      BY <1>0, <2>4, <2>9, AppendProperties
    <3> QED
      BY <2>5, <2>9, <3>1
  <2> QED
    BY <2>2, <2>6, <2>7, <2>8, <2>9 DEF Taken
<1>5. CASE RecvEnd
  <2>1. buf \in Seq(Text) /\ Len(buf) <= BufferSize - 1 /\ Return(buf) /\ answers' = answers
    BY <1>0, <1>5 DEF RecvEnd, ReaderTypes
  <2>2. /\ at' \in {"serve", "done"}
        /\ buf' \in Seq(Text) /\ Len(buf)' < BufferSize - 1
        /\ served' \in Seq(Seq(Text))
        /\ \A k \in 1 .. Len(served') : Len(served'[k]) \in 1 .. BufferSize - 1
        /\ at' = "serve" => served' # <<>>
        /\ answers' \subseteq 1 .. Len(served')
    BY <2>1, ReturnTypes
  <2> QED
    BY <1>5, <2>2 DEF RecvEnd, ReaderTypes
<1>6. CASE RecvError
  BY <1>6 DEF RecvError, ReaderTypes
<1>7. CASE Serve
  <2>1. served \in Seq(Seq(Text)) /\ served # <<>> /\ Len(served) \in Nat \ {0}
    BY <1>7, EmptySeq DEF Serve, ReaderTypes
  <2>2. answers \subseteq 1 .. Len(served) /\ Len(served) \in 1 .. Len(served)
    BY <2>1 DEF ReaderTypes
  <2>3. answers' = answers \/ answers' = answers \cup {Len(served)}
    BY <1>7 DEF Serve
  <2>4. answers' \subseteq 1 .. Len(served)
    BY <2>2, <2>3
  <2>5. at' \in {"done", "recv"}
    BY <1>7 DEF Serve
  <2> QED
    BY <1>7, <2>4, <2>5 DEF Serve, ReaderTypes
<1>8. CASE UNCHANGED readerVars
  BY <1>8 DEF readerVars, ReaderTypes
<1> QED
  BY <1>1, <1>2, <1>3, <1>4, <1>5, <1>6, <1>7, <1>8 DEF ReaderNext, PeerNext, Recv


LEMMA TypesInit ==
  ASSUME ReaderInit
  PROVE  ReaderTypes
BY BufferAssumption DEF ReaderInit, ReaderTypes

LEMMA TypesHold == ReaderSpec => []ReaderTypes
<1>1. ReaderInit => ReaderTypes
  BY TypesInit
<1>2. ReaderTypes /\ [ReaderNext]_readerVars => ReaderTypes'
  BY TypesNext
<1> QED
  BY <1>1, <1>2, PTL DEF ReaderSpec

\* recv_line stays in its buffer, whatever its size and whatever peers send (utils.c): the
\* line it returns and the '\0' fit, and a reply belongs to a line that was returned.
THEOREM ReaderTyped == ReaderSpec => []ReaderTypeOK
<1>1. Text = Bytes \ {"CR", "LF"}
  BY DEF Text
<1>2. ReaderTypes => ReaderTypeOK
  BY <1>1 DEF ReaderTypes, ReaderTypeOK
<1> QED
  BY <1>2, TypesHold, PTL

-----------------------------------------------------------------------------
(* 3. Each line that was served is answered. *)

\* Only the reply to a long REGISTER fills its buffer.
NoReply(line) ==
  Head(line) \in DOMAIN Surplus /\ Len(line) + Surplus[Head(line)] >= BufferSize - 1

AnswersOK ==
  peer # "reset" =>
    \A k \in 1 .. Len(served) : (at = "serve" /\ k = Len(served)) \/ k \in answers \/ NoReply(served[k])

LEMMA RepliesFit ==
  ASSUME NEW line, Len(line) \in Nat,
         NEW length \in ReplyLengths(line), ~SendLineFits(length)
  PROVE  NoReply(line)
<1>1. BufferSize \in Nat /\ BufferSize > 2
  BY BufferAssumption
<1>2. CASE Head(line) \in DOMAIN Surplus
  <2>1. Surplus[Head(line)] \in Nat
    BY <1>2 DEF Surplus
  <2>2. length \in 1 .. BufferSize - 1 /\ length <= Len(line) + Surplus[Head(line)]
    BY <1>2 DEF ReplyLengths
  <2>3. length >= BufferSize - 1
    BY <1>1, <2>2 DEF SendLineFits
  <2> QED
    BY <1>1, <1>2, <2>1, <2>2, <2>3 DEF NoReply
<1>3. CASE Head(line) \notin DOMAIN Surplus
  BY <1>1, <1>3 DEF SendLineFits, ReplyLengths
<1> QED
  BY <1>2, <1>3

\* A line more is under way to its reply, the others have theirs.
LEMMA AnswersReturn ==
  ASSUME ReaderTypes, AnswersOK, at = "recv", NEW line \in Seq(Text), Return(line),
         UNCHANGED <<peer, answers>>
  PROVE  AnswersOK'
<1>1. served \in Seq(Seq(Text)) /\ Len(served) \in Nat
  BY DEF ReaderTypes
<1> SUFFICES ASSUME peer # "reset", NEW k \in 1 .. Len(served')
             PROVE  (at' = "serve" /\ k = Len(served')) \/ k \in answers \/ NoReply(served'[k])
  BY DEF AnswersOK, NoReply
<1>2. \A i \in 1 .. Len(served) : i \in answers \/ NoReply(served[i])
  BY DEF AnswersOK
<1>3. CASE line = <<>>
  BY <1>2, <1>3 DEF Return
<1>4. CASE line # <<>>
  <2>1. at' = "serve" /\ served' = Append(served, line)
    BY <1>4 DEF Return
  <2>2. /\ Len(served') = Len(served) + 1
        /\ \A i \in 1 .. Len(served) : served'[i] = served[i]
    BY <1>1, <2>1, AppendProperties
  <2>3. CASE k = Len(served')
    BY <2>1, <2>3
  <2>4. CASE k # Len(served')
    <3>1. k \in 1 .. Len(served)
      BY <1>1, <2>2, <2>4
    <3> QED
      BY <1>2, <2>2, <3>1
  <2> QED
    BY <2>3, <2>4
<1> QED
  BY <1>3, <1>4

LEMMA AnswersNext ==
  ASSUME ReaderTypes, AnswersOK, [ReaderNext]_readerVars
  PROVE  AnswersOK'
<1> USE DEF peerVars
<1>1. ASSUME UNCHANGED <<peer, at, served, answers>> PROVE AnswersOK'
  BY <1>1 DEF AnswersOK, NoReply
<1>2. ASSUME NEW line \in Lines, Send(line) PROVE AnswersOK'
  BY <1>1, <1>2 DEF Send
<1>3. ASSUME peer = "open", UNCHANGED <<at, served, answers>> PROVE AnswersOK'
  BY <1>3 DEF AnswersOK, NoReply
<1>4. ASSUME NEW line \in Lines, NEW n \in 0 .. Len(line), SendCut(line, n) PROVE AnswersOK'
  BY <1>3, <1>4 DEF SendCut
<1>5. CASE EndConnection
  BY <1>3, <1>5 DEF EndConnection
<1>6. CASE RecvByte
  <2>1. PICK b \in Bytes : Taken(b)
    BY <1>6, RecvByteTakes
  <2>2. at = "recv" /\ UNCHANGED <<peer, answers>>
    BY <1>6 DEF RecvByte
  <2>3. buf \in Seq(Text)
    BY DEF ReaderTypes
  <2>4. CASE Return(buf)
    BY <2>2, <2>3, <2>4, AnswersReturn
  <2>5. CASE UNCHANGED <<at, served>>
    BY <1>1, <2>2, <2>5
  <2>6. CASE b \in Text /\ Return(Append(buf, b))
    <3>1. Append(buf, b) \in Seq(Text)
      BY <2>3, <2>6, AppendProperties
    <3> QED
      BY <2>2, <2>6, <3>1, AnswersReturn
  <2> QED
    BY <2>1, <2>4, <2>5, <2>6 DEF Taken
<1>7. CASE RecvEnd
  BY <1>7, AnswersReturn DEF RecvEnd, ReaderTypes
<1>8. CASE RecvError
  BY <1>8 DEF RecvError, AnswersOK
<1>9. CASE Serve
  <2>1. /\ served \in Seq(Seq(Text)) /\ served # <<>>
        /\ Last(served) = served[Len(served)] /\ Len(served) \in 1 .. Len(served)
    BY <1>9, EmptySeq DEF Serve, ReaderTypes, Last
  <2>2. Len(Last(served)) \in Nat
    BY <2>1
  <2>3. PICK length \in ReplyLengths(Last(served)) :
          answers' = IF SendLineFits(length) /\ peer # "reset"
                     THEN answers \cup {Len(served)} ELSE answers
    BY <1>9 DEF Serve
  <2>3a. peer # "reset" => Len(served) \in answers' \/ NoReply(Last(served))
    <3>1. CASE SendLineFits(length) /\ peer # "reset"
      BY <2>3, <3>1
    <3>2. CASE ~SendLineFits(length)
      BY <2>2, <3>2, RepliesFit
    <3> QED
      BY <3>1, <3>2
  <2>4. answers \subseteq answers' /\ UNCHANGED <<peer, served>>
    BY <1>9, <2>3 DEF Serve
  <2>5. peer # "reset" => \A k \in 1 .. Len(served) : k \in answers' \/ NoReply(served[k])
    BY <2>1, <2>3a, <2>4 DEF AnswersOK
  <2> QED
    BY <2>4, <2>5 DEF AnswersOK, NoReply
<1>10. CASE UNCHANGED readerVars
  BY <1>1, <1>10 DEF readerVars
<1> QED
  BY <1>2, <1>4, <1>5, <1>6, <1>7, <1>8, <1>9, <1>10 DEF ReaderNext, PeerNext, Recv

\* handle_sensor_connection answers each line it serves before recv_line reads the next
\* one, a full buffer included: of a connection that was not reset only a REGISTER can be
\* left without its reply, where that would fill the buffer of send_line.
THEOREM LinesAnswered == ReaderSpec => []LinesAreAnswered
<1>1. ReaderInit => AnswersOK
  BY DEF ReaderInit, AnswersOK
<1>2. ReaderTypes /\ AnswersOK /\ [ReaderNext]_readerVars => AnswersOK'
  BY AnswersNext
<1>3. AnswersOK => LinesAreAnswered
  BY DEF AnswersOK, NoReply, LinesAreAnswered
<1> QED
  BY <1>1, <1>2, <1>3, TypesHold, PTL DEF ReaderSpec


-----------------------------------------------------------------------------
(* 4. No byte is lost, doubled or moved. *)

\* What was received, without the ends of lines.
Got == FlattenSeq(served) \o buf

LEMMA Piece ==
  ASSUME NEW S, NEW s, s \in Seq(S), NEW t, t \in Seq(S)
  PROVE  IsPrefix(s, s \o t)
<1>1. /\ s \o t \in Seq(S) /\ Len(s \o t) = Len(s) + Len(t)
      /\ Len(s) \in Nat /\ Len(t) \in Nat
  BY ConcatProperties
<1>2. CASE s = <<>>
  <2>1. Len(s) = 0
    BY <1>2
  <2>2. SubSeq(s, 1, 0) = <<>> /\ SubSeq(s \o t, 1, 0) = <<>>
    BY SubSeqEmpty
  <2> QED
    BY <1>1, <2>1, <2>2 DEF IsPrefix
<1>3. CASE s # <<>>
  <2>1. 1 \in 1 .. Len(s) /\ Len(s) \in 1 .. Len(s)
    BY <1>1, <1>3, EmptySeq
  <2>2. SubSeq(s \o t, 1, Len(s)) = SubSeq(s, 1, Len(s))
    BY <2>1, SubSeqOfConcat1
  <2> QED
    BY <1>1, <2>2 DEF IsPrefix
<1> QED
  BY <1>2, <1>3

InOrder ==
  \E lost \in Seq(Text) :
    /\ Visible(FlattenSeq(sent)) = Got \o (Visible(wire) \o lost)
    /\ peer = "open" => lost = <<>>

LEMMA GotTyped ==
  ASSUME ReaderTypes
  PROVE  /\ FlattenSeq(served) \in Seq(Text) /\ buf \in Seq(Text) /\ Got \in Seq(Text)
         /\ Visible(wire) \in Seq(Text)
<1>1. FlattenSeq(served) \in Seq(Text)
  BY FlattenTyped DEF ReaderTypes
<1>2. buf \in Seq(Text)
  BY DEF ReaderTypes
<1>3. Visible(wire) \in Seq(Text)
  BY VisibleTyped DEF ReaderTypes
<1> QED
  BY <1>1, <1>2, <1>3, ConcatProperties DEF Got

LEMMA ReturnKeeps ==
  ASSUME ReaderTypes, NEW line \in Seq(Text), Return(line)
  PROVE  Got' = FlattenSeq(served) \o line
<1>1. FlattenSeq(served) \in Seq(Text) /\ buf' = <<>>
  BY GotTyped DEF Return
<1>2. CASE line = <<>>
  BY <1>1, <1>2 DEF Return, Got
<1>3. CASE line # <<>>
  <2>1. served' = Append(served, line) /\ served \in Seq(Seq(Text))
    BY <1>3 DEF Return, ReaderTypes
  <2>2. FlattenSeq(served') = FlattenSeq(served) \o line
    BY <2>1, FlattenGrows
  <2> DEFINE a == FlattenSeq(served) \o line
  <2>3. a \in Seq(Text)
    BY <1>1, ConcatProperties
  <2>4. Got' = a \o <<>>
    BY <1>1, <2>2 DEF Got
  <2> HIDE DEF a
  <2>5. a \o <<>> = a
    BY <2>3, ConcatEmptySeq
  <2> QED
    BY <2>4, <2>5 DEF a
<1> QED
  BY <1>2, <1>3

LEMMA TakenKeeps ==
  ASSUME ReaderTypes, NEW b \in Bytes, Taken(b)
  PROVE  Got' = Got \o Visible(<<b>>)
<1>1. FlattenSeq(served) \in Seq(Text) /\ buf \in Seq(Text) /\ Got \in Seq(Text)
  BY GotTyped
<1>2. Visible(<<b>>) = IF b \in {"CR", "LF"} THEN <<>> ELSE <<b>>
  BY VisibleByte
<1>3. Got \o <<>> = Got
  BY <1>1, ConcatEmptySeq
<1>4. ASSUME b \in Text
      PROVE  FlattenSeq(served) \o Append(buf, b) = Got \o Visible(<<b>>)
  <2>1. <<b>> \in Seq(Text) /\ Visible(<<b>>) = <<b>>
    BY <1>2, <1>4 DEF Text
  <2>2. Append(buf, b) = buf \o <<b>>
    BY <1>1, <1>4, AppendIsConcat
  <2>3. (FlattenSeq(served) \o buf) \o <<b>> = FlattenSeq(served) \o (buf \o <<b>>)
    BY <1>1, <2>1, Regroup
  <2> QED
    BY <2>1, <2>2, <2>3 DEF Got
<1>5. CASE b = "LF" /\ Return(buf)
  <2>1. Got' = Got
    BY <1>1, <1>5, ReturnKeeps DEF Got
  <2> QED
    BY <1>2, <1>3, <1>5, <2>1
<1>6. CASE b = "CR" /\ UNCHANGED <<at, buf, served>>
  <2>1. Got' = Got
    BY <1>6 DEF Got
  <2> QED
    BY <1>2, <1>3, <1>6, <2>1
<1>7. CASE b \in Text /\ buf' = Append(buf, b) /\ UNCHANGED <<at, served>>
  <2>1. Got' = FlattenSeq(served) \o Append(buf, b)
    BY <1>7 DEF Got
  <2> QED
    BY <1>4, <1>7, <2>1
<1>8. CASE b \in Text /\ Return(Append(buf, b))
  <2>1. Append(buf, b) \in Seq(Text)
    BY <1>1, <1>8, AppendProperties
  <2>2. Got' = FlattenSeq(served) \o Append(buf, b)
    BY <1>8, <2>1, ReturnKeeps
  <2> QED
    BY <1>4, <1>8, <2>2
<1> QED
  BY <1>5, <1>6, <1>7, <1>8 DEF Taken

\* A line more is under way, or a piece of it, the rest of which is lost.
LEMMA SentGrows ==
  ASSUME ReaderTypes, InOrder, peer = "open", NEW line \in Lines,
         NEW a, a \in Seq(Bytes), NEW rest, rest \in Seq(Bytes), a \o rest = line,
         sent' = Append(sent, line), Visible(wire') = Visible(wire) \o Visible(a), Got' = Got
  PROVE  Visible(FlattenSeq(sent')) = Got' \o (Visible(wire') \o Visible(rest))
<1> DEFINE old == Visible(FlattenSeq(sent))
           w == Visible(wire)
           v == Visible(a)
           z == Visible(rest)
<1>1. Got \in Seq(Text) /\ w \in Seq(Text) /\ v \in Seq(Text) /\ z \in Seq(Text)
  BY GotTyped, VisibleTyped
<1>2. PICK lost \in Seq(Text) : old = Got \o (w \o lost) /\ lost = <<>>
  BY DEF InOrder
<1>3. line \in Seq(Bytes) /\ sent \in Seq(Seq(Bytes))
  <2>1. Lines \subseteq Seq(Bytes)
    BY LineIsBytes
  <2> QED
    BY <2>1 DEF ReaderTypes
<1>4. FlattenSeq(sent') = FlattenSeq(sent) \o line /\ FlattenSeq(sent) \in Seq(Bytes)
  BY <1>3, FlattenGrows, FlattenTyped
<1>5. Visible(FlattenSeq(sent')) = old \o (v \o z)
  BY <1>3, <1>4, VisibleConcat
<1>6. Visible(wire') = w \o v
  OBVIOUS
<1> HIDE DEF old, w, v, z
<1>7. w \o lost = w
  BY <1>1, <1>2, ConcatEmptySeq
<1>8. (Got \o w) \o (v \o z) = Got \o ((w \o v) \o z)
  <2> DEFINE e == v \o z
  <2>1. e \in Seq(Text)
    BY <1>1, ConcatProperties
  <2>2. (w \o v) \o z = w \o e
    BY ONLY <1>1, Regroup, SMTT(30)
  <2> HIDE DEF e
  <2>3. (Got \o w) \o e = Got \o (w \o e)
    <3>1. Got \in Seq(Text) /\ w \in Seq(Text)
      BY <1>1
    <3> QED
      BY ONLY <2>1, <3>1, Regroup, SMTT(30)
  <2> QED
    BY <2>2, <2>3 DEF e
<1>9. old = Got \o w
  BY <1>2, <1>7
<1> QED
  BY <1>5, <1>6, <1>8, <1>9 DEF z

LEMMA OrderNext ==
  ASSUME ReaderTypes, InOrder, [ReaderNext]_readerVars
  PROVE  InOrder'
<1> USE DEF peerVars
<1>1. ASSUME sent' = sent, wire' = wire, Got' = Got, peer' = "open" => peer = "open"
      PROVE  InOrder'
  BY <1>1 DEF InOrder
<1>2. ASSUME NEW line \in Lines, Send(line) PROVE InOrder'
  <2>1. line \in Seq(Bytes) /\ wire \in Seq(Bytes) /\ <<"LF">> \in Seq(Bytes) /\ <<>> \in Seq(Bytes)
    <3>1. <<"LF">> \in Seq(Bytes) /\ <<>> \in Seq(Bytes)
      BY DEF Bytes
    <3>2. line \in Seq(Bytes) /\ wire \in Seq(Bytes)
      BY LineIsBytes DEF ReaderTypes
    <3> QED
      BY <3>1, <3>2
  <2>2. line \o <<>> = line
    BY <2>1, ConcatEmptySeq
  <2>3. Visible(wire') = Visible(wire) \o Visible(line)
    <3>1. wire' = (wire \o line) \o <<"LF">> /\ wire \o line \in Seq(Bytes)
      BY <1>2, <2>1 DEF Send
    <3>2. Visible(wire') = Visible(wire \o line) \o Visible(<<"LF">>)
      BY <2>1, <3>1, VisibleConcat
    <3>3. Visible(<<"LF">>) = <<>>
      BY VisibleByte DEF Bytes
    <3>4. Visible(wire \o line) = Visible(wire) \o Visible(line)
      BY <2>1, VisibleConcat
    <3>5. Visible(wire \o line) \in Seq(Text)
      BY <3>1, VisibleTyped
    <3>6. Visible(wire \o line) \o <<>> = Visible(wire \o line)
      BY <3>5, ConcatEmptySeq
    <3> QED
      BY <3>2, <3>3, <3>4, <3>6
  <2>4. Got' = Got /\ peer = "open" /\ sent' = Append(sent, line)
    BY <1>2 DEF Send, Got
  <2>5. Visible(FlattenSeq(sent')) = Got' \o (Visible(wire') \o Visible(<<>>))
    BY <2>1, <2>2, <2>3, <2>4, SentGrows
  <2>6. Visible(<<>>) = <<>> /\ <<>> \in Seq(Text)
    BY VisibleEmpty
  <2> QED
    BY <2>5, <2>6 DEF InOrder
<1>3. ASSUME NEW line \in Lines, NEW n \in 0 .. Len(line), SendCut(line, n) PROVE InOrder'
  <2> DEFINE a == SubSeq(line, 1, n)
             rest == SubSeq(line, n + 1, Len(line))
  <2>1. a \in Seq(Bytes) /\ rest \in Seq(Bytes) /\ a \o rest = line
    BY LineIsBytes
  <2>2. wire' = wire \o a /\ peer = "open" /\ peer' = "closed" /\ sent' = Append(sent, line)
    BY <1>3 DEF SendCut
  <2>3. Got' = Got
    BY <1>3 DEF SendCut, Got
  <2> HIDE DEF a, rest
  <2>4. Visible(wire') = Visible(wire) \o Visible(a)
    BY <2>1, <2>2, VisibleConcat DEF ReaderTypes
  <2>5. Visible(FlattenSeq(sent')) = Got' \o (Visible(wire') \o Visible(rest))
    BY <2>1, <2>2, <2>3, <2>4, SentGrows
  <2>6. Visible(rest) \in Seq(Text)
    BY <2>1, VisibleTyped
  <2> QED
    BY <2>2, <2>5, <2>6 DEF InOrder
<1>4. CASE EndConnection
  BY <1>1, <1>4 DEF EndConnection, Got
<1>5. CASE RecvByte
  <2>1. PICK b \in Bytes, rest \in Seq(Bytes) : wire = <<b>> \o rest /\ wire' = rest /\ Taken(b)
    BY <1>5, RecvByteTakes
  <2>2. PICK lost \in Seq(Text) : /\ Visible(FlattenSeq(sent)) = Got \o (Visible(wire) \o lost)
                                  /\ peer = "open" => lost = <<>>
    BY DEF InOrder
  <2> DEFINE v == Visible(<<b>>)
             r == Visible(rest)
  <2>0. <<b>> \in Seq(Bytes) /\ rest \in Seq(Bytes)
    BY <2>1
  <2>3. v \in Seq(Text) /\ r \in Seq(Text) /\ Visible(wire) = v \o r
    BY <2>0, <2>1, VisibleTyped, VisibleConcat
  <2>4. Got' = Got \o v /\ Visible(wire') = r /\ sent' = sent /\ peer' = peer
    BY <1>5, <2>1, TakenKeeps DEF RecvByte
  <2> HIDE DEF v, r
  <2>5. Got \o ((v \o r) \o lost) = (Got \o v) \o (r \o lost)
    <3>1. Got \in Seq(Text) /\ lost \in Seq(Text)
      BY <2>2, GotTyped
    <3> DEFINE e == r \o lost
    <3>2. e \in Seq(Text)
      BY <2>3, <3>1, ConcatProperties
    <3>3. (v \o r) \o lost = v \o e
      BY ONLY <2>3, <3>1, Regroup, SMTT(30)
    <3> HIDE DEF e
    <3>4. (Got \o v) \o e = Got \o (v \o e)
      <4>1. Got \in Seq(Text) /\ v \in Seq(Text)
        BY <2>3, <3>1
      <4> QED
        BY ONLY <3>2, <4>1, Regroup, SMTT(30)
    <3> QED
      BY <3>3, <3>4 DEF e
  <2>6. Visible(FlattenSeq(sent')) = Got' \o (Visible(wire') \o lost)
    BY <2>2, <2>3, <2>4, <2>5
  <2> QED
    BY <2>2, <2>4, <2>6 DEF InOrder
<1>6. CASE RecvEnd
  <2>1. buf \in Seq(Text) /\ Return(buf)
    BY <1>6 DEF RecvEnd, ReaderTypes
  <2>2. Got' = Got
    BY <2>1, ReturnKeeps DEF Got
  <2> QED
    BY <1>1, <1>6, <2>2 DEF RecvEnd
<1>7. CASE RecvError
  BY <1>1, <1>7 DEF RecvError, Got
<1>8. CASE Serve
  BY <1>1, <1>8 DEF Serve, Got
<1>9. CASE UNCHANGED readerVars
  BY <1>1, <1>9 DEF readerVars, Got
<1> QED
  BY <1>2, <1>3, <1>4, <1>5, <1>6, <1>7, <1>8, <1>9 DEF ReaderNext, PeerNext, Recv

\* Lines that are cut, longer than the buffer or empty included, recv_line hands on the
\* bytes peers sent as they sent them: none is lost between two calls, where the buffer is
\* full or where the connection ends.
THEOREM BytesStayInOrder == ReaderSpec => []BytesInOrder
<1>1. ReaderInit => InOrder
  <2> SUFFICES ASSUME ReaderInit PROVE InOrder
    OBVIOUS
  <2>1. FlattenSeq(sent) = <<>> /\ FlattenSeq(served) = <<>> /\ buf = <<>> /\ wire = <<>>
    BY FlattenEmpty DEF ReaderInit
  <2>2. Visible(<<>>) = <<>> /\ <<>> \o <<>> = <<>> /\ <<>> \in Seq(Text)
    BY VisibleEmpty
  <2> QED
    BY <2>1, <2>2 DEF InOrder, Got
<1>2. ReaderTypes /\ InOrder /\ [ReaderNext]_readerVars => InOrder'
  BY OrderNext
<1>3. ReaderTypes /\ InOrder => BytesInOrder
  <2> SUFFICES ASSUME ReaderTypes, InOrder PROVE BytesInOrder
    OBVIOUS
  <2>1. PICK lost \in Seq(Text) : Visible(FlattenSeq(sent)) = Got \o (Visible(wire) \o lost)
    BY DEF InOrder
  <2> DEFINE here == Got \o Visible(wire)
  <2>2. Got \in Seq(Text) /\ Visible(wire) \in Seq(Text)
    BY GotTyped
  <2>3. here \in Seq(Text)
    BY <2>2, ConcatProperties
  <2>4. here \o lost = Got \o (Visible(wire) \o lost)
    BY <2>1, <2>2, Regroup
  <2> HIDE DEF here
  <2>5. IsPrefix(here, here \o lost)
    BY <2>1, <2>3, Piece
  <2>6. here = FlattenSeq(served) \o buf \o Visible(wire)
    BY DEF here, Got
  <2> QED
    BY <2>1, <2>4, <2>5, <2>6 DEF BytesInOrder
<1> QED
  BY <1>1, <1>2, <1>3, TypesHold, PTL DEF ReaderSpec


-----------------------------------------------------------------------------
(* 5. Each line is served once, whole and in order. *)

Unended == Bytes \ {"LF"}

LEMMA UnendedAreBytes ==
  /\ "LF" \in Bytes /\ "LF" \notin Unended
  /\ \A q \in Seq(Unended) : q \in Seq(Bytes)
<1>1. Unended \subseteq Bytes /\ "LF" \in Bytes /\ "LF" \notin Unended
  BY DEF Unended, Bytes
<1>2. Seq(Unended) \subseteq Seq(Bytes)
  BY <1>1, SeqMonotonic
<1> QED
  BY <1>1, <1>2

LEMMA ConcatAt ==
  ASSUME NEW S, NEW a, a \in Seq(S), NEW r, r \in Seq(S)
  PROVE  /\ Len(a \o r) = Len(a) + Len(r)
         /\ \A i \in 1 .. Len(a) : (a \o r)[i] = a[i]
         /\ \A i \in 1 .. Len(r) : (a \o r)[i + Len(a)] = r[i]
BY ConcatProperties

Begins(a, line) == \E z \in Seq(Bytes) : line = a \o z

\* Two streams are the same: b follows p in one, a line feed follows q in the other.
Meet(p, b, r, q, v) == Append(p, b) \o r = Append(q, "LF") \o v

\* Their first line feed is at the same place.
LEMMA LineEnds ==
  ASSUME NEW p, p \in Seq(Unended), NEW q, q \in Seq(Unended), NEW b \in Bytes,
         NEW r, r \in Seq(Bytes), NEW v, v \in Seq(Bytes), Meet(p, b, r, q, v)
  PROVE  IF b = "LF" THEN p = q /\ r = v ELSE Begins(Append(p, b), q)
<1> DEFINE a == Append(p, b)
           c == Append(q, "LF")
<1>1. p \in Seq(Bytes) /\ q \in Seq(Bytes) /\ "LF" \in Bytes /\ "LF" \notin Unended
  BY UnendedAreBytes
<1>2. Len(p) \in Nat /\ Len(q) \in Nat /\ Len(r) \in Nat /\ Len(v) \in Nat
  OBVIOUS
<1>3. /\ a \in Seq(Bytes) /\ Len(a) = Len(p) + 1 /\ a[Len(p) + 1] = b
      /\ \A i \in 1 .. Len(p) : a[i] = p[i]
  BY <1>1, AppendProperties
<1>4. /\ c \in Seq(Bytes) /\ Len(c) = Len(q) + 1 /\ c[Len(q) + 1] = "LF"
      /\ \A i \in 1 .. Len(q) : c[i] = q[i]
  BY <1>1, AppendProperties
<1>5. a \o r = c \o v
  BY DEF Meet
<1>6. (\A i \in 1 .. Len(p) : p[i] \in Unended) /\ (\A i \in 1 .. Len(q) : q[i] \in Unended)
  OBVIOUS
<1> HIDE DEF a, c
<1> DEFINE s == a \o r
<1>7. /\ Len(s) = Len(a) + Len(r)
      /\ \A i \in 1 .. Len(a) : s[i] = a[i]
      /\ \A i \in 1 .. Len(r) : s[i + Len(a)] = r[i]
  <2>1. a \in Seq(Bytes) /\ r \in Seq(Bytes)
    BY <1>3
  <2> QED
    BY ONLY <2>1, ConcatAt
<1>8. /\ Len(s) = Len(c) + Len(v)
      /\ \A i \in 1 .. Len(c) : s[i] = c[i]
      /\ \A i \in 1 .. Len(v) : s[i + Len(c)] = v[i]
  <2>1. /\ Len(c \o v) = Len(c) + Len(v)
        /\ \A i \in 1 .. Len(c) : (c \o v)[i] = c[i]
        /\ \A i \in 1 .. Len(v) : (c \o v)[i + Len(c)] = v[i]
    <3>1. c \in Seq(Bytes) /\ v \in Seq(Bytes)
      BY <1>4
    <3> QED
      BY ONLY <3>1, ConcatAt
  <2>2. s = c \o v
    BY <1>5
  <2> HIDE DEF s
  <2> QED
    BY <2>1, <2>2, Zenon
<1> HIDE DEF s
<1>9. /\ \A i \in 1 .. Len(p) : s[i] = p[i]
      /\ \A i \in 1 .. Len(q) : s[i] = q[i]
      /\ s[Len(p) + 1] = b /\ s[Len(q) + 1] = "LF"
  BY <1>2, <1>3, <1>4, <1>7, <1>8
<1>10. /\ \A i \in 1 .. Len(r) : s[i + (Len(p) + 1)] = r[i]
       /\ \A i \in 1 .. Len(v) : s[i + (Len(q) + 1)] = v[i]
       /\ Len(p) + 1 + Len(r) = Len(q) + 1 + Len(v)
  BY <1>2, <1>3, <1>4, <1>7, <1>8
<1>11. CASE Len(p) < Len(q)
  <2>1. b \in Unended
    <3>1. Len(p) + 1 \in 1 .. Len(q)
      BY <1>2, <1>11
    <3> QED
      BY <1>6, <1>9, <3>1
  <2> DEFINE z == SubSeq(q, Len(p) + 2, Len(q))
  <2>2. /\ z \in Seq(Bytes) /\ Len(z) = Len(q) - Len(p) - 1
        /\ \A i \in 1 .. Len(z) : z[i] = q[i + Len(p) + 1]
    <3>1. \A i \in Len(p) + 2 .. Len(q) : q[i] \in Bytes
      BY <1>1, <1>2
    <3>2. /\ z \in Seq(Bytes)
          /\ Len(z) = IF Len(p) + 2 <= Len(q) THEN Len(q) - (Len(p) + 2) + 1 ELSE 0
          /\ \A i \in 1 .. Len(q) - (Len(p) + 2) + 1 : z[i] = q[Len(p) + 2 + i - 1]
      BY <1>2, <3>1, SubSeqProperties
    <3> HIDE DEF z
    <3>3. Len(z) = Len(q) - Len(p) - 1
      BY <1>2, <1>11, <3>2
    <3>4. ASSUME NEW i \in 1 .. Len(z) PROVE z[i] = q[i + Len(p) + 1]
      <4>1. i \in 1 .. Len(q) - (Len(p) + 2) + 1 /\ Len(p) + 2 + i - 1 = i + Len(p) + 1
        BY <1>2, <3>3
      <4> QED
        BY <3>2, <4>1
    <3> QED
      BY <3>2, <3>3, <3>4
  <2> HIDE DEF z
  <2>3. /\ Len(q) = Len(a) + Len(z)
        /\ \A i \in 1 .. Len(a) : q[i] = a[i]
        /\ \A i \in 1 .. Len(z) : q[i + Len(a)] = z[i]
    <3>1. Len(q) = Len(a) + Len(z)
      BY <1>2, <1>3, <2>2
    <3>2. ASSUME NEW i \in 1 .. Len(a) PROVE q[i] = a[i]
      <4>1. i \in 1 .. Len(q) /\ (i \in 1 .. Len(p) \/ i = Len(p) + 1)
        BY <1>2, <1>3, <1>11
      <4> QED
        BY <1>3, <1>9, <4>1
    <3>3. ASSUME NEW i \in 1 .. Len(z) PROVE q[i + Len(a)] = z[i]
      <4>1. i + Len(a) = i + Len(p) + 1
        BY <1>2, <1>3
      <4> QED
        BY <2>2, <4>1
    <3> QED
      BY <3>1, <3>2, <3>3
  <2>4. q = a \o z
    BY <1>1, <1>3, <2>2, <2>3, IsConcat
  <2>5. b # "LF"
    BY <1>1, <2>1
  <2> QED
    BY <2>2, <2>4, <2>5 DEF a, Begins
<1>12. CASE Len(q) < Len(p)
  <2>1. Len(q) + 1 \in 1 .. Len(p)
    BY <1>2, <1>12
  <2> QED
    BY <1>1, <1>6, <1>9, <2>1
<1>13. CASE Len(p) = Len(q)
  <2>1. b = "LF"
    BY <1>9, <1>13
  <2>2. p = q
    BY <1>1, <1>9, <1>13, SeqEqual
  <2>3. Len(r) = Len(v) /\ \A i \in 1 .. Len(r) : r[i] = v[i]
    BY <1>2, <1>10, <1>13
  <2>4. r = v
    BY <2>3, SeqEqual
  <2> QED
    BY <2>1, <2>2, <2>4
<1>14. Len(p) < Len(q) \/ Len(q) < Len(p) \/ Len(p) = Len(q)
  BY <1>2
<1> QED
  BY <1>11, <1>12, <1>13, <1>14, Zenon

\* Bytes without a line feed are not a line that ended.
LEMMA NoEnd ==
  ASSUME NEW p, p \in Seq(Unended), NEW q, q \in Seq(Unended), NEW v, v \in Seq(Bytes)
  PROVE  p # Append(q, "LF") \o v
<1> DEFINE c == Append(q, "LF")
<1> SUFFICES ASSUME p = c \o v PROVE FALSE
  OBVIOUS
<1>1. q \in Seq(Bytes) /\ "LF" \in Bytes /\ "LF" \notin Unended
  BY UnendedAreBytes
<1>2. c \in Seq(Bytes) /\ Len(c) = Len(q) + 1 /\ c[Len(q) + 1] = "LF" /\ Len(q) \in Nat
  BY <1>1, AppendProperties
<1> HIDE DEF c
<1>3. Len(q) + 1 \in 1 .. Len(p) /\ p[Len(q) + 1] = "LF"
  BY <1>2
<1> QED
  BY <1>1, <1>3

\* The lines that are still to come when n were served, and their bytes.
LinesFrom(n) == [i \in 1 .. whole - n |-> Append(sent[n + i], "LF")]

Stream(n, cut) == FlattenSeq(LinesFrom(n)) \o cut

LEMMA SentAt ==
  ASSUME ReaderTypes, NEW k \in 1 .. Len(sent)
  PROVE  sent[k] \in Seq(Unended) /\ sent[k] \in Seq(Bytes) /\ Append(sent[k], "LF") \in Seq(Bytes)
<1>1. sent[k] \in Lines
  BY DEF ReaderTypes
<1>2. sent[k] \in Seq(Unended) /\ sent[k] \in Seq(Bytes)
  BY <1>1, LineIsBytes DEF Unended
<1> QED
  BY <1>2, AppendProperties DEF Bytes

LEMMA LinesFromTyped ==
  ASSUME ReaderTypes, NEW n \in 0 .. whole
  PROVE  /\ LinesFrom(n) \in Seq(Seq(Bytes)) /\ Len(LinesFrom(n)) = whole - n
         /\ \A i \in 1 .. whole - n : LinesFrom(n)[i] = Append(sent[n + i], "LF")
<1>1. whole \in Nat /\ whole <= Len(sent) /\ Len(sent) \in Nat
  BY DEF ReaderTypes
<1>2. ASSUME NEW i \in 1 .. whole - n PROVE Append(sent[n + i], "LF") \in Seq(Bytes)
  <2>1. n + i \in 1 .. Len(sent)
    BY <1>1
  <2> QED
    BY <2>1, SentAt
<1>3. LinesFrom(n) \in [1 .. whole - n -> Seq(Bytes)]
  BY <1>2 DEF LinesFrom
<1>4. whole - n \in Nat
  BY <1>1
<1>5. LinesFrom(n) \in Seq(Seq(Bytes)) /\ Len(LinesFrom(n)) = whole - n
  BY <1>3, <1>4
<1> QED
  BY <1>5 DEF LinesFrom

LEMMA FlattenOne ==
  ASSUME NEW S, NEW x \in Seq(S)
  PROVE  FlattenSeq(<<x>>) = x
<1>1. <<x>> = Append(<<>>, x) /\ <<>> \o x = x /\ <<>> \in Seq(Seq(S))
  OBVIOUS
<1> QED
  BY <1>1, FlattenGrows, FlattenEmpty

\* The next line is the first of those to come.
LEMMA StreamFirst ==
  ASSUME ReaderTypes, NEW n \in 0 .. whole - 1, NEW cut, cut \in Seq(Bytes)
  PROVE  /\ Stream(n, cut) = Append(sent[n + 1], "LF") \o Stream(n + 1, cut)
         /\ Stream(n + 1, cut) \in Seq(Bytes)
<1>1. whole \in Nat /\ n \in 0 .. whole /\ n + 1 \in 0 .. whole /\ n + 1 \in 1 .. Len(sent)
  BY DEF ReaderTypes
<1> DEFINE x == Append(sent[n + 1], "LF")
           a == LinesFrom(n)
           c == LinesFrom(n + 1)
           f == FlattenSeq(c)
<1>2. x \in Seq(Bytes)
  BY <1>1, SentAt
<1>3. /\ a \in Seq(Seq(Bytes)) /\ Len(a) = whole - n
      /\ \A i \in 1 .. whole - n : a[i] = Append(sent[n + i], "LF")
  BY <1>1, LinesFromTyped
<1>4. /\ c \in Seq(Seq(Bytes)) /\ Len(c) = whole - (n + 1)
      /\ \A i \in 1 .. whole - (n + 1) : c[i] = Append(sent[n + 1 + i], "LF")
  BY <1>1, LinesFromTyped
<1>5. a = <<x>> \o c
  <2>1. <<x>> \in Seq(Seq(Bytes)) /\ Len(<<x>>) = 1 /\ <<x>>[1] = x
    BY <1>2
  <2>2. Len(a) = Len(<<x>>) + Len(c)
    BY <1>1, <1>3, <1>4, <2>1
  <2>3. ASSUME NEW i \in 1 .. Len(<<x>>) PROVE a[i] = <<x>>[i]
    <3>1. i = 1 /\ 1 \in 1 .. whole - n
      BY <1>1, <2>1
    <3> QED
      BY <1>3, <2>1, <3>1
  <2>4. ASSUME NEW i \in 1 .. Len(c) PROVE a[i + Len(<<x>>)] = c[i]
    <3>1. i + 1 \in 1 .. whole - n /\ n + (i + 1) = n + 1 + i /\ i \in 1 .. whole - (n + 1)
      BY <1>1, <1>4
    <3>2. a[i + 1] = Append(sent[n + 1 + i], "LF") /\ c[i] = Append(sent[n + 1 + i], "LF")
      BY <1>3, <1>4, <3>1
    <3> QED
      BY <2>1, <3>2
  <2> HIDE DEF a, c, x
  <2> QED
    BY <1>3, <1>4, <2>1, <2>2, <2>3, <2>4, IsConcat
<1> HIDE DEF a, c, x
<1>6. FlattenSeq(a) = x \o f /\ f \in Seq(Bytes)
  <2>1. <<x>> \in Seq(Seq(Bytes))
    BY <1>2
  <2>2. FlattenSeq(a) = FlattenSeq(<<x>>) \o FlattenSeq(c)
    BY <1>4, <1>5, <2>1, FlattenConcat
  <2> QED
    BY <1>2, <1>4, <2>2, FlattenOne, FlattenTyped
<1> HIDE DEF f
<1>7. (x \o f) \o cut = x \o (f \o cut)
  BY <1>2, <1>6, Regroup
<1>8. f \o cut \in Seq(Bytes)
  BY <1>6, ConcatProperties
<1> QED
  BY <1>6, <1>7, <1>8 DEF Stream, a, c, x, f

LEMMA StreamLast ==
  ASSUME ReaderTypes, NEW cut, cut \in Seq(Bytes)
  PROVE  Stream(whole, cut) = cut
<1>1. whole \in Nat
  BY DEF ReaderTypes
<1>2. LinesFrom(whole) = <<>>
  BY <1>1 DEF LinesFrom
<1> QED
  BY <1>2, FlattenEmpty DEF Stream


\* What a peer sent of the line it did not finish.
CutOK(cut) ==
  /\ peer = "open" => cut = <<>>
  /\ cut = <<>> \/ (Len(sent) = whole + 1 /\ Begins(cut, sent[whole + 1]))

\* p was taken of the line after those served, the wire has its rest and the lines after it.
InLine(p, cut) ==
  /\ p \in Seq(Unended) /\ cut \in Seq(Bytes)
  /\ Len(served) <= whole
  /\ Visible(p) = buf
  /\ p \o wire = Stream(Len(served), cut)
  /\ CutOK(cut)

AfterLast == Len(served) = whole + 1 /\ wire = <<>> /\ buf = <<>> /\ peer # "open"

StreamOK ==
  at # "done" /\ AllTaken(Len(served)) => (\E p, cut : InLine(p, cut)) \/ AfterLast

Right(k, line) ==
  /\ k <= Len(sent)
  /\ k <= whole => line = Visible(sent[k])
  /\ k > whole  => IsPrefix(line, Visible(sent[k]))

WholeOK == \A k \in 1 .. Len(served) : AllTaken(k) => Right(k, served[k])

LEMMA TakenBefore ==
  ASSUME NEW m \in Nat, NEW n \in Nat, m <= n, AllTaken(n)
  PROVE  AllTaken(m)
BY DEF AllTaken

LEMMA TakenBeforeSent ==
  ASSUME ReaderTypes, NEW line \in Lines, sent' = Append(sent, line), NEW n \in Nat, AllTaken(n)'
  PROVE  AllTaken(n)
<1>1. /\ sent \in Seq(Lines) /\ Len(sent) \in Nat /\ Len(sent') = Len(sent) + 1
      /\ \A k \in 1 .. Len(sent) : sent'[k] = sent[k]
  BY AppendProperties DEF ReaderTypes
<1> SUFFICES ASSUME NEW k \in 1 .. n, k <= Len(sent) PROVE Takes(sent[k])
  BY DEF AllTaken
<1>2. k <= Len(sent') /\ sent'[k] = sent[k]
  BY <1>1
<1>3. Takes(sent'[k])
  BY <1>2 DEF AllTaken
<1> QED
  BY <1>2, <1>3

\* A line more changes nothing for those that were served.
LEMMA WholeSent ==
  ASSUME ReaderTypes, WholeOK, peer = "open", NEW line \in Lines,
         sent' = Append(sent, line), whole' \in Nat, whole <= whole',
         UNCHANGED <<at, served>>
  PROVE  WholeOK'
<1>1. /\ sent \in Seq(Lines) /\ Len(sent) \in Nat /\ Len(sent') = Len(sent) + 1
      /\ \A k \in 1 .. Len(sent) : sent'[k] = sent[k]
      /\ whole = Len(sent) /\ Len(served) \in Nat
  BY AppendProperties DEF ReaderTypes
<1>2. ASSUME NEW k \in 1 .. Len(served'), AllTaken(k)' PROVE Right(k, served[k])'
  <2>1. k \in 1 .. Len(served) /\ k \in Nat
    BY <1>1
  <2>2. AllTaken(k)
    BY <1>2, <2>1, TakenBeforeSent
  <2>3. k <= Len(sent) /\ served[k] = Visible(sent[k])
    BY <1>1, <2>1, <2>2 DEF WholeOK, Right
  <2>4. k <= Len(sent') /\ served'[k] = Visible(sent'[k]) /\ ~(k > whole')
    BY <1>1, <2>1, <2>3
  <2> QED
    BY <2>4 DEF Right
<1> QED
  BY <1>2 DEF WholeOK

\* What recv_line returns makes a place of its own among the lines served.
LEMMA WholeReturned ==
  ASSUME ReaderTypes, WholeOK, NEW line \in Seq(Text), Return(line), UNCHANGED <<sent, whole>>,
         line # <<>> /\ AllTaken(Len(served) + 1) => Right(Len(served) + 1, line)
  PROVE  WholeOK'
<1>1. served \in Seq(Seq(Text)) /\ Len(served) \in Nat
  BY DEF ReaderTypes
<1> SUFFICES ASSUME NEW k \in 1 .. Len(served'), AllTaken(k) PROVE Right(k, served'[k])
  BY DEF WholeOK, AllTaken, Right
<1>2. CASE line = <<>>
  BY <1>2 DEF Return, WholeOK
<1>3. CASE line # <<>>
  <2>1. served' = Append(served, line)
    BY <1>3 DEF Return
  <2>2. /\ Len(served') = Len(served) + 1 /\ served'[Len(served) + 1] = line
        /\ \A i \in 1 .. Len(served) : served'[i] = served[i]
    BY <1>1, <2>1, AppendProperties
  <2>3. CASE k = Len(served) + 1
    BY <1>3, <2>2, <2>3
  <2>4. CASE k # Len(served) + 1
    <3>1. k \in 1 .. Len(served)
      BY <1>1, <2>2, <2>4
    <3> QED
      BY <2>2, <3>1 DEF WholeOK
  <2> QED
    BY <2>3, <2>4
<1> QED
  BY <1>2, <1>3

\* The byte taken ends the line or is its next one.
LEMMA NextOfLine ==
  ASSUME ReaderTypes, NEW p, NEW cut, InLine(p, cut), NEW n, n = Len(served),
         NEW b \in Bytes, NEW rest \in Seq(Bytes), wire = <<b>> \o rest
  PROVE  IF b = "LF"
         THEN n + 1 <= whole /\ p = sent[n + 1] /\ rest = Stream(n + 1, cut)
         ELSE n + 1 <= Len(sent) /\ Begins(Append(p, b), sent[n + 1]) /\ Append(p, b) \o rest = Stream(n, cut)
<1>1. /\ p \in Seq(Unended) /\ cut \in Seq(Bytes) /\ n \in Nat /\ n <= whole
      /\ whole \in Nat /\ whole <= Len(sent) /\ Len(sent) \in Nat
  BY DEF InLine, ReaderTypes
<1> DEFINE a == Append(p, b)
<1>2. a \in Seq(Bytes) /\ p \in Seq(Bytes) /\ <<b>> \in Seq(Bytes)
  BY <1>1, UnendedAreBytes, AppendProperties
<1>3. a \o rest = Stream(n, cut)
  <2>1. a = p \o <<b>>
    BY <1>2, AppendIsConcat
  <2>2. (p \o <<b>>) \o rest = p \o (<<b>> \o rest)
    BY ONLY <1>2, Regroup, rest \in Seq(Bytes)
  <2>3. p \o (<<b>> \o rest) = Stream(n, cut)
    BY DEF InLine
  <2> QED
    BY <2>1, <2>2, <2>3
<1>4. CASE n < whole
  <2> DEFINE q == sent[n + 1]
             v == Stream(n + 1, cut)
  <2>1. n \in 0 .. whole - 1 /\ n + 1 \in 1 .. Len(sent)
    BY <1>1, <1>4
  <2>2. q \in Seq(Unended) /\ v \in Seq(Bytes) /\ Stream(n, cut) = Append(q, "LF") \o v
    BY <1>1, <2>1, SentAt, StreamFirst
  <2>3. Meet(p, b, rest, q, v)
    BY <1>3, <2>2 DEF Meet
  <2> HIDE DEF q, v
  <2>4. p \in Seq(Unended) /\ q \in Seq(Unended) /\ v \in Seq(Bytes) /\ rest \in Seq(Bytes)
    BY <1>1, <2>2
  <2>5. IF b = "LF" THEN p = q /\ rest = v ELSE Begins(Append(p, b), q)
    BY <2>3, <2>4, LineEnds
  <2>6. CASE b = "LF"
    BY <1>1, <1>4, <2>5, <2>6 DEF q, v
  <2>7. CASE b # "LF"
    BY <1>3, <2>1, <2>5, <2>7 DEF q
  <2> QED
    BY <2>6, <2>7
<1>5. CASE n = whole
  <2>1. a \o rest = cut
    BY <1>1, <1>3, <1>5, StreamLast
  <2>2. cut # <<>> /\ Len(p) \in Nat /\ Len(a) = Len(p) + 1 /\ a[Len(p) + 1] = b
    BY <1>1, <1>2, <2>1, AppendProperties
  <2>3. Len(sent) = whole + 1 /\ n + 1 \in 1 .. Len(sent)
    BY <1>1, <1>5, <2>2 DEF InLine, CutOK
  <2>4. PICK z \in Seq(Bytes) : sent[n + 1] = cut \o z
    BY <1>5, <2>2 DEF InLine, CutOK, Begins
  <2> HIDE DEF a
  <2>5. (a \o rest) \o z = a \o (rest \o z) /\ rest \o z \in Seq(Bytes)
    <3>1. a \in Seq(Bytes) /\ rest \in Seq(Bytes) /\ z \in Seq(Bytes)
      BY <1>2, <2>4
    <3>2. (a \o rest) \o z = a \o (rest \o z)
      BY ONLY <3>1, Regroup, SMTT(30)
    <3>3. rest \o z \in Seq(Bytes)
      BY ONLY <3>1, ConcatProperties
    <3> QED
      BY <3>2, <3>3
  <2> DEFINE y == rest \o z
  <2>6. sent[n + 1] = a \o y /\ y \in Seq(Bytes)
    BY <2>1, <2>4, <2>5
  <2> HIDE DEF y
  <2>7. b # "LF"
    <3>1. (a \o y)[Len(p) + 1] = b /\ Len(p) + 1 \in 1 .. Len(a \o y)
      BY <1>2, <2>2, <2>6, ConcatAt
    <3>2. sent[n + 1] \in Seq(Unended)
      BY <2>3, SentAt
    <3> QED
      BY <2>6, <3>1, <3>2, UnendedAreBytes
  <2>8. Begins(a, sent[n + 1])
    BY <2>6 DEF Begins
  <2>9. a \o rest = Stream(n, cut) /\ n + 1 <= Len(sent)
    BY <1>3, <2>3
  <2> QED
    BY <2>7, <2>8, <2>9 DEF a
<1>6. n < whole \/ n = whole
  BY <1>1
<1> QED
  BY <1>4, <1>5, <1>6, Zenon


\* A line that begins with more than the buffer takes is not one that recv_line takes whole.
LEMMA TooLong ==
  ASSUME ReaderTypes, NEW p, p \in Seq(Unended), Visible(p) = buf,
         NEW b \in Text, Len(buf) + 1 = BufferSize - 1,
         NEW n \in Nat, n + 1 <= Len(sent), Begins(Append(p, b), sent[n + 1])
  PROVE  ~AllTaken(n + 1)
<1>1. Len(sent) \in Nat /\ n + 1 \in 1 .. Len(sent) /\ n + 1 \in 1 .. n + 1 /\ BufferSize \in Nat
  BY BufferAssumption DEF ReaderTypes
<1>2. PICK z \in Seq(Bytes) : sent[n + 1] = Append(p, b) \o z
  BY DEF Begins
<1>3. p \in Seq(Bytes) /\ b \in Bytes
  BY UnendedAreBytes DEF Text
<1>4. Append(p, b) \in Seq(Bytes)
  BY <1>3, AppendProperties
<1>5. Visible(Append(p, b)) = Append(buf, b)
  <2>1. Append(p, b) = p \o <<b>> /\ <<b>> \in Seq(Bytes)
    BY <1>3, AppendIsConcat
  <2>2. Visible(p \o <<b>>) = Visible(p) \o Visible(<<b>>)
    BY <1>3, <2>1, VisibleConcat
  <2>3. Visible(<<b>>) = <<b>>
    BY <1>3, VisibleByte DEF Text
  <2>4. Append(buf, b) = buf \o <<b>>
    BY AppendIsConcat DEF ReaderTypes
  <2> QED
    BY <2>1, <2>2, <2>3, <2>4
<1>6. Visible(sent[n + 1]) = Append(buf, b) \o Visible(z)
  BY <1>2, <1>4, <1>5, VisibleConcat
<1>7. Len(Visible(sent[n + 1])) = Len(Append(buf, b)) + Len(Visible(z))
  <2>1. Append(buf, b) \in Seq(Text) /\ Visible(z) \in Seq(Text)
    BY VisibleTyped, AppendProperties DEF ReaderTypes
  <2> QED
    BY <1>6, <2>1, ConcatAt
<1>8. Len(Append(buf, b)) = Len(buf) + 1 /\ Len(buf) \in Nat
  BY AppendProperties DEF ReaderTypes
<1>9. Len(Visible(z)) \in Nat
  BY VisibleTyped
<1>10. Len(Visible(sent[n + 1])) > BufferSize - 2
  BY <1>1, <1>7, <1>8, <1>9
<1>11. ~Takes(sent[n + 1])
  <2> DEFINE l == Len(Visible(sent[n + 1]))
  <2>1. l > BufferSize - 2
    BY <1>10
  <2>2. Takes(sent[n + 1]) => l \in 1 .. BufferSize - 2
    BY DEF Takes
  <2> HIDE DEF l
  <2> QED
    BY <1>1, <2>1, <2>2
<1> QED
  BY <1>1, <1>11 DEF AllTaken

\* Where the reader is among the lines, and what it served of them.
LinesOK == StreamOK /\ WholeOK

LEMMA NotReady ==
  ASSUME ReaderTypes, WholeOK, ~AllTaken(Len(served)), NEW line \in Seq(Text), Return(line),
         UNCHANGED <<sent, whole, peer>>
  PROVE  LinesOK'
<1>1. Len(served) \in Nat /\ Len(sent) \in Nat /\ served \in Seq(Seq(Text))
  BY DEF ReaderTypes
<1>2. \A m \in Nat : Len(served) <= m => ~AllTaken(m)
  BY <1>1, TakenBefore
<1>3. WholeOK'
  BY <1>1, <1>2, WholeReturned
<1>4. Len(served') \in Nat /\ Len(served) <= Len(served')
  <2>1. served' = served \/ served' = Append(served, line)
    BY DEF Return
  <2> QED
    BY <1>1, <2>1, AppendProperties
<1>5. ~AllTaken(Len(served'))
  BY <1>1, <1>2, <1>4
<1>6. ~AllTaken(Len(served))'
  BY <1>5 DEF AllTaken
<1> QED
  BY <1>3, <1>6 DEF LinesOK, StreamOK

LEMMA LinesByte ==
  ASSUME ReaderTypes, LinesOK, RecvByte
  PROVE  LinesOK'
<1> DEFINE n == Len(served)
<1>1. PICK b \in Bytes, rest \in Seq(Bytes) : wire = <<b>> \o rest /\ wire' = rest /\ Taken(b)
  BY RecvByteTakes
<1>2. at = "recv" /\ UNCHANGED <<sent, whole, peer>>
  BY DEF RecvByte
<1>3. /\ n \in Nat /\ Len(sent) \in Nat /\ whole \in Nat /\ whole <= Len(sent)
      /\ served \in Seq(Seq(Text)) /\ buf \in Seq(Text)
  BY DEF ReaderTypes
<1>4. \A m, c : Stream(m, c)' = Stream(m, c) /\ CutOK(c)' = CutOK(c)
  BY <1>2 DEF Stream, LinesFrom, CutOK
<1>5. \A m : AllTaken(m)' = AllTaken(m)
  BY <1>2 DEF AllTaken
<1>6. CASE ~AllTaken(n)
  <2>1. ASSUME NEW line \in Seq(Text), Return(line) PROVE LinesOK'
    BY <1>2, <1>6, <2>1, NotReady DEF LinesOK
  <2>2. CASE Return(buf)
    BY <1>3, <2>1, <2>2
  <2>3. CASE b \in Text /\ Return(Append(buf, b))
    BY <1>3, <2>1, <2>3, AppendProperties
  <2>4. CASE UNCHANGED <<at, served>>
    <3>1. ~AllTaken(Len(served))'
      BY <1>2, <1>6, <2>4 DEF AllTaken
    <3>2. StreamOK'
      BY <1>2, <2>4, <3>1 DEF StreamOK
    <3>3. WholeOK'
      BY <1>2, <2>4 DEF LinesOK, WholeOK, AllTaken, Right
    <3> QED
      BY <3>2, <3>3 DEF LinesOK
  <2> QED
    BY <1>1, <2>2, <2>3, <2>4 DEF Taken
<1>7. CASE AllTaken(n)
  <2>1. PICK p, cut : InLine(p, cut)
    <3>1. ~AfterLast
      BY <1>1 DEF AfterLast
    <3> QED
      BY <1>2, <1>7, <3>1 DEF LinesOK, StreamOK
  <2>2. /\ p \in Seq(Unended) /\ p \in Seq(Bytes) /\ cut \in Seq(Bytes)
        /\ Visible(p) = buf /\ CutOK(cut) /\ n <= whole
    BY <2>1, UnendedAreBytes DEF InLine
  <2>3. IF b = "LF"
        THEN n + 1 <= whole /\ p = sent[n + 1] /\ rest = Stream(n + 1, cut)
        ELSE n + 1 <= Len(sent) /\ Begins(Append(p, b), sent[n + 1]) /\ Append(p, b) \o rest = Stream(n, cut)
    BY <1>1, <2>1, NextOfLine
  <2>4. CASE b = "LF" /\ Return(buf)
    <3>1. n + 1 <= whole /\ buf = Visible(sent[n + 1]) /\ rest = Stream(n + 1, cut)
      BY <2>2, <2>3, <2>4
    <3>2. Right(n + 1, buf)
      BY <1>3, <3>1 DEF Right
    <3>3. WholeOK'
      BY <1>2, <1>3, <2>4, <3>2, WholeReturned DEF LinesOK
    <3>4. CASE buf = <<>>
      <4>1. at' = "done"
        BY <2>4, <3>4 DEF Return
      <4> QED
        BY <3>3, <4>1 DEF LinesOK, StreamOK
    <3>5. CASE buf # <<>>
      <4>1. at' = "serve" /\ buf' = <<>> /\ served' = Append(served, buf)
        BY <2>4, <3>5 DEF Return
      <4>2. Len(served') = n + 1
        BY <1>3, <4>1, AppendProperties
      <4>3. InLine(<<>>, cut)'
        <5>1. <<>> \in Seq(Unended) /\ <<>> \o rest = rest /\ Visible(<<>>) = <<>>
          BY VisibleEmpty
        <5>2. Stream(Len(served), cut)' = Stream(n + 1, cut) /\ CutOK(cut)'
          <6>1. PICK m \in Nat : m = n + 1
            BY <1>3
          <6>2. Stream(Len(served), cut)' = Stream(m, cut)'
            BY <4>2, <6>1 DEF Stream, LinesFrom
          <6> QED
            BY <1>4, <2>2, <6>1, <6>2
        <5>3. Len(served') <= whole' /\ wire' = rest
          BY <1>1, <1>2, <3>1, <4>2
        <5> QED
          BY <2>2, <3>1, <4>1, <5>1, <5>2, <5>3 DEF InLine
      <4> QED
        BY <3>3, <4>1, <4>3 DEF LinesOK, StreamOK
    <3> QED
      BY <3>4, <3>5
  <2>5. ASSUME b # "LF", UNCHANGED <<at, served>>, Visible(Append(p, b)) = buf'
        PROVE  LinesOK'
    <3>1. Append(p, b) \in Seq(Unended)
      BY <2>2, <2>5, AppendProperties DEF Unended
    <3>2. InLine(Append(p, b), cut)'
      <4>1. Stream(Len(served), cut)' = Stream(n, cut) /\ CutOK(cut)'
        BY <1>2, <1>4, <2>2, <2>5 DEF Stream, LinesFrom
      <4>2. Append(p, b) \o wire' = Stream(n, cut)
        BY <1>1, <2>3, <2>5
      <4> QED
        BY <1>2, <2>2, <2>5, <3>1, <4>1, <4>2 DEF InLine
    <3>3. StreamOK'
      BY <1>2, <2>5, <3>2 DEF StreamOK
    <3>4. WholeOK'
      BY <1>2, <2>5 DEF LinesOK, WholeOK, AllTaken, Right
    <3> QED
      BY <3>3, <3>4 DEF LinesOK
  <2>6. b # "LF" => Visible(Append(p, b)) = buf \o Visible(<<b>>)
    <3>1. Append(p, b) = p \o <<b>> /\ <<b>> \in Seq(Bytes)
      BY <2>2, AppendIsConcat
    <3> QED
      BY <2>2, <3>1, VisibleConcat
  <2>7. CASE b = "CR" /\ UNCHANGED <<at, buf, served>>
    <3>1. Visible(<<b>>) = <<>> /\ buf \o <<>> = buf
      BY <1>3, <2>7, VisibleByte, ConcatEmptySeq
    <3> QED
      BY <2>5, <2>6, <2>7, <3>1
  <2>8. CASE b \in Text /\ buf' = Append(buf, b) /\ UNCHANGED <<at, served>>
    <3>1. Visible(<<b>>) = <<b>> /\ b # "LF"
      BY <2>8, VisibleByte DEF Text
    <3>2. Append(buf, b) = buf \o <<b>>
      BY <1>3, <2>8, AppendIsConcat
    <3> QED
      BY <2>5, <2>6, <2>8, <3>1, <3>2
  <2>9. CASE b \in Text /\ Len(buf) + 1 = BufferSize - 1 /\ Return(Append(buf, b))
    <3>1. n + 1 <= Len(sent) /\ Begins(Append(p, b), sent[n + 1])
      BY <2>3, <2>9 DEF Text
    <3>2. ~AllTaken(n + 1)
      BY <1>3, <2>2, <2>9, <3>1, TooLong
    <3>3. Append(buf, b) \in Seq(Text) /\ Append(buf, b) # <<>>
      BY <1>3, <2>9, AppendProperties
    <3>4. WholeOK'
      BY <1>2, <2>9, <3>2, <3>3, WholeReturned DEF LinesOK
    <3>5. at' = "serve" /\ served' = Append(served, Append(buf, b))
      BY <2>9, <3>3 DEF Return
    <3>6. Len(served') = n + 1
      BY <1>3, <3>3, <3>5, AppendProperties
    <3>7. ~AllTaken(Len(served))'
      BY <1>2, <3>2, <3>6 DEF AllTaken
    <3> QED
      BY <3>4, <3>5, <3>7 DEF LinesOK, StreamOK
  <2> QED
    BY <1>1, <2>4, <2>7, <2>8, <2>9 DEF Taken
<1> QED
  BY <1>6, <1>7


LEMMA LinesEnd ==
  ASSUME ReaderTypes, LinesOK, RecvEnd
  PROVE  LinesOK'
<1> DEFINE n == Len(served)
<1>1. /\ wire = <<>> /\ peer = "closed" /\ at = "recv" /\ Return(buf)
      /\ UNCHANGED <<sent, whole, wire, peer>>
  BY DEF RecvEnd, peerVars
<1>2. /\ n \in Nat /\ Len(sent) \in Nat /\ whole \in Nat /\ whole <= Len(sent)
      /\ served \in Seq(Seq(Text)) /\ buf \in Seq(Text)
  BY DEF ReaderTypes
<1>3. buf' = <<>>
  BY <1>1 DEF Return
<1>4. CASE ~AllTaken(n)
  BY <1>1, <1>2, <1>4, NotReady DEF LinesOK
<1>5. CASE buf = <<>>
  <2>1. at' = "done" /\ served' = served
    BY <1>1, <1>5 DEF Return
  <2> QED
    BY <1>1, <1>3, <2>1 DEF LinesOK, StreamOK, WholeOK, AllTaken, Right
<1>6. CASE AllTaken(n) /\ buf # <<>>
  <2>1. at' = "serve" /\ served' = Append(served, buf) /\ Len(served') = n + 1
    BY <1>1, <1>2, <1>6, AppendProperties DEF Return
  <2>2. PICK p, cut : InLine(p, cut)
    BY <1>1, <1>6 DEF LinesOK, StreamOK, AfterLast
  <2>3. /\ p \in Seq(Unended) /\ p \in Seq(Bytes) /\ cut \in Seq(Bytes) /\ n <= whole
        /\ Visible(p) = buf /\ CutOK(cut) /\ p \o wire = Stream(n, cut)
    BY <2>2, UnendedAreBytes DEF InLine
  <2>4. p = Stream(n, cut)
    <3>1. p \o <<>> = p
      BY <2>3, ConcatEmptySeq
    <3> QED
      BY <1>1, <2>3, <3>1
  <2>5. n = whole
    <3> SUFFICES ASSUME n < whole PROVE FALSE
      BY <1>2, <2>3
    <3>1. n \in 0 .. whole - 1 /\ n + 1 \in 1 .. Len(sent)
      BY <1>2
    <3>2. /\ sent[n + 1] \in Seq(Unended) /\ Stream(n + 1, cut) \in Seq(Bytes)
          /\ Stream(n, cut) = Append(sent[n + 1], "LF") \o Stream(n + 1, cut)
      BY <2>3, <3>1, SentAt, StreamFirst
    <3> DEFINE q == sent[n + 1]
               v == Stream(n + 1, cut)
    <3>3. q \in Seq(Unended) /\ v \in Seq(Bytes) /\ p = Append(q, "LF") \o v
      BY <2>4, <3>2
    <3> HIDE DEF q, v
    <3> QED
      BY <2>3, <3>3, NoEnd
  <2>6. p = cut /\ cut # <<>>
    BY <1>6, <2>3, <2>4, <2>5, StreamLast, VisibleEmpty
  <2>7. Len(sent) = whole + 1 /\ Begins(cut, sent[n + 1])
    BY <2>3, <2>5, <2>6 DEF CutOK
  <2>8. IsPrefix(buf, Visible(sent[n + 1]))
    <3>1. PICK z \in Seq(Bytes) : sent[n + 1] = cut \o z
      BY <2>7 DEF Begins
    <3>2. Visible(sent[n + 1]) = buf \o Visible(z) /\ Visible(z) \in Seq(Text)
      BY <2>3, <2>6, <3>1, VisibleConcat, VisibleTyped
    <3> QED
      BY <1>2, <3>2, Piece
  <2>9. Right(n + 1, buf)
    BY <1>2, <2>5, <2>7, <2>8 DEF Right
  <2>10. WholeOK'
    BY <1>1, <1>2, <2>9, WholeReturned DEF LinesOK
  <2>11. AfterLast'
    BY <1>1, <1>3, <2>1, <2>5 DEF AfterLast
  <2> QED
    BY <1>3, <2>10, <2>11 DEF LinesOK, StreamOK
<1> QED
  BY <1>4, <1>5, <1>6

\* A line more goes to the end of the stream, wherever the reader is in it.
LEMMA StreamSent ==
  ASSUME ReaderTypes, NEW line \in Lines, Send(line),
         NEW n \in 0 .. whole, NEW p, p \in Seq(Bytes), p \o wire = Stream(n, <<>>)
  PROVE  p \o wire' = Stream(n, <<>>)'
<1>1. /\ sent' = Append(sent, line) /\ whole' = whole + 1
      /\ wire' = wire \o line \o <<"LF">>
  BY DEF Send
<1>2. /\ sent \in Seq(Lines) /\ Len(sent) \in Nat /\ whole = Len(sent) /\ whole \in Nat
      /\ Len(sent') = Len(sent) + 1 /\ sent'[Len(sent) + 1] = line
      /\ \A k \in 1 .. Len(sent) : sent'[k] = sent[k]
      /\ wire \in Seq(Bytes)
  BY <1>1, AppendProperties DEF ReaderTypes, Send
<1>3. p \in Seq(Bytes) /\ n \in Nat /\ n <= whole /\ p \o wire = Stream(n, <<>>)
  BY <1>2
<1> DEFINE x == Append(line, "LF")
           a == LinesFrom(n)
<1>4. line \in Seq(Bytes) /\ x \in Seq(Bytes) /\ wire' = wire \o x
  <2>1. line \in Seq(Bytes) /\ "LF" \in Bytes /\ <<"LF">> \in Seq(Bytes)
    <3>1. line \in Seq(Bytes)
      BY LineIsBytes
    <3>2. "LF" \in Bytes /\ <<"LF">> \in Seq(Bytes)
      BY UnendedAreBytes
    <3> QED
      BY <3>1, <3>2
  <2>2. x = line \o <<"LF">> /\ x \in Seq(Bytes)
    BY <2>1, AppendIsConcat, AppendProperties
  <2>3. wire' = (wire \o line) \o <<"LF">>
    BY <1>1
  <2>4. (wire \o line) \o <<"LF">> = wire \o (line \o <<"LF">>)
    <3>1. wire \in Seq(Bytes) /\ line \in Seq(Bytes) /\ <<"LF">> \in Seq(Bytes)
      BY <1>2, <2>1
    <3> QED
      BY ONLY <3>1, Regroup, SMTT(30)
  <2> QED
    BY <2>1, <2>2, <2>3, <2>4
<1>5. /\ a \in Seq(Seq(Bytes)) /\ Len(a) = whole - n
      /\ \A i \in 1 .. whole - n : a[i] = Append(sent[n + i], "LF")
  <2>1. n \in 0 .. whole
    BY <1>2, <1>3
  <2> QED
    BY <2>1, LinesFromTyped
<1>6. LinesFrom(n)' = Append(a, x)
  <2> DEFINE c == [i \in 1 .. whole' - n |-> Append(sent'[n + i], "LF")]
             d == Append(a, x)
  <2>1. /\ d \in Seq(Seq(Bytes)) /\ Len(d) = whole - n + 1 /\ d[whole - n + 1] = x
        /\ \A i \in 1 .. whole - n : d[i] = a[i]
    BY <1>4, <1>5, AppendProperties
  <2>2. ASSUME NEW i \in 1 .. whole - n + 1 PROVE d[i] = Append(sent'[n + i], "LF")
    <3>1. CASE i \in 1 .. whole - n
      <4>1. n + i \in 1 .. Len(sent)
        BY <1>2, <1>3, <3>1
      <4> QED
        BY <1>2, <1>5, <2>1, <3>1, <4>1
    <3>2. CASE i = whole - n + 1
      <4>1. n + i = Len(sent) + 1
        BY <1>2, <1>3, <3>2
      <4> QED
        BY <1>2, <2>1, <3>2, <4>1
    <3>3. i \in 1 .. whole - n \/ i = whole - n + 1
      <4>1. whole - n \in Nat
        BY <1>2, <1>3
      <4> QED
        BY ONLY <4>1, i \in 1 .. whole - n + 1
    <3> QED
      BY <3>1, <3>2, <3>3
  <2>3. whole' - n = whole - n + 1
    BY <1>1, <1>2
  <2>4. c \in Seq(Seq(Bytes)) /\ Len(c) = whole - n + 1
    <3>1. c = [i \in 1 .. whole - n + 1 |-> d[i]]
      BY <2>2, <2>3
    <3>2. \A i \in 1 .. whole - n + 1 : d[i] \in Seq(Bytes)
      <4> HIDE DEF c, d
      <4>1. \A i \in 1 .. Len(d) : d[i] \in Seq(Bytes)
        BY <2>1
      <4> QED
        BY <2>1, <4>1
    <3>3. whole - n + 1 \in Nat
      BY <1>2, <1>3
    <3> HIDE DEF c, d
    <3>4. c \in [1 .. whole - n + 1 -> Seq(Bytes)]
      BY <3>1, <3>2
    <3> QED
      BY <3>3, <3>4
  <2>5. \A i \in 1 .. Len(c) : c[i] = d[i]
    BY <2>2, <2>3, <2>4
  <2>6. LinesFrom(n)' = c
    BY DEF LinesFrom
  <2> HIDE DEF c, d
  <2>7. c = d
    BY <2>1, <2>4, <2>5, SeqEqual
  <2> QED
    BY <2>6, <2>7 DEF d
<1> HIDE DEF x, a
<1>7. Stream(n, <<>>)' = Stream(n, <<>>) \o x
  <2>1. FlattenSeq(Append(a, x)) = FlattenSeq(a) \o x /\ FlattenSeq(a) \in Seq(Bytes)
    BY <1>4, <1>5, FlattenGrows, FlattenTyped
  <2>2. FlattenSeq(Append(a, x)) \in Seq(Bytes)
    BY <1>4, <2>1, ConcatProperties
  <2>3. Stream(n, <<>>)' = FlattenSeq(Append(a, x))
    BY <1>6, <2>2, ConcatEmptySeq DEF Stream
  <2>4. Stream(n, <<>>) = FlattenSeq(a)
    BY <2>1, ConcatEmptySeq DEF Stream, a
  <2> QED
    BY <2>1, <2>3, <2>4
<1>8. p \o wire' = Stream(n, <<>>)'
  <2>1. (p \o wire) \o x = p \o (wire \o x)
    <3>1. p \in Seq(Bytes) /\ wire \in Seq(Bytes) /\ x \in Seq(Bytes)
      BY <1>2, <1>3, <1>4
    <3> QED
      BY ONLY <3>1, Regroup, SMTT(30)
  <2> QED
    BY <1>3, <1>4, <1>7, <2>1
<1> QED
  BY <1>8

\* Peers send lines only where none was cut.
LEMMA LinesSend ==
  ASSUME ReaderTypes, LinesOK, NEW line \in Lines, Send(line)
  PROVE  LinesOK'
<1>1. /\ peer = "open" /\ sent' = Append(sent, line) /\ whole' = whole + 1
      /\ wire' = wire \o line \o <<"LF">> /\ UNCHANGED <<peer, at, buf, served>>
  BY DEF Send
<1>2. /\ sent \in Seq(Lines) /\ Len(sent) \in Nat /\ whole = Len(sent) /\ whole \in Nat
      /\ Len(sent') = Len(sent) + 1 /\ sent'[Len(sent) + 1] = line
      /\ \A k \in 1 .. Len(sent) : sent'[k] = sent[k]
      /\ Len(served) \in Nat /\ wire \in Seq(Bytes)
  BY <1>1, AppendProperties DEF ReaderTypes
<1>3. WholeOK'
  BY <1>1, <1>2, WholeSent DEF LinesOK
<1>4. ASSUME at # "done", AllTaken(Len(served))' PROVE \E p, cut : InLine(p, cut)'
  <2>1. PICK n \in Nat : n = Len(served)
    BY <1>2
  <2>2. AllTaken(n)
    <3>1. AllTaken(n)'
      BY <1>1, <1>4, <2>1 DEF AllTaken
    <3> QED
      BY <1>1, <3>1, TakenBeforeSent
  <2>3. PICK p, cut : InLine(p, cut)
    BY <1>1, <1>4, <2>1, <2>2 DEF LinesOK, StreamOK, AfterLast
  <2>4. /\ p \in Seq(Unended) /\ p \in Seq(Bytes) /\ cut = <<>> /\ n <= whole
        /\ Visible(p) = buf /\ p \o wire = Stream(n, <<>>)
    BY <1>1, <2>1, <2>3, UnendedAreBytes DEF InLine, CutOK
  <2>5. p \o wire' = Stream(n, <<>>)'
    <3>1. n \in 0 .. whole
      BY <1>2, <2>1, <2>4
    <3> QED
      BY <2>4, <3>1, StreamSent
  <2>6. Stream(n, <<>>)' = Stream(Len(served), <<>>)'
    BY <1>1, <2>1 DEF Stream, LinesFrom
  <2>7. CutOK(<<>>)' /\ Len(served') <= whole' /\ <<>> \in Seq(Bytes)
    BY <1>1, <1>2, <2>1, <2>4 DEF CutOK
  <2>8. InLine(p, <<>>)'
    BY <1>1, <2>4, <2>5, <2>6, <2>7 DEF InLine
  <2> QED
    BY <2>8
<1> QED
  BY <1>1, <1>3, <1>4 DEF LinesOK, StreamOK

LEMMA LinesCut ==
  ASSUME ReaderTypes, LinesOK, NEW line \in Lines, NEW i \in 0 .. Len(line), SendCut(line, i)
  PROVE  LinesOK'
<1> DEFINE new == SubSeq(line, 1, i)
           left == SubSeq(line, i + 1, Len(line))
<1>1. /\ peer = "open" /\ sent' = Append(sent, line) /\ wire' = wire \o new /\ peer' = "closed"
      /\ UNCHANGED <<whole, at, buf, served>>
  BY DEF SendCut
<1>2. /\ sent \in Seq(Lines) /\ Len(sent) \in Nat /\ whole = Len(sent) /\ whole \in Nat
      /\ Len(sent') = Len(sent) + 1 /\ sent'[Len(sent) + 1] = line
      /\ \A k \in 1 .. Len(sent) : sent'[k] = sent[k]
      /\ Len(served) \in Nat /\ wire \in Seq(Bytes)
  BY <1>1, AppendProperties DEF ReaderTypes
<1>3. new \in Seq(Bytes) /\ left \in Seq(Bytes) /\ line = new \o left
  BY LineIsBytes
<1> HIDE DEF new, left
<1>4. WholeOK'
  BY <1>1, <1>2, WholeSent DEF LinesOK
<1>5. ASSUME at # "done", AllTaken(Len(served))' PROVE \E p, cut : InLine(p, cut)'
  <2>1. PICK n \in Nat : n = Len(served)
    BY <1>2
  <2>2. AllTaken(n)
    <3>1. AllTaken(n)'
      BY <1>1, <1>5, <2>1 DEF AllTaken
    <3> QED
      BY <1>1, <3>1, TakenBeforeSent
  <2>3. PICK p, cut : InLine(p, cut)
    BY <1>1, <1>5, <2>1, <2>2 DEF LinesOK, StreamOK, AfterLast
  <2>4. /\ p \in Seq(Unended) /\ p \in Seq(Bytes) /\ cut = <<>> /\ n <= whole
        /\ Visible(p) = buf /\ p \o wire = Stream(n, <<>>)
    BY <1>1, <2>1, <2>3, UnendedAreBytes DEF InLine, CutOK
  <2> DEFINE f == FlattenSeq(LinesFrom(n))
  <2>5. f \in Seq(Bytes)
    <3>1. n \in 0 .. whole
      BY <1>2, <2>4
    <3> QED
      BY <3>1, LinesFromTyped, FlattenTyped
  <2>6. LinesFrom(n)' = LinesFrom(n)
    <3>1. ASSUME NEW k \in 1 .. whole - n PROVE sent'[n + k] = sent[n + k]
      BY <1>2, <2>4
    <3>2. [k \in 1 .. whole - n |-> Append(sent'[n + k], "LF")] = LinesFrom(n)
      BY <3>1 DEF LinesFrom
    <3> QED
      BY <1>1, <3>2 DEF LinesFrom
  <2>7. p \o wire = f
    BY <2>4, <2>5, ConcatEmptySeq DEF Stream
  <2>8. Stream(Len(served), new)' = f \o new
    BY <1>1, <2>1, <2>6 DEF Stream, LinesFrom
  <2> HIDE DEF f
  <2>9. p \o wire' = f \o new
    <3>1. (p \o wire) \o new = p \o (wire \o new)
      <4>1. p \in Seq(Bytes) /\ wire \in Seq(Bytes) /\ new \in Seq(Bytes)
        BY <1>2, <1>3, <2>4
      <4> QED
        BY ONLY <4>1, Regroup, SMTT(30)
    <3> QED
      BY <1>1, <2>7, <3>1
  <2>10. CutOK(new)'
    <3>1. Len(sent') = whole' + 1 /\ sent'[whole' + 1] = new \o left /\ peer' # "open"
      BY <1>1, <1>2, <1>3
    <3> QED
      BY <1>3, <3>1 DEF CutOK, Begins
  <2>11. InLine(p, new)'
    BY <1>1, <1>3, <2>1, <2>4, <2>8, <2>9, <2>10 DEF InLine
  <2> QED
    BY <2>11
<1> QED
  BY <1>1, <1>4, <1>5 DEF LinesOK, StreamOK

LEMMA LinesNext ==
  ASSUME ReaderTypes, LinesOK, [ReaderNext]_readerVars
  PROVE  LinesOK'
<1> USE DEF peerVars
<1>1. ASSUME UNCHANGED <<sent, whole, wire, buf, served>>, peer' = "open" => peer = "open",
             at = "done" => at' = "done"
      PROVE  LinesOK'
  <2>1. \A m, c : Stream(m, c)' = Stream(m, c)
    BY <1>1 DEF Stream, LinesFrom
  <2>2. \A c : CutOK(c) => CutOK(c)'
    BY <1>1 DEF CutOK
  <2>3. \A m : AllTaken(m)' = AllTaken(m)
    BY <1>1 DEF AllTaken
  <2>4. \A p, cut : InLine(p, cut) => InLine(p, cut)'
    <3> SUFFICES ASSUME NEW p, NEW cut, InLine(p, cut) PROVE InLine(p, cut)'
      OBVIOUS
    <3>1. Stream(Len(served), cut)' = Stream(Len(served), cut)
      BY <1>1 DEF Stream, LinesFrom
    <3> QED
      BY <1>1, <2>2, <3>1 DEF InLine
  <2>5. AfterLast => AfterLast'
    BY <1>1 DEF AfterLast
  <2>6. AllTaken(Len(served))' = AllTaken(Len(served))
    BY <1>1 DEF AllTaken
  <2>7. StreamOK'
    BY <1>1, <2>4, <2>5, <2>6 DEF LinesOK, StreamOK
  <2>8. WholeOK'
    BY <1>1 DEF LinesOK, WholeOK, AllTaken, Right
  <2> QED
    BY <2>7, <2>8 DEF LinesOK
<1>2. ASSUME NEW line \in Lines, Send(line) PROVE LinesOK'
  BY <1>2, LinesSend
<1>3. ASSUME NEW line \in Lines, NEW n \in 0 .. Len(line), SendCut(line, n) PROVE LinesOK'
  BY <1>3, LinesCut
<1>4. CASE EndConnection
  BY <1>1, <1>4 DEF EndConnection
<1>5. CASE RecvByte
  BY <1>5, LinesByte
<1>6. CASE RecvEnd
  BY <1>6, LinesEnd
<1>7. CASE RecvError
  BY <1>1, <1>7 DEF RecvError
<1>8. CASE Serve
  BY <1>1, <1>8 DEF Serve
<1>9. CASE UNCHANGED readerVars
  BY <1>1, <1>9 DEF readerVars
<1> QED
  BY <1>2, <1>3, <1>4, <1>5, <1>6, <1>7, <1>8, <1>9 DEF ReaderNext, PeerNext, Recv

\* While peers send lines that recv_line takes whole, the loop of handle_sensor_connection
\* serves each of them once, in order and without its ends, and of a line cut by the end of
\* the connection the beginning.
THEOREM LinesAreWhole == ReaderSpec => []LinesServedWhole
<1>1. ReaderInit => LinesOK
  <2> SUFFICES ASSUME ReaderInit PROVE LinesOK
    OBVIOUS
  <2>1. InLine(<<>>, <<>>)
    <3>1. ReaderTypes
      BY TypesInit
    <3>2. <<>> \in Seq(Unended) /\ <<>> \in Seq(Bytes) /\ <<>> \o <<>> = <<>>
      OBVIOUS
    <3>3. Stream(whole, <<>>) = <<>>
      BY <3>1, <3>2, StreamLast
    <3> QED
      BY <3>2, <3>3, VisibleEmpty DEF ReaderInit, InLine, CutOK
  <2>2. WholeOK
    BY DEF ReaderInit, WholeOK
  <2> QED
    BY <2>1, <2>2 DEF LinesOK, StreamOK
<1>2. ReaderTypes /\ LinesOK /\ [ReaderNext]_readerVars => LinesOK'
  BY LinesNext
<1>3. LinesOK => LinesServedWhole
  BY DEF LinesOK, WholeOK, Right, LinesServedWhole
<1> QED
  BY <1>1, <1>2, <1>3, TypesHold, PTL DEF ReaderSpec

-----------------------------------------------------------------------------
(* 6. A handler leaves its peer only at an empty line or one that fills the buffer. *)

\* p was taken of the line after the first n, the wire has its rest and the lines after it,
\* and meanwhile the buffer was filled and served d times.
InStream(n, p, d) ==
  /\ n \in 0 .. whole /\ p \in Seq(Unended) /\ d \in Nat
  /\ Len(Visible(p)) = d * (BufferSize - 1) + Len(buf)
  /\ p \o wire = Stream(n, <<>>)

PlaceOK == peer = "open" /\ at # "done" => \E n, p, d : InStream(n, p, d)

LEMMA NextInStream ==
  ASSUME ReaderTypes, NEW n \in 0 .. whole, NEW p, p \in Seq(Unended), NEW b \in Bytes,
         NEW rest \in Seq(Bytes), wire = <<b>> \o rest, p \o wire = Stream(n, <<>>)
  PROVE  /\ n + 1 \in 0 .. whole /\ n + 1 \in 1 .. Len(sent)
         /\ Append(p, b) \o rest = Stream(n, <<>>)
         /\ b = "LF" => p = sent[n + 1] /\ rest = Stream(n + 1, <<>>)
<1> DEFINE a == Append(p, b)
<1>1. whole \in Nat /\ whole <= Len(sent) /\ Len(sent) \in Nat /\ n \in Nat /\ n <= whole
  BY DEF ReaderTypes
<1>2. a \in Seq(Bytes) /\ p \in Seq(Bytes) /\ <<b>> \in Seq(Bytes) /\ Len(a) = Len(p) + 1
  BY UnendedAreBytes, AppendProperties
<1>3. a \o rest = Stream(n, <<>>)
  <2>1. a = p \o <<b>>
    BY <1>2, AppendIsConcat
  <2>2. (p \o <<b>>) \o rest = p \o (<<b>> \o rest)
    BY ONLY <1>2, Regroup, rest \in Seq(Bytes)
  <2> QED
    BY <2>1, <2>2
<1>4. n < whole
  <2> SUFFICES ASSUME n = whole PROVE FALSE
    BY <1>1
  <2>1. a \o rest = <<>>
    <3>1. <<>> \in Seq(Bytes)
      OBVIOUS
    <3> QED
      BY <1>3, <3>1, StreamLast
  <2>2. Len(a \o rest) = Len(a) + Len(rest) /\ Len(p) \in Nat /\ Len(rest) \in Nat
    BY <1>2, ConcatAt
  <2> HIDE DEF a
  <2>3. Len(a \o rest) = 0
    BY <2>1
  <2> QED
    BY <1>2, <2>2, <2>3
<1>5. ASSUME b = "LF" PROVE p = sent[n + 1] /\ rest = Stream(n + 1, <<>>)
  <2> DEFINE q == sent[n + 1]
             v == Stream(n + 1, <<>>)
  <2>1. n \in 0 .. whole - 1 /\ n + 1 \in 1 .. Len(sent)
    BY <1>1, <1>4
  <2>2. q \in Seq(Unended) /\ v \in Seq(Bytes) /\ Stream(n, <<>>) = Append(q, "LF") \o v
    <3>1. <<>> \in Seq(Bytes)
      OBVIOUS
    <3> QED
      BY <2>1, <3>1, SentAt, StreamFirst
  <2>3. Meet(p, b, rest, q, v)
    BY <1>3, <2>2 DEF Meet
  <2> HIDE DEF q, v
  <2>4. p = q /\ rest = v
    BY <1>5, <2>2, <2>3, LineEnds
  <2> QED
    BY <2>4 DEF q, v
<1> QED
  BY <1>1, <1>3, <1>4, <1>5

\* One more of the bytes of a line, kept or not.
LEMMA VisibleGrows ==
  ASSUME NEW p, p \in Seq(Unended), NEW b \in Bytes
  PROVE  /\ Len(Visible(p)) \in Nat
         /\ Len(Visible(Append(p, b))) = Len(Visible(p)) + (IF b \in Text THEN 1 ELSE 0)
<1>1. p \in Seq(Bytes) /\ <<b>> \in Seq(Bytes)
  BY UnendedAreBytes
<1>2. Visible(Append(p, b)) = Visible(p) \o Visible(<<b>>)
  <2>1. Append(p, b) = p \o <<b>>
    BY <1>1, AppendIsConcat
  <2> QED
    BY <1>1, <2>1, VisibleConcat
<1>3. Visible(p) \in Seq(Text) /\ Visible(<<b>>) \in Seq(Text)
  BY <1>1, VisibleTyped
<1>4. Len(Visible(<<b>>)) = IF b \in Text THEN 1 ELSE 0
  <2>1. CASE b \in {"CR", "LF"}
    BY <2>1, VisibleByte DEF Text
  <2>2. CASE b \notin {"CR", "LF"}
    <3>1. Visible(<<b>>) = <<b>> /\ b \in Text
      BY <2>2, VisibleByte DEF Text
    <3> QED
      BY <3>1
  <2> QED
    BY <2>1, <2>2
<1> QED
  BY <1>2, <1>3, <1>4, ConcatAt

LEMMA PlaceByte ==
  ASSUME ReaderTypes, PlaceOK, OnlyEmptyLinesEnd, RecvByte, peer = "open"
  PROVE  PlaceOK' /\ OnlyEmptyLinesEnd'
<1>1. PICK b \in Bytes, rest \in Seq(Bytes) : wire = <<b>> \o rest /\ wire' = rest /\ Taken(b)
  BY RecvByteTakes
<1>2. at = "recv" /\ UNCHANGED <<sent, whole, peer>>
  BY DEF RecvByte
<1>3. PICK n, p, d : InStream(n, p, d)
  BY <1>2 DEF PlaceOK
<1>4. /\ n \in 0 .. whole /\ p \in Seq(Unended) /\ p \in Seq(Bytes) /\ d \in Nat
      /\ Len(Visible(p)) = d * (BufferSize - 1) + Len(buf) /\ p \o wire = Stream(n, <<>>)
      /\ Len(buf) \in Nat /\ buf \in Seq(Text) /\ BufferSize \in Nat /\ BufferSize > 2
  BY <1>3, UnendedAreBytes, BufferAssumption DEF InStream, ReaderTypes
<1>5. /\ n + 1 \in 0 .. whole /\ n + 1 \in 1 .. Len(sent)
      /\ Append(p, b) \o rest = Stream(n, <<>>)
      /\ b = "LF" => p = sent[n + 1] /\ rest = Stream(n + 1, <<>>)
  <2>1. /\ n \in 0 .. whole /\ p \in Seq(Unended) /\ b \in Bytes /\ rest \in Seq(Bytes)
        /\ wire = <<b>> \o rest /\ p \o wire = Stream(n, <<>>)
    BY <1>1, <1>4
  <2> QED
    BY ONLY ReaderTypes, <2>1, NextInStream, ZenonT(60)
<1>6. \A m : Stream(m, <<>>)' = Stream(m, <<>>)
  BY <1>2 DEF Stream, LinesFrom
<1>7. ASSUME b # "LF", at' # "done", NEW e \in Nat,
             Len(Visible(Append(p, b))) = e * (BufferSize - 1) + Len(buf')
      PROVE  PlaceOK' /\ OnlyEmptyLinesEnd'
  <2>1. Append(p, b) \in Seq(Unended)
    BY <1>4, <1>7, AppendProperties DEF Unended
  <2>2. InStream(n, Append(p, b), e)'
    BY <1>1, <1>2, <1>4, <1>5, <1>6, <1>7, <2>1 DEF InStream
  <2> QED
    BY <1>7, <2>2 DEF PlaceOK, OnlyEmptyLinesEnd
<1>8. Len(Visible(p)) \in Nat /\ (b \in Text => Len(Visible(Append(p, b))) = Len(Visible(p)) + 1)
      /\ (b = "CR" => Len(Visible(Append(p, b))) = Len(Visible(p)))
  BY <1>4, VisibleGrows DEF Text
<1>9. CASE b = "LF" /\ Return(buf)
  <2>1. CASE buf = <<>>
    <3> DEFINE length == Len(Visible(sent[n + 1]))
    <3>1. length \in Nat /\ length = d * (BufferSize - 1)
      BY <1>4, <1>5, <1>8, <1>9, <2>1
    <3>2. d <= length
      <4> HIDE DEF length
      <4>1. d * 1 <= d * (BufferSize - 1)
        BY <1>4
      <4> QED
        BY <1>4, <3>1, <4>1
    <3>3. FillsBuffer(sent[n + 1])
      BY <1>4, <3>1, <3>2 DEF FillsBuffer
    <3>4. OnlyEmptyLinesEnd'
      BY <1>2, <1>5, <3>3 DEF OnlyEmptyLinesEnd, FillsBuffer
    <3> QED
      BY <1>9, <2>1, <3>4 DEF PlaceOK, Return
  <2>2. CASE buf # <<>>
    <3>1. at' = "serve" /\ buf' = <<>>
      BY <1>9, <2>2 DEF Return
    <3>2. Len(Visible(<<>>)) = 0 /\ 0 * (BufferSize - 1) + Len(<<>>) = 0 /\ <<>> \o rest = rest
      BY <1>4, VisibleEmpty
    <3>3. PICK m : m = n + 1
      OBVIOUS
    <3>4. InStream(m, <<>>, 0)'
      BY <1>1, <1>2, <1>5, <1>6, <1>9, <3>1, <3>2, <3>3 DEF InStream
    <3> QED
      BY <3>1, <3>4 DEF PlaceOK, OnlyEmptyLinesEnd
  <2> QED
    BY <2>1, <2>2
<1>10. CASE b = "CR" /\ UNCHANGED <<at, buf, served>>
  BY <1>2, <1>4, <1>7, <1>8, <1>10
<1>11. CASE b \in Text /\ buf' = Append(buf, b) /\ UNCHANGED <<at, served>>
  <2>1. Len(buf') = Len(buf) + 1
    BY <1>4, <1>11, AppendProperties
  <2>2. d * (BufferSize - 1) \in Nat
    BY <1>4
  <2>3. Len(Visible(Append(p, b))) = d * (BufferSize - 1) + Len(buf')
    <3> DEFINE all == d * (BufferSize - 1)
    <3>1. all \in Nat /\ Len(Visible(p)) = all + Len(buf)
      BY <1>4, <2>2
    <3> HIDE DEF all
    <3>2. Len(buf) \in Nat /\ Len(Visible(Append(p, b))) = Len(Visible(p)) + 1
      BY <1>4, <1>8, <1>11
    <3>3. Len(Visible(Append(p, b))) = all + Len(buf')
      BY <2>1, <3>1, <3>2
    <3> QED
      BY <3>3 DEF all
  <2> QED
    BY <1>2, <1>4, <1>7, <1>11, <2>3 DEF Text
<1>12. CASE b \in Text /\ Len(buf) + 1 = BufferSize - 1 /\ Return(Append(buf, b))
  <2>1. at' = "serve" /\ buf' = <<>> /\ Len(buf') = 0
    <3>1. Append(buf, b) # <<>>
      <4>1. buf \in Seq(Text) /\ b \in Text
        BY <1>4, <1>12
      <4> QED
        BY ONLY <4>1, AppendProperties
    <3>2. at' = "serve" /\ buf' = <<>>
      BY <1>12, <3>1 DEF Return
    <3> QED
      BY <3>2
  <2>2. Len(Visible(Append(p, b))) = (d + 1) * (BufferSize - 1) + Len(buf')
    <3> DEFINE room == BufferSize - 1
    <3>1. (d + 1) * room = d * room + room /\ room \in Nat /\ d * room \in Nat
      BY <1>4
    <3>2. /\ Len(Visible(Append(p, b))) = Len(Visible(p)) + 1
          /\ Len(Visible(p)) = d * room + Len(buf) /\ Len(buf) + 1 = room /\ Len(buf) \in Nat
      BY <1>4, <1>8, <1>12
    <3> HIDE DEF room
    <3>3. PICK all \in Nat : all = d * room
      BY <3>1
    <3>4. Len(Visible(Append(p, b))) = all + room
      BY <3>1, <3>2, <3>3
    <3>5. (d + 1) * room = all + room
      BY <3>1, <3>3
    <3>6. Len(Visible(Append(p, b))) = (d + 1) * room + Len(buf')
      BY <2>1, <3>1, <3>4, <3>5
    <3> QED
      BY <3>6 DEF room
  <2>3. b # "LF" /\ at' # "done" /\ d + 1 \in Nat
    BY <1>4, <1>12, <2>1 DEF Text
  <2> QED
    BY <1>7, <2>2, <2>3
<1> QED
  BY <1>1, <1>9, <1>10, <1>11, <1>12 DEF Taken

LEMMA PlaceNext ==
  ASSUME ReaderTypes, PlaceOK, OnlyEmptyLinesEnd, [ReaderNext]_readerVars
  PROVE  PlaceOK' /\ OnlyEmptyLinesEnd'
<1> USE DEF peerVars
<1>1. CASE peer' # "open"
  BY <1>1 DEF PlaceOK, OnlyEmptyLinesEnd
<1>2. ASSUME NEW line \in Lines, Send(line) PROVE PlaceOK' /\ OnlyEmptyLinesEnd'
  <2>1. /\ peer = "open" /\ sent' = Append(sent, line) /\ whole' = whole + 1
        /\ UNCHANGED <<peer, at, buf, served>>
    BY <1>2 DEF Send
  <2>2. /\ whole \in Nat /\ Len(sent) \in Nat /\ Len(sent') = Len(sent) + 1
        /\ \A k \in 1 .. Len(sent) : sent'[k] = sent[k]
    BY <2>1, AppendProperties DEF ReaderTypes
  <2>3. PlaceOK'
    <3> SUFFICES ASSUME at # "done" PROVE \E n, p, d : InStream(n, p, d)'
      BY <2>1 DEF PlaceOK
    <3>1. PICK n, p, d : InStream(n, p, d)
      BY <2>1 DEF PlaceOK
    <3>2. p \o wire' = Stream(n, <<>>)'
      BY <1>2, <3>1, StreamSent, UnendedAreBytes DEF InStream
    <3>3. InStream(n, p, d)'
      BY <2>1, <2>2, <3>1, <3>2 DEF InStream
    <3> QED
      BY <3>3
  <2>4. OnlyEmptyLinesEnd'
    <3> SUFFICES ASSUME at = "done", ~QuitServed
                 PROVE  \E k \in 1 .. Len(sent') : FillsBuffer(sent'[k])
      BY <2>1 DEF OnlyEmptyLinesEnd, QuitServed, FillsBuffer
    <3>1. PICK k \in 1 .. Len(sent) : FillsBuffer(sent[k])
      BY <2>1 DEF OnlyEmptyLinesEnd
    <3>2. k \in 1 .. Len(sent') /\ sent'[k] = sent[k]
      BY <2>2
    <3> QED
      BY <3>1, <3>2
  <2> QED
    BY <2>3, <2>4
<1>3. ASSUME UNCHANGED <<sent, whole, wire, buf, peer>>, at = "done" => at' = "done",
             at' = "done" => at = "done" \/ QuitServed, UNCHANGED served
      PROVE  PlaceOK' /\ OnlyEmptyLinesEnd'
  <2>1. \A n, p, d : InStream(n, p, d) => InStream(n, p, d)'
    BY <1>3 DEF InStream, Stream, LinesFrom
  <2>2. QuitServed' = QuitServed /\ \A k \in 1 .. Len(sent) : FillsBuffer(sent[k])' = FillsBuffer(sent[k])
    BY <1>3 DEF QuitServed, FillsBuffer
  <2>3. PlaceOK'
    BY <1>3, <2>1 DEF PlaceOK
  <2>4. OnlyEmptyLinesEnd'
    BY <1>3, <2>2 DEF OnlyEmptyLinesEnd
  <2> QED
    BY <2>3, <2>4
<1>4. CASE EndConnection
  BY <1>1, <1>4 DEF EndConnection
<1>5. ASSUME NEW line \in Lines, NEW n \in 0 .. Len(line), SendCut(line, n)
      PROVE  PlaceOK' /\ OnlyEmptyLinesEnd'
  BY <1>1, <1>5 DEF SendCut
<1>6. CASE RecvByte
  <2>1. peer' = peer
    BY <1>6 DEF RecvByte
  <2> QED
    BY <1>1, <1>6, <2>1, PlaceByte
<1>7. CASE RecvEnd \/ RecvError
  BY <1>1, <1>7 DEF RecvEnd, RecvError
<1>8. CASE Serve
  <2>1. at' = "done" => QuitServed
    BY <1>8 DEF Serve, QuitServed, ReaderTypes
  <2> QED
    BY <1>3, <1>8, <2>1 DEF Serve
<1>9. CASE UNCHANGED readerVars
  BY <1>3, <1>9 DEF readerVars
<1> QED
  BY <1>2, <1>4, <1>5, <1>6, <1>7, <1>8, <1>9 DEF ReaderNext, PeerNext, Recv

\* As long as its peer is there and did not quit, the loop of handle_sensor_connection ends
\* only at a line that is empty or fills the buffer of recv_line once or more times.
THEOREM PeersAreLeftAtEmptyLines == ReaderSpec => []OnlyEmptyLinesEnd
<1>1. ReaderInit => PlaceOK /\ OnlyEmptyLinesEnd
  <2> SUFFICES ASSUME ReaderInit PROVE PlaceOK /\ OnlyEmptyLinesEnd
    OBVIOUS
  <2>1. ReaderTypes /\ <<>> \in Seq(Unended) /\ <<>> \in Seq(Bytes) /\ <<>> \o <<>> = <<>>
    BY TypesInit
  <2>2. Stream(whole, <<>>) = <<>>
    BY <2>1, StreamLast
  <2>3. 0 * (BufferSize - 1) + 0 = 0
    BY BufferAssumption
  <2>4. InStream(0, <<>>, 0)
    BY <2>1, <2>2, <2>3, VisibleEmpty DEF ReaderInit, InStream
  <2> QED
    BY <2>4 DEF ReaderInit, PlaceOK, OnlyEmptyLinesEnd
<1>2. ReaderTypes /\ PlaceOK /\ OnlyEmptyLinesEnd /\ [ReaderNext]_readerVars
        => PlaceOK' /\ OnlyEmptyLinesEnd'
  BY PlaceNext
<1> QED
  BY <1>1, <1>2, TypesHold, PTL DEF ReaderSpec
=============================================================================
