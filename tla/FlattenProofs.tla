--------------------------- MODULE FlattenProofs ----------------------------
(***************************************************************************)
(* Lemmas about FlattenSeq, which the models use wherever the code walks a *)
(* list and pushes what each element stands for (replay, the results of a  *)
(* batch), and about what a sequence begins with.  The first are proved by *)
(* induction over the naturals, which is taken from the well-foundedness   *)
(* of < in the form the provers can use: for a set of numbers instead of a *)
(* predicate.                                                              *)
(***************************************************************************)
EXTENDS Integers, Sequences, SequencesExt, SequenceTheorems, WellFoundedInduction, TLAPS

Below == {p \in Nat \X Nat : p[1] < p[2]}

\* A set of numbers that is not empty has a least element.
LEMMA LeastNatural ==
    ASSUME NEW T \in SUBSET Nat, T # {}
    PROVE  \E x \in T : \A y \in T : x <= y
<1>1. IsWellFoundedOn(Below, Nat)
  BY NatLessThanWellFounded DEF OpToRel, Below
<1>2. PICK x \in T : \A y \in T : ~(<<y, x>> \in Below)
  BY <1>1, WFMin
<1>3. \A y \in T : ~(y < x)
  BY <1>2 DEF Below
<1> QED
  BY <1>3

\* Induction: a set with 0 that is closed under + 1 has every number.
LEMMA SetInduction ==
    ASSUME NEW T, 0 \in T, \A n \in Nat : n \in T => n + 1 \in T
    PROVE  \A n \in Nat : n \in T
<1> SUFFICES ASSUME NEW n \in Nat, n \notin T PROVE FALSE
  OBVIOUS
<1> DEFINE C == {m \in Nat : m \notin T}
<1>1. PICK x \in C : \A y \in C : x <= y
  <2>1. C \in SUBSET Nat /\ C # {}
    OBVIOUS
  <2> HIDE DEF C
  <2> QED
    BY <2>1, LeastNatural
<1>2. x \in Nat /\ x # 0
  BY <1>1
<1>3. x - 1 \in T
  BY <1>1, <1>2
<1> QED
  BY <1>1, <1>2, <1>3

-----------------------------------------------------------------------------
\* F is what the recursion in FlattenSeq makes of the first n of ss.
Flattens(F, ss, n) == F = [i \in 1..n |-> IF i = 1 THEN ss[i] ELSE F[i - 1] \o ss[i]]

\* What the recursion says of each step.
LEMMA FlattensAt ==
    ASSUME NEW F, NEW ss, NEW n \in Nat, Flattens(F, ss, n)
    PROVE  \A i \in 1..n : F[i] = IF i = 1 THEN ss[i] ELSE F[i - 1] \o ss[i]
  BY DEF Flattens

\* There is such a function.
LEMMA FlattensExists == \A ss : \A n \in Nat : \E F : Flattens(F, ss, n)
<1> SUFFICES ASSUME NEW ss PROVE \A n \in Nat : \E F : Flattens(F, ss, n)
  OBVIOUS
<1> DEFINE T == {n \in Nat : \E F : Flattens(F, ss, n)}
<1>1. 0 \in T
  <2>1. Flattens([i \in {} |-> i], ss, 0)
    BY DEF Flattens
  <2> QED
    BY <2>1
<1>2. ASSUME NEW n \in Nat, n \in T PROVE n + 1 \in T
  <2>1. PICK F : Flattens(F, ss, n)
    BY <1>2
  <2> DEFINE G == [i \in 1..(n + 1) |-> IF i = n + 1 THEN (IF n = 0 THEN ss[n + 1] ELSE F[n] \o ss[n + 1]) ELSE F[i]]
  <2>2. \A i \in 1..n : F[i] = IF i = 1 THEN ss[i] ELSE F[i - 1] \o ss[i]
    BY <2>1 DEF Flattens
  <2>3. \A i \in 1..n : G[i] = F[i]
    OBVIOUS
  <2>4. ASSUME NEW i \in 1..(n + 1) PROVE G[i] = IF i = 1 THEN ss[i] ELSE G[i - 1] \o ss[i]
    <3>1. CASE i = n + 1 /\ n # 0
      <4>1. i - 1 = n /\ i # 1 /\ n \in 1..n /\ n + 1 \in 1..(n + 1)
        BY <3>1
      <4>2. G[n] = F[n]
        BY <2>3, <4>1
      <4>3. G[n + 1] = F[n] \o ss[n + 1]
        BY <3>1, <4>1
      <4> HIDE DEF G
      <4> QED
        BY <3>1, <4>1, <4>2, <4>3
    <3>2. CASE i = n + 1 /\ n = 0
      BY <3>2
    <3>3. CASE i \in 1..n
      <4>1. i # 1 => i - 1 \in 1..n
        BY <3>3
      <4>2. i # 1 => G[i - 1] = F[i - 1]
        BY <2>3, <4>1
      <4>3. G[i] = F[i]
        BY <2>3, <3>3
      <4> HIDE DEF G
      <4> QED
        BY <2>2, <3>3, <4>2, <4>3
    <3> QED
      BY <3>1, <3>2, <3>3
  <2>5. Flattens(G, ss, n + 1)
    BY <2>4 DEF Flattens
  <2> QED
    BY <2>5
<1> HIDE DEF T
<1>3. \A n \in Nat : n \in T
  BY <1>1, <1>2, SetInduction
<1> QED
  BY <1>3 DEF T

\* The first k values of f and g are the same.
Agree(f, g, k) == \A i \in 1..k : f[i] = g[i]

\* It is determined by the sequences it flattens.
LEMMA FlattensUnique ==
    ASSUME NEW ss, NEW tt, NEW k \in Nat, NEW m \in Nat, k <= m,
           Agree(ss, tt, k), NEW F, NEW G, Flattens(F, ss, k), Flattens(G, tt, m)
    PROVE  Agree(F, G, k)
<1> SUFFICES ASSUME NEW j \in 1..k, F[j] # G[j] PROVE FALSE
  BY DEF Agree
<1> DEFINE C == {i \in 1..k : F[i] # G[i]}
<1>0. /\ \A i \in 1..k : F[i] = IF i = 1 THEN ss[i] ELSE F[i - 1] \o ss[i]
      /\ \A i \in 1..k : G[i] = IF i = 1 THEN tt[i] ELSE G[i - 1] \o tt[i]
  <2>1. \A i \in 1..k : F[i] = IF i = 1 THEN ss[i] ELSE F[i - 1] \o ss[i]
    BY FlattensAt
  <2>2. \A i \in 1..m : G[i] = IF i = 1 THEN tt[i] ELSE G[i - 1] \o tt[i]
    BY FlattensAt
  <2>3. \A i \in 1..k : i \in 1..m
    OBVIOUS
  <2> QED
    BY <2>1, <2>2, <2>3
<1>1. PICK x \in C : \A y \in C : x <= y
  <2>1. C \in SUBSET Nat /\ C # {}
    OBVIOUS
  <2> HIDE DEF C
  <2> QED
    BY <2>1, LeastNatural
<1>2. x \in 1..k /\ F[x] # G[x]
  OBVIOUS
<1>3. x # 1
  BY <1>0, <1>2 DEF Agree
<1>4. x - 1 \in 1..k /\ x - 1 \notin C
  BY <1>1, <1>2, <1>3
<1>5. F[x - 1] = G[x - 1]
  BY <1>4
<1> QED
  BY <1>0, <1>2, <1>3, <1>5 DEF Agree

\* FlattenSeq is the last value of that function.
LEMMA FlattenIs ==
    ASSUME NEW ss, NEW n \in Nat, n = Len(ss), n # 0, NEW F, Flattens(F, ss, n)
    PROVE  FlattenSeq(ss) = F[n]
<1> DEFINE G == CHOOSE f : f = [i \in 1..Len(ss) |-> IF i = 1 THEN ss[i] ELSE f[i - 1] \o ss[i]]
<1>1. FlattenSeq(ss) = G[Len(ss)]
  BY DEF FlattenSeq
<1>2. G = CHOOSE f : Flattens(f, ss, n)
  BY DEF Flattens
<1> HIDE DEF G
<1>3. Flattens(G, ss, n)
  BY <1>2
<1>4. Agree(ss, ss, n)
  BY DEF Agree
<1>5. Agree(F, G, n)
  <2>1. n <= n
    OBVIOUS
  <2> QED
    BY ONLY n \in Nat, Flattens(F, ss, n), <1>3, <1>4, <2>1, FlattensUnique
<1> QED
  BY <1>1, <1>5 DEF Agree

\* Nothing flattens to nothing.
LEMMA FlattenEmpty == FlattenSeq(<<>>) = <<>>
  BY DEF FlattenSeq

\* What is flattened is a sequence again.
LEMMA FlattenType ==
    ASSUME NEW S, NEW ss \in Seq(Seq(S))
    PROVE  FlattenSeq(ss) \in Seq(S)
<1>1. CASE Len(ss) = 0
  <2>1. ss = <<>>
    BY <1>1
  <2>2. FlattenSeq(ss) = <<>>
    BY <2>1, FlattenEmpty
  <2> QED
    BY <2>2
<1>2. CASE Len(ss) # 0
  <2> DEFINE n == Len(ss)
  <2>0. n \in Nat /\ \A i \in 1..n : ss[i] \in Seq(S)
    OBVIOUS
  <2>1. PICK F : Flattens(F, ss, n)
    BY <2>0, FlattensExists
  <2>2. \A i \in 1..n : F[i] = IF i = 1 THEN ss[i] ELSE F[i - 1] \o ss[i]
    BY <2>0, <2>1, FlattensAt
  <2>3. FlattenSeq(ss) = F[n]
    BY <1>2, <2>0, <2>1, FlattenIs
  <2> DEFINE T == {i \in Nat : i \in 1..n => F[i] \in Seq(S)}
  <2> HIDE DEF n
  <2>4. 0 \in T
    OBVIOUS
  <2>5. ASSUME NEW i \in Nat, i \in T PROVE i + 1 \in T
    <3> SUFFICES ASSUME i + 1 \in 1..n PROVE F[i + 1] \in Seq(S)
      OBVIOUS
    <3>1. CASE i = 0
      BY <2>0, <2>2, <3>1
    <3>2. CASE i # 0
      <4>1. i \in 1..n /\ F[i] \in Seq(S) /\ ss[i + 1] \in Seq(S)
        BY <2>0, <2>5, <3>2
      <4>2. F[i + 1] = F[i] \o ss[i + 1]
        <5>1. (i + 1) - 1 = i /\ i + 1 # 1
          BY <3>2
        <5> QED
          BY <2>2, <5>1
      <4> QED
        BY <4>1, <4>2
    <3> QED
      BY <3>1, <3>2
  <2> HIDE DEF T
  <2>6. \A i \in Nat : i \in T
    BY <2>4, <2>5, SetInduction
  <2> QED
    BY <1>2, <2>0, <2>3, <2>6 DEF T, n
<1> QED
  BY <1>1, <1>2

\* One more at the end is flattened last.
LEMMA FlattenAppend ==
    ASSUME NEW S, NEW ss \in Seq(Seq(S)), NEW t \in Seq(S)
    PROVE  FlattenSeq(Append(ss, t)) = FlattenSeq(ss) \o t
<1> DEFINE n  == Len(ss)
           tt == Append(ss, t)
<1>0. /\ n \in Nat /\ Len(tt) = n + 1 /\ tt \in Seq(Seq(S)) /\ tt[n + 1] = t
      /\ \A i \in 1..n : ss[i] = tt[i]
  OBVIOUS
<1>00. n + 1 \in Nat /\ n + 1 # 0 /\ (n + 1) - 1 = n /\ n + 1 \in 1..(n + 1) /\ n <= n /\ n <= n + 1
  BY <1>0
<1> HIDE DEF tt, n
<1>1. PICK G : Flattens(G, tt, n + 1)
  BY <1>00, FlattensExists
<1>2. FlattenSeq(tt) = G[n + 1]
  BY <1>0, <1>00, <1>1, FlattenIs
<1>3. \A i \in 1..(n + 1) : G[i] = IF i = 1 THEN tt[i] ELSE G[i - 1] \o tt[i]
  BY ONLY <1>00, <1>1, FlattensAt
<1>4. CASE n = 0
  <2>1. ss = <<>>
    BY <1>4 DEF n
  <2>2. FlattenSeq(tt) = t
    BY <1>0, <1>2, <1>3, <1>4
  <2> QED
    BY <2>1, <2>2, FlattenEmpty DEF tt
<1>5. CASE n # 0
  <2>1. PICK F : Flattens(F, ss, n)
    BY <1>0, FlattensExists
  <2>2. FlattenSeq(ss) = F[n]
    BY <1>0, <1>5, <2>1, FlattenIs DEF n
  <2>3. Agree(F, G, n)
    <3> PICK m \in Nat : m = n + 1
      BY <1>00
    <3>1. Flattens(G, tt, m) /\ n <= m /\ n <= n /\ n \in Nat
      BY <1>0, <1>00, <1>1
    <3>2. Agree(ss, tt, n)
      BY <1>0 DEF Agree
    <3> QED
      BY ONLY <2>1, <3>1, <3>2, m \in Nat, FlattensUnique
  <2>4. G[n + 1] = G[n] \o tt[n + 1]
    <3>1. n + 1 # 1
      BY <1>0, <1>5
    <3> QED
      BY <1>00, <1>3, <3>1
  <2>5. F[n] = G[n]
    <3>1. n \in 1..n
      BY <1>0, <1>5
    <3> QED
      BY ONLY <2>3, <3>1 DEF Agree
  <2> QED
    BY <1>0, <1>2, <2>2, <2>4, <2>5 DEF tt
<1> QED
  BY <1>4, <1>5

\* Appending to the second of two sequences appends to both.
LEMMA ConcatThenAppend ==
    ASSUME NEW S, NEW s \in Seq(S), NEW t \in Seq(S), NEW e \in S
    PROVE  s \o Append(t, e) = Append(s \o t, e) /\ s \o t \in Seq(S)
  OBVIOUS

\* Concatenation is associative on A.
Associates(A) == \A s \in A, t \in A, u \in A : (s \o t) \o u = s \o (t \o u)

\* It is associative on sequences.
LEMMA SeqAssociates == \A S : Associates(Seq(S))
<1> SUFFICES ASSUME NEW S, NEW s \in Seq(S), NEW t \in Seq(S), NEW u \in Seq(S)
             PROVE  (s \o t) \o u = s \o (t \o u)
  BY DEF Associates
<1> QED
  BY ConcatAssociative

\* Two lists one after the other flatten one after the other.
LEMMA FlattenConcat ==
    ASSUME NEW S, NEW ss \in Seq(Seq(S)), NEW tt \in Seq(Seq(S))
    PROVE  FlattenSeq(ss \o tt) = FlattenSeq(ss) \o FlattenSeq(tt)
<1> DEFINE Q(t) == FlattenSeq(ss \o t) = FlattenSeq(ss) \o FlattenSeq(t)
           T == {n \in Nat : \A t \in Seq(Seq(S)) : Len(t) = n => Q(t)}
<1>1. 0 \in T
  <2> SUFFICES ASSUME NEW t \in Seq(Seq(S)), Len(t) = 0 PROVE Q(t)
    OBVIOUS
  <2>1. t = <<>> /\ ss \o t = ss
    OBVIOUS
  <2>2. FlattenSeq(t) = <<>> /\ FlattenSeq(ss) \in Seq(S)
    BY <2>1, FlattenEmpty, FlattenType
  <2> QED
    BY <2>1, <2>2
<1>2. ASSUME NEW n \in Nat, n \in T PROVE n + 1 \in T
  <2> SUFFICES ASSUME NEW t \in Seq(Seq(S)), Len(t) = n + 1 PROVE Q(t)
    OBVIOUS
  <2>1. PICK f \in Seq(Seq(S)), e \in Seq(S) : t = Append(f, e)
    <3>1. t # <<>>
      OBVIOUS
    <3> QED
      BY <3>1, SequenceEmptyOrAppend
  <2>2. Len(f) = n
    BY <2>1
  <2>3. Q(f)
    BY <1>2, <2>2
  <2>4. ss \o t = Append(ss \o f, e) /\ ss \o f \in Seq(Seq(S))
    BY <2>1, ConcatThenAppend
  <2>5. FlattenSeq(ss \o t) = FlattenSeq(ss \o f) \o e /\ FlattenSeq(t) = FlattenSeq(f) \o e
    BY <2>1, <2>4, FlattenAppend
  <2>6. FlattenSeq(ss) \in Seq(S) /\ FlattenSeq(f) \in Seq(S)
    BY FlattenType
  <2>7. (FlattenSeq(ss) \o FlattenSeq(f)) \o e = FlattenSeq(ss) \o (FlattenSeq(f) \o e)
    <3>1. Associates(Seq(S))
      BY ONLY SeqAssociates, Zenon
    <3> QED
      BY ONLY <2>6, <3>1, Zenon DEF Associates
  <2> QED
    BY <2>3, <2>5, <2>7
<1> HIDE DEF T
<1>3. \A n \in Nat : n \in T
  BY <1>1, <1>2, SetInduction
<1>4. Len(tt) \in Nat
  OBVIOUS
<1>5. Q(tt)
  BY <1>3, <1>4 DEF T
<1> QED
  BY <1>5

\* A list of single elements flattens to those elements.
LEMMA FlattenSingles ==
    ASSUME NEW S, NEW s \in Seq(S)
    PROVE  FlattenSeq([i \in DOMAIN s |-> <<s[i]>>]) = s
<1> DEFINE Single(t) == [i \in DOMAIN t |-> <<t[i]>>]
           T == {n \in Nat : \A t \in Seq(S) : Len(t) = n => FlattenSeq(Single(t)) = t}
<1>1. 0 \in T
  <2> SUFFICES ASSUME NEW t \in Seq(S), Len(t) = 0 PROVE FlattenSeq(Single(t)) = t
    OBVIOUS
  <2>1. t = <<>> /\ Single(t) = <<>>
    OBVIOUS
  <2> QED
    BY <2>1, FlattenEmpty
<1>2. ASSUME NEW n \in Nat, n \in T PROVE n + 1 \in T
  <2> SUFFICES ASSUME NEW t \in Seq(S), Len(t) = n + 1 PROVE FlattenSeq(Single(t)) = t
    OBVIOUS
  <2>1. PICK f \in Seq(S), e \in S : t = Append(f, e)
    <3>1. t # <<>>
      OBVIOUS
    <3> QED
      BY <3>1, SequenceEmptyOrAppend
  <2>2. Len(f) = n
    BY <2>1
  <2>3. FlattenSeq(Single(f)) = f
    BY <1>2, <2>2
  <2>4. Single(f) \in Seq(Seq(S)) /\ <<e>> \in Seq(S)
    <3>1. \A x \in S : <<x>> \in Seq(S)
      OBVIOUS
    <3>2. \A i \in 1..Len(f) : f[i] \in S
      OBVIOUS
    <3>3. Single(f) \in [1..Len(f) -> Seq(S)] /\ Len(f) \in Nat
      BY <3>1, <3>2
    <3> HIDE DEF Single
    <3> QED
      BY <3>1, <3>3
  <2>5. Single(t) = Append(Single(f), <<e>>)
    BY <2>1
  <2> HIDE DEF Single
  <2>6. FlattenSeq(Single(t)) = FlattenSeq(Single(f)) \o <<e>>
    BY <2>4, <2>5, FlattenAppend
  <2> QED
    BY <2>1, <2>3, <2>6
<1> HIDE DEF T
<1>3. \A n \in Nat : n \in T
  BY <1>1, <1>2, SetInduction
<1>4. Len(s) \in Nat
  OBVIOUS
<1> QED
  BY <1>3, <1>4 DEF T

\* A list of empty ones flattens to nothing.
LEMMA FlattenEmpties ==
    ASSUME NEW ss \in Seq({<<>>})
    PROVE  FlattenSeq(ss) = <<>>
<1>1. ss \in Seq(Seq({}))
  <2>1. {<<>>} \subseteq Seq({})
    OBVIOUS
  <2> QED
    BY <2>1, SeqMonotonic
<1>2. FlattenSeq(ss) \in Seq({})
  BY <1>1, FlattenType
<1> QED
  BY <1>2

-----------------------------------------------------------------------------
\* A function on 1..n is a sequence of that length.
LEMMA FunctionIsSeq ==
    ASSUME NEW S, NEW n \in Nat, NEW f \in [1..n -> S]
    PROVE  f \in Seq(S) /\ Len(f) = n
  OBVIOUS

\* What F makes of each element of s, and that one after the other.
Images(F, s) == [i \in DOMAIN s |-> F[s[i]]]
FlatMap(F, s) == FlattenSeq(Images(F, s))

\* The list it flattens is a list of sequences.
LEMMA ImagesType ==
    ASSUME NEW A, NEW S, NEW F \in [A -> Seq(S)], NEW s \in Seq(A)
    PROVE  Images(F, s) \in Seq(Seq(S))
<1>1. \A i \in 1..Len(s) : s[i] \in A
  OBVIOUS
<1>2. Images(F, s) \in [1..Len(s) -> Seq(S)] /\ Len(s) \in Nat
  BY <1>1 DEF Images
<1> QED
  BY ONLY <1>2, FunctionIsSeq

\* The list is as long as s.
LEMMA ImagesLen ==
    ASSUME NEW A, NEW F, NEW s \in Seq(A)
    PROVE  Len(Images(F, s)) = Len(s)
  BY DEF Images

\* What is made is a sequence.
LEMMA FlatMapType ==
    ASSUME NEW A, NEW S, NEW F \in [A -> Seq(S)], NEW s \in Seq(A)
    PROVE  FlatMap(F, s) \in Seq(S)
<1>1. Images(F, s) \in Seq(Seq(S))
  BY ImagesType
<1> QED
  BY ONLY <1>1, FlattenType DEF FlatMap

\* Nothing is made of nothing.
LEMMA FlatMapEmpty == \A F : FlatMap(F, <<>>) = <<>>
<1> SUFFICES ASSUME NEW F PROVE FlatMap(F, <<>>) = <<>>
  OBVIOUS
<1>1. Images(F, <<>>) = <<>>
  BY DEF Images
<1> QED
  BY <1>1, FlattenEmpty DEF FlatMap

\* Of one more element at the end, F of it is made last.
LEMMA FlatMapAppend ==
    ASSUME NEW A, NEW S, NEW F \in [A -> Seq(S)], NEW s \in Seq(A), NEW x \in A
    PROVE  FlatMap(F, Append(s, x)) = FlatMap(F, s) \o F[x]
<1>1. Images(F, s) \in Seq(Seq(S)) /\ Len(Images(F, s)) = Len(s)
  BY ImagesType, ImagesLen
<1>2. F[x] \in Seq(S)
  OBVIOUS
<1>3. Images(F, Append(s, x)) = Append(Images(F, s), F[x])
  <2>1. Append(s, x) \in Seq(A) /\ Len(Append(s, x)) = Len(s) + 1 /\ Len(s) \in Nat
    OBVIOUS
  <2>2. Images(F, Append(s, x)) \in Seq(Seq(S)) /\ Len(Images(F, Append(s, x))) = Len(s) + 1
    <3>1. PICK u \in Seq(A) : u = Append(s, x)
      BY <2>1
    <3>2. Images(F, u) \in Seq(Seq(S)) /\ Len(Images(F, u)) = Len(u)
      BY ImagesType, ImagesLen
    <3> QED
      BY <2>1, <3>1, <3>2
  <2>3. \A i \in 1..Len(s) : Images(F, Append(s, x))[i] = Images(F, s)[i]
    BY DEF Images
  <2>4. Images(F, Append(s, x))[Len(s) + 1] = F[x]
    BY DEF Images
  <2>5. Append(Images(F, s), F[x]) \in Seq(Seq(S)) /\ Len(Append(Images(F, s), F[x])) = Len(s) + 1
    BY <1>1, <1>2
  <2>6. \A i \in 1..(Len(s) + 1) : Images(F, Append(s, x))[i] = Append(Images(F, s), F[x])[i]
    <3>1. PICK a \in Seq(Seq(S)), y \in Seq(S) : a = Images(F, s) /\ y = F[x]
      BY <1>1, <1>2
    <3>2. \A i \in 1..Len(a) : Append(a, y)[i] = a[i]
      OBVIOUS
    <3>3. Append(a, y)[Len(a) + 1] = y
      OBVIOUS
    <3> QED
      BY <1>1, <2>1, <2>3, <2>4, <3>1, <3>2, <3>3
  <2> QED
    BY <2>2, <2>5, <2>6, SeqEqual
<1>4. FlattenSeq(Append(Images(F, s), F[x])) = FlattenSeq(Images(F, s)) \o F[x]
  BY ONLY <1>1, <1>2, FlattenAppend
<1> QED
  BY <1>3, <1>4 DEF FlatMap

\* Of one element, F of it is made.
LEMMA FlatMapOne ==
    ASSUME NEW A, NEW S, NEW F \in [A -> Seq(S)], NEW x \in A
    PROVE  FlatMap(F, <<x>>) = F[x]
<1>1. <<>> \in Seq(A) /\ <<x>> = Append(<<>>, x)
  OBVIOUS
<1>2. FlatMap(F, Append(<<>>, x)) = FlatMap(F, <<>>) \o F[x]
  BY ONLY <1>1, F \in [A -> Seq(S)], x \in A, FlatMapAppend
<1>3. F[x] \in Seq(S)
  OBVIOUS
<1>4. FlatMap(F, <<>>) = <<>>
  BY FlatMapEmpty
<1>5. <<>> \o F[x] = F[x]
  BY <1>3
<1> QED
  BY ONLY <1>1, <1>2, <1>4, <1>5

\* Of two sequences one after the other, it is made one after the other.
LEMMA FlatMapConcat ==
    ASSUME NEW A, NEW S, NEW F \in [A -> Seq(S)], NEW s \in Seq(A), NEW t \in Seq(A)
    PROVE  FlatMap(F, s \o t) = FlatMap(F, s) \o FlatMap(F, t)
<1> DEFINE Q(u) == FlatMap(F, s \o u) = FlatMap(F, s) \o FlatMap(F, u)
           T == {n \in Nat : \A u \in Seq(A) : Len(u) = n => Q(u)}
<1>1. 0 \in T
  <2> SUFFICES ASSUME NEW u \in Seq(A), Len(u) = 0 PROVE Q(u)
    OBVIOUS
  <2>1. u = <<>> /\ s \o u = s
    OBVIOUS
  <2>2. FlatMap(F, u) = <<>> /\ FlatMap(F, s) \in Seq(S)
    BY <2>1, FlatMapEmpty, FlatMapType
  <2> QED
    BY <2>1, <2>2
<1>2. ASSUME NEW n \in Nat, n \in T PROVE n + 1 \in T
  <2> SUFFICES ASSUME NEW u \in Seq(A), Len(u) = n + 1 PROVE Q(u)
    OBVIOUS
  <2>1. PICK f \in Seq(A), e \in A : u = Append(f, e)
    <3>1. u # <<>>
      OBVIOUS
    <3> QED
      BY <3>1, SequenceEmptyOrAppend
  <2>2. Len(f) = n
    BY <2>1
  <2>3. Q(f)
    BY <1>2, <2>2
  <2>4. s \o u = Append(s \o f, e) /\ s \o f \in Seq(A)
    BY <2>1, ConcatThenAppend
  <2>5. FlatMap(F, s \o u) = FlatMap(F, s \o f) \o F[e]
    BY ONLY <2>4, F \in [A -> Seq(S)], e \in A, FlatMapAppend
  <2>6. FlatMap(F, u) = FlatMap(F, f) \o F[e]
    BY ONLY <2>1, f \in Seq(A), F \in [A -> Seq(S)], e \in A, FlatMapAppend
  <2>7. FlatMap(F, s) \in Seq(S) /\ FlatMap(F, f) \in Seq(S) /\ F[e] \in Seq(S)
    BY FlatMapType
  <2>8. (FlatMap(F, s) \o FlatMap(F, f)) \o F[e] = FlatMap(F, s) \o (FlatMap(F, f) \o F[e])
    <3>1. Associates(Seq(S))
      BY ONLY SeqAssociates, Zenon
    <3> QED
      BY ONLY <2>7, <3>1, Zenon DEF Associates
  <2> QED
    BY <2>3, <2>5, <2>6, <2>8
<1> HIDE DEF T
<1>3. \A n \in Nat : n \in T
  BY <1>1, <1>2, SetInduction
<1>4. Len(t) \in Nat
  OBVIOUS
<1>5. Q(t)
  BY <1>3, <1>4 DEF T
<1> QED
  BY <1>5

\* v is one of the elements of s.
IsIn(v, s) == \E i \in 1..Len(s) : s[i] = v

\* What is in the first of two sequences or in the second is in both together.
LEMMA InConcat ==
    ASSUME NEW S, NEW s \in Seq(S), NEW t \in Seq(S), NEW v, IsIn(v, s) \/ IsIn(v, t)
    PROVE  IsIn(v, s \o t)
<1>1. CASE IsIn(v, s)
  <2>1. PICK i \in 1..Len(s) : s[i] = v
    BY <1>1 DEF IsIn
  <2>2. i \in 1..Len(s \o t) /\ (s \o t)[i] = v
    BY <2>1
  <2> QED
    BY <2>2 DEF IsIn
<1>2. CASE IsIn(v, t)
  <2>1. PICK i \in 1..Len(t) : t[i] = v
    BY <1>2 DEF IsIn
  <2>2. i + Len(s) \in 1..Len(s \o t) /\ (s \o t)[i + Len(s)] = v
    BY <2>1
  <2> QED
    BY <2>2 DEF IsIn
<1> QED
  BY <1>1, <1>2

\* What is in F of an element is in all that is made.
LEMMA FlatMapHas ==
    ASSUME NEW A, NEW S, NEW F \in [A -> Seq(S)], NEW s \in Seq(A),
           NEW i \in 1..Len(s), NEW v, IsIn(v, F[s[i]])
    PROVE  IsIn(v, FlatMap(F, s))
<1> DEFINE T == {n \in Nat : \A u \in Seq(A) : Len(u) = n =>
                    \A j \in 1..Len(u) : IsIn(v, F[u[j]]) => IsIn(v, FlatMap(F, u))}
<1>1. 0 \in T
  OBVIOUS
<1>2. ASSUME NEW n \in Nat, n \in T PROVE n + 1 \in T
  <2> SUFFICES ASSUME NEW u \in Seq(A), Len(u) = n + 1, NEW j \in 1..Len(u), IsIn(v, F[u[j]])
               PROVE  IsIn(v, FlatMap(F, u))
    OBVIOUS
  <2>1. PICK f \in Seq(A), e \in A : u = Append(f, e)
    <3>1. u # <<>>
      OBVIOUS
    <3> QED
      BY <3>1, SequenceEmptyOrAppend
  <2>2. Len(f) = n
    BY <2>1
  <2>3. FlatMap(F, u) = FlatMap(F, f) \o F[e]
    BY ONLY <2>1, f \in Seq(A), F \in [A -> Seq(S)], e \in A, FlatMapAppend
  <2>4. FlatMap(F, f) \in Seq(S) /\ F[e] \in Seq(S)
    BY FlatMapType
  <2>5. IsIn(v, FlatMap(F, f)) \/ IsIn(v, F[e])
    <3>1. CASE j = n + 1
      <4>1. u[j] = e
        BY <2>1, <2>2, <3>1
      <4> QED
        BY <4>1
    <3>2. CASE j # n + 1
      <4>1. j \in 1..Len(f) /\ u[j] = f[j]
        BY <2>1, <2>2, <3>2
      <4> QED
        BY <1>2, <2>2, <4>1
    <3> QED
      BY <3>1, <3>2
  <2> QED
    BY ONLY <2>3, <2>4, <2>5, InConcat
<1> HIDE DEF T
<1>3. \A n \in Nat : n \in T
  BY <1>1, <1>2, SetInduction
<1>4. Len(s) \in Nat
  OBVIOUS
<1> QED
  BY <1>3, <1>4 DEF T

\* What is first and what follows.
LEMMA HeadTail ==
    ASSUME NEW S, NEW s \in Seq(S), s # <<>>
    PROVE  /\ Head(s) \in S /\ Tail(s) \in Seq(S) /\ s = <<Head(s)>> \o Tail(s)
           /\ Len(Tail(s)) = Len(s) - 1 /\ Len(s) \in Nat \ {0} /\ Head(s) = s[1]
           /\ \A i \in 1..(Len(s) - 1) : Tail(s)[i] = s[i + 1]
<1>1. Head(s) \in S /\ Tail(s) \in Seq(S)
  OBVIOUS
<1>2. /\ Len(Tail(s)) = Len(s) - 1 /\ Len(s) \in Nat \ {0} /\ Head(s) = s[1]
      /\ \A i \in 1..(Len(s) - 1) : Tail(s)[i] = s[i + 1]
  OBVIOUS
<1>3. s = <<Head(s)>> \o Tail(s)
  OBVIOUS
<1> QED
  BY <1>1, <1>2, <1>3

\* Only the empty sequence has no element.
LEMMA EmptyIff == ASSUME NEW S, NEW s \in Seq(S) PROVE s = <<>> <=> Len(s) = 0
  OBVIOUS

\* A beginning stays one when more is added.
LEMMA PrefixConcat ==
    ASSUME NEW S, NEW s \in Seq(S), NEW t \in Seq(S), NEW u \in Seq(S), IsPrefix(s, t)
    PROVE  IsPrefix(s, t \o u)
<1>0. Len(s) \in Nat /\ Len(t) \in Nat /\ Len(u) \in Nat /\ Len(s) <= Len(t)
  BY DEF IsPrefix
<1>1. Len(t \o u) = Len(t) + Len(u)
  BY ConcatProperties
<1>2. SubSeq(t \o u, 1, Len(s)) = SubSeq(t, 1, Len(s))
  <2>1. CASE Len(s) = 0
    <3>1. SubSeq(t \o u, 1, 0) = <<>> /\ SubSeq(t, 1, 0) = <<>>
      BY SubSeqEmpty
    <3> QED
      BY <2>1, <3>1
  <2>2. CASE Len(s) # 0
    <3>1. 1 \in 1..Len(t) /\ Len(s) \in 1..Len(t)
      BY <1>0, <2>2
    <3> QED
      BY <3>1, SubSeqOfConcat1
  <2> QED
    BY <2>1, <2>2
<1> QED
  BY <1>0, <1>1, <1>2 DEF IsPrefix

\* Everything is a beginning of itself.
LEMMA PrefixSelf == ASSUME NEW S, NEW s \in Seq(S) PROVE IsPrefix(s, s)
  BY DEF IsPrefix

\* A beginning of a beginning is one.
LEMMA PrefixTrans ==
    ASSUME NEW S, NEW s \in Seq(S), NEW t \in Seq(S), NEW u \in Seq(S), IsPrefix(s, t), IsPrefix(t, u)
    PROVE  IsPrefix(s, u)
<1>1. \A v, w \in Seq(S) : IsPrefix(v, w) <=> Len(v) <= Len(w) /\ \A i \in 1..Len(v) : v[i] = w[i]
  BY DEF IsPrefix
<1> QED
  BY <1>1

\* Sequences joined in another order are the same.
LEMMA ConcatThrice ==
    ASSUME NEW S, NEW s \in Seq(S), NEW t \in Seq(S), NEW u \in Seq(S)
    PROVE  (s \o t) \o u = s \o (t \o u)
<1>1. Associates(Seq(S))
  BY ONLY SeqAssociates, Zenon
<1> QED
  BY <1>1, Zenon DEF Associates

\* An element added to the second of two.
LEMMA ConcatAppend ==
    ASSUME NEW S, NEW s \in Seq(S), NEW u \in Seq(S), NEW e \in S
    PROVE  s \o Append(u, e) = Append(s \o u, e)
<1>1. <<e>> \in Seq(S)
  OBVIOUS
<1>2. s \o u \in Seq(S) /\ Append(u, e) = u \o <<e>>
  BY AppendIsConcat, ConcatProperties
<1>3. Append(s \o u, e) = (s \o u) \o <<e>>
  BY <1>2, AppendIsConcat
<1>4. (s \o u) \o <<e>> = s \o (u \o <<e>>)
  BY <1>1, ConcatThrice
<1> QED
  BY ONLY <1>2, <1>3, <1>4

\* The first element of the second moved to the first.
LEMMA ConcatShift ==
    ASSUME NEW S, NEW s \in Seq(S), NEW u \in Seq(S), u # <<>>
    PROVE  s \o u = (s \o <<Head(u)>>) \o Tail(u)
<1>1. PICK e \in S : e = Head(u)
  BY HeadTail
<1>2. PICK v \in Seq(S), w \in Seq(S) : v = <<e>> /\ w = Tail(u)
  <2>1. <<e>> \in Seq(S) /\ Tail(u) \in Seq(S)
    BY HeadTail
  <2> QED
    BY <2>1
<1>3. u = v \o w
  BY <1>1, <1>2
<1>4. (s \o v) \o w = s \o (v \o w)
  BY ConcatThrice
<1> QED
  BY ONLY <1>1, <1>2, <1>3, <1>4
=============================================================================
