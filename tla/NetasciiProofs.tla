--------------------------- MODULE NetasciiProofs ---------------------------
(***************************************************************************)
(* Proofs about NetasciiStream for every file, block size, window size and *)
(* chunk size.                                                             *)
(*                                                                         *)
(* Both conversions, the decoded text and what a client gets are           *)
(* concatenations of pieces, one for each byte or for each read.  A proof  *)
(* by induction over a file is one over the set of numbers for which the   *)
(* claim holds (BoundedInduction), so that no operator is a parameter.     *)
(***************************************************************************)
EXTENDS NetasciiStream, SequenceTheorems, FiniteSetTheorems, TLAPS

---------------------------------------------------------------------------
(* Induction. *)

\* A set that has 0, and with a number below n the next one, has every number up to n.
LEMMA BoundedInduction ==
  ASSUME NEW n \in Nat, NEW S, 0 \in S, \A i \in 0..(n - 1) : i \in S => (i + 1) \in S
  PROVE  \A i \in 0..n : i \in S
<1> SUFFICES ASSUME NEW c \in 0..n, c \notin S PROVE FALSE
  OBVIOUS
<1> DEFINE R == StrictSubsetOrdering(0..n)
           T == {0..i : i \in (0..n) \ S}
<1>1. IsWellFoundedOn(R, SUBSET (0..n))
  <2>1. IsFiniteSet(0..n)
    BY FS_Interval
  <2>2. QED
    BY <2>1, FS_FiniteSubsetsOfFinite, FS_StrictSubsetOrderingWellFounded
<1>2. T \subseteq SUBSET (0..n) /\ T # {}
  <2>1. ASSUME NEW i \in (0..n) \ S PROVE 0..i \in SUBSET (0..n)
    OBVIOUS
  <2>2. 0..c \in T
    OBVIOUS
  <2>3. QED
    BY <2>1, <2>2
<1>3. PICK U \in T : \A V \in T : <<V, U>> \notin R
  <2> HIDE DEF R, T
  <2>1. QED
    BY <1>1, <1>2, WFMin
<1>4. PICK i \in (0..n) \ S : U = 0..i
  BY <1>3
<1>5. i # 0 /\ i - 1 \in 0..(n - 1) /\ (i - 1) + 1 = i
  OBVIOUS
<1>6. i - 1 \notin S
  BY <1>5
<1>7. 0..(i - 1) \in T /\ 0..(i - 1) \in SUBSET (0..n) /\ 0..i \in SUBSET (0..n)
  BY <1>5, <1>6
<1>8. 0..(i - 1) \subseteq 0..i /\ 0..(i - 1) # 0..i
  <2>1. i \in 0..i /\ i \notin 0..(i - 1)
    BY <1>5
  <2>2. QED
    BY <1>5, <2>1
<1>9. <<0..(i - 1), 0..i>> \in R
  BY <1>7, <1>8 DEF StrictSubsetOrdering
<1>10. QED
  BY <1>3, <1>4, <1>7, <1>9

\* A set of positive numbers that is not empty has a least one.
LEMMA LeastExists ==
  ASSUME NEW n \in Nat, NEW S, S \subseteq 1..n, S # {}
  PROVE  \E i \in S : \A j \in S : i <= j
<1> SUFFICES ASSUME \A i \in S : \E j \in S : ~(i <= j) PROVE FALSE
  OBVIOUS
<1> DEFINE T == {i \in 0..n : \A j \in S : j > i}
<1>1. 0 \in T
  OBVIOUS
<1>2. ASSUME NEW i \in 0..(n - 1), i \in T PROVE (i + 1) \in T
  <2>1. (i + 1) \notin S
    <3>1. SUFFICES ASSUME (i + 1) \in S PROVE FALSE
      OBVIOUS
    <3>2. PICK j \in S : ~(i + 1 <= j)
      BY <3>1
    <3>3. j > i /\ j \in Nat
      BY <1>2
    <3>4. QED
      BY <3>2, <3>3
  <2>2. \A j \in S : j > i + 1
    BY <1>2, <2>1
  <2>3. QED
    BY <2>2
<1> HIDE DEF T
<1>3. n \in T
  BY <1>1, <1>2, BoundedInduction
<1>4. PICK j \in S : TRUE
  OBVIOUS
<1>5. j > n /\ j \in 1..n
  BY <1>3 DEF T
<1>6. QED
  BY <1>5

---------------------------------------------------------------------------
(* Sequences. *)

\* A sequence made of the elements of a set.
LEMMA MadeSeq ==
  ASSUME NEW S, NEW n \in Nat, NEW f, DOMAIN f = 1..n, f = [i \in 1..n |-> f[i]],
         \A i \in 1..n : f[i] \in S
  PROVE  f \in Seq(S) /\ Len(f) = n
  OBVIOUS

\* The first elements of a sequence, one more at a time.
LEMMA PrefixStep ==
  ASSUME NEW S, NEW s \in Seq(S), NEW i \in 1..Len(s)
  PROVE  SubSeq(s, 1, i) = Append(SubSeq(s, 1, i - 1), s[i])
<1>1. SubSeq(s, 1, i) = SubSeq(s, 1, i - 1) \o <<s[i]>>
  BY LenProperties, SubSeqRecursiveSecond
<1>2. SubSeq(s, 1, i - 1) \in Seq(S) /\ s[i] \in S
  BY LenProperties, SubSeqProperties, ElementOfSeq
<1>3. QED
  BY <1>1, <1>2, AppendIsConcat

\* The beginning of a sequence is a sequence.
LEMMA PrefixProperties ==
  ASSUME NEW S, NEW s \in Seq(S), NEW i \in 0..Len(s)
  PROVE  /\ SubSeq(s, 1, i) \in Seq(S)
         /\ Len(SubSeq(s, 1, i)) = i
         /\ \A j \in 1..i : SubSeq(s, 1, i)[j] = s[j]
<1>1. i \in Nat /\ \A j \in 1..i : s[j] \in S
  BY LenProperties, ElementOfSeq
<1>2. QED
  BY <1>1, SubSeqProperties

---------------------------------------------------------------------------
(* FlattenSeq. *)

\* What the recursive function in FlattenSeq(s) satisfies.
Flattens(s, f) == f = [i \in 1..Len(s) |-> IF i = 1 THEN s[i] ELSE f[i - 1] \o s[i]]

\* There is such a function.
LEMMA FlattensExists ==
  ASSUME NEW S, NEW s \in Seq(Seq(S)), s # <<>>
  PROVE  \E f \in [1..Len(s) -> Seq(S)] : Flattens(s, f)
<1> DEFINE n == Len(s)
           Upto(m, f) == \A i \in 1..m : f[i] = IF i = 1 THEN s[i] ELSE f[i - 1] \o s[i]
           T == {m \in 0..n : m = 0 \/ \E f \in [1..m -> Seq(S)] : Upto(m, f)}
<1>1. n \in Nat /\ n # 0 /\ \A i \in 1..n : s[i] \in Seq(S)
  BY LenProperties, EmptySeq, ElementOfSeq
<1> HIDE DEF n
<1>2. 0 \in T
  BY <1>1
<1>3. ASSUME NEW m \in 0..(n - 1), m \in T PROVE (m + 1) \in T
  <2>1. CASE m = 0
    <3> DEFINE g == [i \in 1..1 |-> s[1]]
    <3>1. g \in [1..1 -> Seq(S)] /\ Upto(1, g)
      BY <1>1, <2>1
    <3>2. m + 1 = 1 /\ 1 \in 0..n
      BY <1>1, <2>1
    <3>3. \E f \in [1..1 -> Seq(S)] : Upto(1, f)
      BY <3>1
    <3> HIDE DEF g, Upto
    <3>4. QED
      BY <3>2, <3>3
  <2>2. CASE m # 0
    <3>1. PICK f \in [1..m -> Seq(S)] : Upto(m, f)
      BY <1>3, <2>2
    <3> DEFINE g == [i \in 1..(m + 1) |-> IF i <= m THEN f[i] ELSE f[m] \o s[m + 1]]
    <3>2. f[m] \o s[m + 1] \in Seq(S)
      BY <1>1, <2>2, ConcatProperties
    <3>3. g \in [1..(m + 1) -> Seq(S)]
      BY <3>2
    <3>4. g[m + 1] = f[m] \o s[m + 1] /\ \A i \in 1..m : g[i] = f[i]
      <4>1. m + 1 \in 1..(m + 1) /\ ~(m + 1 <= m)
        OBVIOUS
      <4>2. \A i \in 1..m : i \in 1..(m + 1) /\ i <= m
        OBVIOUS
      <4>3. QED
        BY Zenon, <4>1, <4>2
    <3> HIDE DEF g
    <3>5. ASSUME NEW i \in 1..(m + 1) PROVE g[i] = IF i = 1 THEN s[i] ELSE g[i - 1] \o s[i]
      <4>1. CASE i = m + 1
        <5>1. i - 1 = m /\ m \in 1..m /\ i # 1
          BY <2>2, <4>1
        <5>2. QED
          BY <3>4, <4>1, <5>1
      <4>2. CASE i = 1
        <5>1. 1 \in 1..m
          BY <2>2
        <5>2. f[1] = s[1]
          BY <3>1, <5>1
        <5>3. QED
          BY <3>4, <4>2, <5>1, <5>2
      <4>3. CASE i # 1 /\ i # m + 1
        <5>1. i \in 1..m /\ i - 1 \in 1..m
          BY <4>3
        <5>2. QED
          BY <3>1, <3>4, <4>3, <5>1
      <4>4. QED
        BY <4>1, <4>2, <4>3
    <3>6. Upto(m + 1, g)
      BY <3>5
    <3>7. \E h \in [1..(m + 1) -> Seq(S)] : Upto(m + 1, h)
      BY <3>3, <3>6
    <3> HIDE DEF Upto
    <3>8. QED
      BY <1>1, <3>7
  <2>3. QED
    BY <2>1, <2>2
<1>4. \A i \in 0..n : i \in T
  <2> HIDE DEF T
  <2>1. QED
    BY <1>1, <1>2, <1>3, BoundedInduction
<1>5. PICK f \in [1..n -> Seq(S)] : Upto(n, f)
  <2> HIDE DEF Upto
  <2>1. n \in 0..n
    BY <1>1
  <2>2. QED
    BY <1>1, <1>4, <2>1
<1>6. Flattens(s, f)
  BY <1>1, <1>5 DEF Flattens, n
<1>7. QED
  BY <1>5, <1>6 DEF n

\* Two sequences have the same first n elements.
SameUpto(n, s, t) ==
  /\ Len(s) \in Nat /\ Len(t) \in Nat /\ n <= Len(s) /\ n <= Len(t)
  /\ \A i \in 1..n : s[i] = t[i]

\* Two such functions agree as far as their sequences do.
LEMMA FlattensAgree ==
  ASSUME NEW n \in Nat, NEW s, NEW t, NEW f, NEW g, SameUpto(n, s, t),
         Flattens(s, f), Flattens(t, g)
  PROVE  \A i \in 1..n : f[i] = g[i]
<1> USE DEF SameUpto
<1> DEFINE T == {i \in 0..n : i = 0 \/ f[i] = g[i]}
<1>1. 0 \in T
  OBVIOUS
<1>2. ASSUME NEW i \in 0..(n - 1), i \in T PROVE (i + 1) \in T
  <2>1. /\ f[i + 1] = IF i + 1 = 1 THEN s[i + 1] ELSE f[(i + 1) - 1] \o s[i + 1]
        /\ g[i + 1] = IF i + 1 = 1 THEN t[i + 1] ELSE g[(i + 1) - 1] \o t[i + 1]
    BY i + 1 \in 1..Len(s), i + 1 \in 1..Len(t) DEF Flattens
  <2>2. (i + 1) - 1 = i /\ s[i + 1] = t[i + 1]
    OBVIOUS
  <2>3. QED
    BY <1>2, <2>1, <2>2
<1>3. \A i \in 0..n : i \in T
  <2> HIDE DEF T
  <2>1. QED
    BY <1>1, <1>2, BoundedInduction
<1>4. QED
  BY <1>3

\* What FlattenSeq is.
LEMMA FlattenValue ==
  ASSUME NEW S, NEW s \in Seq(Seq(S)), s # <<>>
  PROVE  \E f : Flattens(s, f) /\ FlattenSeq(s) = f[Len(s)] /\ f \in [1..Len(s) -> Seq(S)]
<1>1. PICK f \in [1..Len(s) -> Seq(S)] : Flattens(s, f)
  BY FlattensExists
<1>2. Len(s) \in Nat /\ Len(s) # 0
  BY LenProperties, EmptySeq
<1>3. PICK g : Flattens(s, g) /\ FlattenSeq(s) = g[Len(s)]
  BY <1>1, <1>2 DEF FlattenSeq, Flattens
<1>4. \A i \in 1..Len(s) : g[i] = f[i]
  BY <1>1, <1>2, <1>3, SameUpto(Len(s), s, s), FlattensAgree DEF SameUpto
<1>5. QED
  BY <1>1, <1>2, <1>3, <1>4

\* Nothing in pieces is nothing.
LEMMA FlattenEmpty == FlattenSeq(<<>>) = <<>>
  BY Len(<<>>) = 0 DEF FlattenSeq

\* The pieces of a sequence over S make one.
LEMMA FlattenType ==
  ASSUME NEW S, NEW s \in Seq(Seq(S))
  PROVE  FlattenSeq(s) \in Seq(S)
<1>1. CASE s = <<>>
  BY <1>1, FlattenEmpty, EmptySeq
<1>2. CASE s # <<>>
  <2>1. Len(s) \in Nat /\ Len(s) # 0
    BY <1>2, LenProperties, EmptySeq
  <2>2. PICK f : FlattenSeq(s) = f[Len(s)] /\ f \in [1..Len(s) -> Seq(S)]
    BY <1>2, FlattenValue
  <2>3. Len(s) \in 1..Len(s)
    BY <2>1
  <2>4. QED
    BY <2>2, <2>3
<1>3. QED
  BY <1>1, <1>2

\* One more piece.
LEMMA FlattenAppend ==
  ASSUME NEW S, NEW s \in Seq(Seq(S)), NEW x \in Seq(S)
  PROVE  FlattenSeq(Append(s, x)) = FlattenSeq(s) \o x
<1> DEFINE t == Append(s, x)
           n == Len(s)
<1>1. /\ t \in Seq(Seq(S)) /\ t # <<>> /\ n \in Nat /\ Len(t) = n + 1
      /\ \A i \in 1..n : t[i] = s[i]
      /\ t[n + 1] = x
  BY LenProperties, AppendProperties
<1> HIDE DEF t
<1>2. PICK g : Flattens(t, g) /\ FlattenSeq(t) = g[n + 1]
  BY <1>1, FlattenValue
<1>3. g[n + 1] = IF n + 1 = 1 THEN t[n + 1] ELSE g[(n + 1) - 1] \o t[n + 1]
  BY <1>1, <1>2, n + 1 \in 1..(n + 1) DEF Flattens
<1>4. CASE s = <<>>
  <2>1. n = 0
    BY <1>4
  <2>2. FlattenSeq(t) = x
    BY <1>1, <1>2, <1>3, <2>1
  <2>3. FlattenSeq(s) \o x = x
    BY <1>4, FlattenEmpty, ConcatEmptySeq
  <2>4. QED
    BY <2>2, <2>3 DEF t
<1>5. CASE s # <<>>
  <2>1. n # 0 /\ (n + 1) - 1 = n
    BY <1>1, <1>5, EmptySeq
  <2>2. PICK f : Flattens(s, f) /\ FlattenSeq(s) = f[n]
    BY <1>5, FlattenValue
  <2>3. \A i \in 1..n : g[i] = f[i]
    <3>1. SameUpto(n, t, s)
      BY <1>1 DEF SameUpto
    <3>2. QED
      BY <1>1, <1>2, <2>2, <3>1, FlattensAgree
  <2>4. FlattenSeq(t) = f[n] \o x
    <3>1. n + 1 # 1 /\ n \in 1..n
      BY <1>1, <2>1
    <3>2. QED
      BY <1>1, <1>2, <1>3, <2>1, <2>3, <3>1
  <2>5. QED
    BY <2>2, <2>4 DEF t
<1>6. QED
  BY <1>4, <1>5

\* Concatenation under a name that the provers need not expand.
Cat(s, t) == s \o t

\* Concatenation is associative.
LEMMA CatAssociativeIn ==
  ASSUME NEW S, NEW g \in Seq(S), NEW d \in Seq(S), NEW x \in Seq(S)
  PROVE  Cat(g, d) \in Seq(S) /\ Cat(Cat(g, d), x) = Cat(g, Cat(d, x))
  BY ConcatAssociative, ConcatProperties DEF Cat

\* Concatenation of bytes is associative.
LEMMA CatAssociative ==
  ASSUME NEW g \in Seq(Bytes), NEW d \in Seq(Bytes), NEW x \in Seq(Bytes)
  PROVE  Cat(g, d) \in Seq(Bytes) /\ Cat(Cat(g, d), x) = Cat(g, Cat(d, x))
  BY CatAssociativeIn

\* Two lists of pieces, one after the other.
LEMMA FlattenConcat ==
  ASSUME NEW S, NEW s \in Seq(Seq(S)), NEW t \in Seq(Seq(S))
  PROVE  FlattenSeq(s \o t) = FlattenSeq(s) \o FlattenSeq(t)
<1> DEFINE n == Len(t)
           u(i) == SubSeq(t, 1, i)
           T == {i \in 0..n : FlattenSeq(s \o u(i)) = FlattenSeq(s) \o FlattenSeq(u(i))}
<1>1. n \in Nat /\ FlattenSeq(s) \in Seq(S) /\ \A i \in 1..n : t[i] \in Seq(S)
  BY LenProperties, ElementOfSeq, FlattenType
<1>2. 0 \in T
  <2>1. u(0) = <<>>
    BY SubSeqEmpty
  <2>2. FlattenSeq(s \o <<>>) = FlattenSeq(s) \o FlattenSeq(<<>>)
    BY <1>1, FlattenEmpty, ConcatEmptySeq
  <2> HIDE DEF u, n
  <2>3. FlattenSeq(s \o u(0)) = FlattenSeq(s) \o FlattenSeq(u(0))
    BY <2>1, <2>2
  <2>4. QED
    BY <1>1, <2>3
<1>3. ASSUME NEW i \in 0..(n - 1), i \in T PROVE (i + 1) \in T
  <2>1. i + 1 \in 1..n /\ (i + 1) - 1 = i /\ i \in 0..n
    BY <1>1
  <2>2. u(i + 1) = Append(u(i), t[i + 1]) /\ u(i) \in Seq(Seq(S))
    BY <2>1, PrefixStep, PrefixProperties
  <2> HIDE DEF u, n
  <2>3. PICK v \in Seq(Seq(S)) : v = u(i)
    BY <2>2
  <2>4. PICK x \in Seq(S) : x = t[i + 1]
    BY <1>1, <2>1
  <2>5. FlattenSeq(s \o v) = FlattenSeq(s) \o FlattenSeq(v)
    BY <1>3, <2>3
  <2>6. s \o Append(v, x) = Append(s \o v, x) /\ s \o v \in Seq(Seq(S))
    <3>1. Append(v, x) = v \o <<x>> /\ <<x>> \in Seq(Seq(S)) /\ s \o v \in Seq(Seq(S))
      BY AppendIsConcat, ConcatProperties
    <3>2. Append(s \o v, x) = (s \o v) \o <<x>>
      BY <3>1, AppendIsConcat
    <3>3. PICK y \in Seq(Seq(S)) : y = <<x>>
      BY <3>1
    <3>4. Cat(Cat(s, v), y) = Cat(s, Cat(v, y))
      BY CatAssociativeIn
    <3>5. QED
      BY <3>1, <3>2, <3>3, <3>4 DEF Cat
  <2>7. FlattenSeq(s \o Append(v, x)) = (FlattenSeq(s) \o FlattenSeq(v)) \o x
    BY <2>5, <2>6, FlattenAppend
  <2>8. FlattenSeq(Append(v, x)) = FlattenSeq(v) \o x /\ FlattenSeq(v) \in Seq(S)
    BY FlattenAppend, FlattenType
  <2>9. FlattenSeq(s \o Append(v, x)) = FlattenSeq(s) \o FlattenSeq(Append(v, x))
    <3>1. PICK a \in Seq(S), b \in Seq(S) : a = FlattenSeq(s) /\ b = FlattenSeq(v)
      BY <1>1, <2>8
    <3>2. Cat(Cat(a, b), x) = Cat(a, Cat(b, x))
      BY CatAssociativeIn
    <3>3. QED
      BY <2>7, <2>8, <3>1, <3>2 DEF Cat
  <2>10. FlattenSeq(s \o u(i + 1)) = FlattenSeq(s) \o FlattenSeq(u(i + 1))
    BY <2>2, <2>3, <2>4, <2>9
  <2>11. QED
    BY <1>1, <2>1, <2>10
<1>4. \A i \in 0..n : i \in T
  <2> HIDE DEF T, n
  <2>1. QED
    BY <1>1, <1>2, <1>3, BoundedInduction
<1>5. u(n) = t /\ n \in 0..n
  BY <1>1, SubSeqFull
<1>6. QED
  BY <1>4, <1>5

\* The first i pieces, put together.
Joined(s, i) == FlattenSeq(SubSeq(s, 1, i))

\* The pieces up to i are those before it and the piece itself.
LEMMA JoinedStep ==
  ASSUME NEW S, NEW s \in Seq(Seq(S)), NEW i \in 1..Len(s)
  PROVE  /\ Joined(s, i) = Joined(s, i - 1) \o s[i]
         /\ Joined(s, i - 1) \in Seq(S) /\ Joined(s, i) \in Seq(S) /\ s[i] \in Seq(S)
         /\ Len(Joined(s, i)) = Len(Joined(s, i - 1)) + Len(s[i])
<1>1. Len(s) \in Nat /\ i - 1 \in 0..Len(s) /\ i \in 0..Len(s)
  BY LenProperties
<1>2. s[i] \in Seq(S) /\ SubSeq(s, 1, i - 1) \in Seq(Seq(S)) /\ SubSeq(s, 1, i) \in Seq(Seq(S))
  BY <1>1, ElementOfSeq, PrefixProperties
<1>3. SubSeq(s, 1, i) = Append(SubSeq(s, 1, i - 1), s[i])
  BY PrefixStep
<1>4. Joined(s, i - 1) \in Seq(S) /\ Joined(s, i) \in Seq(S)
  BY <1>2, FlattenType DEF Joined
<1>5. Joined(s, i) = Joined(s, i - 1) \o s[i]
  BY <1>2, <1>3, FlattenAppend DEF Joined
<1>6. QED
  BY <1>2, <1>4, <1>5, ConcatProperties

\* No piece, and all of them.
LEMMA JoinedEnds ==
  ASSUME NEW S, NEW s \in Seq(Seq(S))
  PROVE  /\ Joined(s, 0) = <<>>
         /\ Joined(s, Len(s)) = FlattenSeq(s)
         /\ \A i \in 0..Len(s) : Joined(s, i) \in Seq(S) /\ Len(Joined(s, i)) \in Nat
<1>1. Joined(s, 0) = <<>>
  <2>1. SubSeq(s, 1, 0) = <<>>
    BY SubSeqEmpty
  <2>2. QED
    BY <2>1, FlattenEmpty DEF Joined
<1>2. Joined(s, Len(s)) = FlattenSeq(s)
  BY SubSeqFull DEF Joined
<1>3. ASSUME NEW i \in 0..Len(s) PROVE Joined(s, i) \in Seq(S) /\ Len(Joined(s, i)) \in Nat
  BY PrefixProperties, FlattenType, LenProperties DEF Joined
<1>4. QED
  BY <1>1, <1>2, <1>3

\* Where a piece is in the whole.
LEMMA JoinedPiece ==
  ASSUME NEW S, NEW s \in Seq(Seq(S)), NEW i \in 1..Len(s)
  PROVE  /\ Len(FlattenSeq(s)) \in Nat /\ Len(Joined(s, i - 1)) \in Nat /\ Len(s[i]) \in Nat
         /\ Len(Joined(s, i - 1)) + Len(s[i]) <= Len(FlattenSeq(s))
         /\ \A k \in 1..Len(s[i]) : FlattenSeq(s)[Len(Joined(s, i - 1)) + k] = s[i][k]
<1> DEFINE a == Joined(s, i - 1)
           b == s[i]
           r == SubSeq(s, i + 1, Len(s))
           c == FlattenSeq(r)
           ab == Joined(s, i)
<1>1. Len(s) \in Nat /\ i \in 0..Len(s) /\ SubSeq(s, 1, i) \in Seq(Seq(S))
  BY LenProperties, PrefixProperties
<1>2. /\ a \in Seq(S) /\ b \in Seq(S) /\ ab \in Seq(S) /\ ab = a \o b
  BY JoinedStep
<1>3. r \in Seq(Seq(S))
  <2>1. \A j \in (i + 1)..Len(s) : s[j] \in Seq(S)
    BY <1>1, ElementOfSeq
  <2>2. QED
    BY <1>1, <2>1, SubSeqProperties
<1>4. c \in Seq(S)
  BY <1>3, FlattenType
<1>5. s = SubSeq(s, 1, i) \o r
  BY <1>1, ConcatAdjacentSubSeq, SubSeqFull
<1>6. FlattenSeq(s) = ab \o c
  BY <1>1, <1>3, <1>5, FlattenConcat DEF Joined
<1> HIDE DEF a, b, r, c, ab
<1>7. /\ Len(a) \in Nat /\ Len(b) \in Nat /\ Len(c) \in Nat /\ Len(ab) = Len(a) + Len(b)
      /\ \A j \in 1..(Len(a) + Len(b)) : ab[j] = IF j <= Len(a) THEN a[j] ELSE b[j - Len(a)]
  BY <1>2, <1>4, LenProperties, ConcatProperties
<1>8. /\ Len(ab \o c) = Len(ab) + Len(c)
      /\ \A j \in 1..(Len(ab) + Len(c)) : (ab \o c)[j] = IF j <= Len(ab) THEN ab[j] ELSE c[j - Len(ab)]
  BY <1>2, <1>4, ConcatProperties
<1>9. ASSUME NEW k \in 1..Len(b) PROVE (ab \o c)[Len(a) + k] = b[k]
  <2> DEFINE j == Len(a) + k
  <2>1. /\ j \in 1..(Len(a) + Len(b)) /\ j \in 1..(Len(ab) + Len(c)) /\ j <= Len(ab)
        /\ ~(j <= Len(a)) /\ j - Len(a) = k
    BY <1>7
  <2> HIDE DEF j
  <2>2. (ab \o c)[j] = ab[j] /\ ab[j] = b[k]
    BY <1>7, <1>8, <2>1
  <2>3. QED
    BY <2>2 DEF j
<1>10. Len(ab \o c) \in Nat /\ Len(a) + Len(b) <= Len(ab \o c)
  BY <1>7, <1>8
<1>11. QED
  BY <1>6, <1>7, <1>9, <1>10 DEF a, b

\* Pieces of which none is longer and one is shorter make a shorter whole.
LEMMA FlattenLonger ==
  ASSUME NEW S, NEW s \in Seq(Seq(S)), NEW t \in Seq(Seq(S)), Len(s) = Len(t),
         \A i \in 1..Len(s) : Len(s[i]) <= Len(t[i])
  PROVE  /\ Len(FlattenSeq(s)) \in Nat /\ Len(FlattenSeq(t)) \in Nat
         /\ Len(FlattenSeq(s)) <= Len(FlattenSeq(t))
         /\ (\E i \in 1..Len(s) : Len(s[i]) < Len(t[i])) => Len(FlattenSeq(s)) < Len(FlattenSeq(t))
<1> DEFINE n == Len(s)
           A(i) == Len(Joined(s, i))
           B(i) == Len(Joined(t, i))
           T == {i \in 0..n : /\ A(i) <= B(i)
                              /\ (\E j \in 1..i : Len(s[j]) < Len(t[j])) => A(i) < B(i)}
<1>1. n \in Nat /\ n = Len(t)
  BY LenProperties
<1>2. \A i \in 0..n : A(i) \in Nat /\ B(i) \in Nat
  BY JoinedEnds
<1>3. ASSUME NEW i \in 1..n
      PROVE  /\ A(i) = A(i - 1) + Len(s[i]) /\ B(i) = B(i - 1) + Len(t[i])
             /\ Len(s[i]) \in Nat /\ Len(t[i]) \in Nat
  BY <1>1, JoinedStep, LenProperties
<1>4. A(0) = 0 /\ B(0) = 0
  BY JoinedEnds
<1>5. A(n) = Len(FlattenSeq(s)) /\ B(n) = Len(FlattenSeq(t))
  BY <1>1, JoinedEnds
<1>6. \A i \in 1..n : Len(s[i]) <= Len(t[i])
  OBVIOUS
<1> HIDE DEF A, B, n
<1>7. 0 \in T
  BY <1>1, <1>4
<1>8. ASSUME NEW i \in 0..(n - 1), i \in T PROVE (i + 1) \in T
  <2>1. i + 1 \in 1..n /\ (i + 1) - 1 = i /\ i \in 0..n /\ i + 1 \in 0..n
    BY <1>1
  <2>2. /\ A(i) \in Nat /\ B(i) \in Nat /\ A(i + 1) = A(i) + Len(s[i + 1])
        /\ B(i + 1) = B(i) + Len(t[i + 1]) /\ Len(s[i + 1]) \in Nat /\ Len(t[i + 1]) \in Nat
        /\ Len(s[i + 1]) <= Len(t[i + 1])
    BY <1>2, <1>3, <1>6, <2>1
  <2>3. A(i + 1) <= B(i + 1)
    BY <1>8, <2>2
  <2>4. ASSUME NEW j \in 1..(i + 1), Len(s[j]) < Len(t[j]) PROVE A(i + 1) < B(i + 1)
    <3>1. CASE j = i + 1
      BY <1>8, <2>2, <2>4, <3>1
    <3>2. CASE j # i + 1
      <4>1. j \in 1..i
        BY <2>1, <3>2
      <4>2. A(i) < B(i)
        BY <1>8, <2>4, <4>1
      <4>3. QED
        BY <2>2, <4>2
    <3>3. QED
      BY <3>1, <3>2
  <2>5. QED
    BY <2>1, <2>3, <2>4
<1>9. \A i \in 0..n : i \in T
  <2> HIDE DEF T
  <2>1. QED
    BY <1>1, <1>7, <1>8, BoundedInduction
<1>10. n \in T /\ n \in 0..n
  BY <1>1, <1>9
<1>11. QED
  BY <1>2, <1>5, <1>10 DEF n

---------------------------------------------------------------------------
(* The conversions are made of pieces. *)

\* What main.rs makes of byte i.
MainPiece(d, i) ==
  CASE d[i] = "LF" -> IF i > 1 /\ d[i - 1] = "CR" THEN <<"LF">> ELSE <<"CR", "LF">>
    [] d[i] = "CR" -> IF i < Len(d) /\ d[i + 1] = "LF" THEN <<"CR">> ELSE <<"CR", "NUL">>
    [] OTHER       -> <<d[i]>>

MainPieces(d) == [i \in 1..Len(d) |-> MainPiece(d, i)]

LibPieces(d) == [i \in 1..Len(d) |-> LibByte(d[i])]

\* The pieces of the text that UnixLines gives, and those of the file itself.
LinePiece(d, i) == IF d[i] = "CR" /\ i < Len(d) /\ d[i + 1] = "LF" THEN <<>> ELSE <<d[i]>>

LinePieces(d) == [i \in 1..Len(d) |-> LinePiece(d, i)]

BytePieces(d) == [i \in 1..Len(d) |-> <<d[i]>>]

\* A piece of main.rs is one or two bytes.
LEMMA MainPieceType ==
  ASSUME NEW d \in Seq(Bytes), NEW i \in 1..Len(d)
  PROVE  /\ MainPiece(d, i) \in Seq(Bytes)
         /\ MainPiece(d, i) \in {<<"CR">>, <<"LF">>, <<"NUL">>, <<"x">>, <<"CR", "LF">>, <<"CR", "NUL">>}
<1>1. d[i] \in Bytes
  BY ElementOfSeq
<1>2. MainPiece(d, i) \in {<<"CR">>, <<"LF">>, <<"NUL">>, <<"x">>, <<"CR", "LF">>, <<"CR", "NUL">>}
  BY <1>1 DEF Bytes, MainPiece
<1>3. /\ <<"CR">> \in Seq(Bytes) /\ <<"LF">> \in Seq(Bytes) /\ <<"NUL">> \in Seq(Bytes)
      /\ <<"x">> \in Seq(Bytes) /\ <<"CR", "LF">> \in Seq(Bytes) /\ <<"CR", "NUL">> \in Seq(Bytes)
  BY DEF Bytes
<1> HIDE DEF MainPiece
<1>4. QED
  BY <1>2, <1>3

\* So is one of lib.rs.
LEMMA LibByteType ==
  ASSUME NEW b \in Bytes
  PROVE  LibByte(b) \in Seq(Bytes) /\ Len(LibByte(b)) \in {1, 2}
<1>1. CASE b = "LF"
  <2>1. LibByte(b) = <<"CR", "LF">>
    BY <1>1 DEF LibByte
  <2>2. QED
    BY <2>1 DEF Bytes
<1>2. CASE b = "CR"
  <2>1. LibByte(b) = <<"CR", "NUL">>
    BY <1>2 DEF LibByte
  <2>2. QED
    BY <2>1 DEF Bytes
<1>3. CASE b \notin {"CR", "LF"}
  <2>1. LibByte(b) = <<b>>
    BY <1>3 DEF LibByte
  <2>2. QED
    BY <2>1
<1>4. QED
  BY <1>1, <1>2, <1>3

\* The pieces of a file are as many as its bytes.
LEMMA PieceTypes ==
  ASSUME NEW d \in Seq(Bytes)
  PROVE  /\ MainPieces(d) \in Seq(Seq(Bytes)) /\ Len(MainPieces(d)) = Len(d)
         /\ LibPieces(d) \in Seq(Seq(Bytes)) /\ Len(LibPieces(d)) = Len(d)
         /\ LinePieces(d) \in Seq(Seq(Bytes)) /\ Len(LinePieces(d)) = Len(d)
         /\ BytePieces(d) \in Seq(Seq(Bytes)) /\ Len(BytePieces(d)) = Len(d)
<1>1. Len(d) \in Nat /\ DOMAIN d = 1..Len(d) /\ \A i \in 1..Len(d) : d[i] \in Bytes
  BY LenProperties, ElementOfSeq
<1>2. MainPieces(d) \in Seq(Seq(Bytes)) /\ Len(MainPieces(d)) = Len(d)
  <2>1. \A i \in 1..Len(d) : MainPiece(d, i) \in Seq(Bytes)
    BY MainPieceType
  <2>2. QED
    BY <1>1, <2>1 DEF MainPieces
<1>3. LibPieces(d) \in Seq(Seq(Bytes)) /\ Len(LibPieces(d)) = Len(d)
  <2>1. \A i \in 1..Len(d) : LibByte(d[i]) \in Seq(Bytes)
    BY <1>1, LibByteType
  <2>2. QED
    BY <1>1, <2>1 DEF LibPieces
<1>4. LinePieces(d) \in Seq(Seq(Bytes)) /\ Len(LinePieces(d)) = Len(d)
  <2>1. \A i \in 1..Len(d) : LinePiece(d, i) \in Seq(Bytes)
    BY <1>1 DEF LinePiece
  <2>2. QED
    BY <1>1, <2>1 DEF LinePieces
<1>5. BytePieces(d) \in Seq(Seq(Bytes)) /\ Len(BytePieces(d)) = Len(d)
  BY <1>1 DEF BytePieces
<1>6. QED
  BY <1>2, <1>3, <1>4, <1>5

\* lib.rs converts byte by byte.
LEMMA LibIsPieces ==
  ASSUME NEW d \in Seq(Bytes)
  PROVE  convert_to_netascii_lib(d) = FlattenSeq(LibPieces(d))
  BY LenProperties DEF convert_to_netascii_lib, LibPieces

\* The last byte of the pieces before an LF is a CR if the byte before it is one.
LEMMA LastBeforeLf ==
  ASSUME NEW d \in Seq(Bytes), NEW i \in 2..Len(d), d[i] = "LF"
  PROVE  LET r == Joined(MainPieces(d), i - 1)
         IN  r # <<>> /\ (Last(r) = "CR" <=> d[i - 1] = "CR")
<1> DEFINE P == MainPieces(d)
           a == Joined(P, i - 2)
           b == P[i - 1]
           r == Joined(P, i - 1)
<1>1. Len(d) \in Nat /\ i - 1 \in 1..Len(d) /\ (i - 1) - 1 = i - 2 /\ (i - 1) + 1 = i /\ i - 1 < Len(d)
  BY LenProperties
<1>2. P \in Seq(Seq(Bytes)) /\ Len(P) = Len(d)
  BY PieceTypes
<1>3. b = MainPiece(d, i - 1)
  BY <1>1 DEF MainPieces
<1> HIDE DEF P
<1>4. a \in Seq(Bytes) /\ b \in Seq(Bytes) /\ r = a \o b
  BY <1>1, <1>2, JoinedStep
<1>5. d[i - 1] \in Bytes
  BY <1>1, ElementOfSeq
<1> HIDE DEF a, b, r
<1>6. b # <<>> /\ Len(b) \in {1, 2} /\ (b[Len(b)] = "CR" <=> d[i - 1] = "CR")
  <2>1. CASE d[i - 1] = "CR"
    <3>1. b = <<"CR">>
      BY <1>1, <1>3, <2>1 DEF MainPiece
    <3>2. QED
      BY <2>1, <3>1
  <2>2. CASE d[i - 1] = "LF"
    <3>1. b = <<"LF">> \/ b = <<"CR", "LF">>
      BY <1>1, <1>3, <2>2 DEF MainPiece
    <3>2. b # <<>> /\ Len(b) \in {1, 2} /\ b[Len(b)] = "LF"
      <4>1. CASE b = <<"LF">>
        BY <4>1
      <4>2. CASE b = <<"CR", "LF">>
        BY <4>2
      <4>3. QED
        BY <3>1, <4>1, <4>2
    <3>3. QED
      BY <2>2, <3>2
  <2>3. CASE d[i - 1] \notin {"CR", "LF"}
    <3>1. b = <<d[i - 1]>>
      BY <1>1, <1>3, <2>3 DEF MainPiece
    <3>2. PICK x \in Bytes : x = d[i - 1]
      BY <1>5
    <3>3. b = <<x>> /\ x # "CR"
      BY <2>3, <3>1, <3>2
    <3>4. b # <<>> /\ Len(b) = 1 /\ b[1] = x
      BY <3>3
    <3>5. b # <<>> /\ Len(b) \in {1, 2} /\ b[Len(b)] # "CR" /\ d[i - 1] # "CR"
      BY <2>3, <3>3, <3>4
    <3>6. QED
      BY <3>5
  <2>4. QED
    BY <2>1, <2>2, <2>3
<1>7. r # <<>> /\ r[Len(r)] = b[Len(b)]
  <2>1. /\ Len(a) \in Nat /\ Len(r) = Len(a) + Len(b)
        /\ \A j \in 1..(Len(a) + Len(b)) : r[j] = IF j <= Len(a) THEN a[j] ELSE b[j - Len(a)]
    BY <1>4, LenProperties, ConcatProperties
  <2>2. Len(r) \in 1..(Len(a) + Len(b)) /\ ~(Len(r) <= Len(a)) /\ Len(r) - Len(a) = Len(b)
    BY <1>6, <2>1
  <2>3. Len(r) # 0
    BY <2>1, <2>2
  <2>4. QED
    BY <2>1, <2>2, <2>3
<1>8. QED
  BY <1>6, <1>7 DEF Last, r, P

\* main.rs: what a byte adds does not depend on where the chunks begin.
LEMMA MainByteIsPiece ==
  ASSUME NEW d \in Seq(Bytes), NEW i \in 1..Len(d)
  PROVE  MainByte(d, i, Joined(MainPieces(d), i - 1)) = MainPieces(d)[i]
<1> DEFINE r == Joined(MainPieces(d), i - 1)
<1>1. Len(d) \in Nat /\ d[i] \in Bytes
  BY LenProperties, ElementOfSeq
<1>2. MainPieces(d)[i] = MainPiece(d, i)
  BY DEF MainPieces
<1>3. ASSUME d[i] = "LF" PROVE preceded_by_cr(d, i, r) <=> (i > 1 /\ d[i - 1] = "CR")
  <2>1. CASE (i - 1) % ChunkSize > 0
    <3>1. i # 1
      <4>1. SUFFICES ASSUME i = 1 PROVE FALSE
        OBVIOUS
      <4>2. (0 % ChunkSize) = 0
        BY ConstantAssumption
      <4>3. QED
        BY <2>1, <4>1, <4>2
    <3>2. QED
      BY <1>1, <2>1, <3>1 DEF preceded_by_cr
  <2>2. CASE ~((i - 1) % ChunkSize > 0)
    <3>1. CASE i = 1
      BY <2>2, <3>1 DEF preceded_by_cr
    <3>2. CASE i # 1
      <4>1. i \in 2..Len(d)
        BY <1>1, <3>2
      <4>2. r # <<>> /\ (Last(r) = "CR" <=> d[i - 1] = "CR")
        BY <1>3, <4>1, LastBeforeLf
      <4> HIDE DEF r
      <4>3. QED
        BY <2>2, <4>1, <4>2 DEF preceded_by_cr
    <3>3. QED
      BY <3>1, <3>2
  <2>3. QED
    BY <2>1, <2>2
<1> HIDE DEF r
<1>4. MainByte(d, i, r) = MainPiece(d, i)
  <2>1. CASE d[i] = "LF"
    BY <1>3, <2>1 DEF MainByte, MainPiece
  <2>2. CASE d[i] = "CR"
    BY <2>2 DEF MainByte, MainPiece, followed_by_lf
  <2>3. CASE d[i] \notin {"CR", "LF"}
    BY <2>3 DEF MainByte, MainPiece
  <2>4. QED
    BY <2>1, <2>2, <2>3
<1>5. QED
  BY <1>2, <1>4 DEF r

\* What the recursive function in convert_to_netascii_main(d) satisfies.
Converts(d, f) ==
  f = [i \in 0..Len(d) |-> IF i = 0 THEN <<>> ELSE f[i - 1] \o MainByte(d, i, f[i - 1])]

\* main.rs converts byte by byte too, with the byte before and the byte after in view.
LEMMA MainIsPieces ==
  ASSUME NEW d \in Seq(Bytes)
  PROVE  convert_to_netascii_main(d) = FlattenSeq(MainPieces(d))
<1> DEFINE P == MainPieces(d)
           n == Len(d)
           w == [i \in 0..n |-> Joined(P, i)]
<1>1. P \in Seq(Seq(Bytes)) /\ Len(P) = n /\ n \in Nat
  BY PieceTypes, LenProperties
<1>2. ASSUME NEW i \in 1..n PROVE w[i] = w[i - 1] \o MainByte(d, i, w[i - 1])
  <2>1. i \in 0..n /\ i - 1 \in 0..n
    BY <1>1
  <2>2. MainByte(d, i, Joined(P, i - 1)) = P[i]
    BY MainByteIsPiece
  <2> HIDE DEF P
  <2>3. Joined(P, i) = Joined(P, i - 1) \o P[i]
    BY <1>1, JoinedStep
  <2>4. w[i] = Joined(P, i) /\ w[i - 1] = Joined(P, i - 1)
    BY <2>1
  <2>5. QED
    BY <2>2, <2>3, <2>4
<1>3. w[0] = <<>>
  BY <1>1, JoinedEnds
<1>4. Converts(d, w)
  <2> DEFINE v == [i \in 0..n |-> IF i = 0 THEN <<>> ELSE w[i - 1] \o MainByte(d, i, w[i - 1])]
  <2>1. DOMAIN w = 0..n /\ DOMAIN v = 0..n /\ w = [i \in 0..n |-> w[i]]
    OBVIOUS
  <2> HIDE DEF w
  <2>2. ASSUME NEW i \in 0..n PROVE w[i] = v[i]
    <3>1. CASE i = 0
      BY <1>3, <3>1
    <3>2. CASE i # 0
      <4>1. i \in 1..n
        BY <1>1, <3>2
      <4>2. v[i] = w[i - 1] \o MainByte(d, i, w[i - 1])
        BY <3>2
      <4>3. QED
        BY <1>2, <4>1, <4>2
    <3>3. QED
      BY <3>1, <3>2
  <2>3. v = [i \in 0..n |-> v[i]]
    OBVIOUS
  <2> HIDE DEF v
  <2>4. w = v
    BY <2>1, <2>2, <2>3
  <2>5. QED
    BY <2>4 DEF Converts, v
<1>5. PICK f : Converts(d, f) /\ convert_to_netascii_main(d) = f[n]
  <2> HIDE DEF w
  <2>1. \E f : Converts(d, f)
    BY <1>4
  <2>2. QED
    BY <2>1 DEF convert_to_netascii_main, Converts
<1> DEFINE T == {i \in 0..n : f[i] = w[i]}
<1> HIDE DEF w
<1>6. 0 \in T
  <2>1. f[0] = <<>>
    BY <1>1, <1>5 DEF Converts
  <2>2. QED
    BY <1>1, <1>3, <2>1
<1>7. ASSUME NEW i \in 0..(n - 1), i \in T PROVE (i + 1) \in T
  <2>1. i + 1 \in 0..n /\ i + 1 \in 1..n /\ i + 1 # 0 /\ (i + 1) - 1 = i
    BY <1>1
  <2>2. f[i + 1] = f[i] \o MainByte(d, i + 1, f[i])
    <3>1. f[i + 1] = IF i + 1 = 0 THEN <<>> ELSE f[(i + 1) - 1] \o MainByte(d, i + 1, f[(i + 1) - 1])
      BY <1>5, <2>1 DEF Converts
    <3>2. QED
      BY <2>1, <3>1
  <2>3. w[i + 1] = w[i] \o MainByte(d, i + 1, w[i])
    BY <1>2, <2>1
  <2>4. QED
    BY <1>7, <2>1, <2>2, <2>3
<1>8. \A i \in 0..n : i \in T
  <2> HIDE DEF T, n
  <2>1. QED
    BY <1>1, <1>6, <1>7, BoundedInduction
<1>9. n \in 0..n /\ f[n] = w[n]
  BY <1>1, <1>8
<1>10. QED
  BY <1>1, <1>5, <1>9, JoinedEnds DEF w

\* What the recursive function in UnixLines(d) satisfies.
GivesLines(d, f) ==
  f = [i \in 0..Len(d) |->
        IF i = 0 THEN <<>>
        ELSE IF d[i] = "CR" /\ i < Len(d) /\ d[i + 1] = "LF" THEN f[i - 1]
        ELSE Append(f[i - 1], d[i])]

\* The text of a file in pieces.
LEMMA LinesIsPieces ==
  ASSUME NEW d \in Seq(Bytes)
  PROVE  UnixLines(d) = FlattenSeq(LinePieces(d))
<1> DEFINE P == LinePieces(d)
           n == Len(d)
           w == [i \in 0..n |-> Joined(P, i)]
           Skipped(i) == d[i] = "CR" /\ i < Len(d) /\ d[i + 1] = "LF"
<1>1. P \in Seq(Seq(Bytes)) /\ Len(P) = n /\ n \in Nat
  BY PieceTypes, LenProperties
<1>2. ASSUME NEW i \in 1..n
      PROVE  w[i] = IF Skipped(i) THEN w[i - 1] ELSE Append(w[i - 1], d[i])
  <2>1. i \in 0..n /\ i - 1 \in 0..n /\ d[i] \in Bytes
    BY <1>1, ElementOfSeq
  <2>2. P[i] = IF Skipped(i) THEN <<>> ELSE <<d[i]>>
    BY DEF LinePieces, LinePiece
  <2> HIDE DEF P, Skipped
  <2>3. Joined(P, i) = Joined(P, i - 1) \o P[i] /\ Joined(P, i - 1) \in Seq(Bytes)
    BY <1>1, JoinedStep
  <2>4. w[i] = Joined(P, i) /\ w[i - 1] = Joined(P, i - 1)
    BY <2>1
  <2> HIDE DEF w
  <2>5. w[i - 1] \o <<>> = w[i - 1] /\ w[i - 1] \o <<d[i]>> = Append(w[i - 1], d[i])
    BY <2>1, <2>3, <2>4, ConcatEmptySeq, AppendIsConcat
  <2>6. QED
    BY <2>2, <2>3, <2>4, <2>5
<1>3. w[0] = <<>>
  BY <1>1, JoinedEnds
<1>4. GivesLines(d, w)
  <2> DEFINE v == [i \in 0..n |-> IF i = 0 THEN <<>>
                                  ELSE IF Skipped(i) THEN w[i - 1] ELSE Append(w[i - 1], d[i])]
  <2>1. DOMAIN w = 0..n /\ DOMAIN v = 0..n /\ w = [i \in 0..n |-> w[i]]
    OBVIOUS
  <2> HIDE DEF w
  <2>2. \A i \in 0..n : w[i] = v[i]
    <3> HIDE DEF Skipped
    <3>1. QED
      BY <1>1, <1>2, <1>3
  <2>3. v = [i \in 0..n |-> v[i]]
    OBVIOUS
  <2> HIDE DEF v
  <2>4. w = v
    BY <2>1, <2>2, <2>3
  <2>5. QED
    BY <2>4 DEF GivesLines, v
<1>5. PICK f : GivesLines(d, f) /\ UnixLines(d) = f[n]
  <2> HIDE DEF w
  <2>1. \E f : GivesLines(d, f)
    BY <1>4
  <2>2. QED
    BY <2>1 DEF UnixLines, GivesLines
<1> DEFINE T == {i \in 0..n : f[i] = w[i]}
<1> HIDE DEF w
<1>6. 0 \in T
  <2>1. f[0] = <<>>
    BY <1>1, <1>5 DEF GivesLines
  <2>2. QED
    BY <1>1, <1>3, <2>1
<1>7. ASSUME NEW i \in 0..(n - 1), i \in T PROVE (i + 1) \in T
  <2>1. i + 1 \in 0..n /\ i + 1 \in 1..n /\ i + 1 # 0 /\ (i + 1) - 1 = i
    BY <1>1
  <2>2. f[i + 1] = IF Skipped(i + 1) THEN f[i] ELSE Append(f[i], d[i + 1])
    <3>1. f[i + 1] = IF i + 1 = 0 THEN <<>>
                     ELSE IF Skipped(i + 1) THEN f[(i + 1) - 1]
                     ELSE Append(f[(i + 1) - 1], d[i + 1])
      BY <1>5, <2>1 DEF GivesLines
    <3> HIDE DEF Skipped
    <3>2. QED
      BY <2>1, <3>1
  <2> HIDE DEF Skipped
  <2>3. w[i + 1] = IF Skipped(i + 1) THEN w[i] ELSE Append(w[i], d[i + 1])
    BY <1>2, <2>1
  <2>4. QED
    BY <1>7, <2>1, <2>2, <2>3
<1>8. \A i \in 0..n : i \in T
  <2> HIDE DEF T, n
  <2>1. QED
    BY <1>1, <1>6, <1>7, BoundedInduction
<1>9. n \in 0..n /\ f[n] = w[n]
  BY <1>1, <1>8
<1>10. QED
  BY <1>1, <1>5, <1>9, JoinedEnds DEF w

\* A file is its bytes.
LEMMA FileIsPieces ==
  ASSUME NEW d \in Seq(Bytes)
  PROVE  FlattenSeq(BytePieces(d)) = d
<1> DEFINE P == BytePieces(d)
           n == Len(d)
           T == {i \in 0..n : Joined(P, i) = SubSeq(d, 1, i)}
<1>1. P \in Seq(Seq(Bytes)) /\ Len(P) = n /\ n \in Nat
  BY PieceTypes, LenProperties
<1>2. 0 \in T
  BY <1>1, JoinedEnds, SubSeqEmpty
<1>3. ASSUME NEW i \in 0..(n - 1), i \in T PROVE (i + 1) \in T
  <2>1. i + 1 \in 0..n /\ i + 1 \in 1..n /\ (i + 1) - 1 = i /\ i \in 0..n
    BY <1>1
  <2>2. P[i + 1] = <<d[i + 1]>> /\ d[i + 1] \in Bytes
    BY <2>1, ElementOfSeq DEF BytePieces
  <2> HIDE DEF P
  <2>3. Joined(P, i + 1) = Joined(P, i) \o <<d[i + 1]>>
    BY <1>1, <2>1, <2>2, JoinedStep
  <2>4. SubSeq(d, 1, i + 1) = Append(SubSeq(d, 1, i), d[i + 1]) /\ SubSeq(d, 1, i) \in Seq(Bytes)
    BY <2>1, PrefixStep, PrefixProperties
  <2>5. Joined(P, i) = SubSeq(d, 1, i)
    BY <1>3
  <2>6. Joined(P, i + 1) = SubSeq(d, 1, i + 1)
    BY <2>2, <2>3, <2>4, <2>5, AppendIsConcat
  <2>7. QED
    BY <2>1, <2>6
<1>4. \A i \in 0..n : i \in T
  <2> HIDE DEF T, n
  <2>1. QED
    BY <1>1, <1>2, <1>3, BoundedInduction
<1>5. Joined(P, n) = SubSeq(d, 1, n)
  BY <1>1, <1>4
<1> HIDE DEF P
<1>6. QED
  BY <1>1, <1>5, JoinedEnds, SubSeqFull DEF P

---------------------------------------------------------------------------
(* Decoding. *)

\* What the recursive function in convert_from_netascii(d) satisfies.
Decodes(d, f) ==
  f = [i \in 1..(Len(d) + 2) |->
        IF i > Len(d) THEN <<>>
        ELSE IF Decoded(d, i) # <<>> THEN Decoded(d, i) \o f[i + 2]
        ELSE <<d[i]>> \o f[i + 1]]

\* The same from position m on.
DecodesFrom(d, f, m) ==
  \A i \in m..(Len(d) + 2) :
    f[i] = IF i > Len(d) THEN <<>>
           ELSE IF Decoded(d, i) # <<>> THEN Decoded(d, i) \o f[i + 2]
           ELSE <<d[i]>> \o f[i + 1]

\* What a pair of bytes stands for is at most one byte.
LEMMA DecodedType ==
  ASSUME NEW d \in Seq(Bytes), NEW i \in 1..Len(d)
  PROVE  Decoded(d, i) \in Seq(Bytes) /\ d[i] \in Bytes
<1>1. d[i] \in Bytes
  BY ElementOfSeq
<1>2. Decoded(d, i) \in {<<>>, <<"LF">>, <<"CR">>}
  BY DEF Decoded
<1>3. <<>> \in Seq(Bytes) /\ <<"LF">> \in Seq(Bytes) /\ <<"CR">> \in Seq(Bytes)
  BY DEF Bytes
<1>4. QED
  BY <1>1, <1>2, <1>3

\* The function exists: it is made from the end of the data to the beginning.
LEMMA DecodesExists ==
  ASSUME NEW d \in Seq(Bytes)
  PROVE  \E f \in [1..(Len(d) + 2) -> Seq(Bytes)] : Decodes(d, f)
<1> DEFINE n == Len(d)
           M(k) == n + 1 - k
           T == {k \in 0..n : \E f \in [M(k)..(n + 2) -> Seq(Bytes)] : DecodesFrom(d, f, M(k))}
<1>1. n \in Nat
  BY LenProperties
<1>2. 0 \in T
  <2> DEFINE g == [i \in (n + 1)..(n + 2) |-> <<>>]
  <2>1. g \in [(n + 1)..(n + 2) -> Seq(Bytes)]
    OBVIOUS
  <2>2. DecodesFrom(d, g, n + 1)
    BY <1>1 DEF DecodesFrom
  <2>3. M(0) = n + 1 /\ 0 \in 0..n
    BY <1>1
  <2> HIDE DEF g, M
  <2>4. QED
    BY <2>1, <2>2, <2>3
<1>3. ASSUME NEW k \in 0..(n - 1), k \in T PROVE (k + 1) \in T
  <2>1. PICK m : m = M(k)
    OBVIOUS
  <2>2. m \in 2..(n + 1) /\ M(k + 1) = m - 1 /\ k + 1 \in 0..n
    BY <1>1, <2>1
  <2>3. PICK f \in [m..(n + 2) -> Seq(Bytes)] : DecodesFrom(d, f, m)
    BY <1>3, <2>1
  <2> DEFINE b == IF Decoded(d, m - 1) # <<>> THEN Decoded(d, m - 1) \o f[m + 1]
                  ELSE <<d[m - 1]>> \o f[m]
             g == [i \in (m - 1)..(n + 2) |-> IF i < m THEN b ELSE f[i]]
  <2>4. m - 1 \in 1..n /\ m \in m..(n + 2) /\ m + 1 \in m..(n + 2)
    BY <1>1, <2>2
  <2>5. b \in Seq(Bytes)
    <3>1. Decoded(d, m - 1) \in Seq(Bytes) /\ d[m - 1] \in Bytes
      BY <2>4, DecodedType
    <3>2. <<d[m - 1]>> \in Seq(Bytes) /\ f[m] \in Seq(Bytes) /\ f[m + 1] \in Seq(Bytes)
      BY <2>3, <2>4, <3>1
    <3>3. QED
      BY <3>1, <3>2, ConcatProperties
  <2>6. g \in [(m - 1)..(n + 2) -> Seq(Bytes)]
    <3> HIDE DEF b
    <3>1. QED
      BY <1>1, <2>2, <2>3, <2>5
  <2>7. g[m - 1] = b /\ \A i \in m..(n + 2) : g[i] = f[i]
    <3> HIDE DEF b
    <3>1. m - 1 \in (m - 1)..(n + 2) /\ m - 1 < m
      BY <1>1, <2>2
    <3>2. \A i \in m..(n + 2) : i \in (m - 1)..(n + 2) /\ ~(i < m)
      BY <1>1, <2>2
    <3>3. QED
      BY Zenon, <3>1, <3>2
  <2> HIDE DEF g
  <2>8. DecodesFrom(d, g, m - 1)
    <3>1. ASSUME NEW i \in (m - 1)..(n + 2)
          PROVE  g[i] = IF i > n THEN <<>>
                        ELSE IF Decoded(d, i) # <<>> THEN Decoded(d, i) \o g[i + 2]
                        ELSE <<d[i]>> \o g[i + 1]
      <4>1. CASE i = m - 1
        <5>1. ~(i > n) /\ i + 2 = m + 1 /\ i + 1 = m /\ g[m] = f[m] /\ g[m + 1] = f[m + 1]
          BY <1>1, <2>4, <2>7, <4>1
        <5>2. QED
          BY <2>7, <4>1, <5>1
      <4>2. CASE i # m - 1 /\ i > n
        <5>1. i \in m..(n + 2)
          BY <1>1, <2>2, <4>2
        <5>2. QED
          BY <2>3, <2>7, <4>2, <5>1 DEF DecodesFrom
      <4>3. CASE i # m - 1 /\ ~(i > n)
        <5>1. i \in m..(n + 2) /\ i + 1 \in m..(n + 2) /\ i + 2 \in m..(n + 2)
          BY <1>1, <2>2, <4>3
        <5>2. f[i] = g[i] /\ f[i + 1] = g[i + 1] /\ f[i + 2] = g[i + 2]
          BY <2>7, <5>1
        <5>3. f[i] = IF i > Len(d) THEN <<>>
                     ELSE IF Decoded(d, i) # <<>> THEN Decoded(d, i) \o f[i + 2]
                     ELSE <<d[i]>> \o f[i + 1]
          BY <2>3, <5>1 DEF DecodesFrom
        <5>4. QED
          BY <4>3, <5>2, <5>3
      <4>4. QED
        BY <4>1, <4>2, <4>3
    <3>2. QED
      BY <3>1 DEF DecodesFrom
  <2> HIDE DEF M
  <2>9. \E h \in [M(k + 1)..(n + 2) -> Seq(Bytes)] : DecodesFrom(d, h, M(k + 1))
    BY <2>2, <2>6, <2>8
  <2>10. QED
    BY <2>2, <2>9
<1>4. \A k \in 0..n : k \in T
  <2> HIDE DEF T, n
  <2>1. QED
    BY <1>1, <1>2, <1>3, BoundedInduction
<1>5. PICK f \in [1..(n + 2) -> Seq(Bytes)] : DecodesFrom(d, f, 1)
  <2>1. M(n) = 1 /\ n \in 0..n
    BY <1>1
  <2> HIDE DEF M
  <2>2. QED
    BY <1>4, <2>1
<1>6. Decodes(d, f)
  BY <1>5 DEF Decodes, DecodesFrom
<1>7. QED
  BY <1>5, <1>6

\* What convert_from_netascii gives: two functions with this property are the same.
LEMMA DecodeValue ==
  ASSUME NEW d \in Seq(Bytes)
  PROVE  \E f \in [1..(Len(d) + 2) -> Seq(Bytes)] :
           DecodesFrom(d, f, 1) /\ convert_from_netascii(d) = f[1]
<1> DEFINE n == Len(d)
<1>1. n \in Nat
  BY LenProperties
<1>2. PICK f \in [1..(n + 2) -> Seq(Bytes)] : Decodes(d, f)
  BY DecodesExists
<1>3. PICK g : Decodes(d, g) /\ convert_from_netascii(d) = g[1]
  <2>1. \E h : Decodes(d, h)
    BY <1>2
  <2>2. QED
    BY <2>1 DEF convert_from_netascii, Decodes
<1>4. DecodesFrom(d, f, 1) /\ DecodesFrom(d, g, 1)
  BY <1>2, <1>3 DEF Decodes, DecodesFrom
<1> DEFINE T == {k \in 0..(n + 1) : f[n + 2 - k] = g[n + 2 - k] /\ (k > 0 => f[n + 3 - k] = g[n + 3 - k])}
<1>5. 0 \in T
  <2>1. n + 2 \in 1..(n + 2) /\ n + 2 > n /\ 0 \in 0..(n + 1) /\ n + 2 - 0 = n + 2
    BY <1>1
  <2>2. f[n + 2] = <<>> /\ g[n + 2] = <<>>
    BY <1>4, <2>1 DEF DecodesFrom
  <2>3. QED
    BY <2>1, <2>2
<1>6. ASSUME NEW k \in 0..n, k \in T PROVE (k + 1) \in T
  <2>1. PICK i : i = n + 1 - k
    OBVIOUS
  <2>2. /\ i \in 1..(n + 1) /\ n + 2 - (k + 1) = i /\ n + 3 - (k + 1) = i + 1
        /\ n + 2 - k = i + 1 /\ n + 3 - k = i + 2 /\ k + 1 \in 0..(n + 1) /\ i \in 1..(n + 2)
        /\ (~(i > n) => k > 0)
    BY <1>1, <2>1
  <2>3. f[i + 1] = g[i + 1] /\ (k > 0 => f[i + 2] = g[i + 2])
    BY <1>6, <2>2
  <2>4. /\ f[i] = IF i > Len(d) THEN <<>>
                  ELSE IF Decoded(d, i) # <<>> THEN Decoded(d, i) \o f[i + 2]
                  ELSE <<d[i]>> \o f[i + 1]
        /\ g[i] = IF i > Len(d) THEN <<>>
                  ELSE IF Decoded(d, i) # <<>> THEN Decoded(d, i) \o g[i + 2]
                  ELSE <<d[i]>> \o g[i + 1]
    BY <1>4, <2>2 DEF DecodesFrom
  <2>5. f[i] = g[i]
    BY <2>2, <2>3, <2>4
  <2>6. QED
    BY <2>2, <2>3, <2>5
<1>7. \A k \in 0..(n + 1) : k \in T
  <2>1. n + 1 \in Nat /\ (n + 1) - 1 = n
    BY <1>1
  <2>2. \A k \in 0..((n + 1) - 1) : k \in T => (k + 1) \in T
    BY <1>6, <2>1
  <2> HIDE DEF T, n
  <2>3. QED
    BY <1>5, <2>1, <2>2, BoundedInduction
<1>8. f[1] = g[1]
  <2>1. n + 1 \in 0..(n + 1) /\ n + 2 - (n + 1) = 1
    BY <1>1
  <2>2. QED
    BY <1>7, <2>1
<1>9. QED
  BY <1>2, <1>3, <1>4, <1>8

\* A piece that is decoded by itself: a byte for itself, or a pair for the byte it encodes.
Encodes(X, Y) ==
  \/ \E b \in Bytes \ {"CR"} : X = <<b>> /\ Y = <<b>>
  \/ X = <<"CR", "LF">> /\ Y = <<"LF">>
  \/ X = <<"CR", "NUL">> /\ Y = <<"CR">>

\* Piece i of the converted data stands for piece i of the text: by itself, or as a CR that
\* stands for nothing when the LF of the file follows.
StandsFor(P, L, i) ==
  \/ Encodes(P[i], L[i])
  \/ i < Len(P) /\ P[i] = <<"CR">> /\ L[i] = <<>> /\ P[i + 1] = <<"LF">> /\ L[i + 1] = <<"LF">>

\* The position after a piece is one of those that are decoded.
LEMMA NextPosition ==
  ASSUME NEW a \in Nat, NEW b \in Nat, NEW e \in Nat, a <= e, b <= a
  PROVE  a + 1 \in 1..(e + 2) /\ b + 1 \in 1..(e + 2)
  OBVIOUS

\* X is in d, after position p.
At(d, p, X) == p + Len(X) <= Len(d) /\ \A k \in 1..Len(X) : d[p + k] = X[k]

\* Such a piece is decoded to what it stands for.
LEMMA DecodeOne ==
  ASSUME NEW d \in Seq(Bytes), NEW f \in [1..(Len(d) + 2) -> Seq(Bytes)], DecodesFrom(d, f, 1),
         NEW p \in Nat, NEW P \in Seq(Bytes), NEW L \in Seq(Bytes), At(d, p, P), Encodes(P, L)
  PROVE  f[p + 1] = L \o f[p + Len(P) + 1]
<1> USE DEF At, Encodes
<1>1. Len(d) \in Nat
  BY LenProperties
<1>2. CASE \E b \in Bytes \ {"CR"} : P = <<b>> /\ L = <<b>>
  <2>1. PICK b \in Bytes \ {"CR"} : P = <<b>> /\ L = <<b>>
    BY <1>2
  <2>2. Len(P) = 1 /\ P[1] = b
    BY <2>1
  <2>3. d[p + 1] = b /\ p + 1 \in 1..(Len(d) + 2) /\ ~(p + 1 > Len(d)) /\ (p + 1) + 1 = p + Len(P) + 1
    BY <1>1, <2>2
  <2>4. Decoded(d, p + 1) = <<>>
    BY <2>1, <2>3 DEF Decoded
  <2>5. f[p + 1] = <<d[p + 1]>> \o f[(p + 1) + 1]
    BY <2>3, <2>4 DEF DecodesFrom
  <2>6. QED
    BY <2>1, <2>3, <2>5
<1>3. ASSUME NEW e, NEW b, P = <<"CR", e>>, L = <<b>>, (e = "LF" /\ b = "LF") \/ (e = "NUL" /\ b = "CR")
      PROVE  f[p + 1] = L \o f[p + Len(P) + 1]
  <2>1. Len(P) = 2 /\ P[1] = "CR" /\ P[2] = e
    BY <1>3
  <2>2. /\ d[p + 1] = "CR" /\ d[p + 2] = e /\ p + 1 \in 1..(Len(d) + 2) /\ p + 1 < Len(d)
        /\ ~(p + 1 > Len(d)) /\ (p + 1) + 1 = p + 2 /\ (p + 1) + 2 = p + Len(P) + 1
    BY <1>1, <2>1
  <2>3. Decoded(d, p + 1) = <<b>>
    BY <1>3, <2>2 DEF Decoded
  <2>4. <<b>> # <<>>
    OBVIOUS
  <2>5. f[p + 1] = <<b>> \o f[(p + 1) + 2]
    BY <2>2, <2>3, <2>4 DEF DecodesFrom
  <2>6. QED
    BY <1>3, <2>2, <2>5
<1>4. QED
  BY <1>2, <1>3

\* Data whose pieces stand for those of a text is decoded to that text.
LEMMA DecodePieces ==
  ASSUME NEW P \in Seq(Seq(Bytes)), NEW L \in Seq(Seq(Bytes)), Len(P) = Len(L),
         \A i \in 1..Len(P) : StandsFor(P, L, i)
  PROVE  convert_from_netascii(FlattenSeq(P)) = FlattenSeq(L)
<1> DEFINE d == FlattenSeq(P)
           n == Len(P)
           p(i) == Len(Joined(P, i))
<1>1. d \in Seq(Bytes) /\ n \in Nat /\ n = Len(L) /\ Len(d) \in Nat
  BY FlattenType, LenProperties
<1>2. PICK f \in [1..(Len(d) + 2) -> Seq(Bytes)] :
        DecodesFrom(d, f, 1) /\ convert_from_netascii(d) = f[1]
  BY <1>1, DecodeValue
<1>3. p(0) = 0 /\ p(n) = Len(d) /\ \A i \in 0..n : p(i) \in Nat
  BY JoinedEnds
<1>4. ASSUME NEW i \in 1..n
      PROVE  /\ P[i] \in Seq(Bytes) /\ L[i] \in Seq(Bytes) /\ Len(P[i]) \in Nat
             /\ p(i - 1) \in Nat /\ p(i) = p(i - 1) + Len(P[i]) /\ p(i) <= Len(d)
             /\ \A k \in 1..Len(P[i]) : d[p(i - 1) + k] = P[i][k]
             /\ Joined(L, i) = Joined(L, i - 1) \o L[i] /\ Joined(L, i - 1) \in Seq(Bytes)
  <2>1. P[i] \in Seq(Bytes) /\ p(i) = p(i - 1) + Len(P[i])
    BY JoinedStep
  <2>2. /\ p(i - 1) \in Nat /\ Len(P[i]) \in Nat /\ p(i - 1) + Len(P[i]) <= Len(d)
        /\ \A k \in 1..Len(P[i]) : d[p(i - 1) + k] = P[i][k]
    BY JoinedPiece
  <2>3. Joined(L, i) = Joined(L, i - 1) \o L[i] /\ Joined(L, i - 1) \in Seq(Bytes) /\ L[i] \in Seq(Bytes)
    BY <1>1, JoinedStep
  <2> HIDE DEF p, d
  <2>4. QED
    BY <2>1, <2>2, <2>3
<1>5. \A i \in 1..n : StandsFor(P, L, i)
  OBVIOUS
<1>6. Joined(L, 0) = <<>> /\ Joined(L, n) = FlattenSeq(L)
  BY <1>1, JoinedEnds
<1> HIDE DEF d, n, p
\* A CR that waits for its LF is still to be decoded.
<1> DEFINE Waits(i) == i > 0 /\ P[i] = <<"CR">>
           T == {i \in 0..n : /\ ~Waits(i) => Joined(L, i) \o f[p(i) + 1] = f[1]
                              /\ Waits(i) => /\ Joined(L, i) \o f[p(i - 1) + 1] = f[1]
                                             /\ i < n /\ P[i + 1] = <<"LF">> /\ L[i + 1] = <<"LF">>}
<1>7. 0 \in T
  <2>1. f[1] \in Seq(Bytes) /\ p(0) + 1 = 1
    <3>1. 1 \in 1..(Len(d) + 2) /\ p(0) + 1 = 1
      BY <1>1, <1>3
    <3>2. QED
      BY <1>2, <3>1
  <2>2. Joined(L, 0) \o f[p(0) + 1] = f[1]
    BY <1>6, <2>1, ConcatEmptySeq
  <2>3. QED
    BY <1>1, <2>2
<1>8. ASSUME NEW j \in 0..(n - 1), j \in T PROVE (j + 1) \in T
  <2>1. PICK i : i = j + 1
    OBVIOUS
  <2>2. i \in 1..n /\ i \in 0..n /\ i - 1 = j /\ i > 0
    BY <1>1, <2>1
  <2>3. /\ P[i] \in Seq(Bytes) /\ L[i] \in Seq(Bytes) /\ Len(P[i]) \in Nat
        /\ p(j) \in Nat /\ p(i) = p(j) + Len(P[i]) /\ p(i) <= Len(d)
        /\ \A k \in 1..Len(P[i]) : d[p(j) + k] = P[i][k]
        /\ Joined(L, i) = Joined(L, j) \o L[i] /\ Joined(L, j) \in Seq(Bytes)
    BY <1>4, <2>2
  <2>4. f[p(i) + 1] \in Seq(Bytes) /\ f[p(j) + 1] \in Seq(Bytes)
    <3>1. p(j) \in Nat /\ Len(P[i]) \in Nat /\ p(i) = p(j) + Len(P[i]) /\ p(i) <= Len(d)
      BY <2>3
    <3>2. p(i) \in Nat /\ p(j) <= p(i)
      BY <3>1
    <3>3. p(i) + 1 \in 1..(Len(d) + 2) /\ p(j) + 1 \in 1..(Len(d) + 2)
      BY ONLY <1>1, <3>1, <3>2, NextPosition
    <3>4. QED
      BY <1>2, <3>3
  <2>5. ASSUME NEW x \in Seq(Bytes), Joined(L, j) \o x = f[1], x = L[i] \o f[p(i) + 1]
        PROVE  Joined(L, i) \o f[p(i) + 1] = f[1]
    <3>1. PICK y \in Seq(Bytes) : y = f[p(i) + 1]
      BY <2>4
    <3>2. (Joined(L, j) \o L[i]) \o y = Joined(L, j) \o (L[i] \o y)
      <4>1. PICK s \in Seq(Bytes), t \in Seq(Bytes) : s = Joined(L, j) /\ t = L[i]
        BY <2>3
      <4>2. Cat(Cat(s, t), y) = Cat(s, Cat(t, y))
        BY CatAssociative
      <4>3. QED
        BY <4>1, <4>2 DEF Cat
    <3>3. QED
      BY <2>3, <2>5, <3>1, <3>2
  <2>6. CASE Waits(j)
    <3>1. j \in 1..n /\ P[j] = <<"CR">> /\ P[i] = <<"LF">> /\ L[i] = <<"LF">>
      BY <1>1, <1>8, <2>1, <2>6
    <3>2. Joined(L, j) \o f[p(j - 1) + 1] = f[1]
      BY <1>8, <2>6
    <3>3. /\ p(j - 1) \in Nat /\ p(j) = p(j - 1) + Len(P[j])
          /\ \A k \in 1..Len(P[j]) : d[p(j - 1) + k] = P[j][k]
      BY <1>4, <3>1
    <3>4. PICK q \in Nat : q = p(j - 1)
      BY <3>3
    <3>5. Len(P[j]) = 1 /\ P[j][1] = "CR" /\ Len(P[i]) = 1 /\ P[i][1] = "LF"
      BY <3>1
    <3>6. p(j) = q + 1 /\ p(i) = q + 2 /\ q + 2 <= Len(d)
      <4>1. p(j) = q + 1
        BY <3>3, <3>4, <3>5
      <4>2. p(i) = (q + 1) + 1 /\ p(i) <= Len(d)
        BY <2>3, <3>5, <4>1
      <4>3. QED
        BY <4>1, <4>2
    <3>7. d[q + 1] = "CR" /\ d[q + 2] = "LF"
      <4>1. d[q + 1] = "CR"
        BY <3>3, <3>4, <3>5
      <4>2. d[p(j) + 1] = "LF"
        BY <2>3, <3>5
      <4>3. p(j) + 1 = q + 2
        BY <3>6
      <4>4. QED
        BY <4>1, <4>2, <4>3
    <3>8. Decoded(d, q + 1) = <<"LF">>
      <4>1. q + 1 < Len(d) /\ (q + 1) + 1 = q + 2
        BY <1>1, <3>6
      <4>2. QED
        BY <3>7, <4>1 DEF Decoded
    <3>9. f[q + 1] = <<"LF">> \o f[p(i) + 1]
      <4>1. q + 1 \in 1..(Len(d) + 2) /\ ~(q + 1 > Len(d)) /\ (q + 1) + 2 = p(i) + 1
        BY <1>1, <3>6
      <4>2. <<"LF">> # <<>>
        OBVIOUS
      <4>3. QED
        BY <1>2, <3>8, <4>1, <4>2 DEF DecodesFrom
    <3>10. f[q + 1] \in Seq(Bytes) /\ f[q + 1] = L[i] \o f[p(i) + 1]
      <4>1. f[q + 1] = L[i] \o f[p(i) + 1]
        BY <3>1, <3>9
      <4>2. L[i] \o f[p(i) + 1] \in Seq(Bytes)
        BY <2>3, <2>4, ConcatProperties
      <4>3. QED
        BY <4>1, <4>2
    <3>11. Joined(L, i) \o f[p(i) + 1] = f[1]
      BY <2>5, <3>2, <3>4, <3>10
    <3>12. ~Waits(i)
      <4>1. <<"LF">> # <<"CR">>
        OBVIOUS
      <4>2. QED
        BY <3>1, <4>1
    <3> HIDE DEF Waits
    <3>13. QED
      BY <2>1, <2>2, <3>11, <3>12
  <2>7. CASE ~Waits(j) /\ P[i] = <<"CR">>
    <3>1. Joined(L, j) \o f[p(j) + 1] = f[1]
      BY <1>8, <2>7
    <3>2. i < n /\ L[i] = <<>> /\ P[i + 1] = <<"LF">> /\ L[i + 1] = <<"LF">>
      <4>1. <<"CR">> # <<"CR", "LF">> /\ <<"CR">> # <<"CR", "NUL">> /\ \A b \in Bytes \ {"CR"} : <<b>> # <<"CR">>
        OBVIOUS
      <4>2. QED
        BY <1>5, <2>2, <2>7, <4>1 DEF StandsFor, Encodes, n
    <3>3. Joined(L, i) = Joined(L, j)
      BY <2>3, <3>2, ConcatEmptySeq
    <3>4. Waits(i) /\ Joined(L, i) \o f[p(i - 1) + 1] = f[1]
      BY <2>2, <2>7, <3>1, <3>3
    <3> HIDE DEF Waits
    <3>5. QED
      BY <2>1, <2>2, <3>2, <3>4
  <2>8. CASE ~Waits(j) /\ P[i] # <<"CR">>
    <3>1. Joined(L, j) \o f[p(j) + 1] = f[1]
      BY <1>8, <2>8
    <3>2. Encodes(P[i], L[i])
      BY <1>5, <2>2, <2>8 DEF StandsFor
    <3>3. f[p(j) + 1] = L[i] \o f[p(j) + Len(P[i]) + 1]
      <4>1. PICK q \in Nat, X \in Seq(Bytes), Y \in Seq(Bytes) : q = p(j) /\ X = P[i] /\ Y = L[i]
        BY <2>3
      <4>2. At(d, q, X)
        BY <2>3, <4>1 DEF At
      <4>3. Encodes(X, Y)
        BY <3>2, <4>1
      <4>4. d \in Seq(Bytes) /\ DecodesFrom(d, f, 1)
        BY <1>1, <1>2
      <4>5. f[q + 1] = Y \o f[q + Len(X) + 1]
        BY <4>2, <4>3, <4>4, DecodeOne
      <4>6. QED
        BY <4>1, <4>5
    <3>4. f[p(j) + 1] = L[i] \o f[p(i) + 1]
      BY <2>3, <3>3
    <3>5. Joined(L, i) \o f[p(i) + 1] = f[1] /\ ~Waits(i)
      BY <2>4, <2>5, <2>8, <3>1, <3>4
    <3> HIDE DEF Waits
    <3>6. QED
      BY <2>1, <2>2, <3>5
  <2>9. QED
    BY <2>6, <2>7, <2>8
<1>9. \A i \in 0..n : i \in T
  <2> HIDE DEF T
  <2>1. QED
    BY <1>1, <1>7, <1>8, BoundedInduction
<1>10. ~Waits(n) /\ Joined(L, n) \o f[p(n) + 1] = f[1]
  <2>1. n \in 0..n /\ ~(n < n)
    BY <1>1
  <2> HIDE DEF Waits
  <2>2. QED
    BY <1>9, <2>1
<1>11. f[p(n) + 1] = <<>>
  <2>1. p(n) + 1 \in 1..(Len(d) + 2) /\ p(n) + 1 > Len(d)
    BY <1>1, <1>3
  <2>2. QED
    BY <1>2, <2>1 DEF DecodesFrom
<1>12. FlattenSeq(L) \in Seq(Bytes) /\ FlattenSeq(L) \o <<>> = FlattenSeq(L)
  BY FlattenType, ConcatEmptySeq
<1>13. QED
  BY <1>2, <1>6, <1>10, <1>11, <1>12 DEF d

\* lib.rs: the pieces stand for the bytes of the file.
LEMMA LibStandsFor ==
  ASSUME NEW d \in Seq(Bytes), NEW i \in 1..Len(d)
  PROVE  StandsFor(LibPieces(d), BytePieces(d), i)
<1>1. d[i] \in Bytes /\ LibPieces(d)[i] = LibByte(d[i]) /\ BytePieces(d)[i] = <<d[i]>>
  BY ElementOfSeq DEF LibPieces, BytePieces
<1>2. CASE d[i] = "LF"
  BY <1>1, <1>2 DEF StandsFor, Encodes, LibByte
<1>3. CASE d[i] = "CR"
  BY <1>1, <1>3 DEF StandsFor, Encodes, LibByte
<1>4. CASE d[i] \notin {"CR", "LF"}
  <2>1. d[i] \in Bytes \ {"CR"} /\ LibByte(d[i]) = <<d[i]>>
    BY <1>1, <1>4 DEF LibByte
  <2>2. QED
    BY <1>1, <2>1 DEF StandsFor, Encodes
<1>5. QED
  BY <1>2, <1>3, <1>4

\* main.rs: the pieces stand for those of the text with each CR LF as LF.
LEMMA MainStandsFor ==
  ASSUME NEW d \in Seq(Bytes), NEW i \in 1..Len(d)
  PROVE  StandsFor(MainPieces(d), LinePieces(d), i)
<1> DEFINE P == MainPieces(d)
           L == LinePieces(d)
           n == Len(d)
<1>1. n \in Nat /\ d[i] \in Bytes /\ Len(P) = n
  BY ElementOfSeq, LenProperties, PieceTypes
<1>2. \A j \in 1..n : P[j] = MainPiece(d, j) /\ L[j] = LinePiece(d, j)
  BY DEF MainPieces, LinePieces
<1> HIDE DEF P, L
<1>3. CASE d[i] = "LF"
  <2>1. L[i] = <<"LF">>
    BY <1>2, <1>3 DEF LinePiece
  <2>2. P[i] = <<"LF">> \/ P[i] = <<"CR", "LF">>
    BY <1>2, <1>3 DEF MainPiece
  <2>3. "LF" \in Bytes \ {"CR"}
    BY DEF Bytes
  <2>4. StandsFor(P, L, i)
    BY <2>1, <2>2, <2>3 DEF StandsFor, Encodes
  <2>5. QED
    BY <2>4 DEF P, L
<1>4. CASE d[i] = "CR" /\ i < n /\ d[i + 1] = "LF"
  <2>1. P[i] = <<"CR">> /\ L[i] = <<>>
    BY <1>2, <1>4 DEF MainPiece, LinePiece
  <2>2. i + 1 \in 1..n /\ i + 1 > 1 /\ (i + 1) - 1 = i
    BY <1>1, <1>4
  <2>3. P[i + 1] = <<"LF">> /\ L[i + 1] = <<"LF">>
    BY <1>2, <1>4, <2>2 DEF MainPiece, LinePiece
  <2>4. StandsFor(P, L, i)
    BY <1>1, <1>4, <2>1, <2>3 DEF StandsFor
  <2>5. QED
    BY <2>4 DEF P, L
<1>5. CASE d[i] = "CR" /\ ~(i < n /\ d[i + 1] = "LF")
  <2>1. P[i] = <<"CR", "NUL">> /\ L[i] = <<"CR">>
    BY <1>2, <1>5 DEF MainPiece, LinePiece
  <2>2. StandsFor(P, L, i)
    BY <2>1 DEF StandsFor, Encodes
  <2>3. QED
    BY <2>2 DEF P, L
<1>6. CASE d[i] \notin {"CR", "LF"}
  <2>1. d[i] \in Bytes \ {"CR"} /\ P[i] = <<d[i]>> /\ L[i] = <<d[i]>>
    BY <1>1, <1>2, <1>6 DEF MainPiece, LinePiece
  <2>2. StandsFor(P, L, i)
    BY <2>1 DEF StandsFor, Encodes
  <2>3. QED
    BY <2>2 DEF P, L
<1>7. QED
  BY <1>3, <1>4, <1>5, <1>6

\* The text of any file survives the conversion, in either program.
LEMMA RoundTrip ==
  ASSUME NEW d \in Seq(Bytes)
  PROVE  /\ convert_from_netascii(convert_to_netascii_lib(d)) = d
         /\ convert_from_netascii(convert_to_netascii_main(d)) = UnixLines(d)
<1>1. convert_from_netascii(FlattenSeq(LibPieces(d))) = FlattenSeq(BytePieces(d))
  BY PieceTypes, LibStandsFor, DecodePieces
<1>2. convert_from_netascii(FlattenSeq(MainPieces(d))) = FlattenSeq(LinePieces(d))
  BY PieceTypes, MainStandsFor, DecodePieces
<1>3. QED
  BY <1>1, <1>2, LibIsPieces, MainIsPieces, LinesIsPieces, FileIsPieces

---------------------------------------------------------------------------
(* Converting a file in parts. *)

\* Either conversion gives bytes.
LEMMA ConvertType ==
  ASSUME NEW d \in Seq(Bytes)
  PROVE  Convert(d) \in Seq(Bytes) /\ Len(Convert(d)) \in Nat
<1>1. FlattenSeq(MainPieces(d)) \in Seq(Bytes) /\ FlattenSeq(LibPieces(d)) \in Seq(Bytes)
  BY PieceTypes, FlattenType
<1>2. QED
  BY <1>1, MainIsPieces, LibIsPieces, LenProperties DEF Convert

\* lib.rs: no file becomes shorter, and none becomes another empty one.
LEMMA LibLength ==
  ASSUME NEW d \in Seq(Bytes)
  PROVE  /\ Len(convert_to_netascii_lib(d)) >= Len(d)
         /\ d = <<>> => convert_to_netascii_lib(d) = <<>>
<1> DEFINE P == BytePieces(d)
           Q == LibPieces(d)
<1>1. P \in Seq(Seq(Bytes)) /\ Q \in Seq(Seq(Bytes)) /\ Len(P) = Len(d) /\ Len(Q) = Len(d) /\ Len(d) \in Nat
  BY PieceTypes, LenProperties
<1>2. ASSUME NEW i \in 1..Len(P) PROVE Len(P[i]) <= Len(Q[i])
  <2>1. d[i] \in Bytes /\ P[i] = <<d[i]>> /\ Q[i] = LibByte(d[i])
    BY <1>1, ElementOfSeq DEF BytePieces, LibPieces
  <2>2. Len(P[i]) = 1 /\ (Len(Q[i]) = 1 \/ Len(Q[i]) = 2)
    BY <2>1, LibByteType
  <2> HIDE DEF P, Q
  <2>3. CASE Len(Q[i]) = 1
    BY <1>1, <2>2, <2>3
  <2>4. CASE Len(Q[i]) = 2
    BY <1>1, <2>2, <2>4
  <2>5. QED
    BY <2>2, <2>3, <2>4
<1> HIDE DEF P, Q
<1>3. Len(FlattenSeq(P)) \in Nat /\ Len(FlattenSeq(Q)) \in Nat /\ Len(FlattenSeq(P)) <= Len(FlattenSeq(Q))
  BY <1>1, <1>2, FlattenLonger
<1>4. FlattenSeq(P) = d /\ FlattenSeq(Q) = convert_to_netascii_lib(d)
  BY FileIsPieces, LibIsPieces DEF P, Q
<1>5. d = <<>> => Q = <<>>
  BY <1>1
<1>6. QED
  BY <1>1, <1>3, <1>4, <1>5, FlattenEmpty

\* lib.rs converts the parts of a file as it converts the whole.
LEMMA LibConcat ==
  ASSUME NEW s \in Seq(Bytes), NEW t \in Seq(Bytes)
  PROVE  convert_to_netascii_lib(s \o t) = convert_to_netascii_lib(s) \o convert_to_netascii_lib(t)
<1> DEFINE d == s \o t
           P == LibPieces(d)
           A == LibPieces(s)
           B == LibPieces(t)
<1>1. /\ d \in Seq(Bytes) /\ Len(s) \in Nat /\ Len(t) \in Nat /\ Len(d) = Len(s) + Len(t)
      /\ \A i \in 1..(Len(s) + Len(t)) : d[i] = IF i <= Len(s) THEN s[i] ELSE t[i - Len(s)]
  BY ConcatProperties, LenProperties
<1> HIDE DEF d
<1>2. /\ P \in Seq(Seq(Bytes)) /\ Len(P) = Len(d) /\ A \in Seq(Seq(Bytes)) /\ Len(A) = Len(s)
      /\ B \in Seq(Seq(Bytes)) /\ Len(B) = Len(t)
  BY <1>1, PieceTypes
<1>3. /\ A \o B \in Seq(Seq(Bytes)) /\ Len(A \o B) = Len(s) + Len(t)
      /\ \A i \in 1..(Len(s) + Len(t)) : (A \o B)[i] = IF i <= Len(s) THEN A[i] ELSE B[i - Len(s)]
  <2> HIDE DEF P, A, B
  <2>1. /\ A \o B \in Seq(Seq(Bytes)) /\ Len(A \o B) = Len(A) + Len(B)
        /\ \A i \in 1..(Len(A) + Len(B)) : (A \o B)[i] = IF i <= Len(A) THEN A[i] ELSE B[i - Len(A)]
    BY <1>2, ConcatProperties
  <2>2. QED
    BY <1>2, <2>1
<1>4. ASSUME NEW i \in 1..(Len(s) + Len(t)) PROVE P[i] = (A \o B)[i]
  <2>1. P[i] = LibByte(d[i])
    BY <1>1 DEF LibPieces
  <2>2. CASE i <= Len(s)
    <3>1. A[i] = LibByte(s[i])
      BY <1>1, <2>2 DEF LibPieces
    <3> HIDE DEF P, A, B
    <3>2. QED
      BY <1>1, <1>3, <2>1, <2>2, <3>1
  <2>3. CASE ~(i <= Len(s))
    <3>1. i - Len(s) \in 1..Len(t)
      BY <1>1, <2>3
    <3>2. B[i - Len(s)] = LibByte(t[i - Len(s)])
      BY <3>1 DEF LibPieces
    <3> HIDE DEF P, A, B
    <3>3. QED
      BY <1>1, <1>3, <2>1, <2>3, <3>2
  <2>4. QED
    BY <2>2, <2>3
<1> HIDE DEF P, A, B
<1>5. P = A \o B
  BY <1>1, <1>2, <1>3, <1>4, SeqEqual
<1>6. FlattenSeq(P) = FlattenSeq(A) \o FlattenSeq(B)
  BY <1>2, <1>5, FlattenConcat
<1>7. QED
  BY <1>1, <1>6, LibIsPieces DEF P, A, B, d

\* The first part ends between a CR and its LF.
SplitAt(s, t) == s # <<>> /\ t # <<>> /\ s[Len(s)] = "CR" /\ t[1] = "LF"

\* main.rs: a byte of the first part, but for its last one, is converted as in the whole.
LEMMA PieceOfFirst ==
  ASSUME NEW s \in Seq(Bytes), NEW t \in Seq(Bytes), NEW i \in 1..Len(s)
  PROVE  IF SplitAt(s, t) /\ i = Len(s)
         THEN MainPiece(s \o t, i) = <<"CR">> /\ MainPiece(s, i) = <<"CR", "NUL">>
         ELSE MainPiece(s \o t, i) = MainPiece(s, i)
<1> DEFINE d == s \o t
<1>1. /\ d \in Seq(Bytes) /\ Len(s) \in Nat /\ Len(t) \in Nat /\ Len(d) = Len(s) + Len(t)
      /\ \A j \in 1..(Len(s) + Len(t)) : d[j] = IF j <= Len(s) THEN s[j] ELSE t[j - Len(s)]
  BY ConcatProperties, LenProperties
<1> HIDE DEF d
<1>2. d[i] = s[i] /\ (i > 1 => d[i - 1] = s[i - 1]) /\ (i < Len(s) => d[i + 1] = s[i + 1])
  <2>1. i \in 1..(Len(s) + Len(t)) /\ i <= Len(s)
    BY <1>1
  <2>2. i > 1 => i - 1 \in 1..(Len(s) + Len(t)) /\ i - 1 <= Len(s)
    BY <1>1
  <2>3. i < Len(s) => i + 1 \in 1..(Len(s) + Len(t)) /\ i + 1 <= Len(s)
    BY <1>1
  <2>4. QED
    BY <1>1, <2>1, <2>2, <2>3
<1>3. ASSUME i = Len(s), t # <<>> PROVE d[i + 1] = t[1] /\ i < Len(d)
  <2>1. Len(t) # 0
    BY <1>3, EmptySeq
  <2>2. i + 1 \in 1..(Len(s) + Len(t)) /\ ~(i + 1 <= Len(s)) /\ (i + 1) - Len(s) = 1
    BY <1>1, <1>3, <2>1
  <2>3. QED
    BY <1>1, <2>2
<1>4. ASSUME i = Len(s), t = <<>> PROVE ~(i < Len(d))
  BY <1>1, <1>4
<1>5. CASE SplitAt(s, t) /\ i = Len(s)
  <2>1. d[i] = "CR" /\ d[i + 1] = "LF" /\ i < Len(d) /\ s[i] = "CR" /\ ~(i < Len(s))
    BY <1>1, <1>2, <1>3, <1>5 DEF SplitAt
  <2>2. MainPiece(d, i) = <<"CR">> /\ MainPiece(s, i) = <<"CR", "NUL">>
    BY <2>1 DEF MainPiece
  <2>3. QED
    BY <1>5, <2>2 DEF d
<1>6. CASE ~(SplitAt(s, t) /\ i = Len(s))
  <2>1. CASE s[i] = "LF"
    <3>1. MainPiece(d, i) = MainPiece(s, i)
      BY <1>2, <2>1 DEF MainPiece
    <3>2. QED
      BY <1>6, <3>1 DEF d
  <2>2. CASE s[i] = "CR"
    <3>1. (i < Len(d) /\ d[i + 1] = "LF") <=> (i < Len(s) /\ s[i + 1] = "LF")
      <4>1. CASE i < Len(s)
        <5>1. i < Len(d)
          BY <1>1, <4>1
        <5>2. QED
          BY <1>2, <4>1, <5>1
      <4>2. CASE ~(i < Len(s))
        <5>1. i = Len(s) /\ s # <<>>
          BY <1>1, <4>2
        <5>2. ~(i < Len(d) /\ d[i + 1] = "LF")
          BY <1>3, <1>4, <1>6, <2>2, <5>1 DEF SplitAt
        <5>3. QED
          BY <4>2, <5>2
      <4>3. QED
        BY <4>1, <4>2
    <3>2. MainPiece(d, i) = MainPiece(s, i)
      BY <1>2, <2>2, <3>1 DEF MainPiece
    <3>3. QED
      BY <1>6, <3>2 DEF d
  <2>3. CASE s[i] \notin {"CR", "LF"}
    <3>1. MainPiece(d, i) = MainPiece(s, i)
      BY <1>2, <2>3 DEF MainPiece
    <3>2. QED
      BY <1>6, <3>1 DEF d
  <2>4. QED
    BY <2>1, <2>2, <2>3
<1>7. QED
  BY <1>5, <1>6

\* main.rs: so is a byte of the second part, but for its first one.
LEMMA PieceOfSecond ==
  ASSUME NEW s \in Seq(Bytes), NEW t \in Seq(Bytes), NEW i \in 1..Len(t)
  PROVE  IF SplitAt(s, t) /\ i = 1
         THEN MainPiece(s \o t, Len(s) + i) = <<"LF">> /\ MainPiece(t, i) = <<"CR", "LF">>
         ELSE MainPiece(s \o t, Len(s) + i) = MainPiece(t, i)
<1> DEFINE d == s \o t
           k == Len(s) + i
<1>1. /\ d \in Seq(Bytes) /\ Len(s) \in Nat /\ Len(t) \in Nat /\ Len(d) = Len(s) + Len(t)
      /\ \A j \in 1..(Len(s) + Len(t)) : d[j] = IF j <= Len(s) THEN s[j] ELSE t[j - Len(s)]
  BY ConcatProperties, LenProperties
<1> HIDE DEF d
<1>2. /\ k \in Nat /\ d[k] = t[i] /\ (i > 1 => d[k - 1] = t[i - 1]) /\ (i < Len(t) => d[k + 1] = t[i + 1])
      /\ (k < Len(d) <=> i < Len(t)) /\ (i > 1 => k > 1)
  <2>1. k \in 1..(Len(s) + Len(t)) /\ ~(k <= Len(s)) /\ k - Len(s) = i
    BY <1>1
  <2>2. i > 1 => k - 1 \in 1..(Len(s) + Len(t)) /\ ~(k - 1 <= Len(s)) /\ (k - 1) - Len(s) = i - 1
    BY <1>1
  <2>3. i < Len(t) => k + 1 \in 1..(Len(s) + Len(t)) /\ ~(k + 1 <= Len(s)) /\ (k + 1) - Len(s) = i + 1
    BY <1>1
  <2>4. (k < Len(d) <=> i < Len(t)) /\ (i > 1 => k > 1)
    BY <1>1
  <2> HIDE DEF k
  <2>5. k \in Nat /\ d[k] = t[i]
    <3>1. k \in Nat
      BY <1>1 DEF k
    <3>2. d[k] = t[k - Len(s)]
      BY <1>1, <2>1
    <3>3. QED
      BY <2>1, <3>1, <3>2
  <2>6. i > 1 => d[k - 1] = t[i - 1]
    BY <1>1, <2>2
  <2>7. i < Len(t) => d[k + 1] = t[i + 1]
    BY <1>1, <2>3
  <2>8. QED
    BY <2>4, <2>5, <2>6, <2>7
<1>3. ASSUME i = 1, s # <<>> PROVE d[k - 1] = s[Len(s)] /\ k > 1
  <2>1. Len(s) # 0
    BY <1>3, EmptySeq
  <2>2. Len(s) \in 1..(Len(s) + Len(t)) /\ k - 1 = Len(s) /\ k > 1
    BY <1>1, <1>3, <2>1
  <2> HIDE DEF k
  <2>3. QED
    BY <1>1, <2>2
<1>4. ASSUME i = 1, s = <<>> PROVE ~(k > 1)
  BY <1>1, <1>4
<1>5. t # <<>>
  BY <1>1
<1> HIDE DEF k
<1>6. CASE SplitAt(s, t) /\ i = 1
  <2>1. d[k] = "LF" /\ d[k - 1] = "CR" /\ k > 1 /\ t[i] = "LF" /\ ~(i > 1)
    BY <1>1, <1>2, <1>3, <1>6 DEF SplitAt
  <2>2. MainPiece(d, k) = <<"LF">> /\ MainPiece(t, i) = <<"CR", "LF">>
    BY <2>1 DEF MainPiece
  <2>3. QED
    BY <1>6, <2>2 DEF d, k
<1>7. CASE ~(SplitAt(s, t) /\ i = 1)
  <2>1. CASE t[i] = "CR"
    <3>1. MainPiece(d, k) = MainPiece(t, i)
      BY <1>2, <2>1 DEF MainPiece
    <3>2. QED
      BY <1>7, <3>1 DEF d, k
  <2>2. CASE t[i] = "LF"
    <3>1. (k > 1 /\ d[k - 1] = "CR") <=> (i > 1 /\ t[i - 1] = "CR")
      <4>1. CASE i > 1
        BY <1>2, <4>1
      <4>2. CASE ~(i > 1)
        <5>1. i = 1
          BY <4>2
        <5>2. ~(k > 1 /\ d[k - 1] = "CR")
          BY <1>3, <1>4, <1>5, <1>7, <2>2, <5>1 DEF SplitAt
        <5>3. QED
          BY <4>2, <5>2
      <4>3. QED
        BY <4>1, <4>2
    <3>2. MainPiece(d, k) = MainPiece(t, i)
      BY <1>2, <2>2, <3>1 DEF MainPiece
    <3>3. QED
      BY <1>7, <3>2 DEF d, k
  <2>3. CASE t[i] \notin {"CR", "LF"}
    <3>1. MainPiece(d, k) = MainPiece(t, i)
      BY <1>2, <2>3 DEF MainPiece
    <3>2. QED
      BY <1>7, <3>1 DEF d, k
  <2>4. QED
    BY <2>1, <2>2, <2>3
<1>8. QED
  BY <1>6, <1>7

\* main.rs converts the parts of a file as it converts the whole, unless they split a line
\* end: then the parts are longer.
LEMMA MainConcat ==
  ASSUME NEW s \in Seq(Bytes), NEW t \in Seq(Bytes)
  PROVE  LET whole == convert_to_netascii_main(s \o t)
             parts == convert_to_netascii_main(s) \o convert_to_netascii_main(t)
         IN  IF SplitAt(s, t) THEN Len(whole) < Len(parts) ELSE whole = parts
<1> DEFINE d == s \o t
           P == MainPieces(d)
           A == MainPieces(s)
           B == MainPieces(t)
           n == Len(s) + Len(t)
<1>1. d \in Seq(Bytes) /\ Len(s) \in Nat /\ Len(t) \in Nat /\ Len(d) = n /\ n \in Nat
  BY ConcatProperties, LenProperties
<1>2. /\ P \in Seq(Seq(Bytes)) /\ Len(P) = n /\ A \in Seq(Seq(Bytes)) /\ Len(A) = Len(s)
      /\ B \in Seq(Seq(Bytes)) /\ Len(B) = Len(t)
  BY <1>1, PieceTypes
<1> DEFINE C == A \o B
<1>3. /\ C \in Seq(Seq(Bytes)) /\ Len(C) = n
      /\ \A i \in 1..n : C[i] = IF i <= Len(s) THEN A[i] ELSE B[i - Len(s)]
  <2> HIDE DEF P, A, B, d, n
  <2>1. /\ C \in Seq(Seq(Bytes)) /\ Len(C) = Len(A) + Len(B)
        /\ \A i \in 1..(Len(A) + Len(B)) : C[i] = IF i <= Len(A) THEN A[i] ELSE B[i - Len(A)]
    BY <1>2, ConcatProperties
  <2>2. QED
    BY <1>2, <2>1 DEF n
<1>4. \A i \in 1..n : P[i] = MainPiece(d, i)
  BY <1>1 DEF MainPieces
<1>5. \A i \in 1..Len(s) : A[i] = MainPiece(s, i)
  BY DEF MainPieces
<1>6. \A i \in 1..Len(t) : B[i] = MainPiece(t, i)
  BY DEF MainPieces
<1>7. /\ convert_to_netascii_main(d) = FlattenSeq(P)
      /\ convert_to_netascii_main(s) \o convert_to_netascii_main(t) = FlattenSeq(C)
  <2>1. /\ convert_to_netascii_main(d) = FlattenSeq(P) /\ convert_to_netascii_main(s) = FlattenSeq(A)
        /\ convert_to_netascii_main(t) = FlattenSeq(B)
    BY <1>1, MainIsPieces
  <2> HIDE DEF P, A, B
  <2>2. FlattenSeq(C) = FlattenSeq(A) \o FlattenSeq(B)
    BY <1>2, FlattenConcat
  <2> HIDE DEF C
  <2>3. QED
    BY <2>1, <2>2
<1>8. ASSUME NEW i \in 1..n
      PROVE  IF SplitAt(s, t) /\ (i = Len(s) \/ i = Len(s) + 1)
             THEN Len(P[i]) = 1 /\ Len(C[i]) = 2
             ELSE P[i] = C[i]
  <2>1. CASE i <= Len(s)
    <3>1. i \in 1..Len(s) /\ i # Len(s) + 1
      BY <1>1, <2>1
    <3>2. P[i] = MainPiece(d, i) /\ C[i] = MainPiece(s, i)
      BY <1>3, <1>4, <1>5, <2>1, <3>1
    <3>3. IF SplitAt(s, t) /\ i = Len(s)
          THEN MainPiece(d, i) = <<"CR">> /\ MainPiece(s, i) = <<"CR", "NUL">>
          ELSE MainPiece(d, i) = MainPiece(s, i)
      BY <3>1, PieceOfFirst
    <3>4. Len(<<"CR">>) = 1 /\ Len(<<"CR", "NUL">>) = 2
      OBVIOUS
    <3> HIDE DEF P, C, d
    <3>5. QED
      BY <3>1, <3>2, <3>3, <3>4
  <2>2. CASE ~(i <= Len(s))
    <3>1. PICK j : j = i - Len(s)
      OBVIOUS
    <3>2. j \in 1..Len(t) /\ i = Len(s) + j /\ i # Len(s) /\ (i = Len(s) + 1 <=> j = 1)
      BY <1>1, <2>2, <3>1
    <3>3. P[i] = MainPiece(d, i) /\ C[i] = MainPiece(t, j)
      BY <1>3, <1>4, <1>6, <2>2, <3>1, <3>2
    <3>4. IF SplitAt(s, t) /\ j = 1
          THEN MainPiece(d, i) = <<"LF">> /\ MainPiece(t, j) = <<"CR", "LF">>
          ELSE MainPiece(d, i) = MainPiece(t, j)
      BY <3>2, PieceOfSecond
    <3>5. Len(<<"LF">>) = 1 /\ Len(<<"CR", "LF">>) = 2
      OBVIOUS
    <3> HIDE DEF P, C, d
    <3>6. QED
      BY <3>2, <3>3, <3>4, <3>5
  <2>3. QED
    BY <2>1, <2>2
<1>9. \A i \in 1..n : C[i] \in Seq(Bytes) /\ Len(C[i]) \in Nat
  <2> HIDE DEF C, n
  <2>1. QED
    BY <1>3, ElementOfSeq, LenProperties
<1>10. SplitAt(s, t) => Len(s) \in 1..n
  <2>1. SplitAt(s, t) => Len(s) # 0 /\ Len(t) # 0
    BY EmptySeq DEF SplitAt
  <2>2. QED
    BY <1>1, <2>1
<1> HIDE DEF P, A, B, C, n, d
<1>11. CASE SplitAt(s, t)
  <2>1. \A i \in 1..n : Len(P[i]) <= Len(C[i])
    <3>1. \A i \in 1..n : P[i] = C[i] \/ (Len(P[i]) = 1 /\ Len(C[i]) = 2)
      BY <1>8
    <3>2. ASSUME NEW i \in 1..n PROVE Len(P[i]) <= Len(C[i])
      <4>1. CASE P[i] = C[i]
        BY <1>9, <4>1
      <4>2. CASE Len(P[i]) = 1 /\ Len(C[i]) = 2
        BY <4>2
      <4>3. QED
        BY <3>1, <4>1, <4>2
    <3>3. QED
      BY <3>2
  <2>2. Len(s) \in 1..n /\ Len(P[Len(s)]) = 1 /\ Len(C[Len(s)]) = 2
    BY <1>8, <1>10, <1>11
  <2>3. \E i \in 1..n : Len(P[i]) < Len(C[i])
    <3>1. Len(P[Len(s)]) < Len(C[Len(s)])
      BY <2>2
    <3>2. QED
      BY <2>2, <3>1
  <2>4. Len(FlattenSeq(P)) < Len(FlattenSeq(C))
    BY <1>2, <1>3, <2>1, <2>3, FlattenLonger
  <2>5. QED
    BY <1>7, <1>11, <2>4 DEF d
<1>12. CASE ~SplitAt(s, t)
  <2>1. \A i \in 1..n : P[i] = C[i]
    BY <1>8, <1>12
  <2>2. P = C
    BY <1>2, <1>3, <2>1, SeqEqual
  <2>3. QED
    BY <1>7, <1>12, <2>2 DEF d
<1>13. QED
  BY <1>11, <1>12

\* The same for the conversion of the program that runs.
LEMMA ConvertConcat ==
  ASSUME NEW s \in Seq(Bytes), NEW t \in Seq(Bytes)
  PROVE  IF variant = "main" /\ SplitAt(s, t)
         THEN Len(Convert(s \o t)) < Len(Convert(s) \o Convert(t))
         ELSE Convert(s \o t) = Convert(s) \o Convert(t)
<1>1. CASE variant = "main"
  BY <1>1, MainConcat DEF Convert
<1>2. CASE variant # "main"
  BY <1>2, LibConcat DEF Convert
<1>3. QED
  BY <1>1, <1>2

---------------------------------------------------------------------------
(* Reads. *)

\* Multiples of a block size.
LEMMA Multiples ==
  ASSUME NEW b \in Nat \ {0}, NEW k \in Nat
  PROVE  k * b \in Nat /\ (k + 1) * b = k * b + b /\ 0 * b = 0 /\ k <= k * b
<1>1. k * b \in Nat /\ (k + 1) * b = k * b + b /\ 0 * b = 0
  OBVIOUS
<1>2. b >= 1 /\ k >= 0
  OBVIOUS
<1>3. k * b = k + k * (b - 1) /\ k * (b - 1) >= 0
  BY <1>2
<1>4. QED
  BY <1>1, <1>3

\* A smaller number has a smaller multiple.
LEMMA MultiplesGrow ==
  ASSUME NEW b \in Nat \ {0}, NEW j \in Nat, NEW k \in Nat
  PROVE  j <= k <=> j * b <= k * b
<1>1. ASSUME NEW x \in Nat, NEW y \in Nat, x <= y PROVE x * b <= y * b
  <2>1. PICK e \in Nat : y = x + e
    <3>1. y - x \in Nat /\ y = x + (y - x)
      BY <1>1
    <3>2. QED
      BY <3>1
  <2>2. y * b = x * b + e * b /\ e * b \in Nat /\ x * b \in Nat
    BY <2>1
  <2>3. QED
    BY <2>2
<1>2. ASSUME k < j PROVE k * b < j * b
  <2>1. k + 1 <= j
    BY <1>2
  <2>2. (k + 1) * b <= j * b
    BY <1>1, <2>1
  <2>3. (k + 1) * b = k * b + b /\ k * b \in Nat /\ j * b \in Nat
    BY Multiples
  <2>4. QED
    BY <2>2, <2>3
<1>3. j * b \in Nat /\ k * b \in Nat
  BY Multiples
<1>4. QED
  BY <1>1, <1>2, <1>3

\* How far a number of reads comes.
LEMMA CutIs ==
  ASSUME file \in Seq(Bytes), blksize \in Nat \ {0}, NEW k \in Nat
  PROVE  /\ Len(file) \in Nat /\ Cut(k) \in 0..Len(file) /\ Cut(0) = 0
         /\ k * blksize <= Len(file) => Cut(k) = k * blksize /\ ReadEnd(Cut(k)) = Cut(k + 1)
         /\ k * blksize >= Len(file) => Cut(k) = Len(file)
<1>1. Len(file) \in Nat /\ k * blksize \in Nat /\ (k + 1) * blksize = k * blksize + blksize /\ 0 * blksize = 0
  BY LenProperties, Multiples
<1>2. PICK m \in Nat : m = k * blksize
  BY <1>1
<1>3. /\ Cut(k) = IF m < Len(file) THEN m ELSE Len(file)
      /\ Cut(k + 1) = IF m + blksize < Len(file) THEN m + blksize ELSE Len(file)
      /\ Cut(0) = IF 0 < Len(file) THEN 0 ELSE Len(file)
  BY <1>1, <1>2 DEF Cut
<1>4. QED
  BY <1>1, <1>2, <1>3 DEF ReadEnd

\* A read, its length, and the part of the file that has been read after it.
LEMMA ReadIs ==
  ASSUME file \in Seq(Bytes), blksize \in Nat \ {0}, NEW k \in Nat, k * blksize <= Len(file)
  PROVE  /\ Read(Cut(k)) \in Seq(Bytes) /\ SubSeq(file, 1, Cut(k)) \in Seq(Bytes)
         /\ Len(Read(Cut(k))) \in Nat
         /\ Len(Read(Cut(k))) = Cut(k + 1) - Cut(k)
         /\ Len(Read(Cut(k))) <= blksize
         /\ Len(Read(Cut(k))) < blksize <=> (k + 1) * blksize > Len(file)
         /\ Len(Read(Cut(k))) = 0 <=> k * blksize = Len(file)
         /\ k * blksize < Len(file) => Read(Cut(k))[1] = file[Cut(k) + 1]
         /\ SubSeq(file, 1, Cut(k + 1)) = SubSeq(file, 1, Cut(k)) \o Read(Cut(k))
<1>1. PICK m \in Nat, n \in Nat, e \in Nat : m = Cut(k) /\ n = Len(file) /\ e = Cut(k + 1)
  <2>1. k + 1 \in Nat
    OBVIOUS
  <2>2. Len(file) \in Nat /\ Cut(k) \in 0..Len(file) /\ Cut(k + 1) \in 0..Len(file)
    BY <2>1, CutIs
  <2>3. Cut(k) \in Nat /\ Cut(k + 1) \in Nat
    BY <2>2
  <2>4. QED
    BY <2>2, <2>3
<1>2. /\ m = k * blksize /\ m <= n /\ e = (IF m + blksize < n THEN m + blksize ELSE n)
      /\ (k + 1) * blksize = m + blksize
      /\ ReadEnd(m) = e
  <2>1. (k + 1) * blksize = k * blksize + blksize
    BY Multiples
  <2>2. QED
    BY <1>1, <2>1, CutIs DEF Cut
<1>3. m + 1 \in Int /\ m <= e /\ e <= n /\ e - (m + 1) + 1 = e - m
  BY <1>2
<1>4. \A i \in 1..n : file[i] \in Bytes
  BY <1>1, ElementOfSeq
<1>5. \A i \in (m + 1)..e : file[i] \in Bytes
  BY <1>3, <1>4
<1>6. Read(m) = SubSeq(file, m + 1, e)
  BY <1>2 DEF Read
<1>7. /\ Read(m) \in Seq(Bytes)
      /\ Len(Read(m)) = IF m + 1 <= e THEN e - (m + 1) + 1 ELSE 0
      /\ \A i \in 1..(e - (m + 1) + 1) : Read(m)[i] = file[(m + 1) + i - 1]
  BY <1>3, <1>5, <1>6, SubSeqProperties
<1>8. Len(Read(m)) = e - m
  BY <1>3, <1>7
<1>9. m < n => Read(m)[1] = file[m + 1]
  <2>1. ASSUME m < n PROVE 1 \in 1..(e - (m + 1) + 1) /\ (m + 1) + 1 - 1 = m + 1
    BY <1>2, <2>1
  <2>2. QED
    BY <1>7, <2>1
<1>10. SubSeq(file, 1, m) \in Seq(Bytes) /\ SubSeq(file, 1, e) = SubSeq(file, 1, m) \o Read(m)
  <2>1. m \in 0..Len(file) /\ 1 \in 1..(Len(file) + 1) /\ m \in (1 - 1)..Len(file) /\ e \in m..Len(file)
    BY <1>1, <1>2, <1>3
  <2>2. SubSeq(file, 1, m) \o SubSeq(file, m + 1, e) = SubSeq(file, 1, e)
    BY <2>1, ConcatAdjacentSubSeq
  <2>3. QED
    BY <1>6, <2>1, <2>2, PrefixProperties
<1>11. /\ e - m \in Nat /\ e - m <= blksize /\ (e - m < blksize <=> m + blksize > n)
       /\ (e - m = 0 <=> m = n)
  BY <1>2
<1>12. /\ Len(Read(m)) < blksize <=> (k + 1) * blksize > Len(file)
       /\ Len(Read(m)) = 0 <=> k * blksize = Len(file)
  BY <1>1, <1>2, <1>8, <1>11
<1>13. QED
  BY <1>1, <1>2, <1>7, <1>8, <1>9, <1>10, <1>11, <1>12

\* There have been k reads.
MayHaveRead(k) == k = 0 \/ (k - 1) * blksize <= Len(file)

\* The reads before one of them.
LEMMA EarlierReads ==
  ASSUME file \in Seq(Bytes), blksize \in Nat \ {0}, NEW k \in Nat, MayHaveRead(k), NEW j \in 1..k
  PROVE  /\ j - 1 \in Nat /\ (j - 1) * blksize <= Len(file) /\ Cut(j - 1) = (j - 1) * blksize
         /\ MayHaveRead(j - 1) /\ MayHaveRead(j)
<1>1. j - 1 \in Nat /\ k - 1 \in Nat /\ j - 1 <= k - 1 /\ k # 0
  OBVIOUS
<1>2. (j - 1) * blksize <= (k - 1) * blksize /\ (k - 1) * blksize <= Len(file)
  BY <1>1, MultiplesGrow DEF MayHaveRead
<1>3. (j - 1) * blksize \in Nat /\ (k - 1) * blksize \in Nat /\ Len(file) \in Nat
  BY <1>1, Multiples, LenProperties
<1>4. (j - 1) * blksize <= Len(file)
  BY <1>2, <1>3
<1>5. MayHaveRead(j - 1)
  <2>1. CASE j = 1
    BY <2>1 DEF MayHaveRead
  <2>2. CASE j # 1
    <3>1. (j - 1) - 1 \in Nat /\ (j - 1) - 1 <= j - 1
      BY <2>2
    <3>2. ((j - 1) - 1) * blksize <= (j - 1) * blksize /\ ((j - 1) - 1) * blksize \in Nat
      BY <1>1, <3>1, MultiplesGrow, Multiples
    <3>3. QED
      BY <1>3, <1>4, <3>2 DEF MayHaveRead
  <2>3. QED
    BY <2>1, <2>2
<1>6. QED
  BY <1>1, <1>4, <1>5, CutIs DEF MayHaveRead

\* The converted reads, and one more of them.
LEMMA ReadsType ==
  ASSUME file \in Seq(Bytes), blksize \in Nat \ {0}, NEW k \in Nat, MayHaveRead(k)
  PROVE  /\ ConvertedReads(k) \in Seq(Seq(Bytes)) /\ Len(ConvertedReads(k)) = k
         /\ \A j \in 1..k : ConvertedReads(k)[j] = Convert(Read(Cut(j - 1)))
<1>1. ASSUME NEW j \in 1..k
      PROVE  Convert(Read((j - 1) * blksize)) \in Seq(Bytes) /\ Cut(j - 1) = (j - 1) * blksize
  <2>1. j - 1 \in Nat /\ (j - 1) * blksize <= Len(file) /\ Cut(j - 1) = (j - 1) * blksize
    BY EarlierReads
  <2>2. Read((j - 1) * blksize) \in Seq(Bytes)
    BY <2>1, ReadIs
  <2>3. QED
    BY <2>1, <2>2, ConvertType
<1> DEFINE s == ConvertedReads(k)
<1>2. /\ DOMAIN s = 1..k /\ s = [j \in 1..k |-> s[j]]
      /\ \A j \in 1..k : s[j] = Convert(Read((j - 1) * blksize))
  BY DEF ConvertedReads
<1> HIDE DEF s
<1>3. \A j \in 1..k : s[j] \in Seq(Bytes)
  BY <1>1, <1>2
<1>4. s \in Seq(Seq(Bytes)) /\ Len(s) = k
  BY <1>2, <1>3, MadeSeq
<1>5. QED
  BY <1>1, <1>2, <1>4 DEF s

\* One more read.
LEMMA ReadsStep ==
  ASSUME file \in Seq(Bytes), blksize \in Nat \ {0}, NEW k \in Nat, k * blksize <= Len(file)
  PROVE  /\ MayHaveRead(k) /\ MayHaveRead(k + 1)
         /\ ConvertedReads(k + 1) = Append(ConvertedReads(k), Convert(Read(Cut(k))))
         /\ Convert(Read(Cut(k))) \in Seq(Bytes)
         /\ FlattenSeq(ConvertedReads(k + 1)) = FlattenSeq(ConvertedReads(k)) \o Convert(Read(Cut(k)))
         /\ FlattenSeq(ConvertedReads(k)) \in Seq(Bytes)
<1>1. (k + 1) - 1 = k /\ k + 1 \in Nat /\ k + 1 \in 1..(k + 1)
  OBVIOUS
<1>2. MayHaveRead(k + 1)
  BY <1>1 DEF MayHaveRead
<1>3. MayHaveRead(k)
  BY <1>1, <1>2, EarlierReads
<1> DEFINE s == ConvertedReads(k)
           t == ConvertedReads(k + 1)
           x == Convert(Read(Cut(k)))
<1>4. s \in Seq(Seq(Bytes)) /\ Len(s) = k /\ \A j \in 1..k : s[j] = Convert(Read(Cut(j - 1)))
  BY <1>3, ReadsType
<1>5. t \in Seq(Seq(Bytes)) /\ Len(t) = k + 1 /\ \A j \in 1..(k + 1) : t[j] = Convert(Read(Cut(j - 1)))
  BY <1>1, <1>2, ReadsType
<1>6. x \in Seq(Bytes)
  BY ReadIs, ConvertType
<1>7. t[k + 1] = x
  BY <1>1, <1>5
<1> HIDE DEF s, t, x
<1>8. \A j \in 1..k : t[j] = s[j]
  <2>1. \A j \in 1..k : j \in 1..(k + 1)
    OBVIOUS
  <2>2. QED
    BY <1>4, <1>5, <2>1
<1>9. /\ Append(s, x) \in Seq(Seq(Bytes)) /\ Len(Append(s, x)) = k + 1
      /\ \A j \in 1..k : Append(s, x)[j] = s[j]
      /\ Append(s, x)[k + 1] = x
  BY <1>4, <1>6, AppendProperties
<1>10. t = Append(s, x)
  <2>1. \A j \in 1..(k + 1) : t[j] = Append(s, x)[j]
    BY <1>7, <1>8, <1>9
  <2>2. QED
    BY <1>5, <1>9, <2>1, SeqEqual
<1>11. FlattenSeq(t) = FlattenSeq(s) \o x /\ FlattenSeq(s) \in Seq(Bytes)
  BY <1>4, <1>6, <1>10, FlattenAppend, FlattenType
<1>12. QED
  BY <1>2, <1>3, <1>6, <1>10, <1>11 DEF s, t, x

\* Nothing is converted to nothing.
LEMMA ConvertEmpty == Convert(<<>>) = <<>>
<1>1. <<>> \in Seq(Bytes) /\ Len(<<>>) = 0
  OBVIOUS
<1>2. MainPieces(<<>>) = <<>>
  <2>1. MainPieces(<<>>) \in Seq(Seq(Bytes)) /\ Len(MainPieces(<<>>)) = 0
    BY <1>1, PieceTypes
  <2>2. QED
    BY <2>1, EmptySeq
<1>3. convert_to_netascii_main(<<>>) = <<>>
  BY <1>1, <1>2, MainIsPieces, FlattenEmpty
<1>4. convert_to_netascii_lib(<<>>) = <<>>
  BY <1>1, LibLength
<1>5. QED
  BY <1>3, <1>4 DEF Convert

\* One of the first k reads of main.rs but the last ends between a CR and its LF.
SplitUpto(k) ==
  /\ variant = "main"
  /\ \E j \in 1..(k - 1) : j * blksize < Len(file) /\ file[j * blksize] = "CR" /\ file[j * blksize + 1] = "LF"

\* Does read m begin between a CR and its LF?
LEMMA SplitStep ==
  ASSUME file \in Seq(Bytes), blksize \in Nat \ {0}, NEW m \in Nat, m * blksize <= Len(file)
  PROVE  SplitUpto(m + 1) <=>
           SplitUpto(m) \/ (variant = "main" /\ SplitAt(SubSeq(file, 1, Cut(m)), Read(Cut(m))))
<1> DEFINE s == SubSeq(file, 1, Cut(m))
           t == Read(Cut(m))
           Splits(j) == j * blksize < Len(file) /\ file[j * blksize] = "CR" /\ file[j * blksize + 1] = "LF"
<1>1. PICK c \in Nat : c = m * blksize
  BY Multiples
<1>2. Len(file) \in Nat /\ Cut(m) = c /\ c \in 0..Len(file)
  BY <1>1, CutIs
<1>3. s \in Seq(Bytes) /\ Len(s) = c /\ \A j \in 1..c : s[j] = file[j]
  BY <1>2, PrefixProperties
<1>4. t \in Seq(Bytes) /\ (Len(t) = 0 <=> c = Len(file)) /\ (c < Len(file) => t[1] = file[c + 1])
  BY <1>1, <1>2, ReadIs
<1> HIDE DEF s, t
<1>5. (s = <<>> <=> c = 0) /\ (t = <<>> <=> c = Len(file))
  BY <1>3, <1>4, EmptySeq
<1>6. c = 0 <=> m = 0
  <2>1. m <= c
    BY <1>1, Multiples
  <2>2. m = 0 => c = 0
    BY <1>1, Multiples
  <2>3. QED
    BY <2>1, <2>2
<1>7. SplitAt(s, t) <=> m # 0 /\ Splits(m)
  <2>1. c # 0 => s[Len(s)] = file[c]
    <3>1. c # 0 => c \in 1..c
      OBVIOUS
    <3>2. QED
      BY <1>3, <3>1
  <2>2. c # Len(file) <=> c < Len(file)
    BY <1>2
  <2>3. Splits(m) <=> c < Len(file) /\ file[c] = "CR" /\ file[c + 1] = "LF"
    BY <1>1
  <2> HIDE DEF Splits
  <2>4. QED
    BY <1>4, <1>5, <1>6, <2>1, <2>2, <2>3 DEF SplitAt
<1> HIDE DEF Splits
<1>8. (\E j \in 1..m : Splits(j)) <=> (\E j \in 1..(m - 1) : Splits(j)) \/ (m # 0 /\ Splits(m))
  <2>1. ASSUME NEW j \in 1..m PROVE j \in 1..(m - 1) \/ (m # 0 /\ j = m)
    OBVIOUS
  <2>2. ASSUME NEW j \in 1..(m - 1) PROVE j \in 1..m
    OBVIOUS
  <2>3. m # 0 => m \in 1..m
    OBVIOUS
  <2>4. QED
    BY <2>1, <2>2, <2>3
<1>9. (m + 1) - 1 = m
  OBVIOUS
<1>10. /\ SplitUpto(m + 1) <=> variant = "main" /\ \E j \in 1..m : Splits(j)
       /\ SplitUpto(m) <=> variant = "main" /\ \E j \in 1..(m - 1) : Splits(j)
  BY <1>9 DEF SplitUpto, Splits
<1>11. QED
  BY <1>7, <1>8, <1>10 DEF s, t

\* The converted reads are what has been read, converted as a whole, unless a line end is
\* split: then they are longer.
LEMMA ReadsWhole ==
  ASSUME file \in Seq(Bytes), blksize \in Nat \ {0}, NEW k \in Nat, MayHaveRead(k)
  PROVE  LET reads == FlattenSeq(ConvertedReads(k))
             whole == Convert(SubSeq(file, 1, Cut(k)))
         IN  IF SplitUpto(k) THEN Len(whole) < Len(reads) ELSE reads = whole
<1> DEFINE reads(m) == FlattenSeq(ConvertedReads(m))
           part(m) == SubSeq(file, 1, Cut(m))
           T == {m \in 0..k : IF SplitUpto(m) THEN Len(Convert(part(m))) < Len(reads(m))
                              ELSE reads(m) = Convert(part(m))}
<1>1. 0 \in T
  <2>1. ConvertedReads(0) = <<>> /\ ~SplitUpto(0)
    BY DEF ConvertedReads, SplitUpto
  <2>2. part(0) = <<>>
    BY CutIs, SubSeqEmpty
  <2>3. reads(0) = Convert(part(0))
    BY <2>1, <2>2, FlattenEmpty, ConvertEmpty
  <2> HIDE DEF reads, part
  <2>4. QED
    BY <2>1, <2>3
<1>2. ASSUME NEW m \in 0..(k - 1), m \in T PROVE (m + 1) \in T
  <2>1. m \in Nat /\ m + 1 \in 1..k /\ (m + 1) - 1 = m /\ m + 1 \in 0..k
    OBVIOUS
  <2>2. m * blksize <= Len(file)
    BY <2>1, EarlierReads
  <2> DEFINE s == part(m)
             t == Read(Cut(m))
  <2>3. s \in Seq(Bytes) /\ t \in Seq(Bytes) /\ part(m + 1) = s \o t
    BY <2>1, <2>2, ReadIs
  <2>4. reads(m + 1) = reads(m) \o Convert(t) /\ reads(m) \in Seq(Bytes)
    BY <2>1, <2>2, ReadsStep
  <2>5. SplitUpto(m + 1) <=> SplitUpto(m) \/ (variant = "main" /\ SplitAt(s, t))
    BY <2>1, <2>2, SplitStep
  <2>6. IF variant = "main" /\ SplitAt(s, t)
        THEN Len(Convert(s \o t)) < Len(Convert(s) \o Convert(t))
        ELSE Convert(s \o t) = Convert(s) \o Convert(t)
    BY <2>3, ConvertConcat
  <2>7. IF SplitUpto(m) THEN Len(Convert(s)) < Len(reads(m)) ELSE reads(m) = Convert(s)
    BY <1>2
  <2> HIDE DEF reads, s, t
  <2>8. PICK C \in Seq(Bytes), D \in Seq(Bytes), W \in Seq(Bytes), R \in Seq(Bytes) :
          C = Convert(s) /\ D = Convert(t) /\ W = Convert(s \o t) /\ R = reads(m)
    <3>1. s \o t \in Seq(Bytes)
      BY <2>3, ConcatProperties
    <3>2. QED
      BY <2>3, <2>4, <3>1, ConvertType
  <2>9. /\ Len(C) \in Nat /\ Len(D) \in Nat /\ Len(W) \in Nat /\ Len(R) \in Nat
        /\ Len(C \o D) = Len(C) + Len(D) /\ Len(R \o D) = Len(R) + Len(D)
    BY LenProperties, ConcatProperties
  <2>10. IF SplitUpto(m + 1) THEN Len(W) < Len(R \o D) ELSE R \o D = W
    <3>1. CASE SplitUpto(m) /\ variant = "main" /\ SplitAt(s, t)
      BY <2>5, <2>6, <2>7, <2>8, <2>9, <3>1
    <3>2. CASE SplitUpto(m) /\ ~(variant = "main" /\ SplitAt(s, t))
      BY <2>5, <2>6, <2>7, <2>8, <2>9, <3>2
    <3>3. CASE ~SplitUpto(m) /\ variant = "main" /\ SplitAt(s, t)
      BY <2>5, <2>6, <2>7, <2>8, <2>9, <3>3
    <3>4. CASE ~SplitUpto(m) /\ ~(variant = "main" /\ SplitAt(s, t))
      BY <2>5, <2>6, <2>7, <2>8, <2>9, <3>4
    <3>5. QED
      BY <3>1, <3>2, <3>3, <3>4
  <2>11. IF SplitUpto(m + 1) THEN Len(Convert(part(m + 1))) < Len(reads(m + 1))
         ELSE reads(m + 1) = Convert(part(m + 1))
    <3> HIDE DEF part
    <3>1. QED
      BY <2>3, <2>4, <2>8, <2>10
  <2> HIDE DEF part
  <2>12. QED
    BY <2>1, <2>11
<1>3. \A m \in 0..k : m \in T
  <2> HIDE DEF T
  <2>1. QED
    BY <1>1, <1>2, BoundedInduction
<1>4. k \in T
  BY <1>3
<1>5. QED
  BY <1>4

\* Quotient and remainder.
LEMMA DivMod ==
  ASSUME NEW b \in Nat \ {0}, NEW i \in Nat
  PROVE  (i % b) \in 0..(b - 1) /\ (i \div b) \in Nat /\ i = (i \div b) * b + (i % b)
  OBVIOUS

\* A multiple of the block size leaves nothing.
LEMMA MultipleMod ==
  ASSUME NEW b \in Nat \ {0}, NEW k \in Nat
  PROVE  ((k * b) % b) = 0
<1>1. PICK i \in Nat : i = k * b
  BY Multiples
<1>2. PICK q \in Nat, r \in 0..(b - 1) : i = q * b + r /\ r = (i % b)
  BY DivMod
<1>3. q * b \in Nat /\ k * b \in Nat /\ (q + 1) * b = q * b + b
  BY Multiples
<1>4. q * b <= k * b /\ k * b < (q + 1) * b
  BY <1>1, <1>2, <1>3
<1>5. q <= k /\ ~(q + 1 <= k)
  <2>1. q <= k
    BY <1>4, MultiplesGrow
  <2>2. ~((q + 1) * b <= k * b)
    BY <1>3, <1>4
  <2>3. q + 1 \in Nat
    OBVIOUS
  <2>4. QED
    BY <2>1, <2>2, <2>3, MultiplesGrow
<1>6. q = k
  BY <1>5
<1>7. r = 0
  BY <1>1, <1>2, <1>3, <1>6
<1>8. QED
  BY <1>1, <1>2, <1>7

\* Reads begin at the multiples of blksize.
LEMMA ReadsAre ==
  ASSUME file \in Seq(Bytes), blksize \in Nat \ {0}
  PROVE  \A o : o \in Reads <=> \E k \in Nat : k * blksize < Len(file) /\ o = k * blksize
<1>1. Len(file) \in Nat
  BY LenProperties
<1>2. ASSUME NEW o \in Reads PROVE \E k \in Nat : k * blksize < Len(file) /\ o = k * blksize
  <2>1. o \in Nat /\ o < Len(file) /\ (o % blksize) = 0
    BY <1>1 DEF Reads
  <2>2. PICK q \in Nat : o = q * blksize + 0
    BY <2>1, DivMod
  <2>3. q * blksize \in Nat
    BY Multiples
  <2>4. o = q * blksize
    BY <2>2, <2>3
  <2>5. QED
    BY <2>1, <2>4
<1>3. ASSUME NEW k \in Nat, k * blksize < Len(file) PROVE k * blksize \in Reads
  <2>1. k * blksize \in Nat /\ ((k * blksize) % blksize) = 0
    BY Multiples, MultipleMod
  <2>2. k * blksize \in 0..(Len(file) - 1)
    BY <1>1, <1>3, <2>1
  <2>3. QED
    BY <2>1, <2>2 DEF Reads
<1>4. QED
  BY <1>2, <1>3

\* How many reads main.rs makes of a file.
LEMMA ReadCount ==
  ASSUME file \in Seq(Bytes), blksize \in Nat \ {0}, NEW k \in Nat,
         k = 0 \/ (k - 1) * blksize < Len(file), k * blksize >= Len(file)
  PROVE  k = (Len(file) + blksize - 1) \div blksize
<1>1. PICK n \in Nat : n = Len(file)
  BY LenProperties
<1>2. PICK i \in Nat : i = n + blksize - 1
  <2>1. n + blksize - 1 \in Nat
    OBVIOUS
  <2>2. QED
    BY <2>1
<1>3. PICK q \in Nat, r \in 0..(blksize - 1) : i = q * blksize + r /\ q = i \div blksize
  BY DivMod
<1>4. q * blksize \in Nat /\ k * blksize \in Nat /\ n <= q * blksize /\ q * blksize < n + blksize
  BY <1>2, <1>3, Multiples
<1>5. q <= k
  <2>1. SUFFICES ASSUME k + 1 <= q PROVE FALSE
    OBVIOUS
  <2>2. (k + 1) * blksize <= q * blksize /\ (k + 1) * blksize = k * blksize + blksize
    BY <2>1, MultiplesGrow, Multiples
  <2>3. QED
    BY <1>1, <1>4, <2>2
<1>6. k <= q
  <2>1. SUFFICES ASSUME k # 0, q <= k - 1 PROVE FALSE
    OBVIOUS
  <2>2. k - 1 \in Nat /\ (k - 1) * blksize \in Nat /\ q * blksize <= (k - 1) * blksize
    BY <2>1, MultiplesGrow, Multiples
  <2>3. (k - 1) * blksize < n
    BY <1>1, <2>1
  <2>4. QED
    BY <1>4, <2>2, <2>3
<1>7. QED
  BY <1>1, <1>2, <1>3, <1>5, <1>6

\* main.rs, at the end of the file: the converted reads are ReadByRead, and the file
\* converted as a whole unless a read ends between a CR and its LF.
LEMMA MainWhole ==
  ASSUME file \in Seq(Bytes), blksize \in Nat \ {0}, variant = "main", NEW k \in Nat,
         k = 0 \/ (k - 1) * blksize < Len(file), Cut(k) = Len(file)
  PROVE  /\ FlattenSeq(ConvertedReads(k)) = ReadByRead
         /\ FlattenSeq(ConvertedReads(k)) = Convert(file) <=> ~SplitLineEnd
<1>1. Len(file) \in Nat /\ k * blksize \in Nat
  BY LenProperties, Multiples
<1>2. k * blksize >= Len(file)
  BY <1>1 DEF Cut
<1>3. FlattenSeq(ConvertedReads(k)) = ReadByRead
  BY <1>2, ReadCount DEF ReadByRead
<1>4. MayHaveRead(k)
  <2>1. CASE k = 0
    BY <2>1 DEF MayHaveRead
  <2>2. CASE k # 0
    <3>1. k - 1 \in Nat /\ (k - 1) * blksize \in Nat
      BY <2>2, Multiples
    <3>2. QED
      BY <1>1, <2>2, <3>1 DEF MayHaveRead
  <2>3. QED
    BY <2>1, <2>2
<1>5. SubSeq(file, 1, Cut(k)) = file
  BY SubSeqFull
<1>6. IF SplitUpto(k) THEN Len(Convert(file)) < Len(FlattenSeq(ConvertedReads(k)))
      ELSE FlattenSeq(ConvertedReads(k)) = Convert(file)
  BY <1>4, <1>5, ReadsWhole
<1>7. SplitUpto(k) <=> SplitLineEnd
  <2>1. ASSUME NEW j \in Nat, j * blksize < Len(file), j # 0 PROVE j \in 1..(k - 1)
    <3>1. ~(k * blksize <= j * blksize)
      <4>1. j * blksize \in Nat
        BY Multiples
      <4>2. QED
        BY <1>1, <1>2, <2>1, <4>1
    <3>2. ~(k <= j)
      BY <3>1, MultiplesGrow
    <3>3. QED
      BY <2>1, <3>2
  <2>2. ASSUME NEW o \in Reads \ {0}, file[o] = "CR", file[o + 1] = "LF" PROVE SplitUpto(k)
    <3>1. PICK j \in Nat : j * blksize < Len(file) /\ o = j * blksize
      BY ReadsAre
    <3>2. j # 0
      <4>1. 0 * blksize = 0
        BY Multiples
      <4>2. QED
        BY <3>1, <4>1
    <3>3. j \in 1..(k - 1)
      BY <2>1, <3>1, <3>2
    <3>4. QED
      BY <2>2, <3>1, <3>3 DEF SplitUpto
  <2>3. ASSUME SplitUpto(k) PROVE SplitLineEnd
    <3>1. PICK j \in 1..(k - 1) :
            j * blksize < Len(file) /\ file[j * blksize] = "CR" /\ file[j * blksize + 1] = "LF"
      BY <2>3 DEF SplitUpto
    <3>2. j \in Nat /\ j # 0
      OBVIOUS
    <3>3. j * blksize \in Reads
      BY <3>1, <3>2, ReadsAre
    <3>4. j * blksize # 0
      <4>1. j <= j * blksize /\ j * blksize \in Nat
        BY <3>2, Multiples
      <4>2. QED
        BY <3>2, <4>1
    <3>5. QED
      BY <3>1, <3>3, <3>4 DEF SplitLineEnd
  <2>4. QED
    BY <2>2, <2>3 DEF SplitLineEnd
<1>8. Convert(file) \in Seq(Bytes) /\ Len(Convert(file)) \in Nat
  BY ConvertType
<1>9. QED
  BY <1>3, <1>6, <1>7, <1>8

---------------------------------------------------------------------------
(* What the client keeps of a block. *)

\* At most blksize bytes.
LEMMA KeptIs ==
  ASSUME blksize \in Nat \ {0}, NEW d \in Seq(Bytes)
  PROVE  /\ Kept(d) \in Seq(Bytes) /\ Len(Kept(d)) \in Nat /\ Len(d) \in Nat
         /\ Len(d) <= blksize => Kept(d) = d
         /\ Len(d) > blksize => Len(Kept(d)) = blksize
<1>1. Len(d) \in Nat
  BY LenProperties
<1>2. CASE Len(d) > blksize
  <2>1. blksize \in 0..Len(d)
    BY <1>1, <1>2
  <2>2. SubSeq(d, 1, blksize) \in Seq(Bytes) /\ Len(SubSeq(d, 1, blksize)) = blksize
    BY <2>1, PrefixProperties
  <2>3. QED
    BY <1>1, <1>2, <2>2 DEF Kept
<1>3. CASE ~(Len(d) > blksize)
  BY <1>1, <1>3 DEF Kept
<1>4. QED
  BY <1>2, <1>3

\* Of each block.
LEMMA KeptBlocksIs ==
  ASSUME blksize \in Nat \ {0}, NEW s \in Seq(Seq(Bytes))
  PROVE  /\ KeptBlocks(s) \in Seq(Seq(Bytes)) /\ Len(KeptBlocks(s)) = Len(s)
         /\ \A i \in 1..Len(s) : KeptBlocks(s)[i] = Kept(s[i])
         /\ (\A i \in 1..Len(s) : Len(s[i]) <= blksize) => KeptBlocks(s) = s
<1> DEFINE t == KeptBlocks(s)
<1>1. Len(s) \in Nat /\ DOMAIN s = 1..Len(s) /\ \A i \in 1..Len(s) : s[i] \in Seq(Bytes)
  BY LenProperties, ElementOfSeq
<1>2. /\ DOMAIN t = 1..Len(s) /\ t = [i \in 1..Len(s) |-> t[i]]
      /\ \A i \in 1..Len(s) : t[i] = Kept(s[i])
  BY <1>1 DEF KeptBlocks
<1> HIDE DEF t
<1>3. \A i \in 1..Len(s) : t[i] \in Seq(Bytes)
  BY <1>1, <1>2, KeptIs
<1>4. t \in Seq(Seq(Bytes)) /\ Len(t) = Len(s)
  BY <1>1, <1>2, <1>3, MadeSeq
<1>5. ASSUME \A i \in 1..Len(s) : Len(s[i]) <= blksize PROVE t = s
  <2>1. \A i \in 1..Len(s) : t[i] = s[i]
    BY <1>1, <1>2, <1>5, KeptIs
  <2>2. QED
    BY <1>4, <2>1, SeqEqual
<1>6. QED
  BY <1>2, <1>4, <1>5 DEF t

\* Of one more block.
LEMMA KeptAppend ==
  ASSUME blksize \in Nat \ {0}, NEW s \in Seq(Seq(Bytes)), NEW x \in Seq(Bytes)
  PROVE  KeptBlocks(Append(s, x)) = Append(KeptBlocks(s), Kept(x))
<1> DEFINE n == Len(s)
           a == Append(s, x)
           t == KeptBlocks(s)
           y == Kept(x)
<1>1. /\ n \in Nat /\ a \in Seq(Seq(Bytes)) /\ Len(a) = n + 1 /\ a[n + 1] = x
      /\ \A i \in 1..n : a[i] = s[i]
  BY LenProperties, AppendProperties
<1>2. t \in Seq(Seq(Bytes)) /\ Len(t) = n /\ \A i \in 1..n : t[i] = Kept(s[i])
  BY KeptBlocksIs
<1>3. y \in Seq(Bytes)
  BY KeptIs
<1> HIDE DEF n, a, t, y
<1> DEFINE u == KeptBlocks(a)
           v == Append(t, y)
<1>4. u \in Seq(Seq(Bytes)) /\ Len(u) = n + 1 /\ \A i \in 1..(n + 1) : u[i] = Kept(a[i])
  <2>1. u \in Seq(Seq(Bytes)) /\ Len(u) = Len(a) /\ \A i \in 1..Len(a) : u[i] = Kept(a[i])
    BY <1>1, KeptBlocksIs
  <2>2. QED
    BY <1>1, <2>1
<1>5. v \in Seq(Seq(Bytes)) /\ Len(v) = n + 1 /\ v[n + 1] = y /\ \A i \in 1..n : v[i] = t[i]
  BY <1>2, <1>3, AppendProperties
<1> HIDE DEF u, v
<1>6. ASSUME NEW i \in 1..(n + 1) PROVE u[i] = v[i]
  <2>1. CASE i = n + 1
    BY <1>1, <1>4, <1>5, <2>1 DEF y
  <2>2. CASE i # n + 1
    <3>1. i \in 1..n
      BY <1>1, <2>2
    <3>2. QED
      BY <1>1, <1>2, <1>4, <1>5, <3>1
  <2>3. QED
    BY <2>1, <2>2
<1>7. u = v
  BY <1>4, <1>5, <1>6, SeqEqual
<1>8. QED
  BY <1>7 DEF u, v, a, t, y

\* bin/server.rs, at the end of the file: what the client keeps is the whole converted file,
\* and the last block is short, if no block outgrows blksize and no short read ceases to be.
LEMMA ServerWhole ==
  ASSUME file \in Seq(Bytes), blksize \in Nat \ {0}, variant = "server", NEW k \in Nat, k # 0,
         (k - 1) * blksize <= Len(file), k * blksize > Len(file)
  PROVE  (Len(ConvertedReads(k)[k]) < blksize /\ FlattenSeq(KeptBlocks(ConvertedReads(k))) = Convert(file)) <=>
           \A o \in Reads : /\ Len(Convert(Read(o))) <= blksize
                            /\ Len(Read(o)) < blksize => Len(Convert(Read(o))) < blksize
<1> DEFINE R == ConvertedReads(k)
           Q == KeptBlocks(R)
<1>1. Len(file) \in Nat /\ k * blksize \in Nat /\ k - 1 \in Nat /\ k \in 1..k /\ (k - 1) + 1 = k /\ MayHaveRead(k)
  BY LenProperties, Multiples DEF MayHaveRead
<1>2. R \in Seq(Seq(Bytes)) /\ Len(R) = k /\ \A j \in 1..k : R[j] = Convert(Read(Cut(j - 1)))
  BY <1>1, ReadsType
<1>3. FlattenSeq(R) = Convert(file)
  <2>1. Cut(k) = Len(file) /\ SubSeq(file, 1, Len(file)) = file
    BY <1>1, CutIs, SubSeqFull
  <2>2. ~SplitUpto(k)
    BY DEF SplitUpto
  <2>3. QED
    BY <1>1, <2>1, <2>2, ReadsWhole
<1> HIDE DEF R
<1>4. /\ Q \in Seq(Seq(Bytes)) /\ Len(Q) = k /\ \A j \in 1..k : Q[j] = Kept(R[j])
      /\ (\A j \in 1..k : Len(R[j]) <= blksize) => Q = R
  BY <1>2, KeptBlocksIs
<1> HIDE DEF Q
<1>5. ASSUME NEW j \in 1..k
      PROVE  /\ R[j] \in Seq(Bytes) /\ Len(R[j]) \in Nat
             /\ Cut(j - 1) = (j - 1) * blksize /\ (j - 1) * blksize <= Len(file)
             /\ (j - 1) * blksize \in Nat /\ j - 1 \in Nat /\ (j - 1) + 1 = j
             /\ Cut(j - 1) \notin Reads => Len(R[j]) = 0
  <2>1. j - 1 \in Nat /\ (j - 1) * blksize <= Len(file) /\ Cut(j - 1) = (j - 1) * blksize
    BY <1>1, EarlierReads
  <2>2. R[j] \in Seq(Bytes) /\ Len(R[j]) \in Nat /\ (j - 1) * blksize \in Nat
    BY <1>2, <2>1, ElementOfSeq, LenProperties, Multiples
  <2>3. ASSUME Cut(j - 1) \notin Reads PROVE Len(R[j]) = 0
    <3>1. ~((j - 1) * blksize < Len(file))
      BY <2>1, <2>3, ReadsAre
    <3>2. (j - 1) * blksize = Len(file)
      BY <1>1, <2>1, <2>2, <3>1
    <3>3. Read(Cut(j - 1)) \in Seq(Bytes) /\ Len(Read(Cut(j - 1))) = 0
      BY <2>1, <3>2, ReadIs
    <3>4. Read(Cut(j - 1)) = <<>>
      BY <3>3, EmptySeq
    <3>5. R[j] = <<>>
      BY <1>2, <3>4, ConvertEmpty
    <3>6. QED
      BY <3>5
  <2>4. QED
    BY <2>1, <2>2, <2>3
<1>6. ASSUME \A o \in Reads : /\ Len(Convert(Read(o))) <= blksize
                              /\ Len(Read(o)) < blksize => Len(Convert(Read(o))) < blksize
      PROVE  Len(R[k]) < blksize /\ FlattenSeq(Q) = Convert(file)
  <2>1. ASSUME NEW j \in 1..k PROVE Len(R[j]) <= blksize
    <3>1. CASE Cut(j - 1) \in Reads
      BY <1>2, <1>6, <3>1
    <3>2. CASE Cut(j - 1) \notin Reads
      BY <1>5, <3>2
    <3>3. QED
      BY <3>1, <3>2
  <2>2. FlattenSeq(Q) = Convert(file)
    BY <1>3, <1>4, <2>1
  <2>3. CASE Cut(k - 1) \in Reads
    <3>1. Len(Read(Cut(k - 1))) < blksize
      BY <1>1, ReadIs
    <3>2. QED
      BY <1>1, <1>2, <1>6, <2>2, <2>3, <3>1
  <2>4. CASE Cut(k - 1) \notin Reads
    BY <1>1, <1>5, <2>2, <2>4
  <2>5. QED
    BY <2>3, <2>4
<1>7. ASSUME Len(R[k]) < blksize, FlattenSeq(Q) = Convert(file), NEW o \in Reads
      PROVE  /\ Len(Convert(Read(o))) <= blksize
             /\ Len(Read(o)) < blksize => Len(Convert(Read(o))) < blksize
  <2>1. PICK i \in Nat : i * blksize < Len(file) /\ o = i * blksize
    BY <1>7, ReadsAre
  <2>2. i * blksize \in Nat /\ (k - 1) * blksize \in Nat /\ (i + 1) * blksize \in Nat
    BY <1>1, <2>1, Multiples
  <2>3. ~(k <= i)
    <3>1. ~(k * blksize <= i * blksize)
      BY <1>1, <2>1, <2>2
    <3>2. QED
      BY <3>1, MultiplesGrow
  <2>4. PICK j \in 1..k : j = i + 1
    <3>1. i + 1 \in 1..k
      BY <2>3
    <3>2. QED
      BY <3>1
  <2>5. j - 1 = i /\ i * blksize <= Len(file)
    BY <1>1, <2>1, <2>2, <2>4
  <2>6. o = Cut(i) /\ R[j] = Convert(Read(o))
    BY <1>2, <1>5, <2>1, <2>5
  <2>7. Len(R[j]) <= blksize
    <3>1. \A m \in 1..Len(Q) : Len(Q[m]) <= Len(R[m])
      <4>1. ASSUME NEW m \in 1..k PROVE Len(Q[m]) <= Len(R[m])
        <5>1. R[m] \in Seq(Bytes) /\ Len(R[m]) \in Nat /\ Q[m] = Kept(R[m])
          BY <1>4, <1>5
        <5>2. CASE Len(R[m]) <= blksize
          <6>1. Q[m] = R[m]
            BY <5>1, <5>2, KeptIs
          <6>2. QED
            BY <5>1, <6>1
        <5>3. CASE ~(Len(R[m]) <= blksize)
          <6>1. Len(R[m]) > blksize
            BY <5>1, <5>3
          <6>2. Len(Q[m]) = blksize
            BY <5>1, <6>1, KeptIs
          <6>3. QED
            BY <6>1, <6>2
        <5>4. QED
          BY <5>2, <5>3
      <4>2. QED
        BY <1>4, <4>1
    <3>2. SUFFICES ASSUME Len(R[j]) > blksize PROVE FALSE
      BY <1>5
    <3>3. Len(Q[j]) = blksize
      BY <1>4, <1>5, <3>2, KeptIs
    <3>4. j \in 1..Len(Q) /\ Len(Q[j]) < Len(R[j])
      BY <1>4, <3>2, <3>3
    <3>5. /\ Len(FlattenSeq(Q)) \in Nat /\ Len(FlattenSeq(R)) \in Nat
          /\ Len(FlattenSeq(Q)) < Len(FlattenSeq(R))
      BY <1>2, <1>4, <3>1, <3>4, FlattenLonger
    <3>6. QED
      BY <1>3, <1>7, <3>5
  <2>8. ASSUME Len(Read(o)) < blksize PROVE Len(R[j]) < blksize
    <3>1. (i + 1) * blksize > Len(file)
      BY <2>5, <2>6, <2>8, ReadIs
    <3>2. ~((i + 1) * blksize <= (k - 1) * blksize)
      BY <1>1, <2>2, <3>1
    <3>3. i + 1 \in Nat
      OBVIOUS
    <3>4. ~(i + 1 <= k - 1)
      BY <1>1, <3>2, <3>3, MultiplesGrow
    <3>5. j = k
      BY <2>4, <3>4
    <3>6. QED
      BY <1>7, <3>5
  <2>9. QED
    BY <2>6, <2>7, <2>8
<1>8. QED
  BY <1>6, <1>7 DEF R, Q

---------------------------------------------------------------------------
(* Every variable stays in its range. *)

Blocks == [data : Seq(Bytes), final : BOOLEAN]

DataOf(w) == [i \in DOMAIN w |-> w[i].data]

\* The bytes of the blocks of a window.
LEMMA DataOfIs ==
  ASSUME NEW w \in Seq(Blocks)
  PROVE  /\ DataOf(w) \in Seq(Seq(Bytes)) /\ Len(DataOf(w)) = Len(w) /\ Len(w) \in Nat
         /\ \A i \in 1..Len(w) : DataOf(w)[i] = w[i].data /\ w[i].data \in Seq(Bytes) /\ w[i].final \in BOOLEAN
<1> DEFINE t == DataOf(w)
<1>1. Len(w) \in Nat /\ DOMAIN w = 1..Len(w) /\ \A i \in 1..Len(w) : w[i] \in Blocks
  BY LenProperties, ElementOfSeq
<1>2. \A i \in 1..Len(w) : w[i].data \in Seq(Bytes) /\ w[i].final \in BOOLEAN
  BY <1>1 DEF Blocks
<1>3. /\ DOMAIN t = 1..Len(w) /\ t = [i \in 1..Len(w) |-> t[i]]
      /\ \A i \in 1..Len(w) : t[i] = w[i].data
  BY <1>1 DEF DataOf
<1> HIDE DEF t
<1>4. \A i \in 1..Len(w) : t[i] \in Seq(Bytes)
  BY <1>2, <1>3
<1>5. t \in Seq(Seq(Bytes)) /\ Len(t) = Len(w)
  BY <1>1, <1>3, <1>4, MadeSeq
<1>6. QED
  BY <1>1, <1>2, <1>3, <1>5 DEF t

\* One more block.
LEMMA BlockAppend ==
  ASSUME NEW w \in Seq(Blocks), NEW e \in Blocks
  PROVE  /\ Append(w, e) \in Seq(Blocks) /\ Len(Append(w, e)) = Len(w) + 1
         /\ DataOf(Append(w, e)) = Append(DataOf(w), e.data)
         /\ Append(w, e)[Len(w) + 1] = e
         /\ \A i \in 1..Len(w) : Append(w, e)[i] = w[i]
<1> DEFINE a == Append(w, e)
           n == Len(w)
           d == e.data
<1>1. d \in Seq(Bytes)
  BY DEF Blocks
<1>2. n \in Nat
  BY LenProperties
<1> HIDE DEF d
<1>3. a \in Seq(Blocks) /\ Len(a) = n + 1 /\ a[n + 1] = e /\ \A i \in 1..n : a[i] = w[i]
  BY <1>1, AppendProperties
<1> HIDE DEF a
<1>4. DataOf(w) \in Seq(Seq(Bytes)) /\ Len(DataOf(w)) = n /\ \A i \in 1..n : DataOf(w)[i] = w[i].data
  BY DataOfIs
<1>5. DataOf(a) \in Seq(Seq(Bytes)) /\ Len(DataOf(a)) = n + 1 /\ \A i \in 1..(n + 1) : DataOf(a)[i] = a[i].data
  <2>1. DataOf(a) \in Seq(Seq(Bytes)) /\ Len(DataOf(a)) = Len(a) /\ \A i \in 1..Len(a) : DataOf(a)[i] = a[i].data
    BY <1>3, DataOfIs
  <2>2. QED
    BY <1>3, <2>1
<1> DEFINE u == DataOf(a)
           v == Append(DataOf(w), d)
<1>6. v \in Seq(Seq(Bytes)) /\ Len(v) = n + 1 /\ v[n + 1] = d /\ \A i \in 1..n : v[i] = DataOf(w)[i]
  BY <1>1, <1>4, AppendProperties
<1> HIDE DEF u, v, n
<1>7. ASSUME NEW i \in 1..(n + 1) PROVE u[i] = v[i]
  <2>1. CASE i = n + 1
    BY <1>3, <1>5, <1>6, <2>1 DEF u, d
  <2>2. CASE i # n + 1
    <3>1. i \in 1..n
      BY <1>2, <2>2
    <3>2. QED
      BY <1>3, <1>4, <1>5, <1>6, <3>1 DEF u
  <2>3. QED
    BY <2>1, <2>2
<1>8. u = v
  BY <1>5, <1>6, <1>7, SeqEqual DEF u
<1>9. QED
  BY <1>3, <1>8 DEF u, v, a, n, d

\* The parts of a block.
LEMMA BlockIs ==
  ASSUME NEW d \in Seq(Bytes), NEW f \in BOOLEAN
  PROVE  Block(d, f) \in Blocks /\ Block(d, f).data = d /\ Block(d, f).final = f
  BY DEF Block, Blocks

\* A block that is not final, and one that is.
LEMMA FinalIs ==
  ASSUME NEW d \in Seq(Bytes)
  PROVE  /\ Block(d, FALSE) \in Blocks /\ Block(d, FALSE).data = d /\ ~Block(d, FALSE).final
         /\ Block(d, TRUE) \in Blocks /\ Block(d, TRUE).data = d /\ Block(d, TRUE).final
  BY DEF Block, Blocks

\* The blocks that SendWindow sends.
LEMMA DataIs ==
  ASSUME window \in Seq(Blocks)
  PROVE  Data = DataOf(window) /\ Data \in Seq(Seq(Bytes))
  BY DataOfIs DEF Data, DataOf

\* The blocks that SendEmptyBlock sends.
LEMMA EmptyBlockIs ==
  /\ << <<>> >> \in Seq(Seq(Bytes)) /\ Len(<< <<>> >>) = 1
  /\ \A i \in 1..Len(<< <<>> >>) : i = Len(<< <<>> >>) /\ << <<>> >>[i] = <<>>
  OBVIOUS

\* The client writes bytes.
LEMMA ClientTakesType ==
  ASSUME blksize \in Nat \ {0}, got \in Seq(Bytes), complete \in BOOLEAN,
         NEW s \in Seq(Seq(Bytes)), ClientTakes(s)
  PROVE  got' \in Seq(Bytes) /\ complete' \in BOOLEAN
<1> DEFINE short == {i \in DOMAIN s : Len(s[i]) < blksize}
           last == IF short = {} THEN Len(s) ELSE CHOOSE i \in short : \A j \in short : i <= j
           kept == [i \in 1..last |-> Kept(s[i])]
<1>1. /\ got' = IF complete THEN got ELSE got \o FlattenSeq(kept)
      /\ complete' = (complete \/ short # {})
  BY DEF ClientTakes
<1>2. Len(s) \in Nat /\ DOMAIN s = 1..Len(s) /\ \A i \in 1..Len(s) : s[i] \in Seq(Bytes)
  BY LenProperties, ElementOfSeq
<1>3. last \in 0..Len(s)
  <2>1. short \subseteq 1..Len(s)
    BY <1>2
  <2> HIDE DEF short
  <2>2. CASE short = {}
    BY <1>2, <2>2
  <2>3. CASE short # {}
    <3>1. \E i \in short : \A j \in short : i <= j
      BY <1>2, <2>1, <2>3, LeastExists
    <3>2. last \in short
      BY <2>3, <3>1
    <3> HIDE DEF last
    <3>3. last \in 1..Len(s)
      BY <2>1, <3>2
    <3>4. QED
      BY <1>2, <3>3
  <2>4. QED
    BY <2>2, <2>3
<1> HIDE DEF last
<1>4. kept \in Seq(Seq(Bytes))
  <2>1. ASSUME NEW i \in 1..last PROVE Kept(s[i]) \in Seq(Bytes)
    <3>1. i \in 1..Len(s)
      BY <1>2, <1>3
    <3>2. QED
      BY <1>2, <3>1, KeptIs
  <2>2. /\ last \in Nat /\ DOMAIN kept = 1..last /\ kept = [i \in 1..last |-> kept[i]]
        /\ \A i \in 1..last : kept[i] = Kept(s[i])
    BY <1>2, <1>3
  <2> HIDE DEF kept
  <2>3. \A i \in 1..last : kept[i] \in Seq(Bytes)
    BY <2>1, <2>2
  <2>4. QED
    BY <2>2, <2>3, MadeSeq
<1> HIDE DEF kept, short
<1>5. got \o FlattenSeq(kept) \in Seq(Bytes)
  BY <1>4, FlattenType, ConcatProperties
<1>6. QED
  BY <1>1, <1>5

\* If only the last block may be short, the client takes every one.
LEMMA ClientTakesAll ==
  ASSUME blksize \in Nat \ {0}, got \in Seq(Bytes), ~complete, NEW s \in Seq(Seq(Bytes)), ClientTakes(s),
         \A i \in 1..Len(s) : Len(s[i]) < blksize => i = Len(s)
  PROVE  /\ got' = got \o FlattenSeq(KeptBlocks(s))
         /\ complete' <=> \E i \in 1..Len(s) : Len(s[i]) < blksize
<1> DEFINE short == {i \in DOMAIN s : Len(s[i]) < blksize}
           last == IF short = {} THEN Len(s) ELSE CHOOSE i \in short : \A j \in short : i <= j
           kept == [i \in 1..last |-> Kept(s[i])]
<1>1. /\ got' = IF complete THEN got ELSE got \o FlattenSeq(kept)
      /\ complete' = (complete \/ short # {})
  BY DEF ClientTakes
<1>2. Len(s) \in Nat /\ DOMAIN s = 1..Len(s)
  BY LenProperties
<1>3. last = Len(s)
  <2>1. \A i \in short : i = Len(s)
    BY <1>2
  <2> HIDE DEF short
  <2>2. CASE short = {}
    BY <2>2
  <2>3. CASE short # {}
    <3>1. PICK i \in short : TRUE
      BY <2>3
    <3>2. \A j \in short : i = j
      BY <2>1
    <3>3. \E m \in short : \A j \in short : m <= j
      <4>1. PICK n \in Nat : n = Len(s)
        BY <1>2
      <4>2. n <= n
        OBVIOUS
      <4>3. i = n
        BY Zenon, <2>1, <4>1
      <4>4. QED
        BY <3>2, <4>2, <4>3
    <3>4. last \in short
      BY <2>3, <3>3
    <3>5. QED
      BY <2>1, <3>4
  <2>4. QED
    BY <2>2, <2>3
<1>4. short # {} <=> \E i \in 1..Len(s) : Len(s[i]) < blksize
  BY <1>2
<1> HIDE DEF last
<1>5. kept = KeptBlocks(s)
  BY <1>2, <1>3 DEF KeptBlocks
<1> HIDE DEF kept, short
<1>6. QED
  BY <1>1, <1>4, <1>5

\* What the type invariant says of the inputs, the window and the sizes.
LEMMA TypeFacts ==
  ASSUME TypeOK
  PROVE  /\ file \in Seq(Bytes) /\ Len(file) \in Nat
         /\ blksize \in Nat \ {0} /\ windowsize \in Nat \ {0}
         /\ offset \in 0..Len(file) /\ offset \in Nat
         /\ spillover \in Seq(Bytes) /\ Len(spillover) \in Nat /\ got \in Seq(Bytes)
         /\ window \in Seq(Blocks) /\ Len(window) \in Nat
<1>1. file \in Seq(Bytes) /\ spillover \in Seq(Bytes) /\ got \in Seq(Bytes) /\ window \in Seq(Blocks)
  BY DEF TypeOK, Blocks
<1>2. Len(file) \in Nat /\ Len(spillover) \in Nat /\ Len(window) \in Nat
  BY <1>1, LenProperties
<1>3. blksize \in Nat \ {0} /\ windowsize \in Nat \ {0}
  BY ConstantAssumption DEF TypeOK
<1>4. QED
  BY <1>1, <1>2, <1>3 DEF TypeOK

\* A block and the rest of enough bytes.
LEMMA BlockAndRest ==
  ASSUME blksize \in Nat \ {0}, NEW s \in Seq(Bytes), FullBlock(s)
  PROVE  /\ FirstBlock(s) \in Seq(Bytes) /\ AfterBlock(s) \in Seq(Bytes)
         /\ Len(FirstBlock(s)) = blksize
         /\ FirstBlock(s) \o AfterBlock(s) = s
<1>1. Len(s) \in Nat /\ blksize \in 0..Len(s) /\ \A i \in 1..Len(s) : s[i] \in Bytes
  BY LenProperties, ElementOfSeq DEF FullBlock
<1>2. FirstBlock(s) \in Seq(Bytes) /\ Len(FirstBlock(s)) = blksize
  BY <1>1, PrefixProperties DEF FirstBlock
<1>3. AfterBlock(s) \in Seq(Bytes)
  <2>1. \A i \in (blksize + 1)..Len(s) : s[i] \in Bytes
    BY <1>1
  <2>2. QED
    BY <1>1, <2>1, SubSeqProperties DEF AfterBlock
<1>4. SubSeq(s, 1, blksize) \o SubSeq(s, blksize + 1, Len(s)) = SubSeq(s, 1, Len(s))
  <2>1. 1 \in 1..(Len(s) + 1) /\ blksize \in (1 - 1)..Len(s) /\ Len(s) \in blksize..Len(s)
    BY <1>1
  <2>2. QED
    BY <2>1, ConcatAdjacentSubSeq
<1>5. SubSeq(s, 1, Len(s)) = s
  BY SubSeqFull
<1>6. QED
  BY <1>2, <1>3, <1>4, <1>5 DEF FirstBlock, AfterBlock

\* A read from where the file has been read to.
LEMMA ReadType ==
  ASSUME file \in Seq(Bytes), blksize \in Nat \ {0}, NEW o \in 0..Len(file)
  PROVE  Read(o) \in Seq(Bytes) /\ ReadEnd(o) \in 0..Len(file)
<1>1. Len(file) \in Nat /\ \A i \in 1..Len(file) : file[i] \in Bytes
  BY LenProperties, ElementOfSeq
<1>2. ReadEnd(o) \in 0..Len(file)
  BY <1>1 DEF ReadEnd
<1>3. \A i \in (o + 1)..ReadEnd(o) : file[i] \in Bytes
  BY <1>1, <1>2
<1>4. QED
  BY <1>1, <1>2, <1>3, SubSeqProperties DEF Read

\* The first states have their types.
LEMMA InitType ==
  ASSUME Init
  PROVE  TypeOK
<1>1. file \in Seq(Bytes)
  <2>1. file \in UNION {[1..m -> Bytes] : m \in 0..MaxLength}
    BY DEF Init, BoundedSeq, SeqOf
  <2>2. PICK m \in 0..MaxLength : file \in [1..m -> Bytes]
    BY <2>1
  <2>3. m \in Nat
    BY ConstantAssumption
  <2>4. QED
    BY <2>2, <2>3
<1>2. Len(file) \in Nat /\ windowsize \in Nat /\ <<>> \in Seq(Blocks) /\ Len(<<>>) = 0
  BY <1>1, LenProperties, ConstantAssumption DEF Init
<1>3. /\ window \in Seq(Blocks) /\ Len(window) <= windowsize /\ offset \in 0..Len(file)
      /\ spillover \in Seq(Bytes) /\ got \in Seq(Bytes)
  BY <1>2 DEF Init
<1>4. QED
  BY <1>1, <1>3 DEF Init, TypeOK, Blocks

\* A step keeps the types.
LEMMA StepType ==
  ASSUME TypeOK, [Next]_vars
  PROVE  TypeOK'
<1>1. /\ file \in Seq(Bytes) /\ Len(file) \in Nat
      /\ blksize \in Nat \ {0} /\ windowsize \in Nat \ {0}
      /\ offset \in 0..Len(file) /\ offset \in Nat
      /\ spillover \in Seq(Bytes) /\ Len(spillover) \in Nat /\ got \in Seq(Bytes)
      /\ window \in Seq(Blocks) /\ Len(window) \in Nat
  BY TypeFacts
<1>2. Read(offset) \in Seq(Bytes) /\ ReadEnd(offset) \in 0..Len(file) /\ Convert(Read(offset)) \in Seq(Bytes)
  BY <1>1, ReadType, ConvertType
<1>3. ASSUME NEW d \in Seq(Bytes), NEW f \in BOOLEAN, Room, window' = Append(window, Block(d, f))
      PROVE  window' \in Seq(Blocks) /\ Len(window') <= windowsize
  <2>1. window' \in Seq(Blocks) /\ Len(window') = Len(window) + 1
    BY <1>1, <1>3, BlockIs, BlockAppend
  <2>2. QED
    BY <1>1, <1>3, <2>1 DEF Room
<1>4. CASE FillServer
  <2>1. /\ window' = Append(window, Block(Convert(Read(offset)), ReadEnd(offset) - offset < blksize))
        /\ eof' = (ReadEnd(offset) - offset < blksize) /\ Room
    BY <1>4 DEF FillServer
  <2>2. window' \in Seq(Blocks) /\ Len(window') <= windowsize /\ eof' \in BOOLEAN
    <3>1. PICK f \in BOOLEAN : f = (ReadEnd(offset) - offset < blksize)
      <4>1. CASE ReadEnd(offset) - offset < blksize
        BY <4>1, TRUE \in BOOLEAN, TRUE = (ReadEnd(offset) - offset < blksize)
      <4>2. CASE ~(ReadEnd(offset) - offset < blksize)
        BY <4>2, FALSE \in BOOLEAN, FALSE = (ReadEnd(offset) - offset < blksize)
      <4>3. QED
        BY <4>1, <4>2
    <3>2. window' = Append(window, Block(Convert(Read(offset)), f)) /\ eof' = f
      BY <2>1, <3>1
    <3>3. QED
      BY <1>2, <1>3, <2>1, <3>2
  <2>3. QED
    BY <1>2, <1>4, <2>2 DEF FillServer, TypeOK, inputs, Blocks
<1>5. CASE DrainSpillover
  <2>1. FirstBlock(spillover) \in Seq(Bytes) /\ AfterBlock(spillover) \in Seq(Bytes)
    BY <1>1, <1>5, BlockAndRest DEF DrainSpillover
  <2>2. window' \in Seq(Blocks) /\ Len(window') <= windowsize
    BY <1>3, <1>5, <2>1 DEF DrainSpillover
  <2>3. QED
    BY <1>5, <2>1, <2>2 DEF DrainSpillover, TypeOK, inputs, Blocks
<1>6. CASE FillMain
  <2> DEFINE s == spillover \o Convert(Read(offset))
  <2>1. s \in Seq(Bytes)
    BY <1>1, <1>2, ConcatProperties
  <2>2. \/ FullBlock(s) /\ window' = Append(window, Block(FirstBlock(s), FALSE)) /\ spillover' = AfterBlock(s)
        \/ spillover' = s /\ window' = window
    BY <1>6 DEF FillMain
  <2> HIDE DEF s
  <2>3. window' \in Seq(Blocks) /\ Len(window') <= windowsize /\ spillover' \in Seq(Bytes)
    <3>1. CASE FullBlock(s) /\ window' = Append(window, Block(FirstBlock(s), FALSE)) /\ spillover' = AfterBlock(s)
      <4>1. FirstBlock(s) \in Seq(Bytes) /\ AfterBlock(s) \in Seq(Bytes)
        BY <1>1, <2>1, <3>1, BlockAndRest
      <4>2. QED
        BY <1>3, <1>6, <3>1, <4>1 DEF FillMain
    <3>2. CASE spillover' = s /\ window' = window
      BY <1>1, <2>1, <3>2 DEF TypeOK
    <3>3. QED
      BY <2>2, <3>1, <3>2
  <2>4. QED
    BY <1>2, <1>6, <2>3 DEF FillMain, TypeOK, inputs, Blocks
<1>7. CASE ReachEof
  BY <1>7 DEF ReachEof, TypeOK, inputs
<1>8. CASE DrainRest
  <2>1. CASE spillover # <<>> /\ Room
    <3> DEFINE more == Len(spillover) > blksize
               block == IF more THEN FirstBlock(spillover) ELSE spillover
    <3>1. /\ window' = Append(window, Block(block, Len(block) < blksize))
          /\ spillover' = IF more THEN AfterBlock(spillover) ELSE <<>>
          /\ pc' = IF Len(block) < blksize THEN "send" ELSE "drain"
      BY <1>8, <2>1 DEF DrainRest
    <3>2. block \in Seq(Bytes) /\ spillover' \in Seq(Bytes)
      <4>1. CASE more
        <5>1. FullBlock(spillover)
          BY <1>1, <4>1 DEF FullBlock
        <5>2. QED
          BY <1>1, <3>1, <4>1, <5>1, BlockAndRest
      <4>2. CASE ~more
        BY <1>1, <3>1, <4>2
      <4>3. QED
        BY <4>1, <4>2
    <3> HIDE DEF block
    <3>3. window' \in Seq(Blocks) /\ Len(window') <= windowsize
      <4>1. PICK f \in BOOLEAN : f = (Len(block) < blksize)
        <5>1. CASE Len(block) < blksize
          BY <5>1, TRUE \in BOOLEAN, TRUE = (Len(block) < blksize)
        <5>2. CASE ~(Len(block) < blksize)
          BY <5>2, FALSE \in BOOLEAN, FALSE = (Len(block) < blksize)
        <5>3. QED
          BY <5>1, <5>2
      <4>2. window' = Append(window, Block(block, f))
        BY <3>1, <4>1
      <4>3. QED
        BY <1>3, <2>1, <3>2, <4>2
    <3>4. QED
      BY <1>8, <3>1, <3>2, <3>3 DEF DrainRest, TypeOK, inputs, Blocks
  <2>2. CASE ~(spillover # <<>> /\ Room)
    BY <1>8, <2>2 DEF DrainRest, TypeOK, inputs
  <2>3. QED
    BY <2>1, <2>2
<1>9. CASE WindowBuilt
  BY <1>9 DEF WindowBuilt, TypeOK, inputs
<1>10. CASE SendWindow
  <2>1. ClientTakes(Data)
    BY <1>10 DEF SendWindow
  <2>2. Data \in Seq(Seq(Bytes))
    BY <1>1, DataIs
  <2> HIDE DEF ClientTakes, Data
  <2>3. got' \in Seq(Bytes) /\ complete' \in BOOLEAN
    BY <1>1, <2>1, <2>2, ClientTakesType DEF TypeOK
  <2>4. window' = <<>> /\ <<>> \in Seq(Blocks) /\ Len(<<>>) = 0 /\ pc' \in {"fill", "empty", "done", "failed"}
    BY <1>10 DEF SendWindow
  <2>5. QED
    BY <1>1, <1>10, <2>3, <2>4 DEF SendWindow, TypeOK, inputs, Blocks
<1>11. CASE SendEmptyBlock
  <2>1. ClientTakes(<< <<>> >>)
    BY <1>11 DEF SendEmptyBlock
  <2> HIDE DEF ClientTakes
  <2>2. got' \in Seq(Bytes) /\ complete' \in BOOLEAN
    BY <1>1, <2>1, EmptyBlockIs, ClientTakesType DEF TypeOK
  <2>3. QED
    BY <1>1, <1>11, <2>2 DEF SendEmptyBlock, TypeOK, inputs
<1>12. CASE UNCHANGED vars
  BY <1>12 DEF TypeOK, vars, inputs
<1>13. QED
  BY <1>4, <1>5, <1>6, <1>7, <1>8, <1>9, <1>10, <1>11, <1>12 DEF Next

\* Every variable stays in its range, and no window gets more than windowsize blocks, for
\* every file, blksize and windowsize, in both programs.
THEOREM TypeCorrect == Spec => []TypeOK
<1>1. Init => TypeOK
  BY InitType
<1>2. TypeOK /\ [Next]_vars => TypeOK'
  BY StepType
<1>3. QED
  BY <1>1, <1>2, PTL DEF Spec

\* Decoding the NETASCII form of any file gives back its text, with lib.rs the file itself and
\* with main.rs the file with each CR LF as LF, whatever CHUNK_SIZE is.
THEOREM RoundTripCorrect == Spec => []ConversionRoundTrip
<1>1. TypeOK => ConversionRoundTrip
  BY RoundTrip DEF TypeOK, ConversionRoundTrip, Convert
<1>2. QED
  BY <1>1, TypeCorrect, PTL

---------------------------------------------------------------------------
(* Streaming: main.rs. *)

\* What depends on the inputs alone does not change with a step that keeps them.
LEMMA InputsKept ==
  ASSUME UNCHANGED inputs
  PROVE  /\ variant' = variant /\ file' = file /\ blksize' = blksize /\ windowsize' = windowsize
         /\ \A k : Cut(k)' = Cut(k) /\ ConvertedReads(k)' = ConvertedReads(k)
         /\ \A s : KeptBlocks(s)' = KeptBlocks(s)
<1>1. variant' = variant /\ file' = file /\ blksize' = blksize /\ windowsize' = windowsize
  BY DEF inputs
<1>2. \A d : Convert(d)' = Convert(d) /\ Read(d)' = Read(d) /\ Kept(d)' = Kept(d)
  BY <1>1 DEF Convert, Read, ReadEnd, Kept
<1>3. ASSUME NEW k PROVE Cut(k)' = Cut(k) /\ ConvertedReads(k)' = ConvertedReads(k)
  BY <1>1 DEF Cut, ConvertedReads, Convert, Read, ReadEnd
<1>4. ASSUME NEW s PROVE KeptBlocks(s)' = KeptBlocks(s)
  BY <1>1 DEF KeptBlocks, Kept
<1>5. QED
  BY <1>1, <1>3, <1>4

\* A block moves from what is left over to the window.
LEMMA MoveBlock ==
  ASSUME NEW g \in Seq(Bytes), NEW d \in Seq(Bytes), NEW x \in Seq(Bytes), NEW y \in Seq(Bytes)
  PROVE  Cat(Cat(g, Cat(d, x)), y) = Cat(Cat(g, d), Cat(x, y))
<1>1. Cat(g, Cat(d, x)) = Cat(Cat(g, d), x) /\ Cat(g, d) \in Seq(Bytes)
  BY CatAssociative
<1>2. QED
  BY <1>1, CatAssociative

\* No block of the window is final.
NoneFinal == \A i \in 1..Len(window) : ~window[i].final /\ Len(window[i].data) = blksize

\* MainInv when the window is not complete yet.
LEMMA FillingInv ==
  ASSUME TypeOK, NEW k \in Nat, MainInv(k), pc \in {"fill", "drain"} \/ ~eof
  PROVE  NoneFinal
<1>1. DOMAIN window = 1..Len(window) /\ \A i \in 1..Len(window) : window[i].final \in BOOLEAN
  BY TypeFacts, LenProperties, DataOfIs
<1>2. QED
  BY <1>1 DEF MainInv, NoneFinal

\* A full block that is not final is added to the window.
LEMMA AddFull ==
  ASSUME TypeOK, blksize' = blksize, NoneFinal, NEW d \in Seq(Bytes), Len(d) = blksize,
         window' = Append(window, Block(d, FALSE))
  PROVE  NoneFinal' /\ Data' = Append(Data, d) /\ FlattenSeq(Data') = FlattenSeq(Data) \o d
<1>1. window \in Seq(Blocks) /\ Len(window) \in Nat
  BY TypeFacts
<1> DEFINE e == Block(d, FALSE)
           a == Append(window, e)
<1>2. /\ a \in Seq(Blocks) /\ Len(a) = Len(window) + 1
      /\ DataOf(a) = Append(DataOf(window), d)
      /\ a[Len(window) + 1].data = d /\ ~a[Len(window) + 1].final
      /\ \A i \in 1..Len(window) : a[i] = window[i]
  <2>1. e \in Blocks /\ e.data = d /\ ~e.final
    BY FinalIs
  <2> HIDE DEF e
  <2>2. QED
    BY <1>1, <2>1, BlockAppend
<1> HIDE DEF a
<1>3. window' = a
  BY DEF a
<1>4. Data' = DataOf(window') /\ Data = DataOf(window) /\ DataOf(window) \in Seq(Seq(Bytes))
  BY <1>1, DataOfIs DEF Data, DataOf
<1>5. ASSUME NEW i \in 1..Len(a) PROVE ~a[i].final /\ Len(a[i].data) = blksize
  <2>1. CASE i = Len(window) + 1
    BY <1>2, <2>1
  <2>2. CASE i # Len(window) + 1
    <3>1. i \in 1..Len(window)
      BY <1>1, <1>2, <2>2
    <3>2. QED
      BY <1>2, <3>1 DEF NoneFinal
  <2>3. QED
    BY <2>1, <2>2
<1>6. NoneFinal'
  <2>1. \A i \in 1..Len(window') : ~window'[i].final /\ Len(window'[i].data) = blksize'
    BY ONLY <1>3, <1>5, blksize' = blksize, Zenon
  <2>2. QED
    BY <2>1 DEF NoneFinal
<1>7. QED
  BY <1>2, <1>3, <1>4, <1>6, FlattenAppend

\* A window of which no block is final meets what MainInv says of blocks.
LEMMA NoneFinalBlocks ==
  ASSUME window \in Seq(Blocks), NoneFinal
  PROVE  \A i \in DOMAIN window :
           IF window[i].final
           THEN pc = "send" /\ eof /\ i = Len(window) /\ Len(window[i].data) \in 1..(blksize - 1)
           ELSE Len(window[i].data) = blksize
<1>1. DOMAIN window = 1..Len(window)
  BY LenProperties
<1>2. QED
  BY <1>1 DEF NoneFinal

\* The last block of the window is the last one of the file.
LastFinal ==
  /\ pc = "send" /\ eof
  /\ \E i \in 1..Len(window) : window[i].final
  /\ \A i \in 1..Len(window) :
       IF window[i].final THEN i = Len(window) /\ Len(window[i].data) \in 1..(blksize - 1)
       ELSE Len(window[i].data) = blksize

\* What the client has stays whole windows while it gets nothing.
LEMMA KeepsWindows ==
  ASSUME UNCHANGED inputs, got' = got, WholeWindows
  PROVE  WholeWindows'
<1>1. blksize' = blksize /\ windowsize' = windowsize
  BY InputsKept
<1>2. QED
  BY <1>1 DEF WholeWindows

\* MainInv from its parts, after a step that does not end the transfer.
LEMMA MainBuild ==
  ASSUME TypeOK', UNCHANGED inputs, variant = "main", NEW k \in Nat,
         offset' = Cut(k), k = 0 \/ (k - 1) * blksize < Len(file), eof' => offset' = Len(file),
         pc' = "fill" => ~eof',
         pc' = "drain" => eof' /\ Room' /\ Len(spillover') < blksize,
         pc' = "send" => IF eof' THEN spillover' = <<>> /\ (Room' \/ LastFinal') ELSE ~Room',
         pc' \in {"fill", "drain", "send"}, NoneFinal' \/ LastFinal', ~complete',
         (got' \o FlattenSeq(Data')) \o spillover' = FlattenSeq(ConvertedReads(k)), WholeWindows'
  PROVE  MainInv(k)'
<1>1. /\ variant' = variant /\ file' = file /\ blksize' = blksize /\ Cut(k)' = Cut(k)
      /\ ConvertedReads(k)' = ConvertedReads(k)
  BY InputsKept
<1>2. window' \in Seq(Blocks) /\ DOMAIN window' = 1..Len(window')
  <2>1. window' \in Seq(Blocks)
    BY DEF TypeOK, Blocks
  <2>2. QED
    BY <2>1, LenProperties
<1>3. \A i \in DOMAIN window' :
        IF window'[i].final
        THEN pc' = "send" /\ eof' /\ i = Len(window') /\ Len(window'[i].data) \in 1..(blksize' - 1)
        ELSE Len(window'[i].data) = blksize'
  BY <1>2 DEF NoneFinal, LastFinal
<1>4. FlattenSeq(ConvertedReads(k))' = FlattenSeq(ConvertedReads(k))
  BY <1>1
<1>5. /\ variant' = "main"
      /\ offset' = Cut(k)' /\ (k = 0 \/ (k - 1) * blksize' < Len(file'))
      /\ eof' => offset' = Len(file')
      /\ pc' = "fill" => ~eof'
      /\ pc' = "drain" => eof' /\ Room' /\ Len(spillover') < blksize'
      /\ pc' # "empty"
      /\ \A i \in DOMAIN window' :
           IF window'[i].final
           THEN pc' = "send" /\ eof' /\ i = Len(window') /\ Len(window'[i].data) \in 1..(blksize' - 1)
           ELSE Len(window'[i].data) = blksize'
      /\ ~complete'
      /\ (got' \o FlattenSeq(Data')) \o spillover' = FlattenSeq(ConvertedReads(k))'
      /\ WholeWindows'
  BY <1>1, <1>3, <1>4
<1>6. pc' = "send" => IF eof' THEN spillover' = <<>> /\ (Room' \/ \E i \in DOMAIN window' : window'[i].final)
                      ELSE ~Room'
  <2>1. LastFinal' => \E i \in DOMAIN window' : window'[i].final
    BY <1>2 DEF LastFinal
  <2> HIDE DEF LastFinal, Room
  <2>2. QED
    BY <2>1
<1>7. ~Ended'
  BY DEF Ended
<1> HIDE DEF TypeOK, Room, NoneFinal, LastFinal, Ended
<1>8. QED
  BY <1>5, <1>6, <1>7 DEF MainInv

\* What the invariant says before a step of main.rs that fills the window.
LEMMA MainFacts ==
  ASSUME TypeOK, NEW k \in Nat, MainInv(k), pc \in {"fill", "drain", "send"}
  PROVE  /\ variant = "main" /\ offset = Cut(k) /\ (k = 0 \/ (k - 1) * blksize < Len(file)) /\ ~complete
         /\ eof => offset = Len(file)
         /\ WholeWindows
         /\ (got \o FlattenSeq(Data)) \o spillover = FlattenSeq(ConvertedReads(k))
         /\ Data \in Seq(Seq(Bytes)) /\ FlattenSeq(Data) \in Seq(Bytes)
<1>1. Data \in Seq(Seq(Bytes))
  BY TypeFacts, DataIs
<1>2. FlattenSeq(Data) \in Seq(Bytes)
  BY <1>1, FlattenType
<1>3. ~Ended
  BY DEF Ended
<1>4. QED
  BY <1>1, <1>2, <1>3 DEF MainInv

\* DrainSpillover sends nothing that has not been read.
LEMMA MainDrainSpillover ==
  ASSUME TypeOK, TypeOK', NEW k \in Nat, MainInv(k), DrainSpillover
  PROVE  MainInv(k)'
<1>1. /\ pc = "fill" /\ ~eof /\ FullBlock(spillover)
      /\ window' = Append(window, Block(FirstBlock(spillover), FALSE))
      /\ spillover' = AfterBlock(spillover)
      /\ UNCHANGED inputs /\ offset' = offset /\ eof' = eof /\ pc' = pc /\ got' = got /\ complete' = complete
  BY DEF DrainSpillover
<1>2. blksize' = blksize
  BY <1>1, InputsKept
<1>3. /\ variant = "main" /\ offset = Cut(k) /\ (k = 0 \/ (k - 1) * blksize < Len(file)) /\ ~complete
      /\ (got \o FlattenSeq(Data)) \o spillover = FlattenSeq(ConvertedReads(k))
      /\ FlattenSeq(Data) \in Seq(Bytes)
  BY <1>1, MainFacts
<1>4. /\ FirstBlock(spillover) \in Seq(Bytes) /\ AfterBlock(spillover) \in Seq(Bytes)
      /\ Len(FirstBlock(spillover)) = blksize
      /\ FirstBlock(spillover) \o AfterBlock(spillover) = spillover
      /\ got \in Seq(Bytes)
  BY <1>1, TypeFacts, BlockAndRest
<1>5. NoneFinal
  BY <1>1, FillingInv
<1>6. NoneFinal' /\ FlattenSeq(Data') = FlattenSeq(Data) \o FirstBlock(spillover)
  BY <1>1, <1>2, <1>4, <1>5, AddFull
<1>7. (got' \o FlattenSeq(Data')) \o spillover' = FlattenSeq(ConvertedReads(k))
  <2>1. Cat(Cat(got, Cat(FlattenSeq(Data), FirstBlock(spillover))), AfterBlock(spillover)) =
          Cat(Cat(got, FlattenSeq(Data)), Cat(FirstBlock(spillover), AfterBlock(spillover)))
    BY <1>3, <1>4, MoveBlock
  <2>2. QED
    BY ONLY <1>1, <1>3, <1>4, <1>6, <2>1 DEF Cat
<1>8. WholeWindows'
  BY <1>1, MainFacts, KeepsWindows
<1>9. QED
  BY <1>1, <1>3, <1>6, <1>7, <1>8, MainBuild

\* FillMain reads once more.
LEMMA MainFillMain ==
  ASSUME TypeOK, TypeOK', NEW k \in Nat, MainInv(k), FillMain
  PROVE  k + 1 \in 0..(Len(file) + 1) /\ MainInv(k + 1)'
<1> DEFINE s == spillover \o Convert(Read(offset))
<1>1. /\ pc = "fill" /\ ~eof /\ offset < Len(file) /\ offset' = ReadEnd(offset)
      /\ \/ FullBlock(s) /\ window' = Append(window, Block(FirstBlock(s), FALSE)) /\ spillover' = AfterBlock(s)
         \/ spillover' = s /\ window' = window
      /\ UNCHANGED inputs /\ eof' = eof /\ pc' = pc /\ got' = got /\ complete' = complete
  BY DEF FillMain
<1>2. blksize' = blksize
  BY <1>1, InputsKept
<1>3. /\ variant = "main" /\ offset = Cut(k) /\ ~complete
      /\ (got \o FlattenSeq(Data)) \o spillover = FlattenSeq(ConvertedReads(k))
      /\ FlattenSeq(Data) \in Seq(Bytes)
  BY <1>1, MainFacts
<1>4. file \in Seq(Bytes) /\ Len(file) \in Nat /\ blksize \in Nat \ {0} /\ spillover \in Seq(Bytes) /\ got \in Seq(Bytes)
  BY TypeFacts
<1>5. k * blksize \in Nat /\ k <= k * blksize /\ k * blksize < Len(file) /\ offset' = Cut(k + 1)
  <2>1. k * blksize \in Nat /\ k <= k * blksize
    BY <1>4, Multiples
  <2>2. k * blksize < Len(file)
    BY <1>1, <1>3, <1>4, <2>1, CutIs
  <2>3. ReadEnd(Cut(k)) = Cut(k + 1)
    BY <1>4, <2>1, <2>2, CutIs
  <2>4. QED
    BY <1>1, <1>3, <2>1, <2>2, <2>3
<1>6. k + 1 \in 0..(Len(file) + 1) /\ k + 1 \in Nat /\ (k + 1) - 1 = k
  BY <1>4, <1>5
<1>7. /\ Convert(Read(offset)) \in Seq(Bytes)
      /\ FlattenSeq(ConvertedReads(k + 1)) = FlattenSeq(ConvertedReads(k)) \o Convert(Read(offset))
  <2>1. k * blksize <= Len(file)
    BY ONLY <1>4, <1>5
  <2>2. /\ Convert(Read(Cut(k))) \in Seq(Bytes)
        /\ FlattenSeq(ConvertedReads(k + 1)) = FlattenSeq(ConvertedReads(k)) \o Convert(Read(Cut(k)))
    BY <1>4, <2>1, ReadsStep
  <2>3. QED
    BY ONLY <1>3, <2>2
<1>8. s \in Seq(Bytes) /\ (got \o FlattenSeq(Data)) \o s = FlattenSeq(ConvertedReads(k + 1))
  <2>1. got \o FlattenSeq(Data) \in Seq(Bytes) /\ s \in Seq(Bytes)
    BY <1>3, <1>4, <1>7, ConcatProperties
  <2>2. Cat(Cat(Cat(got, FlattenSeq(Data)), spillover), Convert(Read(offset))) =
          Cat(Cat(got, FlattenSeq(Data)), Cat(spillover, Convert(Read(offset))))
    <3>1. Cat(got, FlattenSeq(Data)) \in Seq(Bytes)
      BY <2>1 DEF Cat
    <3>2. QED
      BY <1>4, <1>7, <3>1, CatAssociative
  <2>3. QED
    BY ONLY <1>3, <1>7, <2>1, <2>2 DEF s, Cat
<1>9. NoneFinal
  BY <1>1, FillingInv
<1> HIDE DEF s
<1>10. NoneFinal' /\ (got' \o FlattenSeq(Data')) \o spillover' = FlattenSeq(ConvertedReads(k + 1))
  <2>1. CASE FullBlock(s) /\ window' = Append(window, Block(FirstBlock(s), FALSE)) /\ spillover' = AfterBlock(s)
    <3>1. /\ FirstBlock(s) \in Seq(Bytes) /\ AfterBlock(s) \in Seq(Bytes)
          /\ Len(FirstBlock(s)) = blksize /\ FirstBlock(s) \o AfterBlock(s) = s
      BY <1>4, <1>8, <2>1, BlockAndRest
    <3>2. NoneFinal' /\ FlattenSeq(Data') = FlattenSeq(Data) \o FirstBlock(s)
      BY <1>2, <1>9, <2>1, <3>1, AddFull
    <3>3. Cat(Cat(got, Cat(FlattenSeq(Data), FirstBlock(s))), AfterBlock(s)) =
            Cat(Cat(got, FlattenSeq(Data)), Cat(FirstBlock(s), AfterBlock(s)))
      BY <1>3, <1>4, <3>1, MoveBlock
    <3>4. QED
      BY ONLY <1>1, <1>8, <2>1, <3>1, <3>2, <3>3 DEF Cat
  <2>2. CASE spillover' = s /\ window' = window
    BY <1>1, <1>2, <1>8, <1>9, <2>2 DEF NoneFinal, Data
  <2>3. QED
    BY <1>1, <2>1, <2>2
<1>11. WholeWindows'
  BY <1>1, MainFacts, KeepsWindows
<1>12. QED
  BY <1>1, <1>3, <1>5, <1>6, <1>10, <1>11, MainBuild

\* ReachEof: everything has been read, and less than a block is left over.
LEMMA MainReachEof ==
  ASSUME TypeOK, TypeOK', NEW k \in Nat, MainInv(k), ReachEof
  PROVE  MainInv(k)'
<1>1. /\ pc = "fill" /\ Room /\ ~eof /\ ~FullBlock(spillover) /\ offset = Len(file) /\ eof' /\ pc' = "drain"
      /\ UNCHANGED inputs /\ offset' = offset /\ spillover' = spillover /\ window' = window
      /\ got' = got /\ complete' = complete
  BY DEF ReachEof
<1>2. blksize' = blksize /\ windowsize' = windowsize
  BY <1>1, InputsKept
<1>3. /\ variant = "main" /\ offset = Cut(k) /\ (k = 0 \/ (k - 1) * blksize < Len(file)) /\ ~complete
      /\ (got \o FlattenSeq(Data)) \o spillover = FlattenSeq(ConvertedReads(k))
  BY <1>1, MainFacts
<1>4. NoneFinal
  BY <1>1, FillingInv
<1>5. NoneFinal' /\ Data' = Data /\ Room'
  BY <1>1, <1>2, <1>4 DEF NoneFinal, Data, Room
<1>6. Len(spillover') < blksize
  BY <1>1, TypeFacts DEF FullBlock
<1>7. (got' \o FlattenSeq(Data')) \o spillover' = FlattenSeq(ConvertedReads(k))
  BY ONLY <1>1, <1>3, <1>5
<1>8. WholeWindows'
  BY <1>1, MainFacts, KeepsWindows
<1>9. QED
  BY <1>1, <1>3, <1>5, <1>6, <1>7, <1>8, MainBuild

\* WindowBuilt: the window is full.
LEMMA MainWindowBuilt ==
  ASSUME TypeOK, TypeOK', NEW k \in Nat, MainInv(k), WindowBuilt
  PROVE  MainInv(k)'
<1>1. /\ pc = "fill" /\ (eof \/ ~Room) /\ pc' = "send"
      /\ UNCHANGED inputs /\ offset' = offset /\ spillover' = spillover /\ window' = window
      /\ eof' = eof /\ got' = got /\ complete' = complete
  BY DEF WindowBuilt
<1>2. blksize' = blksize /\ windowsize' = windowsize
  BY <1>1, InputsKept
<1>3. /\ variant = "main" /\ offset = Cut(k) /\ (k = 0 \/ (k - 1) * blksize < Len(file)) /\ ~complete
      /\ (got \o FlattenSeq(Data)) \o spillover = FlattenSeq(ConvertedReads(k))
  BY <1>1, MainFacts
<1>4. NoneFinal /\ ~eof
  BY <1>1, FillingInv DEF MainInv
<1>5. NoneFinal' /\ Data' = Data /\ ~Room'
  BY <1>1, <1>2, <1>4 DEF NoneFinal, Data, Room
<1>6. (got' \o FlattenSeq(Data')) \o spillover' = FlattenSeq(ConvertedReads(k))
  BY ONLY <1>1, <1>3, <1>5
<1>7. ~eof'
  BY <1>1, <1>4
<1>8. WholeWindows'
  BY <1>1, MainFacts, KeepsWindows
<1>9. QED
  BY <1>1, <1>3, <1>5, <1>6, <1>7, <1>8, MainBuild

\* DrainRest: what is left over is the last block, or there is nothing left.
LEMMA MainDrainRest ==
  ASSUME TypeOK, TypeOK', NEW k \in Nat, MainInv(k), DrainRest
  PROVE  MainInv(k)'
<1>1. /\ pc = "drain" /\ UNCHANGED inputs /\ offset' = offset /\ eof' = eof /\ got' = got /\ complete' = complete
  BY DEF DrainRest
<1>2. blksize' = blksize
  BY <1>1, InputsKept
<1>3. /\ variant = "main" /\ offset = Cut(k) /\ (k = 0 \/ (k - 1) * blksize < Len(file)) /\ ~complete
      /\ eof => offset = Len(file)
      /\ (got \o FlattenSeq(Data)) \o spillover = FlattenSeq(ConvertedReads(k))
      /\ Data \in Seq(Seq(Bytes)) /\ FlattenSeq(Data) \in Seq(Bytes)
  BY <1>1, MainFacts
<1>4. NoneFinal /\ eof /\ Room /\ Len(spillover) < blksize
  BY <1>1, FillingInv DEF MainInv
<1>5. spillover \in Seq(Bytes) /\ Len(spillover) \in Nat /\ blksize \in Nat /\ got \in Seq(Bytes) /\ window \in Seq(Blocks) /\ Len(window) \in Nat
  BY TypeFacts
<1>0. WholeWindows'
  BY <1>1, MainFacts, KeepsWindows
<1>6. CASE spillover = <<>>
  <2>1. pc' = "send" /\ window' = window /\ spillover' = spillover
    BY <1>6 DEF DrainRest
  <2>2. NoneFinal' /\ Data' = Data /\ Room'
    BY <1>1, <1>2, <1>4, <2>1, InputsKept DEF NoneFinal, Data, Room
  <2>3. (got' \o FlattenSeq(Data')) \o spillover' = FlattenSeq(ConvertedReads(k))
    BY ONLY <1>1, <1>3, <2>1, <2>2
  <2>4. QED
    BY <1>0, <1>1, <1>3, <1>4, <1>6, <2>1, <2>2, <2>3, MainBuild
<1>7. CASE spillover # <<>>
  <2> DEFINE e == Block(spillover, TRUE)
             a == Append(window, e)
  <2>1. window' = a /\ spillover' = <<>> /\ pc' = "send"
    <3>1. ~(Len(spillover) > blksize)
      BY <1>4, <1>5
    <3>2. /\ window' = Append(window, Block(spillover, Len(spillover) < blksize))
          /\ spillover' = <<>>
          /\ pc' = IF Len(spillover) < blksize THEN "send" ELSE "drain"
      BY <1>4, <1>7, <3>1 DEF DrainRest
    <3>3. (Len(spillover) < blksize) = TRUE
      BY <1>4
    <3>4. QED
      BY <3>2, <3>3
  <2>2. /\ a \in Seq(Blocks) /\ Len(a) = Len(window) + 1
        /\ DataOf(a) = Append(DataOf(window), spillover)
        /\ a[Len(window) + 1].data = spillover /\ a[Len(window) + 1].final
        /\ \A i \in 1..Len(window) : a[i] = window[i]
    <3>1. e \in Blocks /\ e.data = spillover /\ e.final
      BY <1>5, FinalIs
    <3> HIDE DEF e
    <3>2. QED
      BY <1>5, <3>1, BlockAppend
  <2> HIDE DEF a
  <2>3. ASSUME NEW i \in 1..Len(a)
        PROVE  IF a[i].final THEN i = Len(a) /\ Len(a[i].data) \in 1..(blksize - 1)
               ELSE Len(a[i].data) = blksize
    <3>1. CASE i = Len(window) + 1
      <4>1. Len(spillover) # 0
        BY <1>5, <1>7, EmptySeq
      <4>2. QED
        BY <1>4, <1>5, <2>2, <3>1, <4>1
    <3>2. CASE i # Len(window) + 1
      <4>1. i \in 1..Len(window)
        BY <1>5, <2>2, <3>2
      <4>2. QED
        BY <1>4, <2>2, <4>1 DEF NoneFinal
    <3>3. QED
      BY <3>1, <3>2
  <2>4. LastFinal'
    <3>1. \A i \in 1..Len(window') :
            IF window'[i].final THEN i = Len(window') /\ Len(window'[i].data) \in 1..(blksize' - 1)
            ELSE Len(window'[i].data) = blksize'
      BY ONLY <1>2, <2>1, <2>3, Zenon
    <3>2. \E i \in 1..Len(window') : window'[i].final
      <4>1. Len(window) + 1 \in 1..Len(a)
        BY <1>5, <2>2
      <4>2. QED
        BY <2>1, <2>2, <4>1
    <3>3. QED
      BY <1>1, <1>4, <2>1, <3>1, <3>2 DEF LastFinal
  <2>5. FlattenSeq(Data') = FlattenSeq(Data) \o spillover
    <3>1. Data' = DataOf(a) /\ Data = DataOf(window)
      BY <2>1 DEF Data, DataOf
    <3>2. Data' = Append(Data, spillover)
      BY <2>2, <3>1
    <3>3. QED
      BY <1>3, <1>5, <3>2, FlattenAppend
  <2>6. (got' \o FlattenSeq(Data')) \o spillover' = FlattenSeq(ConvertedReads(k))
    <3>1. Cat(Cat(got, FlattenSeq(Data)), spillover) = Cat(got, Cat(FlattenSeq(Data), spillover))
      BY <1>3, <1>5, CatAssociative
    <3>2. Cat(FlattenSeq(Data), spillover) \in Seq(Bytes) /\ Cat(got, Cat(FlattenSeq(Data), spillover)) \in Seq(Bytes)
      BY <1>3, <1>5, CatAssociative
    <3>3. Cat(got, Cat(FlattenSeq(Data), spillover)) \o <<>> = Cat(got, Cat(FlattenSeq(Data), spillover))
      BY ONLY <3>2, ConcatEmptySeq
    <3>4. QED
      BY ONLY <1>1, <1>3, <2>1, <2>5, <3>1, <3>3 DEF Cat
  <2>7. QED
    BY <1>0, <1>1, <1>3, <1>4, <2>1, <2>4, <2>6, MainBuild
<1>8. QED
  BY <1>6, <1>7

\* A multiple of b and a rest below b.
LEMMA DivModOf ==
  ASSUME NEW b \in Nat \ {0}, NEW k \in Nat, NEW c \in 0..(b - 1), NEW i \in Nat, i = k * b + c
  PROVE  i % b = c /\ i \div b = k
<1>1. PICK q \in Nat, r \in 0..(b - 1) : i = q * b + r /\ r = (i % b) /\ q = (i \div b)
  BY DivMod
<1>2. q * b \in Nat /\ k * b \in Nat /\ (q + 1) * b = q * b + b /\ (k + 1) * b = k * b + b
  BY Multiples
<1>3. q * b < (k + 1) * b /\ k * b < (q + 1) * b
  BY <1>1, <1>2
<1>4. ~(k + 1 <= q) /\ ~(q + 1 <= k)
  <2>1. ~((k + 1) * b <= q * b) /\ ~((q + 1) * b <= k * b) /\ k + 1 \in Nat /\ q + 1 \in Nat
    BY <1>2, <1>3
  <2>2. QED
    BY <2>1, MultiplesGrow
<1>5. q = k
  BY <1>4
<1>6. r = c
  BY <1>1, <1>2, <1>5
<1>7. QED
  BY <1>1, <1>5, <1>6

\* m windows, n blocks and r bytes: does the last block end inside a window?
LEMMA EndsInside ==
  ASSUME blksize \in Nat \ {0}, windowsize \in Nat \ {0}, NEW m \in Nat, NEW n \in 0..(windowsize - 1),
         NEW r \in 0..(blksize - 1), NEW s, Len(s) = (m * windowsize + n) * blksize + r
  PROVE  EndsInsideWindow(s) <=> r = 0 /\ n # 0
<1>1. PICK q \in Nat : q = m * windowsize + n
  BY Multiples
<1>2. PICK l \in Nat : l = q * blksize + r
  BY Multiples
<1>3. Len(s) = l
  BY <1>1, <1>2
<1>4. q % windowsize = n
  BY <1>1, DivModOf
<1>5. l % blksize = r /\ l \div blksize = q
  BY <1>2, DivModOf
<1>6. QED
  BY <1>3, <1>4, <1>5 DEF EndsInsideWindow

\* The length of n full blocks.
LEMMA FullLength ==
  ASSUME NEW S, NEW s \in Seq(Seq(S)), NEW b \in Nat \ {0}, NEW n \in 0..Len(s), \A i \in 1..n : Len(s[i]) = b
  PROVE  Len(Joined(s, n)) = n * b
<1> DEFINE L(i) == Len(Joined(s, i))
           T == {i \in 0..n : L(i) = i * b}
<1>1. n \in Nat /\ Len(s) \in Nat
  BY LenProperties
<1>2. ASSUME NEW i \in 1..n PROVE L(i) = L(i - 1) + b
  <2>1. i \in 1..Len(s) /\ Len(s[i]) = b
    BY <1>1
  <2>2. QED
    BY <2>1, JoinedStep
<1>3. L(0) = 0
  BY JoinedEnds
<1> HIDE DEF L
<1>4. 0 \in T
  BY <1>1, <1>3
<1>5. ASSUME NEW i \in 0..(n - 1), i \in T PROVE (i + 1) \in T
  <2>1. i + 1 \in 1..n /\ (i + 1) - 1 = i /\ i \in Nat /\ i + 1 \in 0..n
    BY <1>1
  <2>2. L(i + 1) = L(i) + b /\ L(i) = i * b
    BY <1>2, <1>5, <2>1
  <2>3. (i + 1) * b = i * b + b
    BY <2>1, Multiples
  <2>4. QED
    BY <2>1, <2>2, <2>3
<1>6. \A i \in 0..n : i \in T
  <2> HIDE DEF T
  <2>1. QED
    BY <1>1, <1>4, <1>5, BoundedInduction
<1>7. n \in T
  BY <1>1, <1>6
<1>8. QED
  BY <1>7 DEF L

\* What the client gets of a window of main.rs: all of it, and the end of the file with a final block.
LEMMA MainTakes ==
  ASSUME TypeOK, NEW k \in Nat, MainInv(k), pc = "send", ClientTakes(Data)
  PROVE  /\ got' = got \o FlattenSeq(Data)
         /\ complete' <=> \E i \in 1..Len(window) : window[i].final
         /\ (\E i \in 1..Len(Data) : Len(Data[i]) < blksize) <=> \E i \in 1..Len(window) : window[i].final
         /\ Len(Data) = Len(window) /\ \A i \in 1..Len(window) : Data[i] = window[i].data
<1>1. /\ window \in Seq(Blocks) /\ Len(window) \in Nat /\ blksize \in Nat \ {0} /\ got \in Seq(Bytes)
      /\ DOMAIN window = 1..Len(window) /\ ~complete
  BY TypeFacts, LenProperties, MainFacts
<1>2. /\ Data \in Seq(Seq(Bytes)) /\ Len(Data) = Len(window)
      /\ \A i \in 1..Len(window) : Data[i] = window[i].data /\ window[i].final \in BOOLEAN
  <2>1. Data = DataOf(window)
    BY <1>1, DataIs
  <2>2. QED
    BY <1>1, <2>1, DataOfIs
<1>3. \A i \in 1..Len(window) :
        IF window[i].final THEN i = Len(window) /\ Len(Data[i]) \in 1..(blksize - 1)
        ELSE Len(Data[i]) = blksize
  BY <1>1, <1>2 DEF MainInv
<1> HIDE DEF Data, ClientTakes
<1>4. ASSUME NEW i \in 1..Len(Data)
      PROVE  /\ Len(Data[i]) <= blksize /\ (Len(Data[i]) < blksize => i = Len(Data))
             /\ Len(Data[i]) < blksize <=> window[i].final
  <2>1. CASE window[i].final
    <3>1. i = Len(window) /\ Len(Data[i]) \in 1..(blksize - 1)
      BY <1>2, <1>3, <2>1
    <3>2. QED
      BY <1>1, <1>2, <2>1, <3>1
  <2>2. CASE ~window[i].final
    <3>1. Len(Data[i]) = blksize
      BY <1>2, <1>3, <2>2
    <3>2. QED
      BY <1>1, <2>2, <3>1
  <2>3. QED
    BY <2>1, <2>2
<1>5. /\ got' = got \o FlattenSeq(KeptBlocks(Data))
      /\ complete' <=> \E i \in 1..Len(Data) : Len(Data[i]) < blksize
  BY <1>1, <1>2, <1>4, ClientTakesAll
<1>6. KeptBlocks(Data) = Data
  BY <1>1, <1>2, <1>4, KeptBlocksIs
<1>7. (\E i \in 1..Len(Data) : Len(Data[i]) < blksize) <=> \E i \in 1..Len(window) : window[i].final
  BY <1>2, <1>4
<1>8. QED
  BY <1>2, <1>5, <1>6, <1>7

\* MainInv after the step that ends the transfer.
LEMMA MainEnds ==
  ASSUME NEW k \in Nat, MainInv(k), UNCHANGED inputs, offset' = offset, eof, eof' = eof,
         pc' \in {"done", "failed"}, window' = <<>>, got' = FlattenSeq(ConvertedReads(k)),
         complete' <=> ~EndsInsideWindow(got')
  PROVE  MainInv(k)'
<1>1. /\ blksize' = blksize /\ windowsize' = windowsize /\ variant' = variant /\ file' = file
      /\ Cut(k)' = Cut(k) /\ ConvertedReads(k)' = ConvertedReads(k)
  BY InputsKept
<1>2. /\ variant = "main" /\ offset = Cut(k) /\ (k = 0 \/ (k - 1) * blksize < Len(file))
      /\ offset = Len(file)
  BY DEF MainInv
<1>3. EndsInsideWindow(got)' = EndsInsideWindow(got')
  BY <1>1 DEF EndsInsideWindow
<1>4. DOMAIN window' = {} /\ Ended' /\ pc' \notin {"fill", "drain", "send", "empty"}
  BY DEF Ended
<1> HIDE DEF EndsInsideWindow, Ended
<1>5. QED
  BY <1>1, <1>2, <1>3, <1>4 DEF MainInv

\* Everything has been sent when the window that ends the file has been.
LEMMA AllSent ==
  ASSUME TypeOK, NEW k \in Nat, MainInv(k), pc = "send", eof
  PROVE  got \o FlattenSeq(Data) = FlattenSeq(ConvertedReads(k))
<1>1. /\ (got \o FlattenSeq(Data)) \o spillover = FlattenSeq(ConvertedReads(k))
      /\ FlattenSeq(Data) \in Seq(Bytes) /\ got \in Seq(Bytes)
  BY MainFacts, TypeFacts
<1>2. spillover = <<>>
  BY DEF MainInv
<1>3. got \o FlattenSeq(Data) \in Seq(Bytes)
  BY <1>1, ConcatProperties
<1>4. (got \o FlattenSeq(Data)) \o <<>> = got \o FlattenSeq(Data)
  BY ONLY <1>3, ConcatEmptySeq
<1>5. QED
  BY ONLY <1>1, <1>2, <1>4

\* SendWindow: the client writes every byte of the window, and the window is acknowledged unless
\* it ends the file with fewer than windowsize blocks of which none is short.
LEMMA MainSendWindow ==
  ASSUME TypeOK, TypeOK', NEW k \in Nat, MainInv(k), SendWindow
  PROVE  MainInv(k)'
<1>1. /\ pc = "send" /\ window # <<>> /\ ClientTakes(Data) /\ window' = <<>>
      /\ pc' = IF ~Acknowledged(Data) THEN "failed"
               ELSE IF NeedsEmptyBlock THEN "empty" ELSE IF eof THEN "done" ELSE "fill"
      /\ UNCHANGED inputs /\ offset' = offset /\ spillover' = spillover /\ eof' = eof
  BY DEF SendWindow
<1>2. /\ blksize' = blksize /\ windowsize' = windowsize
  BY <1>1, InputsKept
<1>3. /\ variant = "main" /\ offset = Cut(k) /\ (k = 0 \/ (k - 1) * blksize < Len(file)) /\ ~complete
      /\ (got \o FlattenSeq(Data)) \o spillover = FlattenSeq(ConvertedReads(k))
      /\ FlattenSeq(Data) \in Seq(Bytes) /\ WholeWindows
  BY <1>1, MainFacts
<1>4. /\ blksize \in Nat \ {0} /\ windowsize \in Nat \ {0} /\ got \in Seq(Bytes) /\ window \in Seq(Blocks)
      /\ eof \in BOOLEAN /\ Data \in Seq(Seq(Bytes)) /\ DOMAIN window = 1..Len(window)
      /\ Len(window) \in 0..windowsize /\ Len(window) # 0
  BY <1>1, TypeFacts, DataIs, LenProperties, EmptySeq DEF TypeOK
<1>5. /\ got' = got \o FlattenSeq(Data)
      /\ complete' <=> \E i \in 1..Len(window) : window[i].final
      /\ (\E i \in 1..Len(Data) : Len(Data[i]) < blksize) <=> \E i \in 1..Len(window) : window[i].final
      /\ Len(Data) = Len(window) /\ \A i \in 1..Len(window) : Data[i] = window[i].data
  BY <1>1, MainTakes
<1>6. Acknowledged(Data) <=> Len(window) >= windowsize \/ \E i \in 1..Len(window) : window[i].final
  <2>1. DOMAIN Data = 1..Len(Data)
    BY <1>4, LenProperties
  <2>2. QED
    BY <1>5, <2>1 DEF Acknowledged
<1>7. \A i \in 1..Len(window) :
        IF window[i].final THEN i = Len(window) /\ Len(Data[i]) \in 1..(blksize - 1)
        ELSE Len(Data[i]) = blksize
  BY <1>4, <1>5 DEF MainInv
<1>8. PICK m \in Nat : Len(got) = (m * windowsize) * blksize
  BY <1>3 DEF WholeWindows
<1> DEFINE n == Len(window)
<1>9. /\ Len(got') = Len(got) + Len(FlattenSeq(Data)) /\ Len(got) \in Nat /\ Len(FlattenSeq(Data)) \in Nat
  BY <1>3, <1>4, <1>5, ConcatProperties, LenProperties
<1>10. eof => got' = FlattenSeq(ConvertedReads(k))
  BY <1>1, <1>5, AllSent
<1>11. (~ \E i \in 1..n : window[i].final) => Len(FlattenSeq(Data)) = n * blksize
  <2>1. SUFFICES ASSUME ~ \E i \in 1..n : window[i].final PROVE Len(FlattenSeq(Data)) = n * blksize
    OBVIOUS
  <2>2. \A i \in 1..n : Len(Data[i]) = blksize
    BY <1>7, <2>1
  <2>3. n \in 0..Len(Data) /\ n = Len(Data)
    BY <1>4, <1>5
  <2>4. Len(Joined(Data, n)) = n * blksize
    BY <1>4, <2>2, <2>3, FullLength
  <2>5. QED
    BY <1>4, <2>3, <2>4, JoinedEnds
<1>12. (m * windowsize) * blksize \in Nat /\ m * windowsize \in Nat /\ n * blksize \in Nat
  BY <1>4, Multiples
<1> HIDE DEF Data, Acknowledged, ClientTakes
<1>13. CASE ~eof
  <2>1. ~Room /\ ~ \E i \in 1..n : window[i].final
    BY <1>1, <1>4, <1>13 DEF MainInv
  <2>2. n = windowsize
    <3>1. PICK w \in Nat : w = windowsize
      BY ONLY <1>4
    <3>2. PICK l \in 0..w : l = Len(window)
      BY ONLY <1>4, <3>1
    <3>3. ~(l < w)
      BY ONLY <2>1, <3>1, <3>2 DEF Room
    <3>4. l = w
      BY ONLY <3>3
    <3>5. QED
      BY <3>1, <3>2, <3>4
  <2>3. pc' = "fill" /\ ~eof' /\ ~complete'
    <3>1. n >= windowsize
      BY ONLY <1>4, <2>2
    <3>2. Acknowledged(Data) /\ ~complete'
      BY ONLY <1>5, <1>6, <2>1, <3>1 DEF n
    <3>3. ~NeedsEmptyBlock
      BY <1>13 DEF NeedsEmptyBlock
    <3>4. QED
      BY <1>1, <1>13, <3>2, <3>3
  <2>4. WholeWindows'
    <3>1. Len(got') = (m * windowsize) * blksize + windowsize * blksize
      BY <1>8, <1>9, <1>11, <2>1, <2>2
    <3>2. (m + 1) * windowsize = m * windowsize + windowsize
      BY <1>4, Multiples
    <3>3. ((m + 1) * windowsize) * blksize = (m * windowsize) * blksize + windowsize * blksize
      BY <1>4, <1>12, <3>2
    <3>4. m + 1 \in Nat /\ Len(got') = ((m + 1) * windowsize) * blksize
      BY <3>1, <3>3
    <3>5. QED
      BY <1>2, <3>4 DEF WholeWindows
  <2>5. Len(window') = 0 /\ Data' = <<>> /\ FlattenSeq(Data') = <<>>
    BY <1>1, FlattenEmpty DEF Data
  <2>6. NoneFinal'
    BY <2>5 DEF NoneFinal
  <2>7. (got' \o FlattenSeq(Data')) \o spillover' = FlattenSeq(ConvertedReads(k))
    <3>1. got' \in Seq(Bytes)
      BY DEF TypeOK
    <3>2. got' \o FlattenSeq(Data') = got'
      BY <2>5, <3>1, ConcatEmptySeq
    <3>3. QED
      BY ONLY <1>1, <1>3, <1>5, <3>2
  <2>8. QED
    BY <1>1, <1>3, <2>3, <2>4, <2>6, <2>7, MainBuild
<1>14. CASE eof /\ ~ \E i \in 1..n : window[i].final
  <2>1. Room
    BY <1>1, <1>4, <1>14 DEF MainInv
  <2>2. n \in 0..(windowsize - 1) /\ n # 0 /\ ~(n >= windowsize)
    BY <1>4, <2>1 DEF Room
  <2>3. pc' = "failed" /\ ~complete'
    BY <1>1, <1>5, <1>6, <1>14, <2>2
  <2>4. Len(got') = (m * windowsize + n) * blksize + 0
    <3>1. (m * windowsize + n) * blksize = (m * windowsize) * blksize + n * blksize
      BY <1>4, <1>12
    <3>2. QED
      BY <1>8, <1>9, <1>11, <1>12, <1>14, <3>1
  <2>5. EndsInsideWindow(got')
    <3>1. 0 \in 0..(blksize - 1)
      BY <1>4
    <3>2. QED
      BY <1>4, <2>2, <2>4, <3>1, EndsInside
  <2>6. QED
    BY <1>1, <1>10, <1>14, <2>3, <2>5, MainEnds
<1>15. CASE eof /\ \E i \in 1..n : window[i].final
  <2>1. pc' = "done" /\ complete'
    <3>1. ~NeedsEmptyBlock
      BY <1>4, <1>15 DEF NeedsEmptyBlock
    <3>2. QED
      BY <1>1, <1>5, <1>6, <1>15, <3>1
  <2>2. PICK i \in 1..n : window[i].final
    BY <1>15
  <2>3. i = n /\ Len(Data[n]) \in 1..(blksize - 1)
    BY <1>7, <2>2
  <2>4. PICK j \in 0..(windowsize - 1) : n = j + 1
    <3>1. PICK w \in Nat : w = windowsize
      BY ONLY <1>4
    <3>2. PICK l \in 0..w : l = Len(window)
      BY ONLY <1>4, <3>1
    <3>3. l # 0
      BY ONLY <1>4, <3>2
    <3>4. l - 1 \in 0..(w - 1) /\ l = (l - 1) + 1
      BY ONLY <3>3
    <3>5. QED
      BY <3>1, <3>2, <3>4
  <2>5. \A h \in 1..j : Len(Data[h]) = blksize
    <3>1. ASSUME NEW h \in 1..j PROVE Len(Data[h]) = blksize
      <4>1. h \in 1..n /\ h # n
        BY <1>4, <2>4
      <4>2. ~window[h].final
        BY <1>7, <4>1
      <4>3. QED
        BY <1>7, <4>1, <4>2
    <3>2. QED
      BY <3>1
  <2>6. Len(FlattenSeq(Data)) = j * blksize + Len(Data[n])
    <3>1. n \in 1..Len(Data) /\ n - 1 = j /\ j \in 0..Len(Data) /\ n = Len(Data)
      BY <1>4, <1>5, <2>4
    <3>2. Len(Joined(Data, j)) = j * blksize
      BY <1>4, <2>5, <3>1, FullLength
    <3>3. Len(Joined(Data, n)) = Len(Joined(Data, j)) + Len(Data[n])
      BY <1>4, <3>1, JoinedStep
    <3>4. QED
      BY <1>4, <3>1, <3>2, <3>3, JoinedEnds
  <2>7. Len(got') = (m * windowsize + j) * blksize + Len(Data[n])
    <3>1. (m * windowsize + j) * blksize = (m * windowsize) * blksize + j * blksize /\ j * blksize \in Nat
      BY <1>4, <1>12, Multiples
    <3>2. QED
      BY <1>8, <1>9, <1>12, <2>3, <2>6, <3>1
  <2>8. PICK r \in 0..(blksize - 1) : r = Len(Data[n]) /\ r # 0
    BY <1>4, <2>3
  <2>9. ~EndsInsideWindow(got')
    BY <1>4, <2>7, <2>8, EndsInside
  <2>10. QED
    BY <1>1, <1>10, <1>15, <2>1, <2>9, MainEnds
<1>16. QED
  BY <1>4, <1>13, <1>14, <1>15

\* SendEmptyBlock: the client has whole windows, and the end of the file.
LEMMA MainSendEmptyBlock ==
  ASSUME TypeOK, TypeOK', NEW k \in Nat, MainInv(k), SendEmptyBlock
  PROVE  MainInv(k)'
<1>1. /\ pc = "send" /\ window = <<>> /\ ClientTakes(<< <<>> >>) /\ window' = <<>> /\ pc' = "done"
      /\ UNCHANGED inputs /\ offset' = offset /\ eof' = eof
  BY DEF SendEmptyBlock, MainInv
<1>2. blksize \in Nat \ {0} /\ windowsize \in Nat \ {0} /\ got \in Seq(Bytes) /\ ~complete /\ WholeWindows
  BY <1>1, TypeFacts, MainFacts
<1>3. eof
  <2>1. Len(window) = 0
    BY <1>1
  <2>2. Room
    BY <1>2, <2>1 DEF Room
  <2>3. QED
    BY <1>1, <2>2 DEF MainInv
<1>4. got' = got /\ complete'
  <2> DEFINE s == << <<>> >>
  <2>1. s \in Seq(Seq(Bytes)) /\ Len(s) = 1 /\ \A i \in 1..Len(s) : i = Len(s) /\ s[i] = <<>>
    BY EmptyBlockIs
  <2>2. Len(<<>>) = 0 /\ <<>> \in Seq(Bytes)
    OBVIOUS
  <2>3. ClientTakes(s)
    BY <1>1
  <2> HIDE DEF s, ClientTakes
  <2>4. \A i \in 1..Len(s) : Len(s[i]) <= blksize /\ i = Len(s)
    BY <1>2, <2>1, <2>2
  <2>5. /\ got' = got \o FlattenSeq(KeptBlocks(s))
        /\ complete' <=> \E i \in 1..Len(s) : Len(s[i]) < blksize
    BY <1>2, <2>1, <2>3, <2>4, ClientTakesAll
  <2>6. KeptBlocks(s) = s
    BY <1>2, <2>1, <2>4, KeptBlocksIs
  <2>7. FlattenSeq(s) = <<>>
    <3>1. s = Append(<<>>, <<>>) /\ <<>> \in Seq(Seq(Bytes))
      BY DEF s
    <3>2. FlattenSeq(s) = FlattenSeq(<<>>) \o <<>>
      BY <2>2, <3>1, FlattenAppend
    <3>3. QED
      BY <3>2, FlattenEmpty
  <2>8. \E i \in 1..Len(s) : Len(s[i]) < blksize
    BY <1>2, <2>1, <2>2
  <2>9. QED
    BY <1>2, <2>5, <2>6, <2>7, <2>8, ConcatEmptySeq
<1>5. got' = FlattenSeq(ConvertedReads(k))
  <2>1. got \o FlattenSeq(Data) = FlattenSeq(ConvertedReads(k))
    BY <1>1, <1>3, AllSent
  <2>2. FlattenSeq(Data) = <<>>
    BY <1>1, FlattenEmpty DEF Data
  <2>3. got \o <<>> = got
    BY <1>2, ConcatEmptySeq
  <2>4. QED
    BY <1>4, <2>1, <2>2, <2>3
<1>6. ~EndsInsideWindow(got')
  <2>1. PICK m \in Nat : Len(got) = (m * windowsize) * blksize
    BY <1>2 DEF WholeWindows
  <2>2. Len(got') = (m * windowsize + 0) * blksize + 0
    <3>1. m * windowsize \in Nat /\ (m * windowsize) * blksize \in Nat
      BY <1>2, Multiples
    <3>2. QED
      BY <1>4, <2>1, <3>1
  <2>3. 0 \in 0..(blksize - 1) /\ 0 \in 0..(windowsize - 1)
    BY <1>2
  <2>4. QED
    BY <1>2, <2>2, <2>3, EndsInside
<1>7. QED
  BY <1>1, <1>3, <1>4, <1>5, <1>6, MainEnds

---------------------------------------------------------------------------
(* Streaming: bin/server.rs. *)

\* Only the block that ends the file may be short.
ShortLast == \A i \in 1..Len(window) : Len(window[i].data) < blksize => eof /\ i = Len(window)

\* ServerInv from its parts.
LEMMA ServerBuild ==
  ASSUME TypeOK', UNCHANGED inputs, variant = "server", NEW k \in Nat,
         offset' = Cut(k), k = 0 \/ (k - 1) * blksize <= Len(file),
         eof' <=> k * blksize > Len(file), pc' \notin {"drain", "empty"}, pc' = "send" => eof' \/ ~Room',
         got' \o FlattenSeq(KeptBlocks(Data')) = FlattenSeq(KeptBlocks(ConvertedReads(k))),
         ShortLast',
         eof' /\ ~Ended' => window' # <<>> /\ window'[Len(window')].data = ConvertedReads(k)[k],
         Ended' => eof' /\ window' = <<>>,
         complete' <=> Ended' /\ Len(ConvertedReads(k)[k]) < blksize
  PROVE  ServerInv(k)'
<1>1. /\ variant' = variant /\ file' = file /\ blksize' = blksize /\ Cut(k)' = Cut(k)
      /\ ConvertedReads(k)' = ConvertedReads(k)
  BY InputsKept
<1>2. DOMAIN window' = 1..Len(window')
  <2>1. window' \in Seq(Blocks)
    BY DEF TypeOK, Blocks
  <2>2. QED
    BY <2>1, LenProperties
<1>3. \A i \in DOMAIN window' : Len(window'[i].data) < blksize' => eof' /\ i = Len(window')
  BY <1>2 DEF ShortLast
<1>4. KeptBlocks(Data)' = KeptBlocks(Data') /\ KeptBlocks(ConvertedReads(k))' = KeptBlocks(ConvertedReads(k))
  BY <1>1 DEF KeptBlocks, Kept
<1>5. /\ variant' = "server"
      /\ offset' = Cut(k)' /\ (k = 0 \/ (k - 1) * blksize' <= Len(file'))
      /\ eof' <=> k * blksize' > Len(file')
      /\ pc' \notin {"drain", "empty"}
      /\ pc' = "send" => eof' \/ ~Room'
      /\ got' \o FlattenSeq(KeptBlocks(Data)') = FlattenSeq(KeptBlocks(ConvertedReads(k))')
      /\ \A i \in DOMAIN window' : Len(window'[i].data) < blksize' => eof' /\ i = Len(window')
      /\ eof' /\ ~Ended' => window' # <<>> /\ window'[Len(window')].data = ConvertedReads(k)'[k]
      /\ Ended' => eof' /\ window' = <<>>
      /\ complete' <=> Ended' /\ Len(ConvertedReads(k)'[k]) < blksize'
  BY <1>1, <1>3, <1>4
<1> HIDE DEF TypeOK, ShortLast, Ended, Room
<1>6. QED
  BY <1>5 DEF ServerInv

\* What the invariant says before a step of bin/server.rs.
LEMMA ServerFacts ==
  ASSUME TypeOK, NEW k \in Nat, ServerInv(k)
  PROVE  /\ variant = "server" /\ offset = Cut(k) /\ MayHaveRead(k)
         /\ eof <=> k * blksize > Len(file)
         /\ got \o FlattenSeq(KeptBlocks(Data)) = FlattenSeq(KeptBlocks(ConvertedReads(k)))
         /\ ShortLast
         /\ eof /\ ~Ended => window # <<>> /\ window[Len(window)].data = ConvertedReads(k)[k]
         /\ Ended => eof /\ window = <<>>
         /\ complete <=> Ended /\ Len(ConvertedReads(k)[k]) < blksize
         /\ pc = "send" => eof \/ ~Room
         /\ Data = DataOf(window) /\ Data \in Seq(Seq(Bytes)) /\ Len(Data) = Len(window)
         /\ KeptBlocks(Data) \in Seq(Seq(Bytes)) /\ FlattenSeq(KeptBlocks(Data)) \in Seq(Bytes)
<1>1. Data = DataOf(window) /\ Data \in Seq(Seq(Bytes)) /\ Len(Data) = Len(window) /\ DOMAIN window = 1..Len(window)
  BY TypeFacts, DataIs, DataOfIs, LenProperties
<1>2. KeptBlocks(Data) \in Seq(Seq(Bytes))
  BY <1>1, TypeFacts, KeptBlocksIs
<1>3. FlattenSeq(KeptBlocks(Data)) \in Seq(Bytes)
  BY <1>2, FlattenType
<1>4. MayHaveRead(k)
  BY DEF ServerInv, MayHaveRead
<1>5. ShortLast
  BY <1>1 DEF ServerInv, ShortLast
<1> HIDE DEF TypeOK, Ended, Room
<1>6. QED
  BY <1>1, <1>2, <1>3, <1>4, <1>5 DEF ServerInv

\* WindowBuilt of bin/server.rs.
LEMMA ServerWindowBuilt ==
  ASSUME TypeOK, TypeOK', NEW k \in Nat, ServerInv(k), WindowBuilt
  PROVE  ServerInv(k)'
<1>1. /\ pc = "fill" /\ pc' = "send" /\ (eof \/ ~Room) /\ ~Ended /\ ~Ended'
      /\ UNCHANGED inputs /\ offset' = offset /\ spillover' = spillover /\ window' = window
      /\ eof' = eof /\ got' = got /\ complete' = complete
  BY DEF WindowBuilt, Ended
<1>2. blksize' = blksize /\ windowsize' = windowsize
  BY <1>1, InputsKept
<1>3. Data' = Data /\ (eof' \/ ~Room')
  BY <1>1, <1>2 DEF Data, Room
<1>4. /\ variant = "server" /\ offset = Cut(k) /\ MayHaveRead(k)
      /\ eof <=> k * blksize > Len(file)
      /\ got \o FlattenSeq(KeptBlocks(Data)) = FlattenSeq(KeptBlocks(ConvertedReads(k)))
      /\ ShortLast
      /\ eof => window # <<>> /\ window[Len(window)].data = ConvertedReads(k)[k]
      /\ ~complete
  BY <1>1, ServerFacts
<1>5. ShortLast'
  BY <1>1, <1>2, <1>4 DEF ShortLast
<1>6. k = 0 \/ (k - 1) * blksize <= Len(file)
  BY <1>4 DEF MayHaveRead
<1>7. got' \o FlattenSeq(KeptBlocks(Data')) = FlattenSeq(KeptBlocks(ConvertedReads(k)))
  BY ONLY <1>1, <1>3, <1>4
<1>8. QED
  BY <1>1, <1>3, <1>4, <1>5, <1>6, <1>7, ServerBuild

\* FillServer: one more read, one more block, and the block is short only at the end of the file,
\* because a conversion never shortens what it converts.
LEMMA ServerFill ==
  ASSUME TypeOK, TypeOK', NEW k \in Nat, ServerInv(k), FillServer
  PROVE  k + 1 \in 0..(Len(file) + 1) /\ ServerInv(k + 1)'
<1> DEFINE C == Convert(Read(offset))
           final == ReadEnd(offset) - offset < blksize
           e == Block(C, final)
           a == Append(window, e)
<1>1. /\ pc = "fill" /\ ~eof /\ window' = a /\ eof' = final /\ offset' = ReadEnd(offset)
      /\ UNCHANGED inputs /\ pc' = pc /\ got' = got /\ complete' = complete /\ ~Ended /\ ~Ended'
  BY DEF FillServer, Ended
<1>2. blksize' = blksize
  BY <1>1, InputsKept
<1>3. /\ variant = "server" /\ offset = Cut(k)
      /\ ~eof <=> ~(k * blksize > Len(file))
      /\ got \o FlattenSeq(KeptBlocks(Data)) = FlattenSeq(KeptBlocks(ConvertedReads(k)))
      /\ ShortLast /\ ~complete
      /\ Data = DataOf(window) /\ Data \in Seq(Seq(Bytes)) /\ Len(Data) = Len(window)
      /\ KeptBlocks(Data) \in Seq(Seq(Bytes)) /\ FlattenSeq(KeptBlocks(Data)) \in Seq(Bytes)
  BY <1>1, ServerFacts
<1>4. /\ file \in Seq(Bytes) /\ Len(file) \in Nat /\ blksize \in Nat \ {0} /\ got \in Seq(Bytes)
      /\ window \in Seq(Blocks) /\ Len(window) \in Nat
  BY TypeFacts
<1>5. k * blksize \in Nat /\ k <= k * blksize /\ k * blksize <= Len(file)
  <2>1. k * blksize \in Nat /\ k <= k * blksize
    BY <1>4, Multiples
  <2>2. QED
    BY <1>1, <1>3, <1>4, <2>1
<1>6. k + 1 \in 0..(Len(file) + 1) /\ k + 1 \in Nat /\ (k + 1) - 1 = k
  BY <1>4, <1>5
<1>7. ReadEnd(offset) = Cut(k + 1)
  BY <1>3, <1>4, <1>5, CutIs
<1>8. /\ C \in Seq(Bytes) /\ ConvertedReads(k + 1) = Append(ConvertedReads(k), C)
      /\ MayHaveRead(k) /\ ConvertedReads(k + 1)[k + 1] = C
      /\ ConvertedReads(k) \in Seq(Seq(Bytes))
  <2>1. /\ C \in Seq(Bytes) /\ ConvertedReads(k + 1) = Append(ConvertedReads(k), C)
        /\ MayHaveRead(k)
    BY <1>3, <1>4, <1>5, ReadsStep
  <2>2. ConvertedReads(k) \in Seq(Seq(Bytes)) /\ Len(ConvertedReads(k)) = k
    BY <1>4, <2>1, ReadsType
  <2> HIDE DEF C
  <2>3. QED
    BY <2>1, <2>2, AppendProperties
<1>9. /\ final <=> (k + 1) * blksize > Len(file)
      /\ final <=> Len(Read(offset)) < blksize
      /\ Len(Read(offset)) \in Nat /\ Read(offset) \in Seq(Bytes)
  BY <1>3, <1>4, <1>5, <1>7, ReadIs
<1>10. Len(C) \in Nat /\ Len(C) >= Len(Read(offset))
  BY <1>3, <1>8, <1>9, LibLength, LenProperties DEF Convert
<1>11. /\ a \in Seq(Blocks) /\ Len(a) = Len(window) + 1 /\ a[Len(window) + 1].data = C
       /\ DataOf(a) = Append(Data, C) /\ \A i \in 1..Len(window) : a[i] = window[i]
  <2>1. PICK f \in BOOLEAN : f = final
    <3>1. CASE final
      BY <3>1, TRUE \in BOOLEAN, TRUE = final
    <3>2. CASE ~final
      BY <3>2, FALSE \in BOOLEAN, FALSE = final
    <3>3. QED
      BY <3>1, <3>2
  <2>2. e \in Blocks /\ e.data = C
    BY <1>8, <2>1, BlockIs
  <2> HIDE DEF e, C
  <2>3. QED
    BY <1>3, <1>4, <2>2, BlockAppend
<1> HIDE DEF a, C, e, final
<1>12. ShortLast'
  <2>1. ASSUME NEW i \in 1..Len(a), Len(a[i].data) < blksize PROVE eof' /\ i = Len(a)
    <3>1. CASE i = Len(window) + 1
      <4>1. Len(C) < blksize
        BY <1>11, <2>1, <3>1
      <4>2. Len(Read(offset)) < blksize
        BY <1>4, <1>9, <1>10, <4>1
      <4>3. QED
        BY <1>1, <1>9, <1>11, <3>1, <4>2
    <3>2. CASE i # Len(window) + 1
      <4>1. i \in 1..Len(window)
        BY <1>4, <1>11, <3>2
      <4>2. Len(window[i].data) < blksize
        BY <1>11, <2>1, <4>1
      <4>3. QED
        BY <1>1, <1>3, <4>1, <4>2 DEF ShortLast
    <3>3. QED
      BY <3>1, <3>2
  <2>2. \A i \in 1..Len(window') : Len(window'[i].data) < blksize' => eof' /\ i = Len(window')
    BY ONLY <1>1, <1>2, <2>1, Zenon
  <2>3. QED
    BY <2>2 DEF ShortLast
<1>13. got' \o FlattenSeq(KeptBlocks(Data')) = FlattenSeq(KeptBlocks(ConvertedReads(k + 1)))
  <2>1. Data' = Append(Data, C)
    <3>1. Data' = DataOf(a)
      BY <1>1 DEF Data, DataOf
    <3>2. QED
      BY <1>11, <3>1
  <2>2. Kept(C) \in Seq(Bytes) /\ KeptBlocks(ConvertedReads(k)) \in Seq(Seq(Bytes))
    BY <1>4, <1>8, KeptIs, KeptBlocksIs
  <2>3. /\ KeptBlocks(Append(Data, C)) = Append(KeptBlocks(Data), Kept(C))
        /\ KeptBlocks(ConvertedReads(k + 1)) = Append(KeptBlocks(ConvertedReads(k)), Kept(C))
    BY <1>3, <1>4, <1>8, KeptAppend
  <2>4. FlattenSeq(KeptBlocks(Append(Data, C))) = Cat(FlattenSeq(KeptBlocks(Data)), Kept(C))
    BY <1>3, <2>2, <2>3, FlattenAppend DEF Cat
  <2>5. FlattenSeq(KeptBlocks(ConvertedReads(k + 1))) = Cat(FlattenSeq(KeptBlocks(ConvertedReads(k))), Kept(C))
    BY <2>2, <2>3, FlattenAppend DEF Cat
  <2>6. Cat(Cat(got, FlattenSeq(KeptBlocks(Data))), Kept(C)) = Cat(got, Cat(FlattenSeq(KeptBlocks(Data)), Kept(C)))
    BY <1>3, <1>4, <2>2, CatAssociative
  <2>7. Cat(got, FlattenSeq(KeptBlocks(Data))) = FlattenSeq(KeptBlocks(ConvertedReads(k)))
    BY ONLY <1>3 DEF Cat
  <2>8. got' \o FlattenSeq(KeptBlocks(Data')) = Cat(got, FlattenSeq(KeptBlocks(Append(Data, C))))
    BY ONLY <1>1, <2>1 DEF Cat
  <2>9. QED
    BY ONLY <2>4, <2>5, <2>6, <2>7, <2>8
<1>14. window' # <<>> /\ window'[Len(window')].data = ConvertedReads(k + 1)[k + 1]
  <2>1. Len(a) # 0
    BY <1>4, <1>11
  <2>2. a # <<>>
    BY <2>1
  <2>3. QED
    BY <1>1, <1>8, <1>11, <2>2
<1>15. /\ k + 1 = 0 \/ ((k + 1) - 1) * blksize <= Len(file)
       /\ eof' <=> (k + 1) * blksize > Len(file)
       /\ offset' = Cut(k + 1) /\ pc' = "fill" /\ ~complete'
  BY <1>1, <1>3, <1>5, <1>6, <1>7, <1>9
<1>16. QED
  BY <1>1, <1>3, <1>6, <1>12, <1>13, <1>14, <1>15, ServerBuild

\* SendWindow of bin/server.rs: the client keeps what fits of each block, and is complete when the
\* last one is short.
LEMMA ServerSendWindow ==
  ASSUME TypeOK, TypeOK', NEW k \in Nat, ServerInv(k), SendWindow
  PROVE  ServerInv(k)'
<1>1. /\ pc = "send" /\ ClientTakes(Data) /\ window' = <<>> /\ ~Ended
      /\ pc' = IF ~Acknowledged(Data) THEN "failed"
               ELSE IF NeedsEmptyBlock THEN "empty" ELSE IF eof THEN "done" ELSE "fill"
      /\ UNCHANGED inputs /\ offset' = offset /\ eof' = eof
  BY DEF SendWindow, Ended
<1>2. blksize' = blksize
  BY <1>1, InputsKept
<1>3. /\ variant = "server" /\ offset = Cut(k) /\ MayHaveRead(k)
      /\ eof <=> k * blksize > Len(file)
      /\ got \o FlattenSeq(KeptBlocks(Data)) = FlattenSeq(KeptBlocks(ConvertedReads(k)))
      /\ ShortLast /\ ~complete
      /\ eof => window # <<>> /\ window[Len(window)].data = ConvertedReads(k)[k]
      /\ Data = DataOf(window) /\ Data \in Seq(Seq(Bytes)) /\ Len(Data) = Len(window)
      /\ eof \/ ~Room
  BY <1>1, ServerFacts
<1>4. /\ blksize \in Nat \ {0} /\ got \in Seq(Bytes) /\ window \in Seq(Blocks) /\ Len(window) \in Nat
      /\ eof \in BOOLEAN /\ windowsize \in Nat
  BY TypeFacts DEF TypeOK
<1>5. \A i \in 1..Len(Data) : Data[i] = window[i].data
  BY <1>3, <1>4, DataOfIs
<1> HIDE DEF Data, Acknowledged, ClientTakes
<1>6. \A i \in 1..Len(Data) : Len(Data[i]) < blksize => eof /\ i = Len(Data)
  BY <1>3, <1>5 DEF ShortLast
<1>7. /\ got' = got \o FlattenSeq(KeptBlocks(Data))
      /\ complete' <=> \E i \in 1..Len(Data) : Len(Data[i]) < blksize
  BY <1>1, <1>3, <1>4, <1>5, <1>6, ClientTakesAll
<1>8. complete' <=> eof /\ Len(ConvertedReads(k)[k]) < blksize
  <2>1. CASE ~eof
    BY <1>6, <1>7, <2>1
  <2>2. CASE eof
    <3>1. Len(Data) \in 1..Len(Data) /\ Data[Len(Data)] = ConvertedReads(k)[k]
      <4>1. Len(window) # 0
        BY <1>3, <1>4, <2>2, EmptySeq
      <4>2. Len(Data) \in 1..Len(Data)
        BY <1>3, <1>4, <4>1
      <4>3. QED
        BY <1>3, <1>5, <2>2, <4>2
    <3>2. QED
      BY <1>6, <1>7, <2>2, <3>1
  <2>3. QED
    BY <1>4, <2>1, <2>2
<1>9. Len(window') = 0 /\ Data' = <<>>
  BY <1>1 DEF Data
<1> DEFINE ended == Ended'
<1>0. pc' \notin {"drain", "empty", "send"} /\ (ended <=> eof)
  <2>1. ~NeedsEmptyBlock
    BY <1>3 DEF NeedsEmptyBlock
  <2>2. ~eof => Acknowledged(Data)
    BY <1>3, <1>4 DEF Room, Acknowledged
  <2>3. QED
    BY <1>1, <2>1, <2>2 DEF Ended
<1>10. ShortLast'
  BY <1>9 DEF ShortLast
<1>11. got' \o FlattenSeq(KeptBlocks(Data')) = FlattenSeq(KeptBlocks(ConvertedReads(k)))
  <2>1. KeptBlocks(<<>>) = <<>>
    BY DEF KeptBlocks
  <2>2. FlattenSeq(KeptBlocks(Data')) = <<>> /\ got' \in Seq(Bytes)
    BY <1>9, <2>1, FlattenEmpty DEF TypeOK
  <2>3. got' \o FlattenSeq(KeptBlocks(Data')) = got'
    BY <2>2, ConcatEmptySeq
  <2>4. QED
    BY ONLY <1>3, <1>7, <2>3
<1>12. k = 0 \/ (k - 1) * blksize <= Len(file)
  BY <1>3 DEF MayHaveRead
<1>13. /\ Ended' <=> eof'
       /\ complete' <=> Ended' /\ Len(ConvertedReads(k)[k]) < blksize
       /\ offset' = Cut(k) /\ (eof' <=> k * blksize > Len(file))
  BY <1>0, <1>1, <1>3, <1>4, <1>8
<1>14. QED
  BY <1>0, <1>1, <1>3, <1>10, <1>11, <1>12, <1>13, ServerBuild

---------------------------------------------------------------------------
(* Both programs. *)

\* Nothing has been read, sent or written in the first states.
LEMMA InitInv ==
  ASSUME Init
  PROVE  StreamInv
<1>1. TypeOK
  BY InitType
<1>2. /\ file \in Seq(Bytes) /\ Len(file) \in Nat /\ blksize \in Nat \ {0} /\ got \in Seq(Bytes)
  BY <1>1, TypeFacts
<1>3. 0 \in 0..(Len(file) + 1) /\ Cut(0) = 0 /\ 0 * blksize = 0
  BY <1>2, CutIs, Multiples
<1>4. ConvertedReads(0) = <<>> /\ Data = <<>> /\ KeptBlocks(<<>>) = <<>>
  BY DEF ConvertedReads, Data, KeptBlocks, Init
<1>5. FlattenSeq(<<>>) = <<>> /\ <<>> \o <<>> = <<>>
  BY FlattenEmpty
<1>6. DOMAIN window = {} /\ window = <<>> /\ got = <<>> /\ spillover = <<>> /\ pc = "fill" /\ ~eof /\ ~complete /\ offset = 0
  BY DEF Init
<1>7. CASE variant = "main"
  <2>1. (got \o FlattenSeq(Data)) \o spillover = FlattenSeq(ConvertedReads(0))
    BY <1>4, <1>5, <1>6
  <2>2. ~Ended /\ WholeWindows
    <3>1. Len(got) = 0 /\ (0 * windowsize) * blksize = 0 /\ 0 \in Nat
      BY <1>1, <1>6, TypeFacts
    <3>2. Len(got) = (0 * windowsize) * blksize
      BY <3>1
    <3>3. QED
      BY <1>6, <3>1, <3>2 DEF Ended, WholeWindows
  <2>3. MainInv(0)
    BY <1>3, <1>6, <1>7, <2>1, <2>2 DEF MainInv
  <2>4. QED
    BY <1>1, <1>3, <2>3 DEF StreamInv
<1>8. CASE variant = "server"
  <2>1. got \o FlattenSeq(KeptBlocks(Data)) = FlattenSeq(KeptBlocks(ConvertedReads(0)))
    BY <1>4, <1>5, <1>6
  <2>2. ~(0 * blksize > Len(file))
    BY <1>2, <1>3
  <2>3. ServerInv(0)
    BY <1>3, <1>6, <1>8, <2>1, <2>2 DEF ServerInv, Ended
  <2>4. QED
    BY <1>1, <1>3, <2>3 DEF StreamInv
<1>9. QED
  BY <1>7, <1>8 DEF Init

\* A step of main.rs keeps its invariant.
LEMMA MainStep ==
  ASSUME TypeOK, TypeOK', NEW k \in 0..(Len(file) + 1), MainInv(k), Next
  PROVE  \E m \in 0..(Len(file) + 1) : MainInv(m)'
<1>1. k \in Nat /\ variant = "main"
  BY TypeFacts DEF MainInv
<1>2. CASE FillServer
  BY <1>1, <1>2 DEF FillServer
<1>3. CASE DrainSpillover
  BY <1>1, <1>3, MainDrainSpillover
<1>4. CASE FillMain
  BY <1>1, <1>4, MainFillMain
<1>5. CASE ReachEof
  BY <1>1, <1>5, MainReachEof
<1>6. CASE DrainRest
  BY <1>1, <1>6, MainDrainRest
<1>7. CASE WindowBuilt
  BY <1>1, <1>7, MainWindowBuilt
<1>8. CASE SendWindow
  BY <1>1, <1>8, MainSendWindow
<1>9. CASE SendEmptyBlock
  BY <1>1, <1>9, MainSendEmptyBlock
<1>10. QED
  BY <1>2, <1>3, <1>4, <1>5, <1>6, <1>7, <1>8, <1>9 DEF Next

\* A step of bin/server.rs keeps its invariant.
LEMMA ServerStep ==
  ASSUME TypeOK, TypeOK', NEW k \in 0..(Len(file) + 1), ServerInv(k), Next
  PROVE  \E m \in 0..(Len(file) + 1) : ServerInv(m)'
<1>1. k \in Nat /\ variant = "server" /\ pc # "drain"
  BY TypeFacts DEF ServerInv
<1>2. CASE FillServer
  BY <1>1, <1>2, ServerFill
<1>3. CASE WindowBuilt
  BY <1>1, <1>3, ServerWindowBuilt
<1>4. CASE SendWindow
  BY <1>1, <1>4, ServerSendWindow
<1>5. QED
  BY <1>1, <1>2, <1>3, <1>4 DEF Next, DrainSpillover, FillMain, ReachEof, DrainRest, SendEmptyBlock

\* A step keeps the invariant.
LEMMA StepInv ==
  ASSUME StreamInv, [Next]_vars
  PROVE  StreamInv'
<1>1. TypeOK /\ TypeOK'
  BY StepType DEF StreamInv
<1>2. PICK k \in 0..(Len(file) + 1) : MainInv(k) \/ ServerInv(k)
  BY DEF StreamInv
<1>3. CASE Next
  <2>1. file' = file
    BY <1>3 DEF Next, FillServer, DrainSpillover, FillMain, ReachEof, DrainRest, WindowBuilt, SendWindow,
                SendEmptyBlock, inputs
  <2>2. \E m \in 0..(Len(file) + 1) : MainInv(m)' \/ ServerInv(m)'
    BY <1>1, <1>2, <1>3, MainStep, ServerStep
  <2>3. QED
    BY <1>1, <2>1, <2>2 DEF StreamInv
<1>4. CASE UNCHANGED vars
  <2>1. UNCHANGED inputs /\ offset' = offset /\ spillover' = spillover /\ window' = window
        /\ eof' = eof /\ pc' = pc /\ got' = got /\ complete' = complete
    BY <1>4 DEF vars
  <2>2. /\ variant' = variant /\ file' = file /\ blksize' = blksize /\ windowsize' = windowsize
        /\ Cut(k)' = Cut(k) /\ ConvertedReads(k)' = ConvertedReads(k)
    BY <2>1, InputsKept
  <2>3. /\ Data' = Data /\ Room' = Room /\ Ended' = Ended /\ WholeWindows' = WholeWindows
        /\ EndsInsideWindow(got)' = EndsInsideWindow(got)
    BY <2>1, <2>2 DEF Data, Room, Ended, WholeWindows, EndsInsideWindow
  <2>4. KeptBlocks(Data)' = KeptBlocks(Data) /\ KeptBlocks(ConvertedReads(k))' = KeptBlocks(ConvertedReads(k))
    BY <2>2, <2>3 DEF KeptBlocks, Kept
  <2>5. MainInv(k) => MainInv(k)'
    BY <2>1, <2>2, <2>3 DEF MainInv
  <2>6. ServerInv(k) => ServerInv(k)'
    BY <2>1, <2>2, <2>3, <2>4 DEF ServerInv
  <2>7. QED
    BY <1>1, <1>2, <2>2, <2>5, <2>6 DEF StreamInv
<1>5. QED
  BY <1>3, <1>4

\* When the transfer is over, the invariant is what StreamedAsWhole says.
LEMMA InvStreamed ==
  ASSUME StreamInv
  PROVE  StreamedAsWhole
<1>1. SUFFICES ASSUME Ended
               PROVE  /\ variant = "main" => /\ got = ReadByRead
                                             /\ complete <=> ~EndsInsideWindow(got)
                                             /\ (got = Convert(file)) <=> ~SplitLineEnd
                      /\ variant = "server" =>
                           ((complete /\ got = Convert(file)) <=>
                              \A o \in Reads : /\ Len(Convert(Read(o))) <= blksize
                                               /\ Len(Read(o)) < blksize => Len(Convert(Read(o))) < blksize)
  BY DEF StreamedAsWhole
<1>2. TypeOK /\ file \in Seq(Bytes) /\ Len(file) \in Nat /\ blksize \in Nat \ {0} /\ got \in Seq(Bytes)
  BY TypeFacts DEF StreamInv
<1>3. PICK k \in 0..(Len(file) + 1) : MainInv(k) \/ ServerInv(k)
  BY DEF StreamInv
<1>4. k \in Nat
  BY <1>2
<1>5. CASE MainInv(k)
  <2>1. /\ variant = "main" /\ got = FlattenSeq(ConvertedReads(k))
        /\ complete <=> ~EndsInsideWindow(got)
        /\ Cut(k) = Len(file) /\ (k = 0 \/ (k - 1) * blksize < Len(file))
    BY <1>1, <1>5 DEF MainInv
  <2>2. /\ FlattenSeq(ConvertedReads(k)) = ReadByRead
        /\ FlattenSeq(ConvertedReads(k)) = Convert(file) <=> ~SplitLineEnd
    BY <1>2, <1>4, <2>1, MainWhole
  <2>3. QED
    BY <2>1, <2>2
<1>6. CASE ServerInv(k)
  <2>1. /\ variant = "server" /\ MayHaveRead(k) /\ k * blksize > Len(file)
        /\ complete <=> Len(ConvertedReads(k)[k]) < blksize
        /\ got \o FlattenSeq(KeptBlocks(Data)) = FlattenSeq(KeptBlocks(ConvertedReads(k)))
        /\ window = <<>>
    BY <1>1, <1>2, <1>4, <1>6, ServerFacts
  <2>2. k # 0 /\ (k - 1) * blksize <= Len(file)
    BY <1>2, <2>1, Multiples DEF MayHaveRead
  <2>3. got = FlattenSeq(KeptBlocks(ConvertedReads(k)))
    <3>1. KeptBlocks(Data) = <<>>
      BY <2>1 DEF KeptBlocks, Data
    <3>2. got \o <<>> = got
      BY <1>2, ConcatEmptySeq
    <3>3. QED
      BY <2>1, <3>1, <3>2, FlattenEmpty
  <2>4. (Len(ConvertedReads(k)[k]) < blksize /\ FlattenSeq(KeptBlocks(ConvertedReads(k))) = Convert(file)) <=>
           \A o \in Reads : /\ Len(Convert(Read(o))) <= blksize
                            /\ Len(Read(o)) < blksize => Len(Convert(Read(o))) < blksize
    BY <1>2, <1>4, <2>1, <2>2, ServerWhole
  <2>5. QED
    BY <2>1, <2>3, <2>4
<1>7. QED
  BY <1>3, <1>5, <1>6

\* Whatever the file, the block size and the window size are, a client of main.rs gets every read
\* converted, and the whole file converted just when no read ends between a CR and its LF; it
\* completes just when its last block is short or its last window is full, for only then does it
\* send the ACK that main.rs waits for before the empty block; a client of bin/server.rs completes with the converted file just when no block
\* outgrows blksize and the last one stays short.
THEOREM StreamCorrect == Spec => []StreamedAsWhole
<1>1. Init => StreamInv
  BY InitInv
<1>2. StreamInv /\ [Next]_vars => StreamInv'
  BY StepInv
<1>3. StreamInv => StreamedAsWhole
  BY InvStreamed
<1>4. QED
  BY <1>1, <1>2, <1>3, PTL DEF Spec

=============================================================================
