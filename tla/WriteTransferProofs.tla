------------------------- MODULE WriteTransferProofs -------------------------
(***************************************************************************)
(* Proofs about WriteTransfer for every number of tasks, file size, window,*)
(* retry limit, size limit and number of network faults, as long as the    *)
(* numbers in flight tell blocks apart (NumbersFit): the file does not wrap*)
(* the block number, or its windows are small enough.                      *)
(*                                                                         *)
(* The argument is the inductive invariant IInv of WriteTransfer.  Where   *)
(* numbers do not wrap, a number is a block.  Where they wrap, datagrams do*)
(* not overtake each other, and the order of a channel bounds how old its  *)
(* next datagram can be (Ordered, with the relations DataFollows and       *)
(* AckFollows): less than a window for a block, at most MaxBehind for an   *)
(* ACK, so that the number that is expected names the block that is meant. *)
(***************************************************************************)
EXTENDS WriteTransfer, SequenceTheorems, TLAPS

---------------------------------------------------------------------------
(* The sequences that model UDP: what a channel holds after a datagram is  *)
(* sent, delivered, lost or repeated, and that the order of those left is  *)
(* kept.                                                                   *)

\* What comes earlier in s is related by R to what comes later.
Ordered(s, R) == \A i, j \in DOMAIN s : i < j => <<s[i], s[j]>> \in R

\* A sequence over a set is a sequence over every larger set.
LEMMA SeqSuperset ==
  ASSUME NEW S, NEW T, S \subseteq T, NEW s \in Seq(S)
  PROVE  s \in Seq(T)
  OBVIOUS

\* A sequence over a set whose elements are in another set is one over that set.
LEMMA SeqOver ==
  ASSUME NEW S, NEW T, NEW s \in Seq(S), \A i \in DOMAIN s : s[i] \in T
  PROVE  s \in Seq(T)
<1>1. Len(s) \in Nat /\ DOMAIN s = 1..Len(s) /\ s = [i \in 1..Len(s) |-> s[i]]
  BY LenProperties
<1>2. QED
  BY <1>1

\* What is left when datagram i is lost or delivered.
LEMMA RemoveAtElements ==
  ASSUME NEW S, NEW s \in Seq(S), NEW i \in DOMAIN s
  PROVE  /\ RemoveAt(s, i) \in Seq(S)
         /\ Len(RemoveAt(s, i)) = Len(s) - 1
         /\ \A j \in 1..(Len(s) - 1) : RemoveAt(s, i)[j] = IF j < i THEN s[j] ELSE s[j + 1]
<1>1. Len(s) \in Nat /\ i \in 1..Len(s) /\ \A j \in 1..Len(s) : s[j] \in S
  BY ElementOfSeq, LenProperties
<1> DEFINE a == SubSeq(s, 1, i - 1)
           b == SubSeq(s, i + 1, Len(s))
<1>2. a \in Seq(S) /\ Len(a) = i - 1 /\ \A j \in 1..(i - 1) : a[j] = s[j]
  BY <1>1, SubSeqProperties
<1>3. b \in Seq(S) /\ Len(b) = Len(s) - i /\ \A j \in 1..(Len(s) - i) : b[j] = s[i + j]
  <2>1. /\ b \in Seq(S)
        /\ Len(b) = IF i + 1 <= Len(s) THEN Len(s) - (i + 1) + 1 ELSE 0
        /\ \A j \in 1..(Len(s) - (i + 1) + 1) : b[j] = s[(i + 1) + j - 1]
    BY <1>1, SubSeqProperties
  <2>2. QED
    BY <1>1, <2>1
<1> DEFINE c == a \o b
<1> HIDE DEF a, b
<1>4. /\ c \in Seq(S)
      /\ Len(c) = Len(a) + Len(b)
      /\ \A j \in 1..(Len(a) + Len(b)) : c[j] = IF j <= Len(a) THEN a[j] ELSE b[j - Len(a)]
  BY <1>2, <1>3, ConcatProperties
<1>5. RemoveAt(s, i) = c
  BY DEF RemoveAt, a, b
<1> HIDE DEF c
<1>6. ASSUME NEW j \in 1..(Len(s) - 1)
      PROVE  c[j] = IF j < i THEN s[j] ELSE s[j + 1]
  <2>1. j \in 1..(Len(a) + Len(b)) /\ (j <= Len(a) <=> j < i)
    BY <1>1, <1>2, <1>3
  <2>2. CASE j < i
    BY <1>1, <1>2, <1>4, <2>1, <2>2
  <2>3. CASE ~(j < i)
    <3>1. j - (i - 1) \in 1..(Len(s) - i) /\ i + (j - (i - 1)) = j + 1
      BY <1>1, <2>3
    <3>2. b[j - (i - 1)] = s[j + 1]
      BY <1>3, <3>1
    <3>3. QED
      BY <1>2, <1>4, <2>1, <2>3, <3>2
  <2>4. QED
    BY <2>2, <2>3
<1>7. c \in Seq(S) /\ Len(c) = Len(s) - 1
  BY <1>1, <1>2, <1>3, <1>4
<1>8. QED
  BY <1>5, <1>6, <1>7

\* A channel that loses or delivers a datagram keeps its type.
LEMMA RemoveAtSeq ==
  ASSUME NEW S, NEW s \in Seq(S), NEW i \in DOMAIN s
  PROVE  RemoveAt(s, i) \in Seq(S)
  BY RemoveAtElements

\* What a channel holds when datagram i is there twice.
LEMMA InsertAtElements ==
  ASSUME NEW S, NEW s \in Seq(S), NEW i \in DOMAIN s
  PROVE  /\ InsertAt(s, i, s[i]) \in Seq(S)
         /\ Len(InsertAt(s, i, s[i])) = Len(s) + 1
         /\ \A j \in 1..(Len(s) + 1) :
              InsertAt(s, i, s[i])[j] = IF j <= i THEN s[j] ELSE s[j - 1]
<1>1. Len(s) \in Nat /\ i \in 1..Len(s) /\ \A j \in 1..Len(s) : s[j] \in S
  BY ElementOfSeq, LenProperties
<1> DEFINE a == SubSeq(s, 1, i - 1)
           b == SubSeq(s, i, Len(s))
           e == <<s[i]>>
<1>2. a \in Seq(S) /\ Len(a) = i - 1 /\ \A j \in 1..(i - 1) : a[j] = s[j]
  BY <1>1, SubSeqProperties
<1>3. b \in Seq(S) /\ Len(b) = Len(s) - i + 1 /\ \A j \in 1..(Len(s) - i + 1) : b[j] = s[i + j - 1]
  BY <1>1, SubSeqProperties
<1>4. e \in Seq(S) /\ Len(e) = 1 /\ e[1] = s[i]
  BY <1>1
<1> DEFINE c == a \o e
           d == c \o b
<1>5. InsertAt(s, i, s[i]) = d
  BY DEF InsertAt
<1> HIDE DEF a, b, e
<1>6. /\ c \in Seq(S)
      /\ Len(c) = Len(a) + Len(e)
      /\ \A j \in 1..(Len(a) + Len(e)) : c[j] = IF j <= Len(a) THEN a[j] ELSE e[j - Len(a)]
  BY <1>2, <1>4, ConcatProperties
<1> HIDE DEF c
<1>7. Len(c) = i /\ \A j \in 1..i : c[j] = s[j]
  <2>1. ASSUME NEW j \in 1..i PROVE c[j] = s[j]
    <3>1. j \in 1..(Len(a) + Len(e))
      BY <1>1, <1>2, <1>4
    <3>2. CASE j = i
      <4>1. j - Len(a) = 1 /\ ~(j <= Len(a))
        BY <1>1, <1>2, <3>2
      <4>2. QED
        BY <1>4, <1>6, <3>1, <3>2, <4>1
    <3>3. CASE j # i
      <4>1. j <= Len(a) /\ j \in 1..(i - 1)
        BY <1>1, <1>2, <3>3
      <4>2. QED
        BY <1>2, <1>6, <3>1, <4>1
    <3>4. QED
      BY <3>2, <3>3
  <2>2. QED
    BY <1>1, <1>2, <1>4, <1>6, <2>1
<1>8. /\ d \in Seq(S)
      /\ Len(d) = Len(c) + Len(b)
      /\ \A j \in 1..(Len(c) + Len(b)) : d[j] = IF j <= Len(c) THEN c[j] ELSE b[j - Len(c)]
  BY <1>3, <1>6, ConcatProperties
<1> HIDE DEF d
<1>9. ASSUME NEW j \in 1..(Len(s) + 1)
      PROVE  d[j] = IF j <= i THEN s[j] ELSE s[j - 1]
  <2>1. j \in 1..(Len(c) + Len(b))
    BY <1>1, <1>3, <1>7
  <2>2. CASE j <= i
    BY <1>1, <1>7, <1>8, <2>1, <2>2
  <2>3. CASE ~(j <= i)
    <3>1. j - i \in 1..(Len(s) - i + 1) /\ i + (j - i) - 1 = j - 1
      BY <1>1, <2>3
    <3>2. b[j - i] = s[j - 1]
      BY <1>3, <3>1
    <3>3. QED
      BY <1>7, <1>8, <2>1, <2>3, <3>2
  <2>4. QED
    BY <2>2, <2>3
<1>10. d \in Seq(S) /\ Len(d) = Len(s) + 1
  BY <1>1, <1>3, <1>7, <1>8
<1>11. QED
  BY <1>5, <1>9, <1>10

\* A channel in which a datagram is repeated keeps its type.
LEMMA InsertAtSeq ==
  ASSUME NEW S, NEW s \in Seq(S), NEW i \in DOMAIN s
  PROVE  InsertAt(s, i, s[i]) \in Seq(S)
  BY InsertAtElements

\* A loss or a delivery keeps the order of the others.
LEMMA OrderedRemoveAt ==
  ASSUME NEW S, NEW s \in Seq(S), NEW i \in DOMAIN s, NEW R, Ordered(s, R)
  PROVE  Ordered(RemoveAt(s, i), R)
<1> DEFINE r == RemoveAt(s, i)
<1>1. /\ Len(s) \in Nat /\ DOMAIN s = 1..Len(s) /\ i \in 1..Len(s)
      /\ DOMAIN r = 1..(Len(s) - 1)
      /\ \A j \in 1..(Len(s) - 1) : r[j] = IF j < i THEN s[j] ELSE s[j + 1]
  BY RemoveAtElements, LenProperties
<1> HIDE DEF r
<1>2. ASSUME NEW j \in DOMAIN r, NEW k \in DOMAIN r, j < k PROVE <<r[j], r[k]>> \in R
  <2> DEFINE j1 == IF j < i THEN j ELSE j + 1
             k1 == IF k < i THEN k ELSE k + 1
  <2>1. j1 \in DOMAIN s /\ k1 \in DOMAIN s /\ j1 < k1
    BY <1>1, <1>2
  <2>2. r[j] = s[j1] /\ r[k] = s[k1]
    BY <1>1
  <2>3. QED
    BY <2>1, <2>2 DEF Ordered
<1>3. QED
  BY <1>2 DEF Ordered, r

\* So does a repetition, if every datagram may follow itself.
LEMMA OrderedInsertAt ==
  ASSUME NEW S, NEW s \in Seq(S), NEW i \in DOMAIN s, NEW R, Ordered(s, R),
         <<s[i], s[i]>> \in R
  PROVE  Ordered(InsertAt(s, i, s[i]), R)
<1> DEFINE r == InsertAt(s, i, s[i])
<1>1. /\ Len(s) \in Nat /\ DOMAIN s = 1..Len(s) /\ i \in 1..Len(s)
      /\ DOMAIN r = 1..(Len(s) + 1)
      /\ \A j \in 1..(Len(s) + 1) : r[j] = IF j <= i THEN s[j] ELSE s[j - 1]
  BY InsertAtElements, LenProperties
<1> HIDE DEF r
<1>2. ASSUME NEW j \in DOMAIN r, NEW k \in DOMAIN r, j < k PROVE <<r[j], r[k]>> \in R
  <2> DEFINE j1 == IF j <= i THEN j ELSE j - 1
             k1 == IF k <= i THEN k ELSE k - 1
  <2>1. j1 \in DOMAIN s /\ k1 \in DOMAIN s /\ (j1 < k1 \/ (j1 = i /\ k1 = i))
    BY <1>1, <1>2
  <2>2. r[j] = s[j1] /\ r[k] = s[k1]
    BY <1>1
  <2>3. QED
    BY <2>1, <2>2 DEF Ordered
<1>3. QED
  BY <1>2 DEF Ordered, r

\* One channel's datagrams followed by others that may follow each of them.
LEMMA OrderedConcat ==
  ASSUME NEW S, NEW s \in Seq(S), NEW t \in Seq(S), NEW R, Ordered(s, R), Ordered(t, R),
         \A i \in DOMAIN s, j \in DOMAIN t : <<s[i], t[j]>> \in R
  PROVE  Ordered(s \o t, R)
<1> DEFINE r == s \o t
<1>1. /\ Len(s) \in Nat /\ DOMAIN s = 1..Len(s) /\ Len(t) \in Nat /\ DOMAIN t = 1..Len(t)
      /\ DOMAIN r = 1..(Len(s) + Len(t))
      /\ \A i \in 1..(Len(s) + Len(t)) : r[i] = IF i <= Len(s) THEN s[i] ELSE t[i - Len(s)]
  BY ConcatProperties, LenProperties
<1> HIDE DEF r
<1>2. ASSUME NEW j \in DOMAIN r, NEW k \in DOMAIN r, j < k PROVE <<r[j], r[k]>> \in R
  <2>1. CASE k <= Len(s)
    <3>1. j \in DOMAIN s /\ k \in DOMAIN s /\ r[j] = s[j] /\ r[k] = s[k]
      BY <1>1, <1>2, <2>1
    <3>2. QED
      BY <1>2, <3>1 DEF Ordered
  <2>2. CASE j <= Len(s) /\ ~(k <= Len(s))
    <3>1. j \in DOMAIN s /\ k - Len(s) \in DOMAIN t /\ r[j] = s[j] /\ r[k] = t[k - Len(s)]
      BY <1>1, <1>2, <2>2
    <3>2. QED
      BY <3>1
  <2>3. CASE ~(j <= Len(s))
    <3>1. /\ j - Len(s) \in DOMAIN t /\ k - Len(s) \in DOMAIN t /\ j - Len(s) < k - Len(s)
          /\ r[j] = t[j - Len(s)] /\ r[k] = t[k - Len(s)]
      BY <1>1, <1>2, <2>3
    <3>2. QED
      BY <3>1 DEF Ordered
  <2>4. QED
    BY <1>1, <1>2, <2>1, <2>2, <2>3
<1>3. QED
  BY <1>2 DEF Ordered, r

\* One more datagram.
LEMMA OrderedAppend ==
  ASSUME NEW S, NEW s \in Seq(S), NEW e \in S, NEW R, Ordered(s, R),
         \A i \in DOMAIN s : <<s[i], e>> \in R
  PROVE  Ordered(Append(s, e), R)
<1>1. /\ Len(s) \in Nat /\ DOMAIN s = 1..Len(s)
      /\ DOMAIN Append(s, e) = 1..(Len(s) + 1)
      /\ Append(s, e)[Len(s) + 1] = e
      /\ \A i \in 1..Len(s) : Append(s, e)[i] = s[i]
  BY AppendProperties, LenProperties
<1>2. QED
  BY <1>1 DEF Ordered

---------------------------------------------------------------------------
(* Block numbers. *)

\* Quotient and remainder.
LEMMA DivMod ==
  ASSUME NEW M \in Nat \ {0}, NEW i \in Nat
  PROVE  /\ (i % M) \in 0..(M - 1)
         /\ (i \div M) \in Nat
         /\ i = M * (i \div M) + (i % M)
  OBVIOUS

\* No multiple of M but 0 is between -M and M.
LEMMA SmallMultiple ==
  ASSUME NEW M \in Nat \ {0}, NEW d \in Int, M * d < M, -M < M * d
  PROVE  d = 0
<1>1. CASE d >= 1
  <2>1. M * d >= M
    BY <1>1
  <2>2. QED
    BY <2>1
<1>2. CASE d <= -1
  <2>1. M * d <= -M
    BY <1>2
  <2>2. QED
    BY <2>1
<1>3. QED
  BY <1>1, <1>2

\* A remainder is unique.
LEMMA Remainder ==
  ASSUME NEW M \in Nat \ {0}, NEW q \in Int, NEW r \in 0..(M - 1)
  PROVE  ((M * q + r) % M) = r
  OBVIOUS

\* Indices less than BlockMod apart have the same number only if they are the same.
LEMMA SameNumber ==
  ASSUME NEW i \in Nat, NEW j \in Nat, BlockNum(i) = BlockNum(j),
         i < j + BlockMod, j < i + BlockMod
  PROVE  i = j
<1>1. BlockMod \in Nat \ {0}
  BY ConstantAssumption
<1> DEFINE M == BlockMod
           p == i \div M
           q == j \div M
           a == i % M
           b == j % M
<1>2. /\ p \in Nat /\ q \in Nat /\ a \in Nat /\ b \in Nat
      /\ i = M * p + a /\ j = M * q + b
  <2>1. (i % M) \in 0..(M - 1) /\ p \in Nat /\ i = M * p + (i % M)
    BY <1>1, DivMod
  <2>2. (j % M) \in 0..(M - 1) /\ q \in Nat /\ j = M * q + (j % M)
    BY <1>1, DivMod
  <2> HIDE DEF p, q
  <2>3. QED
    BY <1>1, <2>1, <2>2
<1>3. a = b
  BY DEF BlockNum
<1> HIDE DEF p, q, a, b
<1>4. i - j = M * (p - q)
  BY <1>1, <1>2, <1>3
<1>5. p - q = 0
  BY <1>1, <1>2, <1>4, SmallMultiple
<1>6. QED
  BY <1>1, <1>2, <1>4, <1>5

\* The distance of indices less than BlockMod apart is computed modulo BlockMod.
LEMMA ModSmall ==
  ASSUME NEW i \in Nat, NEW j \in Nat, i < j + BlockMod, j < i + BlockMod
  PROVE  (((i % BlockMod) - (j % BlockMod)) % BlockMod)
           = IF j <= i THEN i - j ELSE i - j + BlockMod
<1>1. BlockMod \in Nat \ {0}
  BY ConstantAssumption
<1> DEFINE M == BlockMod
           p == i \div M
           q == j \div M
           a == i % M
           b == j % M
<1>2. /\ p \in Nat /\ q \in Nat /\ a \in Nat /\ b \in Nat
      /\ i = M * p + a /\ j = M * q + b
  BY <1>1, DivMod
<1> HIDE DEF p, q, a, b
<1>3. a - b = M * (q - p) + (i - j)
  BY <1>1, <1>2
<1>4. CASE j <= i
  <2>1. i - j \in 0..(M - 1) /\ q - p \in Int
    BY <1>1, <1>2, <1>4
  <2>2. ((M * (q - p) + (i - j)) % M) = i - j
    BY <1>1, <2>1, Remainder
  <2>3. QED
    BY <1>3, <1>4, <2>2 DEF a, b
<1>5. CASE ~(j <= i)
  <2>1. (i - j) + M \in 0..(M - 1) /\ q - p - 1 \in Int
    BY <1>1, <1>2, <1>5
  <2>2. ((M * (q - p - 1) + ((i - j) + M)) % M) = (i - j) + M
    BY <1>1, <2>1, Remainder
  <2>3. M * (q - p - 1) + ((i - j) + M) = M * (q - p) + (i - j)
    BY <1>1, <1>2
  <2>4. QED
    BY <1>3, <1>5, <2>2, <2>3 DEF a, b
<1>6. QED
  BY <1>4, <1>5

\* A block that is acknowledged though it is not expected is at most MaxBehind behind.
LEMMA DuplicateBehind ==
  ASSUME NEW t \in Tids, NEW n \in Nat, NEW k \in Nat, k = Len(received[t]),
         ~IsExpected(t, n), IsDuplicate(t, n),
         n + MaxBehind <= k + BlockMod, k + 1 < n + BlockMod
  PROVE  n <= k /\ k + 1 <= n + MaxBehind
<1>1. /\ BlockMod \in Nat /\ BlockMod > 1 /\ MaxBehind \in Nat /\ MaxBehind > 0
      /\ BlockMod \div 2 <= MaxBehind + 1
      /\ BlockMod \div 2 > 1 => BlockMod \div 2 = MaxBehind + 1
  BY ConstantAssumption DEF MaxBehind
<1>2. n # k + 1
  BY DEF IsExpected, ExpectedBlock
<1> DEFINE behind == (((k + 1) % BlockMod) - (n % BlockMod)) % BlockMod
<1>3. 0 < behind /\ behind < BlockMod \div 2
  BY DEF IsDuplicate, ExpectedBlock, BlockNum
<1>4. behind = IF n <= k + 1 THEN k + 1 - n ELSE k + 1 - n + BlockMod
  <2>1. k + 1 \in Nat /\ k + 1 < n + BlockMod /\ n < k + 1 + BlockMod
    BY <1>1
  <2>2. QED
    BY <2>1, ModSmall
<1> HIDE DEF behind
<1>5. QED
  BY <1>1, <1>2, <1>3, <1>4

---------------------------------------------------------------------------
(* Types. *)

\* A datagram sent to the sender is on its channel, or gone.
LEMMA SendingSeq ==
  ASSUME NEW S, toSender \in Seq(S), NEW p \in S
  PROVE  Sending(toSender, p) \in Seq(S)
  BY AppendProperties DEF Sending

\* The packets of a task are packets.
LEMMA PacketTypes ==
  ASSUME NEW t \in Tids
  PROVE  /\ Ready(t) \in Packet /\ Error(t) \in Packet
         /\ \A n \in Nat : Ack(t, n) \in Packet
  BY DEF Ready, Error, Ack, Packet

\* The numbers a file and a window consist of.
LEMMA Numbers ==
  ASSUME TypeOK
  PROVE  /\ lastBlock \in Nat \ {0} /\ clientWindow \in Nat \ {0}
         /\ BlockMod \in Nat \ {0, 1} /\ base \in Nat \ {0}
         /\ MaxBehind \in Nat \ {0} /\ MaxBehind < BlockMod
<1>1. /\ lastBlock \in Nat \ {0} /\ clientWindow \in Nat \ {0}
      /\ BlockMod \in Nat \ {0, 1} /\ base \in Nat \ {0}
  BY ConstantAssumption DEF TypeOK
<1>2. MaxBehind \in Nat \ {0} /\ MaxBehind < BlockMod
  BY <1>1 DEF MaxBehind
<1>3. QED
  BY <1>1, <1>2

\* A window is a sequence of blocks.
LEMMA WindowSeq ==
  ASSUME TypeOK, NEW b \in Nat \ {0}
  PROVE  /\ [i \in 1..(WindowEnd(b) - b + 1) |-> b + i - 1] \in Seq(Nat)
         /\ WindowEnd(b) \in Nat
<1>1. lastBlock \in Nat \ {0} /\ clientWindow \in Nat \ {0}
  BY Numbers
<1>2. WindowEnd(b) \in Nat
  BY <1>1 DEF WindowEnd
<1> DEFINE w == [i \in 1..(WindowEnd(b) - b + 1) |-> b + i - 1]
<1>3. CASE WindowEnd(b) - b + 1 >= 0
  <2>1. WindowEnd(b) - b + 1 \in Nat /\ \A i \in 1..(WindowEnd(b) - b + 1) : b + i - 1 \in Nat
    BY <1>2, <1>3
  <2>2. QED
    BY <1>2, <2>1
<1>4. CASE WindowEnd(b) - b + 1 < 0
  <2>1. 1..(WindowEnd(b) - b + 1) = 1..0
    BY <1>2, <1>4
  <2>2. \A i \in 1..0 : b + i - 1 \in Nat
    BY <1>1
  <2>3. w \in Seq(Nat)
    <3>1. w = [i \in 1..0 |-> b + i - 1]
      BY <2>1
    <3>2. [i \in 1..0 |-> b + i - 1] \in Seq(Nat)
      BY <2>2
    <3>3. QED
      BY <3>1, <3>2
  <2>4. QED
    BY <1>2, <2>3
<1>5. QED
  BY <1>2, <1>3, <1>4

\* Sending a window keeps the channels' type.
LEMMA SendWindowType ==
  ASSUME TypeOK, NEW t \in Tids, NEW b \in Nat \ {0}, SendWindow(t, b)
  PROVE  toServer' \in [Tids -> Seq(Nat)]
<1> DEFINE w == [i \in 1..(WindowEnd(b) - b + 1) |-> b + i - 1]
<1>1. w \in Seq(Nat) /\ toServer \in [Tids -> Seq(Nat)]
  BY WindowSeq DEF TypeOK
<1>2. toServer' = toServer \/ toServer' = [toServer EXCEPT ![t] = @ \o w]
  BY DEF SendWindow
<1> HIDE DEF w
<1>3. toServer[t] \o w \in Seq(Nat)
  BY <1>1, ConcatProperties
<1>4. QED
  BY <1>1, <1>2, <1>3

\* What a task does keeps the types.
LEMMA ServerType ==
  ASSUME TypeOK, NEW t \in Tids, Server(t) PROVE TypeOK'
<1>1. /\ Ready(t) \in Packet /\ Error(t) \in Packet
      /\ \A n \in Nat : Ack(t, n) \in Packet
  BY PacketTypes
<1>2. \A p \in Packet : Sending(toSender, p) \in Seq(Packet)
  BY SendingSeq DEF TypeOK
<1>3. CASE Accept(t)
  <2>1. toSender' \in Seq(Packet)
    BY <1>1, <1>2, <1>3 DEF Accept
  <2>2. wrqs' \in Nat
    BY <1>3 DEF Accept, TypeOK
  <2>3. sPc' \in [Tids -> {"idle", "receiving", "writing"} \cup Stopped]
    BY <1>3 DEF Accept, TypeOK, Stopped
  <2>4. QED
    BY <1>3, <2>1, <2>2, <2>3 DEF Accept, TypeOK, fileVars, senderVars, faultVars
<1>4. CASE RecvData(t)
  <2>1. PICK i \in DOMAIN toServer[t] :
          /\ \/ toServer[t][i] = 0 /\ RecvError(t)
             \/ /\ toServer[t][i] > 0
                /\ \/ NextBlock(t, toServer[t][i]) \/ DuplicateBlock(t, toServer[t][i])
                   \/ OutOfOrder(t, toServer[t][i]) \/ ReplyFails(t, toServer[t][i])
          /\ toServer' = [toServer EXCEPT ![t] =
                            IF sPc'[t] = "receiving" THEN RemoveAt(@, i) ELSE <<>>]
    BY <1>4 DEF RecvData, Arriving
  <2> DEFINE n == toServer[t][i]
  <2>2. toServer[t] \in Seq(Nat) /\ n \in Nat
    BY ElementOfSeq DEF TypeOK
  <2>3. RemoveAt(toServer[t], i) \in Seq(Nat)
    BY <2>2, RemoveAtSeq
  <2>4. toServer' \in [Tids -> Seq(Nat)]
    BY <2>1, <2>3, EmptySeq DEF TypeOK
  <2> HIDE DEF n
  <2>5. /\ sPc' \in [Tids -> {"idle", "receiving", "writing"} \cup Stopped]
        /\ received' \in [Tids -> Seq(Nat)]
        /\ SizeLimit > 0 => \A u \in Tids : Len(received'[u]) <= SizeLimit
        /\ toSender' \in Seq(Packet)
    <3>1. CASE NextBlock(t, n)
      <4>1. Append(received[t], n) \in Seq(Nat) /\ Len(Append(received[t], n)) = Len(received[t]) + 1
        BY <2>2, AppendProperties DEF TypeOK
      <4>2. toSender' \in Seq(Packet)
        BY <1>1, <1>2, <2>2, <3>1 DEF NextBlock, TypeOK
      <4>3. sPc' \in [Tids -> {"idle", "receiving", "writing"} \cup Stopped]
        BY <3>1 DEF NextBlock, TypeOK, Stopped
      <4>4. CASE UNCHANGED received
        BY <4>2, <4>3, <4>4 DEF TypeOK
      <4>5. CASE ~TooLarge(t) /\ received' = [received EXCEPT ![t] = Append(@, n)]
        <5>1. received' \in [Tids -> Seq(Nat)]
          BY <4>1, <4>5 DEF TypeOK
        <5>2. ASSUME SizeLimit > 0, NEW u \in Tids PROVE Len(received'[u]) <= SizeLimit
          <6>1. CASE u = t
            <7>1. Len(received[t]) \in Nat /\ ~(Len(received[t]) + 1 > SizeLimit)
              BY <4>5, <5>2 DEF TooLarge, TypeOK
            <7>2. Len(received'[u]) = Len(received[t]) + 1
              BY <4>1, <4>5, <6>1 DEF TypeOK
            <7>3. QED
              BY <7>1, <7>2, ConstantAssumption
          <6>2. CASE u # t
            BY <4>5, <5>2, <6>2 DEF TypeOK
          <6>3. QED
            BY <6>1, <6>2
        <5>3. QED
          BY <4>2, <4>3, <5>1, <5>2
      <4>6. QED
        BY <3>1, <4>4, <4>5 DEF NextBlock
    <3>2. CASE RecvError(t) \/ DuplicateBlock(t, n) \/ OutOfOrder(t, n) \/ ReplyFails(t, n)
      BY <1>1, <1>2, <2>2, <3>2 DEF RecvError, DuplicateBlock, OutOfOrder, ReplyFails, TypeOK, Stopped
    <3>3. QED
      BY <2>1, <3>1, <3>2 DEF n
  <2>6. QED
    BY <1>4, <2>4, <2>5 DEF RecvData, TypeOK, fileVars, senderVars, faultVars
<1>5. CASE DataTimeout(t)
  BY <1>1, <1>2, <1>5, EmptySeq
  DEF DataTimeout, TimedOut, TypeOK, fileVars, senderVars, faultVars, Stopped
<1>6. CASE Store(t)
  BY <1>1, <1>2, <1>6 DEF Store, TypeOK, fileVars, senderVars, faultVars, Stopped
<1>7. QED
  BY <1>3, <1>4, <1>5, <1>6 DEF Server

\* What the sender does keeps the types.
LEMMA SenderType ==
  ASSUME TypeOK, Sender PROVE TypeOK'
<1>1. CASE SenderRecv
  <2>1. PICK j \in DOMAIN toSender :
          /\ tid' = IF tid = NoTid THEN toSender[j].tid ELSE tid
          /\ \/ toSender[j].tid # tid' /\ UNCHANGED <<cPc, base, tries, toServer>>
             \/ toSender[j].tid = tid' /\ toSender[j].kind = "ready" /\ RecvReady
             \/ toSender[j].tid = tid' /\ toSender[j].kind = "ack" /\ RecvAck(toSender[j].num)
             \/ /\ toSender[j].tid = tid' /\ toSender[j].kind = "error"
                /\ cPc' = "failed"
                /\ UNCHANGED <<base, tries, toServer>>
          /\ toSender' = IF cPc' \in Open THEN RemoveAt(toSender, j) ELSE <<>>
    BY <1>1 DEF SenderRecv, Arriving
  <2>2. toSender[j] \in Packet /\ tid' \in Tids
    <3>1. toSender[j] \in Packet
      BY ElementOfSeq DEF TypeOK
    <3>2. toSender[j].tid \in Tids
      BY <3>1 DEF Packet
    <3>3. QED
      BY <2>1, <3>1, <3>2 DEF TypeOK
  <2>3. toSender' \in Seq(Packet)
    BY <2>1, RemoveAtSeq, EmptySeq DEF TypeOK
  <2>4. /\ cPc' \in Open \cup {"done", "failed"}
        /\ base' \in Nat \ {0} /\ tries' \in 0..MaxRetries
        /\ toServer' \in [Tids -> Seq(Nat)]
    <3>1. CASE RecvReady
      BY <2>2, <3>1, SendWindowType DEF RecvReady, TypeOK, Open
    <3>2. ASSUME NEW k, RecvAck(k)
          PROVE  /\ cPc' \in Open \cup {"done", "failed"}
                 /\ base' \in Nat \ {0} /\ tries' \in 0..MaxRetries
                 /\ toServer' \in [Tids -> Seq(Nat)]
      <4>1. CASE cPc' = "done" /\ UNCHANGED <<base, tries, toServer>>
        BY <4>1 DEF TypeOK
      <4>2. CASE \E i \in base..WindowEnd(base) :
                   base' = i + 1 /\ tries' = 0 /\ SendWindow(tid', i + 1) /\ UNCHANGED cPc
        <5>1. PICK i \in base..WindowEnd(base) :
                base' = i + 1 /\ tries' = 0 /\ SendWindow(tid', i + 1) /\ UNCHANGED cPc
          BY <4>2
        <5>2. base \in Nat \ {0} /\ WindowEnd(base) \in Nat /\ i + 1 \in Nat \ {0}
          <6>1. base \in Nat \ {0}
            BY Numbers
          <6>2. WindowEnd(base) \in Nat
            BY <6>1, WindowSeq
          <6>3. QED
            BY <6>1, <6>2
        <5>3. toServer' \in [Tids -> Seq(Nat)]
          BY <2>2, <5>1, <5>2, SendWindowType
        <5>4. QED
          BY <5>1, <5>2, <5>3, ConstantAssumption DEF TypeOK
      <4>3. CASE UNCHANGED <<cPc, base, tries, toServer>>
        BY <4>3 DEF TypeOK
      <4>4. QED
        BY <3>2, <4>1, <4>2, <4>3 DEF RecvAck
    <3>3. QED
      BY <2>1, <3>1, <3>2 DEF TypeOK
  <2>5. QED
    BY <1>1, <2>2, <2>3, <2>4 DEF SenderRecv, TypeOK, fileVars, taskVars, faultVars
<1>2. CASE SenderTimeout
  <2>1. /\ cPc' \in Open \cup {"done", "failed"} /\ tries' \in 0..MaxRetries
        /\ toSender' \in Seq(Packet)
    <3>1. MaxRetries \in Nat /\ tries \in 0..MaxRetries /\ toSender \in Seq(Packet)
          /\ <<>> \in Seq(Packet)
      BY EmptySeq, ConstantAssumption DEF TypeOK
    <3>2. CASE tries' = tries + 1 /\ tries + 1 < MaxRetries /\ UNCHANGED <<cPc, toSender>>
      BY <3>1, <3>2 DEF TypeOK
    <3>3. CASE cPc' = "failed" /\ toSender' = <<>> /\ UNCHANGED tries
      BY <3>1, <3>3
    <3>4. QED
      BY <1>2, <3>2, <3>3 DEF SenderTimeout
  <2>2. toServer' \in [Tids -> Seq(Nat)]
    <3>1. CASE cPc = "sending" /\ SendWindow(tid, base)
      <4>1. CASE tid \in Tids
        BY <3>1, <4>1, SendWindowType DEF TypeOK
      <4>2. CASE tid = NoTid
        BY <3>1, <4>2, ConstantAssumption DEF SendWindow, TypeOK
      <4>3. QED
        BY <4>1, <4>2 DEF TypeOK
    <3>2. CASE tid # NoTid /\ toServer' = [toServer EXCEPT ![tid] = Append(@, 0)]
      BY <3>2, AppendProperties DEF TypeOK
    <3>3. CASE UNCHANGED toServer
      BY <3>3 DEF TypeOK
    <3>4. QED
      BY <1>2, <3>1, <3>2, <3>3 DEF SenderTimeout
  <2>3. QED
    BY <1>2, <2>1, <2>2 DEF SenderTimeout, TypeOK, fileVars, taskVars, faultVars
<1>3. QED
  BY <1>1, <1>2 DEF Sender

\* What the network does keeps the types.
LEMMA NetworkType ==
  ASSUME TypeOK, Lose \/ Duplicate PROVE TypeOK'
<1>1. toSender' \in Seq(Packet)
  <2>1. CASE UNCHANGED toSender
    BY <2>1 DEF TypeOK
  <2>2. CASE \E i \in DOMAIN toSender : toSender' = RemoveAt(toSender, i)
    BY <2>2, RemoveAtSeq DEF TypeOK
  <2>3. CASE \E i \in DOMAIN toSender : toSender' = InsertAt(toSender, i, toSender[i])
    BY <2>3, InsertAtSeq DEF TypeOK
  <2>4. QED
    BY <2>1, <2>2, <2>3 DEF Lose, Duplicate
<1>2. toServer' \in [Tids -> Seq(Nat)]
  <2>1. CASE UNCHANGED toServer
    BY <2>1 DEF TypeOK
  <2>2. ASSUME NEW t \in Tids, NEW i \in DOMAIN toServer[t],
               toServer' = [toServer EXCEPT ![t] = RemoveAt(@, i)]
        PROVE  toServer' \in [Tids -> Seq(Nat)]
    BY <2>2, RemoveAtSeq DEF TypeOK
  <2>3. ASSUME NEW t \in Tids, NEW i \in DOMAIN toServer[t],
               toServer' = [toServer EXCEPT ![t] = InsertAt(@, i, @[i])]
        PROVE  toServer' \in [Tids -> Seq(Nat)]
    <3>1. toServer' = [toServer EXCEPT ![t] = InsertAt(toServer[t], i, toServer[t][i])]
      BY <2>3
    <3>2. QED
      BY <3>1, InsertAtSeq DEF TypeOK
  <2>4. QED
    BY <2>1, <2>2, <2>3 DEF Lose, Duplicate
<1>3. wrqs' \in Nat /\ lost' \in Nat /\ dups' \in Nat
  BY DEF Lose, Duplicate, TypeOK
<1>4. UNCHANGED <<fileVars, taskVars, senderVars>>
  BY DEF Lose, Duplicate
<1>5. QED
  BY <1>1, <1>2, <1>3, <1>4 DEF TypeOK, fileVars, taskVars, senderVars

\* Every step keeps the types.
LEMMA TypeStep ==
  ASSUME TypeOK, [Next]_vars PROVE TypeOK'
<1>1. CASE UNCHANGED vars
  BY <1>1 DEF vars, fileVars, taskVars, senderVars, faultVars, TypeOK
<1>2. QED
  BY <1>1, ServerType, SenderType, NetworkType DEF Next

\* Types hold initially.
LEMMA TypeInit == Init => TypeOK
  BY ConstantAssumption, EmptySeq DEF Init, TypeOK, Open, Stopped

\* Every variable of the upload stays in its range for every value of the constants: whatever
\* the sender and the network do, received_data never holds more than max_file_size_bytes.
THEOREM TypeCorrect == Spec => []TypeOK
<1>1. TypeOK /\ [Next]_vars => TypeOK'
  BY TypeStep
<1>2. QED
  BY <1>1, TypeInit, PTL DEF Spec

---------------------------------------------------------------------------
(* Channels as ordered sequences. *)

\* The blocks that may be on their way to a task that has received len blocks, while the
\* sender's window starts at b.
GoodBlocks(b, len) ==
  {n \in 0..lastBlock : n > 0 => n <= WindowEnd(b) /\ (Wraps => len < n + clientWindow)}

\* The order of blocks, where numbers wrap.
DataFollows == {x \in Nat \X Nat : x[2] > 0 => x[1] < x[2] + clientWindow}

\* The datagrams that may be on their way to the sender that talks to task u, which has
\* received len blocks.
GoodAcks(pc, u, b, len) ==
  {p \in Packet : /\ pc[p.tid] # "idle"
                  /\ p.kind = "ack" => /\ p.tid = u
                                       /\ p.num \in 1..len
                                       /\ Wraps => b <= p.num + MaxBehind}

\* The order of ACKs, where numbers wrap.
AckFollows ==
  {x \in Packet \X Packet :
     x[1].kind = "ack" /\ x[2].kind = "ack" => x[1].num < x[2].num + MaxBehind}

\* DataOk, as a sequence over a set and an order.
LEMMA DataOkNow ==
  ASSUME TypeOK, NEW t \in Tids, DataOk(t)
  PROVE  /\ toServer[t] \in Seq(GoodBlocks(base, Len(received[t])))
         /\ Wraps => Ordered(toServer[t], DataFollows)
<1>1. toServer[t] \in Seq(Nat)
  BY DEF TypeOK
<1>2. \A i \in DOMAIN toServer[t] : toServer[t][i] \in Nat
  BY <1>1, ElementOfSeq
<1>3. QED
  BY <1>2 DEF DataOk, GoodBlocks, Ordered, DataFollows

\* The same of the next state.
LEMMA DataOkNext ==
  ASSUME UNCHANGED fileVars, NEW t \in Tids,
         toServer'[t] \in Seq(GoodBlocks(base', Len(received'[t]))),
         Wraps => Ordered(toServer'[t], DataFollows)
  PROVE  DataOk(t)'
<1>1. /\ lastBlock' = lastBlock /\ clientWindow' = clientWindow /\ Wraps' = Wraps
      /\ WindowEnd(base)' = WindowEnd(base')
  BY DEF fileVars, Wraps, WindowEnd
<1>2. QED
  BY <1>1 DEF DataOk, GoodBlocks, Ordered, DataFollows

\* AcksOk, as a sequence over a set and an order.
LEMMA AcksOkNow ==
  ASSUME TypeOK, AcksOk
  PROVE  /\ toSender \in Seq(GoodAcks(sPc, tid, base, Len(received[tid])))
         /\ Wraps => Ordered(toSender, AckFollows)
<1>1. toSender \in Seq(Packet)
  BY DEF TypeOK
<1>2. \A i \in DOMAIN toSender : toSender[i] \in Packet
  BY <1>1, ElementOfSeq
<1>3. QED
  BY <1>2 DEF AcksOk, GoodAcks, Ordered, AckFollows

\* The same of the next state.
LEMMA AcksOkNext ==
  ASSUME UNCHANGED fileVars,
         toSender' \in Seq(GoodAcks(sPc', tid', base', Len(received'[tid']))),
         Wraps => Ordered(toSender', AckFollows)
  PROVE  AcksOk'
<1>1. Wraps' = Wraps
  BY DEF fileVars, Wraps
<1>2. QED
  BY <1>1 DEF AcksOk, GoodAcks, Ordered, AckFollows

---------------------------------------------------------------------------
(* What a number that arrives stands for. *)

\* NumbersFit, of this file and this window.
LEMMA Fits ==
  ASSUME NumbersFit, TypeOK
  PROVE  /\ lastBlock + MaxBehind <= BlockMod \/ clientWindow + MaxBehind <= BlockMod
         /\ Wraps => clientWindow + MaxBehind <= BlockMod
<1>1. lastBlock + MaxBehind <= BlockMod \/ clientWindow + MaxBehind <= BlockMod
  BY DEF NumbersFit, TypeOK
<1>2. QED
  BY <1>1, Numbers DEF Wraps

\* A window ends within the file, less than clientWindow blocks after its start, and later
\* if it starts later.
LEMMA WindowEndRange ==
  ASSUME TypeOK, NEW b \in Nat \ {0}
  PROVE  /\ WindowEnd(b) \in Nat /\ WindowEnd(b) < b + clientWindow /\ WindowEnd(b) <= lastBlock
         /\ b <= lastBlock => b <= WindowEnd(b)
         /\ \A c \in Nat : b <= c => WindowEnd(b) <= WindowEnd(c)
  BY Numbers DEF WindowEnd

\* The block that a task in its receive loop takes from its socket is for the sender's
\* task; if its number is the expected one it is the next block, and if its number is
\* behind that, it is a block that was received, at most MaxBehind before.
LEMMA BlockArrives ==
  ASSUME NumbersFit, IInv, NEW t \in Tids, sPc[t] = "receiving",
         NEW i \in DOMAIN toServer[t], NEW n, n = toServer[t][i], n > 0,
         NEW k, k = Len(received[t])
  PROVE  /\ t = tid /\ n \in 1..lastBlock /\ n <= WindowEnd(base)
         /\ k \in Nat /\ k < lastBlock
         /\ IsExpected(t, n) => n = k + 1
         /\ ~IsExpected(t, n) /\ IsDuplicate(t, n) => n <= k /\ k + 1 <= n + MaxBehind
<1>1. TypeOK /\ TaskOk(t) /\ DataOk(t) /\ SenderOk
  BY DEF IInv
<1>2. /\ lastBlock \in Nat \ {0} /\ clientWindow \in Nat \ {0} /\ BlockMod \in Nat \ {0, 1}
      /\ base \in Nat \ {0} /\ MaxBehind \in Nat \ {0} /\ MaxBehind < BlockMod
  BY <1>1, Numbers
<1>3. n \in GoodBlocks(base, k)
  BY <1>1, DataOkNow, ElementOfSeq
<1>4. n \in 1..lastBlock /\ n <= WindowEnd(base) /\ (Wraps => k < n + clientWindow)
  BY <1>2, <1>3 DEF GoodBlocks
<1>5. k \in Nat /\ k < lastBlock
  <2>1. k \in Nat
    BY <1>1 DEF TypeOK
  <2>2. k <= lastBlock /\ k # lastBlock
    BY <1>1 DEF TaskOk, Complete
  <2>3. QED
    BY <1>2, <2>1, <2>2
<1>6. t = tid
  BY <1>1 DEF TaskOk
<1>7. base <= k + 1 /\ WindowEnd(base) \in Nat /\ WindowEnd(base) < base + clientWindow
  <2>1. base <= k + 1
    BY <1>1, <1>6, ConstantAssumption DEF SenderOk
  <2>2. QED
    BY <1>1, <1>2, <2>1, WindowEndRange
<1>8. n + MaxBehind <= k + BlockMod
  <2>1. CASE lastBlock + MaxBehind <= BlockMod
    BY <1>2, <1>4, <1>5, <2>1
  <2>2. CASE clientWindow + MaxBehind <= BlockMod
    BY <1>2, <1>4, <1>5, <1>7, <2>2
  <2>3. QED
    BY <1>1, <2>1, <2>2, Fits
<1>9. k + 1 < n + BlockMod
  <2>1. CASE Wraps
    <3>1. clientWindow + MaxBehind <= BlockMod
      BY <1>1, <2>1, Fits
    <3>2. QED
      BY <1>2, <1>4, <1>5, <2>1, <3>1
  <2>2. CASE ~Wraps
    BY <1>2, <1>4, <1>5, <2>2 DEF Wraps
  <2>3. QED
    BY <2>1, <2>2
<1>10. IsExpected(t, n) => n = k + 1
  <2>1. SUFFICES ASSUME IsExpected(t, n) PROVE n = k + 1
    OBVIOUS
  <2>2. BlockNum(n) = BlockNum(k + 1)
    BY <2>1 DEF IsExpected, ExpectedBlock
  <2>3. n \in Nat /\ k + 1 \in Nat /\ n < (k + 1) + BlockMod
    BY <1>2, <1>4, <1>5, <1>8
  <2>4. QED
    BY <1>9, <2>2, <2>3, SameNumber
<1>11. ~IsExpected(t, n) /\ IsDuplicate(t, n) => n <= k /\ k + 1 <= n + MaxBehind
  <2>1. n \in Nat
    BY <1>2, <1>4
  <2>2. QED
    BY <1>5, <1>8, <1>9, <2>1, DuplicateBehind
<1>12. QED
  BY <1>4, <1>5, <1>6, <1>10, <1>11

\* The block of the window that an ACK's number names is the block that was acknowledged.
LEMMA AckArrives ==
  ASSUME NumbersFit, IInv, NEW j \in DOMAIN toSender, toSender[j].kind = "ack",
         NEW i \in base..WindowEnd(base), BlockNum(i) = BlockNum(toSender[j].num)
  PROVE  i = toSender[j].num
<1>1. TypeOK /\ AcksOk /\ SenderOk
  BY DEF IInv
<1>2. /\ lastBlock \in Nat \ {0} /\ clientWindow \in Nat \ {0} /\ BlockMod \in Nat \ {0, 1}
      /\ base \in Nat \ {0} /\ MaxBehind \in Nat \ {0} /\ MaxBehind < BlockMod
  BY <1>1, Numbers
<1> DEFINE k == toSender[j].num
<1>3. /\ toSender[j] \in Packet /\ toSender[j].tid = tid /\ k \in 1..Len(received[tid])
      /\ Wraps => base <= k + MaxBehind
  BY <1>1, AcksOkNow, ElementOfSeq DEF GoodAcks
<1>4. tid \in Tids /\ tid # NoTid /\ Len(received[tid]) \in Nat
  BY <1>1, <1>3, ConstantAssumption DEF Packet, TypeOK
<1>5. Len(received[tid]) <= WindowEnd(base)
  BY <1>1, <1>4 DEF SenderOk
<1>6. WindowEnd(base) \in Nat /\ WindowEnd(base) < base + clientWindow /\ WindowEnd(base) <= lastBlock
  BY <1>1, <1>2, WindowEndRange
<1> HIDE DEF k
<1>7. i \in Nat /\ k \in Nat
  BY <1>2, <1>3, <1>4, <1>6
<1>8. i < k + BlockMod /\ k < i + BlockMod
  <2>1. CASE Wraps
    <3>1. clientWindow + MaxBehind <= BlockMod
      BY <1>1, <2>1, Fits
    <3>2. QED
      BY <1>2, <1>3, <1>4, <1>5, <1>6, <1>7, <2>1, <3>1
  <2>2. CASE ~Wraps
    BY <1>2, <1>3, <1>4, <1>5, <1>6, <1>7, <2>2 DEF Wraps
  <2>3. QED
    BY <2>1, <2>2
<1>9. QED
  BY <1>7, <1>8, SameNumber DEF k

---------------------------------------------------------------------------
(* The server's steps. *)

\* What a step of task t has to establish.
LEMMA ServerFrame ==
  ASSUME IInv, TypeOK', NEW t \in Tids, UNCHANGED <<fileVars, senderVars>>,
         \A u \in Tids \ {t} : /\ received'[u] = received[u] /\ toServer'[u] = toServer[u]
                               /\ sPc'[u] = sPc[u],
         t = tid => /\ Len(received[t]) <= Len(received'[t])
                    /\ Len(received'[t]) <= WindowEnd(base),
         TaskOk(t)', DataOk(t)', AcksOk'
  PROVE  IInv'
<1>1. /\ TypeOK /\ SenderOk /\ (network = "reordering" => ~Wraps)
      /\ \A u \in Tids : TaskOk(u) /\ DataOk(u)
  BY DEF IInv
<1>2. /\ lastBlock' = lastBlock /\ clientWindow' = clientWindow /\ network' = network
      /\ tid' = tid /\ base' = base /\ cPc' = cPc
      /\ Wraps' = Wraps /\ WindowEnd(base)' = WindowEnd(base)
  BY DEF fileVars, senderVars, Wraps, WindowEnd
<1>3. ASSUME NEW u \in Tids PROVE TaskOk(u)' /\ DataOk(u)'
  <2>1. CASE u = t
    BY <2>1
  <2>2. CASE u # t
    <3>1. received'[u] = received[u] /\ toServer'[u] = toServer[u] /\ sPc'[u] = sPc[u]
      BY <2>2
    <3>2. TaskOk(u) /\ DataOk(u)
      BY <1>1
    <3>3. TaskOk(u)'
      BY <1>2, <3>1, <3>2 DEF TaskOk
    <3>4. DataOk(u)'
      BY <1>2, <3>1, <3>2 DEF DataOk
    <3>5. QED
      BY <3>3, <3>4
  <2>3. QED
    BY <2>1, <2>2
<1>4. SenderOk'
  <2>1. CASE tid = t
    <3>1. /\ Len(received[t]) \in Nat /\ Len(received'[t]) \in Nat /\ lastBlock \in Nat
          /\ base \in Nat
      <4>1. Len(received[t]) \in Nat
        BY <1>1 DEF TypeOK
      <4>2. Len(received'[t]) \in Nat
        BY DEF TypeOK
      <4>3. QED
        BY <1>1, <4>1, <4>2, Numbers
    <3>2. Len(received'[t]) <= lastBlock
      BY <1>2 DEF TaskOk
    <3>3. Len(received[t]) <= Len(received'[t]) /\ Len(received'[t]) <= WindowEnd(base)
      BY <2>1
    <3>4. tid # NoTid
      BY <2>1, ConstantAssumption
    <3>5. base <= Len(received'[t]) + 1 /\ (cPc = "done" => Len(received'[t]) = lastBlock)
      BY <1>1, <2>1, <3>1, <3>2, <3>3, <3>4 DEF SenderOk
    <3>6. QED
      BY <1>1, <1>2, <2>1, <3>3, <3>4, <3>5 DEF SenderOk
  <2>2. CASE tid # t /\ tid # NoTid
    <3>1. received'[tid] = received[tid]
      BY <1>1, <2>2 DEF TypeOK
    <3>2. QED
      BY <1>1, <1>2, <3>1 DEF SenderOk
  <2>3. CASE tid = NoTid
    BY <1>1, <1>2, <2>3 DEF SenderOk
  <2>4. QED
    BY <2>1, <2>2, <2>3
<1>5. QED
  BY <1>1, <1>2, <1>3, <1>4 DEF IInv

\* A datagram of a task keeps the sender's channel good if it is no ACK, or the ACK of a
\* block that the sender's task has received, less than MaxBehind before.
LEMMA AcksKept ==
  ASSUME IInv, UNCHANGED <<fileVars, senderVars>>, NEW p \in Packet,
         \A u \in Tids : sPc[u] # "idle" => sPc'[u] # "idle",
         tid # NoTid => /\ Len(received'[tid]) \in Nat
                        /\ Len(received[tid]) <= Len(received'[tid]),
         toSender' = toSender \/ toSender' = Sending(toSender, p),
         sPc'[p.tid] # "idle",
         p.kind = "ack" => /\ p.tid = tid
                           /\ p.num \in 1..Len(received'[tid])
                           /\ base <= p.num + MaxBehind
                           /\ Len(received[tid]) < p.num + MaxBehind
  PROVE  AcksOk'
<1>1. TypeOK /\ AcksOk
  BY DEF IInv
<1>2. tid' = tid /\ base' = base
  BY DEF senderVars
<1> DEFINE S == GoodAcks(sPc, tid, base, Len(received[tid]))
           T == GoodAcks(sPc', tid, base, Len(received'[tid]))
<1>3. toSender \in Seq(S) /\ (Wraps => Ordered(toSender, AckFollows))
  BY <1>1, AcksOkNow
<1>4. S \subseteq T
  <2>1. SUFFICES ASSUME NEW q \in S PROVE q \in T
    OBVIOUS
  <2>2. q \in Packet /\ q.tid \in Tids /\ sPc'[q.tid] # "idle"
    BY <2>1 DEF GoodAcks, Packet
  <2>3. CASE q.kind = "ack"
    <3>1. q.tid = tid /\ q.num \in 1..Len(received[tid]) /\ (Wraps => base <= q.num + MaxBehind)
      BY <2>1, <2>3 DEF GoodAcks
    <3>2. tid # NoTid /\ Len(received[tid]) \in Nat
      BY <1>1, <2>2, <3>1, ConstantAssumption DEF TypeOK
    <3>3. q.num \in 1..Len(received'[tid])
      BY <3>1, <3>2
    <3>4. QED
      BY <2>2, <3>1, <3>3 DEF GoodAcks
  <2>4. CASE q.kind # "ack"
    BY <2>2, <2>4 DEF GoodAcks
  <2>5. QED
    BY <2>3, <2>4
<1>5. p \in T
  BY DEF GoodAcks
<1>6. toSender \in Seq(T)
  BY <1>3, <1>4, SeqSuperset
<1>7. toSender' \in Seq(T)
  BY <1>5, <1>6, AppendProperties DEF Sending
<1>8. ASSUME Wraps PROVE Ordered(toSender', AckFollows)
  <2>1. CASE toSender' = toSender
    BY <1>3, <1>8, <2>1
  <2>2. CASE toSender' = Append(toSender, p)
    <3>1. ASSUME NEW i \in DOMAIN toSender PROVE <<toSender[i], p>> \in AckFollows
      <4>1. toSender[i] \in S /\ toSender[i] \in Packet
        BY <1>3, ElementOfSeq DEF GoodAcks
      <4>2. CASE toSender[i].kind = "ack" /\ p.kind = "ack"
        <5>1. toSender[i].num \in 1..Len(received[tid]) /\ Len(received[tid]) < p.num + MaxBehind
          BY <4>1, <4>2 DEF GoodAcks
        <5>2. tid # NoTid /\ Len(received[tid]) \in Nat /\ MaxBehind \in Nat /\ p.num \in Nat
          <6>1. p.tid \in Tids /\ p.num \in Nat
            BY DEF Packet
          <6>2. tid \in Tids /\ tid # NoTid
            BY <4>2, <6>1, ConstantAssumption
          <6>3. Len(received[tid]) \in Nat
            BY <1>1, <6>2 DEF TypeOK
          <6>4. QED
            BY <1>1, <6>1, <6>2, <6>3, Numbers
        <5>3. toSender[i].num < p.num + MaxBehind
          BY <5>1, <5>2
        <5>4. QED
          BY <4>1, <5>3 DEF AckFollows
      <4>3. CASE ~(toSender[i].kind = "ack" /\ p.kind = "ack")
        BY <4>1, <4>3 DEF AckFollows
      <4>4. QED
        BY <4>2, <4>3
    <3>2. QED
      BY <1>3, <1>5, <1>6, <1>8, <2>2, <3>1, OrderedAppend
  <2>3. QED
    BY <2>1, <2>2 DEF Sending
<1>9. QED
  BY <1>2, <1>7, <1>8, AcksOkNext

\* A step of a task that leaves received_data alone and sends no ACK.
LEMMA QuietStep ==
  ASSUME IInv, TypeOK', NEW t \in Tids, NEW x, UNCHANGED <<fileVars, senderVars, received>>,
         sPc' = [sPc EXCEPT ![t] = x], x # "idle", x \in Complete <=> sPc[t] \in Complete,
         \/ toServer' = toServer
         \/ toServer' = [toServer EXCEPT ![t] = <<>>],
         toSender' \in {toSender, Sending(toSender, Ready(t)), Sending(toSender, Error(t))}
  PROVE  IInv'
<1>1. TypeOK /\ TaskOk(t) /\ DataOk(t) /\ SenderOk
  BY DEF IInv
<1>2. /\ lastBlock' = lastBlock /\ tid' = tid /\ base' = base /\ received' = received
  BY DEF fileVars, senderVars
<1>3. sPc'[t] = x /\ \A u \in Tids \ {t} : sPc'[u] = sPc[u] /\ toServer'[u] = toServer[u]
  BY <1>1 DEF TypeOK
<1>4. toServer'[t] \in {toServer[t], <<>>}
  BY <1>1 DEF TypeOK
<1>5. TaskOk(t)'
  BY <1>1, <1>2, <1>3, <1>4 DEF TaskOk
<1>6. DataOk(t)'
  <2>1. /\ toServer[t] \in Seq(GoodBlocks(base, Len(received[t])))
        /\ Wraps => Ordered(toServer[t], DataFollows)
    BY <1>1, DataOkNow
  <2>2. toServer'[t] \in Seq(GoodBlocks(base, Len(received[t])))
    BY <1>4, <2>1, EmptySeq
  <2>3. Wraps => Ordered(toServer'[t], DataFollows)
    BY <1>4, <2>1 DEF Ordered
  <2>4. QED
    BY <1>2, <2>2, <2>3, DataOkNext
<1>7. AcksOk'
  <2>1. Ready(t) \in Packet /\ Error(t) \in Packet
    BY PacketTypes
  <2>2. PICK p \in {Ready(t), Error(t)} : toSender' = toSender \/ toSender' = Sending(toSender, p)
    OBVIOUS
  <2>3. p \in Packet /\ p.tid = t /\ p.kind # "ack" /\ sPc'[p.tid] # "idle"
    BY <1>3, <2>1, <2>2 DEF Ready, Error
  <2>4. \A u \in Tids : sPc[u] # "idle" => sPc'[u] # "idle"
    BY <1>3
  <2>5. tid # NoTid => /\ Len(received'[tid]) \in Nat
                       /\ Len(received[tid]) <= Len(received'[tid])
    BY <1>1, <1>2 DEF TypeOK
  <2>6. QED
    BY <2>2, <2>3, <2>4, <2>5, AcksKept
<1>8. t = tid => /\ Len(received[t]) <= Len(received'[t])
                 /\ Len(received'[t]) <= WindowEnd(base)
  BY <1>1, <1>2, ConstantAssumption DEF SenderOk, TypeOK
<1>9. QED
  BY <1>2, <1>3, <1>5, <1>6, <1>7, <1>8, ServerFrame

\* What is left on the channel of a task that takes a block from it: where numbers wrap, the
\* channel's order bounds how far the others are behind that block.
LEMMA DataTaken ==
  ASSUME IInv, NEW t \in Tids, NEW i \in Arriving(toServer[t]), NEW len \in Nat,
         len = Len(received[t]) \/ len = toServer[t][i]
  PROVE  /\ RemoveAt(toServer[t], i) \in Seq(GoodBlocks(base, len))
         /\ Wraps => Ordered(RemoveAt(toServer[t], i), DataFollows)
<1> DEFINE q == toServer[t]
           r == RemoveAt(q, i)
           S == GoodBlocks(base, Len(received[t]))
<1>1. TypeOK /\ DataOk(t) /\ (Wraps => network # "reordering")
  BY DEF IInv
<1>2. q \in Seq(S) /\ (Wraps => Ordered(q, DataFollows)) /\ i \in DOMAIN q
  BY <1>1, DataOkNow DEF Arriving
<1> HIDE DEF q, S
<1>3. /\ r \in Seq(S) /\ Len(r) = Len(q) - 1
      /\ \A j \in 1..(Len(q) - 1) : r[j] = IF j < i THEN q[j] ELSE q[j + 1]
  BY <1>2, RemoveAtElements
<1>4. Len(q) \in Nat /\ DOMAIN q = 1..Len(q) /\ DOMAIN r = 1..(Len(q) - 1)
  BY <1>2, <1>3, LenProperties
<1>5. Wraps => Ordered(r, DataFollows)
  BY <1>2, OrderedRemoveAt
<1> HIDE DEF r
<1>6. ASSUME NEW j \in DOMAIN r PROVE r[j] \in GoodBlocks(base, len)
  <2>1. r[j] \in S
    BY <1>3, ElementOfSeq
  <2>2. CASE ~Wraps \/ len = Len(received[t])
    BY <2>1, <2>2 DEF S, GoodBlocks
  <2>3. CASE Wraps /\ len = q[i]
    <3>1. i = 1
      BY <1>1, <2>3 DEF Arriving
    <3>2. r[j] = q[j + 1] /\ i < j + 1 /\ j + 1 \in DOMAIN q
      BY <1>3, <1>4, <3>1
    <3>3. <<q[i], r[j]>> \in DataFollows
      BY <1>2, <2>3, <3>2 DEF Ordered
    <3>4. r[j] > 0 => len < r[j] + clientWindow
      BY <2>3, <3>3 DEF DataFollows
    <3>5. QED
      BY <2>1, <3>4 DEF S, GoodBlocks
  <2>4. QED
    BY <2>2, <2>3 DEF q
<1>7. r \in Seq(GoodBlocks(base, len))
  BY <1>3, <1>6, SeqOver
<1>8. QED
  BY <1>5, <1>7 DEF r, q

\* An ACK of a block that is not expected.
LEMMA DuplicateBlockInv ==
  ASSUME NumbersFit, IInv, TypeOK', NEW t \in Tids, sPc[t] = "receiving",
         NEW i \in Arriving(toServer[t]), toServer[t][i] > 0, DuplicateBlock(t, toServer[t][i]),
         toServer' = [toServer EXCEPT ![t] = RemoveAt(@, i)],
         UNCHANGED <<fileVars, senderVars>>
  PROVE  IInv'
<1> DEFINE n == toServer[t][i]
           k == Len(received[t])
<1>1. TypeOK /\ TaskOk(t) /\ SenderOk
  BY DEF IInv
<1>2. /\ lastBlock' = lastBlock /\ tid' = tid /\ base' = base
      /\ received' = received /\ sPc' = sPc /\ toSender' = Sending(toSender, Ack(t, n))
  BY DEF fileVars, senderVars, DuplicateBlock
<1>3. /\ t = tid /\ n \in 1..lastBlock /\ k \in Nat /\ n <= k /\ k + 1 <= n + MaxBehind
  <2>1. i \in DOMAIN toServer[t] /\ ~IsExpected(t, n) /\ IsDuplicate(t, n)
    BY DEF Arriving, DuplicateBlock
  <2>2. QED
    BY <2>1, BlockArrives
<1>4. /\ toServer'[t] = RemoveAt(toServer[t], i)
      /\ \A u \in Tids \ {t} : toServer'[u] = toServer[u]
  BY <1>1 DEF TypeOK
<1>5. TaskOk(t)'
  BY <1>1, <1>2, <1>3 DEF TaskOk
<1>6. DataOk(t)'
  <2>1. /\ RemoveAt(toServer[t], i) \in Seq(GoodBlocks(base, k))
        /\ Wraps => Ordered(RemoveAt(toServer[t], i), DataFollows)
    BY <1>3, DataTaken
  <2>2. QED
    BY <1>2, <1>4, <2>1, DataOkNext
<1>7. base <= k + 1 /\ k <= WindowEnd(base)
  BY <1>1, <1>3, ConstantAssumption DEF SenderOk
<1> HIDE DEF n
<1>8. AcksOk'
  <2>1. MaxBehind \in Nat /\ base \in Nat /\ lastBlock \in Nat
    BY <1>1, Numbers
  <2>2. n \in Nat /\ Ack(t, n) \in Packet
    BY <1>3, <2>1, PacketTypes
  <2>3. Ack(t, n).tid = tid /\ Ack(t, n).num = n /\ Ack(t, n).kind = "ack"
    BY <1>3 DEF Ack
  <2>4. n \in 1..k /\ base <= n + MaxBehind /\ k < n + MaxBehind
    BY <1>3, <1>7, <2>1
  <2>5. QED
    BY <1>2, <1>3, <2>2, <2>3, <2>4, AcksKept
<1>9. QED
  BY <1>2, <1>3, <1>4, <1>5, <1>6, <1>7, <1>8, ServerFrame

\* The expected block enters received_data.
LEMMA NextBlockInv ==
  ASSUME NumbersFit, IInv, TypeOK', NEW t \in Tids, sPc[t] = "receiving",
         NEW i \in Arriving(toServer[t]), NEW n, n = toServer[t][i], n > 0, IsExpected(t, n),
         received' = [received EXCEPT ![t] = Append(@, n)],
         sPc' = [sPc EXCEPT ![t] = IF IsFinalBlock(n) THEN "writing" ELSE @],
         toSender' = IF should_ack(n) THEN Sending(toSender, Ack(t, n)) ELSE toSender,
         toServer' = [toServer EXCEPT ![t] =
                        IF sPc'[t] = "receiving" THEN RemoveAt(@, i) ELSE <<>>],
         UNCHANGED <<fileVars, senderVars>>
  PROVE  IInv'
<1> DEFINE k == Len(received[t])
<1>1. TypeOK /\ TaskOk(t) /\ SenderOk
  BY DEF IInv
<1>2. lastBlock' = lastBlock /\ tid' = tid /\ base' = base
  BY DEF fileVars, senderVars
<1>3. /\ t = tid /\ n \in 1..lastBlock /\ n <= WindowEnd(base) /\ k \in Nat /\ k < lastBlock
      /\ n = k + 1
  BY BlockArrives DEF Arriving
<1>4. lastBlock \in Nat \ {0} /\ MaxBehind \in Nat \ {0} /\ base \in Nat \ {0}
  BY <1>1, Numbers
<1>5. /\ received[t] \in Seq(Nat) /\ received'[t] = Append(received[t], n)
      /\ sPc'[t] = IF n = lastBlock THEN "writing" ELSE "receiving"
      /\ toServer'[t] = IF n = lastBlock THEN <<>> ELSE RemoveAt(toServer[t], i)
      /\ \A u \in Tids \ {t} : /\ received'[u] = received[u] /\ toServer'[u] = toServer[u]
                                /\ sPc'[u] = sPc[u]
  BY <1>1 DEF TypeOK, IsFinalBlock
<1>6. /\ Len(received'[t]) = n /\ DOMAIN received'[t] = 1..n
      /\ \A j \in 1..k : received'[t][j] = received[t][j]
      /\ received'[t][n] = n /\ DOMAIN received[t] = 1..k
  BY <1>3, <1>5, AppendProperties, LenProperties
<1>7. TaskOk(t)'
  <2>1. \A j \in DOMAIN received'[t] : received'[t][j] = j
    BY <1>1, <1>3, <1>6 DEF TaskOk
  <2>2. sPc'[t] # "idle" /\ (sPc'[t] \in Complete <=> n = lastBlock)
    BY <1>5 DEF Complete
  <2>3. QED
    BY <1>2, <1>3, <1>4, <1>6, <2>1, <2>2 DEF TaskOk
<1>8. DataOk(t)'
  <2>1. /\ RemoveAt(toServer[t], i) \in Seq(GoodBlocks(base, n))
        /\ Wraps => Ordered(RemoveAt(toServer[t], i), DataFollows)
    BY <1>3, <1>4, DataTaken
  <2>2. <<>> \in Seq(GoodBlocks(base, n)) /\ Ordered(<<>>, DataFollows)
    BY EmptySeq DEF Ordered
  <2>3. toServer'[t] \in Seq(GoodBlocks(base, n)) /\ (Wraps => Ordered(toServer'[t], DataFollows))
    BY <1>5, <2>1, <2>2
  <2>4. QED
    BY <1>2, <1>6, <2>3, DataOkNext
<1>9. base <= k + 1
  BY <1>1, <1>3, ConstantAssumption DEF SenderOk
<1>10. AcksOk'
  <2>1. n \in Nat /\ Ack(t, n) \in Packet
    BY <1>3, <1>4, PacketTypes
  <2>2. Ack(t, n).tid = tid /\ Ack(t, n).num = n /\ Ack(t, n).kind = "ack"
    BY <1>3 DEF Ack
  <2>3. n \in 1..Len(received'[tid]) /\ base <= n + MaxBehind /\ Len(received[tid]) < n + MaxBehind
    BY <1>3, <1>4, <1>6, <1>9
  <2>4. Len(received'[tid]) \in Nat /\ Len(received[tid]) <= Len(received'[tid])
    BY <1>3, <1>4, <1>6
  <2>5. \A u \in Tids : sPc[u] # "idle" => sPc'[u] # "idle"
    BY <1>5
  <2>6. sPc'[Ack(t, n).tid] # "idle"
    BY <1>3, <1>5, <2>2
  <2>7. toSender' = toSender \/ toSender' = Sending(toSender, Ack(t, n))
    OBVIOUS
  <2>8. QED
    BY <2>1, <2>2, <2>3, <2>4, <2>5, <2>6, <2>7, AcksKept
<1>11. Len(received[t]) <= Len(received'[t]) /\ Len(received'[t]) <= WindowEnd(base)
  BY <1>3, <1>4, <1>6
<1>12. QED
  BY <1>5, <1>7, <1>8, <1>10, <1>11, ServerFrame

\* A step of a task preserves the invariant.
LEMMA ServerInv ==
  ASSUME NumbersFit, IInv, NEW t \in Tids, Server(t) PROVE IInv'
<1>1. TypeOK' /\ TypeOK
  BY ServerType DEF IInv
<1>2. CASE Accept(t)
  <2>1. PICK x \in {"refused", "receiving"} : sPc' = [sPc EXCEPT ![t] = x]
    BY <1>2 DEF Accept
  <2>2. QED
    BY <1>1, <1>2, <2>1, QuietStep DEF Accept, Complete
<1>3. CASE RecvData(t)
  <2>1. PICK i \in Arriving(toServer[t]) :
          /\ \/ toServer[t][i] = 0 /\ RecvError(t)
             \/ /\ toServer[t][i] > 0
                /\ \/ NextBlock(t, toServer[t][i]) \/ DuplicateBlock(t, toServer[t][i])
                   \/ OutOfOrder(t, toServer[t][i]) \/ ReplyFails(t, toServer[t][i])
          /\ toServer' = [toServer EXCEPT ![t] =
                            IF sPc'[t] = "receiving" THEN RemoveAt(@, i) ELSE <<>>]
    BY <1>3 DEF RecvData
  <2>2. sPc[t] = "receiving" /\ UNCHANGED <<fileVars, senderVars>>
    BY <1>3 DEF RecvData
  <2> DEFINE n == toServer[t][i]
  <2>3. CASE /\ sPc' = [sPc EXCEPT ![t] = "aborted"] /\ UNCHANGED received
             /\ toSender' \in {toSender, Sending(toSender, Error(t))}
    <3>1. toServer' = [toServer EXCEPT ![t] = <<>>]
      BY <1>1, <2>1, <2>3 DEF TypeOK
    <3>2. "aborted" \in Complete <=> sPc[t] \in Complete
      BY <2>2 DEF Complete
    <3>3. QED
      BY <1>1, <2>2, <2>3, <3>1, <3>2, QuietStep
  <2>4. CASE n > 0 /\ DuplicateBlock(t, n)
    <3>1. toServer' = [toServer EXCEPT ![t] = RemoveAt(@, i)]
      BY <2>1, <2>2, <2>4 DEF DuplicateBlock
    <3>2. QED
      BY <1>1, <2>2, <2>4, <3>1, DuplicateBlockInv
  <2>5. CASE n > 0 /\ NextBlock(t, n) /\ ~TooLarge(t)
    <3>1. /\ IsExpected(t, n)
          /\ received' = [received EXCEPT ![t] = Append(@, n)]
          /\ sPc' = [sPc EXCEPT ![t] = IF IsFinalBlock(n) THEN "writing" ELSE @]
          /\ toSender' = IF should_ack(n) THEN Sending(toSender, Ack(t, n)) ELSE toSender
      BY <2>5 DEF NextBlock
    <3>2. QED
      BY <1>1, <2>1, <2>2, <2>5, <3>1, NextBlockInv
  <2>6. QED
    BY <2>1, <2>3, <2>4, <2>5 DEF NextBlock, RecvError, OutOfOrder, ReplyFails
<1>4. CASE DataTimeout(t)
  <2>1. "aborted" \in Complete <=> sPc[t] \in Complete
    BY <1>4 DEF DataTimeout, Complete
  <2>2. QED
    BY <1>1, <1>4, <2>1, QuietStep DEF DataTimeout, TimedOut
<1>5. CASE Store(t)
  <2>1. PICK x \in {"stored", "unwritten"} : sPc' = [sPc EXCEPT ![t] = x]
    BY <1>5 DEF Store
  <2>2. x \in Complete <=> sPc[t] \in Complete
    BY <1>5 DEF Store, Complete
  <2>3. QED
    BY <1>1, <1>5, <2>1, <2>2, QuietStep DEF Store
<1>6. QED
  BY <1>2, <1>3, <1>4, <1>5 DEF Server

---------------------------------------------------------------------------
(* The sender's steps. *)

\* What a step of the sender has to establish.
LEMMA SenderFrame ==
  ASSUME IInv, TypeOK', UNCHANGED <<fileVars, taskVars>>,
         tid' = tid \/ (tid = NoTid /\ sPc[tid'] # "idle"),
         \A u \in Tids : /\ toServer'[u] \in Seq(GoodBlocks(base', Len(received[u])))
                         /\ Wraps => Ordered(toServer'[u], DataFollows)
                         /\ u # tid' => toServer'[u] = <<>>,
         SenderOk', AcksOk'
  PROVE  IInv'
<1>1. /\ (network = "reordering" => ~Wraps) /\ \A u \in Tids : TaskOk(u)
  BY DEF IInv
<1>2. /\ lastBlock' = lastBlock /\ network' = network /\ Wraps' = Wraps
      /\ sPc' = sPc /\ received' = received
  BY DEF fileVars, taskVars, Wraps
<1>3. ASSUME NEW u \in Tids PROVE TaskOk(u)' /\ DataOk(u)'
  <2>1. DataOk(u)'
    BY <1>2, DataOkNext
  <2>2. TaskOk(u)'
    <3>1. TaskOk(u) /\ (u # tid' => u # tid)
      BY <1>1, ConstantAssumption
    <3>2. QED
      BY <1>2, <3>1 DEF TaskOk
  <2>3. QED
    BY <2>1, <2>2
<1>4. QED
  BY <1>1, <1>2, <1>3 DEF IInv

\* A window may be sent after every block that is on its way, if it starts at or after the
\* sender's present one.
LEMMA SendWindowOk ==
  ASSUME IInv, NEW t \in Tids, NEW b \in base..lastBlock, SendWindow(t, b),
         Len(received[t]) <= WindowEnd(base)
  PROVE  \A u \in Tids : /\ toServer'[u] \in Seq(GoodBlocks(b, Len(received[u])))
                         /\ Wraps => Ordered(toServer'[u], DataFollows)
                         /\ u # t => toServer'[u] = toServer[u]
<1>1. TypeOK /\ \A u \in Tids : DataOk(u)
  BY DEF IInv
<1>2. /\ lastBlock \in Nat \ {0} /\ clientWindow \in Nat \ {0} /\ base \in Nat \ {0}
      /\ b \in Nat \ {0}
  BY <1>1, Numbers
<1>3. /\ WindowEnd(base) \in Nat /\ WindowEnd(base) < base + clientWindow
      /\ WindowEnd(base) <= WindowEnd(b) /\ WindowEnd(b) \in Nat /\ b <= WindowEnd(b)
      /\ WindowEnd(b) <= lastBlock
  BY <1>1, <1>2, WindowEndRange
<1>4. ASSUME NEW u \in Tids
      PROVE  /\ toServer[u] \in Seq(GoodBlocks(b, Len(received[u])))
             /\ Wraps => Ordered(toServer[u], DataFollows)
             /\ \A i \in DOMAIN toServer[u] : toServer[u][i] \in 0..WindowEnd(base)
  <2>1. /\ toServer[u] \in Seq(GoodBlocks(base, Len(received[u])))
        /\ Wraps => Ordered(toServer[u], DataFollows)
    BY <1>1, DataOkNow
  <2>2. GoodBlocks(base, Len(received[u])) \subseteq GoodBlocks(b, Len(received[u]))
    BY <1>2, <1>3 DEF GoodBlocks
  <2>3. toServer[u] \in Seq(GoodBlocks(b, Len(received[u])))
    BY <2>1, <2>2, SeqSuperset
  <2>4. ASSUME NEW i \in DOMAIN toServer[u] PROVE toServer[u][i] \in 0..WindowEnd(base)
    <3>1. toServer[u][i] \in GoodBlocks(base, Len(received[u]))
      BY <2>1, ElementOfSeq
    <3>2. QED
      BY <1>2, <1>3, <3>1 DEF GoodBlocks
  <2>5. QED
    BY <2>1, <2>3, <2>4
<1> DEFINE m == WindowEnd(b) - b + 1
           w == [i \in 1..m |-> b + i - 1]
           S == GoodBlocks(b, Len(received[t]))
<1>5. m \in Nat
  BY <1>2, <1>3
<1>6. Len(received[t]) \in Nat
  BY <1>1 DEF TypeOK
<1>7. ASSUME NEW i \in 1..m
      PROVE  b + i - 1 \in S /\ WindowEnd(base) < (b + i - 1) + clientWindow
             /\ b + i - 1 \in Nat \ {0}
  <2>1. b + i - 1 \in b..WindowEnd(b)
    BY <1>2, <1>3
  <2>2. /\ b + i - 1 \in 0..lastBlock /\ b + i - 1 <= WindowEnd(b)
        /\ WindowEnd(base) < (b + i - 1) + clientWindow
        /\ Len(received[t]) < (b + i - 1) + clientWindow
    BY <1>2, <1>3, <1>6, <2>1
  <2>3. QED
    BY <1>2, <1>3, <2>1, <2>2 DEF GoodBlocks
<1>8. w \in Seq(S) /\ Len(w) = m /\ DOMAIN w = 1..m /\ \A i \in 1..m : w[i] = b + i - 1
  BY <1>5, <1>7
<1>9. Ordered(w, DataFollows)
  <2>1. SUFFICES ASSUME NEW i \in 1..m, NEW j \in 1..m, i < j
                 PROVE  <<b + i - 1, b + j - 1>> \in DataFollows
    BY <1>8 DEF Ordered
  <2>2. b + i - 1 \in Nat /\ b + j - 1 \in Nat /\ b + i - 1 < (b + j - 1) + clientWindow
    BY <1>2, <1>5, <2>1
  <2>3. QED
    BY <2>2 DEF DataFollows
<1> HIDE DEF w, m, S
<1>10. toServer[t] \o w \in Seq(S)
  BY <1>4, <1>8, ConcatProperties DEF S
<1>11. ASSUME Wraps PROVE Ordered(toServer[t] \o w, DataFollows)
  <2>1. ASSUME NEW i \in DOMAIN toServer[t], NEW j \in DOMAIN w
        PROVE  <<toServer[t][i], w[j]>> \in DataFollows
    <3>1. toServer[t][i] \in 0..WindowEnd(base)
      BY <1>4
    <3>2. w[j] \in Nat \ {0} /\ WindowEnd(base) < w[j] + clientWindow
      BY <1>7, <1>8
    <3>3. toServer[t][i] \in Nat /\ toServer[t][i] < w[j] + clientWindow
      BY <1>2, <1>3, <3>1, <3>2
    <3>4. QED
      BY <3>2, <3>3 DEF DataFollows
  <2>2. toServer[t] \in Seq(S) /\ Ordered(toServer[t], DataFollows)
    BY <1>4, <1>11 DEF S
  <2>3. QED
    BY <1>8, <1>9, <2>1, <2>2, OrderedConcat
<1>12. toServer' = toServer \/ toServer' = [toServer EXCEPT ![t] = @ \o w]
  BY DEF SendWindow, w, m
<1>13. ASSUME NEW u \in Tids
       PROVE  /\ toServer'[u] \in Seq(GoodBlocks(b, Len(received[u])))
              /\ Wraps => Ordered(toServer'[u], DataFollows)
              /\ u # t => toServer'[u] = toServer[u]
  <2>1. CASE toServer'[u] = toServer[u]
    BY <1>4, <2>1
  <2>2. CASE u = t /\ toServer'[t] = toServer[t] \o w
    BY <1>10, <1>11, <2>2 DEF S
  <2>3. QED
    BY <1>1, <1>12, <2>1, <2>2 DEF TypeOK
<1>14. QED
  BY <1>13

\* What is left on the sender's channel when it takes a datagram from it, after which it
\* talks to task u and its window starts at b.
LEMMA AckTaken ==
  ASSUME IInv, NEW j \in Arriving(toSender), NEW u, u = tid \/ tid = NoTid, NEW b \in Nat,
         b = base \/ (toSender[j].kind = "ack" /\ b = toSender[j].num + 1)
  PROVE  /\ RemoveAt(toSender, j) \in Seq(GoodAcks(sPc, u, b, Len(received[u])))
         /\ Wraps => Ordered(RemoveAt(toSender, j), AckFollows)
<1> DEFINE q == toSender
           r == RemoveAt(q, j)
           S == GoodAcks(sPc, tid, base, Len(received[tid]))
           T == GoodAcks(sPc, u, b, Len(received[u]))
<1>1. TypeOK /\ AcksOk /\ (Wraps => network # "reordering")
  BY DEF IInv
<1>2. q \in Seq(S) /\ (Wraps => Ordered(q, AckFollows)) /\ j \in DOMAIN q
  BY <1>1, AcksOkNow DEF Arriving
<1> HIDE DEF S
<1>3. /\ r \in Seq(S) /\ Len(r) = Len(q) - 1
      /\ \A i \in 1..(Len(q) - 1) : r[i] = IF i < j THEN q[i] ELSE q[i + 1]
  BY <1>2, RemoveAtElements
<1>4. Len(q) \in Nat /\ DOMAIN q = 1..Len(q) /\ DOMAIN r = 1..(Len(q) - 1)
  BY <1>2, <1>3, LenProperties
<1>5. Wraps => Ordered(r, AckFollows)
  BY <1>2, OrderedRemoveAt
<1> HIDE DEF r, T
<1>6. ASSUME NEW i \in DOMAIN r PROVE r[i] \in T
  <2>1. r[i] \in S
    BY <1>3, ElementOfSeq
  <2>2. r[i] \in Packet /\ sPc[r[i].tid] # "idle"
    BY <2>1 DEF S, GoodAcks
  <2>3. CASE r[i].kind # "ack"
    BY <2>2, <2>3 DEF T, GoodAcks
  <2>4. CASE r[i].kind = "ack"
    <3>1. /\ r[i].tid = tid /\ r[i].num \in 1..Len(received[tid])
          /\ Wraps => base <= r[i].num + MaxBehind
      BY <2>1, <2>4 DEF S, GoodAcks
    <3>2. u = tid
      BY <2>2, <3>1, ConstantAssumption DEF Packet
    <3>3. CASE b = base \/ ~Wraps
      BY <2>2, <3>1, <3>2, <3>3 DEF T, GoodAcks
    <3>4. CASE Wraps /\ q[j].kind = "ack" /\ b = q[j].num + 1
      <4>1. j = 1
        BY <1>1, <3>4 DEF Arriving
      <4>2. r[i] = q[i + 1] /\ j < i + 1 /\ i + 1 \in DOMAIN q
        BY <1>3, <1>4, <4>1
      <4>3. <<q[j], r[i]>> \in AckFollows
        BY <1>2, <3>4, <4>2 DEF Ordered
      <4>4. q[j].num < r[i].num + MaxBehind
        BY <2>4, <3>4, <4>3 DEF AckFollows
      <4>5. q[j] \in Packet /\ q[j].num \in Nat /\ r[i].num \in Nat /\ MaxBehind \in Nat
        BY <1>1, <2>2, <4>3, Numbers DEF AckFollows, Packet
      <4>6. b <= r[i].num + MaxBehind
        BY <3>4, <4>4, <4>5
      <4>7. QED
        BY <2>2, <3>1, <3>2, <4>6 DEF T, GoodAcks
    <3>5. QED
      BY <3>3, <3>4
  <2>5. QED
    BY <2>3, <2>4
<1>7. r \in Seq(T)
  BY <1>3, <1>6, SeqOver
<1>8. QED
  BY <1>5, <1>7 DEF r, T

\* The task that the sender talks to after a step, if it talks to one.
LEMMA SendersTask ==
  ASSUME IInv, NEW t \in Tids, t = tid \/ tid = NoTid
  PROVE  /\ Len(received[t]) \in Nat /\ Len(received[t]) <= WindowEnd(base)
         /\ base <= Len(received[t]) + 1
<1>1. TypeOK /\ TaskOk(t) /\ SenderOk
  BY DEF IInv
<1>2. CASE t = tid
  BY <1>1, <1>2, ConstantAssumption DEF SenderOk, TypeOK
<1>3. CASE t # tid /\ tid = NoTid
  <2>1. Len(received[t]) = 0 /\ base = 1
    BY <1>1, <1>3 DEF TaskOk, SenderOk
  <2>2. WindowEnd(base) \in Nat
    BY <1>1, <2>1, WindowEndRange
  <2>3. QED
    BY <2>1, <2>2
<1>4. QED
  BY <1>2, <1>3

\* A step of the sender that talks to a task: it moves its window to a block that is next to
\* what that task has received or before it, and sends it, or nothing.
LEMMA SenderMoves ==
  ASSUME IInv, TypeOK', UNCHANGED <<fileVars, taskVars>>,
         tid' \in Tids, tid' = tid \/ (tid = NoTid /\ sPc[tid'] # "idle"),
         base' \in base..lastBlock, base' <= Len(received[tid']) + 1,
         (toServer' = toServer /\ base' = base) \/ SendWindow(tid', base'),
         cPc' # "asking", cPc' = "done" => Len(received[tid']) = lastBlock,
         AcksOk'
  PROVE  IInv'
<1>1. TypeOK /\ SenderOk /\ \A u \in Tids : TaskOk(u) /\ DataOk(u)
  BY DEF IInv
<1>2. /\ Len(received[tid']) \in Nat /\ Len(received[tid']) <= WindowEnd(base)
      /\ base <= Len(received[tid']) + 1
  BY SendersTask
<1>3. ASSUME NEW u \in Tids
      PROVE  /\ toServer'[u] \in Seq(GoodBlocks(base', Len(received[u])))
             /\ Wraps => Ordered(toServer'[u], DataFollows)
             /\ u # tid' => toServer'[u] = <<>>
  <2>1. u # tid' => toServer[u] = <<>>
    <3>1. TaskOk(u) /\ (u # tid' => u # tid)
      BY <1>1, ConstantAssumption
    <3>2. QED
      BY <3>1 DEF TaskOk
  <2>2. CASE toServer' = toServer /\ base' = base
    BY <1>1, <2>1, <2>2, DataOkNow
  <2>3. CASE SendWindow(tid', base')
    BY <1>2, <2>1, <2>3, SendWindowOk
  <2>4. QED
    BY <2>2, <2>3
<1>4. SenderOk'
  <2>1. /\ lastBlock' = lastBlock /\ clientWindow' = clientWindow /\ received' = received
        /\ WindowEnd(base)' = WindowEnd(base')
    BY DEF fileVars, taskVars, WindowEnd
  <2>2. base \in Nat \ {0} /\ lastBlock \in Nat \ {0}
    BY <1>1, Numbers
  <2>3. WindowEnd(base) <= WindowEnd(base') /\ WindowEnd(base) \in Nat /\ WindowEnd(base') \in Nat
    <3>1. base' \in Nat \ {0} /\ base <= base'
      BY <2>2
    <3>2. QED
      BY <1>1, <2>2, <3>1, WindowEndRange
  <2>4. Len(received[tid']) <= WindowEnd(base') /\ base' <= lastBlock
    BY <1>2, <2>2, <2>3
  <2>5. tid' # NoTid
    BY ConstantAssumption
  <2>6. QED
    BY <2>1, <2>4, <2>5 DEF SenderOk
<1>5. QED
  BY <1>3, <1>4, SenderFrame

\* A datagram taken from the sender's channel.
LEMMA SenderRecvInv ==
  ASSUME NumbersFit, IInv, SenderRecv PROVE IInv'
<1>1. TypeOK /\ TypeOK' /\ SenderOk /\ AcksOk
  BY SenderType DEF Sender, IInv
<1>2. PICK j \in Arriving(toSender) :
        /\ tid' = IF tid = NoTid THEN toSender[j].tid ELSE tid
        /\ \/ toSender[j].tid # tid' /\ UNCHANGED <<cPc, base, tries, toServer>>
           \/ toSender[j].tid = tid' /\ toSender[j].kind = "ready" /\ RecvReady
           \/ toSender[j].tid = tid' /\ toSender[j].kind = "ack" /\ RecvAck(toSender[j].num)
           \/ /\ toSender[j].tid = tid' /\ toSender[j].kind = "error"
              /\ cPc' = "failed"
              /\ UNCHANGED <<base, tries, toServer>>
        /\ toSender' = IF cPc' \in Open THEN RemoveAt(toSender, j) ELSE <<>>
  BY DEF SenderRecv
<1>3. UNCHANGED <<fileVars, taskVars>> /\ cPc \in {"asking", "sending"}
  BY DEF SenderRecv, Open
<1> DEFINE p == toSender[j]
           k == p.num
<1>4. /\ j \in DOMAIN toSender /\ p \in Packet /\ sPc[p.tid] # "idle"
      /\ p.kind = "ack" => p.tid = tid /\ k \in 1..Len(received[tid])
  BY <1>1, AcksOkNow, ElementOfSeq DEF GoodAcks, Arriving
<1>5. p.tid \in Tids /\ k \in Nat
  BY <1>4 DEF Packet
<1> HIDE DEF p
<1>6. /\ tid' \in Tids /\ (tid' = tid \/ (tid = NoTid /\ sPc[tid'] # "idle"))
      /\ tid' = tid \/ tid = NoTid
  BY <1>1, <1>2, <1>4, <1>5 DEF TypeOK, p
<1>7. /\ Len(received[tid']) \in Nat /\ Len(received[tid']) <= WindowEnd(base)
      /\ base <= Len(received[tid']) + 1
  BY <1>6, SendersTask
<1>8. base \in Nat \ {0} /\ lastBlock \in Nat \ {0} /\ base <= lastBlock
  BY <1>1, Numbers DEF SenderOk
<1>9. ASSUME base' \in Nat, base' = base \/ (p.kind = "ack" /\ base' = k + 1)
      PROVE  AcksOk'
  <2>1. sPc' = sPc /\ received' = received
    BY <1>3 DEF taskVars
  <2> DEFINE T == GoodAcks(sPc, tid', base', Len(received[tid']))
  <2>2. RemoveAt(toSender, j) \in Seq(T) /\ (Wraps => Ordered(RemoveAt(toSender, j), AckFollows))
    BY <1>6, <1>9, AckTaken DEF p
  <2>3. <<>> \in Seq(T) /\ Ordered(<<>>, AckFollows)
    BY EmptySeq DEF Ordered
  <2>4. toSender' \in Seq(T) /\ (Wraps => Ordered(toSender', AckFollows))
    BY <1>2, <2>2, <2>3
  <2>5. QED
    BY <1>3, <2>1, <2>4, AcksOkNext
<1>10. CASE /\ UNCHANGED base
            /\ toServer' = toServer \/ SendWindow(tid', base)
            /\ cPc' \in {"sending", "failed"}
  BY <1>1, <1>3, <1>6, <1>7, <1>8, <1>9, <1>10, SenderMoves
<1>11. CASE cPc = "asking"
  <2>1. tid = NoTid /\ base = 1
    BY <1>1, <1>11 DEF SenderOk
  <2>2. p.tid = tid' /\ p.kind # "ack"
    BY <1>2, <1>4, <1>5, <2>1, ConstantAssumption DEF p
  <2>3. CASE p.kind = "ready" /\ RecvReady
    BY <1>10, <1>11, <2>1, <2>3 DEF RecvReady
  <2>4. CASE cPc' = "failed" /\ UNCHANGED <<base, tries, toServer>>
    BY <1>10, <2>4
  <2>5. QED
    BY <1>2, <2>2, <2>3, <2>4 DEF p
<1>12. CASE cPc = "sending"
  <2>1. tid \in Tids /\ tid' = tid
    BY <1>1, <1>2, <1>12 DEF SenderOk, TypeOK
  <2>2. CASE UNCHANGED <<cPc, base, tries, toServer>>
    BY <1>10, <1>12, <2>2
  <2>3. CASE cPc' = "failed" /\ UNCHANGED <<base, tries, toServer>>
    BY <1>10, <2>3
  <2>4. CASE p.kind = "ready" /\ RecvReady
    BY <1>12, <2>2, <2>4 DEF RecvReady
  <2>5. CASE p.kind = "ack" /\ RecvAck(k)
    <3>1. k \in 1..Len(received[tid])
      BY <1>4, <2>5
    <3>2. \A i \in base..WindowEnd(base) : BlockNum(i) = BlockNum(k) => i = k
      BY <1>4, <2>5, AckArrives DEF p
    <3>3. Len(received[tid]) <= lastBlock
      BY <1>7, <1>8, <2>1, WindowEndRange, <1>1
    <3>4. CASE /\ lastBlock \in base..WindowEnd(base) /\ BlockNum(lastBlock) = BlockNum(k)
               /\ cPc' = "done" /\ UNCHANGED <<base, tries, toServer>>
      <4>1. lastBlock = k
        BY <3>2, <3>4
      <4>2. Len(received[tid']) = lastBlock
        BY <1>7, <1>8, <2>1, <3>1, <3>3, <4>1
      <4>3. AcksOk'
        BY <1>8, <1>9, <3>4
      <4>4. base' \in base..lastBlock /\ base' <= Len(received[tid']) + 1
        BY <1>7, <1>8, <3>4
      <4>5. QED
        BY <1>1, <1>3, <1>6, <3>4, <4>2, <4>3, <4>4, SenderMoves
    <3>5. CASE \E i \in base..WindowEnd(base) :
                 /\ BlockNum(i) = BlockNum(k) /\ i # lastBlock
                 /\ base' = i + 1 /\ SendWindow(tid', i + 1) /\ UNCHANGED cPc
      <4>1. /\ k \in base..WindowEnd(base) /\ k # lastBlock
            /\ base' = k + 1 /\ SendWindow(tid', k + 1) /\ UNCHANGED cPc
        BY <3>2, <3>5
      <4>2. base' \in Nat /\ base' \in base..lastBlock /\ base' <= Len(received[tid']) + 1
        BY <1>5, <1>7, <1>8, <2>1, <3>1, <3>3, <4>1
      <4>3. AcksOk'
        BY <1>9, <2>5, <4>1, <4>2
      <4>4. QED
        BY <1>1, <1>3, <1>6, <1>12, <4>1, <4>2, <4>3, SenderMoves
    <3>6. QED
      BY <1>12, <2>2, <2>5, <3>4, <3>5 DEF RecvAck
  <2>6. QED
    BY <1>2, <2>2, <2>3, <2>4, <2>5 DEF p
<1>13. QED
  BY <1>3, <1>11, <1>12

\* The sender repeats its window, or gives up.
LEMMA SenderTimeoutInv ==
  ASSUME IInv, SenderTimeout PROVE IInv'
<1>1. TypeOK /\ TypeOK' /\ SenderOk /\ AcksOk /\ \A u \in Tids : TaskOk(u) /\ DataOk(u)
  BY SenderType DEF Sender, IInv
<1>2. UNCHANGED <<fileVars, taskVars, tid, base>> /\ cPc \in {"asking", "sending"}
  BY DEF SenderTimeout, Open
<1>3. base \in Nat \ {0} /\ lastBlock \in Nat \ {0} /\ base <= lastBlock
  BY <1>1, Numbers DEF SenderOk
<1>4. AcksOk'
  <2> DEFINE T == GoodAcks(sPc, tid, base, Len(received[tid]))
  <2>1. toSender \in Seq(T) /\ (Wraps => Ordered(toSender, AckFollows))
    BY <1>1, AcksOkNow
  <2>2. toSender' = toSender \/ toSender' = <<>>
    BY DEF SenderTimeout
  <2>3. toSender' \in Seq(T) /\ (Wraps => Ordered(toSender', AckFollows))
    <3>1. <<>> \in Seq(T) /\ Ordered(<<>>, AckFollows)
      BY EmptySeq DEF Ordered
    <3>2. QED
      BY <2>1, <2>2, <3>1
  <2>4. QED
    BY <1>2, <2>3, AcksOkNext DEF taskVars
<1>5. CASE cPc = "sending" /\ cPc' = cPc /\ SendWindow(tid, base)
  <2>1. tid \in Tids
    BY <1>1, <1>5 DEF SenderOk, TypeOK
  <2>2. base <= Len(received[tid]) + 1
    BY <2>1, SendersTask
  <2>3. QED
    BY <1>1, <1>2, <1>3, <1>4, <1>5, <2>1, <2>2, SenderMoves
<1>6. CASE /\ cPc' = "failed"
           /\ \/ UNCHANGED toServer
              \/ tid # NoTid /\ toServer' = [toServer EXCEPT ![tid] = Append(@, 0)]
  <2>1. ASSUME NEW u \in Tids
        PROVE  /\ toServer'[u] \in Seq(GoodBlocks(base', Len(received[u])))
               /\ Wraps => Ordered(toServer'[u], DataFollows)
               /\ u # tid' => toServer'[u] = <<>>
    <3> DEFINE S == GoodBlocks(base, Len(received[u]))
    <3>1. /\ toServer[u] \in Seq(S) /\ (Wraps => Ordered(toServer[u], DataFollows))
          /\ u # tid => toServer[u] = <<>>
      BY <1>1, DataOkNow DEF TaskOk
    <3>2. CASE toServer'[u] = toServer[u]
      BY <1>2, <3>1, <3>2
    <3>3. CASE u = tid /\ toServer'[u] = Append(toServer[u], 0)
      <4>1. 0 \in S
        BY <1>3 DEF GoodBlocks
      <4>2. ASSUME NEW i \in DOMAIN toServer[u] PROVE <<toServer[u][i], 0>> \in DataFollows
        <5>1. toServer[u] \in Seq(Nat)
          BY <1>1 DEF TypeOK
        <5>2. toServer[u][i] \in Nat
          BY <5>1, ElementOfSeq
        <5>3. QED
          BY <5>2 DEF DataFollows
      <4>3. Wraps => Ordered(Append(toServer[u], 0), DataFollows)
        BY <3>1, <4>1, <4>2, OrderedAppend
      <4>4. Append(toServer[u], 0) \in Seq(S)
        BY <3>1, <4>1, AppendProperties
      <4>5. QED
        BY <1>2, <3>3, <4>3, <4>4
    <3>4. QED
      BY <1>1, <1>6, <3>2, <3>3 DEF TypeOK
  <2>2. SenderOk'
    <3>1. WindowEnd(base)' = WindowEnd(base) /\ lastBlock' = lastBlock /\ received' = received
      BY <1>2 DEF fileVars, taskVars, WindowEnd
    <3>2. QED
      BY <1>1, <1>2, <1>6, <3>1 DEF SenderOk
  <2>3. QED
    BY <1>1, <1>2, <1>4, <2>1, <2>2, SenderFrame
<1>7. QED
  BY <1>5, <1>6 DEF SenderTimeout

---------------------------------------------------------------------------
(* The network. *)

\* A step of the network keeps what may be on a channel, and its order.
LEMMA NetworkFrame ==
  ASSUME IInv, TypeOK', UNCHANGED <<fileVars, taskVars, senderVars>>,
         /\ toSender' \in Seq(GoodAcks(sPc, tid, base, Len(received[tid])))
         /\ Wraps => Ordered(toSender', AckFollows),
         \A u \in Tids : /\ toServer'[u] \in Seq(GoodBlocks(base, Len(received[u])))
                         /\ Wraps => Ordered(toServer'[u], DataFollows)
                         /\ toServer[u] = <<>> => toServer'[u] = <<>>
  PROVE  IInv'
<1>1. TypeOK /\ SenderOk /\ \A u \in Tids : TaskOk(u)
  BY DEF IInv
<1>2. /\ tid' = tid /\ base' = base /\ cPc' = cPc /\ sPc' = sPc /\ received' = received
      /\ lastBlock' = lastBlock /\ WindowEnd(base)' = WindowEnd(base)
  BY DEF fileVars, taskVars, senderVars, WindowEnd
<1>3. SenderOk'
  BY <1>1, <1>2 DEF SenderOk
<1>4. AcksOk'
  BY <1>2, AcksOkNext
<1>5. \A u \in Tids : u # tid' => toServer'[u] = <<>>
  BY <1>1, <1>2 DEF TaskOk
<1>6. QED
  BY <1>2, <1>3, <1>4, <1>5, SenderFrame

\* Where numbers wrap, every datagram may be followed by itself.
LEMMA Reflexive ==
  ASSUME TypeOK
  PROVE  /\ \A p \in Packet : <<p, p>> \in AckFollows
         /\ \A n \in Nat : <<n, n>> \in DataFollows
<1>1. clientWindow \in Nat \ {0} /\ MaxBehind \in Nat \ {0}
  BY Numbers
<1>2. ASSUME NEW p \in Packet PROVE <<p, p>> \in AckFollows
  <2>1. p.num \in Nat
    BY DEF Packet
  <2>2. p.num < p.num + MaxBehind
    BY <1>1, <2>1
  <2>3. QED
    BY <2>2 DEF AckFollows
<1>3. ASSUME NEW n \in Nat PROVE <<n, n>> \in DataFollows
  BY <1>1 DEF DataFollows
<1>4. QED
  BY <1>2, <1>3

\* A datagram is lost or arrives twice.
LEMMA NetworkInv ==
  ASSUME IInv, Lose \/ Duplicate PROVE IInv'
<1>1. TypeOK /\ TypeOK' /\ AcksOk /\ \A u \in Tids : DataOk(u)
  BY NetworkType DEF IInv
<1>2. UNCHANGED <<fileVars, taskVars, senderVars>>
  BY DEF Lose, Duplicate
<1> DEFINE S == GoodAcks(sPc, tid, base, Len(received[tid]))
<1>3. toSender \in Seq(S) /\ (Wraps => Ordered(toSender, AckFollows))
  BY <1>1, AcksOkNow
<1>4. toSender' \in Seq(S) /\ (Wraps => Ordered(toSender', AckFollows))
  <2>1. CASE UNCHANGED toSender
    BY <1>3, <2>1
  <2>2. CASE \E i \in DOMAIN toSender : toSender' = RemoveAt(toSender, i)
    BY <1>3, <2>2, RemoveAtSeq, OrderedRemoveAt
  <2>3. CASE \E i \in DOMAIN toSender : toSender' = InsertAt(toSender, i, toSender[i])
    <3>1. PICK i \in DOMAIN toSender : toSender' = InsertAt(toSender, i, toSender[i])
      BY <2>3
    <3>2. toSender \in Seq(Packet)
      BY <1>1 DEF TypeOK
    <3>3. toSender[i] \in Packet
      BY <3>2, ElementOfSeq
    <3>4. <<toSender[i], toSender[i]>> \in AckFollows
      BY <1>1, <3>3, Reflexive
    <3>5. QED
      BY <1>3, <3>1, <3>4, InsertAtSeq, OrderedInsertAt
  <2>4. QED
    BY <2>1, <2>2, <2>3 DEF Lose, Duplicate
<1>5. ASSUME NEW u \in Tids
      PROVE  /\ toServer'[u] \in Seq(GoodBlocks(base, Len(received[u])))
             /\ Wraps => Ordered(toServer'[u], DataFollows)
             /\ toServer[u] = <<>> => toServer'[u] = <<>>
  <2> DEFINE q == toServer[u]
             B == GoodBlocks(base, Len(received[u]))
  <2>1. q \in Seq(B) /\ q \in Seq(Nat) /\ (Wraps => Ordered(q, DataFollows))
    BY <1>1, DataOkNow DEF TypeOK
  <2>2. CASE toServer'[u] = q
    BY <2>1, <2>2
  <2>3. CASE \E i \in DOMAIN q : toServer'[u] = RemoveAt(q, i)
    <3>1. PICK i \in DOMAIN q : toServer'[u] = RemoveAt(q, i)
      BY <2>3
    <3>2. q # <<>>
      BY <2>1, <3>1
    <3>3. QED
      BY <2>1, <3>1, <3>2, RemoveAtSeq, OrderedRemoveAt
  <2>4. CASE \E i \in DOMAIN q : toServer'[u] = InsertAt(q, i, q[i])
    <3>1. PICK i \in DOMAIN q : toServer'[u] = InsertAt(q, i, q[i])
      BY <2>4
    <3>2. q # <<>> /\ q[i] \in Nat
      BY <2>1, <3>1, ElementOfSeq
    <3>3. <<q[i], q[i]>> \in DataFollows
      BY <1>1, <3>2, Reflexive
    <3>4. QED
      BY <2>1, <3>1, <3>2, <3>3, InsertAtSeq, OrderedInsertAt
  <2>5. \/ toServer'[u] = q
        \/ \E i \in DOMAIN q : toServer'[u] = RemoveAt(q, i)
        \/ \E i \in DOMAIN q : toServer'[u] = InsertAt(q, i, q[i])
    <3>1. CASE UNCHANGED toServer
      BY <3>1
    <3>2. CASE \E t \in Tids : \E i \in DOMAIN toServer[t] :
                 toServer' = [toServer EXCEPT ![t] = RemoveAt(toServer[t], i)]
      BY <1>1, <3>2 DEF TypeOK
    <3>3. CASE \E t \in Tids : \E i \in DOMAIN toServer[t] :
                 toServer' = [toServer EXCEPT ![t] = InsertAt(toServer[t], i, toServer[t][i])]
      BY <1>1, <3>3 DEF TypeOK
    <3>4. QED
      BY <3>1, <3>2, <3>3 DEF Lose, Duplicate
  <2>6. QED
    BY <2>2, <2>3, <2>4, <2>5
<1>6. QED
  BY <1>1, <1>2, <1>4, <1>5, NetworkFrame

---------------------------------------------------------------------------
(* The invariant. *)

\* The invariant holds initially.
LEMMA InitInv == Init => IInv
<1>1. SUFFICES ASSUME Init PROVE IInv
  OBVIOUS
<1>2. TypeOK
  BY <1>1, TypeInit
<1>3. lastBlock \in Nat \ {0} /\ WindowEnd(1) \in Nat
  BY <1>2, Numbers, WindowEndRange
<1>4. BlockMod \in Nat /\ (network = "reordering" => ~Wraps)
  BY <1>1, <1>2, Numbers DEF Init, Wraps
<1>5. ASSUME NEW t \in Tids PROVE TaskOk(t) /\ DataOk(t)
  <2>1. received[t] = <<>> /\ toServer[t] = <<>> /\ sPc[t] = "idle" /\ t # tid
    BY <1>1, ConstantAssumption DEF Init
  <2>2. TaskOk(t)
    BY <1>3, <2>1 DEF TaskOk, Complete
  <2>3. DataOk(t)
    BY <2>1, EmptySeq DEF DataOk
  <2>4. QED
    BY <2>2, <2>3
<1>6. SenderOk
  BY <1>1, <1>3 DEF Init, SenderOk
<1>7. AcksOk
  BY <1>1, EmptySeq DEF Init, AcksOk
<1>8. QED
  BY <1>2, <1>4, <1>5, <1>6, <1>7 DEF IInv

\* Every step preserves it.
LEMMA NextInv ==
  ASSUME NumbersFit, IInv, [Next]_vars PROVE IInv'
<1>1. CASE UNCHANGED vars
  <2>1. /\ UNCHANGED <<fileVars, taskVars, senderVars>> /\ UNCHANGED <<toSender, toServer>>
    BY <1>1 DEF vars
  <2>2. TypeOK' /\ TypeOK /\ AcksOk /\ \A u \in Tids : DataOk(u)
    BY TypeStep DEF IInv
  <2>3. QED
    BY <2>1, <2>2, AcksOkNow, DataOkNow, NetworkFrame
<1>2. QED
  BY <1>1, ServerInv, SenderRecvInv, SenderTimeoutInv, NetworkInv DEF Next, Sender

\* IInv is an invariant.
LEMMA Invariant ==
  ASSUME NumbersFit PROVE Spec => []IInv
<1>1. IInv /\ [Next]_vars => IInv'
  BY NextInv
<1>2. QED
  BY <1>1, InitInv, PTL DEF Spec

\* received_data is always a prefix of the file, for every file and window whose numbers in
\* flight tell blocks apart, whatever the network loses, repeats or reorders.
THEOREM PrefixReceived ==
  ASSUME NumbersFit PROVE Spec => []ReceivedInOrder
<1>1. IInv => ReceivedInOrder
  BY DEF IInv, TaskOk, ReceivedInOrder
<1>2. QED
  BY <1>1, Invariant, PTL

\* With all blocks, in order, received_data is the file.
LEMMA AllIsWhole ==
  ASSUME IInv, NEW t \in Tids, Len(received[t]) = lastBlock PROVE Whole(t)
<1>1. TypeOK /\ TaskOk(t)
  BY DEF IInv
<1>2. received[t] \in Seq(Nat) /\ DOMAIN received[t] = 1..lastBlock
  BY <1>1, LenProperties DEF TypeOK
<1>3. received[t] = [i \in 1..lastBlock |-> received[t][i]]
  BY <1>2, LenProperties
<1>4. \A i \in 1..lastBlock : received[t][i] = i
  BY <1>1, <1>2 DEF TaskOk
<1>5. QED
  BY <1>3, <1>4 DEF Whole

\* write_file_safely is called with the whole file only.
THEOREM WholeStored ==
  ASSUME NumbersFit PROVE Spec => []OnlyWholeFilesStored
<1>1. IInv => OnlyWholeFilesStored
  <2>1. SUFFICES ASSUME IInv, NEW t \in Tids, sPc[t] \in {"writing", "stored", "unwritten"}
                 PROVE  Whole(t)
    BY DEF OnlyWholeFilesStored
  <2>2. Len(received[t]) = lastBlock
    BY <2>1 DEF IInv, TaskOk, Complete
  <2>3. QED
    BY <2>1, <2>2, AllIsWhole
<1>2. QED
  BY <1>1, Invariant, PTL

\* The ACK of the final block is sent by a task that has the whole file, and by no other.
THEOREM DoneIsReceived ==
  ASSUME NumbersFit PROVE Spec => []DoneMeansReceived
<1>1. IInv => DoneMeansReceived
  <2>1. SUFFICES ASSUME IInv, cPc = "done"
                 PROVE  /\ tid # NoTid /\ sPc[tid] \in {"writing", "stored", "unwritten"}
                        /\ Whole(tid)
    BY DEF DoneMeansReceived
  <2>2. tid # NoTid /\ tid \in Tids /\ Len(received[tid]) = lastBlock
    BY <2>1 DEF IInv, SenderOk, TypeOK
  <2>3. sPc[tid] \in Complete
    BY <2>1, <2>2 DEF IInv, TaskOk
  <2>4. QED
    BY <2>1, <2>2, <2>3, AllIsWhole DEF Complete
<1>2. QED
  BY <1>1, Invariant, PTL

---------------------------------------------------------------------------
(* The upload implements FileDelivery. *)

\* Blocks in order are the file's first ones.
LEMMA InOrderIsFirst ==
  ASSUME NEW s \in Seq(Nat), \A i \in DOMAIN s : s[i] = i
  PROVE  s = Delivered!FirstBlocks(Len(s))
<1>1. s = [i \in 1..Len(s) |-> s[i]] /\ DOMAIN s = 1..Len(s)
  BY LenProperties
<1>2. QED
  BY <1>1 DEF Delivered!FirstBlocks

\* A task changes only its own state; it appends one block, or leaves received_data alone.
LEMMA ServerChanges ==
  ASSUME TypeOK, NEW t \in Tids, Server(t)
  PROVE  /\ UNCHANGED <<lastBlock, tid, cPc>>
         /\ sPc[t] \in {"idle", "receiving", "writing"}
         /\ \A u \in Tids \ {t} : sPc'[u] = sPc[u] /\ received'[u] = received[u]
         /\ \/ received'[t] = received[t]
            \/ /\ Len(received'[t]) = Len(received[t]) + 1
               /\ sPc[t] = "receiving" /\ sPc'[t] \in {"receiving", "writing"}
<1>1. UNCHANGED <<lastBlock, tid, cPc>> /\ sPc[t] \in {"idle", "receiving", "writing"}
  BY DEF Server, Accept, RecvData, DataTimeout, Store, fileVars, senderVars
<1>2. sPc \in [Tids -> {"idle", "receiving", "writing"} \cup Stopped] /\ received \in [Tids -> Seq(Nat)]
  BY DEF TypeOK
<1>3. CASE UNCHANGED received /\ \E x : sPc' = [sPc EXCEPT ![t] = x]
  BY <1>1, <1>2, <1>3
<1>4. CASE UNCHANGED <<received, sPc>>
  BY <1>1, <1>4
<1>5. ASSUME sPc[t] = "receiving", NEW n \in Nat, NextBlock(t, n), ~TooLarge(t)
      PROVE  /\ \A u \in Tids \ {t} : sPc'[u] = sPc[u] /\ received'[u] = received[u]
             /\ Len(received'[t]) = Len(received[t]) + 1
             /\ sPc[t] = "receiving" /\ sPc'[t] \in {"receiving", "writing"}
  <2>1. Len(Append(received[t], n)) = Len(received[t]) + 1
    BY <1>2, AppendProperties
  <2>2. QED
    BY <1>2, <1>5, <2>1 DEF NextBlock
<1>6. CASE RecvData(t)
  <2>1. PICK i \in DOMAIN toServer[t] :
          \/ RecvError(t)
          \/ NextBlock(t, toServer[t][i]) \/ DuplicateBlock(t, toServer[t][i])
          \/ OutOfOrder(t, toServer[t][i]) \/ ReplyFails(t, toServer[t][i])
    BY <1>6 DEF RecvData, Arriving
  <2>2. toServer[t] \in Seq(Nat)
    BY DEF TypeOK
  <2>3. toServer[t][i] \in Nat
    BY <2>2, ElementOfSeq
  <2>4. CASE NextBlock(t, toServer[t][i]) /\ ~TooLarge(t)
    BY <1>1, <1>5, <1>6, <2>3, <2>4 DEF RecvData
  <2>5. CASE RecvError(t) \/ OutOfOrder(t, toServer[t][i]) \/ ReplyFails(t, toServer[t][i])
             \/ (NextBlock(t, toServer[t][i]) /\ TooLarge(t))
    BY <1>3, <2>5 DEF RecvError, OutOfOrder, ReplyFails, NextBlock
  <2>6. CASE DuplicateBlock(t, toServer[t][i])
    BY <1>4, <2>6 DEF DuplicateBlock
  <2>7. QED
    BY <2>1, <2>4, <2>5, <2>6
<1>7. CASE Accept(t) \/ DataTimeout(t) \/ Store(t)
  BY <1>3, <1>7 DEF Accept, DataTimeout, TimedOut, Store
<1>8. QED
  BY <1>6, <1>7 DEF Server

\* A task extends the copy, finishes it, gives it up, or does nothing FileDelivery sees.
LEMMA ServerRefines ==
  ASSUME IInv, IInv', NEW t \in Tids, Server(t)
  PROVE  [Delivered!Next]_(Delivered!vars)
<1>1. TypeOK /\ TypeOK' /\ TaskOk(t)'
  BY DEF IInv
<1>2. /\ UNCHANGED <<lastBlock, tid, cPc>>
      /\ sPc[t] \in {"idle", "receiving", "writing"}
      /\ \A u \in Tids \ {t} : sPc'[u] = sPc[u] /\ received'[u] = received[u]
      /\ \/ received'[t] = received[t]
         \/ /\ Len(received'[t]) = Len(received[t]) + 1
            /\ sPc[t] = "receiving" /\ sPc'[t] \in {"receiving", "writing"}
  BY <1>1, ServerChanges
<1>3. SenderDone' = SenderDone
  BY <1>2 DEF SenderDone
<1>4. CASE tid # t
  <2>1. ServersCopy' = ServersCopy /\ CopyOutcome' = CopyOutcome
    BY <1>1, <1>2, <1>4 DEF ServersCopy, CopyOutcome, TypeOK
  <2>2. QED
    BY <1>2, <1>3, <2>1 DEF Delivered!vars
<1>5. CASE tid = t
  <2>1. tid # NoTid /\ tid' = t
    BY <1>2, <1>5, ConstantAssumption
  <2>2. ServersCopy = received[t] /\ ServersCopy' = received'[t] /\ CopyOutcome = "receiving"
    BY <1>2, <1>5, <2>1 DEF ServersCopy, CopyOutcome
  <2>3. /\ received'[t] = Delivered!FirstBlocks(Len(received'[t]))
        /\ Len(received[t]) \in Nat /\ Len(received'[t]) \in Nat
        /\ lastBlock \in Nat \ {0} /\ Len(received'[t]) <= lastBlock
    <3>1. received'[t] = Delivered!FirstBlocks(Len(received'[t]))
      BY <1>1, InOrderIsFirst DEF TypeOK, TaskOk
    <3>2. Len(received[t]) \in Nat
      BY <1>1 DEF TypeOK
    <3>3. Len(received'[t]) \in Nat
      BY <1>1 DEF TypeOK
    <3>4. lastBlock \in Nat \ {0} /\ Len(received'[t]) <= lastBlock
      BY <1>1, <1>2, Numbers DEF TaskOk
    <3>5. QED
      BY <3>1, <3>2, <3>3, <3>4
  <2>4. CASE Len(received'[t]) = Len(received[t]) + 1 /\ sPc'[t] \in {"receiving", "writing"}
    <3>1. CopyOutcome' = "receiving"
      BY <2>1, <2>4 DEF CopyOutcome
    <3>2. Len(received'[t]) \in (Len(received[t]) + 1)..lastBlock
      BY <2>3, <2>4
    <3>3. Delivered!Extend
      BY <1>2, <1>3, <2>2, <2>3, <3>1, <3>2 DEF Delivered!Extend
    <3>4. QED
      BY <3>3 DEF Delivered!Next
  <2>5. CASE received'[t] = received[t] /\ sPc'[t] = "stored"
    <3>1. Len(received'[t]) = lastBlock /\ CopyOutcome' = "done"
      BY <1>1, <1>2, <2>1, <2>5 DEF TaskOk, Complete, CopyOutcome
    <3>2. Delivered!Finish
      BY <1>2, <1>3, <2>2, <2>3, <2>5, <3>1 DEF Delivered!Finish
    <3>3. QED
      BY <3>2 DEF Delivered!Next
  <2>6. CASE received'[t] = received[t] /\ sPc'[t] # "stored"
    <3>1. CopyOutcome' \in {"receiving", "failed"}
      BY <2>1, <2>6 DEF CopyOutcome
    <3>2. CASE CopyOutcome' = "receiving"
      BY <1>2, <1>3, <2>2, <2>6, <3>2 DEF Delivered!vars
    <3>3. CASE CopyOutcome' = "failed"
      <4>1. Delivered!GiveUp
        BY <1>2, <1>3, <2>2, <2>6, <3>3 DEF Delivered!GiveUp
      <4>2. QED
        BY <4>1 DEF Delivered!Next
    <3>4. QED
      BY <3>1, <3>2, <3>3
  <2>7. QED
    BY <1>2, <2>4, <2>5, <2>6
<1>6. QED
  BY <1>4, <1>5

\* The sender chooses its task, is told of completion, or does nothing FileDelivery sees.
LEMMA SenderRefines ==
  ASSUME IInv, IInv', Sender
  PROVE  [Delivered!Next]_(Delivered!vars)
<1>1. TypeOK /\ TypeOK' /\ SenderOk' /\ \A u \in Tids : TaskOk(u) /\ TaskOk(u)'
  BY DEF IInv
<1>2. UNCHANGED <<lastBlock, sPc, received>> /\ cPc \in Open /\ (tid' = tid \/ tid = NoTid)
  BY DEF Sender, SenderRecv, SenderTimeout, fileVars, taskVars
<1>3. lastBlock \in Nat \ {0} /\ ~SenderDone
  BY <1>1, <1>2, Numbers DEF SenderDone, Open
<1>4. CASE tid' = tid
  <2>1. ServersCopy' = ServersCopy /\ CopyOutcome' = CopyOutcome
    BY <1>2, <1>4 DEF ServersCopy, CopyOutcome
  <2>2. CASE SenderDone'
    <3>1. tid \in Tids /\ tid # NoTid /\ Len(received[tid]) = lastBlock
      BY <1>1, <1>2, <1>4, <2>2 DEF SenderOk, SenderDone, TypeOK
    <3>2. ServersCopy = Delivered!FirstBlocks(lastBlock)
      BY <1>1, <3>1, InOrderIsFirst DEF ServersCopy, TypeOK, TaskOk
    <3>3. SenderDone' = TRUE
      BY <2>2 DEF SenderDone
    <3>4. Delivered!Credit
      BY <1>2, <1>3, <2>1, <3>2, <3>3 DEF Delivered!Credit
    <3>5. QED
      BY <3>4 DEF Delivered!Next
  <2>3. CASE ~SenderDone'
    <3>1. SenderDone' = SenderDone
      BY <1>3, <2>3 DEF SenderDone
    <3>2. QED
      BY <1>2, <2>1, <3>1 DEF Delivered!vars
  <2>4. QED
    BY <2>2, <2>3
<1>5. CASE tid = NoTid /\ tid' # tid
  <2>1. tid' \in Tids /\ tid' # NoTid
    BY <1>1, <1>5 DEF TypeOK
  <2>2. received[tid'] = <<>> /\ sPc[tid'] \notin Complete
    BY <1>1, <1>2, <1>3, <1>5, <2>1 DEF TaskOk
  <2>3. SenderDone' = SenderDone
    BY <1>1, <1>2, <1>3, <2>1, <2>2 DEF SenderOk, SenderDone
  <2>4. ServersCopy = <<>> /\ ServersCopy' = <<>> /\ CopyOutcome = "receiving"
        /\ CopyOutcome' \in {"receiving", "failed"}
    BY <1>2, <1>5, <2>1, <2>2 DEF ServersCopy, CopyOutcome, Complete
  <2>5. CASE CopyOutcome' = "receiving"
    BY <1>2, <2>3, <2>4, <2>5 DEF Delivered!vars
  <2>6. CASE CopyOutcome' = "failed"
    <3>1. Delivered!GiveUp
      BY <1>2, <2>3, <2>4, <2>6 DEF Delivered!GiveUp
    <3>2. QED
      BY <3>1 DEF Delivered!Next
  <2>7. QED
    BY <2>4, <2>5, <2>6
<1>6. QED
  BY <1>2, <1>4, <1>5

\* Every upload whose numbers in flight tell blocks apart is one that FileDelivery allows.
THEOREM Refinement ==
  ASSUME NumbersFit PROVE Spec => ImplementsDelivery
<1>1. Init => Delivered!Init
  BY ConstantAssumption DEF Init, Delivered!Init, ServersCopy, CopyOutcome, SenderDone
<1>2. IInv /\ IInv' /\ [Next]_vars => [Delivered!Next]_(Delivered!vars)
  <2> SUFFICES ASSUME IInv, IInv', [Next]_vars PROVE [Delivered!Next]_(Delivered!vars)
    OBVIOUS
  <2>1. CASE Sender
    BY <2>1, SenderRefines
  <2>2. ASSUME NEW t \in Tids, Server(t) PROVE [Delivered!Next]_(Delivered!vars)
    BY <2>2, ServerRefines
  <2>3. CASE Lose \/ Duplicate \/ UNCHANGED vars
    <3>1. UNCHANGED <<lastBlock, tid, cPc, sPc, received>>
      BY <2>3 DEF Lose, Duplicate, vars, fileVars, taskVars, senderVars
    <3>2. QED
      BY <3>1 DEF Delivered!vars, ServersCopy, CopyOutcome, SenderDone
  <2>4. QED
    BY <2>1, <2>2, <2>3 DEF Next
<1>3. QED
  BY <1>1, <1>2, Invariant, PTL DEF Spec, ImplementsDelivery, Delivered!Spec

=============================================================================
