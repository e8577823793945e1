--------------------------- MODULE Conversation_proofs ---------------------------
(***************************************************************************)
(* What the user sees and what the program makes of the answer, for every  *)
(* template, every text typed into a form, every set of ticked boxes and   *)
(* every section limit.                                                    *)
(***************************************************************************)
EXTENDS Conversation, SequenceTheorems, WellFoundedInduction, TLAPS

(***************************************************************************)
(* Induction, as a fact about sets: the library's theorems take the        *)
(* formula to be proved as an operator, which the provers cannot supply.   *)
(***************************************************************************)
Less == {ss \in Nat \X Nat : ss[1] < ss[2]}

LEMMA LessWellFounded == IsWellFoundedOn(Less, Nat)
<1>1. OpToRel(<, Nat) = Less
  BY Zenon DEF OpToRel, Less
<1> QED
  BY <1>1, NatLessThanWellFounded

LEMMA LeastNat ==
  ASSUME NEW T, T \subseteq Nat, T # {}
  PROVE  \E m \in T : \A n \in T : m <= n
<1>1. PICK m \in T : \A n \in T : ~ (<<n, m>> \in Less)
  BY LessWellFounded, WFMin
<1>2. \A x, y \in Nat : ~ (<<x, y>> \in Less) => y <= x
  BY DEF Less
<1> QED
  BY <1>1, <1>2

LEMMA NatSetInduction ==
  ASSUME NEW T, 0 \in T, \A n \in Nat : n \in T => n + 1 \in T
  PROVE  Nat \subseteq T
<1> SUFFICES ASSUME ~ (Nat \subseteq T)
             PROVE  FALSE
  OBVIOUS
<1>1. PICK m \in Nat \ T : \A n \in Nat \ T : m <= n
  BY LeastNat
<1>2. m # 0 /\ m - 1 \in Nat /\ m - 1 \in T
  BY <1>1
<1> QED
  BY <1>1, <1>2

LEMMA SeqSetInduction ==
  ASSUME NEW S, NEW T, <<>> \in T,
         \A s \in Seq(S), x \in S : s \in T => Append(s, x) \in T
  PROVE  Seq(S) \subseteq T
<1> DEFINE N == {n \in Nat : \A s \in Seq(S) : Len(s) = n => s \in T}
<1>1. 0 \in N
  BY EmptySeq
<1>2. ASSUME NEW n \in Nat, n \in N PROVE n + 1 \in N
  <2>1. ASSUME NEW s \in Seq(S), Len(s) = n + 1 PROVE s \in T
    <3>1. PICK t \in Seq(S), x \in S : s = Append(t, x)
      BY <2>1, SequenceEmptyOrAppend
    <3>2. Len(t) = n
      BY <2>1, <3>1, AppendProperties, LenProperties
    <3> QED
      BY <1>2, <3>1, <3>2
  <2> QED
    BY <2>1
<1>3. Nat \subseteq N
  <2> HIDE DEF N
  <2> QED
    BY <1>1, <1>2, NatSetInduction
<1> QED
  BY <1>3, LenProperties

LEMMA FunctionIsSeq ==
  ASSUME NEW S, NEW n \in Nat, NEW f \in [1 .. n -> S]
  PROVE  f \in Seq(S) /\ Len(f) = n /\ DOMAIN f = 1 .. n
  BY SeqDef

-----------------------------------------------------------------------------
(***************************************************************************)
(* FlattenSeq: its recursive function exists and is unique, so that it     *)
(* may be computed from either end.                                        *)
(***************************************************************************)
Flat(f, ss) ==
  f = [i \in 1 .. Len(ss) |-> IF i = 1 THEN ss[i] ELSE f[i - 1] \o ss[i]]

LEMMA FlatExists ==
  ASSUME NEW S, NEW ss \in Seq(Seq(S))
  PROVE  \E f \in [1 .. Len(ss) -> Seq(S)] : Flat(f, ss)
<1> DEFINE T == {s \in Seq(Seq(S)) :
                   \E f \in [1 .. Len(s) -> Seq(S)] : Flat(f, s)}
<1>1. <<>> \in T
  <2>1. [i \in 1 .. 0 |-> <<>>] \in [1 .. 0 -> Seq(S)]
    OBVIOUS
  <2>2. Flat([i \in 1 .. 0 |-> <<>>], <<>>)
    BY DEF Flat
  <2>3. <<>> \in Seq(Seq(S)) /\ Len(<<>>) = 0
    BY EmptySeq
  <2> QED
    BY <2>1, <2>2, <2>3
<1>2. ASSUME NEW s \in Seq(Seq(S)), NEW x \in Seq(S), s \in T
      PROVE  Append(s, x) \in T
  <2>1. PICK f \in [1 .. Len(s) -> Seq(S)] : Flat(f, s)
    BY <1>2
  <2> DEFINE t == Append(s, x)
             n == Len(s)
             g == [i \in 1 .. n + 1 |-> IF i <= n THEN f[i]
                                        ELSE IF n = 0 THEN x ELSE f[n] \o x]
  <2>2. t \in Seq(Seq(S)) /\ n \in Nat /\ Len(t) = n + 1 /\ t[n + 1] = x
        /\ \A i \in 1 .. n : t[i] = s[i]
    BY AppendProperties, LenProperties
  <2>3. g \in [1 .. n + 1 -> Seq(S)]
    <3>1. ASSUME n # 0 PROVE f[n] \o x \in Seq(S)
      <4>1. n \in 1 .. n
        BY <2>2, <3>1
      <4>2. f[n] \in Seq(S)
        BY <4>1
      <4> QED
        BY <4>2, ConcatProperties
    <3> QED
      BY <2>2, <3>1
  <2>4. ASSUME NEW i \in 1 .. n + 1
        PROVE  g[i] = IF i = 1 THEN t[i] ELSE g[i - 1] \o t[i]
    <3>1. CASE i <= n
      <4>1. i \in 1 .. n
        BY <2>2, <3>1
      <4>2. f[i] = IF i = 1 THEN s[i] ELSE f[i - 1] \o s[i]
        BY <2>1, <4>1 DEF Flat
      <4>3. i # 1 => g[i - 1] = f[i - 1]
        BY <2>2, <4>1
      <4>4. g[i] = f[i] /\ t[i] = s[i]
        BY <2>2, <4>1
      <4> HIDE DEF g, t
      <4> QED
        BY <4>2, <4>3, <4>4
    <3>2. CASE i = n + 1
      BY <2>2, <3>2
    <3> QED
      BY <2>2, <3>1, <3>2
  <2>5. Flat(g, t)
    <3>1. g = [i \in 1 .. Len(t) |-> IF i = 1 THEN t[i] ELSE g[i - 1] \o t[i]]
      BY <2>2, <2>4
    <3> QED
      BY <3>1 DEF Flat
  <2> QED
    BY <2>2, <2>3, <2>5
<1>3. Seq(Seq(S)) \subseteq T
  <2> HIDE DEF T
  <2> QED
    BY <1>1, <1>2, SeqSetInduction
<1> QED
  BY <1>3

LEMMA FlatUnique ==
  ASSUME NEW ss, Len(ss) \in Nat, NEW f, NEW g, Flat(f, ss), Flat(g, ss)
  PROVE  \A i \in 1 .. Len(ss) : f[i] = g[i]
<1> DEFINE T == {n \in Nat : n \in 1 .. Len(ss) => f[n] = g[n]}
<1>1. 0 \in T
  OBVIOUS
<1>2. ASSUME NEW n \in Nat, n \in T PROVE n + 1 \in T
  <2>1. \A i \in 1 .. Len(ss) :
          /\ f[i] = IF i = 1 THEN ss[i] ELSE f[i - 1] \o ss[i]
          /\ g[i] = IF i = 1 THEN ss[i] ELSE g[i - 1] \o ss[i]
    BY DEF Flat
  <2> QED
    BY <1>2, <2>1
<1>3. Nat \subseteq T
  <2> HIDE DEF T
  <2> QED
    BY <1>1, <1>2, NatSetInduction
<1> QED
  BY <1>3

LEMMA FlattenValue ==
  ASSUME NEW ss, Len(ss) \in Nat \ {0}, NEW f, Flat(f, ss)
  PROVE  FlattenSeq(ss) = f[Len(ss)]
<1> DEFINE g == CHOOSE h :
                  h = [i \in 1 .. Len(ss) |->
                         IF i = 1 THEN ss[i] ELSE h[i - 1] \o ss[i]]
<1>1. Flat(g, ss)
  BY DEF Flat
<1>2. FlattenSeq(ss) = g[Len(ss)]
  BY DEF FlattenSeq
<1> HIDE DEF g
<1> QED
  BY <1>1, <1>2, FlatUnique

LEMMA FlatAt ==
  ASSUME NEW ss, NEW f, Flat(f, ss), NEW i \in 1 .. Len(ss)
  PROVE  f[i] = IF i = 1 THEN ss[i] ELSE f[i - 1] \o ss[i]
  BY DEF Flat

LEMMA FlatNext ==
  ASSUME NEW ss, NEW f, Flat(f, ss), Len(ss) \in Nat,
         NEW i \in 1 .. Len(ss), NEW j \in 1 .. Len(ss), j = i + 1
  PROVE  f[j] = f[i] \o ss[j]
<1>1. f[j] = IF j = 1 THEN ss[j] ELSE f[j - 1] \o ss[j]
  BY FlatAt
<1>2. j # 1 /\ j - 1 = i
  OBVIOUS
<1> QED
  BY <1>1, <1>2

LEMMA FlattenEmpty == FlattenSeq(<<>>) = <<>>
  BY DEF FlattenSeq

LEMMA FlattenAppend ==
  ASSUME NEW S, NEW ss \in Seq(Seq(S)), NEW x \in Seq(S)
  PROVE  /\ FlattenSeq(ss) \in Seq(S)
         /\ FlattenSeq(Append(ss, x)) = FlattenSeq(ss) \o x
<1> DEFINE t == Append(ss, x)
           n == Len(ss)
<1>1. /\ t \in Seq(Seq(S)) /\ n \in Nat /\ Len(t) = n + 1 /\ t[n + 1] = x
      /\ \A i \in 1 .. n : t[i] = ss[i]
  BY AppendProperties, LenProperties
<1>n. n = Len(ss)
  OBVIOUS
<1> HIDE DEF t, n
<1>2. PICK f \in [1 .. n + 1 -> Seq(S)] : Flat(f, t)
  BY <1>1, FlatExists
<1>3. FlattenSeq(t) = f[n + 1]
  <2>1. Len(t) \in Nat \ {0}
    BY <1>1
  <2>2. FlattenSeq(t) = f[Len(t)]
    BY <1>2, <2>1, FlattenValue
  <2> QED
    BY <1>1, <2>2
<1>4. f[n + 1] = IF n = 0 THEN x ELSE f[n] \o x
  <2>1. PICK i \in 1 .. Len(t) : i = n + 1
    BY <1>1
  <2>2. f[i] = IF i = 1 THEN t[i] ELSE f[i - 1] \o t[i]
    BY <1>2, FlatAt
  <2>3. i - 1 = n /\ (i = 1 <=> n = 0)
    BY <1>1, <2>1
  <2> QED
    BY <1>1, <2>1, <2>2, <2>3, Zenon
<1>5. CASE n = 0
  <2>1. ss = <<>>
    BY <1>n, <1>5, EmptySeq
  <2>2. <<>> \in Seq(S) /\ <<>> \o x = x
    BY EmptySeq, ConcatEmptySeq
  <2> QED
    BY <1>3, <1>4, <1>5, <2>1, <2>2, FlattenEmpty DEF t
<1>6. CASE n # 0
  <2> DEFINE g == [i \in 1 .. n |-> f[i]]
  <2>1. Flat(g, ss)
    <3>1. ASSUME NEW i \in 1 .. n
          PROVE  g[i] = IF i = 1 THEN ss[i] ELSE g[i - 1] \o ss[i]
      <4>1. f[i] = IF i = 1 THEN t[i] ELSE f[i - 1] \o t[i]
        <5>1. i \in 1 .. Len(t)
          BY <1>1
        <5> QED
          BY <1>2, <5>1, FlatAt
      <4>2. g[i] = f[i] /\ t[i] = ss[i] /\ (i # 1 => g[i - 1] = f[i - 1])
        BY <1>1
      <4> HIDE DEF g
      <4> QED
        BY <4>1, <4>2
    <3>2. g = [i \in 1 .. Len(ss) |->
                 IF i = 1 THEN ss[i] ELSE g[i - 1] \o ss[i]]
      BY <1>n, <3>1
    <3> QED
      BY <3>2 DEF Flat
  <2>2. FlattenSeq(ss) = f[n]
    <3>1. Len(ss) \in Nat \ {0} /\ n \in 1 .. n
      BY <1>1, <1>n, <1>6
    <3>2. FlattenSeq(ss) = g[Len(ss)]
      BY <2>1, <3>1, FlattenValue
    <3> QED
      BY <1>n, <3>1, <3>2
  <2>3. f[n] \in Seq(S)
    BY <1>1, <1>6
  <2> QED
    BY <1>3, <1>4, <1>6, <2>2, <2>3 DEF t
<1> QED
  BY <1>5, <1>6

LEMMA FlattenType ==
  ASSUME NEW S, NEW ss \in Seq(Seq(S))
  PROVE  FlattenSeq(ss) \in Seq(S)
  BY FlattenAppend, EmptySeq

LEMMA FlattenOne ==
  ASSUME NEW S, NEW x \in Seq(S)
  PROVE  FlattenSeq(<<x>>) = x
<1>1. Append(<<>>, x) = <<x>> /\ <<>> \in Seq(Seq(S))
  BY EmptySeq
<1>2. <<>> \o x = x
  BY ConcatEmptySeq
<1> QED
  BY <1>1, <1>2, FlattenEmpty, FlattenAppend

LEMMA AppendConcat ==
  ASSUME NEW S, NEW a \in Seq(S), NEW b \in Seq(S), NEW x \in S
  PROVE  a \o Append(b, x) = Append(a \o b, x)
<1>1. Append(b, x) = b \o <<x>> /\ Append(a \o b, x) = (a \o b) \o <<x>>
  BY AppendIsConcat, ConcatProperties
<1>2. <<x>> \in Seq(S)
  OBVIOUS
<1> QED
  BY <1>1, <1>2, ConcatAssociative

LEMMA FlattenConcat ==
  ASSUME NEW S, NEW a \in Seq(Seq(S)), NEW b \in Seq(Seq(S))
  PROVE  FlattenSeq(a \o b) = FlattenSeq(a) \o FlattenSeq(b)
<1> DEFINE T == {c \in Seq(Seq(S)) :
                   FlattenSeq(a \o c) = FlattenSeq(a) \o FlattenSeq(c)}
<1>1. <<>> \in T
  <2>1. a \o <<>> = a /\ <<>> \in Seq(Seq(S))
    BY ConcatEmptySeq, EmptySeq
  <2>2. FlattenSeq(a) \o <<>> = FlattenSeq(a)
    BY FlattenType, ConcatEmptySeq
  <2> QED
    BY <2>1, <2>2, FlattenEmpty
<1>2. ASSUME NEW c \in Seq(Seq(S)), NEW x \in Seq(S), c \in T
      PROVE  Append(c, x) \in T
  <2>1. Append(c, x) \in Seq(Seq(S)) /\ a \o c \in Seq(Seq(S))
    BY AppendProperties, ConcatProperties
  <2>2. a \o Append(c, x) = Append(a \o c, x)
    BY AppendConcat
  <2>3. FlattenSeq(a \o Append(c, x)) = FlattenSeq(a \o c) \o x
    BY <2>1, <2>2, FlattenAppend
  <2>4. FlattenSeq(Append(c, x)) = FlattenSeq(c) \o x
    BY FlattenAppend
  <2>5. (FlattenSeq(a) \o FlattenSeq(c)) \o x
          = FlattenSeq(a) \o (FlattenSeq(c) \o x)
    <3>1. FlattenSeq(a) \in Seq(S) /\ FlattenSeq(c) \in Seq(S)
      BY FlattenType
    <3> QED
      BY <3>1, ConcatAssociative
  <2> QED
    BY <1>2, <2>1, <2>3, <2>4, <2>5
<1>3. Seq(Seq(S)) \subseteq T
  <2> HIDE DEF T
  <2> QED
    BY <1>1, <1>2, SeqSetInduction
<1> QED
  BY <1>3

(* the lists of fields in the code are this long *)
LEMMA FlattenShort ==
  ASSUME NEW S, NEW ss \in Seq(Seq(S)), NEW n \in 2 .. 6, Len(ss) = n
  PROVE  /\ n = 2 => FlattenSeq(ss) = ss[1] \o ss[2]
         /\ n = 3 => FlattenSeq(ss) = ss[1] \o ss[2] \o ss[3]
         /\ n = 4 => FlattenSeq(ss) = ss[1] \o ss[2] \o ss[3] \o ss[4]
         /\ n = 5 => FlattenSeq(ss) = ss[1] \o ss[2] \o ss[3] \o ss[4]
                                        \o ss[5]
         /\ n = 6 => FlattenSeq(ss) = ss[1] \o ss[2] \o ss[3] \o ss[4]
                                        \o ss[5] \o ss[6]
<1>1. PICK f : Flat(f, ss)
  BY FlatExists
<1>2. n \in Nat \ {0} /\ Len(ss) \in Nat \ {0}
  <2>1. n \in Nat \ {0}
    OBVIOUS
  <2> QED
    BY <2>1
<1>3. FlattenSeq(ss) = f[n]
  BY <1>1, <1>2, FlattenValue
<1>4. 1 \in 1 .. n => f[1] = ss[1]
  BY <1>1 DEF Flat
<1>5. ASSUME NEW i \in 1 .. n, NEW j \in 1 .. n, j = i + 1
      PROVE  f[j] = f[i] \o ss[j]
  <2>1. Len(ss) \in Nat /\ i \in 1 .. Len(ss) /\ j \in 1 .. Len(ss)
    BY <1>2
  <2> QED
    BY <1>1, <1>5, <2>1, FlatNext
<1>6. f[1] = ss[1] /\ f[2] = f[1] \o ss[2]
  <2>1. 1 \in 1 .. n /\ 2 \in 1 .. n /\ 2 = 1 + 1
    OBVIOUS
  <2> QED
    BY <1>4, <1>5, <2>1
<1>7. n >= 3 => f[3] = f[2] \o ss[3]
  <2>1. n >= 3 => 2 \in 1 .. n /\ 3 \in 1 .. n /\ 3 = 2 + 1
    OBVIOUS
  <2> QED
    BY <1>5, <2>1
<1>8. n >= 4 => f[4] = f[3] \o ss[4]
  <2>1. n >= 4 => 3 \in 1 .. n /\ 4 \in 1 .. n /\ 4 = 3 + 1
    OBVIOUS
  <2> QED
    BY <1>5, <2>1
<1>9. n >= 5 => f[5] = f[4] \o ss[5]
  <2>1. n >= 5 => 4 \in 1 .. n /\ 5 \in 1 .. n /\ 5 = 4 + 1
    OBVIOUS
  <2> QED
    BY <1>5, <2>1
<1>10. n >= 6 => f[6] = f[5] \o ss[6]
  <2>1. n >= 6 => 5 \in 1 .. n /\ 6 \in 1 .. n /\ 6 = 5 + 1
    OBVIOUS
  <2> QED
    BY <1>5, <2>1
<1>11. n \in {2, 3, 4, 5, 6}
  OBVIOUS
<1>12. CASE n = 2
  BY <1>3, <1>6, <1>12
<1>13. CASE n = 3
  <2>1. FlattenSeq(ss) = f[3]
    BY <1>3, <1>13
  <2>2. f[3] = f[2] \o ss[3]
    BY <1>7, <1>13
  <2>3. FlattenSeq(ss) = ss[1] \o ss[2] \o ss[3]
    BY <2>1, <1>6, <2>2, Zenon
  <2> QED
    BY <2>3, <1>13
<1>14. CASE n = 4
  <2>1. FlattenSeq(ss) = f[4]
    BY <1>3, <1>14
  <2>2. f[3] = f[2] \o ss[3]
    BY <1>7, <1>14
  <2>3. f[4] = f[3] \o ss[4]
    BY <1>8, <1>14
  <2>4. FlattenSeq(ss) = ss[1] \o ss[2] \o ss[3] \o ss[4]
    BY <2>1, <1>6, <2>2, <2>3, Zenon
  <2> QED
    BY <2>4, <1>14
<1>15. CASE n = 5
  <2>1. FlattenSeq(ss) = f[5]
    BY <1>3, <1>15
  <2>2. f[3] = f[2] \o ss[3]
    BY <1>7, <1>15
  <2>3. f[4] = f[3] \o ss[4]
    BY <1>8, <1>15
  <2>4. f[5] = f[4] \o ss[5]
    BY <1>9, <1>15
  <2>5. FlattenSeq(ss) = ss[1] \o ss[2] \o ss[3] \o ss[4] \o ss[5]
    BY <2>1, <1>6, <2>2, <2>3, <2>4, Zenon
  <2> QED
    BY <2>5, <1>15
<1>16. CASE n = 6
  <2>1. FlattenSeq(ss) = f[6]
    BY <1>3, <1>16
  <2>2. f[3] = f[2] \o ss[3]
    BY <1>7, <1>16
  <2>3. f[4] = f[3] \o ss[4]
    BY <1>8, <1>16
  <2>4. f[5] = f[4] \o ss[5]
    BY <1>9, <1>16
  <2>5. f[6] = f[5] \o ss[6]
    BY <1>10, <1>16
  <2>6. FlattenSeq(ss) = ss[1] \o ss[2] \o ss[3] \o ss[4] \o ss[5] \o ss[6]
    BY <2>1, <1>6, <2>2, <2>3, <2>4, <2>5, Zenon
  <2> QED
    BY <2>6, <1>16
<1> QED
  BY <1>11, <1>12, <1>13, <1>14, <1>15, <1>16

-----------------------------------------------------------------------------
(***************************************************************************)
(* What Where takes out of a sequence: the elements of a set.              *)
(***************************************************************************)
Given(s, K) == [i \in DOMAIN s |-> IF s[i] \in K THEN <<s[i]>> ELSE <<>>]

Sel(s, K) == FlattenSeq(Given(s, K))

LEMMA GivenProperties ==
  ASSUME NEW S, NEW K, NEW s \in Seq(S)
  PROVE  /\ Given(s, K) \in Seq(Seq(S))
         /\ Len(Given(s, K)) = Len(s)
         /\ DOMAIN Given(s, K) = 1 .. Len(s)
         /\ Sel(s, K) = FlattenSeq(Given(s, K))
<1>1. Len(s) \in Nat /\ DOMAIN s = 1 .. Len(s)
      /\ \A i \in 1 .. Len(s) : s[i] \in S
  BY LenProperties, ElementOfSeq
<1>2. \A x \in S : <<x>> \in Seq(S) /\ <<>> \in Seq(S)
  BY EmptySeq
<1>3. Given(s, K) \in [1 .. Len(s) -> Seq(S)]
  BY <1>1, <1>2 DEF Given
<1> QED
  BY <1>1, <1>3, FunctionIsSeq DEF Sel

LEMMA SelType ==
  ASSUME NEW S, NEW K, NEW s \in Seq(S)
  PROVE  Sel(s, K) \in Seq(S)
  BY GivenProperties, FlattenType

LEMMA SelEmpty == ASSUME NEW K PROVE Sel(<<>>, K) = <<>>
<1>1. Given(<<>>, K) = <<>>
  BY DEF Given
<1> QED
  BY <1>1, FlattenEmpty DEF Sel

LEMMA SelOne ==
  ASSUME NEW S, NEW K, NEW x \in S
  PROVE  Sel(<<x>>, K) = IF x \in K THEN <<x>> ELSE <<>>
<1>1. Given(<<x>>, K) = <<IF x \in K THEN <<x>> ELSE <<>>>>
  BY DEF Given
<1>2. (IF x \in K THEN <<x>> ELSE <<>>) \in Seq(S)
  BY EmptySeq
<1>3. Sel(<<x>>, K) = FlattenSeq(Given(<<x>>, K))
  BY DEF Sel
<1> QED
  BY <1>1, <1>2, <1>3, FlattenOne

LEMMA SelConcat ==
  ASSUME NEW S, NEW K, NEW a \in Seq(S), NEW b \in Seq(S)
  PROVE  Sel(a \o b, K) = Sel(a, K) \o Sel(b, K)
<1>1. Given(a \o b, K) = Given(a, K) \o Given(b, K)
  <2> DEFINE c == a \o b
             l == Given(c, K)
             r == Given(a, K) \o Given(b, K)
  <2>1. c \in Seq(S) /\ Len(c) = Len(a) + Len(b)
        /\ \A i \in 1 .. Len(a) + Len(b) :
             c[i] = IF i <= Len(a) THEN a[i] ELSE b[i - Len(a)]
    BY ConcatProperties
  <2>2. l \in Seq(Seq(S)) /\ Len(l) = Len(a) + Len(b)
    <3> HIDE DEF c
    <3> QED
      BY <2>1, GivenProperties
  <2>3. r \in Seq(Seq(S)) /\ Len(r) = Len(a) + Len(b)
        /\ \A i \in 1 .. Len(a) + Len(b) :
             r[i] = IF i <= Len(a) THEN Given(a, K)[i]
                                   ELSE Given(b, K)[i - Len(a)]
    <3> DEFINE x == Given(a, K)
               y == Given(b, K)
    <3>1. /\ x \in Seq(Seq(S)) /\ Len(x) = Len(a)
          /\ y \in Seq(Seq(S)) /\ Len(y) = Len(b)
      BY GivenProperties
    <3> HIDE DEF x, y
    <3>2. /\ x \o y \in Seq(Seq(S)) /\ Len(x \o y) = Len(x) + Len(y)
          /\ \A i \in 1 .. Len(x) + Len(y) :
               (x \o y)[i] = IF i <= Len(x) THEN x[i] ELSE y[i - Len(x)]
      BY <3>1, ConcatProperties
    <3> QED
      BY <3>1, <3>2 DEF x, y
  <2>4. ASSUME NEW i \in 1 .. Len(a) + Len(b) PROVE l[i] = r[i]
    <3>1. DOMAIN a = 1 .. Len(a) /\ DOMAIN b = 1 .. Len(b)
          /\ Len(a) \in Nat /\ Len(b) \in Nat
          /\ DOMAIN c = 1 .. Len(a) + Len(b)
      BY <2>1, LenProperties
    <3> HIDE DEF c
    <3>2. l[i] = IF c[i] \in K THEN <<c[i]>> ELSE <<>>
      BY <3>1 DEF Given
    <3>3. CASE i <= Len(a)
      <4>1. i \in 1 .. Len(a)
        BY <3>1, <3>3
      <4>2. r[i] = Given(a, K)[i] /\ c[i] = a[i]
        BY <2>1, <2>3, <3>3
      <4>3. Given(a, K)[i] = IF a[i] \in K THEN <<a[i]>> ELSE <<>>
        BY <3>1, <4>1 DEF Given
      <4> HIDE DEF l, r
      <4> QED
        BY <3>2, <4>2, <4>3
    <3>4. CASE ~ (i <= Len(a))
      <4> DEFINE j == i - Len(a)
      <4>1. j \in 1 .. Len(b)
        BY <3>1, <3>4
      <4>2. r[i] = Given(b, K)[j] /\ c[i] = b[j]
        BY <2>1, <2>3, <3>4
      <4> HIDE DEF j
      <4>3. Given(b, K)[j] = IF b[j] \in K THEN <<b[j]>> ELSE <<>>
        BY <3>1, <4>1 DEF Given
      <4> HIDE DEF l, r
      <4> QED
        BY <3>2, <4>2, <4>3
    <3> QED
      BY <3>3, <3>4
  <2> HIDE DEF l, r
  <2>5. l = r
    BY <2>2, <2>3, <2>4, SeqEqual
  <2> QED
    BY <2>5 DEF l, r
<1>2. /\ Given(a, K) \in Seq(Seq(S)) /\ Given(b, K) \in Seq(Seq(S))
      /\ a \o b \in Seq(S)
  BY GivenProperties, ConcatProperties
<1>3. FlattenSeq(Given(a, K) \o Given(b, K))
        = FlattenSeq(Given(a, K)) \o FlattenSeq(Given(b, K))
  BY <1>2, FlattenConcat
<1> QED
  BY <1>1, <1>2, <1>3, GivenProperties

LEMMA SelAppend ==
  ASSUME NEW S, NEW K, NEW s \in Seq(S), NEW x \in S
  PROVE  Sel(Append(s, x), K) = IF x \in K THEN Append(Sel(s, K), x)
                                           ELSE Sel(s, K)
<1>1. Append(s, x) = s \o <<x>> /\ <<x>> \in Seq(S)
  BY AppendIsConcat
<1>2. Sel(Append(s, x), K) = Sel(s, K) \o (IF x \in K THEN <<x>> ELSE <<>>)
  <2>1. Sel(s \o <<x>>, K) = Sel(s, K) \o Sel(<<x>>, K)
    BY <1>1, SelConcat
  <2>2. Sel(<<x>>, K) = IF x \in K THEN <<x>> ELSE <<>>
    BY SelOne
  <2> QED
    BY <1>1, <2>1, <2>2
<1>3. Sel(s, K) \in Seq(S)
  BY SelType
<1> QED
  BY <1>2, <1>3, ConcatEmptySeq, AppendIsConcat

LEMMA SelAll ==
  ASSUME NEW S, NEW K, S \subseteq K, NEW s \in Seq(S)
  PROVE  Sel(s, K) = s
<1> DEFINE T == {r \in Seq(S) : Sel(r, K) = r}
<1>1. <<>> \in T
  BY SelEmpty, EmptySeq
<1>2. ASSUME NEW r \in Seq(S), NEW x \in S, r \in T PROVE Append(r, x) \in T
  BY <1>2, SelAppend, AppendProperties
<1>3. Seq(S) \subseteq T
  <2> HIDE DEF T
  <2> QED
    BY <1>1, <1>2, SeqSetInduction
<1> QED
  BY <1>3

LEMMA SelNone ==
  ASSUME NEW S, NEW K, S \intersect K = {}, NEW s \in Seq(S)
  PROVE  Sel(s, K) = <<>>
<1> DEFINE T == {r \in Seq(S) : Sel(r, K) = <<>>}
<1>1. <<>> \in T
  BY SelEmpty, EmptySeq
<1>2. ASSUME NEW r \in Seq(S), NEW x \in S, r \in T PROVE Append(r, x) \in T
  <2>1. ~ (x \in K)
    OBVIOUS
  <2> QED
    BY <1>2, <2>1, SelAppend, AppendProperties
<1>3. Seq(S) \subseteq T
  <2> HIDE DEF T
  <2> QED
    BY <1>1, <1>2, SeqSetInduction
<1> QED
  BY <1>3

(* what goes through a concatenation goes through a text in parts *)
Each(h, ss) == [i \in DOMAIN ss |-> h[ss[i]]]

LEMMA FlattenThrough ==
  ASSUME NEW S, NEW V, NEW h \in [Seq(S) -> Seq(V)], h[<<>>] = <<>>,
         \A a, b \in Seq(S) : h[a \o b] = h[a] \o h[b],
         NEW ss \in Seq(Seq(S))
  PROVE  h[FlattenSeq(ss)] = FlattenSeq(Each(h, ss))
<1> DEFINE Picked(p) == [i \in DOMAIN p |-> h[p[i]]]
           T == {p \in Seq(Seq(S)) :
                   h[FlattenSeq(p)] = FlattenSeq(Picked(p))}
<1>1. <<>> \in T
  <2>1. Picked(<<>>) = <<>>
    OBVIOUS
  <2>2. h[FlattenSeq(<<>>)] = FlattenSeq(Picked(<<>>))
    BY <2>1, FlattenEmpty
  <2> QED
    BY <2>2, EmptySeq
<1>2. ASSUME NEW p \in Seq(Seq(S)), NEW x \in Seq(S), p \in T
      PROVE  Append(p, x) \in T
  <2> DEFINE a == Append(p, x)
             n == Len(p)
  <2>1. a \in Seq(Seq(S)) /\ n \in Nat /\ Len(a) = n + 1 /\ a[n + 1] = x
        /\ DOMAIN p = 1 .. n /\ DOMAIN a = 1 .. n + 1
        /\ \A i \in 1 .. n : a[i] = p[i]
    BY AppendProperties, LenProperties
  <2>2. Picked(p) \in Seq(Seq(V)) /\ Len(Picked(p)) = n
    <3>1. \A i \in 1 .. n : h[p[i]] \in Seq(V)
      BY <2>1, ElementOfSeq
    <3>2. Picked(p) \in [1 .. n -> Seq(V)]
      BY <2>1, <3>1
    <3> HIDE DEF Picked, n
    <3> QED
      BY <2>1, <3>2, FunctionIsSeq
  <2>3. Picked(a) \in Seq(Seq(V)) /\ Len(Picked(a)) = n + 1
    <3>1. \A i \in 1 .. n + 1 : h[a[i]] \in Seq(V)
      <4> HIDE DEF a, n
      <4> QED
        BY <2>1, ElementOfSeq
    <3>2. Picked(a) \in [1 .. n + 1 -> Seq(V)]
      BY <2>1, <3>1
    <3>3. n + 1 \in Nat
      BY <2>1
    <3> HIDE DEF Picked, n, a
    <3> QED
      BY <3>2, <3>3, FunctionIsSeq
  <2>4. Picked(a) = Append(Picked(p), h[x])
    <3>1. h[x] \in Seq(V)
      OBVIOUS
    <3>2. /\ Append(Picked(p), h[x]) \in Seq(Seq(V))
          /\ Len(Append(Picked(p), h[x])) = n + 1
          /\ \A i \in 1 .. n :
               Append(Picked(p), h[x])[i] = Picked(p)[i]
          /\ Append(Picked(p), h[x])[n + 1] = h[x]
      <4> DEFINE pp == Picked(p)
      <4> HIDE DEF pp
      <4>1. pp \in Seq(Seq(V)) /\ Len(pp) = n
        BY <2>2 DEF pp
      <4> HIDE DEF n
      <4> QED
        BY <3>1, <4>1, AppendProperties DEF pp
    <3>3. \A i \in 1 .. n : Picked(a)[i] = Picked(p)[i]
      <4> HIDE DEF a, n
      <4>1. \A i \in 1 .. n : i \in 1 .. n + 1
        BY <2>1
      <4> QED
        BY <2>1, <4>1
    <3>4. Picked(a)[n + 1] = h[x]
      <4> HIDE DEF a, n
      <4>1. n + 1 \in 1 .. n + 1
        BY <2>1
      <4> QED
        BY <2>1, <4>1
    <3>5. \A i \in 1 .. n + 1 : i \in 1 .. n \/ i = n + 1
      BY <2>1
    <3>6. \A i \in 1 .. n + 1 :
            Picked(a)[i] = Append(Picked(p), h[x])[i]
      <4> HIDE DEF Picked, a, n
      <4> QED
        BY <3>2, <3>3, <3>4, <3>5
    <3> HIDE DEF Picked, a, n
    <3> QED
      BY <2>3, <3>2, <3>6, SeqEqual
  <2>5. FlattenSeq(Picked(a)) = FlattenSeq(Picked(p)) \o h[x]
    <3>1. h[x] \in Seq(V)
      OBVIOUS
    <3> HIDE DEF Picked, a, n
    <3> QED
      BY <2>2, <2>4, <3>1, FlattenAppend
  <2>6. h[FlattenSeq(a)] = h[FlattenSeq(p)] \o h[x]
    <3>1. FlattenSeq(p) \in Seq(S) /\ FlattenSeq(a) = FlattenSeq(p) \o x
      BY FlattenAppend
    <3> HIDE DEF a
    <3> QED
      BY <3>1
  <2>7. h[FlattenSeq(p)] = FlattenSeq(Picked(p))
    BY <1>2
  <2> HIDE DEF Picked
  <2> QED
    BY <2>1, <2>5, <2>6, <2>7
<1>3. Seq(Seq(S)) \subseteq T
  <2> HIDE DEF T
  <2> QED
    BY <1>1, <1>2, SeqSetInduction
<1> QED
  BY <1>3 DEF Each

(* of a text in parts, as of its parts *)
LEMMA SelFlatten ==
  ASSUME NEW S, NEW K, NEW ss \in Seq(Seq(S))
  PROVE  Sel(FlattenSeq(ss), K)
           = FlattenSeq([i \in DOMAIN ss |-> Sel(ss[i], K)])
<1> DEFINE h == [s \in Seq(S) |-> Sel(s, K)]
<1>1. h \in [Seq(S) -> Seq(S)]
  BY SelType
<1>2. h[<<>>] = <<>>
  BY SelEmpty, EmptySeq
<1>3. ASSUME NEW a \in Seq(S), NEW b \in Seq(S)
      PROVE  h[a \o b] = h[a] \o h[b]
  BY SelConcat, ConcatProperties
<1>4. FlattenSeq(ss) \in Seq(S) /\ \A i \in DOMAIN ss : ss[i] \in Seq(S)
  BY FlattenType, LenProperties, ElementOfSeq
<1>5. h[FlattenSeq(ss)] = FlattenSeq(Each(h, ss))
  <2> HIDE DEF h
  <2> QED
    BY <1>1, <1>2, <1>3, FlattenThrough
<1>6. Each(h, ss) = [i \in DOMAIN ss |-> Sel(ss[i], K)]
  BY <1>4 DEF Each
<1> QED
  BY <1>4, <1>5, <1>6

-----------------------------------------------------------------------------
(***************************************************************************)
(* Which workflow a screen is about.  Between two steps only the values of *)
(* the buttons and the private_metadata know it, and they agree with whom  *)
(* and what the person was asked about.                                    *)
(***************************************************************************)
ButtonsName ==
  screen.at \in {"message", "draft"} =>
    /\ person.wf \in WorkflowIds
    /\ \A b \in screen.blocks.buttons : b.value = person.wf

MetadataNames ==
  /\ screen.at = "form" =>
       /\ person.wf = None
       /\ screen.meta.channel = person.channel
  /\ screen.at = "reject" =>
       /\ person.wf \in WorkflowIds
       /\ screen.meta = Metadata(person.wf, person.channel, person.user)

AboutInv == ButtonsName /\ MetadataNames /\ EventsNameTheirWorkflow

LEMMA AboutInit == Init => AboutInv
  BY DEF Init, Channel, AboutInv, ButtonsName, MetadataNames,
         EventsNameTheirWorkflow

LEMMA ShowAbout == Show => AboutInv'
<1> SUFFICES ASSUME Show PROVE AboutInv'
  OBVIOUS
<1>1. PICK user \in Users, channel \in Channels :
        \/ \E kind \in FormKinds : OpenForm(kind, user, channel)
        \/ \E w \in WorkflowIds, owner \in Users, anchored \in BOOLEAN :
             ShowDecision(w, owner, anchored, user, channel)
        \/ \E w \in WorkflowIds, owner \in Users, t \in Templates :
             ShowDraft(w, owner, t, user, channel)
        \/ \E w \in WorkflowIds, t \in Templates :
             OpenDropModal(w, t, user, channel)
  BY DEF Show
<1>2. CASE \E kind \in FormKinds : OpenForm(kind, user, channel)
  BY <1>2 DEF OpenForm, ModalView, Metadata, Open, AboutInv, ButtonsName,
              MetadataNames, EventsNameTheirWorkflow
<1>3. CASE \E w \in WorkflowIds, owner \in Users, anchored \in BOOLEAN :
             ShowDecision(w, owner, anchored, user, channel)
  BY <1>3 DEF ShowDecision, BuildIssueDecisionBlocks, Button, Open, AboutInv,
              ButtonsName, MetadataNames, EventsNameTheirWorkflow
<1>4. CASE \E w \in WorkflowIds, owner \in Users, t \in Templates :
             ShowDraft(w, owner, t, user, channel)
  BY <1>4 DEF ShowDraft, BuildIssueBlocks, Button, Open, AboutInv,
              ButtonsName, MetadataNames, EventsNameTheirWorkflow
<1>5. CASE \E w \in WorkflowIds, t \in Templates :
             OpenDropModal(w, t, user, channel)
  BY <1>5 DEF OpenDropModal, BuildDropModal, Open, AboutInv, ButtonsName,
              MetadataNames, EventsNameTheirWorkflow
<1> QED
  BY <1>1, <1>2, <1>3, <1>4, <1>5

(* an answer with these fields of its event is about what was asked *)
LEMMA HandAbout ==
  ASSUME NEW answer, Hand(answer),
         answer.event.user = person.user,
         answer.event.channel = person.channel,
         answer.event.wf = person.wf,
         answer.event.type # "pipeline_start" => person.wf \in WorkflowIds
  PROVE  AboutInv'
  BY DEF Hand, Channel, AboutInv, ButtonsName, MetadataNames,
         EventsNameTheirWorkflow

LEMMA PressAbout ==
  ASSUME AboutInv, NEW type, NEW action, Press(type, action)
  PROVE  AboutInv'
<1>1. PICK w \in ValuesOf(action) :
        Hand([event |-> Event(type, w, person.user, person.channel)])
  BY DEF Press
<1>2. w = person.wf /\ person.wf \in WorkflowIds
  BY <1>1 DEF ValuesOf, AboutInv, ButtonsName
<1> QED
  BY <1>1, <1>2, HandAbout DEF Event

LEMMA AnswerAbout == AboutInv /\ Answer => AboutInv'
<1> SUFFICES ASSUME AboutInv, Answer PROVE AboutInv'
  OBVIOUS
<1>1. ASSUME NEW values \in [BlockIds(screen.kind) -> Values],
             SubmitForm(values)
      PROVE  AboutInv'
  <2>1. /\ screen.at = "form"
        /\ Hand([event  |-> Event("pipeline_start", None, person.user,
                                  screen.meta.channel),
                 kind   |-> screen.kind, typed |-> values,
                 prompt |-> ToPrompt(screen.kind,
                                     FromView(screen.kind, values))])
    BY <1>1 DEF SubmitForm
  <2>2. person.wf = None /\ screen.meta.channel = person.channel
    BY <2>1 DEF AboutInv, MetadataNames
  <2> QED
    BY <2>1, <2>2, HandAbout DEF Event
<1>2. ASSUME NEW action, PressDecision(action) PROVE AboutInv'
  BY <1>2, PressAbout DEF PressDecision
<1>3. PressAccept => AboutInv'
  BY PressAbout DEF PressAccept
<1>4. PressDrop => AboutInv'
  BY PressAbout DEF PressDrop
<1>5. PressReject => AboutInv'
  BY DEF PressReject, ValuesOf, BuildRejectModal, AboutInv, ButtonsName,
         MetadataNames, EventsNameTheirWorkflow
<1>6. ASSUME NEW additional, SubmitReject(additional) PROVE AboutInv'
  <2>1. /\ screen.at = "reject"
        /\ Hand([event |-> Event("reject", screen.meta.workflowId,
                                 screen.meta.user, screen.meta.channel),
                 feedback |-> additional # <<>>])
    BY <1>6 DEF SubmitReject
  <2>2. /\ screen.meta.workflowId = person.wf
        /\ screen.meta.user = person.user
        /\ screen.meta.channel = person.channel
        /\ person.wf \in WorkflowIds
    BY <2>1 DEF AboutInv, MetadataNames, Metadata
  <2> QED
    BY <2>1, <2>2, HandAbout DEF Event
<1>7. ASSUME NEW id, Tick(id) PROVE AboutInv'
  BY <1>7 DEF Tick, AboutInv, ButtonsName, MetadataNames,
              EventsNameTheirWorkflow
<1>8. Leave => AboutInv'
  BY DEF Leave, Channel, AboutInv, ButtonsName, MetadataNames,
         EventsNameTheirWorkflow
<1> QED
  BY <1>1, <1>2, <1>3, <1>4, <1>5, <1>6, <1>7, <1>8 DEF Answer

(***************************************************************************)
(* Every event handed on is about the workflow the answered message was    *)
(* of, from the user and the channel the answer was given in: what         *)
(* payload_mapper puts into the values of the buttons and slash.py into    *)
(* the private_metadata is what the handlers read back.                    *)
(***************************************************************************)
THEOREM AnswersNameTheirWorkflow == Spec => []EventsNameTheirWorkflow
<1>1. AboutInv /\ UNCHANGED vars => AboutInv'
  BY DEF vars, AboutInv, ButtonsName, MetadataNames, EventsNameTheirWorkflow
<1>2. AboutInv /\ [Next]_vars => AboutInv'
  BY <1>1, ShowAbout, AnswerAbout DEF Next
<1>3. AboutInv => EventsNameTheirWorkflow
  BY DEF AboutInv
<1> QED
  BY <1>2, <1>3, AboutInit, PTL DEF Spec

-----------------------------------------------------------------------------
(***************************************************************************)
(* _section_blocks cuts a text into sections.  The cuts are at multiples   *)
(* of the limit, so that the numbers come first.                           *)
(***************************************************************************)
LEMMA SectionCount ==
  ASSUME NEW n \in Nat, NEW l \in Nat \ {0}, NEW q, q = (n + l - 1) \div l
  PROVE  q \in Nat /\ q * l >= n /\ q * l <= n + l - 1
  OBVIOUS

LEMMA Multiple == ASSUME NEW a \in Nat, NEW b \in Nat PROVE a * b \in Nat
  OBVIOUS

LEMMA MultipleNext ==
  ASSUME NEW a \in Int, NEW l \in Nat PROVE (a - 1) * l = a * l - l
  OBVIOUS

LEMMA MultiplesGrow ==
  ASSUME NEW a \in Nat, NEW b \in Nat, NEW l \in Nat, a <= b
  PROVE  a * l <= b * l
  OBVIOUS

(* where the i-th section of a text of n entries begins and ends *)
Begin(i) == (i - 1) * SectionLimit + 1
End(i, n) == IF i * SectionLimit < n THEN i * SectionLimit ELSE n

LEMMA Cuts ==
  ASSUME NEW n \in Nat, NEW q, q = (n + SectionLimit - 1) \div SectionLimit
  PROVE  /\ q \in Nat
         /\ q = 0 <=> n = 0
         /\ \A i \in 1 .. q :
              /\ Begin(i) \in 1 .. n
              /\ End(i, n) \in Begin(i) .. n
              /\ End(i, n) - Begin(i) + 1 \in 1 .. SectionLimit
              /\ i = 1 => Begin(i) = 1
              /\ i # 1 => Begin(i) = End(i - 1, n) + 1
              /\ i = q => End(i, n) = n
<1> DEFINE l == SectionLimit
<1>1. l \in Nat \ {0}
  BY LimitAssumption
<1>l. l = SectionLimit
  OBVIOUS
<1> HIDE DEF l
<1>2. q \in Nat /\ q * l >= n /\ q * l <= n + l - 1
  BY <1>1, <1>l, SectionCount
<1>3. q = 0 <=> n = 0
  <2>1. q = 0 => q * l = 0
    BY <1>1
  <2>2. ASSUME n = 0, q # 0 PROVE FALSE
    <3>1. 1 * l <= q * l
      BY <1>1, <1>2, <2>2, MultiplesGrow
    <3> QED
      BY <1>1, <1>2, <2>2, <3>1
  <2> QED
    BY <1>2, <2>1, <2>2
<1>4. ASSUME NEW i \in 1 .. q
      PROVE  /\ Begin(i) \in 1 .. n
             /\ End(i, n) \in Begin(i) .. n
             /\ End(i, n) - Begin(i) + 1 \in 1 .. SectionLimit
             /\ i = 1 => Begin(i) = 1
             /\ i # 1 => Begin(i) = End(i - 1, n) + 1
             /\ i = q => End(i, n) = n
  <2> DEFINE a == (i - 1) * l
             b == i * l
  <2>1. i \in Nat /\ i - 1 \in Nat /\ i <= q
    BY <1>2
  <2>2. b <= q * l
    BY <1>1, <1>2, <2>1, MultiplesGrow
  <2>3. a = b - l /\ a \in Nat /\ b \in Nat
    BY <1>1, <2>1, MultipleNext, Multiple
  <2>4. i = 1 => a = 0
    BY <1>1
  <2>5. i = q => b = q * l
    OBVIOUS
  <2>6. /\ Begin(i) = a + 1
        /\ End(i, n) = IF b < n THEN b ELSE n
        /\ End(i - 1, n) = IF a < n THEN a ELSE n
    BY <1>l DEF Begin, End
  <2> DEFINE c == q * l
  <2>7. c >= n /\ c <= n + l - 1 /\ b <= c /\ (i = q => b = c) /\ c \in Nat
    BY <1>1, <1>2, <2>2, <2>5, Multiple
  <2> HIDE DEF a, b, c
  <2>8. a < n
    BY <1>1, <2>3, <2>7
  <2>9. /\ Begin(i) \in 1 .. n
        /\ End(i, n) \in Begin(i) .. n
        /\ End(i, n) - Begin(i) + 1 \in 1 .. l
    BY <1>1, <2>3, <2>6, <2>8
  <2>10. i = 1 => Begin(i) = 1
    BY <2>4, <2>6
  <2>11. Begin(i) = End(i - 1, n) + 1
    BY <2>6, <2>8
  <2>12. i = q => End(i, n) = n
    BY <2>3, <2>6, <2>7
  <2> QED
    BY <1>l, <2>9, <2>10, <2>11, <2>12
<1> QED
  BY <1>2, <1>3, <1>4

(* the sections of a text, put together, are the text *)
LEMMA SectionsSayTheText ==
  ASSUME NEW S, NEW s \in Seq(S)
  PROVE  /\ FlattenSeq(SectionBlocks(s)) = s
         /\ \A i \in DOMAIN SectionBlocks(s) :
              Len(SectionBlocks(s)[i]) \in 1 .. SectionLimit
<1> DEFINE n == Len(s)
           q == (n + SectionLimit - 1) \div SectionLimit
           b == SectionBlocks(s)
           f == [i \in 1 .. q |-> SubSeq(s, 1, End(i, n))]
<1>1. n \in Nat
  BY LenProperties
<1>2. b = [i \in 1 .. q |-> SubSeq(s, Begin(i), End(i, n))]
  BY DEF SectionBlocks, Begin, End
<1>3. /\ q \in Nat
      /\ q = 0 <=> n = 0
      /\ \A i \in 1 .. q :
           /\ Begin(i) \in 1 .. n
           /\ End(i, n) \in Begin(i) .. n
           /\ End(i, n) - Begin(i) + 1 \in 1 .. SectionLimit
           /\ i = 1 => Begin(i) = 1
           /\ i # 1 => Begin(i) = End(i - 1, n) + 1
           /\ i = q => End(i, n) = n
  <2> HIDE DEF n
  <2> QED
    BY <1>1, Cuts
<1>n. n = Len(s)
  OBVIOUS
<1>f. f = [i \in 1 .. q |-> SubSeq(s, 1, End(i, n))]
  OBVIOUS
<1> HIDE DEF n, q, b, f
<1>4. ASSUME NEW i \in 1 .. q
      PROVE  b[i] \in Seq(S) /\ Len(b[i]) = End(i, n) - Begin(i) + 1
  <2>1. Begin(i) \in 1 .. n /\ End(i, n) \in Begin(i) .. n
    BY <1>3
  <2>2. Begin(i) \in Int /\ End(i, n) \in Int /\ Begin(i) <= End(i, n)
    BY <2>1
  <2>3. \A j \in Begin(i) .. End(i, n) : s[j] \in S
    <3>1. \A j \in Begin(i) .. End(i, n) : j \in 1 .. Len(s)
      BY <1>1, <1>n, <2>1
    <3> QED
      BY <3>1, ElementOfSeq
  <2>4. /\ SubSeq(s, Begin(i), End(i, n)) \in Seq(S)
        /\ Len(SubSeq(s, Begin(i), End(i, n))) = End(i, n) - Begin(i) + 1
    BY <2>2, <2>3, SubSeqProperties
  <2> QED
    BY <1>2, <2>4
<1>5. DOMAIN b = 1 .. q /\ b \in Seq(Seq(S)) /\ Len(b) = q
  <2>1. b \in [1 .. q -> Seq(S)]
    BY <1>2, <1>4
  <2> QED
    BY <1>3, <2>1, FunctionIsSeq
<1>6. \A i \in DOMAIN b : Len(b[i]) \in 1 .. SectionLimit
  BY <1>3, <1>4, <1>5
<1>7. ASSUME NEW i \in 1 .. q
      PROVE  f[i] = IF i = 1 THEN b[i] ELSE f[i - 1] \o b[i]
  <2>1. f[i] = SubSeq(s, 1, End(i, n))
        /\ b[i] = SubSeq(s, Begin(i), End(i, n))
    BY <1>2, <1>f
  <2>2. CASE i = 1
    BY <1>3, <2>1, <2>2
  <2>3. CASE i # 1
    <3>1. i - 1 \in 1 .. q
      BY <1>3, <2>3
    <3>2. f[i - 1] = SubSeq(s, 1, End(i - 1, n))
      BY <1>f, <3>1
    <3>3. Begin(i) = End(i - 1, n) + 1 /\ End(i, n) \in Begin(i) .. n
          /\ Begin(i) \in 1 .. n
      BY <1>3, <2>3
    <3>4. End(i - 1, n) \in Begin(i - 1) .. n /\ Begin(i - 1) \in 1 .. n
      BY <1>3, <3>1
    <3> DEFINE k == End(i - 1, n)
               e == End(i, n)
    <3>5. k \in 1 - 1 .. Len(s) /\ e \in k .. Len(s) /\ 1 \in 1 .. Len(s) + 1
      BY <1>1, <1>n, <3>3, <3>4
    <3>6. SubSeq(s, 1, k) \o SubSeq(s, k + 1, e) = SubSeq(s, 1, e)
      <4> HIDE DEF k, e
      <4> QED
        BY <3>5, ConcatAdjacentSubSeq
    <3> QED
      BY <2>1, <2>3, <3>2, <3>3, <3>6
  <2> QED
    BY <2>2, <2>3
<1>8. CASE q = 0
  <2>1. s = <<>> /\ b = <<>>
    BY <1>3, <1>5, <1>8, <1>n, EmptySeq
  <2> QED
    BY <1>6, <2>1, FlattenEmpty DEF b
<1>9. CASE q # 0
  <2>1. Flat(f, b)
    <3>1. f = [i \in 1 .. Len(b) |-> IF i = 1 THEN b[i] ELSE f[i - 1] \o b[i]]
      BY <1>5, <1>7, <1>f
    <3> QED
      BY <3>1 DEF Flat
  <2>2. FlattenSeq(b) = f[q]
    <3>1. Len(b) \in Nat \ {0}
      BY <1>3, <1>5, <1>9
    <3>2. FlattenSeq(b) = f[Len(b)]
      BY <2>1, <3>1, FlattenValue
    <3> QED
      BY <1>5, <3>2
  <2>3. q \in 1 .. q /\ End(q, n) = n
    BY <1>3, <1>9
  <2>4. f[q] = s
    BY <1>f, <1>n, <2>3, SubSeqFull
  <2> QED
    BY <1>6, <2>2, <2>4 DEF b
<1> QED
  BY <1>8, <1>9

-----------------------------------------------------------------------------
(***************************************************************************)
(* What a draft shows: its fields' entries, in the order GitHub is given   *)
(* them, under headings.                                                   *)
(***************************************************************************)
FieldNames ==
  {"issue_title", "about", "goal", "additional_info", "new_features",
   "domain_rules", "goals", "domain_constraints", "problems",
   "implementation"}

Cells == FieldNames \X Texts

(* the entries of one field *)
EntriesOf(t, field) ==
  [j \in DOMAIN t.entries[field] |-> <<field, t.entries[field][j]>>]

(* a list of fields, taken one by one *)
LEMMA FieldByField ==
  ASSUME NEW F, NEW V, NEW a \in F, NEW gs \in Seq(F), NEW m \in [F -> V]
  PROVE  [i \in DOMAIN (<<a>> \o gs) |-> m[(<<a>> \o gs)[i]]]
           = <<m[a]>> \o [i \in DOMAIN gs |-> m[gs[i]]]
<1> DEFINE fs == <<a>> \o gs
           l  == [i \in DOMAIN fs |-> m[fs[i]]]
           mg == [i \in DOMAIN gs |-> m[gs[i]]]
           r  == <<m[a]>> \o mg
           n  == Len(gs)
<1>1. n \in Nat /\ DOMAIN gs = 1 .. n /\ \A i \in 1 .. n : gs[i] \in F
  BY LenProperties, ElementOfSeq
<1>2. <<a>> \in Seq(F) /\ Len(<<a>>) = 1 /\ <<a>>[1] = a
  OBVIOUS
<1>3. /\ fs \in Seq(F) /\ Len(fs) = 1 + n
      /\ \A i \in 1 .. 1 + n : fs[i] = IF i <= 1 THEN <<a>>[i] ELSE gs[i - 1]
  <2> DEFINE one == <<a>>
  <2>1. one \in Seq(F) /\ Len(one) = 1
    BY <1>2
  <2> HIDE DEF one
  <2> QED
    BY <2>1, ConcatProperties DEF one
<1>4. mg \in Seq(V) /\ Len(mg) = n /\ \A i \in 1 .. n : mg[i] = m[gs[i]]
  <2>1. mg \in [1 .. n -> V]
    BY <1>1
  <2>2. \A i \in 1 .. n : mg[i] = m[gs[i]]
    BY <1>1
  <2> HIDE DEF mg, n
  <2> QED
    BY <1>1, <2>1, <2>2, FunctionIsSeq
<1>5. /\ r \in Seq(V) /\ Len(r) = 1 + n
      /\ \A i \in 1 .. 1 + n : r[i] = IF i <= 1 THEN <<m[a]>>[i] ELSE mg[i - 1]
  <2> DEFINE one == <<m[a]>>
  <2>1. one \in Seq(V) /\ Len(one) = 1
    OBVIOUS
  <2> HIDE DEF one, mg
  <2> QED
    BY <1>4, <2>1, ConcatProperties DEF one
<1>6. l \in Seq(V) /\ Len(l) = 1 + n /\ \A i \in 1 .. 1 + n : l[i] = m[fs[i]]
  <2> HIDE DEF fs
  <2>1. DOMAIN fs = 1 .. 1 + n /\ \A i \in 1 .. 1 + n : fs[i] \in F
    BY <1>3, LenProperties, ElementOfSeq
  <2>2. l \in [1 .. 1 + n -> V] /\ \A i \in 1 .. 1 + n : l[i] = m[fs[i]]
    BY <2>1
  <2>3. 1 + n \in Nat
    BY <1>1
  <2> HIDE DEF l, n
  <2> QED
    BY <2>2, <2>3, FunctionIsSeq
<1>7. ASSUME NEW i \in 1 .. 1 + n PROVE l[i] = r[i]
  <2> HIDE DEF l, r, fs, mg
  <2>1. CASE i <= 1
    <3>1. i = 1
      BY <1>1, <2>1
    <3>2. fs[i] = a /\ r[i] = m[a]
      BY <1>2, <1>3, <1>5, <3>1
    <3> QED
      BY <1>6, <3>2
  <2>2. CASE ~ (i <= 1)
    <3>1. i - 1 \in 1 .. n
      BY <1>1, <2>2
    <3>2. fs[i] = gs[i - 1] /\ r[i] = mg[i - 1]
      BY <1>3, <1>5, <2>2
    <3>3. mg[i - 1] = m[gs[i - 1]] /\ l[i] = m[fs[i]]
      BY <1>4, <1>6, <3>1
    <3> QED
      BY <3>2, <3>3
  <2> QED
    BY <2>1, <2>2
<1> HIDE DEF l, r
<1>8. l = r
  BY <1>5, <1>6, <1>7, SeqEqual
<1> QED
  BY <1>8 DEF l, r

(* one element, before a list written out *)
LEMMA Prefixed ==
  ASSUME NEW S, NEW x \in S, NEW r \in Seq(S), NEW t \in Seq(S),
         Len(t) = Len(r) + 1, t[1] = x,
         \A i \in 1 .. Len(r), j \in 1 .. Len(t) : j = i + 1 => t[j] = r[i]
  PROVE  <<x>> \o r = t
<1> DEFINE l == <<x>>
<1>1. l \in Seq(S) /\ Len(l) = 1 /\ l[1] = x
  OBVIOUS
<1> HIDE DEF l
<1>2. Len(r) \in Nat
  BY LenProperties
<1>3. /\ l \o r \in Seq(S) /\ Len(l \o r) = Len(l) + Len(r)
      /\ \A i \in 1 .. Len(l) + Len(r) :
           (l \o r)[i] = IF i <= Len(l) THEN l[i] ELSE r[i - Len(l)]
  BY <1>1, ConcatProperties
<1>4. ASSUME NEW i \in 1 .. Len(t) PROVE (l \o r)[i] = t[i]
  <2>1. (l \o r)[i] = IF i <= 1 THEN l[i] ELSE r[i - 1]
    BY <1>1, <1>2, <1>3
  <2>2. CASE i = 1
    BY <1>1, <2>1, <2>2
  <2>3. CASE i # 1
    <3>1. i - 1 \in 1 .. Len(r) /\ i = (i - 1) + 1 /\ ~ (i <= 1)
      BY <1>2, <2>3
    <3> QED
      BY <2>1, <3>1
  <2> QED
    BY <2>2, <2>3
<1> QED
  BY <1>1, <1>2, <1>3, <1>4, SeqEqual DEF l

LEMMA TitleAndFour ==
  ASSUME NEW S, NEW x \in S, NEW a \in S, NEW b \in S, NEW c \in S,
         NEW d \in S
  PROVE  <<x>> \o <<a, b, c, d>> = <<x, a, b, c, d>>
<1> DEFINE r == <<a, b, c, d>>
           t == <<x, a, b, c, d>>
<1>2. /\ r \in Seq(S) /\ Len(r) = 4
      /\ r[1] = a /\ r[2] = b /\ r[3] = c /\ r[4] = d
  OBVIOUS
<1>3. /\ t \in Seq(S) /\ Len(t) = 5
      /\ t[1] = x /\ t[2] = a /\ t[3] = b /\ t[4] = c /\ t[5] = d
  OBVIOUS
<1> HIDE DEF r, t
<1>4. \A i \in 1 .. 4, j \in 1 .. 5 : j = i + 1 => t[j] = r[i]
  <2>1. ASSUME NEW i \in 1 .. 4 PROVE i = 1 \/ i = 2 \/ i = 3 \/ i = 4
    OBVIOUS
  <2>2. ASSUME NEW i \in 1 .. 4, NEW j \in 1 .. 5, j = i + 1 PROVE t[j] = r[i]
    <3>1. /\ i = 1 => j = 2
          /\ i = 2 => j = 3
          /\ i = 3 => j = 4
          /\ i = 4 => j = 5
      BY <2>2
    <3> QED
      BY <1>2, <1>3, <2>1, <3>1
  <2> QED
    BY <2>2
<1>5. <<x>> \o r = t
  <2>1. Len(t) = Len(r) + 1
    BY <1>2, <1>3
  <2>2. \A i \in 1 .. Len(r), j \in 1 .. Len(t) : j = i + 1 => t[j] = r[i]
    BY <1>2, <1>3, <1>4
  <2> QED
    BY <1>2, <1>3, <2>1, <2>2, Prefixed
<1> QED
  BY <1>5 DEF r, t

LEMMA TitleAndFive ==
  ASSUME NEW S, NEW x \in S, NEW a \in S, NEW b \in S, NEW c \in S,
         NEW d \in S, NEW e \in S
  PROVE  <<x>> \o <<a, b, c, d, e>> = <<x, a, b, c, d, e>>
<1> DEFINE r == <<a, b, c, d, e>>
           t == <<x, a, b, c, d, e>>
<1>2. /\ r \in Seq(S) /\ Len(r) = 5
      /\ r[1] = a /\ r[2] = b /\ r[3] = c /\ r[4] = d /\ r[5] = e
  OBVIOUS
<1>3. /\ t \in Seq(S) /\ Len(t) = 6
      /\ t[1] = x /\ t[2] = a /\ t[3] = b /\ t[4] = c /\ t[5] = d /\ t[6] = e
  OBVIOUS
<1> HIDE DEF r, t
<1>4. \A i \in 1 .. 5, j \in 1 .. 6 : j = i + 1 => t[j] = r[i]
  <2>1. ASSUME NEW i \in 1 .. 5 PROVE i = 1 \/ i = 2 \/ i = 3 \/ i = 4 \/ i = 5
    OBVIOUS
  <2>2. ASSUME NEW i \in 1 .. 5, NEW j \in 1 .. 6, j = i + 1 PROVE t[j] = r[i]
    <3>1. /\ i = 1 => j = 2
          /\ i = 2 => j = 3
          /\ i = 3 => j = 4
          /\ i = 4 => j = 5
          /\ i = 5 => j = 6
      BY <2>2
    <3> QED
      BY <1>2, <1>3, <2>1, <3>1
  <2> QED
    BY <2>2
<1>5. <<x>> \o r = t
  <2>1. Len(t) = Len(r) + 1
    BY <1>2, <1>3
  <2>2. \A i \in 1 .. Len(r), j \in 1 .. Len(t) : j = i + 1 => t[j] = r[i]
    BY <1>2, <1>3, <1>4
  <2> QED
    BY <1>2, <1>3, <2>1, <2>2, Prefixed
<1> QED
  BY <1>5 DEF r, t

(* slack_format has the fields of to_github_body, after the title *)
LEMMA SlackFieldsAre ==
  ASSUME NEW kind \in Kinds
  PROVE  /\ SlackFields[kind] = <<"issue_title">> \o TemplateOf[kind].body
         /\ TemplateOf[kind].body \in Seq(FieldNames)
         /\ \A i \in DOMAIN TemplateOf[kind].body :
              TemplateOf[kind].body[i] \in FieldsOf(kind)
         /\ "issue_title" \in FieldsOf(kind)
         /\ FieldsOf(kind) \subseteq FieldNames
<1>1. CASE kind = "feat"
  <2> DEFINE body == <<"about", "goal", "new_features", "domain_rules",
                       "additional_info">>
             all  == <<"issue_title", "about", "goal", "new_features",
                       "domain_rules", "additional_info">>
  <2>1. /\ TemplateOf[kind].body = body
        /\ SlackFields[kind] = all
    BY <1>1 DEF TemplateOf, FeatTemplate, SlackFields
  <2>2. FieldsOf(kind) = FeatTemplate.texts \union FeatTemplate.lists
    BY <1>1 DEF FieldsOf, TemplateOf
  <2>3. <<"issue_title">> \o body = all
    <3>1. /\ "issue_title" \in FieldNames
          /\ "about" \in FieldNames
          /\ "goal" \in FieldNames
          /\ "new_features" \in FieldNames
          /\ "domain_rules" \in FieldNames
          /\ "additional_info" \in FieldNames
      BY DEF FieldNames
    <3> HIDE DEF FieldNames
    <3> QED
      BY <3>1, TitleAndFive
  <2>4. body \in Seq(FieldNames)
    BY DEF FieldNames
  <2>5. \A i \in DOMAIN body : body[i] \in FieldsOf(kind)
    BY <2>2 DEF FeatTemplate
  <2>6. "issue_title" \in FieldsOf(kind) /\ FieldsOf(kind) \subseteq FieldNames
    BY <2>2 DEF FeatTemplate, FieldNames
  <2> QED
    BY <2>1, <2>3, <2>4, <2>5, <2>6
<1>2. CASE kind = "refactor"
  <2> DEFINE body == <<"about", "goals", "domain_rules",
                       "domain_constraints">>
             all  == <<"issue_title", "about", "goals", "domain_rules",
                       "domain_constraints">>
  <2>1. /\ TemplateOf[kind].body = body
        /\ SlackFields[kind] = all
    BY <1>2 DEF TemplateOf, RefactorTemplate, SlackFields
  <2>2. FieldsOf(kind) = RefactorTemplate.texts \union RefactorTemplate.lists
    BY <1>2 DEF FieldsOf, TemplateOf
  <2>3. <<"issue_title">> \o body = all
    <3>1. /\ "issue_title" \in FieldNames
          /\ "about" \in FieldNames
          /\ "goals" \in FieldNames
          /\ "domain_rules" \in FieldNames
          /\ "domain_constraints" \in FieldNames
      BY DEF FieldNames
    <3> HIDE DEF FieldNames
    <3> QED
      BY <3>1, TitleAndFour
  <2>4. body \in Seq(FieldNames)
    BY DEF FieldNames
  <2>5. \A i \in DOMAIN body : body[i] \in FieldsOf(kind)
    BY <2>2 DEF RefactorTemplate
  <2>6. "issue_title" \in FieldsOf(kind) /\ FieldsOf(kind) \subseteq FieldNames
    BY <2>2 DEF RefactorTemplate, FieldNames
  <2> QED
    BY <2>1, <2>3, <2>4, <2>5, <2>6
<1>3. CASE kind = "fix"
  <2> DEFINE body == <<"about", "problems", "implementation", "domain_rules",
                       "domain_constraints">>
             all  == <<"issue_title", "about", "problems", "implementation",
                       "domain_rules", "domain_constraints">>
  <2>1. /\ TemplateOf[kind].body = body
        /\ SlackFields[kind] = all
    BY <1>3 DEF TemplateOf, FixTemplate, SlackFields
  <2>2. FieldsOf(kind) = FixTemplate.texts \union FixTemplate.lists
    BY <1>3 DEF FieldsOf, TemplateOf
  <2>3. <<"issue_title">> \o body = all
    <3>1. /\ "issue_title" \in FieldNames
          /\ "about" \in FieldNames
          /\ "problems" \in FieldNames
          /\ "implementation" \in FieldNames
          /\ "domain_rules" \in FieldNames
          /\ "domain_constraints" \in FieldNames
      BY DEF FieldNames
    <3> HIDE DEF FieldNames
    <3> QED
      BY <3>1, TitleAndFive
  <2>4. body \in Seq(FieldNames)
    BY DEF FieldNames
  <2>5. \A i \in DOMAIN body : body[i] \in FieldsOf(kind)
    BY <2>2 DEF FixTemplate
  <2>6. "issue_title" \in FieldsOf(kind) /\ FieldsOf(kind) \subseteq FieldNames
    BY <2>2 DEF FixTemplate, FieldNames
  <2> QED
    BY <2>1, <2>3, <2>4, <2>5, <2>6
<1> QED
  BY <1>1, <1>2, <1>3 DEF Kinds, TemplateOf

LEMMA EntriesOfType ==
  ASSUME NEW t, IsTemplate(t), NEW field \in FieldsOf(t.kind)
  PROVE  /\ EntriesOf(t, field) \in Seq(Cells)
         /\ t.entries[field] = <<>> => EntriesOf(t, field) = <<>>
<1>1. t.entries[field] \in Seq(Texts) /\ t.kind \in Kinds
  BY DEF IsTemplate
<1>2. field \in FieldNames
  BY <1>1, SlackFieldsAre
<1> DEFINE e == t.entries[field]
           n == Len(e)
<1>3. n \in Nat /\ DOMAIN e = 1 .. n /\ \A j \in 1 .. n : e[j] \in Texts
  BY <1>1, LenProperties, ElementOfSeq
<1>4. EntriesOf(t, field) = [j \in 1 .. n |-> <<field, e[j]>>]
  BY <1>3 DEF EntriesOf
<1>5. EntriesOf(t, field) \in [1 .. n -> Cells]
  BY <1>2, <1>3, <1>4 DEF Cells
<1>6. e = <<>> => EntriesOf(t, field) = <<>>
  <2>1. e = <<>> => DOMAIN e = {}
    OBVIOUS
  <2> QED
    BY <2>1 DEF EntriesOf
<1>7. EntriesOf(t, field) \in Seq(Cells)
  <2> HIDE DEF n
  <2> QED
    BY <1>3, <1>5, FunctionIsSeq
<1> QED
  BY <1>6, <1>7

LEMMA EntriesOfFields ==
  ASSUME NEW t, NEW fields, NEW m,
         \A i \in DOMAIN fields : m[fields[i]] = EntriesOf(t, fields[i])
  PROVE  Entries(t, fields) = FlattenSeq([i \in DOMAIN fields |-> m[fields[i]]])
<1>1. [i \in DOMAIN fields |-> m[fields[i]]]
        = [i \in DOMAIN fields |->
             [j \in DOMAIN t.entries[fields[i]] |->
                <<fields[i], t.entries[fields[i]][j]>>]]
  BY DEF EntriesOf
<1> QED
  BY <1>1 DEF Entries

LEMMA EntriesOfOne ==
  ASSUME NEW t, IsTemplate(t), NEW field \in FieldsOf(t.kind)
  PROVE  Entries(t, <<field>>) = EntriesOf(t, field)
<1> DEFINE es == [i \in DOMAIN <<field>> |->
                    [j \in DOMAIN t.entries[<<field>>[i]] |->
                       <<<<field>>[i], t.entries[<<field>>[i]][j]>>]]
<1>1. es = <<EntriesOf(t, field)>>
  BY DEF EntriesOf
<1>2. FlattenSeq(<<EntriesOf(t, field)>>) = EntriesOf(t, field)
  BY EntriesOfType, FlattenOne
<1>3. Entries(t, <<field>>) = FlattenSeq(es)
  BY DEF Entries
<1> QED
  BY <1>1, <1>2, <1>3

(* everything a draft is made of: whom it is for, headings and entries *)
ShownTo(user) ==
  FieldNames \X (Texts \union {"heading"}) \union {<<"user", user>>}

LEMMA ShownSaid ==
  ASSUME NEW user
  PROVE  /\ Cells \subseteq ShownTo(user)
         /\ \A c \in ShownTo(user) :
              c[1] # "user" /\ c[2] # "heading" <=> c \in Cells
  BY HeadingAssumption DEF Cells, ShownTo, FieldNames

(* a part of the draft says the entries of its field and nothing else *)
LEMMA PartSays ==
  ASSUME NEW t, IsTemplate(t), NEW field \in FieldsOf(t.kind), NEW user
  PROVE  /\ Part(t, field) \in Seq(ShownTo(user))
         /\ Sel(Part(t, field), Cells) = EntriesOf(t, field)
<1> DEFINE e == EntriesOf(t, field)
           S == ShownTo(user)
<1>1. e \in Seq(Cells) /\ (t.entries[field] = <<>> => e = <<>>)
      /\ Entries(t, <<field>>) = e
  BY EntriesOfType, EntriesOfOne
<1>2. e \in Seq(S)
  <2> HIDE DEF e
  <2> QED
    BY <1>1, ShownSaid, SeqMonotonic
<1>3. Sel(e, Cells) = e
  <2> HIDE DEF e
  <2> QED
    BY <1>1, SelAll
<1>4. Heading(field) \in S /\ ~ (Heading(field) \in Cells)
  <2>1. field \in FieldNames
    BY SlackFieldsAre DEF IsTemplate
  <2> QED
    BY <2>1, HeadingAssumption DEF Heading, ShownTo, Cells
<1>5. /\ <<Heading(field)>> \o e \in Seq(S)
      /\ Sel(<<Heading(field)>> \o e, Cells) = e
  <2> DEFINE h == <<Heading(field)>>
  <2>1. h \in Seq(S) /\ Sel(h, Cells) = <<>>
    <3>1. h \in Seq(S)
      BY <1>4
    <3>2. Sel(h, Cells) = <<>>
      BY <1>4, SelOne
    <3> QED
      BY <3>1, <3>2
  <2> HIDE DEF e, h, S
  <2>2. h \o e \in Seq(S) /\ Sel(h \o e, Cells) = Sel(h, Cells) \o Sel(e, Cells)
    BY <1>2, <2>1, ConcatProperties, SelConcat
  <2>3. <<>> \o e = e
    BY <1>2, ConcatEmptySeq
  <2>4. h \o e \in Seq(S) /\ Sel(h \o e, Cells) = e
    BY <1>3, <2>1, <2>2, <2>3
  <2> QED
    BY <2>4 DEF h
<1>6. <<>> \in Seq(S)
  BY EmptySeq
<1> HIDE DEF S, e
<1>7. CASE field \in {"issue_title", "about", "goals"}
  BY <1>1, <1>2, <1>3, <1>7 DEF Part, S, e
<1>8. CASE /\ ~ (field \in {"issue_title", "about", "goals"})
           /\ field \in {"goal", "additional_info"}
           /\ t.entries[field] = <<>>
  BY <1>1, <1>6, <1>8, SelEmpty DEF Part, S, e
<1>9. CASE /\ ~ (field \in {"issue_title", "about", "goals"})
           /\ ~ (/\ field \in {"goal", "additional_info"}
                 /\ t.entries[field] = <<>>)
  <2>1. Part(t, field) = <<Heading(field)>> \o e
    BY <1>1, <1>9 DEF Part
  <2> QED
    BY <1>5, <2>1 DEF S, e
<1> QED
  BY <1>7, <1>8, <1>9

(* slack_format says the title and then the body of the GitHub issue *)
LEMMA SlackFormatSays ==
  ASSUME NEW t, IsTemplate(t), NEW user
  PROVE  /\ SlackFormat(t) \in Seq(ShownTo(user))
         /\ Sel(SlackFormat(t), Cells)
              = EntriesOf(t, "issue_title") \o ToGithubPayload(t).body
<1> DEFINE F    == FieldsOf(t.kind)
           body == TemplateOf[t.kind].body
           all  == SlackFields[t.kind]
           m    == [f \in F |-> EntriesOf(t, f)]
           ps   == [i \in DOMAIN all |-> Part(t, all[i])]
           S    == ShownTo(user)
<1>1. /\ all = <<"issue_title">> \o body
      /\ body \in Seq(FieldNames)
      /\ \A i \in DOMAIN body : body[i] \in F
      /\ "issue_title" \in F
  BY SlackFieldsAre DEF IsTemplate
<1>2. body \in Seq(F)
  <2>1. body \in [1 .. Len(body) -> F] /\ Len(body) \in Nat
    BY <1>1, LenProperties
  <2> HIDE DEF F, body
  <2> QED
    BY <2>1, FunctionIsSeq
<1>3. m \in [F -> Seq(Cells)]
  BY EntriesOfType
<1>4. all \in Seq(F) /\ \A i \in DOMAIN all : all[i] \in F
  <2>1. <<"issue_title">> \in Seq(F)
    BY <1>1
  <2> HIDE DEF F, body, all
  <2>2. all \in Seq(F)
    BY <1>1, <1>2, <2>1, ConcatProperties
  <2> QED
    BY <2>2, LenProperties, ElementOfSeq
<1>5. ASSUME NEW i \in DOMAIN all
      PROVE  ps[i] \in Seq(S) /\ Sel(ps[i], Cells) = m[all[i]]
  <2>1. all[i] \in F
    BY <1>4
  <2>2. ps[i] = Part(t, all[i]) /\ m[all[i]] = EntriesOf(t, all[i])
    BY <2>1
  <2> HIDE DEF ps, m, all, S
  <2>3. Part(t, all[i]) \in Seq(S) /\ Sel(Part(t, all[i]), Cells)
                                       = EntriesOf(t, all[i])
    BY <2>1, PartSays DEF S
  <2> QED
    BY <2>2, <2>3
<1>6. ps \in Seq(Seq(S)) /\ DOMAIN ps = DOMAIN all
  <2>1. DOMAIN all = 1 .. Len(all) /\ Len(all) \in Nat
    <3> HIDE DEF all, F
    <3> QED
      BY <1>4, LenProperties
  <2>2. ps \in [1 .. Len(all) -> Seq(S)]
    <3>1. \A i \in 1 .. Len(all) : Part(t, all[i]) \in Seq(S)
      BY <1>5, <2>1
    <3> HIDE DEF all, S
    <3> QED
      BY <2>1, <3>1
  <2> HIDE DEF all, S, ps
  <2> QED
    BY <2>1, <2>2, FunctionIsSeq
<1>7. SlackFormat(t) = FlattenSeq(ps)
  BY DEF SlackFormat
<1>8. SlackFormat(t) \in Seq(S)
  <2> HIDE DEF ps, S
  <2> QED
    BY <1>6, <1>7, FlattenType
<1>9. Sel(SlackFormat(t), Cells)
        = FlattenSeq([i \in DOMAIN all |-> m[all[i]]])
  <2>1. Sel(FlattenSeq(ps), Cells)
          = FlattenSeq([i \in DOMAIN ps |-> Sel(ps[i], Cells)])
    <3> HIDE DEF ps, S
    <3> QED
      BY <1>6, SelFlatten
  <2>2. [i \in DOMAIN ps |-> Sel(ps[i], Cells)]
          = [i \in DOMAIN all |-> m[all[i]]]
    <3> HIDE DEF ps, S, m, all
    <3> QED
      BY <1>5, <1>6
  <2> QED
    BY <1>7, <2>1, <2>2
<1>10. [i \in DOMAIN all |-> m[all[i]]]
         = <<m["issue_title"]>> \o [i \in DOMAIN body |-> m[body[i]]]
  <2> HIDE DEF all, m, body, F
  <2> QED
    BY <1>1, <1>2, <1>3, FieldByField
<1>11. [i \in DOMAIN body |-> m[body[i]]] \in Seq(Seq(Cells))
  <2>1. DOMAIN body = 1 .. Len(body) /\ Len(body) \in Nat
    <3> HIDE DEF body, F
    <3> QED
      BY <1>2, LenProperties
  <2>2. [i \in DOMAIN body |-> m[body[i]]] \in [1 .. Len(body) -> Seq(Cells)]
    <3> HIDE DEF body, F, m
    <3> QED
      BY <1>1, <1>3, <2>1
  <2> HIDE DEF body, m
  <2> QED
    BY <2>1, <2>2, FunctionIsSeq
<1>12. FlattenSeq(<<m["issue_title"]>> \o [i \in DOMAIN body |-> m[body[i]]])
         = m["issue_title"] \o FlattenSeq([i \in DOMAIN body |-> m[body[i]]])
  <2> DEFINE x == m["issue_title"]
             r == [i \in DOMAIN body |-> m[body[i]]]
  <2>1. x \in Seq(Cells)
    <3> HIDE DEF m, F
    <3> QED
      BY <1>1, <1>3
  <2>r. r \in Seq(Seq(Cells))
    BY <1>11
  <2> HIDE DEF x, r
  <2>2. <<x>> \in Seq(Seq(Cells)) /\ FlattenSeq(<<x>>) = x
    BY <2>1, FlattenOne
  <2>3. FlattenSeq(<<x>> \o r) = FlattenSeq(<<x>>) \o FlattenSeq(r)
    BY <2>2, <2>r, FlattenConcat
  <2>4. FlattenSeq(<<x>> \o r) = x \o FlattenSeq(r)
    BY <2>2, <2>3
  <2> QED
    BY <2>4 DEF x, r
<1>13. ToGithubPayload(t).body = FlattenSeq([i \in DOMAIN body |-> m[body[i]]])
  <2>1. \A i \in DOMAIN body : m[body[i]] = EntriesOf(t, body[i])
    BY <1>1
  <2>2. Entries(t, body) = FlattenSeq([i \in DOMAIN body |-> m[body[i]]])
    <3> HIDE DEF m, body
    <3> QED
      BY <2>1, EntriesOfFields
  <2> QED
    BY <2>2 DEF ToGithubPayload
<1>14. m["issue_title"] = EntriesOf(t, "issue_title")
  BY <1>1
<1> HIDE DEF all, m, body, S, ps, F
<1>15. Sel(SlackFormat(t), Cells)
         = EntriesOf(t, "issue_title") \o ToGithubPayload(t).body
  BY <1>9, <1>10, <1>12, <1>13, <1>14
<1> QED
  BY <1>8, <1>15 DEF S

LEMMA DraftSays ==
  ASSUME NEW t, IsTemplate(t), NEW user, NEW w
  PROVE  /\ Said(BuildIssueBlocks(user, t, w).sections)
              = [i \in DOMAIN t.entries["issue_title"] |->
                   <<"issue_title", t.entries["issue_title"][i]>>]
                  \o ToGithubPayload(t).body
         /\ \A i \in DOMAIN BuildIssueBlocks(user, t, w).sections :
              Len(BuildIssueBlocks(user, t, w).sections[i])
                \in 1 .. SectionLimit
<1> DEFINE S    == ShownTo(user)
           text == Mention(user) \o SlackFormat(t)
           sections == SectionBlocks(text)
<1>1. /\ SlackFormat(t) \in Seq(S)
      /\ Sel(SlackFormat(t), Cells)
           = EntriesOf(t, "issue_title") \o ToGithubPayload(t).body
  BY SlackFormatSays
<1>2. Mention(user) \in Seq(S) /\ Sel(Mention(user), Cells) = <<>>
  <2>1. <<"user", user>> \in S /\ ~ (<<"user", user>> \in Cells)
    BY DEF ShownTo, Cells, FieldNames
  <2>2. <<<<"user", user>>>> \in Seq(S)
    BY <2>1
  <2>3. Sel(<<<<"user", user>>>>, Cells) = <<>>
    BY <2>1, SelOne
  <2> QED
    BY <2>2, <2>3 DEF Mention
<1>3. text \in Seq(S) /\ Sel(text, Cells) = Sel(SlackFormat(t), Cells)
  <2> DEFINE f == SlackFormat(t)
             h == Mention(user)
  <2>1. f \in Seq(S) /\ h \in Seq(S) /\ Sel(h, Cells) = <<>>
    BY <1>1, <1>2
  <2> HIDE DEF f, h, S
  <2>2. h \o f \in Seq(S) /\ Sel(h \o f, Cells) = Sel(h, Cells) \o Sel(f, Cells)
    BY <2>1, ConcatProperties, SelConcat
  <2>3. Sel(f, Cells) \in Seq(S)
    BY <2>1, SelType
  <2>4. <<>> \o Sel(f, Cells) = Sel(f, Cells)
    BY <2>3, ConcatEmptySeq
  <2>5. Sel(h \o f, Cells) = Sel(f, Cells)
    BY <2>1, <2>2, <2>4
  <2> QED
    BY <2>2, <2>5 DEF h, f
<1>4. /\ FlattenSeq(sections) = text
      /\ \A i \in DOMAIN sections : Len(sections[i]) \in 1 .. SectionLimit
  <2> HIDE DEF text, S
  <2> QED
    BY <1>3, SectionsSayTheText
<1>5. Said(sections) = Sel(text, Cells)
  <2>1. Said(sections)
          = FlattenSeq([i \in DOMAIN text |->
              IF text[i][1] # "user" /\ text[i][2] # "heading"
                THEN <<text[i]>> ELSE <<>>])
    <3> HIDE DEF text, sections
    <3> QED
      BY <1>4 DEF Said, Where
  <2>2. \A i \in DOMAIN text : text[i] \in S
    <3> HIDE DEF text, S
    <3> QED
      BY <1>3, LenProperties, ElementOfSeq
  <2>3. \A i \in DOMAIN text :
          text[i][1] # "user" /\ text[i][2] # "heading" <=> text[i] \in Cells
    <3> HIDE DEF text
    <3> QED
      BY <2>2, ShownSaid
  <2>4. Given(text, Cells)
          = [i \in DOMAIN text |->
              IF text[i][1] # "user" /\ text[i][2] # "heading"
                THEN <<text[i]>> ELSE <<>>]
    <3> HIDE DEF text
    <3> QED
      BY <2>3 DEF Given
  <2> QED
    BY <2>1, <2>4 DEF Sel
<1>6. BuildIssueBlocks(user, t, w).sections = sections
  BY DEF BuildIssueBlocks
<1>7. EntriesOf(t, "issue_title")
        = [i \in DOMAIN t.entries["issue_title"] |->
             <<"issue_title", t.entries["issue_title"][i]>>]
  BY DEF EntriesOf
<1> HIDE DEF sections, text
<1> QED
  BY <1>1, <1>3, <1>4, <1>5, <1>6, <1>7

(* a draft is shown as it was built, of a template *)
DraftAsBuilt ==
  screen.at = "draft" =>
    /\ IsTemplate(screen.template)
    /\ \E owner, w : screen.blocks = BuildIssueBlocks(owner, screen.template, w)

LEMMA ShowDraftAsBuilt == Show => DraftAsBuilt'
<1> SUFFICES ASSUME Show PROVE DraftAsBuilt'
  OBVIOUS
<1>1. PICK user \in Users, channel \in Channels :
        \/ \E kind \in FormKinds : OpenForm(kind, user, channel)
        \/ \E w \in WorkflowIds, owner \in Users, anchored \in BOOLEAN :
             ShowDecision(w, owner, anchored, user, channel)
        \/ \E w \in WorkflowIds, owner \in Users, t \in Templates :
             ShowDraft(w, owner, t, user, channel)
        \/ \E w \in WorkflowIds, t \in Templates :
             OpenDropModal(w, t, user, channel)
  BY DEF Show
<1>2. CASE \E kind \in FormKinds : OpenForm(kind, user, channel)
  BY <1>2 DEF OpenForm, ModalView, Open, DraftAsBuilt
<1>3. CASE \E w \in WorkflowIds, owner \in Users, anchored \in BOOLEAN :
             ShowDecision(w, owner, anchored, user, channel)
  BY <1>3 DEF ShowDecision, Open, DraftAsBuilt
<1>4. CASE \E w \in WorkflowIds, owner \in Users, t \in Templates :
             ShowDraft(w, owner, t, user, channel)
  <2>1. PICK w \in WorkflowIds, owner \in Users, t \in Templates :
          screen' = [at |-> "draft", template |-> t,
                     blocks |-> BuildIssueBlocks(owner, t, w)]
    BY <1>4 DEF ShowDraft, Open
  <2>2. screen'.template = t
        /\ screen'.blocks = BuildIssueBlocks(owner, t, w)
    BY <2>1
  <2> QED
    BY <2>2, InputAssumption DEF DraftAsBuilt
<1>5. CASE \E w \in WorkflowIds, t \in Templates :
             OpenDropModal(w, t, user, channel)
  BY <1>5 DEF OpenDropModal, BuildDropModal, Open, DraftAsBuilt
<1> QED
  BY <1>1, <1>2, <1>3, <1>4, <1>5

(* an answer leaves the screen, keeps it or opens the reject modal *)
LEMMA AnswerScreen ==
  Answer => \/ screen' = Channel
            \/ screen' = screen
            \/ \E w : screen' = BuildRejectModal(w, person.channel, person.user)
  BY DEF Answer, SubmitForm, PressDecision, PressAccept, PressDrop, Press,
         PressReject, SubmitReject, Tick, Leave, Hand

(***************************************************************************)
(* Whoever is shown a draft is shown, in order, the title and the body     *)
(* that create_issue gives GitHub, and Slack is given no empty section and *)
(* none over _SECTION_LIMIT: for every template and every limit.           *)
(***************************************************************************)
THEOREM DraftsShowWhatIsFiled == Spec => []FiledIsShown
<1>1. Init => DraftAsBuilt
  BY DEF Init, Channel, DraftAsBuilt
<1>2. DraftAsBuilt /\ [Next]_vars => DraftAsBuilt'
  <2>1. DraftAsBuilt /\ Answer => DraftAsBuilt'
    BY AnswerScreen DEF Channel, BuildRejectModal, DraftAsBuilt
  <2>2. DraftAsBuilt /\ UNCHANGED vars => DraftAsBuilt'
    BY DEF vars, DraftAsBuilt
  <2> QED
    BY <2>1, <2>2, ShowDraftAsBuilt DEF Next
<1>3. DraftAsBuilt => FiledIsShown
  <2> SUFFICES ASSUME DraftAsBuilt, screen.at = "draft" PROVE FiledIsShown
    BY DEF FiledIsShown
  <2>1. PICK owner, w :
          screen.blocks = BuildIssueBlocks(owner, screen.template, w)
    BY DEF DraftAsBuilt
  <2>2. IsTemplate(screen.template)
    BY DEF DraftAsBuilt
  <2>3. ToGithubPayload(screen.template).title
          = screen.template.entries["issue_title"]
    BY DEF ToGithubPayload
  <2> QED
    BY <2>1, <2>2, <2>3, DraftSays DEF FiledIsShown
<1> QED
  BY <1>1, <1>2, <1>3, PTL DEF Spec

-----------------------------------------------------------------------------
(***************************************************************************)
(* What is left to drop: an id is of one field and one position, so that   *)
(* the two lists are compared field by field.                              *)
(***************************************************************************)
Items == [id : FieldNames \X Nat, text : Texts]

Unticked(D) == {x \in Items : x.id \notin D}

LEMMA TextsOfType ==
  ASSUME NEW items \in Seq(Items)
  PROVE  /\ TextsOf(items) \in Seq(Texts)
         /\ Len(TextsOf(items)) = Len(items)
         /\ \A i \in 1 .. Len(items) : TextsOf(items)[i] = items[i].text
<1> DEFINE n == Len(items)
<1>1. n \in Nat /\ \A i \in 1 .. n : items[i] \in Items
  BY LenProperties, ElementOfSeq
<1>2. \A x \in Items : x.text \in Texts
  BY DEF Items
<1>3. TextsOf(items) = [i \in 1 .. n |-> items[i].text]
  BY DEF TextsOf
<1>n. n = Len(items)
  OBVIOUS
<1> HIDE DEF n
<1>4. TextsOf(items) \in [1 .. n -> Texts]
  BY <1>1, <1>2, <1>3
<1> QED
  BY <1>1, <1>3, <1>4, <1>n, FunctionIsSeq

LEMMA TextsOfConcat ==
  ASSUME NEW a \in Seq(Items), NEW b \in Seq(Items)
  PROVE  TextsOf(a \o b) = TextsOf(a) \o TextsOf(b)
<1> DEFINE c == a \o b
           x == TextsOf(a)
           y == TextsOf(b)
<1>1. /\ c \in Seq(Items) /\ Len(c) = Len(a) + Len(b)
      /\ \A i \in 1 .. Len(a) + Len(b) :
           c[i] = IF i <= Len(a) THEN a[i] ELSE b[i - Len(a)]
  BY ConcatProperties
<1>2. /\ x \in Seq(Texts) /\ Len(x) = Len(a)
      /\ \A i \in 1 .. Len(a) : x[i] = a[i].text
      /\ y \in Seq(Texts) /\ Len(y) = Len(b)
      /\ \A i \in 1 .. Len(b) : y[i] = b[i].text
  BY TextsOfType
<1> HIDE DEF c, x, y
<1>3. /\ TextsOf(c) \in Seq(Texts) /\ Len(TextsOf(c)) = Len(a) + Len(b)
      /\ \A i \in 1 .. Len(a) + Len(b) : TextsOf(c)[i] = c[i].text
  BY <1>1, TextsOfType
<1>x. x \in Seq(Texts) /\ y \in Seq(Texts)
  BY <1>2
<1>4. /\ x \o y \in Seq(Texts) /\ Len(x \o y) = Len(a) + Len(b)
      /\ \A i \in 1 .. Len(a) + Len(b) :
           (x \o y)[i] = IF i <= Len(a) THEN x[i] ELSE y[i - Len(a)]
  <2>1. /\ x \o y \in Seq(Texts) /\ Len(x \o y) = Len(x) + Len(y)
        /\ \A i \in 1 .. Len(x) + Len(y) :
             (x \o y)[i] = IF i <= Len(x) THEN x[i] ELSE y[i - Len(x)]
    BY <1>x, ConcatProperties
  <2> QED
    BY <1>2, <2>1
<1>5. Len(a) \in Nat /\ Len(b) \in Nat
  BY LenProperties
<1>6. ASSUME NEW i \in 1 .. Len(a) + Len(b)
      PROVE  TextsOf(c)[i] = (x \o y)[i]
  <2>1. CASE i <= Len(a)
    <3>1. i \in 1 .. Len(a)
      BY <1>5, <2>1
    <3> QED
      BY <1>1, <1>2, <1>3, <1>4, <2>1, <3>1
  <2>2. CASE ~ (i <= Len(a))
    <3>1. i - Len(a) \in 1 .. Len(b)
      BY <1>5, <2>2
    <3>2. c[i] = b[i - Len(a)] /\ (x \o y)[i] = y[i - Len(a)]
      BY <1>1, <1>4, <2>2
    <3>3. y[i - Len(a)] = b[i - Len(a)].text
      BY <1>2, <3>1
    <3> QED
      BY <1>3, <3>2, <3>3
  <2> QED
    BY <2>1, <2>2
<1>7. TextsOf(c) = x \o y
  BY <1>3, <1>4, <1>6, SeqEqual
<1> QED
  BY <1>7 DEF c, x, y

LEMMA TextsOfFlatten ==
  ASSUME NEW ss \in Seq(Seq(Items))
  PROVE  TextsOf(FlattenSeq(ss))
           = FlattenSeq([i \in DOMAIN ss |-> TextsOf(ss[i])])
<1> DEFINE h == [s \in Seq(Items) |-> TextsOf(s)]
<1>1. h \in [Seq(Items) -> Seq(Texts)]
  BY TextsOfType
<1>2. h[<<>>] = <<>>
  <2>1. <<>> \in Seq(Items) /\ Len(<<>>) = 0
    BY EmptySeq
  <2>2. TextsOf(<<>>) \in Seq(Texts) /\ Len(TextsOf(<<>>)) = 0
    BY <2>1, TextsOfType
  <2>3. TextsOf(<<>>) = <<>>
    <3> DEFINE e == TextsOf(<<>>)
    <3>1. e \in Seq(Texts) /\ Len(e) = 0
      BY <2>2
    <3> HIDE DEF e
    <3>2. e = <<>>
      BY <3>1, EmptySeq
    <3> QED
      BY <3>2 DEF e
  <2> QED
    BY <2>1, <2>3
<1>3. ASSUME NEW a \in Seq(Items), NEW b \in Seq(Items)
      PROVE  h[a \o b] = h[a] \o h[b]
  BY TextsOfConcat, ConcatProperties
<1>4. FlattenSeq(ss) \in Seq(Items) /\ \A i \in DOMAIN ss : ss[i] \in Seq(Items)
  BY FlattenType, LenProperties, ElementOfSeq
<1>5. h[FlattenSeq(ss)] = FlattenSeq(Each(h, ss))
  <2> HIDE DEF h
  <2> QED
    BY <1>1, <1>2, <1>3, FlattenThrough
<1>6. Each(h, ss) = [i \in DOMAIN ss |-> TextsOf(ss[i])]
  BY <1>4 DEF Each
<1> QED
  BY <1>4, <1>5, <1>6

LEMMA DroppableFieldsAre ==
  ASSUME NEW kind \in Kinds
  PROVE  /\ DroppableFields[kind] \in Seq(FieldNames)
         /\ \A i \in DOMAIN DroppableFields[kind] :
              DroppableFields[kind][i] \in FieldsOf(kind)
<1>1. CASE kind = "feat"
  BY <1>1 DEF TemplateOf, FeatTemplate, DroppableFields, FieldNames, FieldsOf
<1>2. CASE kind = "refactor"
  BY <1>2 DEF TemplateOf, RefactorTemplate, DroppableFields, FieldNames,
              FieldsOf
<1>3. CASE kind = "fix"
  BY <1>3 DEF TemplateOf, FixTemplate, DroppableFields, FieldNames, FieldsOf
<1> QED
  BY <1>1, <1>2, <1>3 DEF Kinds, TemplateOf

LEMMA ToDroppableType ==
  ASSUME NEW items \in Seq(Texts), NEW field \in FieldNames
  PROVE  /\ ToDroppable(items, field) \in Seq(Items)
         /\ TextsOf(ToDroppable(items, field)) = items
         /\ DOMAIN ToDroppable(items, field) = DOMAIN items
<1> DEFINE n == Len(items)
           ds == ToDroppable(items, field)
<1>1. n \in Nat /\ DOMAIN items = 1 .. n /\ \A i \in 1 .. n : items[i] \in Texts
  BY LenProperties, ElementOfSeq
<1>2. ds = [i \in 1 .. n |-> [id |-> <<field, i - 1>>, text |-> items[i]]]
  BY <1>1 DEF ToDroppable, ItemId
<1>n. n = Len(items)
  OBVIOUS
<1> HIDE DEF n, ds
<1>3. ds \in [1 .. n -> Items]
  <2>1. \A i \in 1 .. n : i - 1 \in Nat
    BY <1>1
  <2> QED
    BY <1>1, <1>2, <2>1 DEF Items
<1>4. ds \in Seq(Items) /\ Len(ds) = n /\ DOMAIN ds = 1 .. n
  BY <1>1, <1>3, FunctionIsSeq
<1>5. /\ TextsOf(ds) \in Seq(Texts) /\ Len(TextsOf(ds)) = n
      /\ \A i \in 1 .. n : TextsOf(ds)[i] = ds[i].text
  BY <1>4, TextsOfType
<1>6. \A i \in 1 .. n : TextsOf(ds)[i] = items[i]
  BY <1>2, <1>5
<1>7. TextsOf(ds) = items
  BY <1>5, <1>6, <1>n, SeqEqual
<1> QED
  BY <1>1, <1>4, <1>7 DEF ds

LEMMA DropType ==
  ASSUME NEW items \in Seq(Texts), NEW field, NEW D
  PROVE  Drop(items, field, D) \in Seq(Texts)
<1> DEFINE n == Len(items)
           ss == [i \in DOMAIN items |->
                    IF ItemId(field, i - 1) \in D THEN <<>> ELSE <<items[i]>>]
<1>1. n \in Nat /\ DOMAIN items = 1 .. n /\ \A i \in 1 .. n : items[i] \in Texts
  BY LenProperties, ElementOfSeq
<1>2. \A x \in Texts : <<x>> \in Seq(Texts) /\ <<>> \in Seq(Texts)
  BY EmptySeq
<1>3. ss \in [1 .. n -> Seq(Texts)]
  BY <1>1, <1>2
<1>4. Drop(items, field, D) = FlattenSeq(ss)
  BY DEF Drop
<1> HIDE DEF n, ss
<1>5. ss \in Seq(Seq(Texts))
  BY <1>1, <1>3, FunctionIsSeq
<1> QED
  BY <1>4, <1>5, FlattenType

(* drop_items leaves of a field the entries whose boxes are not ticked *)
LEMMA DropLeaves ==
  ASSUME NEW items \in Seq(Texts), NEW field \in FieldNames, NEW D
  PROVE  TextsOf(Sel(ToDroppable(items, field), Unticked(D)))
           = Drop(items, field, D)
<1> DEFINE ds == ToDroppable(items, field)
           gs == Given(ds, Unticked(D))
<1>1. ds \in Seq(Items) /\ DOMAIN ds = DOMAIN items
  BY ToDroppableType
<1>2. \A i \in DOMAIN items :
        ds[i] = [id |-> ItemId(field, i - 1), text |-> items[i]]
  BY DEF ToDroppable
<1>3. gs \in Seq(Seq(Items)) /\ DOMAIN gs = DOMAIN items
      /\ Sel(ds, Unticked(D)) = FlattenSeq(gs)
  <2> HIDE DEF ds
  <2>1. DOMAIN ds = 1 .. Len(ds)
    BY <1>1, LenProperties
  <2> QED
    BY <1>1, <2>1, GivenProperties
<1>4. TextsOf(FlattenSeq(gs)) = FlattenSeq([i \in DOMAIN gs |-> TextsOf(gs[i])])
  <2> HIDE DEF gs
  <2> QED
    BY <1>3, TextsOfFlatten
<1>5. ASSUME NEW i \in DOMAIN items
      PROVE  TextsOf(gs[i])
               = IF ItemId(field, i - 1) \in D THEN <<>> ELSE <<items[i]>>
  <2>1. gs[i] = IF ds[i] \in Unticked(D) THEN <<ds[i]>> ELSE <<>>
    BY <1>1 DEF Given
  <2>2. ds[i] \in Items
    <3> HIDE DEF ds
    <3> QED
      BY <1>1, LenProperties, ElementOfSeq
  <2>3. ds[i].id = ItemId(field, i - 1) /\ ds[i].text = items[i]
    <3>1. ds[i] = [id |-> ItemId(field, i - 1), text |-> items[i]]
      BY <1>2
    <3> HIDE DEF ds
    <3> QED
      BY <3>1
  <2> HIDE DEF ds, gs
  <2>4. ds[i] \in Unticked(D) <=> ~ (ItemId(field, i - 1) \in D)
    BY <2>2, <2>3 DEF Unticked
  <2>5. TextsOf(<<ds[i]>>) = <<items[i]>>
    BY <2>3 DEF TextsOf
  <2>6. TextsOf(<<>>) = <<>>
    BY DEF TextsOf
  <2> QED
    BY <2>1, <2>4, <2>5, <2>6
<1>6. [i \in DOMAIN gs |-> TextsOf(gs[i])]
        = [i \in DOMAIN items |->
             IF ItemId(field, i - 1) \in D THEN <<>> ELSE <<items[i]>>]
  <2> HIDE DEF gs
  <2> QED
    BY <1>3, <1>5
<1> HIDE DEF gs, ds
<1> QED
  BY <1>3, <1>4, <1>6 DEF Drop, ds

LEMMA DropItemsProperties ==
  ASSUME NEW t, IsTemplate(t), NEW D
  PROVE  /\ DropItems(t, D).kind = t.kind
         /\ \A i \in DOMAIN DroppableFields[t.kind] :
              DropItems(t, D).entries[DroppableFields[t.kind][i]]
                = Drop(t.entries[DroppableFields[t.kind][i]],
                       DroppableFields[t.kind][i], D)
<1>1. t \in [kind : {t.kind}, entries : [FieldsOf(t.kind) -> Seq(Texts)]]
      /\ t.kind \in Kinds
  BY DEF IsTemplate
<1>2. DropItems(t, D).kind = t.kind
  BY <1>1 DEF DropItems
<1>3. DropItems(t, D).entries
        = [f \in FieldsOf(t.kind) |->
             IF f \in ToSet(DroppableFields[t.kind])
               THEN Drop(t.entries[f], f, D) ELSE t.entries[f]]
  BY <1>1 DEF DropItems
<1>4. \A i \in DOMAIN DroppableFields[t.kind] :
        /\ DroppableFields[t.kind][i] \in ToSet(DroppableFields[t.kind])
        /\ DroppableFields[t.kind][i] \in FieldsOf(t.kind)
  BY <1>1, DroppableFieldsAre DEF ToSet
<1> QED
  BY <1>2, <1>3, <1>4

LEMMA DropItemsLeaves ==
  ASSUME NEW t, IsTemplate(t), NEW D
  PROVE  TextsOf(DroppableItems(DropItems(t, D)))
           = TextsOf(Where(DroppableItems(t), LAMBDA item : item.id \notin D))
<1> DEFINE fs == DroppableFields[t.kind]
           u  == DropItems(t, D)
           ps == [i \in DOMAIN fs |-> ToDroppable(t.entries[fs[i]], fs[i])]
           qs == [i \in DOMAIN fs |-> ToDroppable(u.entries[fs[i]], fs[i])]
           ks == [i \in DOMAIN fs |-> Sel(ps[i], Unticked(D))]
           rs == [i \in DOMAIN fs |-> Drop(t.entries[fs[i]], fs[i], D)]
<1>1. DOMAIN fs = 1 .. Len(fs) /\ Len(fs) \in Nat
      /\ \A i \in DOMAIN fs : fs[i] \in FieldNames /\ fs[i] \in FieldsOf(t.kind)
  <2>1. /\ fs \in Seq(FieldNames)
        /\ \A i \in DOMAIN fs : fs[i] \in FieldsOf(t.kind)
    BY DroppableFieldsAre DEF IsTemplate
  <2> HIDE DEF fs
  <2> QED
    BY <2>1, LenProperties, ElementOfSeq
<1>2. DroppableItems(t) = FlattenSeq(ps)
  BY DEF DroppableItems
<1>3. u.kind = t.kind /\ \A i \in DOMAIN fs :
                           u.entries[fs[i]] = Drop(t.entries[fs[i]], fs[i], D)
  BY DropItemsProperties
<1>4. DroppableItems(u) = FlattenSeq(qs)
  <2> HIDE DEF u
  <2> QED
    BY <1>3 DEF DroppableItems
<1> HIDE DEF u, fs
<1>5. ASSUME NEW i \in DOMAIN fs
      PROVE  /\ t.entries[fs[i]] \in Seq(Texts)
             /\ ps[i] \in Seq(Items) /\ qs[i] \in Seq(Items)
             /\ ks[i] \in Seq(Items)
             /\ TextsOf(qs[i]) = rs[i] /\ TextsOf(ks[i]) = rs[i]
  <2>1. t.entries[fs[i]] \in Seq(Texts)
    BY <1>1 DEF IsTemplate
  <2>2. rs[i] = Drop(t.entries[fs[i]], fs[i], D) /\ rs[i] \in Seq(Texts)
    BY <2>1, DropType
  <2>3. ps[i] = ToDroppable(t.entries[fs[i]], fs[i]) /\ ps[i] \in Seq(Items)
    BY <1>1, <2>1, ToDroppableType
  <2>4. qs[i] = ToDroppable(rs[i], fs[i])
    BY <1>3
  <2>5. ks[i] = Sel(ps[i], Unticked(D))
    OBVIOUS
  <2> HIDE DEF ps, qs, rs, ks
  <2>6. qs[i] \in Seq(Items) /\ TextsOf(qs[i]) = rs[i]
    BY <1>1, <2>2, <2>4, ToDroppableType
  <2>7. ks[i] \in Seq(Items)
    BY <2>3, <2>5, SelType
  <2>8. TextsOf(ks[i]) = rs[i]
    BY <1>1, <2>1, <2>2, <2>3, <2>5, DropLeaves
  <2> QED
    BY <2>1, <2>3, <2>6, <2>7, <2>8
<1>6. /\ ps \in Seq(Seq(Items)) /\ qs \in Seq(Seq(Items))
      /\ ks \in Seq(Seq(Items))
      /\ DOMAIN ps = DOMAIN fs /\ DOMAIN qs = DOMAIN fs
      /\ DOMAIN ks = DOMAIN fs
  <2>1. DOMAIN ps = DOMAIN fs /\ DOMAIN qs = DOMAIN fs
        /\ DOMAIN ks = DOMAIN fs
    OBVIOUS
  <2>2. /\ ps = [i \in 1 .. Len(fs) |-> ps[i]]
        /\ qs = [i \in 1 .. Len(fs) |-> qs[i]]
        /\ ks = [i \in 1 .. Len(fs) |-> ks[i]]
    BY <1>1
  <2> HIDE DEF ps, qs, ks
  <2>3. /\ ps \in [1 .. Len(fs) -> Seq(Items)]
        /\ qs \in [1 .. Len(fs) -> Seq(Items)]
        /\ ks \in [1 .. Len(fs) -> Seq(Items)]
    BY <1>1, <1>5, <2>2
  <2> QED
    BY <1>1, <2>1, <2>3, FunctionIsSeq
<1>7. TextsOf(FlattenSeq(qs)) = FlattenSeq(rs)
  <2>1. TextsOf(FlattenSeq(qs))
          = FlattenSeq([i \in DOMAIN qs |-> TextsOf(qs[i])])
    <3> HIDE DEF qs
    <3> QED
      BY <1>6, TextsOfFlatten
  <2>2. [i \in DOMAIN qs |-> TextsOf(qs[i])] = [i \in DOMAIN fs |-> rs[i]]
    <3> HIDE DEF qs, rs
    <3> QED
      BY <1>5, <1>6
  <2>3. [i \in DOMAIN fs |-> rs[i]] = rs
    OBVIOUS
  <2> QED
    BY <2>1, <2>2, <2>3
<1>8. TextsOf(FlattenSeq(ks)) = FlattenSeq(rs)
  <2>1. TextsOf(FlattenSeq(ks))
          = FlattenSeq([i \in DOMAIN ks |-> TextsOf(ks[i])])
    <3> HIDE DEF ks
    <3> QED
      BY <1>6, TextsOfFlatten
  <2>2. [i \in DOMAIN ks |-> TextsOf(ks[i])] = [i \in DOMAIN fs |-> rs[i]]
    <3> HIDE DEF ks, rs
    <3> QED
      BY <1>5, <1>6
  <2>3. [i \in DOMAIN fs |-> rs[i]] = rs
    OBVIOUS
  <2> QED
    BY <2>1, <2>2, <2>3
<1>9. Sel(FlattenSeq(ps), Unticked(D)) = FlattenSeq(ks)
  <2>1. Sel(FlattenSeq(ps), Unticked(D))
          = FlattenSeq([i \in DOMAIN ps |-> Sel(ps[i], Unticked(D))])
    <3> HIDE DEF ps
    <3> QED
      BY <1>6, SelFlatten
  <2>2. [i \in DOMAIN ps |-> Sel(ps[i], Unticked(D))] = ks
    OBVIOUS
  <2> QED
    BY <2>1, <2>2
<1> HIDE DEF ps, qs, ks, rs
<1>10. Where(FlattenSeq(ps), LAMBDA item : item.id \notin D)
         = Sel(FlattenSeq(ps), Unticked(D))
  <2> DEFINE all == FlattenSeq(ps)
  <2>1. all \in Seq(Items)
    BY <1>6, FlattenType
  <2> HIDE DEF all
  <2>2. \A i \in DOMAIN all : all[i] \in Items
    BY <2>1, LenProperties, ElementOfSeq
  <2>3. \A i \in DOMAIN all : all[i].id \notin D <=> all[i] \in Unticked(D)
    BY <2>2 DEF Unticked
  <2>4. Given(all, Unticked(D))
          = [i \in DOMAIN all |->
               IF all[i].id \notin D THEN <<all[i]>> ELSE <<>>]
    BY <2>3 DEF Given
  <2>5. Where(all, LAMBDA item : item.id \notin D)
          = FlattenSeq([i \in DOMAIN all |->
               IF all[i].id \notin D THEN <<all[i]>> ELSE <<>>])
    BY DEF Where
  <2>6. Where(all, LAMBDA item : item.id \notin D) = Sel(all, Unticked(D))
    BY <2>4, <2>5 DEF Sel
  <2> QED
    BY <2>6 DEF all
<1> QED
  BY <1>2, <1>4, <1>7, <1>8, <1>9, <1>10 DEF u

(* the boxes of a drop modal are those of a template *)
DropAsBuilt ==
  screen.at = "drop" =>
    /\ IsTemplate(screen.template)
    /\ screen.options = DroppableItems(screen.template)

LEMMA ShowDropAsBuilt == Show => DropAsBuilt'
<1> SUFFICES ASSUME Show PROVE DropAsBuilt'
  OBVIOUS
<1>1. PICK user \in Users, channel \in Channels :
        \/ \E kind \in FormKinds : OpenForm(kind, user, channel)
        \/ \E w \in WorkflowIds, owner \in Users, anchored \in BOOLEAN :
             ShowDecision(w, owner, anchored, user, channel)
        \/ \E w \in WorkflowIds, owner \in Users, t \in Templates :
             ShowDraft(w, owner, t, user, channel)
        \/ \E w \in WorkflowIds, t \in Templates :
             OpenDropModal(w, t, user, channel)
  BY DEF Show
<1>2. CASE \E kind \in FormKinds : OpenForm(kind, user, channel)
  BY <1>2 DEF OpenForm, ModalView, Open, DropAsBuilt
<1>3. CASE \E w \in WorkflowIds, owner \in Users, anchored \in BOOLEAN :
             ShowDecision(w, owner, anchored, user, channel)
  BY <1>3 DEF ShowDecision, Open, DropAsBuilt
<1>4. CASE \E w \in WorkflowIds, owner \in Users, t \in Templates :
             ShowDraft(w, owner, t, user, channel)
  BY <1>4 DEF ShowDraft, Open, DropAsBuilt
<1>5. CASE \E w \in WorkflowIds, t \in Templates :
             OpenDropModal(w, t, user, channel)
  <2>1. PICK w \in WorkflowIds, t \in Templates :
          screen' = BuildDropModal(w, channel, user, t)
    BY <1>5 DEF OpenDropModal, Open
  <2>2. screen'.template = t /\ screen'.options = DroppableItems(t)
    BY <2>1 DEF BuildDropModal
  <2> QED
    BY <2>2, InputAssumption DEF DropAsBuilt
<1> QED
  BY <1>1, <1>2, <1>3, <1>4, <1>5

(***************************************************************************)
(* Whatever boxes are ticked, drop_items leaves what was listed without a  *)
(* tick, in the order it was listed, and takes out nothing else: the ids   *)
(* of droppable_items are the positions drop_items counts.                 *)
(***************************************************************************)
THEOREM OnlyTheTickedIsDropped == Spec => []DropsTheTicked
<1>1. Init => DropAsBuilt
  BY DEF Init, Channel, DropAsBuilt
<1>2. DropAsBuilt /\ [Next]_vars => DropAsBuilt'
  <2>1. DropAsBuilt /\ Answer => DropAsBuilt'
    BY AnswerScreen DEF Channel, BuildRejectModal, DropAsBuilt
  <2>2. DropAsBuilt /\ UNCHANGED vars => DropAsBuilt'
    BY DEF vars, DropAsBuilt
  <2> QED
    BY <2>1, <2>2, ShowDropAsBuilt DEF Next
<1>3. DropAsBuilt => DropsTheTicked
  <2> SUFFICES ASSUME DropAsBuilt, screen.at = "drop" PROVE DropsTheTicked
    BY DEF DropsTheTicked
  <2>1. IsTemplate(screen.template)
        /\ screen.options = DroppableItems(screen.template)
    BY DEF DropAsBuilt
  <2> QED
    BY <2>1, DropItemsLeaves DEF DropsTheTicked
<1> QED
  BY <1>1, <1>2, <1>3, PTL DEF Spec

-----------------------------------------------------------------------------
(***************************************************************************)
(* What _parse_bullets and to_prompt leave of the words: they take away    *)
(* ends of lines, empty lines and blank values.                            *)
(***************************************************************************)
LEMMA FlattenNonEmpty ==
  ASSUME NEW S, NEW ss \in Seq(Seq(S))
  PROVE  FlattenSeq(Sel(ss, Seq(S) \ {<<>>})) = FlattenSeq(ss)
<1> DEFINE K == Seq(S) \ {<<>>}
           T == {p \in Seq(Seq(S)) : FlattenSeq(Sel(p, K)) = FlattenSeq(p)}
<1>1. <<>> \in T
  BY SelEmpty, EmptySeq
<1>2. ASSUME NEW p \in Seq(Seq(S)), NEW x \in Seq(S), p \in T
      PROVE  Append(p, x) \in T
  <2> DEFINE s == Sel(p, K)
  <2>1. s \in Seq(Seq(S)) /\ FlattenSeq(s) = FlattenSeq(p)
    <3> HIDE DEF K
    <3> QED
      BY <1>2, SelType
  <2>2. Sel(Append(p, x), K) = IF x \in K THEN Append(s, x) ELSE s
    <3> HIDE DEF K
    <3> QED
      BY SelAppend
  <2>3. Append(p, x) \in Seq(Seq(S)) /\ FlattenSeq(p) \in Seq(S)
        /\ FlattenSeq(Append(p, x)) = FlattenSeq(p) \o x
    BY FlattenAppend, AppendProperties
  <2>4. CASE x \in K
    <3> HIDE DEF s, K
    <3>1. FlattenSeq(Append(s, x)) = FlattenSeq(s) \o x
      BY <2>1, FlattenAppend
    <3> QED
      BY <2>1, <2>2, <2>3, <2>4, <3>1
  <2>5. CASE ~ (x \in K)
    <3>1. x = <<>>
      BY <2>5
    <3>2. FlattenSeq(p) \o <<>> = FlattenSeq(p)
      BY <2>3, ConcatEmptySeq
    <3> HIDE DEF s, K
    <3> QED
      BY <2>1, <2>2, <2>3, <2>5, <3>1, <3>2
  <2> QED
    BY <2>4, <2>5
<1>3. Seq(Seq(S)) \subseteq T
  <2> HIDE DEF T
  <2> QED
    BY <1>1, <1>2, SeqSetInduction
<1> QED
  BY <1>3

LEMMA SelNowhere ==
  ASSUME NEW S, NEW K, NEW s \in Seq(S), \A i \in 1 .. Len(s) : ~ (s[i] \in K)
  PROVE  Sel(s, K) = <<>>
<1> DEFINE R == S \ K
<1>1. s \in [1 .. Len(s) -> R] /\ Len(s) \in Nat
  BY LenProperties
<1>2. s \in Seq(R)
  <2> HIDE DEF R
  <2> QED
    BY <1>1, FunctionIsSeq
<1>3. R \intersect K = {}
  OBVIOUS
<1> HIDE DEF R
<1> QED
  BY <1>2, <1>3, SelNone

(* to take away ends without an element of the set *)
LEMMA SelTrim ==
  ASSUME NEW S, NEW K, NEW s \in Seq(S),
         NEW a \in 1 .. Len(s), NEW b \in a .. Len(s),
         \A i \in 1 .. Len(s) : i < a \/ b < i => ~ (s[i] \in K)
  PROVE  /\ SubSeq(s, a, b) \in Seq(S)
         /\ Sel(SubSeq(s, a, b), K) = Sel(s, K)
<1> DEFINE n == Len(s)
           x == SubSeq(s, 1, a - 1)
           y == SubSeq(s, a, b)
           z == SubSeq(s, b + 1, n)
<1>1. n \in Nat /\ \A i \in 1 .. n : s[i] \in S
  BY LenProperties, ElementOfSeq
<1>2. a \in 1 .. n /\ b \in a .. n /\ a - 1 \in 0 .. n /\ b \in 1 .. n
      /\ a \in Int /\ b \in Int /\ a - 1 \in Int /\ b + 1 \in Int /\ n \in Int
  BY <1>1
<1>3. /\ x \in Seq(S) /\ Len(x) = a - 1
      /\ \A i \in 1 .. a - 1 : x[i] = s[i]
  <2>1. \A i \in 1 .. a - 1 : s[i] \in S
    BY <1>1, <1>2
  <2>2. /\ x \in Seq(S)
        /\ Len(x) = IF 1 <= a - 1 THEN (a - 1) - 1 + 1 ELSE 0
        /\ \A i \in 1 .. (a - 1) - 1 + 1 : x[i] = s[1 + i - 1]
    BY <1>2, <2>1, SubSeqProperties
  <2> HIDE DEF x
  <2>3. \A i \in 1 .. a - 1 : 1 + i - 1 = i /\ i \in 1 .. (a - 1) - 1 + 1
    BY <1>2
  <2> QED
    BY <1>2, <2>2, <2>3
<1>4. y \in Seq(S)
  <2>1. \A i \in a .. b : s[i] \in S
    BY <1>1, <1>2
  <2> QED
    BY <1>2, <2>1, SubSeqProperties
<1>5. /\ z \in Seq(S) /\ Len(z) = n - b
      /\ \A i \in 1 .. n - b : z[i] = s[b + i]
  <2>1. \A i \in b + 1 .. n : s[i] \in S
    BY <1>1, <1>2
  <2>2. /\ z \in Seq(S)
        /\ Len(z) = IF b + 1 <= n THEN n - (b + 1) + 1 ELSE 0
        /\ \A i \in 1 .. n - (b + 1) + 1 : z[i] = s[(b + 1) + i - 1]
    <3> HIDE DEF n
    <3> QED
      BY <1>2, <2>1, SubSeqProperties
  <2> HIDE DEF z, n
  <2>3. \A i \in 1 .. n - b :
          (b + 1) + i - 1 = b + i /\ i \in 1 .. n - (b + 1) + 1
    BY <1>2
  <2> QED
    BY <1>2, <2>2, <2>3
<1>6. Sel(x, K) = <<>>
  <2>1. \A i \in 1 .. Len(x) : ~ (x[i] \in K)
    <3>1. \A i \in 1 .. a - 1 : i \in 1 .. Len(s) /\ i < a
      BY <1>2
    <3> HIDE DEF x
    <3> QED
      BY <1>3, <3>1
  <2> HIDE DEF x
  <2> QED
    BY <1>3, <2>1, SelNowhere
<1>7. Sel(z, K) = <<>>
  <2>1. \A i \in 1 .. Len(z) : ~ (z[i] \in K)
    <3>1. \A i \in 1 .. n - b : b + i \in 1 .. Len(s) /\ b < b + i
      BY <1>2
    <3>2. \A i \in 1 .. n - b : ~ (s[b + i] \in K)
      BY <3>1
    <3> HIDE DEF z, n
    <3> QED
      BY <1>5, <3>2
  <2> HIDE DEF z
  <2> QED
    BY <1>5, <2>1, SelNowhere
<1>8. s = (x \o y) \o z
  <2>1. x \o y = SubSeq(s, 1, b)
    <3>1. 1 \in 1 .. Len(s) + 1 /\ a - 1 \in 1 - 1 .. Len(s)
          /\ b \in a - 1 .. Len(s) /\ (a - 1) + 1 = a
      BY <1>2
    <3>2. SubSeq(s, 1, a - 1) \o SubSeq(s, (a - 1) + 1, b) = SubSeq(s, 1, b)
      BY <3>1, ConcatAdjacentSubSeq
    <3> QED
      BY <3>1, <3>2
  <2>2. SubSeq(s, 1, b) \o z = SubSeq(s, 1, n)
    <3>1. 1 \in 1 .. Len(s) + 1 /\ b \in 1 - 1 .. Len(s)
          /\ Len(s) \in b .. Len(s)
      BY <1>2
    <3> QED
      BY <3>1, ConcatAdjacentSubSeq
  <2>3. SubSeq(s, 1, n) = s
    BY SubSeqFull
  <2> QED
    BY <2>1, <2>2, <2>3
<1> HIDE DEF x, y, z
<1>9. x \o y \in Seq(S) /\ Sel(x \o y, K) = Sel(x, K) \o Sel(y, K)
  BY <1>3, <1>4, ConcatProperties, SelConcat
<1>10. Sel(s, K) = Sel(x \o y, K) \o Sel(z, K)
  BY <1>5, <1>8, <1>9, SelConcat
<1>11. Sel(y, K) \in Seq(S)
  BY <1>4, SelType
<1>12. <<>> \o Sel(y, K) = Sel(y, K) /\ Sel(y, K) \o <<>> = Sel(y, K)
  BY <1>11, ConcatEmptySeq
<1>13. Sel(s, K) = Sel(y, K)
  BY <1>6, <1>7, <1>9, <1>10, <1>12
<1> QED
  BY <1>4, <1>13 DEF y

LEMMA MinMax ==
  ASSUME NEW n \in Nat, NEW T, T \subseteq 1 .. n, T # {}
  PROVE  /\ Min(T) \in T /\ \A i \in T : Min(T) <= i
         /\ Max(T) \in T /\ \A i \in T : i <= Max(T)
<1>1. \E m \in T : \A i \in T : m <= i
  <2>1. T \subseteq Nat
    OBVIOUS
  <2> QED
    BY <2>1, LeastNat
<1>2. \E m \in T : \A i \in T : m >= i
  <2> DEFINE R == {n - i : i \in T}
  <2>i. \A i \in T : i \in Nat /\ i \in 1 .. n
    OBVIOUS
  <2>1. R \subseteq Nat /\ R # {}
    <3>1. \A i \in 1 .. n : n - i \in Nat
      OBVIOUS
    <3> QED
      BY <2>i, <3>1
  <2>2. PICK r \in R : \A i \in R : r <= i
    <3> HIDE DEF R
    <3> QED
      BY <2>1, LeastNat
  <2>3. PICK m \in T : r = n - m
    BY <2>2
  <2>4. \A i \in T : n - m <= n - i
    BY <2>2, <2>3
  <2>5. \A i \in T : m >= i
    <3>1. m \in Nat
      BY <2>i
    <3>2. \A i \in Nat : n - m <= n - i => m >= i
      BY <3>1
    <3> QED
      BY <2>4, <2>i, <3>2
  <2> QED
    BY <2>5
<1>3. Min(T) \in T /\ \A i \in T : Min(T) <= i
  BY <1>1 DEF Min
<1>4. Max(T) \in T /\ \A i \in T : Max(T) >= i
  BY <1>2 DEF Max
<1>5. \A i \in T : i <= Max(T)
  BY <1>4
<1> QED
  BY <1>3, <1>4, <1>5

Tokens == Words \union {Blank, Mark}

(* no word is lost at the ends of a line *)
LEMMA StripKeeps ==
  ASSUME NEW line \in Seq(Tokens)
  PROVE  /\ Strip(line) \in Seq(Tokens)
         /\ Sel(Strip(line), Words) = Sel(line, Words)
<1> DEFINE kept == OtherThan(Blank, line)
           n == Len(line)
<1>1. n \in Nat /\ DOMAIN line = 1 .. n
  BY LenProperties
<1>2. /\ kept \subseteq 1 .. n
      /\ \A i \in 1 .. n : i \notin kept => line[i] = Blank
  BY <1>1 DEF OtherThan
<1>3. ~ (Blank \in Words)
  BY InputAssumption
<1>4. CASE kept = {}
  <2>1. \A i \in 1 .. n : ~ (line[i] \in Words)
    BY <1>2, <1>3, <1>4
  <2>2. Sel(line, Words) = <<>>
    BY <2>1, SelNowhere
  <2>3. Strip(line) = <<>>
    BY <1>4 DEF Strip
  <2> QED
    BY <2>2, <2>3, SelEmpty, EmptySeq
<1>5. CASE kept # {}
  <2> DEFINE a == Min(kept)
             b == Max(kept)
  <2>1. a \in kept /\ b \in kept /\ \A i \in kept : a <= i /\ i <= b
    <3> HIDE DEF kept, n
    <3> QED
      BY <1>1, <1>2, <1>5, MinMax
  <2>2. Strip(line) = SubSeq(line, a, b)
    BY <1>5 DEF Strip
  <2> HIDE DEF a, b, kept
  <2>3. a \in 1 .. Len(line) /\ b \in a .. Len(line)
    BY <1>1, <1>2, <2>1
  <2>4. \A i \in 1 .. Len(line) : i < a \/ b < i => ~ (line[i] \in Words)
    <3>1. \A i \in 1 .. Len(line) : i < a \/ b < i => i \notin kept
      BY <1>1, <1>2, <2>1, <2>3
    <3> QED
      BY <1>2, <1>3, <3>1
  <2> QED
    BY <2>2, <2>3, <2>4, SelTrim
<1> QED
  BY <1>4, <1>5

LEMMA LStripMarksKeeps ==
  ASSUME NEW line \in Seq(Tokens)
  PROVE  /\ LStripMarks(line) \in Seq(Tokens)
         /\ Sel(LStripMarks(line), Words) = Sel(line, Words)
<1> DEFINE kept == OtherThan(Mark, line)
           n == Len(line)
<1>1. n \in Nat /\ DOMAIN line = 1 .. n
  BY LenProperties
<1>2. /\ kept \subseteq 1 .. n
      /\ \A i \in 1 .. n : i \notin kept => line[i] = Mark
  BY <1>1 DEF OtherThan
<1>3. ~ (Mark \in Words)
  BY InputAssumption
<1>4. CASE kept = {}
  <2>1. \A i \in 1 .. n : ~ (line[i] \in Words)
    BY <1>2, <1>3, <1>4
  <2>2. Sel(line, Words) = <<>>
    BY <2>1, SelNowhere
  <2>3. LStripMarks(line) = <<>>
    BY <1>4 DEF LStripMarks
  <2> QED
    BY <2>2, <2>3, SelEmpty, EmptySeq
<1>5. CASE kept # {}
  <2> DEFINE a == Min(kept)
  <2>1. a \in kept /\ \A i \in kept : a <= i
    <3> HIDE DEF kept, n
    <3> QED
      BY <1>1, <1>2, <1>5, MinMax
  <2>2. LStripMarks(line) = SubSeq(line, a, Len(line))
    BY <1>5 DEF LStripMarks
  <2> HIDE DEF a, kept
  <2>3. a \in 1 .. Len(line) /\ Len(line) \in a .. Len(line)
    BY <1>1, <1>2, <2>1
  <2>4. \A i \in 1 .. Len(line) :
          i < a \/ Len(line) < i => ~ (line[i] \in Words)
    <3>1. \A i \in 1 .. Len(line) : i < a \/ Len(line) < i => i \notin kept
      BY <1>1, <1>2, <2>1, <2>3
    <3> QED
      BY <1>2, <1>3, <3>1
  <2> QED
    BY <2>2, <2>3, <2>4, SelTrim
<1> QED
  BY <1>4, <1>5

LEMMA WordsOfLines ==
  ASSUME NEW lines \in Seq(Seq(Tokens))
  PROVE  WordsOf(lines) = Sel(FlattenSeq(lines), Words)
<1> DEFINE given == [i \in DOMAIN lines |->
                       Where(lines[i], LAMBDA c : c \notin {Blank, Mark})]
<1>1. ASSUME NEW line \in Seq(Tokens)
      PROVE  Where(line, LAMBDA c : c \notin {Blank, Mark}) = Sel(line, Words)
  <2>1. \A j \in DOMAIN line : line[j] \in Tokens
    BY LenProperties, ElementOfSeq
  <2>2. \A j \in DOMAIN line :
          line[j] \notin {Blank, Mark} <=> line[j] \in Words
    BY <2>1, InputAssumption DEF Tokens
  <2>3. Given(line, Words)
          = [j \in DOMAIN line |->
               IF line[j] \notin {Blank, Mark} THEN <<line[j]>> ELSE <<>>]
    BY <2>2 DEF Given
  <2>4. Where(line, LAMBDA c : c \notin {Blank, Mark})
          = FlattenSeq([j \in DOMAIN line |->
               IF line[j] \notin {Blank, Mark} THEN <<line[j]>> ELSE <<>>])
    BY DEF Where
  <2> QED
    BY <2>3, <2>4 DEF Sel
<1>2. \A i \in DOMAIN lines : lines[i] \in Seq(Tokens)
  BY LenProperties, ElementOfSeq
<1>3. given = [i \in DOMAIN lines |-> Sel(lines[i], Words)]
  BY <1>1, <1>2
<1>4. WordsOf(lines) = FlattenSeq(given)
  BY DEF WordsOf
<1> HIDE DEF given
<1> QED
  BY <1>3, <1>4, SelFlatten

(* lines that keep their words, one by one *)
LEMMA WordsOfKept ==
  ASSUME NEW a \in Seq(Seq(Tokens)), NEW b \in Seq(Seq(Tokens)),
         DOMAIN a = DOMAIN b,
         \A i \in DOMAIN a : Sel(a[i], Words) = Sel(b[i], Words)
  PROVE  WordsOf(a) = WordsOf(b)
<1>1. [i \in DOMAIN a |-> Sel(a[i], Words)]
        = [i \in DOMAIN b |-> Sel(b[i], Words)]
  OBVIOUS
<1>2. Sel(FlattenSeq(a), Words)
        = FlattenSeq([i \in DOMAIN a |-> Sel(a[i], Words)])
  BY SelFlatten
<1>3. Sel(FlattenSeq(b), Words)
        = FlattenSeq([i \in DOMAIN b |-> Sel(b[i], Words)])
  BY SelFlatten
<1> QED
  BY <1>1, <1>2, <1>3, WordsOfLines

LEMMA BulletsKeepTheWords ==
  ASSUME NEW raw \in Seq(Seq(Tokens))
  PROVE  WordsOf(ParseBullets(raw)) = WordsOf(raw)
<1> DEFINE n == Len(raw)
           items == [i \in 1 .. n |-> Strip(LStripMarks(Strip(raw[i])))]
           K == Seq(Tokens) \ {<<>>}
           kept == Sel(items, K)
<1>1. n \in Nat /\ DOMAIN raw = 1 .. n
      /\ \A i \in 1 .. n : raw[i] \in Seq(Tokens)
  BY LenProperties, ElementOfSeq
<1>2. ASSUME NEW i \in 1 .. n
      PROVE  /\ items[i] \in Seq(Tokens)
             /\ Sel(items[i], Words) = Sel(raw[i], Words)
  <2> DEFINE x == raw[i]
             y == Strip(x)
             z == LStripMarks(y)
  <2>1. x \in Seq(Tokens)
    BY <1>1
  <2>2. y \in Seq(Tokens) /\ Sel(y, Words) = Sel(x, Words)
    <3> HIDE DEF x
    <3> QED
      BY <2>1, StripKeeps
  <2>3. z \in Seq(Tokens) /\ Sel(z, Words) = Sel(y, Words)
    <3> HIDE DEF y
    <3> QED
      BY <2>2, LStripMarksKeeps
  <2>4. Strip(z) \in Seq(Tokens) /\ Sel(Strip(z), Words) = Sel(z, Words)
    <3> HIDE DEF z
    <3> QED
      BY <2>3, StripKeeps
  <2>5. items[i] = Strip(z)
    OBVIOUS
  <2> QED
    BY <2>2, <2>3, <2>4, <2>5
<1>3. items \in Seq(Seq(Tokens)) /\ DOMAIN items = 1 .. n
  <2>1. items \in [1 .. n -> Seq(Tokens)]
    <3>1. \A i \in 1 .. n : Strip(LStripMarks(Strip(raw[i]))) \in Seq(Tokens)
      BY <1>2
    <3> QED
      BY <3>1
  <2> HIDE DEF items, n
  <2> QED
    BY <1>1, <2>1, FunctionIsSeq
<1>4. WordsOf(items) = WordsOf(raw)
  <2> HIDE DEF items, n
  <2> QED
    BY <1>1, <1>2, <1>3, WordsOfKept
<1>5. ParseBullets(raw) = kept
  <2>1. ParseBullets(raw) = Where(items, LAMBDA item : item # <<>>)
    BY DEF ParseBullets
  <2> HIDE DEF items
  <2>2. \A i \in DOMAIN items : items[i] # <<>> <=> items[i] \in K
    BY <1>3, LenProperties, ElementOfSeq
  <2>3. Given(items, K)
          = [i \in DOMAIN items |->
               IF items[i] # <<>> THEN <<items[i]>> ELSE <<>>]
    BY <2>2 DEF Given
  <2>4. Where(items, LAMBDA item : item # <<>>)
          = FlattenSeq([i \in DOMAIN items |->
               IF items[i] # <<>> THEN <<items[i]>> ELSE <<>>])
    BY DEF Where
  <2> QED
    BY <2>1, <2>3, <2>4 DEF Sel
<1>6. kept \in Seq(Seq(Tokens)) /\ FlattenSeq(kept) = FlattenSeq(items)
  <2>1. FlattenSeq(kept) = FlattenSeq(items)
    <3> HIDE DEF items
    <3> QED
      BY <1>3, FlattenNonEmpty
  <2>2. kept \in Seq(Seq(Tokens))
    <3> HIDE DEF items, K
    <3> QED
      BY <1>3, SelType
  <2> QED
    BY <2>1, <2>2
<1> HIDE DEF items, kept
<1>7. WordsOf(kept) = WordsOf(items)
  BY <1>3, <1>6, WordsOfLines
<1> QED
  BY <1>4, <1>5, <1>7

LEMMA BlankHasNoWords ==
  ASSUME NEW raw \in Seq(Seq(Tokens)), IsBlank(raw)
  PROVE  WordsOf(raw) = <<>>
<1> DEFINE K == Seq(Tokens) \ {<<>>}
           es == [i \in DOMAIN raw |-> <<>>]
<1>1. \A i \in DOMAIN raw : raw[i] \in Seq(Tokens)
  BY LenProperties, ElementOfSeq
<1>2. \A i \in DOMAIN raw : Sel(raw[i], Words) = <<>>
  <2>1. ASSUME NEW i \in DOMAIN raw PROVE Sel(raw[i], Words) = <<>>
    <3>1. Strip(raw[i]) = <<>>
      BY DEF IsBlank
    <3>2. Sel(Strip(raw[i]), Words) = Sel(raw[i], Words)
      BY <1>1, StripKeeps
    <3> QED
      BY <3>1, <3>2, SelEmpty
  <2> QED
    BY <2>1
<1>3. es \in Seq(Seq(Tokens)) /\ DOMAIN es = DOMAIN raw /\ es \in Seq({<<>>})
  <2>1. Len(raw) \in Nat /\ DOMAIN raw = 1 .. Len(raw)
    BY LenProperties
  <2>2. es \in [1 .. Len(raw) -> {<<>>}]
    BY <2>1
  <2>3. <<>> \in Seq(Tokens)
    BY EmptySeq
  <2>4. DOMAIN es = DOMAIN raw
    OBVIOUS
  <2> HIDE DEF es
  <2>5. es \in Seq({<<>>})
    BY <2>1, <2>2, FunctionIsSeq
  <2>6. es \in Seq(Seq(Tokens))
    BY <2>3, <2>5, SeqMonotonic
  <2> QED
    BY <2>4, <2>5, <2>6
<1>4. \A i \in DOMAIN raw : Sel(raw[i], Words) = Sel(es[i], Words)
  BY <1>2, SelEmpty
<1> HIDE DEF es
<1>5. WordsOf(raw) = WordsOf(es)
  BY <1>3, <1>4, WordsOfKept
<1>6. FlattenSeq(es) = <<>>
  <2>1. Sel(es, K) = <<>>
    <3>1. {<<>>} \intersect K = {}
      OBVIOUS
    <3> HIDE DEF K
    <3> QED
      BY <1>3, <3>1, SelNone
  <2>2. FlattenSeq(Sel(es, K)) = FlattenSeq(es)
    BY <1>3, FlattenNonEmpty
  <2> HIDE DEF K
  <2> QED
    BY <2>1, <2>2, FlattenEmpty
<1>7. WordsOf(es) = Sel(FlattenSeq(es), Words)
  BY <1>3, WordsOfLines
<1> QED
  BY <1>5, <1>6, <1>7, SelEmpty

LEMMA SelSel ==
  ASSUME NEW S, NEW K, NEW L, NEW s \in Seq(S)
  PROVE  Sel(Sel(s, K), L) = Sel(s, K \intersect L)
<1> DEFINE T == {r \in Seq(S) : Sel(Sel(r, K), L) = Sel(r, K \intersect L)}
<1>1. <<>> \in T
  BY SelEmpty, EmptySeq
<1>2. ASSUME NEW r \in Seq(S), NEW x \in S, r \in T PROVE Append(r, x) \in T
  <2> DEFINE k == Sel(r, K)
             both == K \intersect L
  <2>1. k \in Seq(S)
    BY SelType
  <2>2. Sel(Append(r, x), K) = IF x \in K THEN Append(k, x) ELSE k
    BY SelAppend
  <2>3. Sel(Append(k, x), L) = IF x \in L THEN Append(Sel(k, L), x)
                                          ELSE Sel(k, L)
    <3> HIDE DEF k
    <3> QED
      BY <2>1, SelAppend
  <2>4. Sel(Append(r, x), both) = IF x \in both THEN Append(Sel(r, both), x)
                                                ELSE Sel(r, both)
    <3> HIDE DEF both
    <3> QED
      BY SelAppend
  <2>5. Sel(k, L) = Sel(r, both)
    BY <1>2
  <2>6. x \in both <=> x \in K /\ x \in L
    OBVIOUS
  <2>7. Append(r, x) \in Seq(S)
    BY AppendProperties
  <2> HIDE DEF k, both
  <2>8. Sel(Sel(Append(r, x), K), L) = Sel(Append(r, x), both)
    <3>1. CASE x \in K /\ x \in L
      BY <2>2, <2>3, <2>4, <2>5, <2>6, <3>1
    <3>2. CASE x \in K /\ ~ (x \in L)
      BY <2>2, <2>3, <2>4, <2>5, <2>6, <3>2
    <3>3. CASE ~ (x \in K)
      <4>1. Sel(Append(r, x), K) = k /\ Sel(Append(r, x), both) = Sel(r, both)
        BY <2>2, <2>4, <2>6, <3>3
      <4> QED
        BY <2>5, <4>1
    <3> QED
      BY <3>1, <3>2, <3>3
  <2> QED
    BY <2>7, <2>8 DEF both
<1>3. Seq(S) \subseteq T
  <2> HIDE DEF T
  <2> QED
    BY <1>1, <1>2, SeqSetInduction
<1> QED
  BY <1>3

LEMMA EachLen ==
  ASSUME NEW S, NEW m, NEW s \in Seq(S)
  PROVE  /\ Len(Each(m, s)) = Len(s)
         /\ \A i \in 1 .. Len(s) : Each(m, s)[i] = m[s[i]]
<1> DEFINE n == Len(s)
           V == {m[s[i]] : i \in 1 .. n}
<1>1. n \in Nat /\ DOMAIN s = 1 .. n
  BY LenProperties
<1>2. Each(m, s) = [i \in 1 .. n |-> m[s[i]]]
  BY <1>1 DEF Each
<1>3. Each(m, s) \in [1 .. n -> V]
  BY <1>2
<1>4. Len(Each(m, s)) = n
  <2> HIDE DEF n, V
  <2> QED
    BY <1>1, <1>3, FunctionIsSeq
<1> QED
  BY <1>2, <1>4

LEMMA EachType ==
  ASSUME NEW S, NEW V, NEW m, \A x \in S : m[x] \in V, NEW s \in Seq(S)
  PROVE  Each(m, s) \in Seq(V)
<1> DEFINE n == Len(s)
<1>1. n \in Nat /\ DOMAIN s = 1 .. n /\ \A i \in 1 .. n : s[i] \in S
  BY LenProperties, ElementOfSeq
<1>2. Each(m, s) = [i \in 1 .. n |-> m[s[i]]]
  BY <1>1 DEF Each
<1> HIDE DEF n
<1>3. Each(m, s) \in [1 .. n -> V]
  BY <1>1, <1>2
<1> QED
  BY <1>1, <1>3, FunctionIsSeq

LEMMA EachAppend ==
  ASSUME NEW S, NEW m, NEW s \in Seq(S), NEW x \in S
  PROVE  Each(m, Append(s, x)) = Append(Each(m, s), m[x])
<1> DEFINE V == {m[y] : y \in S}
           a == Append(s, x)
           l == Each(m, a)
           e == Each(m, s)
           r == Append(e, m[x])
<1>v. \A y \in S : m[y] \in V
  OBVIOUS
<1> HIDE DEF V
<1>1. a \in Seq(S) /\ Len(a) = Len(s) + 1 /\ a[Len(s) + 1] = x
      /\ \A i \in 1 .. Len(s) : a[i] = s[i]
  BY AppendProperties
<1>2. /\ e \in Seq(V) /\ Len(e) = Len(s)
      /\ \A i \in 1 .. Len(s) : e[i] = m[s[i]]
  BY <1>v, EachLen, EachType
<1>3. /\ l \in Seq(V) /\ Len(l) = Len(a)
      /\ \A i \in 1 .. Len(a) : l[i] = m[a[i]]
  <2>1. a \in Seq(S)
    BY <1>1
  <2> HIDE DEF a
  <2>2. Each(m, a) \in Seq(V)
    BY <1>v, <2>1, EachType
  <2>3. /\ Len(Each(m, a)) = Len(a)
        /\ \A i \in 1 .. Len(a) : Each(m, a)[i] = m[a[i]]
    BY <2>1, EachLen
  <2> QED
    BY <2>2, <2>3
<1>4. /\ r \in Seq(V) /\ Len(r) = Len(e) + 1 /\ r[Len(e) + 1] = m[x]
      /\ \A i \in 1 .. Len(e) : r[i] = e[i]
  <2>1. e \in Seq(V) /\ m[x] \in V
    BY <1>2, <1>v
  <2> HIDE DEF e
  <2> QED
    BY <2>1, AppendProperties
<1>5. Len(s) \in Nat
  BY LenProperties
<1> HIDE DEF a, l, e, r
<1>6. ASSUME NEW i \in 1 .. Len(l) PROVE l[i] = r[i]
  <2>1. i \in 1 .. Len(s) \/ i = Len(s) + 1
    BY <1>1, <1>3, <1>5
  <2>2. CASE i \in 1 .. Len(s)
    BY <1>1, <1>2, <1>3, <1>4, <2>2
  <2>3. CASE i = Len(s) + 1
    BY <1>1, <1>2, <1>3, <1>4, <2>3
  <2> QED
    BY <2>1, <2>2, <2>3
<1>7. l = r
  BY <1>1, <1>2, <1>3, <1>4, <1>6, SeqEqual
<1> QED
  BY <1>7 DEF a, l, e, r

LEMMA SelEach ==
  ASSUME NEW S, NEW m, NEW K, NEW L,
         \A x \in S : x \in K <=> m[x] \in L,
         NEW s \in Seq(S)
  PROVE  Sel(Each(m, s), L) = Each(m, Sel(s, K))
<1> DEFINE V == {m[x] : x \in S}
           T == {r \in Seq(S) : Sel(Each(m, r), L) = Each(m, Sel(r, K))}
<1>v. \A x \in S : m[x] \in V
  OBVIOUS
<1> HIDE DEF V
<1>1. <<>> \in T
  <2>1. Each(m, <<>>) = <<>>
    BY DEF Each
  <2> QED
    BY <2>1, SelEmpty, EmptySeq
<1>2. ASSUME NEW r \in Seq(S), NEW x \in S, r \in T PROVE Append(r, x) \in T
  <2>1. x \in K <=> m[x] \in L
    OBVIOUS
  <2>2. Sel(Each(m, r), L) = Each(m, Sel(r, K))
    BY <1>2
  <2>3. Sel(Append(r, x), K) = IF x \in K THEN Append(Sel(r, K), x)
                                          ELSE Sel(r, K)
    BY SelAppend
  <2>4. Each(m, Append(r, x)) = Append(Each(m, r), m[x])
        /\ Each(m, r) \in Seq(V) /\ m[x] \in V
    <3>1. Each(m, Append(r, x)) = Append(Each(m, r), m[x])
      BY EachAppend
    <3>2. Each(m, r) \in Seq(V)
      BY <1>v, EachType
    <3> QED
      BY <1>v, <3>1, <3>2
  <2>5. Sel(Append(Each(m, r), m[x]), L)
          = IF m[x] \in L THEN Append(Sel(Each(m, r), L), m[x])
                          ELSE Sel(Each(m, r), L)
    <3> DEFINE e == Each(m, r)
               v == m[x]
    <3>1. e \in Seq(V) /\ v \in V
      BY <2>4
    <3> HIDE DEF e, v
    <3>2. Sel(Append(e, v), L) = IF v \in L THEN Append(Sel(e, L), v)
                                            ELSE Sel(e, L)
      BY <3>1, SelAppend
    <3> QED
      BY <3>2 DEF e, v
  <2>6. Each(m, Append(Sel(r, K), x)) = Append(Each(m, Sel(r, K)), m[x])
    <3>1. Sel(r, K) \in Seq(S)
      BY SelType
    <3> QED
      BY <3>1, EachAppend
  <2>7. Append(r, x) \in Seq(S)
    BY AppendProperties
  <2>8. Sel(Each(m, Append(r, x)), L) = Each(m, Sel(Append(r, x), K))
    <3>1. CASE x \in K
      BY <2>1, <2>2, <2>3, <2>4, <2>5, <2>6, <3>1
    <3>2. CASE ~ (x \in K)
      BY <2>1, <2>2, <2>3, <2>4, <2>5, <3>2
    <3> QED
      BY <3>1, <3>2
  <2> QED
    BY <2>7, <2>8
<1>3. Seq(S) \subseteq T
  <2> HIDE DEF T
  <2> QED
    BY <1>1, <1>2, SeqSetInduction
<1> QED
  BY <1>3

LEMMA SelTheOne ==
  ASSUME NEW S, NEW K, NEW s \in Seq(S), NEW i \in 1 .. Len(s),
         \A j \in 1 .. Len(s) : s[j] \in K <=> j = i
  PROVE  Sel(s, K) = <<s[i]>>
<1>1. s[i] \in S /\ Len(s) \in Nat
  BY LenProperties, ElementOfSeq
<1>2. Sel(SubSeq(s, i, i), K) = Sel(s, K)
  <2>1. i \in i .. Len(s) /\ \A j \in 1 .. Len(s) : j < i \/ i < j => j # i
    BY <1>1
  <2>2. \A j \in 1 .. Len(s) : j < i \/ i < j => ~ (s[j] \in K)
    BY <2>1
  <2> QED
    BY <2>1, <2>2, SelTrim
<1>3. SubSeq(s, i, i) = <<s[i]>>
  <2>1. i \in i .. Len(s)
    BY <1>1
  <2>2. SubSeq(s, i, i) = <<s[i]>> \o SubSeq(s, i + 1, i)
    BY <2>1, SubSeqRecursiveFirst
  <2>3. SubSeq(s, i + 1, i) = <<>>
    <3>1. i + 1 \in Int /\ i \in Int /\ i < i + 1
      BY <1>1
    <3> QED
      BY <3>1, SubSeqEmpty
  <2>4. <<s[i]>> \o <<>> = <<s[i]>>
    <3>1. <<s[i]>> \in Seq(S)
      BY <1>1
    <3> QED
      BY <3>1, ConcatEmptySeq
  <2> QED
    BY <2>2, <2>3, <2>4
<1>4. Sel(<<s[i]>>, K) = <<s[i]>>
  BY <1>1, SelOne
<1> QED
  BY <1>2, <1>3, <1>4

(* a form has five fields, and no two with the same id *)
LEMMA FormsAre ==
  ASSUME NEW kind \in FormKinds
  PROVE  /\ DOMAIN Forms[kind] = 1 .. 5 /\ Len(Forms[kind]) = 5
         /\ Forms[kind] \in Seq(ToSet(Forms[kind]))
         /\ \A i, j \in 1 .. 5 : Forms[kind][i].id = Forms[kind][j].id => i = j
<1> DEFINE F == Forms[kind]
<1>1. /\ DOMAIN F = 1 .. 5 /\ Len(F) = 5
      /\ \A i, j \in 1 .. 5 : F[i].id = F[j].id => i = j
  <2>1. \A i \in 1 .. 5 : i = 1 \/ i = 2 \/ i = 3 \/ i = 4 \/ i = 5
    OBVIOUS
  <2>2. CASE kind = "feat"
    <3>1. /\ DOMAIN FeatModalInput = 1 .. 5 /\ Len(FeatModalInput) = 5
          /\ FeatModalInput[1].id = "feature_name"
          /\ FeatModalInput[2].id = "background"
          /\ FeatModalInput[3].id = "features"
          /\ FeatModalInput[4].id = "constraints"
          /\ FeatModalInput[5].id = "design_requirements"
      BY DEF FeatModalInput, Field
    <3>2. F = FeatModalInput
      BY <2>2 DEF Forms
    <3> HIDE DEF F
    <3> QED
      BY <2>1, <3>1, <3>2
  <2>3. CASE kind = "fix"
    <3>1. /\ DOMAIN FixModalInput = 1 .. 5 /\ Len(FixModalInput) = 5
          /\ FixModalInput[1].id = "bug_title"
          /\ FixModalInput[2].id = "symptom"
          /\ FixModalInput[3].id = "reproduction"
          /\ FixModalInput[4].id = "expected"
          /\ FixModalInput[5].id = "related_areas"
      BY DEF FixModalInput, Field
    <3>2. F = FixModalInput
      BY <2>3 DEF Forms
    <3> HIDE DEF F
    <3> QED
      BY <2>1, <3>1, <3>2
  <2>4. CASE kind = "refactor"
    <3>1. /\ DOMAIN RefactorModalInput = 1 .. 5 /\ Len(RefactorModalInput) = 5
          /\ RefactorModalInput[1].id = "target_name"
          /\ RefactorModalInput[2].id = "background"
          /\ RefactorModalInput[3].id = "as_is"
          /\ RefactorModalInput[4].id = "to_be"
          /\ RefactorModalInput[5].id = "constraints"
      BY DEF RefactorModalInput, Field
    <3>2. F = RefactorModalInput
      BY <2>4 DEF Forms
    <3> HIDE DEF F
    <3> QED
      BY <2>1, <3>1, <3>2
  <2> QED
    BY <2>2, <2>3, <2>4 DEF FormKinds, Forms
<1>2. F \in [1 .. 5 -> ToSet(F)]
  <2>1. F = [i \in 1 .. 5 |-> F[i]]
    <3>1. CASE kind = "feat"
      BY <3>1 DEF Forms, FeatModalInput
    <3>2. CASE kind = "fix"
      BY <3>2 DEF Forms, FixModalInput
    <3>3. CASE kind = "refactor"
      BY <3>3 DEF Forms, RefactorModalInput
    <3> QED
      BY <3>1, <3>2, <3>3 DEF FormKinds, Forms
  <2> HIDE DEF F
  <2>2. \A i \in 1 .. 5 : F[i] \in ToSet(F)
    BY <1>1 DEF ToSet
  <2> QED
    BY <2>1, <2>2
<1> HIDE DEF F
<1>3. F \in Seq(ToSet(F))
  BY <1>2, FunctionIsSeq
<1> QED
  BY <1>1, <1>3 DEF F

(* the section of a field: the one labelled with its id, if it is shown *)
LEMMA SectionOfField ==
  ASSUME NEW kind \in FormKinds, NEW input, NEW i \in 1 .. 5
  PROVE  LET f  == Forms[kind][i]
             id == f.id
         IN  Where(ToPrompt(kind, input), LAMBDA s : s.label = id)
               = IF f.required \/ ~ IsBlank(input[id])
                   THEN <<Section(f, input[id])>> ELSE <<>>
<1> DEFINE F  == Forms[kind]
           S  == ToSet(F)
           f  == F[i]
           id == f.id
           m  == [x \in S |-> Section(x, input[x.id])]
           V  == {m[x] : x \in S}
           K  == {x \in S : x.required \/ ~ IsBlank(input[x.id])}
           L  == {x \in V : x.label = id}
           J  == {x \in S : m[x] \in L}
           shown == Sel(F, K)
<1>1. /\ DOMAIN F = 1 .. 5 /\ Len(F) = 5 /\ F \in Seq(S)
      /\ \A j, k \in 1 .. 5 : F[j].id = F[k].id => j = k
  BY FormsAre
<1>2. \A j \in 1 .. 5 : F[j] \in S
  BY <1>1 DEF ToSet
<1> HIDE DEF F, S
<1>3. shown = Where(F, LAMBDA x : x.required \/ ~ IsBlank(input[x.id]))
  <2>1. \A j \in DOMAIN F :
          F[j].required \/ ~ IsBlank(input[F[j].id]) <=> F[j] \in K
    BY <1>1, <1>2
  <2> HIDE DEF K
  <2>2. Given(F, K)
          = [j \in DOMAIN F |->
               IF F[j].required \/ ~ IsBlank(input[F[j].id])
                 THEN <<F[j]>> ELSE <<>>]
    BY <2>1 DEF Given
  <2>3. Where(F, LAMBDA x : x.required \/ ~ IsBlank(input[x.id]))
          = FlattenSeq([j \in DOMAIN F |->
               IF F[j].required \/ ~ IsBlank(input[F[j].id])
                 THEN <<F[j]>> ELSE <<>>])
    BY DEF Where
  <2> QED
    BY <2>2, <2>3 DEF Sel
<1>4. shown \in Seq(S)
  <2> HIDE DEF K
  <2> QED
    BY <1>1, SelType
<1>5. m \in [S -> V] /\ \A x \in S : m[x] = Section(x, input[x.id])
                                     /\ m[x].label = x.id
  BY DEF Section
<1>6. ToPrompt(kind, input) = Each(m, shown)
  <2>1. \A s \in DOMAIN shown : shown[s] \in S
    <3> HIDE DEF shown
    <3> QED
      BY <1>4, LenProperties, ElementOfSeq
  <2>2. Each(m, shown)
          = [s \in DOMAIN shown |-> Section(shown[s], input[shown[s].id])]
    <3> HIDE DEF m, shown
    <3> QED
      BY <1>5, <2>1 DEF Each
  <2>3. ToPrompt(kind, input)
          = [s \in DOMAIN shown |-> Section(shown[s], input[shown[s].id])]
    <3> HIDE DEF shown
    <3> QED
      BY <1>3 DEF ToPrompt, F
  <2> QED
    BY <2>2, <2>3
<1> HIDE DEF shown
<1>7. Each(m, shown) \in Seq(V)
  <2> HIDE DEF m, V
  <2> QED
    BY <1>4, <1>5, EachType
<1>8. Where(ToPrompt(kind, input), LAMBDA s : s.label = id)
        = Sel(Each(m, shown), L)
  <2> DEFINE p == Each(m, shown)
  <2>1. p \in Seq(V)
    BY <1>7
  <2> HIDE DEF p, V, m
  <2>2. \A s \in DOMAIN p : p[s] \in V
    BY <2>1, LenProperties, ElementOfSeq
  <2>3. \A s \in DOMAIN p : p[s].label = id <=> p[s] \in L
    BY <2>2
  <2> HIDE DEF L
  <2>4. Given(p, L)
          = [s \in DOMAIN p |-> IF p[s].label = id THEN <<p[s]>> ELSE <<>>]
    BY <2>3 DEF Given
  <2>5. Where(p, LAMBDA s : s.label = id)
          = FlattenSeq([s \in DOMAIN p |->
              IF p[s].label = id THEN <<p[s]>> ELSE <<>>])
    BY DEF Where
  <2>6. Where(p, LAMBDA s : s.label = id) = Sel(p, L)
    BY <2>4, <2>5 DEF Sel
  <2> QED
    BY <1>6, <2>6 DEF p
<1>9. Sel(Each(m, shown), L) = Each(m, Sel(shown, J))
  <2>1. \A x \in S : x \in J <=> m[x] \in L
    OBVIOUS
  <2> HIDE DEF m, V, L, J
  <2> QED
    BY <1>4, <1>5, <2>1, SelEach
<1>10. \A j \in 1 .. 5 : F[j] \in J <=> j = i
  <2>1. \A x \in S : x \in J <=> x.id = id
    BY <1>5
  <2> HIDE DEF J
  <2> QED
    BY <1>1, <1>2, <2>1
<1>11. Sel(shown, J) = Sel(F, K \intersect J)
  <2> HIDE DEF K, J
  <2> QED
    BY <1>1, SelSel DEF shown
<1>12. f \in S /\ (f \in K <=> f.required \/ ~ IsBlank(input[id]))
  BY <1>2
<1> HIDE DEF J, K, L
<1>13. CASE f \in K
  <2>1. \A j \in 1 .. Len(F) : F[j] \in K \intersect J <=> j = i
    BY <1>1, <1>10, <1>13
  <2>2. Sel(F, K \intersect J) = <<f>>
    <3> DEFINE both == K \intersect J
    <3>1. i \in 1 .. Len(F) /\ F \in Seq(S)
      BY <1>1
    <3>2. \A j \in 1 .. Len(F) : F[j] \in both <=> j = i
      BY <2>1
    <3> HIDE DEF both
    <3>3. Sel(F, both) = <<F[i]>>
      BY <3>1, <3>2, SelTheOne
    <3> QED
      BY <3>3 DEF both
  <2>3. Each(m, <<f>>) = <<Section(f, input[id])>>
    <3>1. m[f] = Section(f, input[f.id])
      BY <1>5, <1>12
    <3> HIDE DEF m, f
    <3>2. Each(m, <<f>>) = <<m[f]>>
      BY DEF Each
    <3> QED
      BY <3>1, <3>2
  <2> HIDE DEF m, f
  <2> QED
    BY <1>8, <1>9, <1>11, <1>12, <1>13, <2>2, <2>3 DEF f, F
<1>14. CASE ~ (f \in K)
  <2>1. \A j \in 1 .. Len(F) : ~ (F[j] \in K \intersect J)
    BY <1>1, <1>10, <1>14
  <2>2. Sel(F, K \intersect J) = <<>>
    BY <1>1, <2>1, SelNowhere
  <2>3. Each(m, <<>>) = <<>>
    BY DEF Each
  <2> HIDE DEF m, f
  <2> QED
    BY <1>8, <1>9, <1>11, <1>12, <1>14, <2>2, <2>3 DEF f, F
<1> QED
  BY <1>13, <1>14

LEMMA PromptOfForm ==
  ASSUME NEW kind \in FormKinds, NEW values \in [BlockIds(kind) -> Values],
         NEW i \in DOMAIN Forms[kind]
  PROVE  LET id == Forms[kind][i].id
             section == Where(ToPrompt(kind, FromView(kind, values)),
                              LAMBDA s : s.label = id)
         IN  WordsOf(values[id]) =
               IF section = <<>> THEN <<>> ELSE WordsOf(section[1].lines)
<1> DEFINE f == Forms[kind][i]
           id == f.id
           input == FromView(kind, values)
           raw == values[id]
           section == Where(ToPrompt(kind, input), LAMBDA s : s.label = id)
<1>1. i \in 1 .. 5 /\ DOMAIN Forms[kind] = 1 .. 5
  BY FormsAre
<1>2. id \in BlockIds(kind)
  <2>1. /\ DOMAIN ModalBlocks(kind) = DOMAIN Forms[kind]
        /\ ModalBlocks(kind)[i].blockId = id
    BY DEF ModalBlocks
  <2>2. ModalBlocks(kind)[i] \in ToSet(ModalBlocks(kind))
    BY <2>1 DEF ToSet
  <2> QED
    BY <2>1, <2>2 DEF BlockIds
<1>3. raw \in Seq(Seq(Tokens))
  BY <1>2, InputAssumption DEF Tokens
<1>4. input[id] = raw
  BY <1>2 DEF FromView
<1>5. section = IF f.required \/ ~ IsBlank(input[id])
                  THEN <<Section(f, input[id])>> ELSE <<>>
  <2> HIDE DEF input
  <2> QED
    BY <1>1, SectionOfField
<1> HIDE DEF section, raw, input
<1>6. CASE f.required \/ ~ IsBlank(raw)
  <2>1. section = <<Section(f, raw)>>
    BY <1>4, <1>5, <1>6
  <2>2. section # <<>> /\ section[1].lines = Section(f, raw).lines
    BY <2>1
  <2>3. WordsOf(Section(f, raw).lines) = WordsOf(raw)
    <3>1. Section(f, raw).lines
            = IF f.render = "bullets" THEN ParseBullets(raw) ELSE raw
      BY DEF Section
    <3> QED
      BY <1>3, <3>1, BulletsKeepTheWords
  <2> QED
    BY <2>2, <2>3 DEF section, raw, input
<1>7. CASE ~ (f.required \/ ~ IsBlank(raw))
  <2>1. section = <<>>
    BY <1>4, <1>5, <1>7
  <2>2. WordsOf(raw) = <<>>
    BY <1>3, <1>7, BlankHasNoWords
  <2> QED
    BY <2>1, <2>2 DEF section, raw, input
<1> QED
  BY <1>6, <1>7

FormAsBuilt == screen.at = "form" => screen.kind \in FormKinds

PromptInv == FormAsBuilt /\ PromptKeepsTheWords

LEMMA HandedPrompt ==
  ASSUME NEW answer, Hand(answer), answer.event.type # "pipeline_start"
  PROVE  PromptInv'
  BY DEF Hand, Channel, PromptInv, FormAsBuilt, PromptKeepsTheWords

LEMMA SubmittedPrompt ==
  ASSUME PromptInv, screen.at = "form",
         NEW values \in [BlockIds(screen.kind) -> Values], SubmitForm(values)
  PROVE  PromptInv'
<1>1. screen.kind \in FormKinds
  BY DEF PromptInv, FormAsBuilt
<1>2. /\ screen' = Channel
      /\ sent' = [event |-> Event("pipeline_start", None, person.user,
                                  screen.meta.channel),
                  kind   |-> screen.kind, typed |-> values,
                  prompt |-> ToPrompt(screen.kind,
                                      FromView(screen.kind, values))]
  BY DEF SubmitForm, Hand
<1>3. /\ sent'.kind = screen.kind /\ sent'.typed = values
      /\ sent'.prompt = ToPrompt(screen.kind, FromView(screen.kind, values))
  BY <1>2
<1>4. PromptKeepsTheWords'
  <2>1. KeepsTheWords(screen.kind, values,
                      ToPrompt(screen.kind, FromView(screen.kind, values)))
    BY <1>1, PromptOfForm DEF KeepsTheWords
  <2> QED
    BY <1>3, <2>1 DEF PromptKeepsTheWords
<1> QED
  BY <1>2, <1>4 DEF PromptInv, FormAsBuilt, Channel

LEMMA ShowPrompt == Show => PromptInv'
<1> SUFFICES ASSUME Show PROVE PromptInv'
  OBVIOUS
<1>1. PICK user \in Users, channel \in Channels :
        \/ \E kind \in FormKinds : OpenForm(kind, user, channel)
        \/ \E w \in WorkflowIds, owner \in Users, anchored \in BOOLEAN :
             ShowDecision(w, owner, anchored, user, channel)
        \/ \E w \in WorkflowIds, owner \in Users, t \in Templates :
             ShowDraft(w, owner, t, user, channel)
        \/ \E w \in WorkflowIds, t \in Templates :
             OpenDropModal(w, t, user, channel)
  BY DEF Show
<1>2. sent' = None
  BY <1>1 DEF OpenForm, ShowDecision, ShowDraft, OpenDropModal, Open
<1>3. PromptKeepsTheWords'
  BY <1>2 DEF PromptKeepsTheWords
<1>4. FormAsBuilt'
  BY <1>1 DEF OpenForm, ModalView, ShowDecision, ShowDraft, OpenDropModal,
              BuildDropModal, Open, FormAsBuilt
<1> QED
  BY <1>3, <1>4 DEF PromptInv

LEMMA AnswerPrompt == PromptInv /\ Answer => PromptInv'
<1> SUFFICES ASSUME PromptInv, Answer PROVE PromptInv'
  OBVIOUS
<1>1. CASE /\ screen.at = "form"
           /\ \E values \in [BlockIds(screen.kind) -> Values] :
                SubmitForm(values)
  BY <1>1, SubmittedPrompt
<1>2. ASSUME NEW action \in DOMAIN DECISION_ACTION_MAP, PressDecision(action)
      PROVE  PromptInv'
  <2>1. DECISION_ACTION_MAP[action] # "pipeline_start"
    BY DEF DECISION_ACTION_MAP
  <2> HIDE DEF DECISION_ACTION_MAP
  <2> QED
    BY <1>2, <2>1, HandedPrompt DEF PressDecision, Press, Event
<1>3. CASE PressAccept
  BY <1>3, HandedPrompt DEF PressAccept, Press, Event
<1>4. CASE PressDrop
  BY <1>4, HandedPrompt DEF PressDrop, Press, Event
<1>5. CASE PressReject
  BY <1>5 DEF PressReject, BuildRejectModal, PromptInv, FormAsBuilt,
              PromptKeepsTheWords
<1>6. ASSUME NEW additional, SubmitReject(additional) PROVE PromptInv'
  BY <1>6, HandedPrompt DEF SubmitReject, Event
<1>7. ASSUME NEW id, Tick(id) PROVE PromptInv'
  BY <1>7 DEF Tick, PromptInv, FormAsBuilt, PromptKeepsTheWords
<1>8. CASE Leave
  BY <1>8 DEF Leave, Channel, PromptInv, FormAsBuilt, PromptKeepsTheWords
<1> QED
  BY <1>1, <1>2, <1>3, <1>4, <1>5, <1>6, <1>7, <1>8 DEF Answer

(***************************************************************************)
(* Every word typed into a form reaches the agents, in order and under the *)
(* label of its own field: from_view, _parse_bullets and to_prompt take    *)
(* away blanks, marks and empty lines only, for all that can be typed.     *)
(***************************************************************************)
THEOREM PromptsKeepEveryWord == Spec => []PromptKeepsTheWords
<1>1. Init => PromptInv
  BY DEF Init, Channel, PromptInv, FormAsBuilt, PromptKeepsTheWords
<1>2. PromptInv /\ UNCHANGED vars => PromptInv'
  BY DEF vars, PromptInv, FormAsBuilt, PromptKeepsTheWords
<1>3. PromptInv /\ [Next]_vars => PromptInv'
  BY <1>2, ShowPrompt, AnswerPrompt DEF Next
<1>4. PromptInv => PromptKeepsTheWords
  BY DEF PromptInv
<1> QED
  BY <1>1, <1>3, <1>4, PTL DEF Spec

=============================================================================
