----------------------------- MODULE ListLemmas -----------------------------
(***************************************************************************)
(* Lemmas about sequences, for the proofs about the queues of the other      *)
(* modules.                                                                *)
(***************************************************************************)
EXTENDS Lists, WellFoundedInduction, SequenceTheorems, TLAPS

(* Induction over the natural numbers, for a set instead of a predicate.    *)

\* A set of natural numbers that is not empty has a least element.
LEMMA LeastElement ==
  ASSUME NEW S \in SUBSET Nat, S # {}
  PROVE  \E x \in S : \A y \in S : x <= y
<1>1. PICK R : /\ IsWellFoundedOn(R, Nat)
               /\ \A x, y \in Nat : <<y, x>> \in R <=> y < x
  <2> DEFINE R == OpToRel(<, Nat)
  <2>1. IsWellFoundedOn(R, Nat)
    BY NatLessThanWellFounded
  <2>2. \A x, y \in Nat : <<y, x>> \in R <=> y < x
    BY DEF OpToRel
  <2> HIDE DEF R
  <2> QED BY <2>1, <2>2
<1>2. PICK x \in S : \A y \in S : ~(<<y, x>> \in R)
  BY <1>1, WFMin
<1>3. \A y \in S : ~(y < x)
  BY <1>1, <1>2
<1> QED BY <1>3

\* A set with 0 in it, and with n + 1 for each of its n, has every natural number.
LEMMA Induction ==
  ASSUME NEW S, 0 \in S, \A n \in Nat : n \in S => n + 1 \in S
  PROVE  Nat \subseteq S
<1> DEFINE T == Nat \ S
<1> SUFFICES ASSUME T # {}
             PROVE  FALSE
  OBVIOUS
<1>1. PICK x \in T : \A y \in T : x <= y
  BY LeastElement
<1>2. x # 0 /\ x - 1 \in Nat /\ x - 1 \notin T
  BY <1>1
<1> QED BY <1>2

-----------------------------------------------------------------------------
(* What is in a sequence.                                                   *)

\* The elements of a list are what its indices give, and have its type.
LEMMA RangeElement ==
  ASSUME NEW S, NEW s \in Seq(S)
  PROVE  /\ \A x : x \in Range(s) <=> \E i \in 1 .. Len(s) : s[i] = x
         /\ Range(s) \subseteq S
  BY LenProperties, ElementOfSeq DEF Range

\* An element put behind a list is added to its elements.
LEMMA RangeAppend ==
  ASSUME NEW S, NEW s \in Seq(S), NEW e \in S
  PROVE  Append(s, e) \in Seq(S) /\ Range(Append(s, e)) = Range(s) \cup {e}
<1>1. /\ Append(s, e) \in Seq(S) /\ Len(Append(s, e)) = Len(s) + 1
      /\ \A i \in 1 .. Len(s) : Append(s, e)[i] = s[i]
      /\ Append(s, e)[Len(s) + 1] = e
      /\ Len(s) \in Nat
  BY AppendProperties, LenProperties
<1>2. \A i \in 1 .. Len(s) + 1 : i \in 1 .. Len(s) \/ i = Len(s) + 1
  BY <1>1
<1>3. \A x : x \in Range(Append(s, e)) <=> x \in Range(s) \/ x = e
  <2>1. ASSUME NEW x, x \in Range(s)
        PROVE  x \in Range(Append(s, e))
    <3>1. PICK i \in 1 .. Len(s) : s[i] = x
      BY <2>1, RangeElement
    <3>2. i \in 1 .. Len(Append(s, e)) /\ Append(s, e)[i] = x
      BY <1>1, <3>1
    <3> QED BY <1>1, <3>2, RangeElement
  <2>2. e \in Range(Append(s, e))
    <3>1. Len(s) + 1 \in 1 .. Len(Append(s, e))
      BY <1>1
    <3> QED BY <1>1, <3>1, RangeElement
  <2>3. ASSUME NEW x, x \in Range(Append(s, e))
        PROVE  x \in Range(s) \/ x = e
    <3>1. PICK i \in 1 .. Len(Append(s, e)) : Append(s, e)[i] = x
      BY <1>1, <2>3, RangeElement
    <3> QED BY <1>1, <1>2, <3>1, RangeElement
  <2> QED BY <2>1, <2>2, <2>3
<1> QED BY <1>1, <1>3

\* The head and the tail by index, and as sets.
LEMMA HeadTail ==
  ASSUME NEW S, NEW s \in Seq(S), s # <<>>
  PROVE  /\ Len(s) \in Nat /\ 1 \in 1 .. Len(s) /\ Head(s) = s[1] /\ Head(s) \in S
         /\ Tail(s) \in Seq(S) /\ Len(Tail(s)) = Len(s) - 1
         /\ \A i \in 1 .. Len(Tail(s)) : i + 1 \in 1 .. Len(s) /\ Tail(s)[i] = s[i + 1]
         /\ Range(s) = {Head(s)} \cup Range(Tail(s))
<1>1. Len(s) \in Nat \ {0} /\ 1 \in 1 .. Len(s)
  BY EmptySeq
<1>2. Head(s) = s[1] /\ Head(s) \in S
  BY <1>1, ElementOfSeq
<1>3. /\ Tail(s) \in Seq(S) /\ Len(Tail(s)) = Len(s) - 1
      /\ \A i \in 1 .. Len(Tail(s)) : Tail(s)[i] = s[i + 1]
  BY HeadTailProperties
<1>4. \A i \in 1 .. Len(Tail(s)) : i + 1 \in 1 .. Len(s)
  BY <1>1, <1>3
<1>5. \A x \in Range(s) : x \in {Head(s)} \cup Range(Tail(s))
  <2> SUFFICES ASSUME NEW x \in Range(s)
               PROVE  x \in {Head(s)} \cup Range(Tail(s))
    OBVIOUS
  <2>1. PICK i \in 1 .. Len(s) : s[i] = x
    BY RangeElement
  <2>2. CASE i = 1
    BY <1>2, <2>1, <2>2
  <2>3. CASE i # 1
    <3>1. i - 1 \in 1 .. Len(Tail(s)) /\ (i - 1) + 1 = i
      BY <1>1, <1>3, <2>3
    <3>2. Tail(s)[i - 1] = x
      BY <1>3, <2>1, <3>1
    <3>3. \E k \in 1 .. Len(Tail(s)) : Tail(s)[k] = x
      BY <3>1, <3>2
    <3>4. x \in Range(Tail(s))
      BY <1>3, <3>3, RangeElement
    <3> QED BY <3>4
  <2> QED BY <2>2, <2>3
<1>6. \A x \in Range(Tail(s)) : x \in Range(s)
  <2> SUFFICES ASSUME NEW x \in Range(Tail(s))
               PROVE  x \in Range(s)
    OBVIOUS
  <2>1. PICK i \in 1 .. Len(Tail(s)) : Tail(s)[i] = x
    BY <1>3, RangeElement
  <2> QED BY <1>3, <1>4, <2>1, RangeElement
<1>7. Head(s) \in Range(s)
  BY <1>1, <1>2, RangeElement
<1> QED BY <1>1, <1>2, <1>3, <1>4, <1>5, <1>6, <1>7

-----------------------------------------------------------------------------
(* NoneAfter.                                                               *)

\* An order holds of what is behind the head, and of the head and that.
LEMMA NoneAfterTail ==
  ASSUME NEW S, NEW s \in Seq(S), s # <<>>, NEW A, NEW B, NoneAfter(s, A, B)
  PROVE  /\ NoneAfter(Tail(s), A, B)
         /\ Head(s) \in A => Range(Tail(s)) \cap B = {}
<1>1. /\ Len(s) \in Nat /\ 1 \in 1 .. Len(s) /\ Head(s) = s[1]
      /\ Tail(s) \in Seq(S) /\ Len(Tail(s)) = Len(s) - 1
      /\ \A i \in 1 .. Len(Tail(s)) : i + 1 \in 1 .. Len(s) /\ Tail(s)[i] = s[i + 1]
  BY HeadTail
<1>2. ASSUME NEW i \in 1 .. Len(Tail(s)), NEW j \in 1 .. Len(Tail(s)), i < j,
             Tail(s)[i] \in A
      PROVE  Tail(s)[j] \notin B
  <2>1. /\ i + 1 \in 1 .. Len(s) /\ j + 1 \in 1 .. Len(s) /\ i + 1 < j + 1
        /\ Tail(s)[i] = s[i + 1] /\ Tail(s)[j] = s[j + 1]
    <3>1. i \in Nat /\ j \in Nat /\ i < j
      BY <1>2
    <3> QED BY <1>1, <3>1
  <2>2. s[j + 1] \notin B
    BY <1>2, <2>1 DEF NoneAfter
  <2> QED BY <2>1, <2>2
<1>3. ASSUME Head(s) \in A, NEW x \in Range(Tail(s)), x \in B
      PROVE  FALSE
  <2>0. Tail(s) \in Seq(S)
    BY <1>1
  <2>1. PICK i \in 1 .. Len(Tail(s)) : Tail(s)[i] = x
    BY <1>3, <2>0, RangeElement
  <2>2. 1 < i + 1 /\ i + 1 \in 1 .. Len(s) /\ s[i + 1] = x
    BY <1>1, <2>1
  <2>3. 1 \in 1 .. Len(s) /\ s[1] \in A
    BY <1>1, <1>3
  <2> QED BY <1>3, <2>2, <2>3 DEF NoneAfter
<1> QED BY <1>2, <1>3 DEF NoneAfter

\* An order is kept by a list behind in which nothing has to come first.
LEMMA NoneAfterConcat ==
  ASSUME NEW S, NEW s \in Seq(S), NEW t \in Seq(S), NEW A, NEW B,
         NoneAfter(s, A, B), Range(t) \cap B = {}
  PROVE  NoneAfter(s \o t, A, B)
<1>1. /\ Len(s) \in Nat /\ Len(t) \in Nat /\ Len(s \o t) = Len(s) + Len(t)
      /\ \A i \in 1 .. Len(s) + Len(t) :
           (s \o t)[i] = IF i <= Len(s) THEN s[i] ELSE t[i - Len(s)]
  BY ConcatProperties, LenProperties
<1> SUFFICES ASSUME NEW i \in 1 .. Len(s \o t), NEW j \in 1 .. Len(s \o t), i < j,
                    (s \o t)[i] \in A, (s \o t)[j] \in B
             PROVE  FALSE
  BY DEF NoneAfter
<1>2. CASE j <= Len(s)
  BY <1>1, <1>2 DEF NoneAfter
<1>3. CASE ~(j <= Len(s))
  <2>1. j - Len(s) \in 1 .. Len(t) /\ t[j - Len(s)] \in B
    BY <1>1, <1>3
  <2> QED BY <2>1, RangeElement
<1> QED BY <1>2, <1>3

-----------------------------------------------------------------------------
(* Selected.                                                                *)

\* The prefixes of Selected(s, T), as its definition computes them.
SelectedPrefixes(s, T, n) ==
  CHOOSE f : f = [i \in 0 .. n |->
    IF i = 0 THEN <<>>
    ELSE IF s[i] \in T THEN Append(f[i - 1], s[i]) ELSE f[i - 1]]

\* There is a function with the recursive definition of Selected.
LEMMA PrefixesExist ==
  ASSUME NEW s, NEW T, NEW n \in Nat
  PROVE  SelectedPrefixes(s, T, n) = [i \in 0 .. n |->
           IF i = 0 THEN <<>>
           ELSE IF s[i] \in T THEN Append(SelectedPrefixes(s, T, n)[i - 1], s[i])
           ELSE SelectedPrefixes(s, T, n)[i - 1]]
<1> DEFINE Eq(f, m) == f = [i \in 0 .. m |->
             IF i = 0 THEN <<>>
             ELSE IF s[i] \in T THEN Append(f[i - 1], s[i]) ELSE f[i - 1]]
           N == {m \in Nat : \E f : Eq(f, m)}
<1>1. 0 \in N
  <2> DEFINE f == [i \in 0 .. 0 |-> <<>>]
  <2>1. Eq(f, 0)
    OBVIOUS
  <2> QED BY <2>1
<1>2. ASSUME NEW m \in Nat, m \in N
      PROVE  m + 1 \in N
  <2>1. PICK f : Eq(f, m)
    BY <1>2
  <2> DEFINE last == IF s[m + 1] \in T THEN Append(f[m], s[m + 1]) ELSE f[m]
             g == [i \in 0 .. m + 1 |-> IF i = m + 1 THEN last ELSE f[i]]
  <2>2. \A i \in 0 .. m : f[i] = IF i = 0 THEN <<>>
             ELSE IF s[i] \in T THEN Append(f[i - 1], s[i]) ELSE f[i - 1]
    BY <2>1
  <2> HIDE DEF last
  <2>3. ASSUME NEW i \in 0 .. m + 1
        PROVE  g[i] = IF i = 0 THEN <<>>
                      ELSE IF s[i] \in T THEN Append(g[i - 1], s[i]) ELSE g[i - 1]
    <3>1. CASE i = m + 1
      <4>1. g[i - 1] = f[m] /\ g[i] = last /\ i # 0
        BY <3>1
      <4> QED BY <3>1, <4>1 DEF last
    <3>2. CASE i \in 0 .. m /\ i # 0
      <4>1. i - 1 \in 0 .. m /\ i - 1 # m + 1 /\ i # m + 1 /\ i - 1 \in 0 .. m + 1
        BY <3>2
      <4>2. g[i - 1] = f[i - 1] /\ g[i] = f[i]
        BY <4>1
      <4> QED BY <2>2, <3>2, <4>2
    <3>3. CASE i = 0
      <4>1. g[0] = f[0]
        OBVIOUS
      <4> QED BY <2>2, <3>3, <4>1
    <3> QED BY <3>1, <3>2, <3>3
  <2>4. Eq(g, m + 1)
    BY <2>3
  <2> HIDE DEF Eq, g
  <2> QED BY <2>4
<1> HIDE DEF N
<1>3. n \in N
  BY <1>1, <1>2, Induction
<1>4. \E f : Eq(f, n)
  BY <1>3 DEF N
<1>5. SelectedPrefixes(s, T, n) = CHOOSE f : Eq(f, n)
  BY DEF SelectedPrefixes
<1>6. Eq(SelectedPrefixes(s, T, n), n)
  <2> HIDE DEF Eq
  <2> QED BY <1>4, <1>5
<1> QED BY <1>6

\* The recursive definition, unfolded.
LEMMA SelectedByPrefixes ==
  ASSUME NEW S, NEW s \in Seq(S), NEW T
  PROVE  LET f == SelectedPrefixes(s, T, Len(s))
         IN /\ Selected(s, T) = f[Len(s)] /\ f[0] = <<>>
            /\ \A i \in 1 .. Len(s) :
                 f[i] = IF s[i] \in T THEN Append(f[i - 1], s[i]) ELSE f[i - 1]
<1> DEFINE f == SelectedPrefixes(s, T, Len(s))
<1>1. Selected(s, T) = f[Len(s)]
  BY DEF Selected, SelectedPrefixes
<1>2. Len(s) \in Nat
  BY LenProperties
<1>3. f = [i \in 0 .. Len(s) |-> IF i = 0 THEN <<>>
        ELSE IF s[i] \in T THEN Append(f[i - 1], s[i]) ELSE f[i - 1]]
  BY <1>2, PrefixesExist
<1> HIDE DEF f
<1>4. PICK g : /\ f = g
               /\ g = [i \in 0 .. Len(s) |-> IF i = 0 THEN <<>>
                      ELSE IF s[i] \in T THEN Append(g[i - 1], s[i]) ELSE g[i - 1]]
  BY <1>3
<1>5. \A i \in 0 .. Len(s) : g[i] = IF i = 0 THEN <<>>
        ELSE IF s[i] \in T THEN Append(g[i - 1], s[i]) ELSE g[i - 1]
  BY <1>4
<1>6. /\ g[0] = <<>>
      /\ \A i \in 1 .. Len(s) :
           g[i] = IF s[i] \in T THEN Append(g[i - 1], s[i]) ELSE g[i - 1]
  BY <1>2, <1>5
<1> QED BY <1>1, <1>4, <1>6 DEF f

\* What is selected is of the type of the list and in the set.
LEMMA SelectedType ==
  ASSUME NEW S, NEW s \in Seq(S), NEW T
  PROVE  Selected(s, T) \in Seq(S \cap T)
<1> DEFINE f == SelectedPrefixes(s, T, Len(s))
           N == {i \in Nat : i <= Len(s) => f[i] \in Seq(S \cap T)}
<1>1. /\ Selected(s, T) = f[Len(s)] /\ f[0] = <<>>
      /\ \A i \in 1 .. Len(s) :
           f[i] = IF s[i] \in T THEN Append(f[i - 1], s[i]) ELSE f[i - 1]
  BY SelectedByPrefixes
<1>2. Len(s) \in Nat
  BY LenProperties
<1> HIDE DEF f
<1>3. 0 \in N
  BY <1>1, EmptySeq
<1>4. ASSUME NEW i \in Nat, i \in N
      PROVE  i + 1 \in N
  <2>1. CASE i + 1 <= Len(s)
    <3>1. i + 1 \in 1 .. Len(s) /\ (i + 1) - 1 = i /\ f[i] \in Seq(S \cap T)
      BY <1>2, <1>4, <2>1
    <3>2. s[i + 1] \in S
      BY <3>1, ElementOfSeq
    <3>3. s[i + 1] \in T => Append(f[i], s[i + 1]) \in Seq(S \cap T)
      BY <3>1, <3>2, AppendProperties
    <3>4. f[i + 1] = IF s[i + 1] \in T THEN Append(f[i], s[i + 1]) ELSE f[i]
      BY <1>1, <3>1
    <3>5. f[i + 1] \in Seq(S \cap T)
      BY <3>1, <3>3, <3>4
    <3> QED BY <3>5
  <2> QED BY <2>1
<1> HIDE DEF N
<1>5. Len(s) \in N
  BY <1>2, <1>3, <1>4, Induction
<1> QED BY <1>1, <1>5 DEF N

\* Nothing is selected of an empty list.
LEMMA SelectedEmpty ==
  ASSUME NEW T
  PROVE  Selected(<<>>, T) = <<>>
<1> DEFINE f == SelectedPrefixes(<<>>, T, Len(<<>>))
<1>1. <<>> \in Seq({}) /\ Len(<<>>) = 0
  BY EmptySeq
<1>2. Selected(<<>>, T) = f[Len(<<>>)] /\ f[0] = <<>>
  BY <1>1, SelectedByPrefixes
<1> HIDE DEF f
<1> QED BY <1>1, <1>2

\* An element put behind a list is put behind what is selected, or left out.
LEMMA SelectedAppend ==
  ASSUME NEW S, NEW s \in Seq(S), NEW e \in S, NEW T
  PROVE  Selected(Append(s, e), T) =
           IF e \in T THEN Append(Selected(s, T), e) ELSE Selected(s, T)
<1> DEFINE t == Append(s, e)
           f == SelectedPrefixes(s, T, Len(s))
           g == SelectedPrefixes(t, T, Len(t))
           N == {i \in Nat : i <= Len(s) => f[i] = g[i]}
<1>1. /\ t \in Seq(S) /\ Len(t) = Len(s) + 1 /\ Len(s) \in Nat
      /\ \A i \in 1 .. Len(s) : t[i] = s[i]
      /\ t[Len(s) + 1] = e
  BY AppendProperties, LenProperties
<1> HIDE DEF t
<1>2. /\ Selected(s, T) = f[Len(s)] /\ f[0] = <<>>
      /\ \A i \in 1 .. Len(s) :
           f[i] = IF s[i] \in T THEN Append(f[i - 1], s[i]) ELSE f[i - 1]
  BY SelectedByPrefixes
<1>3. /\ Selected(t, T) = g[Len(t)] /\ g[0] = <<>>
      /\ \A i \in 1 .. Len(t) :
           g[i] = IF t[i] \in T THEN Append(g[i - 1], t[i]) ELSE g[i - 1]
  BY <1>1, SelectedByPrefixes
<1> HIDE DEF f, g
<1>4. 0 \in N
  BY <1>2, <1>3
<1>5. ASSUME NEW i \in Nat, i \in N
      PROVE  i + 1 \in N
  <2>1. CASE i + 1 <= Len(s)
    <3>1. /\ i + 1 \in 1 .. Len(s) /\ i + 1 \in 1 .. Len(t) /\ (i + 1) - 1 = i
          /\ f[i] = g[i] /\ t[i + 1] = s[i + 1]
      BY <1>1, <1>5, <2>1
    <3> QED BY <1>2, <1>3, <3>1
  <2> QED BY <2>1
<1> HIDE DEF N
<1>6. Len(s) \in N
  BY <1>1, <1>4, <1>5, Induction
<1>7. f[Len(s)] = g[Len(s)]
  BY <1>1, <1>6 DEF N
<1>8. Len(t) \in 1 .. Len(t) /\ Len(t) - 1 = Len(s) /\ t[Len(t)] = e
  BY <1>1
<1>9. g[Len(t)] = IF e \in T THEN Append(g[Len(s)], e) ELSE g[Len(s)]
  BY <1>3, <1>8
<1> QED BY <1>2, <1>3, <1>7, <1>9 DEF t

\* Of one list behind another, what is selected of it is behind.
LEMMA SelectedConcat ==
  ASSUME NEW S, NEW s \in Seq(S), NEW T
  PROVE  \A t \in Seq(S) : Selected(s \o t, T) = Selected(s, T) \o Selected(t, T)
<1> DEFINE N == {n \in Nat : \A t \in Seq(S) :
                   Len(t) = n => Selected(s \o t, T) = Selected(s, T) \o Selected(t, T)}
<1>1. 0 \in N
  <2> SUFFICES ASSUME NEW t \in Seq(S), Len(t) = 0
               PROVE  Selected(s \o t, T) = Selected(s, T) \o Selected(t, T)
    OBVIOUS
  <2>1. t = <<>>
    BY EmptySeq
  <2>2. s \o <<>> = s
    BY ConcatEmptySeq
  <2>3. Selected(s, T) \o <<>> = Selected(s, T)
    BY ConcatEmptySeq, SelectedType
  <2> QED BY <2>1, <2>2, <2>3, SelectedEmpty
<1>2. ASSUME NEW n \in Nat, n \in N
      PROVE  n + 1 \in N
  <2> SUFFICES ASSUME NEW t \in Seq(S), Len(t) = n + 1
               PROVE  Selected(s \o t, T) = Selected(s, T) \o Selected(t, T)
    OBVIOUS
  <2>1. t # <<>>
    BY EmptySeq
  <2>2. PICK r \in Seq(S), e \in S : t = Append(r, e)
    BY <2>1, SequenceEmptyOrAppend
  <2>3. Len(r) = n
    BY <2>2, AppendProperties, LenProperties
  <2>4. Selected(s \o r, T) = Selected(s, T) \o Selected(r, T)
    BY <1>2, <2>3
  <2>5. s \o t = Append(s \o r, e) /\ s \o r \in Seq(S)
    <3>1. t = r \o <<e>> /\ <<e>> \in Seq(S) /\ s \o r \in Seq(S)
      BY <2>2, AppendIsConcat, ConcatProperties
    <3>2. (s \o r) \o <<e>> = s \o (r \o <<e>>)
      BY <3>1, ConcatAssociative
    <3>3. Append(s \o r, e) = (s \o r) \o <<e>>
      BY <3>1, AppendIsConcat
    <3> QED BY <3>1, <3>2, <3>3
  <2>6. Selected(s \o t, T) =
          IF e \in T THEN Append(Selected(s \o r, T), e) ELSE Selected(s \o r, T)
    <3> DEFINE u == s \o r
    <3>1. s \o t = Append(u, e) /\ u \in Seq(S)
      BY <2>5
    <3> HIDE DEF u
    <3>2. Selected(Append(u, e), T) =
            IF e \in T THEN Append(Selected(u, T), e) ELSE Selected(u, T)
      BY <3>1, SelectedAppend
    <3> QED BY <3>1, <3>2 DEF u
  <2>7. Selected(t, T) = IF e \in T THEN Append(Selected(r, T), e) ELSE Selected(r, T)
    BY <2>2, SelectedAppend
  <2>8. e \in T => Append(Selected(s, T) \o Selected(r, T), e)
                    = Selected(s, T) \o Append(Selected(r, T), e)
    <3> DEFINE a == Selected(s, T)
               b == Selected(r, T)
    <3>1. a \in Seq(S \cap T) /\ b \in Seq(S \cap T)
      BY SelectedType
    <3> HIDE DEF a, b
    <3>2. ASSUME e \in T
          PROVE  Append(a \o b, e) = a \o Append(b, e)
      <4>1. e \in S \cap T /\ <<e>> \in Seq(S \cap T) /\ a \o b \in Seq(S \cap T)
        BY <3>1, <3>2, ConcatProperties
      <4>2. Append(a \o b, e) = (a \o b) \o <<e>> /\ Append(b, e) = b \o <<e>>
        BY <3>1, <4>1, AppendIsConcat
      <4>3. (a \o b) \o <<e>> = a \o (b \o <<e>>)
        BY <3>1, <4>1, ConcatAssociative
      <4> QED BY <4>2, <4>3
    <3> QED BY <3>2 DEF a, b
  <2> QED BY <2>4, <2>6, <2>7, <2>8
<1> HIDE DEF N
<1>3. \A t \in Seq(S) : Len(t) \in N
  BY <1>1, <1>2, Induction, LenProperties
<1> QED BY <1>3 DEF N

\* Nothing is selected from a sequence without elements of T.
LEMMA SelectedNone ==
  ASSUME NEW S, NEW s \in Seq(S), NEW T, Range(s) \cap T = {}
  PROVE  Selected(s, T) = <<>>
<1>1. Selected(s, T) \in Seq(S \cap T)
  BY SelectedType
<1> DEFINE f == SelectedPrefixes(s, T, Len(s))
           N == {i \in Nat : i <= Len(s) => f[i] = <<>>}
<1>2. /\ Selected(s, T) = f[Len(s)] /\ f[0] = <<>>
      /\ \A i \in 1 .. Len(s) :
           f[i] = IF s[i] \in T THEN Append(f[i - 1], s[i]) ELSE f[i - 1]
  BY SelectedByPrefixes
<1>3. Len(s) \in Nat /\ \A i \in 1 .. Len(s) : s[i] \notin T
  BY LenProperties, RangeElement
<1> HIDE DEF f
<1>4. 0 \in N
  BY <1>2
<1>5. ASSUME NEW i \in Nat, i \in N
      PROVE  i + 1 \in N
  <2>1. CASE i + 1 <= Len(s)
    <3>1. i + 1 \in 1 .. Len(s) /\ (i + 1) - 1 = i /\ f[i] = <<>>
      BY <1>3, <1>5, <2>1
    <3> QED BY <1>2, <1>3, <3>1
  <2> QED BY <2>1
<1> HIDE DEF N
<1>6. Len(s) \in N
  BY <1>3, <1>4, <1>5, Induction
<1> QED BY <1>2, <1>6 DEF N

\* The head comes first in what is selected, or is left out.
LEMMA SelectedHead ==
  ASSUME NEW S, NEW s \in Seq(S), s # <<>>, NEW T
  PROVE  Selected(s, T) =
           (IF Head(s) \in T THEN <<Head(s)>> ELSE <<>>) \o Selected(Tail(s), T)
<1> DEFINE h == Head(s)
           front == <<h>>
           rest == Tail(s)
<1>1. h \in S /\ rest \in Seq(S) /\ front \in Seq(S) /\ s = front \o rest
  OBVIOUS
<1>2. front = Append(<<>>, h) /\ <<>> \in Seq(S)
  BY EmptySeq
<1>3. Selected(Append(<<>>, h), T) = IF h \in T THEN Append(Selected(<<>>, T), h)
                                    ELSE Selected(<<>>, T)
  BY <1>1, <1>2, SelectedAppend
<1>4. Append(<<>>, h) = <<h>>
  OBVIOUS
<1> HIDE DEF h, front, rest
<1>5. Selected(s, T) = Selected(front, T) \o Selected(rest, T)
  BY <1>1, SelectedConcat
<1>6. Selected(front, T) = IF h \in T THEN <<h>> ELSE <<>>
  BY <1>2, <1>3, <1>4, SelectedEmpty
<1> QED BY <1>5, <1>6 DEF h, rest

-----------------------------------------------------------------------------
(* Count.                                                                   *)

\* A count is a number; it grows with an element put behind the list.
LEMMA CountAppend ==
  ASSUME NEW S, NEW s \in Seq(S), NEW T
  PROVE  /\ Count(s, T) \in Nat
         /\ \A e \in S : Count(Append(s, e), T) = Count(s, T) + (IF e \in T THEN 1 ELSE 0)
<1> DEFINE u == Selected(s, T)
<1>1. u \in Seq(S \cap T)
  BY SelectedType
<1> HIDE DEF u
<1>2. Len(u) \in Nat
  BY <1>1, LenProperties
<1>3. ASSUME NEW e \in S
      PROVE  Count(Append(s, e), T) = Len(u) + (IF e \in T THEN 1 ELSE 0)
  <2>1. Selected(Append(s, e), T) = IF e \in T THEN Append(u, e) ELSE u
    BY SelectedAppend DEF u
  <2>2. CASE e \in T
    <3>1. Len(Append(u, e)) = Len(u) + 1
      BY <1>1, <2>2, AppendProperties
    <3> QED BY <2>1, <2>2, <3>1 DEF Count
  <2>3. CASE e \notin T
    BY <1>2, <2>1, <2>3 DEF Count
  <2> QED BY <2>2, <2>3
<1> QED BY <1>2, <1>3 DEF Count, u

\* The counts of two lists add up, and shrink with the head.
LEMMA CountConcat ==
  ASSUME NEW S, NEW s \in Seq(S), NEW t \in Seq(S), NEW T
  PROVE  Count(s \o t, T) = Count(s, T) + Count(t, T)
<1> DEFINE u == Selected(s, T)
           v == Selected(t, T)
<1>1. u \in Seq(S \cap T) /\ v \in Seq(S \cap T)
  BY SelectedType
<1>2. Selected(s \o t, T) = u \o v
  BY SelectedConcat
<1> HIDE DEF u, v
<1>3. Len(u \o v) = Len(u) + Len(v)
  BY <1>1, ConcatProperties
<1> QED BY <1>2, <1>3 DEF Count, u, v

\* The first element is counted, or not, and then the rest.
LEMMA CountHead ==
  ASSUME NEW S, NEW s \in Seq(S), s # <<>>, NEW T
  PROVE  /\ Count(s, T) = (IF Head(s) \in T THEN 1 ELSE 0) + Count(Tail(s), T)
         /\ Count(Tail(s), T) \in Nat
<1> DEFINE h == Head(s)
           v == Selected(Tail(s), T)
           u == IF h \in T THEN <<h>> ELSE <<>>
<1>1. h \in S /\ Tail(s) \in Seq(S)
  BY HeadTail
<1>2. v \in Seq(S \cap T)
  BY <1>1, SelectedType
<1>3. Selected(s, T) = u \o v
  BY SelectedHead
<1> HIDE DEF h, v
<1>4. u \in Seq(S \cap T) /\ Len(u) = IF h \in T THEN 1 ELSE 0
  <2>1. h \in S
    BY <1>1 DEF h
  <2>2. CASE h \in T
    <3>1. <<h>> \in Seq(S \cap T) /\ Len(<<h>>) = 1
      BY <2>1, <2>2
    <3> QED BY <2>2, <3>1
  <2>3. CASE h \notin T
    BY <2>3, EmptySeq
  <2> QED BY <2>2, <2>3
<1> HIDE DEF u
<1>5. Len(u \o v) = Len(u) + Len(v) /\ Len(v) \in Nat
  BY <1>2, <1>4, ConcatProperties, LenProperties
<1> QED BY <1>3, <1>4, <1>5 DEF Count, h, v

\* Nothing is counted in a list without elements of T, and only there.
LEMMA CountNone ==
  ASSUME NEW S, NEW s \in Seq(S), NEW T
  PROVE  Count(s, T) = 0 <=> Range(s) \cap T = {}
<1>1. ASSUME Range(s) \cap T = {}
      PROVE  Count(s, T) = 0
  BY <1>1, SelectedNone, EmptySeq DEF Count
<1> DEFINE N == {n \in Nat : \A t \in Seq(S) :
                   Len(t) = n /\ Count(t, T) = 0 => Range(t) \cap T = {}}
<1>2. 0 \in N
  <2> SUFFICES ASSUME NEW t \in Seq(S), Len(t) = 0
               PROVE  Range(t) \cap T = {}
    OBVIOUS
  <2>1. \A x : x \in Range(t) <=> \E i \in 1 .. Len(t) : t[i] = x
    BY RangeElement
  <2>2. \A i \in 1 .. Len(t) : FALSE
    OBVIOUS
  <2> QED BY <2>1, <2>2
<1>3. ASSUME NEW n \in Nat, n \in N
      PROVE  n + 1 \in N
  <2> SUFFICES ASSUME NEW t \in Seq(S), Len(t) = n + 1, Count(t, T) = 0
               PROVE  Range(t) \cap T = {}
    OBVIOUS
  <2>1. t # <<>>
    BY EmptySeq
  <2>2. Tail(t) \in Seq(S) /\ Len(Tail(t)) = n /\ Range(t) = {Head(t)} \cup Range(Tail(t))
    BY <2>1, HeadTail
  <2>3. Head(t) \notin T /\ Count(Tail(t), T) = 0
    BY <2>1, CountHead
  <2>4. Range(Tail(t)) \cap T = {}
    BY <1>3, <2>2, <2>3
  <2> QED BY <2>2, <2>3, <2>4
<1> HIDE DEF N
<1>4. Len(s) \in Nat /\ Len(s) \in N
  BY <1>2, <1>3, Induction, LenProperties
<1>5. ASSUME Count(s, T) = 0
      PROVE  Range(s) \cap T = {}
  BY <1>4, <1>5 DEF N
<1> QED BY <1>1, <1>5

\* Everything is counted in a list with no other elements.
LEMMA CountAll ==
  ASSUME NEW S, NEW T, S \subseteq T
  PROVE  \A s \in Seq(S) : Count(s, T) = Len(s)
<1> DEFINE N == {n \in Nat : \A t \in Seq(S) : Len(t) = n => Count(t, T) = n}
<1>1. 0 \in N
  <2> SUFFICES ASSUME NEW t \in Seq(S), Len(t) = 0
               PROVE  Count(t, T) = 0
    OBVIOUS
  <2>1. t = <<>>
    BY EmptySeq
  <2> QED BY <2>1, SelectedEmpty, EmptySeq DEF Count
<1>2. ASSUME NEW n \in Nat, n \in N
      PROVE  n + 1 \in N
  <2> SUFFICES ASSUME NEW t \in Seq(S), Len(t) = n + 1
               PROVE  Count(t, T) = n + 1
    OBVIOUS
  <2>1. t # <<>>
    BY EmptySeq
  <2>2. Tail(t) \in Seq(S) /\ Len(Tail(t)) = n /\ Head(t) \in T
    BY <2>1, HeadTail
  <2>3. Count(Tail(t), T) = n
    BY <1>2, <2>2
  <2>4. Count(t, T) = 1 + Count(Tail(t), T)
    BY <2>1, <2>2, CountHead
  <2> QED BY <2>3, <2>4
<1> HIDE DEF N
<1>3. ASSUME NEW s \in Seq(S)
      PROVE  Len(s) \in N
  BY <1>1, <1>2, Induction, LenProperties
<1> QED BY <1>3 DEF N

\* A list of elements that are all selected is selected whole.
LEMMA SelectedAll ==
  ASSUME NEW S, NEW T, S \subseteq T
  PROVE  \A s \in Seq(S) : Selected(s, T) = s
<1> DEFINE N == {n \in Nat : \A t \in Seq(S) : Len(t) = n => Selected(t, T) = t}
<1>1. 0 \in N
  <2> SUFFICES ASSUME NEW t \in Seq(S), Len(t) = 0
               PROVE  Selected(t, T) = t
    OBVIOUS
  <2>1. t = <<>>
    BY EmptySeq
  <2> QED BY <2>1, SelectedEmpty
<1>2. ASSUME NEW n \in Nat, n \in N
      PROVE  n + 1 \in N
  <2> SUFFICES ASSUME NEW t \in Seq(S), Len(t) = n + 1
               PROVE  Selected(t, T) = t
    OBVIOUS
  <2>1. t # <<>>
    BY EmptySeq
  <2>2. Tail(t) \in Seq(S) /\ Len(Tail(t)) = n /\ Head(t) \in T
    BY <2>1, HeadTail
  <2>3. Selected(Tail(t), T) = Tail(t)
    BY <1>2, <2>2
  <2>4. Selected(t, T) = <<Head(t)>> \o Tail(t)
    BY <2>1, <2>2, <2>3, SelectedHead
  <2>5. t = <<Head(t)>> \o Tail(t)
    BY <2>1
  <2> QED BY <2>4, <2>5
<1> HIDE DEF N
<1>3. ASSUME NEW s \in Seq(S)
      PROVE  Len(s) \in N
  BY <1>1, <1>2, Induction, LenProperties
<1> QED BY <1>3 DEF N
=============================================================================
