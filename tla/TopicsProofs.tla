---------------------------- MODULE TopicsProofs ----------------------------
(***************************************************************************)
(* Proofs about Topics.tla.                                                 *)
(***************************************************************************)
EXTENDS Topics, ListLemmas

(* Levels.                                                                  *)

\* The levels of the beginnings of a topic, as the definition of Levels computes them.
LevelsUpTo(topic, n) ==
  CHOOSE f : f = [i \in 0 .. n |->
    IF i = 0 THEN <<<<>>>> ELSE WithToken(f[i - 1], topic[i])]

\* There is a function with the recursive definition of Levels.
LEMMA LevelsUpToExists ==
  ASSUME NEW topic, NEW n \in Nat
  PROVE  LevelsUpTo(topic, n) = [i \in 0 .. n |->
           IF i = 0 THEN <<<<>>>> ELSE WithToken(LevelsUpTo(topic, n)[i - 1], topic[i])]
<1> DEFINE Eq(f, m) == f = [i \in 0 .. m |->
             IF i = 0 THEN <<<<>>>> ELSE WithToken(f[i - 1], topic[i])]
           N == {m \in Nat : \E f : Eq(f, m)}
<1>1. 0 \in N
  <2> DEFINE f == [i \in 0 .. 0 |-> <<<<>>>>]
  <2>1. Eq(f, 0)
    OBVIOUS
  <2> QED BY <2>1
<1>2. ASSUME NEW m \in Nat, m \in N
      PROVE  m + 1 \in N
  <2>1. PICK f : Eq(f, m)
    BY <1>2
  <2> DEFINE last == WithToken(f[m], topic[m + 1])
             g == [i \in 0 .. m + 1 |-> IF i = m + 1 THEN last ELSE f[i]]
  <2>2. \A i \in 0 .. m : f[i] = IF i = 0 THEN <<<<>>>> ELSE WithToken(f[i - 1], topic[i])
    BY <2>1
  <2> HIDE DEF last
  <2>3. ASSUME NEW i \in 0 .. m + 1
        PROVE  g[i] = IF i = 0 THEN <<<<>>>> ELSE WithToken(g[i - 1], topic[i])
    <3>1. CASE i = m + 1
      <4>1. g[i - 1] = f[m] /\ g[i] = last /\ i # 0
        BY <3>1
      <4> QED BY <3>1, <4>1 DEF last
    <3>2. CASE i \in 0 .. m /\ i # 0
      <4>1. i - 1 \in 0 .. m /\ i - 1 # m + 1 /\ i # m + 1 /\ i - 1 \in 0 .. m + 1
        BY <3>2
      <4>2. g[i - 1] = f[i - 1] /\ g[i] = f[i]
        BY <4>1
      <4> QED BY <2>2, <3>2, <4>2
    <3>3. CASE i = 0
      <4>1. g[0] = f[0]
        OBVIOUS
      <4> QED BY <2>2, <3>3, <4>1
    <3> QED BY <3>1, <3>2, <3>3
  <2>4. Eq(g, m + 1)
    BY <2>3
  <2> HIDE DEF Eq, g
  <2> QED BY <2>4
<1> HIDE DEF N
<1>3. n \in N
  BY <1>1, <1>2, Induction
<1>4. \E f : Eq(f, n)
  BY <1>3 DEF N
<1>5. LevelsUpTo(topic, n) = CHOOSE f : Eq(f, n)
  BY DEF LevelsUpTo
<1>6. Eq(LevelsUpTo(topic, n), n)
  <2> HIDE DEF Eq
  <2> QED BY <1>4, <1>5
<1> QED BY <1>6

\* The recursive definition, unfolded.
LEMMA LevelsByToken ==
  ASSUME NEW S, NEW topic \in Seq(S)
  PROVE  LET f == LevelsUpTo(topic, Len(topic))
         IN /\ Levels(topic) = f[Len(topic)] /\ f[0] = <<<<>>>>
            /\ \A i \in 1 .. Len(topic) : f[i] = WithToken(f[i - 1], topic[i])
<1> DEFINE f == LevelsUpTo(topic, Len(topic))
<1>1. Levels(topic) = f[Len(topic)]
  BY DEF Levels, LevelsUpTo
<1>2. Len(topic) \in Nat
  BY LenProperties
<1>3. f = [i \in 0 .. Len(topic) |->
             IF i = 0 THEN <<<<>>>> ELSE WithToken(f[i - 1], topic[i])]
  BY <1>2, LevelsUpToExists
<1> HIDE DEF f
<1>4. PICK g : /\ f = g
               /\ g = [i \in 0 .. Len(topic) |->
                        IF i = 0 THEN <<<<>>>> ELSE WithToken(g[i - 1], topic[i])]
  BY <1>3
<1>5. \A i \in 0 .. Len(topic) : g[i] = IF i = 0 THEN <<<<>>>> ELSE WithToken(g[i - 1], topic[i])
  BY <1>4
<1>6. g[0] = <<<<>>>> /\ \A i \in 1 .. Len(topic) : g[i] = WithToken(g[i - 1], topic[i])
  BY <1>2, <1>5
<1> QED BY <1>1, <1>4, <1>6 DEF f

\* A topic without tokens has one level, which is empty.
LEMMA LevelsEmpty == Levels(<<>>) = <<<<>>>>
<1> DEFINE f == LevelsUpTo(<<>>, Len(<<>>))
<1>1. <<>> \in Seq({}) /\ Len(<<>>) = 0
  BY EmptySeq
<1>2. Levels(<<>>) = f[Len(<<>>)] /\ f[0] = <<<<>>>>
  BY <1>1, LevelsByToken
<1> HIDE DEF f
<1> QED BY <1>1, <1>2

\* One token more.
LEMMA LevelsAppend ==
  ASSUME NEW S, NEW s \in Seq(S), NEW c \in S
  PROVE  Levels(Append(s, c)) = WithToken(Levels(s), c)
<1> DEFINE t == Append(s, c)
           f == LevelsUpTo(s, Len(s))
           g == LevelsUpTo(t, Len(t))
           N == {i \in Nat : i <= Len(s) => f[i] = g[i]}
<1>1. /\ t \in Seq(S) /\ Len(t) = Len(s) + 1 /\ Len(s) \in Nat
      /\ \A i \in 1 .. Len(s) : t[i] = s[i]
      /\ t[Len(s) + 1] = c
  BY AppendProperties, LenProperties
<1> HIDE DEF t
<1>2. /\ Levels(s) = f[Len(s)] /\ f[0] = <<<<>>>>
      /\ \A i \in 1 .. Len(s) : f[i] = WithToken(f[i - 1], s[i])
  BY LevelsByToken
<1>3. /\ Levels(t) = g[Len(t)] /\ g[0] = <<<<>>>>
      /\ \A i \in 1 .. Len(t) : g[i] = WithToken(g[i - 1], t[i])
  BY <1>1, LevelsByToken
<1> HIDE DEF f, g
<1>4. 0 \in N
  BY <1>2, <1>3
<1>5. ASSUME NEW i \in Nat, i \in N
      PROVE  i + 1 \in N
  <2>1. CASE i + 1 <= Len(s)
    <3>1. /\ i + 1 \in 1 .. Len(s) /\ i + 1 \in 1 .. Len(t) /\ (i + 1) - 1 = i
          /\ f[i] = g[i] /\ t[i + 1] = s[i + 1]
      BY <1>1, <1>5, <2>1
    <3> QED BY <1>2, <1>3, <3>1
  <2> QED BY <2>1
<1> HIDE DEF N
<1>6. Len(s) \in N
  BY <1>1, <1>4, <1>5, Induction
<1>7. f[Len(s)] = g[Len(s)]
  BY <1>1, <1>6 DEF N
<1>8. Len(t) \in 1 .. Len(t) /\ Len(t) - 1 = Len(s) /\ t[Len(t)] = c
  BY <1>1
<1>9. g[Len(t)] = WithToken(g[Len(s)], c)
  BY <1>3, <1>8
<1> QED BY <1>2, <1>3, <1>7, <1>9 DEF t

\* A set of lists with the empty one, and with every list that is one element longer than
\* one of it, has all lists.
LEMMA ListInduction ==
  ASSUME NEW S, NEW T, <<>> \in T,
         \A s \in Seq(S) : \A e \in S : s \in T => Append(s, e) \in T
  PROVE  Seq(S) \subseteq T
<1> DEFINE N == {n \in Nat : \A s \in Seq(S) : Len(s) = n => s \in T}
<1>1. 0 \in N
  <2>1. \A s \in Seq(S) : Len(s) = 0 => s = <<>>
    BY EmptySeq
  <2> QED BY <2>1
<1>2. ASSUME NEW n \in Nat, n \in N
      PROVE  n + 1 \in N
  <2> SUFFICES ASSUME NEW s \in Seq(S), Len(s) = n + 1
               PROVE  s \in T
    OBVIOUS
  <2>1. s # <<>>
    BY EmptySeq
  <2>2. PICK r \in Seq(S), e \in S : s = Append(r, e)
    BY <2>1, SequenceEmptyOrAppend
  <2>3. Len(r) = n
    BY <2>2, AppendProperties, LenProperties
  <2> QED BY <1>2, <2>2, <2>3
<1> HIDE DEF N
<1>3. \A s \in Seq(S) : Len(s) \in N
  BY <1>1, <1>2, Induction, LenProperties
<1> QED BY <1>3 DEF N

\* One token more, at the end of the last level.
LEMMA WithTokenType ==
  ASSUME NEW S, NEW levels \in Seq(Seq(S)), levels # <<>>, NEW c \in S
  PROVE  /\ WithToken(levels, c) \in Seq(Seq(S))
         /\ WithToken(levels, c) # <<>>
<1>1. Len(levels) \in 1 .. Len(levels)
  BY EmptySeq
<1>2. CASE c = "/"
  <2>1. <<>> \in Seq(S)
    BY EmptySeq
  <2> QED BY <1>2, <2>1, AppendProperties DEF WithToken
<1>3. CASE c # "/"
  <2> DEFINE k == Len(levels)
             e == Append(levels[k], c)
  <2>1. k \in 1 .. Len(levels)
    BY <1>1
  <2>2. levels[k] \in Seq(S)
    BY <2>1, ElementOfSeq
  <2>3. e \in Seq(S)
    BY <2>2, AppendProperties
  <2>4. WithToken(levels, c) = [levels EXCEPT ![k] = e]
    BY <1>3 DEF WithToken
  <2> HIDE DEF k, e
  <2>5. /\ [levels EXCEPT ![k] = e] \in Seq(Seq(S))
        /\ Len([levels EXCEPT ![k] = e]) = Len(levels)
    BY <2>1, <2>3, ExceptSeq
  <2>6. Len(levels) # 0
    BY EmptySeq
  <2> QED BY <2>4, <2>5, <2>6, EmptySeq
<1> QED BY <1>2, <1>3

LEMMA WithTokenBehind ==
  ASSUME NEW S, NEW a \in Seq(Seq(S)), NEW b \in Seq(Seq(S)), Len(b) # 0, NEW c \in S
  PROVE  WithToken(a \o b, c) = a \o WithToken(b, c)
<1>0. /\ Len(a) \in Nat /\ Len(b) \in Nat \ {0} /\ a \o b \in Seq(Seq(S))
      /\ Len(a \o b) = Len(a) + Len(b)
      /\ \A i \in 1 .. Len(a) + Len(b) : (a \o b)[i] = IF i <= Len(a) THEN a[i] ELSE b[i - Len(a)]
  BY ConcatProperties, LenProperties, EmptySeq
<1>1. CASE c = "/"
  <2> DEFINE e == <<>>
  <2>1. e \in Seq(S)
    BY EmptySeq
  <2>2. WithToken(a \o b, c) = Append(a \o b, e) /\ WithToken(b, c) = Append(b, e)
    BY <1>1 DEF WithToken
  <2> HIDE DEF e
  <2>3. Append(a \o b, e) = (a \o b) \o <<e>> /\ Append(b, e) = b \o <<e>> /\ <<e>> \in Seq(Seq(S))
    BY <1>0, <2>1, AppendIsConcat, SMTT(30)
  <2>4. (a \o b) \o <<e>> = a \o (b \o <<e>>)
    <3> DEFINE w == <<e>>
    <3>1. w \in Seq(Seq(S))
      BY <2>3
    <3> HIDE DEF w
    <3>2. (a \o b) \o w = a \o (b \o w)
      BY <3>1, ConcatAssociative, SMTT(30)
    <3> QED BY <3>2 DEF w
  <2> QED BY <2>2, <2>3, <2>4
<1>2. CASE c # "/"
  <2> DEFINE k == Len(a) + Len(b)
             e == Append(b[Len(b)], c)
             x == [b EXCEPT ![Len(b)] = e]
             y == [(a \o b) EXCEPT ![k] = e]
  <2>1. Len(b) \in 1 .. Len(b) /\ k \in 1 .. k /\ k - Len(a) = Len(b) /\ ~(k <= Len(a))
    BY <1>0
  <2>2. (a \o b)[k] = b[Len(b)]
    BY <1>0, <2>1
  <2>3. WithToken(b, c) = x
    BY <1>2 DEF WithToken
  <2>4. WithToken(a \o b, c) = y
    BY <1>0, <1>2, <2>2 DEF WithToken
  <2>5. b[Len(b)] \in Seq(S)
    BY <2>1, ElementOfSeq
  <2>6. e \in Seq(S)
    BY <2>5, AppendProperties
  <2> HIDE DEF e
  <2>7. x \in Seq(Seq(S)) /\ Len(x) = Len(b) /\ \A j \in 1 .. Len(b) : x[j] = IF j = Len(b) THEN e ELSE b[j]
    BY <2>1, <2>6, ExceptSeq
  <2>8. /\ y \in Seq(Seq(S)) /\ Len(y) = k
        /\ \A j \in 1 .. k : y[j] = IF j = k THEN e ELSE (a \o b)[j]
    <3> DEFINE u == a \o b
    <3>1. u \in Seq(Seq(S)) /\ Len(u) = k /\ k \in 1 .. Len(u)
      BY <1>0, <2>1
    <3> HIDE DEF u, k
    <3>2. /\ [u EXCEPT ![k] = e] \in Seq(Seq(S)) /\ Len([u EXCEPT ![k] = e]) = Len(u)
          /\ \A j \in 1 .. Len(u) : [u EXCEPT ![k] = e][j] = IF j = k THEN e ELSE u[j]
      BY <2>6, <3>1, ExceptSeq
    <3> QED BY <3>1, <3>2 DEF u
  <2> HIDE DEF x, y
  <2>9. /\ a \o x \in Seq(Seq(S)) /\ Len(a \o x) = k
        /\ \A i \in 1 .. k : (a \o x)[i] = IF i <= Len(a) THEN a[i] ELSE x[i - Len(a)]
    <3>1. /\ a \o x \in Seq(Seq(S)) /\ Len(a \o x) = Len(a) + Len(x)
          /\ \A i \in 1 .. Len(a) + Len(x) : (a \o x)[i] = IF i <= Len(a) THEN a[i] ELSE x[i - Len(a)]
      BY <2>7, ConcatProperties
    <3> QED BY <2>7, <3>1
  <2>10. ASSUME NEW i \in 1 .. k
         PROVE  (a \o x)[i] = y[i]
    <3>1. CASE i <= Len(a)
      <4>1. i # k
        BY <1>0, <3>1
      <4>2. y[i] = (a \o b)[i] /\ (a \o b)[i] = a[i]
        BY <1>0, <2>8, <3>1, <4>1
      <4> QED BY <2>9, <3>1, <4>2
    <3>2. CASE ~(i <= Len(a))
      <4>1. i - Len(a) \in 1 .. Len(b) /\ (i - Len(a) = Len(b) <=> i = k)
        BY <1>0, <3>2
      <4>2. (a \o x)[i] = x[i - Len(a)] /\ (a \o b)[i] = b[i - Len(a)]
        BY <1>0, <2>9, <3>2
      <4>3. y[i] = IF i = k THEN e ELSE b[i - Len(a)]
        BY <2>8, <4>2
      <4>4. x[i - Len(a)] = IF i = k THEN e ELSE b[i - Len(a)]
        BY <2>7, <4>1
      <4> QED BY <4>2, <4>3, <4>4
    <3> QED BY <3>1, <3>2
  <2>11. a \o x = y
    BY <2>8, <2>9, <2>10, SeqEqual
  <2> QED BY <2>3, <2>4, <2>11
<1> QED BY <1>1, <1>2

\* The levels of a topic are texts, and there is one at least.
LEMMA LevelsType ==
  ASSUME NEW S, NEW s \in Seq(S)
  PROVE  /\ Levels(s) \in Seq(Seq(S)) /\ Levels(s) # <<>>
         /\ Len(Levels(s)) \in Nat \ {0}
<1> DEFINE T == {t \in Seq(S) : Levels(t) \in Seq(Seq(S)) /\ Levels(t) # <<>>}
<1>1. <<>> \in T
  <2>1. <<>> \in Seq(S) /\ <<<<>>>> \in Seq(Seq(S)) /\ <<<<>>>> # <<>>
    BY EmptySeq
  <2> QED BY <2>1, LevelsEmpty
<1>2. ASSUME NEW r \in Seq(S), NEW e \in S, r \in T
      PROVE  Append(r, e) \in T
  <2>1. Append(r, e) \in Seq(S)
    BY AppendProperties
  <2>2. Levels(Append(r, e)) = WithToken(Levels(r), e)
    BY LevelsAppend
  <2>3. Levels(r) \in Seq(Seq(S)) /\ Levels(r) # <<>>
    BY <1>2
  <2> DEFINE k == Levels(r)
  <2> HIDE DEF k
  <2>4. k \in Seq(Seq(S)) /\ k # <<>>
    BY <2>3 DEF k
  <2>5. WithToken(k, e) \in Seq(Seq(S)) /\ WithToken(k, e) # <<>>
    BY <2>4, WithTokenType
  <2> QED BY <2>1, <2>2, <2>5 DEF k
<1> HIDE DEF T
<1>3. Seq(S) \subseteq T
  BY <1>1, <1>2, ListInduction
<1>4. Levels(s) \in Seq(Seq(S)) /\ Levels(s) # <<>>
  BY <1>3 DEF T
<1>5. Len(Levels(s)) \in Nat \ {0}
  BY <1>4, EmptySeq
<1> QED BY <1>4, <1>5

\* A name put under a topic; an empty name, and one with a token more.
LEMMA UnderType ==
  ASSUME NEW S, "/" \in S, NEW s \in Seq(S), NEW t \in Seq(S)
  PROVE  /\ Under(s, t) \in Seq(S)
         /\ Len(Under(s, t)) = Len(s) + 1 + Len(t)
         /\ Under(s, t) = s \o (<<"/">> \o t)
         /\ Under(s, <<>>) = Append(s, "/")
         /\ \A e \in S : Under(s, Append(t, e)) = Append(Under(s, t), e)
<1> DEFINE m == <<"/">>
<1>1. m \in Seq(S) /\ Len(m) = 1 /\ Append(s, "/") = s \o m
  BY AppendIsConcat
<1> HIDE DEF m
<1>2. Under(s, t) = (s \o m) \o t /\ Under(s, <<>>) = (s \o m) \o <<>>
  BY DEF Under, m
<1>3. s \o m \in Seq(S) /\ Len(s \o m) = Len(s) + 1
  BY <1>1, ConcatProperties
<1>4. Under(s, t) \in Seq(S) /\ Len(Under(s, t)) = Len(s) + 1 + Len(t)
  <2> DEFINE u == s \o m
  <2>1. u \in Seq(S) /\ Len(u) = Len(s) + 1 /\ Under(s, t) = u \o t
    BY <1>2, <1>3
  <2> HIDE DEF u
  <2>2. u \o t \in Seq(S) /\ Len(u \o t) = Len(u) + Len(t)
    BY <2>1, ConcatProperties
  <2> QED BY <2>1, <2>2
<1>5. Under(s, t) = s \o (m \o t)
  BY <1>1, <1>2, ConcatAssociative, SMTT(30)
<1>6. Under(s, <<>>) = s \o m
  BY <1>2, <1>3, ConcatEmptySeq
<1>7. ASSUME NEW e \in S
      PROVE  Under(s, Append(t, e)) = Append(Under(s, t), e)
  <2> DEFINE u == s \o m
             w == <<e>>
  <2>1. u \in Seq(S) /\ Under(s, Append(t, e)) = u \o Append(t, e) /\ Under(s, t) = u \o t
    BY <1>3 DEF Under, m
  <2>2. w \in Seq(S) /\ Append(t, e) = t \o w
    BY AppendIsConcat
  <2> HIDE DEF u
  <2>3. u \o t \in Seq(S)
    BY <2>1, ConcatProperties
  <2>4. Append(u \o t, e) = (u \o t) \o w
    BY <2>3, AppendIsConcat
  <2> HIDE DEF w
  <2>5. (u \o t) \o w = u \o (t \o w)
    BY <2>1, <2>2, ConcatAssociative, SMTT(30)
  <2> QED BY <2>1, <2>2, <2>4, <2>5
<1> QED BY <1>1, <1>4, <1>5, <1>6, <1>7 DEF m

\* The levels of a topic come before those of what is under it.
LEMMA LevelsUnder ==
  ASSUME NEW S, "/" \in S, NEW s \in Seq(S), NEW t \in Seq(S)
  PROVE  Levels(Under(s, t)) = Levels(s) \o Levels(t)
<1> DEFINE T == {u \in Seq(S) : Levels(Under(s, u)) = Levels(s) \o Levels(u)}
           a == Levels(s)
<1>0. a \in Seq(Seq(S))
  BY LevelsType
<1> HIDE DEF a
<1>1. <<>> \in T
  <2>1. <<>> \in Seq(S)
    BY EmptySeq
  <2>2. Under(s, <<>>) = Append(s, "/")
    BY UnderType
  <2>3. Levels(Append(s, "/")) = Append(a, <<>>)
    BY LevelsAppend DEF WithToken, a
  <2>4. Append(a, <<>>) = a \o <<<<>>>>
    BY <1>0, <2>1, AppendIsConcat
  <2> QED BY <2>1, <2>2, <2>3, <2>4, LevelsEmpty DEF a
<1>2. ASSUME NEW r \in Seq(S), NEW e \in S, r \in T
      PROVE  Append(r, e) \in T
  <2> DEFINE b == Levels(r)
  <2>1. b \in Seq(Seq(S)) /\ Len(b) # 0
    BY LevelsType
  <2>2. Append(r, e) \in Seq(S) /\ Under(s, Append(r, e)) = Append(Under(s, r), e) /\ Under(s, r) \in Seq(S)
    BY AppendProperties, UnderType
  <2>3. Levels(Under(s, r)) = a \o b
    BY <1>2 DEF a
  <2>4. Levels(Append(Under(s, r), e)) = WithToken(Levels(Under(s, r)), e)
    BY <2>2, LevelsAppend
  <2>5. Levels(Append(r, e)) = WithToken(b, e)
    BY LevelsAppend
  <2> HIDE DEF b
  <2>6. WithToken(a \o b, e) = a \o WithToken(b, e)
    BY <1>0, <2>1, WithTokenBehind
  <2>7. Levels(Under(s, Append(r, e))) = a \o Levels(Append(r, e))
    BY <2>2, <2>3, <2>4, <2>5, <2>6
  <2> QED BY <2>2, <2>7 DEF a
<1> HIDE DEF T
<1>3. Seq(S) \subseteq T
  BY <1>1, <1>2, ListInduction
<1> QED BY <1>3 DEF T

\* A text without a slash is one level.
LEMMA LevelsWord ==
  ASSUME NEW S, NEW s \in Seq(S), "/" \notin Range(s)
  PROVE  Levels(s) = <<s>>
<1> DEFINE T == {t \in Seq(S) : "/" \notin Range(t) => Levels(t) = <<t>>}
<1>1. <<>> \in T
  BY EmptySeq, LevelsEmpty
<1>2. ASSUME NEW r \in Seq(S), NEW e \in S, r \in T
      PROVE  Append(r, e) \in T
  <2>1. Append(r, e) \in Seq(S) /\ Range(Append(r, e)) = Range(r) \cup {e}
    BY RangeAppend
  <2>2. ASSUME "/" \notin Range(Append(r, e))
        PROVE  Levels(Append(r, e)) = <<Append(r, e)>>
    <3>1. "/" \notin Range(r) /\ e # "/"
      BY <2>1, <2>2
    <3>2. Levels(r) = <<r>>
      BY <1>2, <3>1
    <3>3. Levels(Append(r, e)) = WithToken(<<r>>, e)
      BY <3>2, LevelsAppend
    <3>4. WithToken(<<r>>, e) = [<<r>> EXCEPT ![Len(<<r>>)] = Append(@, e)]
      BY <3>1 DEF WithToken
    <3>5. [<<r>> EXCEPT ![Len(<<r>>)] = Append(@, e)] = <<Append(r, e)>>
      OBVIOUS
    <3> QED BY <3>3, <3>4, <3>5
  <2> QED BY <2>1, <2>2
<1> HIDE DEF T
<1>3. Seq(S) \subseteq T
  BY <1>1, <1>2, ListInduction
<1> QED BY <1>3 DEF T

\* A level, and the others behind it.
LEMMA FirstLevel ==
  ASSUME NEW S, "/" \in S, NEW s \in Seq(S), "/" \notin Range(s), NEW t \in Seq(S)
  PROVE  /\ Len(Levels(t)) \in Nat \ {0}
         /\ Len(Levels(Under(s, t))) = Len(Levels(t)) + 1
         /\ Levels(Under(s, t))[1] = s
         /\ \A i \in 1 .. Len(Levels(t)) : Levels(Under(s, t))[i + 1] = Levels(t)[i]
<1> DEFINE a == <<s>>
           b == Levels(t)
<1>1. Levels(Under(s, t)) = a \o b
  BY LevelsUnder, LevelsWord
<1>2. a \in Seq(Seq(S)) /\ Len(a) = 1 /\ a[1] = s
  OBVIOUS
<1>3. b \in Seq(Seq(S)) /\ Len(b) \in Nat \ {0}
  BY LevelsType
<1> HIDE DEF a, b
<1>4. /\ Len(a \o b) = 1 + Len(b)
      /\ \A i \in 1 .. 1 + Len(b) : (a \o b)[i] = IF i <= 1 THEN a[i] ELSE b[i - 1]
  <2>1. /\ Len(a \o b) = Len(a) + Len(b)
        /\ \A i \in 1 .. Len(a) + Len(b) : (a \o b)[i] = IF i <= Len(a) THEN a[i] ELSE b[i - Len(a)]
    BY <1>2, <1>3, ConcatProperties, Zenon
  <2> QED BY <1>2, <2>1
<1>5. (a \o b)[1] = s
  BY <1>2, <1>3, <1>4
<1>6. ASSUME NEW i \in 1 .. Len(b)
      PROVE  (a \o b)[i + 1] = b[i]
  <2>1. i + 1 \in 1 .. 1 + Len(b) /\ ~(i + 1 <= 1) /\ (i + 1) - 1 = i
    BY <1>3
  <2> QED BY <1>4, <2>1
<1> QED BY <1>1, <1>3, <1>4, <1>5, <1>6 DEF b

-----------------------------------------------------------------------------
(* FlattenSeq.                                                              *)

\* The concatenations of the first lists of a list, as FlattenSeq computes them.
Flattened(seqs, n) ==
  CHOOSE f : f = [i \in 1 .. n |-> IF i = 1 THEN seqs[i] ELSE f[i - 1] \o seqs[i]]

\* There is a function with the recursive definition of FlattenSeq.
LEMMA FlattenedExists ==
  ASSUME NEW seqs, NEW n \in Nat
  PROVE  Flattened(seqs, n) =
           [i \in 1 .. n |-> IF i = 1 THEN seqs[i] ELSE Flattened(seqs, n)[i - 1] \o seqs[i]]
<1> DEFINE Eq(f, m) == f = [i \in 1 .. m |-> IF i = 1 THEN seqs[i] ELSE f[i - 1] \o seqs[i]]
           N == {m \in Nat : \E f : Eq(f, m)}
<1>1. 0 \in N
  <2> DEFINE f == [i \in 1 .. 0 |-> <<>>]
  <2>1. Eq(f, 0)
    OBVIOUS
  <2> QED BY <2>1
<1>2. ASSUME NEW m \in Nat, m \in N
      PROVE  m + 1 \in N
  <2>1. PICK f : Eq(f, m)
    BY <1>2
  <2> DEFINE last == IF m = 0 THEN seqs[1] ELSE f[m] \o seqs[m + 1]
             g == [i \in 1 .. m + 1 |-> IF i = m + 1 THEN last ELSE f[i]]
  <2>2. \A i \in 1 .. m : f[i] = IF i = 1 THEN seqs[i] ELSE f[i - 1] \o seqs[i]
    BY <2>1
  <2> HIDE DEF last
  <2>3. ASSUME NEW i \in 1 .. m + 1
        PROVE  g[i] = IF i = 1 THEN seqs[i] ELSE g[i - 1] \o seqs[i]
    <3>1. CASE i = m + 1 /\ m # 0
      <4>1. i - 1 \in 1 .. m + 1 /\ i - 1 # m + 1 /\ i - 1 = m /\ i # 1
        BY <3>1
      <4>2. g[i - 1] = f[m] /\ g[i] = last
        BY <3>1, <4>1
      <4> QED BY <3>1, <4>1, <4>2 DEF last
    <3>2. CASE i = m + 1 /\ m = 0
      BY <3>2 DEF last
    <3>3. CASE i \in 1 .. m
      <4>1. i # 1 => i - 1 \in 1 .. m /\ i - 1 # m + 1 /\ i - 1 \in 1 .. m + 1
        BY <3>3
      <4>2. i # m + 1
        BY <3>3
      <4>3. (i # 1 => g[i - 1] = f[i - 1]) /\ g[i] = f[i]
        BY <4>1, <4>2
      <4> QED BY <2>2, <3>3, <4>3
    <3> QED BY <3>1, <3>2, <3>3
  <2>4. Eq(g, m + 1)
    BY <2>3
  <2> HIDE DEF Eq, g
  <2> QED BY <2>4
<1> HIDE DEF N
<1>3. n \in N
  BY <1>1, <1>2, Induction
<1>4. \E f : Eq(f, n)
  BY <1>3 DEF N
<1>5. Flattened(seqs, n) = CHOOSE f : Eq(f, n)
  BY DEF Flattened
<1>6. Eq(Flattened(seqs, n), n)
  <2> HIDE DEF Eq
  <2> QED BY <1>4, <1>5
<1> QED BY <1>6

\* The list of lists, flattened, has the elements of all of them, and no others.
LEMMA FlattenRange ==
  ASSUME NEW S, NEW seqs \in Seq(Seq(S))
  PROVE  /\ FlattenSeq(seqs) \in Seq(S)
         /\ \A x : x \in Range(FlattenSeq(seqs)) <=> \E i \in 1 .. Len(seqs) : x \in Range(seqs[i])
<1> DEFINE f == Flattened(seqs, Len(seqs))
<1>0. Len(seqs) \in Nat
  BY LenProperties
<1>1. CASE Len(seqs) = 0
  <2>1. seqs = <<>>
    BY <1>1, EmptySeq
  <2>2. FlattenSeq(seqs) = <<>>
    BY <1>1, <2>1 DEF FlattenSeq
  <2>3. <<>> \in Seq(S) /\ Len(<<>>) = 0
    BY EmptySeq
  <2>4. \A x : x \notin Range(<<>>)
    BY DEF Range
  <2> QED BY <1>1, <2>2, <2>3, <2>4
<1>2. CASE Len(seqs) # 0
  <2>1. FlattenSeq(seqs) = f[Len(seqs)]
    BY <1>2 DEF FlattenSeq, Flattened
  <2>2. f = [i \in 1 .. Len(seqs) |-> IF i = 1 THEN seqs[i] ELSE f[i - 1] \o seqs[i]]
    BY <1>0, FlattenedExists
  <2> HIDE DEF f
  <2>3. PICK g : f = g /\ g = [i \in 1 .. Len(seqs) |-> IF i = 1 THEN seqs[i] ELSE g[i - 1] \o seqs[i]]
    BY <2>2
  <2>4. \A i \in 1 .. Len(seqs) : g[i] = IF i = 1 THEN seqs[i] ELSE g[i - 1] \o seqs[i]
    BY <2>3
  <2> DEFINE Has(k) == /\ g[k] \in Seq(S)
                       /\ \A x : x \in Range(g[k]) <=> \E i \in 1 .. k : x \in Range(seqs[i])
             N == {k \in Nat : k + 1 <= Len(seqs) => Has(k + 1)}
  <2>5. \A i \in 1 .. Len(seqs) : seqs[i] \in Seq(S)
    BY ElementOfSeq
  <2>6. 0 \in N
    <3>1. 1 \in 1 .. Len(seqs) /\ g[1] = seqs[1] /\ seqs[1] \in Seq(S)
      BY <1>0, <1>2, <2>4, <2>5
    <3>2. \A i \in 1 .. 1 : i = 1
      OBVIOUS
    <3>3. Has(1)
      BY <3>1, <3>2
    <3> HIDE DEF Has
    <3> QED BY <3>3
  <2>7. ASSUME NEW k \in Nat, k \in N
        PROVE  k + 1 \in N
    <3> HIDE DEF Has
    <3> SUFFICES ASSUME (k + 1) + 1 <= Len(seqs)
                 PROVE  Has((k + 1) + 1)
      OBVIOUS
    <3> USE DEF Has
    <3> DEFINE m == k + 1
    <3>1. m \in 1 .. Len(seqs) /\ m + 1 \in 1 .. Len(seqs) /\ (m + 1) - 1 = m /\ m + 1 # 1 /\ m \in Nat
      BY <1>0
    <3>2. Has(m)
      BY <1>0, <2>7
    <3> HIDE DEF m
    <3>3. g[m + 1] = g[m] \o seqs[m + 1]
      BY <2>4, <3>1
    <3>4. g[m] \in Seq(S) /\ seqs[m + 1] \in Seq(S)
      BY <2>5, <3>1, <3>2
    <3>5. g[m + 1] \in Seq(S) /\ Range(g[m + 1]) = Range(g[m]) \cup Range(seqs[m + 1])
      BY <3>3, <3>4, ConcatProperties, RangeConcatenation
    <3>6. \A i \in 1 .. m + 1 : i \in 1 .. m \/ i = m + 1
      BY <3>1
    <3>7. \A i \in 1 .. m : i \in 1 .. m + 1
      BY <3>1
    <3>8. m + 1 \in 1 .. m + 1
      BY <3>1
    <3>9. ASSUME NEW x
          PROVE  x \in Range(g[m + 1]) <=> \E i \in 1 .. m + 1 : x \in Range(seqs[i])
      BY <3>2, <3>5, <3>6, <3>7, <3>8, Zenon
    <3>10. Has(m + 1)
      BY <3>5, <3>9
    <3> HIDE DEF Has
    <3> QED BY <3>10 DEF m
  <2> HIDE DEF N
  <2>8. Len(seqs) - 1 \in N
    <3>1. Nat \subseteq N
      BY <2>6, <2>7, Induction
    <3>2. Len(seqs) - 1 \in Nat
      BY <1>0, <1>2
    <3> QED BY <3>1, <3>2
  <2>9. Has(Len(seqs))
    <3>1. (Len(seqs) - 1) + 1 = Len(seqs)
      BY <1>0
    <3> HIDE DEF Has
    <3> QED BY <1>0, <2>8, <3>1 DEF N
  <2> QED BY <2>1, <2>3, <2>9
<1> QED BY <1>0, <1>1, <1>2

-----------------------------------------------------------------------------
(* PublishValue.                                                            *)

\* A function on 1 .. n is a list.
LEMMA FunctionList ==
  ASSUME NEW T, NEW n \in Nat, NEW f \in [1 .. n -> T]
  PROVE  f \in Seq(T) /\ Len(f) = n
<1>1. f \in Seq(T)
  BY SeqDef
<1>2. DOMAIN f = 1 .. n
  OBVIOUS
<1>3. DOMAIN f = 1 .. Len(f) /\ Len(f) \in Nat
  BY <1>1, LenProperties
<1> QED BY <1>1, <1>2, <1>3

\* The topics at and under a topic, and the messages with JSON values there.
AtOrUnder(topic) == {topic} \cup {Under(topic, t) : t \in Seq(STRING)}
Published(topic) == {Message(t, Json(v)) : t \in AtOrUnder(topic), v \in Values}

\* What is under something under a topic is under the topic.
LEMMA UnderAssociative ==
  ASSUME NEW S, "/" \in S, NEW s \in Seq(S), NEW t \in Seq(S), NEW u \in Seq(S)
  PROVE  Under(Under(s, t), u) = Under(s, Under(t, u))
<1> DEFINE m == <<"/">>
           a == s \o m
           b == t \o m
<1>1. m \in Seq(S)
  OBVIOUS
<1>2. a \in Seq(S) /\ b \in Seq(S)
  BY <1>1, ConcatProperties
<1>3. /\ Under(Under(s, t), u) = ((a \o t) \o m) \o u
      /\ Under(s, Under(t, u)) = a \o (b \o u)
  BY DEF Under
<1>4. b = t \o m
  OBVIOUS
<1> HIDE DEF m, a, b
<1>5. \A x, y, z \in Seq(S) : (x \o y) \o z = x \o (y \o z)
  BY ConcatAssociative, SMTT(30)
<1>6. (a \o t) \o m = a \o (t \o m)
  BY <1>1, <1>2, <1>5, SMTT(30)
<1>7. (a \o b) \o u = a \o (b \o u)
  BY <1>2, <1>5, ZenonT(30)
<1> QED BY <1>3, <1>4, <1>6, <1>7

LEMMA UnderUnder ==
  ASSUME NEW topic \in Seq(STRING), NEW t \in AtOrUnder(topic), NEW name \in Seq(STRING)
  PROVE  t \in Seq(STRING) /\ Under(t, name) \in AtOrUnder(topic)
<1>0. "/" \in STRING
  BY WordAssumption
<1>1. CASE t = topic
  BY <1>1 DEF AtOrUnder
<1>2. CASE t # topic
  <2>1. PICK s \in Seq(STRING) : t = Under(topic, s)
    BY <1>2 DEF AtOrUnder
  <2>2. Under(s, name) \in Seq(STRING) /\ Under(topic, s) \in Seq(STRING)
    BY <1>0, UnderType
  <2>3. Under(Under(topic, s), name) = Under(topic, Under(s, name))
    BY <1>0, UnderAssociative
  <2> QED BY <2>1, <2>2, <2>3 DEF AtOrUnder
<1> QED BY <1>1, <1>2

\* The parts of a value are published under its topic.
LEMMA PartsType ==
  ASSUME NEW topic \in Seq(STRING), NEW m \in Published(topic)
  PROVE  Parts(m) \in Seq(Published(topic))
<1>1. PICK t \in AtOrUnder(topic), v \in Values : m = Message(t, Json(v))
  BY DEF Published
<1>2. m.topic = t /\ m.payload.json = v
  BY <1>1 DEF Message, Json
<1>3. CASE "obj" \in DOMAIN v
  <2> DEFINE o == v.obj
             f == [i \in DOMAIN o |-> Message(Under(t, o[i][1]), Json(o[i][2]))]
  <2>1. o \in Seq(Seq(STRING) \X Values)
    BY <1>3, ValueAssumption
  <2>2. Parts(m) = f
    BY <1>2, <1>3 DEF Parts
  <2> HIDE DEF o
  <2>3. Len(o) \in Nat /\ DOMAIN o = 1 .. Len(o)
    BY <2>1, LenProperties
  <2>4. ASSUME NEW i \in 1 .. Len(o)
        PROVE  Message(Under(t, o[i][1]), Json(o[i][2])) \in Published(topic)
    <3>1. o[i] \in Seq(STRING) \X Values
      BY <2>1, ElementOfSeq
    <3>2. o[i][1] \in Seq(STRING) /\ o[i][2] \in Values
      BY <3>1
    <3>3. Under(t, o[i][1]) \in AtOrUnder(topic)
      BY <3>2, UnderUnder
    <3> QED BY <3>2, <3>3 DEF Published
  <2>5. f \in [1 .. Len(o) -> Published(topic)]
    BY <2>3, <2>4
  <2> HIDE DEF f
  <2> QED BY <2>2, <2>3, <2>5, FunctionList
<1>4. CASE "obj" \notin DOMAIN v /\ "arr" \in DOMAIN v
  <2> DEFINE o == v.arr
             f == [i \in DOMAIN o |-> Message(Under(t, <<Decimal[i - 1]>>), Json(o[i]))]
  <2>1. o \in Seq(Values) /\ \A i \in DOMAIN o : Decimal[i - 1] \in STRING
    BY <1>4, ValueAssumption
  <2>2. Parts(m) = f
    BY <1>2, <1>4 DEF Parts
  <2> HIDE DEF o
  <2>3. Len(o) \in Nat /\ DOMAIN o = 1 .. Len(o)
    BY <2>1, LenProperties
  <2>4. ASSUME NEW i \in 1 .. Len(o)
        PROVE  Message(Under(t, <<Decimal[i - 1]>>), Json(o[i])) \in Published(topic)
    <3>1. o[i] \in Values
      BY <2>1, ElementOfSeq
    <3>2. <<Decimal[i - 1]>> \in Seq(STRING)
      BY <2>1, <2>3
    <3>3. Under(t, <<Decimal[i - 1]>>) \in AtOrUnder(topic)
      BY <3>2, UnderUnder
    <3> QED BY <3>1, <3>3 DEF Published
  <2>5. f \in [1 .. Len(o) -> Published(topic)]
    BY <2>3, <2>4
  <2> HIDE DEF f
  <2> QED BY <2>2, <2>3, <2>5, FunctionList
<1>5. CASE "obj" \notin DOMAIN v /\ "arr" \notin DOMAIN v
  BY <1>2, <1>5, EmptySeq DEF Parts
<1> QED BY <1>3, <1>4, <1>5

\* Messages with the depth of their values.
Items(topic) == [depth : Nat, message : Published(topic)]

LEMMA AtType ==
  ASSUME NEW topic, NEW n \in Nat, NEW s \in Seq(Published(topic))
  PROVE  At(n, s) \in Seq(Items(topic))
<1>1. Len(s) \in Nat /\ DOMAIN s = 1 .. Len(s)
  BY LenProperties
<1>2. \A i \in 1 .. Len(s) : s[i] \in Published(topic)
  BY ElementOfSeq
<1>3. At(n, s) \in [1 .. Len(s) -> Items(topic)]
  BY <1>1, <1>2 DEF At, Items
<1> QED BY <1>1, <1>3, FunctionList

LEMMA WithPartsType ==
  ASSUME NEW topic \in Seq(STRING), NEW n \in Nat, NEW s \in Seq(Items(topic))
  PROVE  WithParts(n, s) \in Seq(Items(topic))
<1> DEFINE part(i) == IF s[i].depth = n - 1 THEN At(n, Parts(s[i].message)) ELSE <<>>
           f == [i \in DOMAIN s |-> <<s[i]>> \o part(i)]
<1>1. Len(s) \in Nat /\ DOMAIN s = 1 .. Len(s)
  BY LenProperties
<1>2. ASSUME NEW i \in 1 .. Len(s)
      PROVE  <<s[i]>> \o part(i) \in Seq(Items(topic))
  <2>1. s[i] \in Items(topic)
    BY ElementOfSeq
  <2>2. s[i].message \in Published(topic)
    BY <2>1 DEF Items
  <2>3. Parts(s[i].message) \in Seq(Published(topic))
    BY <2>2, PartsType
  <2>4. At(n, Parts(s[i].message)) \in Seq(Items(topic))
    BY <2>3, AtType
  <2>5. part(i) \in Seq(Items(topic))
    BY <2>4, EmptySeq
  <2> HIDE DEF part
  <2>6. <<s[i]>> \in Seq(Items(topic))
    BY <2>1
  <2> QED BY <2>5, <2>6, ConcatProperties
<1>3. WithParts(n, s) = FlattenSeq(f)
  BY DEF WithParts
<1> HIDE DEF part
<1>4. f \in [1 .. Len(s) -> Seq(Items(topic))]
  BY <1>1, <1>2
<1> HIDE DEF f
<1>5. f \in Seq(Seq(Items(topic)))
  BY <1>1, <1>4, FunctionList
<1>6. FlattenSeq(f) \in Seq(Items(topic))
  BY <1>5, FlattenRange
<1> QED BY <1>3, <1>6

\* The messages of a value to a depth, as PublishValue computes them.
PublishedTo(topic, value, n) ==
  CHOOSE f : f = [i \in 0 .. n |->
    IF i = 0 THEN At(0, <<Message(topic, Json(value))>>) ELSE WithParts(i, f[i - 1])]

\* There is a function with the recursive definition of PublishValue.
LEMMA PublishedToExists ==
  ASSUME NEW topic, NEW value, NEW n \in Nat
  PROVE  PublishedTo(topic, value, n) = [i \in 0 .. n |->
           IF i = 0 THEN At(0, <<Message(topic, Json(value))>>)
           ELSE WithParts(i, PublishedTo(topic, value, n)[i - 1])]
<1> DEFINE first == At(0, <<Message(topic, Json(value))>>)
           Eq(f, m) == f = [i \in 0 .. m |-> IF i = 0 THEN first ELSE WithParts(i, f[i - 1])]
           N == {m \in Nat : \E f : Eq(f, m)}
<1>0. PublishedTo(topic, value, n) = CHOOSE f : Eq(f, n)
  BY DEF PublishedTo
<1> HIDE DEF first
<1>1. 0 \in N
  <2> DEFINE f == [i \in 0 .. 0 |-> first]
  <2>1. Eq(f, 0)
    OBVIOUS
  <2> QED BY <2>1
<1>2. ASSUME NEW m \in Nat, m \in N
      PROVE  m + 1 \in N
  <2>1. PICK f : Eq(f, m)
    BY <1>2
  <2> DEFINE last == WithParts(m + 1, f[m])
             g == [i \in 0 .. m + 1 |-> IF i = m + 1 THEN last ELSE f[i]]
  <2>2. \A i \in 0 .. m : f[i] = IF i = 0 THEN first ELSE WithParts(i, f[i - 1])
    BY <2>1
  <2> HIDE DEF last
  <2>3. ASSUME NEW i \in 0 .. m + 1
        PROVE  g[i] = IF i = 0 THEN first ELSE WithParts(i, g[i - 1])
    <3>1. CASE i = m + 1
      <4>1. g[i - 1] = f[m] /\ g[i] = last /\ i # 0
        BY <3>1
      <4> QED BY <3>1, <4>1 DEF last
    <3>2. CASE i \in 0 .. m /\ i # 0
      <4>1. i - 1 \in 0 .. m /\ i - 1 # m + 1 /\ i # m + 1 /\ i - 1 \in 0 .. m + 1
        BY <3>2
      <4>2. g[i - 1] = f[i - 1] /\ g[i] = f[i]
        BY <4>1
      <4> QED BY <2>2, <3>2, <4>2
    <3>3. CASE i = 0
      <4>1. g[0] = f[0]
        OBVIOUS
      <4> QED BY <2>2, <3>3, <4>1
    <3> QED BY <3>1, <3>2, <3>3
  <2>4. Eq(g, m + 1)
    BY <2>3
  <2> HIDE DEF Eq, g
  <2> QED BY <2>4
<1> HIDE DEF N
<1>3. n \in N
  BY <1>1, <1>2, Induction
<1>4. \E f : Eq(f, n)
  BY <1>3 DEF N
<1>5. Eq(PublishedTo(topic, value, n), n)
  <2> HIDE DEF Eq
  <2> QED BY <1>0, <1>4
<1> QED BY <1>5 DEF first

\* A value is published at its topic, and what is published of it is there or under it.
LEMMA PublishValueType ==
  ASSUME NEW topic \in Seq(STRING), NEW value \in Values
  PROVE  PublishValue(topic, value) \in Seq(Published(topic))
<1> DEFINE f == PublishedTo(topic, value, Nesting)
           first == At(0, <<Message(topic, Json(value))>>)
           N == {i \in Nat : i <= Nesting => f[i] \in Seq(Items(topic))}
<1>0. Nesting \in Nat
  BY ValueAssumption
<1>1. f = [i \in 0 .. Nesting |-> IF i = 0 THEN first ELSE WithParts(i, f[i - 1])]
  BY <1>0, PublishedToExists
<1>2. first \in Seq(Items(topic))
  <2>0. topic \in AtOrUnder(topic)
    BY DEF AtOrUnder
  <2>1. Message(topic, Json(value)) \in Published(topic)
    BY <2>0 DEF Published
  <2>2. <<Message(topic, Json(value))>> \in Seq(Published(topic))
    BY <2>1
  <2> QED BY <2>2, AtType
<1>3. PublishValue(topic, value) =
        LET all == f[IF Recursive THEN Nesting ELSE 0]
        IN [i \in DOMAIN all |-> all[i].message]
  BY DEF PublishValue, PublishedTo
<1> HIDE DEF f, first
<1>4. PICK g : f = g /\ g = [i \in 0 .. Nesting |-> IF i = 0 THEN first ELSE WithParts(i, g[i - 1])]
  BY <1>1
<1>5. \A i \in 0 .. Nesting : g[i] = IF i = 0 THEN first ELSE WithParts(i, g[i - 1])
  BY <1>4
<1>6. 0 \in N
  BY <1>0, <1>2, <1>4, <1>5
<1>7. ASSUME NEW i \in Nat, i \in N
      PROVE  i + 1 \in N
  <2>1. CASE i + 1 <= Nesting
    <3>1. i + 1 \in 0 .. Nesting /\ i + 1 # 0 /\ (i + 1) - 1 = i /\ i + 1 \in Nat /\ g[i] \in Seq(Items(topic))
      BY <1>0, <1>4, <1>7, <2>1
    <3>2. g[i + 1] = WithParts(i + 1, g[i])
      BY <1>5, <3>1
    <3>3. WithParts(i + 1, g[i]) \in Seq(Items(topic))
      BY <3>1, WithPartsType
    <3> QED BY <1>4, <3>2, <3>3
  <2> QED BY <2>1
<1> HIDE DEF N
<1>8. Nesting \in N /\ 0 \in N
  BY <1>0, <1>6, <1>7, Induction
<1>9. f[Nesting] \in Seq(Items(topic)) /\ f[0] \in Seq(Items(topic))
  BY <1>0, <1>8 DEF N
<1>10. PICK all \in Seq(Items(topic)) :
         PublishValue(topic, value) = [i \in DOMAIN all |-> all[i].message]
  BY <1>3, <1>9
<1>11. Len(all) \in Nat /\ DOMAIN all = 1 .. Len(all)
  BY LenProperties
<1>12. \A i \in 1 .. Len(all) : all[i] \in Items(topic)
  BY ElementOfSeq
<1>13. [i \in DOMAIN all |-> all[i].message] \in [1 .. Len(all) -> Published(topic)]
  BY <1>11, <1>12 DEF Items
<1> QED BY <1>10, <1>11, <1>13, FunctionList

-----------------------------------------------------------------------------
(* What the database has of a file.                                          *)

\* What is selected of a list are its elements in the set.
LEMMA SelectedRange ==
  ASSUME NEW S, NEW T
  PROVE  \A s \in Seq(S) : Range(Selected(s, T)) = Range(s) \cap T
<1> DEFINE G == {s \in Seq(S) : Range(Selected(s, T)) = Range(s) \cap T}
<1>1. <<>> \in G
  <2>1. <<>> \in Seq(S) /\ Len(<<>>) = 0 /\ Selected(<<>>, T) = <<>>
    BY EmptySeq, SelectedEmpty
  <2>2. Range(<<>>) = {}
    BY DEF Range
  <2> QED BY <2>1, <2>2
<1>2. ASSUME NEW s \in Seq(S), NEW e \in S, s \in G
      PROVE  Append(s, e) \in G
  <2> DEFINE r == Selected(s, T)
             t == Append(s, e)
  <2>1. Range(r) = Range(s) \cap T
    BY <1>2
  <2>2. t \in Seq(S) /\ Range(t) = Range(s) \cup {e}
    BY RangeAppend
  <2>3. Selected(t, T) = IF e \in T THEN Append(r, e) ELSE r
    BY SelectedAppend
  <2>4. r \in Seq(S \cap T)
    BY SelectedType
  <2> HIDE DEF r, t
  <2>5. e \in T => Range(Append(r, e)) = Range(r) \cup {e}
    BY <2>4, RangeAppend
  <2>6. Range(Selected(t, T)) = Range(t) \cap T
    BY <2>1, <2>2, <2>3, <2>5
  <2> QED BY <2>2, <2>6 DEF t
<1> HIDE DEF G
<1>3. Seq(S) \subseteq G
  BY <1>1, <1>2, ListInduction
<1> QED BY <1>3 DEF G

\* A name without its slashes is what the documentation says; no slash is left in it.
LEMMA SafeName ==
  ASSUME NEW name \in Seq(STRING)
  PROVE  /\ Documented(name) = MakeNameSafeForMqtt(name)
         /\ Documented(name) \in Seq(STRING) /\ "/" \notin Range(Documented(name))
<1>1. Selected(name, Range(name) \ {"/"}) \in Seq(STRING \cap (Range(name) \ {"/"}))
  BY SelectedType
<1>2. Documented(name) \in Seq(STRING \cap (Range(name) \ {"/"}))
  BY <1>1 DEF Documented
<1>3. Range(Documented(name)) \subseteq STRING \cap (Range(name) \ {"/"})
  BY <1>2, RangeElement
<1>4. Documented(name) \in Seq(STRING)
  BY <1>2, ElementOfSeq, IsASeq, LenProperties
<1> QED BY <1>3, <1>4 DEF Documented, MakeNameSafeForMqtt

\* The list has what was made of every entry: none was refused, and of two entries
\* neither the ids nor the names are the same.
Holds(list, of) ==
  /\ list.items = {of[k] : k \in DOMAIN of}
  /\ \A k \in DOMAIN of : of[k] # Refused
  /\ \A x, y \in DOMAIN of : of[x].id = of[y].id \/ of[x].name = of[y].name => x = y

LEMMA ListHolds ==
  ASSUME NEW S, NEW tree \in Seq(S), NEW of, DOMAIN of = Range(tree),
         AddAll([i \in DOMAIN tree |-> of[tree[i]]]) # Refused
  PROVE  Holds(AddAll([i \in DOMAIN tree |-> of[tree[i]]]), of)
<1> DEFINE items == [i \in DOMAIN tree |-> of[tree[i]]]
<1>1. DOMAIN tree = 1 .. Len(tree) /\ Len(tree) \in Nat
  BY LenProperties
<1>2. \A k : k \in DOMAIN of <=> \E i \in 1 .. Len(tree) : tree[i] = k
  BY RangeElement
<1>3. DOMAIN items = 1 .. Len(tree) /\ \A i \in 1 .. Len(tree) : items[i] = of[tree[i]]
  BY <1>1
<1>0. AddAll(items) # Refused
  OBVIOUS
<1> HIDE DEF items
<1>4. /\ Refused \notin Range(items) /\ AddAll(items) = [items |-> Range(items)]
      /\ \A i \in DOMAIN items : Addable({items[j] : j \in 1 .. i - 1}, items[i])
  BY <1>0 DEF AddAll
<1>5. Range(items) = {of[k] : k \in DOMAIN of}
  <2>1. Range(items) = {items[i] : i \in 1 .. Len(tree)}
    BY <1>3 DEF Range
  <2>2. \A i \in 1 .. Len(tree) : tree[i] \in DOMAIN of /\ items[i] = of[tree[i]]
    BY <1>2, <1>3
  <2>3. ASSUME NEW k \in DOMAIN of
        PROVE  of[k] \in Range(items)
    <3>1. PICK i \in 1 .. Len(tree) : tree[i] = k
      BY <1>2
    <3> QED BY <2>1, <2>2, <3>1
  <2>4. ASSUME NEW x \in Range(items)
        PROVE  \E k \in DOMAIN of : x = of[k]
    BY <2>1, <2>2
  <2> QED BY <2>3, <2>4
<1>6. ASSUME NEW i \in 1 .. Len(tree), NEW j \in 1 .. Len(tree), j < i
      PROVE  of[tree[j]].id # of[tree[i]].id /\ of[tree[j]].name # of[tree[i]].name
  <2>1. Addable({items[m] : m \in 1 .. i - 1}, items[i])
    BY <1>3, <1>4
  <2>2. j \in 1 .. i - 1
    BY <1>1, <1>6
  <2> QED BY <1>3, <2>1, <2>2 DEF Addable
<1>7. ASSUME NEW x \in DOMAIN of, NEW y \in DOMAIN of,
             of[x].id = of[y].id \/ of[x].name = of[y].name
      PROVE  x = y
  <2>1. PICK i \in 1 .. Len(tree) : tree[i] = x
    BY <1>2
  <2>2. PICK j \in 1 .. Len(tree) : tree[j] = y
    BY <1>2
  <2>3. ~(i < j) /\ ~(j < i)
    BY <1>6, <1>7, <2>1, <2>2
  <2> QED BY <1>1, <2>1, <2>2, <2>3
<1>8. AddAll(items).items = {of[k] : k \in DOMAIN of}
  BY <1>4, <1>5
<1>9. \A k \in DOMAIN of : of[k] # Refused
  BY <1>4, <1>5
<1> QED BY <1>7, <1>8, <1>9 DEF Holds, items

\* An entry is found by its id and its name, and nothing else is.
LEMMA Found ==
  ASSUME NEW list, NEW of, Holds(list, of)
  PROVE  /\ \A k \in DOMAIN of : /\ FindById(list, of[k].id) = of[k]
                                 /\ FindByName(list, of[k].name) = of[k]
         /\ \A id : FindById(list, id) # Nothing =>
              \E k \in DOMAIN of : of[k].id = id /\ FindById(list, id) = of[k]
         /\ \A name : FindByName(list, name) # Nothing =>
              \E k \in DOMAIN of : of[k].name = name /\ FindByName(list, name) = of[k]
<1>1. \A x \in list.items : \E k \in DOMAIN of : x = of[k]
  BY DEF Holds
<1>2. \A k \in DOMAIN of : of[k] \in list.items
  BY DEF Holds
<1>3. \A x, y \in list.items : x.id = y.id \/ x.name = y.name => x = y
  BY <1>1 DEF Holds
<1>4. ASSUME NEW k \in DOMAIN of
      PROVE  /\ FindById(list, of[k].id) = of[k]
             /\ FindByName(list, of[k].name) = of[k]
  <2>1. FindById(list, of[k].id) = CHOOSE x \in list.items : x.id = of[k].id
    BY <1>2 DEF FindById
  <2>2. FindByName(list, of[k].name) = CHOOSE x \in list.items : x.name = of[k].name
    BY <1>2 DEF FindByName
  <2>3. \A x \in list.items : x.id = of[k].id \/ x.name = of[k].name => x = of[k]
    BY <1>2, <1>3
  <2>4. (CHOOSE x \in list.items : x.id = of[k].id) = of[k]
    BY <1>2, <2>3
  <2>5. (CHOOSE x \in list.items : x.name = of[k].name) = of[k]
    BY <1>2, <2>3
  <2> QED BY <2>1, <2>2, <2>4, <2>5
<1>5. ASSUME NEW id, FindById(list, id) # Nothing
      PROVE  \E k \in DOMAIN of : of[k].id = id /\ FindById(list, id) = of[k]
  <2>1. PICK x \in list.items : x.id = id
    BY <1>5 DEF FindById
  <2>2. PICK k \in DOMAIN of : x = of[k]
    BY <1>1
  <2> QED BY <1>4, <2>1, <2>2
<1>6. ASSUME NEW name, FindByName(list, name) # Nothing
      PROVE  \E k \in DOMAIN of : of[k].name = name /\ FindByName(list, name) = of[k]
  <2>1. PICK x \in list.items : x.name = name
    BY <1>6 DEF FindByName
  <2>2. PICK k \in DOMAIN of : x = of[k]
    BY <1>1
  <2> QED BY <1>4, <2>1, <2>2
<1> QED BY <1>4, <1>5, <1>6

\* A file's trees are lists of entries, on all of their levels.
LEMMA FileTrees ==
  ASSUME NEW tree \in Files
  PROVE  /\ tree \in Seq(Range(tree))
         /\ \A c \in Range(tree) : /\ c.key \in Seq(STRING) /\ c.data \in Seq(STRING)
                                   /\ c.sub \in Seq(Range(c.sub))
         /\ \A c \in Range(tree) : \A s \in Range(c.sub) :
              s.sub \in Seq(Range(s.sub)) /\ \A k \in Range(s.sub) : k.data \in Seq(STRING)
BY FileAssumption DEF IsTree

\* What is below some entries is what is below one of them.
LEMMA BelowRange ==
  ASSUME NEW tree, tree \in Seq(Range(tree)), NEW entries,
         \A e \in Range(tree) : e.sub \in Seq(Range(e.sub))
  PROVE  /\ Below(tree, entries) \in Seq(UNION {Range(e.sub) : e \in Range(tree)})
         /\ Range(Below(tree, entries)) = UNION {Range(e.sub) : e \in Range(tree) \cap entries}
<1> DEFINE T == UNION {Range(e.sub) : e \in Range(tree)}
           part(i) == IF tree[i] \in entries THEN tree[i].sub ELSE <<>>
           parts == [i \in DOMAIN tree |-> part(i)]
<1>1. DOMAIN tree = 1 .. Len(tree) /\ Len(tree) \in Nat
  BY LenProperties
<1>2. \A e : e \in Range(tree) <=> \E i \in 1 .. Len(tree) : tree[i] = e
  BY RangeElement
<1>3. <<>> \in Seq(T) /\ Range(<<>>) = {}
  BY EmptySeq DEF Range
<1>4. \A e \in Range(tree) : e.sub \in Seq(T)
  <2> TAKE e \in Range(tree)
  <2>1. Range(e.sub) \subseteq T
    OBVIOUS
  <2> HIDE DEF T
  <2>2. e.sub \in Seq(Range(e.sub))
    OBVIOUS
  <2>3. Len(e.sub) \in Nat /\ \A i \in 1 .. Len(e.sub) : e.sub[i] \in T
    BY <2>1, <2>2, ElementOfSeq, LenProperties
  <2> QED BY <2>2, <2>3, IsASeq, LenProperties
<1> HIDE DEF T
<1>5. \A i \in 1 .. Len(tree) : part(i) \in Seq(T)
  BY <1>2, <1>3, <1>4
<1>6. parts \in [1 .. Len(tree) -> Seq(T)] /\ \A i \in 1 .. Len(tree) : parts[i] = part(i)
  BY <1>1, <1>5
<1> HIDE DEF parts
<1>7. parts \in Seq(Seq(T)) /\ Len(parts) = Len(tree)
  BY <1>1, <1>6, FunctionList
<1>8. Below(tree, entries) = FlattenSeq(parts)
  BY DEF Below, parts
<1>9. /\ FlattenSeq(parts) \in Seq(T)
      /\ \A x : x \in Range(FlattenSeq(parts)) <=> \E i \in 1 .. Len(parts) : x \in Range(parts[i])
  BY <1>7, FlattenRange
<1>10. ASSUME NEW x \in Range(FlattenSeq(parts))
       PROVE  x \in UNION {Range(e.sub) : e \in Range(tree) \cap entries}
  <2>1. PICK i \in 1 .. Len(tree) : x \in Range(part(i))
    BY <1>6, <1>7, <1>9
  <2>2. tree[i] \in entries /\ x \in Range(tree[i].sub)
    BY <1>3, <2>1
  <2> QED BY <1>2, <2>2
<1>11. ASSUME NEW x \in UNION {Range(e.sub) : e \in Range(tree) \cap entries}
       PROVE  x \in Range(FlattenSeq(parts))
  <2>1. PICK e \in Range(tree) \cap entries : x \in Range(e.sub)
    OBVIOUS
  <2>2. PICK i \in 1 .. Len(tree) : tree[i] = e
    BY <1>2
  <2>3. x \in Range(parts[i])
    BY <1>6, <2>1, <2>2
  <2> QED BY <1>7, <1>9, <2>3
<1>12. Range(Below(tree, entries)) = UNION {Range(e.sub) : e \in Range(tree) \cap entries}
  BY <1>8, <1>10, <1>11
<1> QED BY <1>8, <1>9, <1>12 DEF T

\* The records of commands.
Records(is_global, entries) == [k \in entries |-> ParseCommand(is_global, k)]

LEMMA CommandListHolds ==
  ASSUME NEW S, NEW tree \in Seq(S), NEW is_global, ParseCommandList(is_global, tree) # Refused
  PROVE  Holds(ParseCommandList(is_global, tree), Records(is_global, Range(tree)))
<1> DEFINE of == Records(is_global, Range(tree))
<1>1. DOMAIN of = Range(tree)
  BY DEF Records
<1>2. \A i \in DOMAIN tree : of[tree[i]] = ParseCommand(is_global, tree[i])
  BY DEF Records, Range
<1> HIDE DEF of
<1>3. [i \in DOMAIN tree |-> of[tree[i]]] = [i \in DOMAIN tree |-> ParseCommand(is_global, tree[i])]
  BY <1>2
<1>4. ParseCommandList(is_global, tree) = AddAll([i \in DOMAIN tree |-> of[tree[i]]])
  BY <1>3 DEF ParseCommandList
<1>5. Holds(ParseCommandList(is_global, tree), of)
  BY <1>1, <1>4, ListHolds
<1> QED BY <1>5 DEF of

LEMMA CommandRecord ==
  ASSUME NEW is_global, NEW k, ParseCommand(is_global, k) # Refused
  PROVE  /\ ParseCommand(is_global, k) =
              [id |-> Id(k.key), name |-> MakeNameSafeForMqtt(k.data),
               is_global |-> is_global, data |-> ObjectType(k.sub)]
         /\ ObjectType(k.sub) # Refused /\ ParseCommand(is_global, k) # Nothing
<1>1. ParseCommand(is_global, k) =
        [id |-> Id(k.key), name |-> MakeNameSafeForMqtt(k.data),
         is_global |-> is_global, data |-> ObjectType(k.sub)]
      /\ ObjectType(k.sub) # Refused
  BY DEF ParseCommand
<1> QED BY <1>1 DEF Nothing

\* The global commands and the clusters of a file that was accepted.
LEMMA FileHolds ==
  ASSUME NEW tree \in Files, ParseFromPTree(tree) # Refused
  PROVE  /\ Holds(ParseFromPTree(tree).global_commands, Records(TRUE, Globals(tree)))
         /\ Holds(ParseFromPTree(tree).clusters, [c \in Clusters(tree) |-> ParseClusterInfo(c)])
<1> DEFINE below == Below(tree, GlobalParts(tree))
           others == Selected(tree, Range(tree) \ GlobalParts(tree))
           of == [c \in Clusters(tree) |-> ParseClusterInfo(c)]
           globals == ParseCommandList(TRUE, below)
           clusters == AddAll([i \in DOMAIN others |-> ParseClusterInfo(others[i])])
<1>1. /\ ParseFromPTree(tree) = [clusters |-> clusters, global_commands |-> globals]
      /\ globals # Refused /\ clusters # Refused
  <2> HIDE DEF clusters, globals
  <2>1. ParseFromPTree(tree) = IF Refused \in {globals, clusters} THEN Refused
                               ELSE [clusters |-> clusters, global_commands |-> globals]
    BY DEF ParseFromPTree, clusters, globals
  <2> QED BY <2>1
<1>2. /\ tree \in Seq(Range(tree))
      /\ \A e \in Range(tree) : e.sub \in Seq(Range(e.sub))
  BY FileTrees
<1>3. Holds(globals, Records(TRUE, Globals(tree)))
  <2>1. /\ below \in Seq(UNION {Range(e.sub) : e \in Range(tree)})
        /\ Range(below) = UNION {Range(e.sub) : e \in Range(tree) \cap GlobalParts(tree)}
    BY <1>2, BelowRange
  <2>2. Range(tree) \cap GlobalParts(tree) = Range(tree) \ Clusters(tree)
    BY DEF GlobalParts, Clusters
  <2>3. Range(below) = Globals(tree)
    BY <2>1, <2>2 DEF Globals
  <2> HIDE DEF below
  <2> QED BY <1>1, <2>1, <2>3, CommandListHolds
<1>4. Holds(clusters, of)
  <2>1. others \in Seq(Range(tree)) /\ Range(others) = Clusters(tree)
    <3>1. others \in Seq(Range(tree) \cap (Range(tree) \ GlobalParts(tree)))
      BY <1>2, SelectedType
    <3>2. Range(others) = Range(tree) \cap (Range(tree) \ GlobalParts(tree))
      BY <1>2, SelectedRange
    <3>3. Range(tree) \cap (Range(tree) \ GlobalParts(tree)) = Clusters(tree)
      BY DEF GlobalParts, Clusters
    <3> HIDE DEF others
    <3>4. others \in Seq(Range(tree))
      BY <3>1, ElementOfSeq, IsASeq, LenProperties
    <3> QED BY <3>2, <3>3, <3>4
  <2> HIDE DEF others
  <2>2. DOMAIN of = Range(others)
    BY <2>1
  <2>3. \A i \in DOMAIN others : of[others[i]] = ParseClusterInfo(others[i])
    BY <2>1 DEF Range
  <2> HIDE DEF of
  <2>4. [i \in DOMAIN others |-> of[others[i]]] = [i \in DOMAIN others |-> ParseClusterInfo(others[i])]
    BY <2>3
  <2>5. clusters = AddAll([i \in DOMAIN others |-> of[others[i]]])
    BY <2>4
  <2> HIDE DEF clusters
  <2> QED BY <1>1, <2>1, <2>2, <2>5, ListHolds
<1> HIDE DEF globals, clusters, of
<1>5. ParseFromPTree(tree).global_commands = globals /\ ParseFromPTree(tree).clusters = clusters
  BY <1>1
<1> QED BY <1>3, <1>4, <1>5 DEF of

\* A cluster of a file that was accepted, and its commands.
LEMMA ClusterHolds ==
  ASSUME NEW tree \in Files, NEW c \in Clusters(tree), ParseClusterInfo(c) # Refused
  PROVE  /\ ParseClusterInfo(c).id = Id(c.key)
         /\ ParseClusterInfo(c).name = MakeNameSafeForMqtt(c.data)
         /\ ParseClusterInfo(c) # Nothing
         /\ \A d \in Directions :
              Holds(ParseClusterInfo(c).commands[d], Records(FALSE, CommandsOf(c, d)))
<1> DEFINE below(d) == Below(c.sub, CommandParts(c.sub, d))
           commands == [d \in Directions |-> ParseCommandList(FALSE, below(d))]
           attributes == ParseAttributeList(Below(c.sub, AttributeParts(c.sub)))
           record == [id |-> Id(c.key), name |-> MakeNameSafeForMqtt(c.data),
                      attributes |-> attributes, commands |-> commands]
<1>1. ParseClusterInfo(c) = record /\ \A d \in Directions : commands[d] # Refused
  <2> HIDE DEF commands, attributes
  <2>1. ParseClusterInfo(c) = record
    BY DEF ParseClusterInfo, commands, attributes
  <2>2. \A d \in Directions : commands[d] # Refused
    BY DEF ParseClusterInfo, commands
  <2> QED BY <2>1, <2>2
<1>2. /\ c.sub \in Seq(Range(c.sub))
      /\ \A e \in Range(c.sub) : e.sub \in Seq(Range(e.sub))
  BY FileTrees DEF Clusters
<1>3. ASSUME NEW d \in Directions
      PROVE  Holds(commands[d], Records(FALSE, CommandsOf(c, d)))
  <2>1. /\ below(d) \in Seq(UNION {Range(e.sub) : e \in Range(c.sub)})
        /\ Range(below(d)) = UNION {Range(e.sub) : e \in Range(c.sub) \cap CommandParts(c.sub, d)}
    BY <1>2, BelowRange
  <2>2. Range(c.sub) \cap CommandParts(c.sub, d) =
          {x \in Range(c.sub) : x.key = <<"commands">> /\ x.data = <<d>>}
    BY DEF CommandParts
  <2>3. Range(below(d)) = CommandsOf(c, d)
    BY <2>1, <2>2 DEF CommandsOf
  <2>4. commands[d] = ParseCommandList(FALSE, below(d)) /\ commands[d] # Refused
    BY <1>1
  <2> HIDE DEF below, commands
  <2> QED BY <2>1, <2>3, <2>4, CommandListHolds
<1> HIDE DEF commands, attributes
<1>4. /\ record.id = Id(c.key) /\ record.name = MakeNameSafeForMqtt(c.data)
      /\ record.commands = commands /\ record # Nothing
  BY DEF Nothing
<1> HIDE DEF record
<1> QED BY <1>1, <1>3, <1>4

-----------------------------------------------------------------------------
(* What a topic says.                                                        *)

\* What is behind the start of a text.
LEMMA RestBehind ==
  ASSUME NEW S, NEW s \in Seq(S), NEW t \in Seq(S)
  PROVE  s \o t \in Seq(S) /\ Rest(s \o t, s) = t /\ IsPrefix(s, s \o t)
<1> DEFINE c == s \o t
           r == SubSeq(c, Len(s) + 1, Len(c))
<1>1. /\ c \in Seq(S) /\ Len(c) = Len(s) + Len(t) /\ Len(s) \in Nat /\ Len(t) \in Nat
      /\ \A i \in 1 .. Len(s) + Len(t) : c[i] = IF i <= Len(s) THEN s[i] ELSE t[i - Len(s)]
  BY ConcatProperties, LenProperties
<1> HIDE DEF c
<1>2. r \in Seq(S) /\ Len(r) = Len(t) /\ \A i \in 1 .. Len(t) : r[i] = c[Len(s) + i]
  <2>1. Len(s) + 1 \in 1 .. Len(c) + 1 /\ Len(c) \in Len(s) .. Len(c) + 0
    BY <1>1
  <2>2. /\ SubSeq(c, Len(s) + 1, Len(c)) \in Seq(S)
        /\ Len(SubSeq(c, Len(s) + 1, Len(c))) =
             IF Len(s) + 1 <= Len(c) THEN Len(c) - (Len(s) + 1) + 1 ELSE 0
        /\ \A i \in 1 .. Len(c) - (Len(s) + 1) + 1 :
             SubSeq(c, Len(s) + 1, Len(c))[i] = c[Len(s) + 1 + i - 1]
    BY <1>1, SubSeqProperties
  <2>3. Len(c) - (Len(s) + 1) + 1 = Len(t) /\ (~(Len(s) + 1 <= Len(c)) => Len(t) = 0)
    BY <1>1
  <2>4. \A i \in 1 .. Len(t) : Len(s) + 1 + i - 1 = Len(s) + i
    BY <1>1
  <2> QED BY <1>1, <2>2, <2>3, <2>4
<1> HIDE DEF r
<1>3. ASSUME NEW i \in 1 .. Len(t)
      PROVE  r[i] = t[i]
  <2>1. /\ Len(s) + i \in 1 .. Len(s) + Len(t) /\ ~(Len(s) + i <= Len(s))
        /\ (Len(s) + i) - Len(s) = i
    BY <1>1
  <2>2. c[Len(s) + i] = t[(Len(s) + i) - Len(s)]
    BY <1>1, <2>1
  <2> QED BY <1>2, <2>1, <2>2
<1>4. r = t
  BY <1>2, <1>3, SeqEqual
<1>5. IsPrefix(s, c)
  <2>1. \A i \in 1 .. Len(s) : i \in 1 .. Len(s) + Len(t) /\ c[i] = s[i]
    BY <1>1
  <2> QED BY <1>1, <2>1, LenProperties DEF IsPrefix
<1> QED BY <1>1, <1>4, <1>5 DEF Rest, c, r

LEMMA PairAndPair ==
  ASSUME NEW S, NEW a \in S, NEW b \in S, NEW c \in S, NEW d \in S
  PROVE  <<a, b>> \o <<c, d>> = <<a, b, c, d>>
<1> DEFINE s == <<a, b>>
           t == <<c, d>>
           u == <<a, b, c, d>>
           v == s \o t
<1>1. /\ s \in Seq(S) /\ Len(s) = 2 /\ s[1] = a /\ s[2] = b
      /\ t \in Seq(S) /\ Len(t) = 2 /\ t[1] = c /\ t[2] = d
      /\ u \in Seq(S) /\ Len(u) = 4 /\ u[1] = a /\ u[2] = b /\ u[3] = c /\ u[4] = d
  OBVIOUS
<1> HIDE DEF s, t, u
<1>2. /\ v \in Seq(S) /\ Len(v) = Len(s) + Len(t)
      /\ \A i \in 1 .. Len(s) + Len(t) : v[i] = IF i <= Len(s) THEN s[i] ELSE t[i - Len(s)]
  BY <1>1, ConcatProperties
<1> HIDE DEF v
<1>3. Len(v) = 4 /\ v[1] = a /\ v[2] = b /\ v[3] = c /\ v[4] = d
  BY <1>1, <1>2
<1>4. \A i \in 1 .. 4 : i = 1 \/ i = 2 \/ i = 3 \/ i = 4
  OBVIOUS
<1>5. \A i \in 1 .. Len(v) : v[i] = u[i]
  BY <1>1, <1>3, <1>4
<1>6. v = u
  BY <1>1, <1>2, <1>3, <1>5, SeqEqual
<1> QED BY <1>6 DEF v, s, t, u

LEMMA PairAndFour ==
  ASSUME NEW S, NEW a \in S, NEW b \in S, NEW c \in S, NEW d \in S, NEW e \in S, NEW f \in S
  PROVE  <<a, b>> \o <<c, d, e, f>> = <<a, b, c, d, e, f>>
<1> DEFINE s == <<a, b>>
           t == <<c, d, e, f>>
           u == <<a, b, c, d, e, f>>
           v == s \o t
<1>1. /\ s \in Seq(S) /\ Len(s) = 2 /\ s[1] = a /\ s[2] = b
      /\ t \in Seq(S) /\ Len(t) = 4 /\ t[1] = c /\ t[2] = d /\ t[3] = e /\ t[4] = f
      /\ u \in Seq(S) /\ Len(u) = 6
      /\ u[1] = a /\ u[2] = b /\ u[3] = c /\ u[4] = d /\ u[5] = e /\ u[6] = f
  OBVIOUS
<1> HIDE DEF s, t, u
<1>2. /\ v \in Seq(S) /\ Len(v) = Len(s) + Len(t)
      /\ \A i \in 1 .. Len(s) + Len(t) : v[i] = IF i <= Len(s) THEN s[i] ELSE t[i - Len(s)]
  BY <1>1, ConcatProperties
<1> HIDE DEF v
<1>3. Len(v) = 6 /\ v[1] = a /\ v[2] = b /\ v[3] = c /\ v[4] = d /\ v[5] = e /\ v[6] = f
  BY <1>1, <1>2
<1>4. \A i \in 1 .. 6 : i = 1 \/ i = 2 \/ i = 3 \/ i = 4 \/ i = 5 \/ i = 6
  OBVIOUS
<1>5. \A i \in 1 .. Len(v) : v[i] = u[i]
  BY <1>1, <1>3, <1>4
<1>6. v = u
  BY <1>1, <1>2, <1>3, <1>5, SeqEqual
<1> QED BY <1>6 DEF v, s, t, u

LEMMA PairAndWord ==
  ASSUME NEW S, NEW a \in S, NEW b \in S, NEW c \in S
  PROVE  <<a, b>> \o <<c>> = <<a, b, c>>
<1> DEFINE s == <<a, b>>
           t == <<c>>
           u == <<a, b, c>>
           v == s \o t
<1>1. /\ s \in Seq(S) /\ Len(s) = 2 /\ s[1] = a /\ s[2] = b /\ t \in Seq(S) /\ Len(t) = 1 /\ t[1] = c
      /\ u \in Seq(S) /\ Len(u) = 3 /\ u[1] = a /\ u[2] = b /\ u[3] = c
  OBVIOUS
<1> HIDE DEF s, t, u
<1>2. /\ v \in Seq(S) /\ Len(v) = Len(s) + Len(t)
      /\ \A i \in 1 .. Len(s) + Len(t) : v[i] = IF i <= Len(s) THEN s[i] ELSE t[i - Len(s)]
  BY <1>1, ConcatProperties
<1> HIDE DEF v
<1>3. Len(v) = 3 /\ v[1] = a /\ v[2] = b /\ v[3] = c
  BY <1>1, <1>2
<1>4. \A i \in 1 .. 3 : i = 1 \/ i = 2 \/ i = 3
  OBVIOUS
<1>5. \A i \in 1 .. Len(v) : v[i] = u[i]
  BY <1>1, <1>3, <1>4
<1>6. v = u
  BY <1>1, <1>2, <1>3, <1>5, SeqEqual
<1> QED BY <1>6 DEF v, s, t, u

LEMMA WordAndSlash ==
  ASSUME NEW S, NEW a \in S, NEW b \in S
  PROVE  <<a>> \o <<b>> = <<a, b>>
<1> DEFINE s == <<a>>
           t == <<b>>
           u == <<a, b>>
           v == s \o t
<1>1. /\ s \in Seq(S) /\ Len(s) = 1 /\ s[1] = a /\ t \in Seq(S) /\ Len(t) = 1 /\ t[1] = b
      /\ u \in Seq(S) /\ Len(u) = 2 /\ u[1] = a /\ u[2] = b
  OBVIOUS
<1> HIDE DEF s, t, u
<1>2. /\ v \in Seq(S) /\ Len(v) = Len(s) + Len(t)
      /\ \A i \in 1 .. Len(s) + Len(t) : v[i] = IF i <= Len(s) THEN s[i] ELSE t[i - Len(s)]
  BY <1>1, ConcatProperties
<1> HIDE DEF v
<1>3. Len(v) = 2 /\ v[1] = a /\ v[2] = b
  BY <1>1, <1>2
<1>4. \A i \in 1 .. 2 : i = 1 \/ i = 2
  OBVIOUS
<1>5. \A i \in 1 .. Len(v) : v[i] = u[i]
  BY <1>1, <1>3, <1>4
<1>6. v = u
  BY <1>1, <1>2, <1>3, <1>5, SeqEqual
<1> QED BY <1>6 DEF v, s, t, u

ThreeWords(d, e, w) == <<d, "/", e, "/", w, "/">>

\* Three words in front of a text are its first three levels.
LEMMA ThreeLevels ==
  ASSUME NEW d \in STRING, NEW e \in STRING, NEW w \in STRING
  PROVE  /\ ThreeWords(d, e, w) \in Seq(STRING)
         /\ \A x \in Seq(STRING) :
              ThreeWords(d, e, w) \o x = Under(<<d>>, Under(<<e>>, Under(<<w>>, x)))
<1>0. "/" \in STRING
  BY WordAssumption
<1> DEFINE S == STRING
<1> SUFFICES ASSUME NEW x \in Seq(S)
             PROVE  /\ ThreeWords(d, e, w) \in Seq(S)
                    /\ ThreeWords(d, e, w) \o x = Under(<<d>>, Under(<<e>>, Under(<<w>>, x)))
  BY EmptySeq
<1> DEFINE dm == <<d, "/">>
           em == <<e, "/">>
           wm == <<w, "/">>
           ew == <<e, "/", w, "/">>
           all == <<d, "/", e, "/", w, "/">>
           y == wm \o x
           z == em \o y
<1>1. dm \in Seq(S) /\ em \in Seq(S) /\ wm \in Seq(S) /\ ew \in Seq(S) /\ all \in Seq(S)
  BY <1>0
<1>2. ew = em \o wm /\ all = dm \o ew
  <2>1. <<e, "/">> \o <<w, "/">> = <<e, "/", w, "/">>
    BY <1>0, PairAndPair
  <2>2. <<d, "/">> \o <<e, "/", w, "/">> = <<d, "/", e, "/", w, "/">>
    BY <1>0, PairAndFour
  <2> QED BY <2>1, <2>2, Zenon
<1>3. <<d>> \o <<"/">> = dm /\ <<e>> \o <<"/">> = em /\ <<w>> \o <<"/">> = wm
  BY <1>0, WordAndSlash
<1>4. Under(<<w>>, x) = y /\ Under(<<e>>, y) = z /\ Under(<<d>>, z) = dm \o z
  BY <1>3, Zenon DEF Under
<1>5. y = wm \o x /\ z = em \o y
  OBVIOUS
<1> HIDE DEF dm, em, wm, ew, all, y, z
<1>6. y \in Seq(S)
  BY <1>1, <1>5, ConcatProperties
<1>7. \A a, b, c \in Seq(S) : (a \o b) \o c = a \o (b \o c)
  BY ConcatAssociative, SMTT(30)
<1>8. (dm \o ew) \o x = dm \o (ew \o x)
  BY <1>1, <1>7, SMTT(30)
<1>9. (em \o wm) \o x = em \o (wm \o x)
  BY <1>1, <1>7, SMTT(30)
<1>10. all \o x = Under(<<d>>, Under(<<e>>, Under(<<w>>, x)))
  BY <1>2, <1>4, <1>5, <1>8, <1>9, Zenon
<1> QED BY <1>1, <1>10 DEF all, ThreeWords

\* A word in front of a text is its first level.
LEMMA WordInFront ==
  ASSUME NEW d \in STRING \ {"/"}
  PROVE  \A t \in Seq(STRING) :
           LET u == Under(<<d>>, t)
           IN /\ u \in Seq(STRING) /\ Len(Levels(u)) = Len(Levels(t)) + 1 /\ Levels(u)[1] = <<d>>
              /\ \A i \in 1 .. Len(Levels(t)) : Levels(u)[i + 1] = Levels(t)[i]
<1>0. "/" \in STRING
  BY WordAssumption
<1> DEFINE s == <<d>>
<1>1. s \in Seq(STRING) /\ "/" \notin Range(s)
  BY DEF Range
<1> HIDE DEF s
<1>2. ASSUME NEW t \in Seq(STRING)
      PROVE  /\ Under(s, t) \in Seq(STRING) /\ Len(Levels(Under(s, t))) = Len(Levels(t)) + 1
             /\ Levels(Under(s, t))[1] = s
             /\ \A i \in 1 .. Len(Levels(t)) : Levels(Under(s, t))[i + 1] = Levels(t)[i]
  BY <1>0, <1>1, UnderType, FirstLevel
<1> QED BY <1>2 DEF s

\* A device, an endpoint and a word, and two names behind them.
LEMMA LevelsOfNames ==
  ASSUME NEW d \in STRING, NEW e \in STRING, NEW w \in STRING, "/" \notin {d, e, w},
         NEW a \in Seq(STRING), "/" \notin Range(a),
         NEW b \in Seq(STRING), "/" \notin Range(b),
         NEW x \in AtOrUnder(Under(a, b))
  PROVE  LET levels == Levels(ThreeWords(d, e, w) \o x)
         IN /\ levels[1] = <<d>> /\ levels[2] = <<e>> /\ levels[3] = <<w>>
            /\ levels[4] = a /\ levels[5] = b
            /\ x = Under(a, b) => Len(levels) = 5
<1>0. "/" \in STRING
  BY WordAssumption
<1> DEFINE y == Under(<<w>>, x)
           z == Under(<<e>>, y)
           all == Under(<<d>>, z)
<1>1. PICK u \in AtOrUnder(b) : x = Under(a, u) /\ u \in Seq(STRING) /\ (x = Under(a, b) => u = b)
  <2>1. CASE x = Under(a, b)
    BY <2>1 DEF AtOrUnder
  <2>2. CASE x # Under(a, b)
    <3>1. PICK t \in Seq(STRING) : x = Under(Under(a, b), t)
      BY <2>2 DEF AtOrUnder
    <3>2. x = Under(a, Under(b, t)) /\ Under(b, t) \in Seq(STRING)
      BY <1>0, <3>1, UnderAssociative, UnderType
    <3> QED BY <2>2, <3>2 DEF AtOrUnder
  <2> QED BY <2>1, <2>2
<1>2. Levels(u)[1] = b /\ Len(Levels(u)) \in Nat \ {0} /\ (u = b => Len(Levels(u)) = 1)
  <2>1. Levels(b) = <<b>>
    BY LevelsWord
  <2>2. CASE u = b
    <3>1. Len(<<b>>) = 1 /\ <<b>>[1] = b /\ 1 \in Nat \ {0}
      OBVIOUS
    <3>2. Levels(u) = <<b>>
      BY <2>1, <2>2
    <3> QED BY <3>1, <3>2, Zenon
  <2>3. CASE u # b
    <3>1. PICK t \in Seq(STRING) : u = Under(b, t)
      BY <2>3 DEF AtOrUnder
    <3>2. Levels(Under(b, t))[1] = b /\ Len(Levels(Under(b, t))) = Len(Levels(t)) + 1
          /\ Len(Levels(t)) \in Nat \ {0}
      BY <1>0, FirstLevel
    <3> QED BY <2>3, <3>1, <3>2
  <2> QED BY <2>2, <2>3
<1>3. x \in Seq(STRING)
  BY <1>0, <1>1, UnderType
<1>4. /\ Len(Levels(x)) = Len(Levels(u)) + 1 /\ Levels(x)[1] = a
      /\ \A i \in 1 .. Len(Levels(u)) : Levels(x)[i + 1] = Levels(u)[i]
  BY <1>0, <1>1, FirstLevel
<1>5. y = Under(<<w>>, x) /\ z = Under(<<e>>, y) /\ all = Under(<<d>>, z)
  OBVIOUS
<1> HIDE DEF y, z, all
<1>a. d \in STRING \ {"/"} /\ e \in STRING \ {"/"} /\ w \in STRING \ {"/"}
  OBVIOUS
<1>b. \A c \in {d, e, w} : \A t \in Seq(STRING) :
        LET v == Under(<<c>>, t)
        IN /\ v \in Seq(STRING) /\ Len(Levels(v)) = Len(Levels(t)) + 1 /\ Levels(v)[1] = <<c>>
           /\ \A i \in 1 .. Len(Levels(t)) : Levels(v)[i + 1] = Levels(t)[i]
  <2> TAKE c \in {d, e, w}
  <2>1. c \in STRING \ {"/"}
    BY <1>a
  <2> QED BY <2>1, WordInFront, Zenon
<1>6. /\ y \in Seq(STRING) /\ Len(Levels(y)) = Len(Levels(x)) + 1 /\ Levels(y)[1] = <<w>>
      /\ \A i \in 1 .. Len(Levels(x)) : Levels(y)[i + 1] = Levels(x)[i]
  BY <1>3, <1>5, <1>b, Zenon
<1>7. /\ z \in Seq(STRING) /\ Len(Levels(z)) = Len(Levels(y)) + 1 /\ Levels(z)[1] = <<e>>
      /\ \A i \in 1 .. Len(Levels(y)) : Levels(z)[i + 1] = Levels(y)[i]
  BY <1>5, <1>6, <1>b, Zenon
<1>8. /\ Len(Levels(all)) = Len(Levels(z)) + 1 /\ Levels(all)[1] = <<d>>
      /\ \A i \in 1 .. Len(Levels(z)) : Levels(all)[i + 1] = Levels(z)[i]
  BY <1>5, <1>7, <1>b, ZenonT(30)
<1>9. ThreeWords(d, e, w) \o x = all
  <2>1. \A t \in Seq(STRING) :
          ThreeWords(d, e, w) \o t = Under(<<d>>, Under(<<e>>, Under(<<w>>, t)))
    BY <1>a, ThreeLevels, ZenonT(30)
  <2>2. ThreeWords(d, e, w) \o x = Under(<<d>>, Under(<<e>>, Under(<<w>>, x)))
    BY <1>3, <2>1
  <2> QED BY <1>5, <2>2, Zenon
<1> DEFINE n == Len(Levels(u))
<1>10. n \in Nat \ {0} /\ Levels(u)[1] = b /\ (u = b => n = 1)
  BY <1>2
<1>11. Len(Levels(x)) = n + 1 /\ Len(Levels(y)) = n + 2 /\ Len(Levels(z)) = n + 3
       /\ Len(Levels(all)) = n + 4
  BY <1>4, <1>6, <1>7, <1>8, <1>10
<1> HIDE DEF n
<1>12. Levels(x)[2] = b
  <2>1. 1 \in 1 .. Len(Levels(u)) /\ 1 + 1 = 2
    BY <1>2
  <2> QED BY <1>2, <1>4, <2>1
<1>13. Levels(y)[2] = a /\ Levels(y)[3] = b
  <2>1. 1 \in 1 .. Len(Levels(x)) /\ 2 \in 1 .. Len(Levels(x)) /\ 1 + 1 = 2 /\ 2 + 1 = 3
    BY <1>10, <1>11
  <2> QED BY <1>4, <1>6, <1>12, <2>1
<1>14. Levels(z)[2] = <<w>> /\ Levels(z)[3] = a /\ Levels(z)[4] = b
  <2>1. /\ 1 \in 1 .. Len(Levels(y)) /\ 2 \in 1 .. Len(Levels(y)) /\ 3 \in 1 .. Len(Levels(y))
        /\ 1 + 1 = 2 /\ 2 + 1 = 3 /\ 3 + 1 = 4
    BY <1>10, <1>11
  <2> QED BY <1>6, <1>7, <1>13, <2>1
<1>15. Levels(all)[2] = <<e>> /\ Levels(all)[3] = <<w>> /\ Levels(all)[4] = a /\ Levels(all)[5] = b
  <2>1. /\ 1 \in 1 .. Len(Levels(z)) /\ 2 \in 1 .. Len(Levels(z)) /\ 3 \in 1 .. Len(Levels(z))
        /\ 4 \in 1 .. Len(Levels(z)) /\ 1 + 1 = 2 /\ 2 + 1 = 3 /\ 3 + 1 = 4 /\ 4 + 1 = 5
    BY <1>10, <1>11
  <2> QED BY <1>7, <1>8, <1>14, <2>1
<1>16. x = Under(a, b) => Len(Levels(all)) = 5
  BY <1>1, <1>10, <1>11
<1> QED BY <1>8, <1>9, <1>15, <1>16, Zenon

-----------------------------------------------------------------------------
(* A topic names the frame.                                                  *)

\* The commands of a cluster, and those of all of them.
CommandsIn(c, is_global) ==
  IF is_global THEN Globals(file) ELSE UNION {CommandsOf(c, d) : d \in Directions}

\* The names of two commands of a file are not the same: they are looked up in one list, or
\* they are in lists without a common name.
LEMMA NamesDiffer ==
  ASSUME file \in Files, ParseFromPTree(file) # Refused, DistinctNames,
         NEW c \in Clusters(file), NEW k, NEW l, Documented(k.data) = Documented(l.data),
         NEW g \in BOOLEAN, k \in CommandsIn(c, g), NEW f \in BOOLEAN, l \in CommandsIn(c, f)
  PROVE  k = l /\ g = f
<1> DEFINE db1 == ParseFromPTree(file)
<1>1. /\ Holds(db1.global_commands, Records(TRUE, Globals(file)))
      /\ Holds(db1.clusters, [x \in Clusters(file) |-> ParseClusterInfo(x)])
  BY FileHolds
<1>2. \A d \in Directions : Holds(ParseClusterInfo(c).commands[d], Records(FALSE, CommandsOf(c, d)))
  <2>1. ParseClusterInfo(c) # Refused
    BY <1>1 DEF Holds
  <2> QED BY <2>1, ClusterHolds
<1>3. Names(CommandsOf(c, "clientToServer")) \cap Names(CommandsOf(c, "serverToClient")) = {}
      /\ \A d \in Directions : Names(CommandsOf(c, d)) \cap Names(Globals(file)) = {}
  BY DEF DistinctNames, Directions
<1>4. ASSUME NEW s, NEW list, NEW h, Holds(list, Records(h, s)), k \in s, l \in s
      PROVE  k = l
  <2>1. /\ DOMAIN Records(h, s) = s
        /\ \A x \in s : Records(h, s)[x] = ParseCommand(h, x)
    BY DEF Records
  <2>2. ParseCommand(h, k) # Refused /\ ParseCommand(h, l) # Refused
    BY <1>4, <2>1 DEF Holds
  <2>3. /\ ParseCommand(h, k).name = MakeNameSafeForMqtt(k.data)
        /\ ParseCommand(h, l).name = MakeNameSafeForMqtt(l.data)
    BY <2>2, CommandRecord
  <2>4. ParseCommand(h, k).name = ParseCommand(h, l).name
    BY <2>3 DEF Documented, MakeNameSafeForMqtt
  <2> QED BY <1>4, <2>1, <2>4 DEF Holds
<1>5. CASE g /\ f
  <2>1. k = l
    BY <1>1, <1>4, <1>5 DEF CommandsIn
  <2> QED BY <1>5, <2>1
<1>6. CASE ~g /\ ~f
  <2>1. PICK d \in Directions : k \in CommandsOf(c, d)
    BY <1>6 DEF CommandsIn
  <2>2. PICK e \in Directions : l \in CommandsOf(c, e)
    BY <1>6 DEF CommandsIn
  <2>3. Documented(k.data) \in Names(CommandsOf(c, d)) \cap Names(CommandsOf(c, e))
    BY <2>1, <2>2 DEF Names
  <2>4. d = e
    BY <1>3, <2>3 DEF Directions
  <2>5. k = l
    BY <1>2, <1>4, <2>1, <2>2, <2>4
  <2> QED BY <1>6, <2>5
<1>7. CASE g # f
  <2>1. PICK d \in Directions : \/ k \in Globals(file) /\ l \in CommandsOf(c, d)
                                \/ l \in Globals(file) /\ k \in CommandsOf(c, d)
    BY <1>7 DEF CommandsIn
  <2>2. Documented(k.data) \in Names(CommandsOf(c, d)) \cap Names(Globals(file))
    BY <2>1 DEF Names
  <2> QED BY <1>3, <2>2
<1> QED BY <1>5, <1>6, <1>7

\* Two clusters of a file have different names.
LEMMA ClusterNamesDiffer ==
  ASSUME file \in Files, ParseFromPTree(file) # Refused,
         NEW c \in Clusters(file), NEW e \in Clusters(file),
         Documented(c.data) = Documented(e.data)
  PROVE  c = e
<1> DEFINE of == [x \in Clusters(file) |-> ParseClusterInfo(x)]
<1>1. Holds(ParseFromPTree(file).clusters, of)
  BY FileHolds
<1>2. \A x \in Clusters(file) : of[x] # Refused /\ of[x] = ParseClusterInfo(x)
  BY <1>1 DEF Holds
<1>3. \A x \in Clusters(file) : ParseClusterInfo(x).name = MakeNameSafeForMqtt(x.data)
  BY <1>2, ClusterHolds
<1>4. ParseClusterInfo(c).name = ParseClusterInfo(e).name
  BY <1>3 DEF Documented, MakeNameSafeForMqtt
<1>5. of[c].name = of[e].name /\ DOMAIN of = Clusters(file)
  BY <1>2, <1>4
<1> HIDE DEF of
<1> QED BY <1>1, <1>5 DEF Holds

\* The two names of a command are read in one way.
LEMMA OneReading ==
  ASSUME file \in Files, ParseFromPTree(file) # Refused, DistinctNames,
         NEW c \in Clusters(file), NEW g \in BOOLEAN, NEW k \in CommandsIn(c, g)
  PROVE  Readings(Documented(c.data), Documented(k.data)) = {<<Id(c.key), Id(k.key), g>>}
<1> DEFINE a == Documented(c.data)
           b == Documented(k.data)
           both(x) == Globals(file) \cup CommandsOf(x, "serverToClient") \cup CommandsOf(x, "clientToServer")
           of(x) == {<<Id(x.key), Id(l.key), l \in Globals(file)>> :
                       l \in {y \in both(x) : Documented(y.data) = b}}
           same == {x \in Clusters(file) : Documented(x.data) = a}
<1>1. Readings(a, b) = UNION {of(x) : x \in same}
  BY DEF Readings
<1>2. same = {c}
  BY ClusterNamesDiffer
<1>3. \A l : l \in both(c) <=> \E f \in BOOLEAN : l \in CommandsIn(c, f)
  BY DEF CommandsIn, Directions
<1>4. {y \in both(c) : Documented(y.data) = b} = {k}
  <2>1. k \in both(c)
    BY <1>3
  <2>2. ASSUME NEW l \in both(c), Documented(l.data) = b
        PROVE  l = k
    <3>1. PICK f \in BOOLEAN : l \in CommandsIn(c, f)
      BY <1>3
    <3> QED BY <2>2, <3>1, NamesDiffer
  <2> HIDE DEF both
  <2> QED BY <2>1, <2>2
<1>5. g = (k \in Globals(file))
  <2>1. g => k \in Globals(file)
    BY DEF CommandsIn
  <2>2. ASSUME k \in Globals(file)
        PROVE  g
    <3>1. k \in CommandsIn(c, TRUE)
      BY <2>2 DEF CommandsIn
    <3>2. g = TRUE
      BY <3>1, NamesDiffer
    <3> QED BY <3>2
  <2> QED BY <2>1, <2>2
<1>6. of(c) = {<<Id(c.key), Id(k.key), k \in Globals(file)>>}
  <2> HIDE DEF both
  <2> QED BY <1>4
<1>7. of(c) = {<<Id(c.key), Id(k.key), g>>}
  BY <1>5, <1>6
<1> HIDE DEF of, same
<1>8. UNION {of(x) : x \in same} = of(c)
  BY <1>2
<1> QED BY <1>1, <1>7, <1>8

LEMMA AtOrUnderBehind ==
  ASSUME NEW s \in Seq(STRING), NEW t \in Seq(STRING), NEW u \in AtOrUnder(s \o t)
  PROVE  \E x \in AtOrUnder(t) : u = s \o x
<1>0. "/" \in STRING
  BY WordAssumption
<1>1. CASE u = s \o t
  BY <1>1 DEF AtOrUnder
<1>2. CASE u # s \o t
  <2>1. PICK v \in Seq(STRING) : u = Under(s \o t, v)
    BY <1>2 DEF AtOrUnder
  <2> DEFINE m == <<"/">>
             st == s \o t
             mv == m \o v
  <2>2. m \in Seq(STRING)
    BY <1>0
  <2>3. st \in Seq(STRING)
    BY ConcatProperties
  <2>4. Under(st, v) = st \o mv /\ Under(t, v) = t \o mv
    BY <1>0, <2>3, UnderType
  <2> HIDE DEF m
  <2>5. mv \in Seq(STRING)
    BY <2>2, ConcatProperties
  <2>6. st \o mv = s \o (t \o mv)
    <3> HIDE DEF mv
    <3>1. \A x, y, z \in Seq(STRING) : (x \o y) \o z = x \o (y \o z)
      BY ConcatAssociative, SMTT(30)
    <3> QED BY <2>5, <3>1, SMTT(30)
  <2>7. Under(t, v) \in AtOrUnder(t)
    BY DEF AtOrUnder
  <2> HIDE DEF st, mv
  <2>8. u = s \o Under(t, v)
    BY <2>1, <2>4, <2>6 DEF st
  <2> QED BY <2>7, <2>8
<1> QED BY <1>1, <1>2

\* What is published under something under a topic is published under the topic.
LEMMA PublishedUnder ==
  ASSUME NEW topic \in Seq(STRING), NEW name \in Seq(STRING)
  PROVE  /\ Under(topic, name) \in Seq(STRING)
         /\ Seq(Published(Under(topic, name))) \subseteq Seq(Published(topic))
<1>0. "/" \in STRING
  BY WordAssumption
<1>1. Under(topic, name) \in Seq(STRING)
  BY <1>0, UnderType
<1>2. ASSUME NEW t \in AtOrUnder(Under(topic, name))
      PROVE  t \in AtOrUnder(topic)
  <2>1. CASE t = Under(topic, name)
    BY <2>1 DEF AtOrUnder
  <2>2. CASE t # Under(topic, name)
    <3>1. PICK u \in Seq(STRING) : t = Under(Under(topic, name), u)
      BY <2>2 DEF AtOrUnder
    <3>2. t = Under(topic, Under(name, u)) /\ Under(name, u) \in Seq(STRING)
      BY <1>0, <3>1, UnderAssociative, UnderType
    <3> QED BY <3>2 DEF AtOrUnder
  <2> QED BY <2>1, <2>2
<1>3. Published(Under(topic, name)) \subseteq Published(topic)
  BY <1>2 DEF Published
<1> DEFINE P == Published(Under(topic, name))
           Q == Published(topic)
<1>4. P \subseteq Q
  BY <1>3
<1> HIDE DEF P, Q
<1>5. Seq(P) \subseteq Seq(Q)
  <2> SUFFICES ASSUME NEW s \in Seq(P)
               PROVE  s \in Seq(Q)
    OBVIOUS
  <2>1. Len(s) \in Nat /\ \A i \in 1 .. Len(s) : s[i] \in Q
    BY <1>4, ElementOfSeq, LenProperties
  <2> QED BY <2>1, IsASeq, LenProperties
<1> QED BY <1>1, <1>5 DEF P, Q

LEMMA MemberType ==
  ASSUME NEW value \in Values, NEW name
  PROVE  Property(value, name) \in Values /\ AsArray(value) \in Seq(Values)
<1>1. Property(value, name) \in Values
  <2>1. CASE "obj" \in DOMAIN value /\ \E i \in DOMAIN value.obj : value.obj[i][1] = name
    <3>1. Property(value, name) = Member(value.obj, name)
      BY <2>1 DEF Property
    <3>2. PICK i \in DOMAIN value.obj : Member(value.obj, name) = value.obj[i][2]
      BY <2>1 DEF Member
    <3>3. value.obj \in Seq(Seq(STRING) \X Values)
      BY <2>1, ValueAssumption
    <3> DEFINE o == value.obj
    <3> HIDE DEF o
    <3>4. o \in Seq(Seq(STRING) \X Values) /\ i \in DOMAIN o
      BY <3>3 DEF o
    <3>5. o[i] \in Seq(STRING) \X Values
      BY <3>4, ElementOfSeq, LenProperties
    <3>6. o[i][2] \in Values
      BY <3>5
    <3> QED BY <3>1, <3>2, <3>6 DEF o
  <2>2. CASE ~("obj" \in DOMAIN value /\ \E i \in DOMAIN value.obj : value.obj[i][1] = name)
    BY <2>2, ValueAssumption DEF Property
  <2> QED BY <2>1, <2>2
<1>2. AsArray(value) \in Seq(Values)
  <2>1. CASE "arr" \in DOMAIN value
    BY <2>1, ValueAssumption DEF AsArray
  <2>2. CASE "arr" \notin DOMAIN value
    BY <2>2, EmptySeq DEF AsArray
  <2> QED BY <2>1, <2>2
<1> QED BY <1>1, <1>2

LEMMA SubtopicType ==
  ASSUME NEW id \in Values
  PROVE  Subtopic(id) \in Seq(STRING)
<1>1. CASE "leaf" \in DOMAIN id
  BY <1>1, ValueAssumption DEF Subtopic
<1>2. CASE "leaf" \notin DOMAIN id /\ "num" \in DOMAIN id
  <2>1. Hex4[id.num] \in STRING
    BY <1>2, ValueAssumption, NumeralAssumption
  <2>2. <<Hex4[id.num]>> \in Seq(STRING)
    BY <2>1
  <2>3. Subtopic(id) = <<Hex4[id.num]>>
    BY <1>2 DEF Subtopic
  <2> QED BY <2>2, <2>3
<1>3. CASE "leaf" \notin DOMAIN id /\ "num" \notin DOMAIN id
  <2>1. "null" \in STRING
    BY WordAssumption
  <2>2. <<"null">> \in Seq(STRING)
    BY <2>1
  <2>3. Subtopic(id) = <<"null">>
    BY <1>3 DEF Subtopic
  <2> QED BY <2>2, <2>3
<1> QED BY <1>1, <1>2, <1>3

\* All messages of a command are at its topic or under it.
LEMMA CommandMessagesType ==
  ASSUME NEW h, NEW dev, NEW ep, NEW cluster, NEW command, NEW value \in Values,
         CommandTopic(h, dev, ep, cluster, command) \in Seq(STRING)
  PROVE  CommandMessages(h, dev, ep, cluster, command, value)
           \in Seq(Published(CommandTopic(h, dev, ep, cluster, command)))
<1> DEFINE topic   == CommandTopic(h, dev, ep, cluster, command)
           list    == command.data.properties[1]
           fields  == list.type.element_type.properties
           reports == IF PerAttribute(command.data) THEN AsArray(Property(value, list.name)) ELSE <<>>
           part(i) == PublishValue(Under(topic, Subtopic(Property(reports[i], fields[1].name))),
                                   Property(reports[i], fields[2].name))
           parts   == [i \in DOMAIN reports |-> part(i)]
           T       == Published(topic)
<1>1. reports \in Seq(Values)
  <2> HIDE DEF list
  <2>1. AsArray(Property(value, list.name)) \in Seq(Values)
    BY MemberType
  <2> QED BY <2>1, EmptySeq
<1>2. CommandMessages(h, dev, ep, cluster, command, value) = PublishValue(topic, value) \o FlattenSeq(parts)
  BY DEF CommandMessages
<1>3. topic \in Seq(STRING)
  OBVIOUS
<1> HIDE DEF topic, list, fields, reports
<1>4. DOMAIN reports = 1 .. Len(reports) /\ Len(reports) \in Nat
  BY <1>1, LenProperties
<1>5. ASSUME NEW i \in 1 .. Len(reports)
      PROVE  part(i) \in Seq(T)
  <2> DEFINE id == Property(reports[i], fields[1].name)
             v == Property(reports[i], fields[2].name)
  <2>1. reports[i] \in Values
    BY <1>1, ElementOfSeq
  <2>2. id \in Values /\ v \in Values
    BY <2>1, MemberType
  <2> HIDE DEF id, v
  <2>3. Subtopic(id) \in Seq(STRING)
    BY <2>2, SubtopicType
  <2>4. /\ Under(topic, Subtopic(id)) \in Seq(STRING)
        /\ Seq(Published(Under(topic, Subtopic(id)))) \subseteq Seq(T)
    BY <1>3, <2>3, PublishedUnder
  <2>5. PublishValue(Under(topic, Subtopic(id)), v) \in Seq(Published(Under(topic, Subtopic(id))))
    BY <2>2, <2>4, PublishValueType
  <2>6. part(i) = PublishValue(Under(topic, Subtopic(id)), v)
    BY DEF id, v
  <2> QED BY <2>4, <2>5, <2>6
<1> HIDE DEF T
<1>6. parts \in [1 .. Len(reports) -> Seq(T)]
  BY <1>4, <1>5
<1> HIDE DEF parts
<1>7. parts \in Seq(Seq(T))
  BY <1>4, <1>6, FunctionList
<1>8. FlattenSeq(parts) \in Seq(T)
  BY <1>7, FlattenRange
<1>9. PublishValue(topic, value) \in Seq(T)
  BY <1>3, PublishValueType DEF T
<1>10. PublishValue(topic, value) \o FlattenSeq(parts) \in Seq(T)
  BY <1>8, <1>9, ConcatProperties
<1> QED BY <1>2, <1>10 DEF T, topic

\* The messages of a frame: the quality of the link, and those of a command of the file
\* with the ids of the frame.
TopicOf(f, c, k) ==
  Prefix[f.hub] \o ThreeWords(Hex16[f.device], Decimal[f.endpoint], "in")
                \o Under(Documented(c.data), Documented(k.data))
Quality(f) == Message(Prefix[f.hub] \o <<Hex16[f.device], "/", "linkquality">>, Text(<<"1">>))
Signed(f) ==
  {Quality(f)} \cup
  UNION {UNION {Published(TopicOf(f, c, k)) :
                  k \in {l \in CommandsIn(c, f.is_global) : Id(l.key) = f.command}} :
         c \in {x \in Clusters(file) : Id(x.key) = f.cluster}}

\* A frame is of a hub and of a device of its network, and what is on its way is of the frame.
FrameInv ==
  /\ file \in Files
  /\ db \in {NotLoaded, ParseFromPTree(file)}
  /\ frame # Nothing =>
       /\ db = ParseFromPTree(file) /\ db # Refused
       /\ frame.hub \in Hubs /\ frame.device \in Joined[frame.hub]
       /\ frame.endpoint \in Endpoints /\ frame.is_global \in BOOLEAN
       /\ wire \in Seq(Signed(frame))

\* The texts of a frame's topic.
LEMMA FrameTexts ==
  ASSUME NEW h \in Hubs, NEW dev \in Joined[h], NEW ep \in Endpoints
  PROVE  /\ Prefix[h] \in Seq(STRING)
         /\ Hex16[dev] \in STRING \ {"/"} /\ Hex16[dev] \in DOMAIN AsHex /\ AsHex[Hex16[dev]] = dev
         /\ Decimal[ep] \in STRING \ {"/"} /\ AsDecimal[Decimal[ep]] = ep
         /\ Decimal[ep] \in DOMAIN AsDecimal
         /\ {"in", "out", "linkquality"} \subseteq STRING \ {"/"}
<1>1. dev \in Devices
  BY DEF Devices
<1>2. Hex16[dev] \in DOMAIN AsHex /\ AsHex[Hex16[dev]] = dev
  BY <1>1, NumeralAssumption
<1>3. Decimal[ep] \in DOMAIN AsDecimal /\ AsDecimal[Decimal[ep]] = ep
  BY NumeralAssumption
<1>4. DOMAIN AsHex \cup DOMAIN AsDecimal \subseteq STRING \ {"/"}
  BY NumeralAssumption
<1>5. {"in", "out", "linkquality"} \subseteq STRING \ {"/"}
  BY WordAssumption
<1> QED BY <1>2, <1>3, <1>4, <1>5, TextAssumption

\* A command of a list is found by its name, and what is found by an id is the command of an entry.
LEMMA CommandFound ==
  ASSUME NEW list, NEW g, NEW s, Holds(list, Records(g, s))
  PROVE  /\ \A id : FindById(list, id) # Nothing =>
              \E k \in s : /\ FindById(list, id) = ParseCommand(g, k)
                           /\ ParseCommand(g, k) # Refused /\ ParseCommand(g, k).id = id
         /\ \A k \in s : /\ FindByName(list, Documented(k.data)) = ParseCommand(g, k)
                         /\ ParseCommand(g, k) # Refused /\ ParseCommand(g, k) # Nothing
         /\ \A name : name \notin Names(s) => FindByName(list, name) = Nothing
<1> DEFINE r == Records(g, s)
<1>1. DOMAIN r = s /\ \A k \in s : r[k] = ParseCommand(g, k)
  BY DEF Records
<1> HIDE DEF r
<1>2. \A k \in s : r[k] # Refused
  BY <1>1 DEF Holds, r
<1>3. \A k \in s : r[k].name = Documented(k.data) /\ r[k] # Nothing
  BY <1>1, <1>2, CommandRecord, SMTT(30) DEF Documented, MakeNameSafeForMqtt
<1>4. /\ \A k \in s : FindByName(list, r[k].name) = r[k]
      /\ \A id : FindById(list, id) # Nothing => \E k \in s : r[k].id = id /\ FindById(list, id) = r[k]
      /\ \A name : FindByName(list, name) # Nothing => \E k \in s : r[k].name = name
  BY <1>1, Found DEF r
<1>5. \A name : name \notin Names(s) => FindByName(list, name) = Nothing
  BY <1>3, <1>4 DEF Names
<1> QED BY <1>1, <1>2, <1>3, <1>4, <1>5

\* The names of a cluster and of a command are texts.
LEMMA CommandTexts ==
  ASSUME file \in Files, NEW c \in Clusters(file), NEW g, NEW k \in CommandsIn(c, g)
  PROVE  c.data \in Seq(STRING) /\ k.data \in Seq(STRING)
<1>1. c.data \in Seq(STRING)
  BY FileTrees DEF Clusters
<1>2. PICK e \in Range(file) : k \in Range(e.sub) \/ \E p \in Range(e.sub) : k \in Range(p.sub)
  BY DEF CommandsIn, Globals, Clusters, CommandsOf
<1>3. k.data \in Seq(STRING)
  BY <1>2, FileAssumption DEF IsTree
<1> QED BY <1>1, <1>3

\* What is known of a command that was looked up by the ids of a frame.
LEMMA LookedUp ==
  ASSUME file \in Files, ParseFromPTree(file) # Refused, db = ParseFromPTree(file),
         NEW cluster_id, NEW command_id, NEW is_global \in BOOLEAN, NEW direction \in Directions,
         NEW cluster, cluster = ClusterById(db, cluster_id), cluster # Nothing,
         NEW command, command = CommandById(db, cluster_id, command_id, is_global, direction),
         command # Nothing
  PROVE  \E c \in Clusters(file) : \E k \in CommandsIn(c, is_global) :
           /\ Id(c.key) = cluster_id /\ cluster.name = Documented(c.data)
           /\ Id(k.key) = command_id /\ command.name = Documented(k.data)
           /\ c.data \in Seq(STRING) /\ k.data \in Seq(STRING)
<1> DEFINE of == [x \in Clusters(file) |-> ParseClusterInfo(x)]
<1>1. /\ Holds(db.global_commands, Records(TRUE, Globals(file)))
      /\ Holds(db.clusters, of)
  BY FileHolds
<1>2. PICK c \in Clusters(file) : of[c].id = cluster_id /\ cluster = of[c]
  <2>1. DOMAIN of = Clusters(file)
    OBVIOUS
  <2> HIDE DEF of
  <2> QED BY <1>1, <2>1, Found DEF ClusterById
<1>3. cluster = ParseClusterInfo(c) /\ cluster.id = cluster_id /\ ParseClusterInfo(c) # Refused
  BY <1>1, <1>2 DEF Holds
<1>4. /\ cluster.id = Id(c.key) /\ cluster.name = MakeNameSafeForMqtt(c.data)
      /\ \A d \in Directions : Holds(cluster.commands[d], Records(FALSE, CommandsOf(c, d)))
  BY <1>3, ClusterHolds
<1> HIDE DEF of
<1>5. PICK g, s : /\ command = ParseCommand(g, s) /\ command # Refused
                  /\ s \in CommandsIn(c, is_global) /\ command.id = command_id
  <2>1. CASE is_global
    <3>1. command = FindById(db.global_commands, command_id)
      BY <2>1 DEF CommandById
    <3>2. PICK h : h = TRUE
      OBVIOUS
    <3>3. Holds(db.global_commands, Records(h, Globals(file)))
      BY <1>1, <3>2
    <3>4. PICK k \in Globals(file) :
            /\ command = ParseCommand(h, k)
            /\ ParseCommand(h, k) # Refused /\ ParseCommand(h, k).id = command_id
      BY <3>1, <3>3, CommandFound
    <3> QED BY <2>1, <3>4 DEF CommandsIn
  <2>2. CASE ~is_global
    <3>1. command = FindById(cluster.commands[direction], command_id)
      BY <2>2 DEF CommandById
    <3>2. PICK h : h = FALSE
      OBVIOUS
    <3>3. Holds(cluster.commands[direction], Records(h, CommandsOf(c, direction)))
      BY <1>4, <3>2
    <3>4. PICK k \in CommandsOf(c, direction) :
            /\ command = ParseCommand(h, k)
            /\ ParseCommand(h, k) # Refused /\ ParseCommand(h, k).id = command_id
      BY <3>1, <3>3, CommandFound
    <3> QED BY <2>2, <3>4 DEF CommandsIn
  <2> QED BY <2>1, <2>2
<1>6. command.id = Id(s.key) /\ command.name = MakeNameSafeForMqtt(s.data)
  BY <1>5, CommandRecord
<1>7. c.data \in Seq(STRING) /\ s.data \in Seq(STRING)
  BY <1>5, CommandTexts
<1> QED BY <1>3, <1>4, <1>5, <1>6, <1>7 DEF Documented, MakeNameSafeForMqtt

\* What a hub sends for a frame is of the frame.
LEMMA DeviceSendsSigned ==
  ASSUME FrameInv, NEW h \in Hubs, DeviceSends(h)
  PROVE  FrameInv'
<1>1. PICK dev \in Joined[h], ep \in Endpoints, cluster_id \in Range(AsAny), command_id \in Range(AsAny),
           is_global \in BOOLEAN, direction \in {"serverToClient", "clientToServer"} :
        LET cluster == ClusterById(db, cluster_id)
            command == CommandById(db, cluster_id, command_id, is_global, direction)
        IN /\ \/ /\ cluster # Nothing /\ command # Nothing
                 /\ \E value \in Decoded(cluster, command.data) \cap Values :
                      wire' = LinkQuality(h, dev)
                              \o CommandMessages(h, dev, ep, cluster, command, value)
              \/ wire' = LinkQuality(h, dev)
           /\ frame' = [hub |-> h, device |-> dev, endpoint |-> ep, cluster |-> cluster_id,
                        command |-> command_id, is_global |-> is_global]
  BY DEF DeviceSends
<1>2. /\ db = ParseFromPTree(file) /\ db # Refused /\ file \in Files
      /\ file' = file /\ db' = db
  BY DEF DeviceSends, Running, FrameInv
<1> DEFINE cluster == ClusterById(db, cluster_id)
           command == CommandById(db, cluster_id, command_id, is_global, direction)
           f == [hub |-> h, device |-> dev, endpoint |-> ep, cluster |-> cluster_id,
                 command |-> command_id, is_global |-> is_global]
           S == Signed(f)
<1>3. f.hub = h /\ f.device = dev /\ f.endpoint = ep /\ f.is_global = is_global
      /\ f.cluster = cluster_id /\ f.command = command_id
  OBVIOUS
<1> HIDE DEF f
<1>4. LinkQuality(h, dev) \in Seq(S)
  <2>1. LinkQuality(h, dev) = <<Quality(f)>>
    BY <1>3 DEF LinkQuality, Quality
  <2>2. Quality(f) \in S
    BY DEF Signed
  <2> HIDE DEF S
  <2> QED BY <2>1, <2>2
<1>5. ASSUME cluster # Nothing, command # Nothing, NEW value \in Values
      PROVE  CommandMessages(h, dev, ep, cluster, command, value) \in Seq(S)
  <2>1. direction \in Directions
    BY DEF Directions
  <2>2. PICK c \in Clusters(file) : \E k \in CommandsIn(c, is_global) :
           /\ Id(c.key) = cluster_id /\ cluster.name = Documented(c.data)
           /\ Id(k.key) = command_id /\ command.name = Documented(k.data)
           /\ c.data \in Seq(STRING) /\ k.data \in Seq(STRING)
    BY <1>2, <1>5, <2>1, LookedUp
  <2>a. PICK k \in CommandsIn(c, is_global) :
           /\ Id(c.key) = cluster_id /\ cluster.name = Documented(c.data)
           /\ Id(k.key) = command_id /\ command.name = Documented(k.data)
           /\ c.data \in Seq(STRING) /\ k.data \in Seq(STRING)
    BY <2>2
  <2>3. CommandTopic(h, dev, ep, cluster, command) = TopicOf(f, c, k)
    BY <1>3, <2>a DEF CommandTopic, TopicOf, ThreeWords
  <2>4. TopicOf(f, c, k) \in Seq(STRING)
    <3>1. Documented(c.data) \in Seq(STRING) /\ Documented(k.data) \in Seq(STRING)
      BY <2>a, SafeName
    <3> DEFINE w == ThreeWords(Hex16[dev], Decimal[ep], "in")
               u == Under(Documented(c.data), Documented(k.data))
               p == Prefix[h]
    <3>2. w \in Seq(STRING)
      BY FrameTexts, ThreeLevels
    <3>3. u \in Seq(STRING)
      BY <3>1, WordAssumption, UnderType
    <3>4. p \in Seq(STRING)
      BY TextAssumption
    <3>5. TopicOf(f, c, k) = p \o w \o u
      BY <1>3 DEF TopicOf
    <3> HIDE DEF w, u, p
    <3> QED BY <3>2, <3>3, <3>4, <3>5, ConcatProperties
  <2>5. CommandMessages(h, dev, ep, cluster, command, value) \in Seq(Published(TopicOf(f, c, k)))
    <3> HIDE DEF cluster, command
    <3> QED BY <2>3, <2>4, CommandMessagesType
  <2>6. Published(TopicOf(f, c, k)) \subseteq S
    BY <1>3, <2>a DEF Signed
  <2> DEFINE P == Published(TopicOf(f, c, k))
             m == CommandMessages(h, dev, ep, cluster, command, value)
  <2> HIDE DEF P, S, m
  <2>7. m \in Seq(P) /\ P \subseteq S
    BY <2>5, <2>6 DEF P, m
  <2>8. Len(m) \in Nat /\ \A i \in 1 .. Len(m) : m[i] \in S
    BY <2>7, ElementOfSeq, LenProperties
  <2> QED BY <2>7, <2>8, IsASeq, LenProperties DEF m
<1>6. wire' \in Seq(S)
  <2>1. CASE wire' = LinkQuality(h, dev)
    BY <1>4, <2>1
  <2>2. CASE /\ cluster # Nothing /\ command # Nothing
             /\ \E value \in Decoded(cluster, command.data) \cap Values :
                  wire' = LinkQuality(h, dev)
                          \o CommandMessages(h, dev, ep, cluster, command, value)
    <3>1. PICK value \in Values :
            wire' = LinkQuality(h, dev) \o CommandMessages(h, dev, ep, cluster, command, value)
      BY <2>2
    <3>2. CommandMessages(h, dev, ep, cluster, command, value) \in Seq(S)
      BY <1>5, <2>2
    <3> DEFINE m == CommandMessages(h, dev, ep, cluster, command, value)
    <3> HIDE DEF S, m
    <3>3. LinkQuality(h, dev) \o m \in Seq(S)
      BY <1>4, <3>2, ConcatProperties DEF m
    <3> QED BY <3>1, <3>3 DEF m
  <2> QED BY <1>1, <2>1, <2>2
<1>7. frame' = f
  BY <1>1 DEF f
<1>8. Signed(frame)' = S
  BY <1>2, <1>7 DEF Signed, Quality, TopicOf, CommandsIn
<1> HIDE DEF S
<1> QED BY <1>2, <1>3, <1>6, <1>7, <1>8 DEF FrameInv

\* No step but the sending of a frame puts messages on the way while one is.
LEMMA FrameInvariant == Spec => []FrameInv
<1>1. Init => FrameInv
  BY DEF Init, FrameInv
<1>2. ASSUME FrameInv, [Next]_vars
      PROVE  FrameInv'
  <2> SUFFICES ASSUME FrameInv, [Next]_vars
               PROVE  FrameInv'
    BY <1>2
  <2> DEFINE kept == frame' = frame /\ file' = file
  <2>1. kept => Signed(frame)' = Signed(frame)
    BY DEF Signed, Quality, TopicOf, CommandsIn
  <2>2. CASE LoadClusters
    BY <2>1, <2>2 DEF LoadClusters, FrameInv
  <2>3. CASE Deliver
    <3>1. kept /\ db' = db /\ wire # <<>> /\ wire' = Tail(wire)
      BY <2>3 DEF Deliver
    <3> DEFINE S == Signed(frame)
    <3>2. Signed(frame)' = S
      BY <2>1, <3>1
    <3> HIDE DEF S
    <3>3. wire \in Seq(S) => wire' \in Seq(S)
      BY <3>1, HeadTail
    <3> QED BY <3>1, <3>2, <3>3 DEF FrameInv, S
  <2>4. CASE UserCommand
    BY <2>4 DEF UserCommand, Running, FrameInv
  <2>5. CASE UserControl
    BY <2>5 DEF UserControl, Running, FrameInv
  <2>6. ASSUME NEW h \in Hubs, DeviceSends(h)
        PROVE  FrameInv'
    BY <2>6, DeviceSendsSigned
  <2>7. ASSUME NEW h \in Hubs, OnPermitJoin(h)
        PROVE  FrameInv'
    BY <2>7 DEF OnPermitJoin, Running, FrameInv
  <2>8. ASSUME NEW h \in Hubs, OnJoin(h)
        PROVE  FrameInv'
    BY <2>8 DEF OnJoin, Running, FrameInv
  <2>9. CASE UNCHANGED vars
    BY <2>1, <2>9 DEF vars, FrameInv
  <2> QED BY <2>2, <2>3, <2>4, <2>5, <2>6, <2>7, <2>8, <2>9 DEF Next
<1> QED BY <1>1, <1>2, PTL DEF Spec

\* The levels of a message of a frame.
LEMMA SignedLevels ==
  ASSUME FrameInv, frame # Nothing, DistinctNames, NEW m \in Signed(frame)
  PROVE  LET levels == Levels(Rest(m.topic, Prefix[frame.hub]))
         IN levels[2] # <<"linkquality">> =>
              /\ AsHex[levels[1][1]] = frame.device
              /\ AsDecimal[levels[2][1]] = frame.endpoint
              /\ Readings(levels[4], levels[5])
                   = {<<frame.cluster, frame.command, frame.is_global>>}
<1> DEFINE f == frame
           h == f.hub
           dev == f.device
           ep == f.endpoint
           levels == Levels(Rest(m.topic, Prefix[h]))
<1>1. /\ file \in Files /\ ParseFromPTree(file) # Refused
      /\ h \in Hubs /\ dev \in Joined[h] /\ ep \in Endpoints /\ f.is_global \in BOOLEAN
  BY DEF FrameInv
<1>2. /\ Prefix[h] \in Seq(STRING)
      /\ Hex16[dev] \in STRING \ {"/"} /\ AsHex[Hex16[dev]] = dev
      /\ Decimal[ep] \in STRING \ {"/"} /\ AsDecimal[Decimal[ep]] = ep
      /\ {"in", "out", "linkquality"} \subseteq STRING \ {"/"}
  BY <1>1, FrameTexts
<1> HIDE DEF h, dev, ep
<1>3. CASE m = Quality(f)
  <2> DEFINE t == <<Hex16[dev], "/", "linkquality">>
             w == <<"linkquality">>
             p == Prefix[h]
  <2>1. m.topic = p \o t
    BY <1>3 DEF Quality, Message, h, dev
  <2>2. t \in Seq(STRING) /\ w \in Seq(STRING) /\ "/" \notin Range(w)
    BY <1>2, WordAssumption DEF Range
  <2>3. t = Under(<<Hex16[dev]>>, w)
    <3>1. <<Hex16[dev]>> \o <<"/">> = <<Hex16[dev], "/">>
      BY <1>2, WordAssumption, WordAndSlash
    <3>2. <<Hex16[dev], "/">> \o <<"linkquality">> = t
      BY <1>2, WordAssumption, PairAndWord
    <3> QED BY <3>1, <3>2 DEF Under
  <2> HIDE DEF t, p
  <2>4. Rest(m.topic, p) = t
    BY <1>2, <2>1, <2>2, RestBehind DEF p
  <2>5. Levels(w) = <<w>>
    BY <2>2, LevelsWord
  <2> HIDE DEF w
  <2>6. Len(Levels(w)) = 1 /\ Levels(w)[1] = w
    BY <2>5
  <2>7. \A i \in 1 .. Len(Levels(w)) : Levels(Under(<<Hex16[dev]>>, w))[i + 1] = Levels(w)[i]
    BY <1>2, <2>2, WordInFront
  <2>8. 1 \in 1 .. Len(Levels(w)) /\ 1 + 1 = 2
    BY <2>6
  <2>9. Levels(t)[2] = w
    BY <2>3, <2>6, <2>7, <2>8
  <2> QED BY <2>4, <2>9 DEF w, p, h
<1>4. CASE m # Quality(f)
  <2>1. PICK c \in {x \in Clusters(file) : Id(x.key) = f.cluster} :
          \E k \in {l \in CommandsIn(c, f.is_global) : Id(l.key) = f.command} :
            m \in Published(TopicOf(f, c, k))
    BY <1>4 DEF Signed
  <2>2. PICK k \in CommandsIn(c, f.is_global) :
          Id(k.key) = f.command /\ m \in Published(TopicOf(f, c, k))
    BY <2>1
  <2>3. c \in Clusters(file) /\ Id(c.key) = f.cluster
    BY <2>1
  <2> DEFINE a == Documented(c.data)
             b == Documented(k.data)
             t == ThreeWords(Hex16[dev], Decimal[ep], "in")
             u == Under(a, b)
             tu == t \o u
             p == Prefix[h]
  <2>4. c.data \in Seq(STRING) /\ k.data \in Seq(STRING)
    BY <1>1, <2>2, <2>3, CommandTexts
  <2>5. a \in Seq(STRING) /\ "/" \notin Range(a) /\ b \in Seq(STRING) /\ "/" \notin Range(b)
    BY <2>4, SafeName
  <2>6. p \in Seq(STRING) /\ t \in Seq(STRING) /\ u \in Seq(STRING)
    <3>1. "/" \in STRING
      BY WordAssumption
    <3>2. t \in Seq(STRING)
      BY <1>2, ThreeLevels
    <3>3. u \in Seq(STRING)
      BY <2>5, <3>1, UnderType
    <3> QED BY <1>2, <3>2, <3>3
  <2>7. TopicOf(f, c, k) = p \o t \o u
    BY DEF TopicOf, h, dev, ep
  <2>8. PICK v : v \in AtOrUnder(p \o t \o u) /\ m.topic = v
    BY <2>2, <2>7 DEF Published, Message
  <2> HIDE DEF a, b, t, u, p
  <2>9. PICK x \in AtOrUnder(u) : v = (p \o t) \o x /\ x \in Seq(STRING)
    <3>1. p \o t \in Seq(STRING)
      BY <2>6, ConcatProperties
    <3>2. PICK x \in AtOrUnder(u) : v = (p \o t) \o x
      BY <2>6, <2>8, <3>1, AtOrUnderBehind
    <3>3. x \in Seq(STRING)
      BY <2>6, EmptySeq, UnderUnder
    <3> QED BY <3>2, <3>3
  <2>10. m.topic = p \o (t \o x)
    BY <2>6, <2>8, <2>9, ConcatAssociative
  <2>11. Rest(m.topic, p) = t \o x
    <3>1. t \o x \in Seq(STRING)
      BY <2>6, <2>9, ConcatProperties
    <3> QED BY <2>6, <2>10, <3>1, RestBehind, ZenonT(30)
  <2>12. levels = Levels(t \o x)
    BY <2>11 DEF p
  <2>13. Levels(t \o x)[1] = <<Hex16[dev]>> /\ Levels(t \o x)[2] = <<Decimal[ep]>>
         /\ Levels(t \o x)[4] = a /\ Levels(t \o x)[5] = b
    <3> DEFINE d1 == Hex16[dev]
               e1 == Decimal[ep]
               w1 == "in"
    <3>1. d1 \in STRING /\ e1 \in STRING /\ w1 \in STRING /\ "/" \notin {d1, e1, w1}
      BY <1>2
    <3>2. t = ThreeWords(d1, e1, w1)
      BY DEF t
    <3> HIDE DEF d1, e1, w1
    <3>3. x \in AtOrUnder(Under(a, b))
      BY <2>9 DEF u
    <3>4. /\ Levels(ThreeWords(d1, e1, w1) \o x)[1] = <<d1>>
          /\ Levels(ThreeWords(d1, e1, w1) \o x)[2] = <<e1>>
          /\ Levels(ThreeWords(d1, e1, w1) \o x)[4] = a
          /\ Levels(ThreeWords(d1, e1, w1) \o x)[5] = b
      BY <2>5, <3>1, <3>3, LevelsOfNames
    <3> QED BY <3>2, <3>4 DEF d1, e1
  <2>14. Readings(a, b) = {<<Id(c.key), Id(k.key), f.is_global>>}
    BY <1>1, <2>2, <2>3, OneReading DEF a, b
  <2> HIDE DEF levels
  <2>15. <<Hex16[dev]>>[1] = Hex16[dev] /\ <<Decimal[ep]>>[1] = Decimal[ep]
    OBVIOUS
  <2>16. levels[1][1] = Hex16[dev] /\ levels[2][1] = Decimal[ep] /\ levels[4] = a /\ levels[5] = b
    BY <2>12, <2>13, <2>15, Zenon
  <2>17. /\ AsHex[levels[1][1]] = f.device /\ AsDecimal[levels[2][1]] = f.endpoint
         /\ Readings(levels[4], levels[5]) = {<<f.cluster, f.command, f.is_global>>}
    BY <1>2, <2>2, <2>3, <2>14, <2>16 DEF dev, ep
  <2> QED BY <2>17 DEF levels, h
<1> QED BY <1>3, <1>4

\* Who reads the topic of a command learns which device sent it, from which endpoint, and
\* which command of which cluster (the second OnZclCommand of main.cpp), whatever the file,
\* the values and the prefixes are.
THEOREM TopicsNameTheFrameHolds == Spec => []TopicsNameTheFrame
<1>1. FrameInv => TopicsNameTheFrame
  <2> SUFFICES ASSUME FrameInv, frame # Nothing, DistinctNames, NEW m \in Range(wire)
               PROVE  LET levels == Levels(Rest(m.topic, Prefix[frame.hub]))
                      IN levels[2] # <<"linkquality">> =>
                           /\ AsHex[levels[1][1]] = frame.device
                           /\ AsDecimal[levels[2][1]] = frame.endpoint
                           /\ Readings(levels[4], levels[5])
                                = {<<frame.cluster, frame.command, frame.is_global>>}
    BY DEF TopicsNameTheFrame
  <2>1. wire \in Seq(Signed(frame))
    BY DEF FrameInv
  <2>2. m \in Signed(frame)
    BY <2>1, RangeElement
  <2> QED BY <2>2, SignedLevels
<1> QED BY <1>1, FrameInvariant, PTL

-----------------------------------------------------------------------------
(* What a hub listens to.                                                    *)

LEMMA PrefixByElements ==
  ASSUME NEW S, NEW s \in Seq(S), NEW t \in Seq(S)
  PROVE  IsPrefix(s, t) <=> Len(s) <= Len(t) /\ \A i \in 1 .. Len(s) : s[i] = t[i]
<1>1. Len(s) \in Nat /\ Len(t) \in Nat
  BY LenProperties
<1>2. CASE Len(s) <= Len(t)
  <2> DEFINE u == SubSeq(t, 1, Len(s))
             v == SubSeq(s, 1, Len(s))
  <2>1. v = s
    BY SubSeqFull
  <2>2. \A i \in 1 .. Len(s) : t[i] \in S
    BY <1>1, <1>2, ElementOfSeq
  <2>3. /\ u \in Seq(S) /\ Len(u) = IF 1 <= Len(s) THEN Len(s) - 1 + 1 ELSE 0
        /\ \A i \in 1 .. Len(s) - 1 + 1 : u[i] = t[1 + i - 1]
    BY <1>1, <2>2, SubSeqProperties
  <2> HIDE DEF u, v
  <2>4. Len(u) = Len(s) /\ \A i \in 1 .. Len(s) : u[i] = t[i]
    <3>1. Len(u) = Len(s)
      BY <1>1, <2>3
    <3>2. \A i \in 1 .. Len(s) : i \in 1 .. Len(s) - 1 + 1 /\ 1 + i - 1 = i
      BY <1>1
    <3> QED BY <2>3, <3>1, <3>2
  <2>5. u = s <=> \A i \in 1 .. Len(s) : s[i] = t[i]
    BY <2>3, <2>4, SeqEqual
  <2>6. IsPrefix(s, t) <=> u = s
    BY <1>2, <2>1 DEF IsPrefix, u, v
  <2> QED BY <1>2, <2>5, <2>6
<1>3. CASE ~(Len(s) <= Len(t))
  BY <1>3 DEF IsPrefix
<1> QED BY <1>2, <1>3

\* A text that begins with another is that one and the rest.
LEMMA PrefixAndRest ==
  ASSUME NEW S, NEW s \in Seq(S), NEW t \in Seq(S), IsPrefix(s, t)
  PROVE  Rest(t, s) \in Seq(S) /\ t = s \o Rest(t, s) /\ Len(t) = Len(s) + Len(Rest(t, s))
<1> DEFINE r == SubSeq(t, Len(s) + 1, Len(t))
           c == s \o r
<1>1. Len(s) \in Nat /\ Len(t) \in Nat /\ Len(s) <= Len(t) /\ \A i \in 1 .. Len(s) : s[i] = t[i]
  BY PrefixByElements, LenProperties
<1>2. \A i \in Len(s) + 1 .. Len(t) : t[i] \in S
  BY <1>1, ElementOfSeq
<1>3. /\ r \in Seq(S) /\ Len(r) = IF Len(s) + 1 <= Len(t) THEN Len(t) - (Len(s) + 1) + 1 ELSE 0
      /\ \A i \in 1 .. Len(t) - (Len(s) + 1) + 1 : r[i] = t[Len(s) + 1 + i - 1]
  BY <1>1, <1>2, SubSeqProperties
<1> HIDE DEF r
<1>4. Len(r) = Len(t) - Len(s)
  BY <1>1, <1>3
<1>5. /\ c \in Seq(S) /\ Len(c) = Len(s) + Len(r)
      /\ \A i \in 1 .. Len(s) + Len(r) : c[i] = IF i <= Len(s) THEN s[i] ELSE r[i - Len(s)]
  BY <1>3, ConcatProperties
<1> HIDE DEF c
<1>6. ASSUME NEW i \in 1 .. Len(c)
      PROVE  c[i] = t[i]
  <2>1. CASE i <= Len(s)
    BY <1>1, <1>5, <2>1
  <2>2. CASE ~(i <= Len(s))
    <3>1. i - Len(s) \in 1 .. Len(t) - (Len(s) + 1) + 1 /\ Len(s) + 1 + (i - Len(s)) - 1 = i
      BY <1>1, <1>4, <1>5, <2>2
    <3>2. r[i - Len(s)] = t[Len(s) + 1 + (i - Len(s)) - 1]
      BY <1>3, <3>1
    <3> QED BY <1>5, <2>2, <3>1, <3>2
  <2> QED BY <2>1, <2>2
<1>7. c = t
  BY <1>1, <1>4, <1>5, <1>6, SeqEqual
<1> QED BY <1>1, <1>3, <1>4, <1>7 DEF Rest, r, c

\* Texts with ends of the same length are equal when their parts are.
LEMMA SameEnd ==
  ASSUME NEW S, NEW s \in Seq(S), NEW t \in Seq(S), NEW u \in Seq(S), NEW v \in Seq(S),
         Len(u) = Len(v), s \o u = t \o v
  PROVE  s = t /\ u = v
<1> DEFINE a == s \o u
           b == t \o v
<1>1. /\ a \in Seq(S) /\ Len(a) = Len(s) + Len(u) /\ Len(s) \in Nat /\ Len(u) \in Nat
      /\ \A i \in 1 .. Len(s) + Len(u) : a[i] = IF i <= Len(s) THEN s[i] ELSE u[i - Len(s)]
  BY ConcatProperties, LenProperties
<1>2. /\ b \in Seq(S) /\ Len(b) = Len(t) + Len(v) /\ Len(t) \in Nat /\ Len(v) \in Nat
      /\ \A i \in 1 .. Len(t) + Len(v) : b[i] = IF i <= Len(t) THEN t[i] ELSE v[i - Len(t)]
  BY ConcatProperties, LenProperties
<1>3. a = b
  OBVIOUS
<1> HIDE DEF a, b
<1>4. Len(s) = Len(t)
  BY <1>1, <1>2, <1>3
<1>5. \A i \in 1 .. Len(s) : s[i] = t[i]
  BY <1>1, <1>2, <1>3, <1>4
<1>6. ASSUME NEW i \in 1 .. Len(u)
      PROVE  u[i] = v[i]
  <2>1. Len(s) + i \in 1 .. Len(s) + Len(u) /\ ~(Len(s) + i <= Len(s)) /\ (Len(s) + i) - Len(s) = i
    BY <1>1
  <2>2. a[Len(s) + i] = u[(Len(s) + i) - Len(s)]
    BY <1>1, <2>1
  <2>3. b[Len(s) + i] = v[(Len(s) + i) - Len(s)]
    BY <1>1, <1>2, <1>4, <2>1
  <2> QED BY <1>3, <2>1, <2>2, <2>3
<1>7. s = t
  BY <1>4, <1>5, SeqEqual
<1>8. u = v
  BY <1>6, SeqEqual
<1> QED BY <1>7, <1>8

LEMMA AppendFirst ==
  ASSUME NEW S, NEW s \in Seq(S), NEW e \in S
  PROVE  /\ Append(s, e) \in Seq(S) /\ Len(Append(s, e)) # 0
         /\ Append(s, e)[1] = IF Len(s) = 0 THEN e ELSE s[1]
<1> DEFINE u == Append(s, e)
<1>1. /\ u \in Seq(S) /\ Len(u) = Len(s) + 1
      /\ \A i \in 1 .. Len(s) : u[i] = s[i]
      /\ u[Len(s) + 1] = e
  BY AppendProperties
<1>2. Len(s) \in Nat
  BY LenProperties
<1> HIDE DEF u
<1>3. Len(u) # 0 /\ u[1] = IF Len(s) = 0 THEN e ELSE s[1]
  BY <1>1, <1>2
<1> QED BY <1>1, <1>3 DEF u

\* A token behind the levels changes the first one only when there is no other.
LEMMA WithTokenFirst ==
  ASSUME NEW S, NEW l \in Seq(Seq(S)), l # <<>>, NEW c \in S
  PROVE  /\ c = "/" => Len(WithToken(l, c)) # 1 /\ WithToken(l, c)[1] = l[1]
         /\ c # "/" => /\ Len(WithToken(l, c)) = Len(l)
                       /\ WithToken(l, c)[1] = IF Len(l) = 1 THEN Append(l[1], c) ELSE l[1]
<1>1. Len(l) \in Nat \ {0} /\ DOMAIN l = 1 .. Len(l)
  BY EmptySeq, LenProperties
<1>2. CASE c = "/"
  <2>1. <<>> \in Seq(S)
    BY EmptySeq
  <2> DEFINE e == <<>>
             v == Append(l, e)
  <2>2. WithToken(l, c) = v /\ e \in Seq(S)
    BY <1>2, <2>1 DEF WithToken
  <2> HIDE DEF e
  <2>3. Len(v) = Len(l) + 1 /\ \A i \in 1 .. Len(l) : v[i] = l[i]
    BY <2>2, AppendProperties
  <2> HIDE DEF v
  <2>4. Len(v) # 1 /\ v[1] = l[1]
    BY <1>1, <2>3
  <2> QED BY <1>2, <2>2, <2>4
<1>3. CASE c # "/"
  <2> DEFINE n == Len(l)
             v == [l EXCEPT ![n] = Append(l[n], c)]
  <2>1. WithToken(l, c) = v
    BY <1>3 DEF WithToken
  <2> HIDE DEF n
  <2>2. n \in Nat \ {0} /\ DOMAIN l = 1 .. n /\ n = Len(l)
    BY <1>1 DEF n
  <2>3. v[1] = IF n = 1 THEN Append(l[1], c) ELSE l[1]
    BY <2>2
  <2>4. Len(v) = n
    <3>1. v \in Seq(Seq(S))
      BY <1>3, <2>1, WithTokenType
    <3>2. DOMAIN v = 1 .. n
      BY <2>2
    <3> HIDE DEF v
    <3>3. DOMAIN v = 1 .. Len(v) /\ Len(v) \in Nat
      BY <3>1, LenProperties
    <3> QED BY <2>2, <3>2, <3>3
  <2> QED BY <1>3, <2>1, <2>2, <2>3, <2>4
<1> QED BY <1>2, <1>3

\* The first level begins with the first token, unless that is a slash.
LEMMA FirstToken ==
  ASSUME NEW S, NEW text \in Seq(S), Len(text) # 0
  PROVE  IF text[1] = "/" THEN Levels(text)[1] = <<>>
         ELSE Len(Levels(text)[1]) # 0 /\ Levels(text)[1][1] = text[1]
<1> DEFINE First(l, c) == IF c = "/" THEN l[1] = <<>> /\ Len(l) # 1
                          ELSE Len(l[1]) # 0 /\ l[1][1] = c
           T == {s \in Seq(S) : Len(s) # 0 => First(Levels(s), s[1])}
<1>1. <<>> \in T
  BY EmptySeq
<1>2. ASSUME NEW s \in Seq(S), NEW e \in S, s \in T
      PROVE  Append(s, e) \in T
  <2> HIDE DEF T
  <2>1. PICK u : /\ u = Append(s, e) /\ u \in Seq(S) /\ Len(u) # 0
                 /\ u[1] = IF Len(s) = 0 THEN e ELSE s[1]
    <3>1. /\ Append(s, e) \in Seq(S) /\ Len(Append(s, e)) # 0
          /\ Append(s, e)[1] = IF Len(s) = 0 THEN e ELSE s[1]
      BY AppendFirst
    <3> DEFINE a == Append(s, e)
    <3> HIDE DEF a
    <3>2. a \in Seq(S) /\ Len(a) # 0 /\ a[1] = IF Len(s) = 0 THEN e ELSE s[1]
      BY <3>1 DEF a
    <3>3. a = Append(s, e)
      BY DEF a
    <3> QED BY <3>2, <3>3
  <2>2. PICK l : l = Levels(s) /\ l \in Seq(Seq(S)) /\ l # <<>>
    BY LevelsType
  <2>3. PICK v : v = WithToken(l, e) /\ v = Levels(u)
    BY <2>1, <2>2, LevelsAppend
  <2>4. /\ e = "/" => Len(v) # 1 /\ v[1] = l[1]
        /\ e # "/" => Len(v) = Len(l) /\ v[1] = IF Len(l) = 1 THEN Append(l[1], e) ELSE l[1]
    <3>1. /\ e = "/" => Len(WithToken(l, e)) # 1 /\ WithToken(l, e)[1] = l[1]
          /\ e # "/" => /\ Len(WithToken(l, e)) = Len(l)
                        /\ WithToken(l, e)[1] = IF Len(l) = 1 THEN Append(l[1], e) ELSE l[1]
      BY <2>2, WithTokenFirst
    <3> QED BY <2>3, <3>1
  <2>5. Len(s) # 0 => First(l, s[1])
    BY <1>2, <2>2 DEF T
  <2>6. l[1] \in Seq(S)
    <3>1. 1 \in 1 .. Len(l)
      BY <2>2, EmptySeq, LenProperties
    <3> QED BY <2>2, <3>1, ElementOfSeq
  <2>7. /\ Len(Append(l[1], e)) # 0
        /\ Append(l[1], e)[1] = IF Len(l[1]) = 0 THEN e ELSE l[1][1]
    BY <2>6, AppendFirst
  <2>8. Len(s) = 0 => Len(l) = 1 /\ l[1] = <<>> /\ Len(l[1]) = 0
    <3>1. Len(s) = 0 => s = <<>>
      BY EmptySeq
    <3>2. s = <<>> => l = <<<<>>>>
      BY <2>2, LevelsEmpty
    <3> QED BY <3>1, <3>2, EmptySeq
  <2>9. First(v, u[1])
    <3>1. CASE Len(s) = 0
      BY <2>1, <2>4, <2>7, <2>8, <3>1
    <3>2. CASE Len(s) # 0
      BY <2>1, <2>4, <2>5, <2>7, <3>2
    <3> QED BY <3>1, <3>2
  <2> QED BY <2>1, <2>3, <2>9 DEF T
<1> HIDE DEF T
<1>3. text \in T
  BY <1>1, <1>2, ListInduction
<1> QED BY <1>3 DEF T

\* A text that was given its slash.
LEMMA SlashAtEnd ==
  ASSUME NEW S, "/" \in S, NEW p \in Seq(S), p # <<>>, p = WithSlash(p)
  PROVE  \E q \in Seq(S) : p = q \o <<"/">>
<1>1. PICK q \in Seq(S), c \in S : p = Append(q, c)
  BY SequenceEmptyOrAppend
<1>2. PICK n : n = Len(p)
  OBVIOUS
<1>3. n = Len(q) + 1 /\ p[n] = c /\ Len(q) \in Nat
  BY <1>1, <1>2, AppendProperties, LenProperties
<1>4. c = "/"
  <2> DEFINE s == "/"
             a == Append(p, s)
  <2>1. s \in S
    OBVIOUS
  <2>2. p[n] # s => p = a
    BY <1>2 DEF WithSlash
  <2> HIDE DEF s
  <2>3. Len(a) = n + 1
    BY <1>2, <2>1, AppendProperties
  <2>4. p # a
    BY <1>2, <1>3, <2>3
  <2> QED BY <1>3, <2>2, <2>4 DEF s
<1> QED BY <1>1, <1>4, AppendIsConcat

\* The levels behind a prefix are those of the text behind it.
LEMMA PrefixLevels ==
  ASSUME NEW h \in Hubs
  PROVE  \E l \in Seq(Seq(STRING)) : \A t \in Seq(STRING) :
           /\ Prefix[h] \o t \in Seq(STRING) /\ Levels(Prefix[h] \o t) = l \o Levels(t)
<1>0. "/" \in STRING
  BY WordAssumption
<1>1. PICK p : p = Prefix[h] /\ p \in Seq(STRING) /\ p = WithSlash(p)
  BY TextAssumption
<1>2. CASE p = <<>>
  <2>1. \A t \in Seq(STRING) : p \o t = t
    BY <1>2, ConcatEmptySeq
  <2>2. <<>> \in Seq(Seq(STRING))
    BY EmptySeq
  <2>3. \A t \in Seq(STRING) : <<>> \o Levels(t) = Levels(t)
    BY LevelsType, ConcatEmptySeq
  <2> QED BY <1>1, <2>1, <2>2, <2>3, ZenonT(30)
<1>3. CASE p # <<>>
  <2>1. PICK q \in Seq(STRING) : p = q \o <<"/">>
    BY <1>0, <1>1, <1>3, SlashAtEnd
  <2>2. ASSUME NEW t \in Seq(STRING)
        PROVE  p \o t = Under(q, t) /\ p \o t \in Seq(STRING) /\ Levels(Under(q, t)) = Levels(q) \o Levels(t)
    <3>1. Levels(Under(q, t)) = Levels(q) \o Levels(t)
      BY <1>0, LevelsUnder
    <3> QED BY <1>1, <2>1, <3>1, ConcatProperties DEF Under
  <2>3. Levels(q) \in Seq(Seq(STRING))
    BY LevelsType
  <2> QED BY <1>1, <2>2, <2>3, ZenonT(30)
<1> QED BY <1>2, <1>3

\* A filter behind a prefix matches a topic behind it as it does without the prefix.
LEMMA MatchesBehind ==
  ASSUME NEW h \in Hubs, NEW x \in Seq(STRING), NEW y \in Seq(STRING), Matches(x, y)
  PROVE  Matches(Prefix[h] \o x, Prefix[h] \o y)
<1>1. PICK l \in Seq(Seq(STRING)) : \A t \in Seq(STRING) : Levels(Prefix[h] \o t) = l \o Levels(t)
  BY PrefixLevels
<1> DEFINE f == Levels(x)
           g == Levels(y)
           lf == l \o f
           lg == l \o g
<1>2. f \in Seq(Seq(STRING)) /\ g \in Seq(Seq(STRING)) /\ Len(f) \in Nat \ {0} /\ Len(g) \in Nat \ {0}
  BY LevelsType
<1>3. Len(g) >= Len(f) - 1 /\ \A i \in 1 .. Len(f) - 1 : f[i] \in {<<"+">>, g[i]}
  BY DEF Matches
<1>4. Levels(Prefix[h] \o x) = lf /\ Levels(Prefix[h] \o y) = lg
  BY <1>1
<1> HIDE DEF f, g
<1>5. /\ Len(lf) = Len(l) + Len(f) /\ Len(lg) = Len(l) + Len(g) /\ Len(l) \in Nat
      /\ \A i \in 1 .. Len(l) + Len(f) : lf[i] = IF i <= Len(l) THEN l[i] ELSE f[i - Len(l)]
      /\ \A i \in 1 .. Len(l) + Len(g) : lg[i] = IF i <= Len(l) THEN l[i] ELSE g[i - Len(l)]
  BY <1>2, ConcatProperties, LenProperties
<1> HIDE DEF lf, lg
<1>6. Len(lg) >= Len(lf) - 1
  BY <1>2, <1>3, <1>5
<1>7. ASSUME NEW i \in 1 .. Len(lf) - 1
      PROVE  lf[i] \in {<<"+">>, lg[i]}
  <2>1. i \in 1 .. Len(l) + Len(f) /\ i \in 1 .. Len(l) + Len(g)
    BY <1>2, <1>3, <1>5
  <2>2. CASE i <= Len(l)
    <3>1. lf[i] = l[i] /\ lg[i] = l[i]
      BY <1>5, <2>1, <2>2
    <3> QED BY <3>1
  <2>3. CASE ~(i <= Len(l))
    <3>1. lf[i] = f[i - Len(l)] /\ lg[i] = g[i - Len(l)] /\ i - Len(l) \in 1 .. Len(f) - 1
      BY <1>2, <1>5, <2>1, <2>3
    <3> QED BY <1>3, <3>1
  <2> QED BY <2>2, <2>3
<1> QED BY <1>4, <1>6, <1>7 DEF Matches

\* The levels of three words and of what is behind them.
LEMMA LevelsOfWords ==
  ASSUME NEW d \in STRING, NEW e \in STRING, NEW w \in STRING, "/" \notin {d, e, w},
         NEW x \in Seq(STRING)
  PROVE  LET levels == Levels(ThreeWords(d, e, w) \o x)
         IN /\ levels[1] = <<d>> /\ levels[2] = <<e>> /\ levels[3] = <<w>>
            /\ Len(levels) = Len(Levels(x)) + 3 /\ Len(Levels(x)) \in Nat \ {0}
            /\ \A i \in 1 .. Len(Levels(x)) : levels[i + 3] = Levels(x)[i]
<1>0. \A c \in {d, e, w} : \A t \in Seq(STRING) :
        LET v == Under(<<c>>, t)
        IN /\ v \in Seq(STRING) /\ Len(Levels(v)) = Len(Levels(t)) + 1 /\ Levels(v)[1] = <<c>>
           /\ \A i \in 1 .. Len(Levels(t)) : Levels(v)[i + 1] = Levels(t)[i]
  <2> TAKE c \in {d, e, w}
  <2>1. c \in STRING \ {"/"}
    OBVIOUS
  <2> QED BY <2>1, WordInFront, Zenon
<1>1. PICK y : y = Under(<<w>>, x)
  OBVIOUS
<1>2. PICK z : z = Under(<<e>>, y)
  OBVIOUS
<1>3. PICK all : all = Under(<<d>>, z)
  OBVIOUS
<1>4. /\ y \in Seq(STRING) /\ Len(Levels(y)) = Len(Levels(x)) + 1 /\ Levels(y)[1] = <<w>>
      /\ \A i \in 1 .. Len(Levels(x)) : Levels(y)[i + 1] = Levels(x)[i]
  BY <1>0, <1>1, Zenon
<1>5. /\ z \in Seq(STRING) /\ Len(Levels(z)) = Len(Levels(y)) + 1 /\ Levels(z)[1] = <<e>>
      /\ \A i \in 1 .. Len(Levels(y)) : Levels(z)[i + 1] = Levels(y)[i]
  BY <1>0, <1>2, <1>4, Zenon
<1>6. /\ Len(Levels(all)) = Len(Levels(z)) + 1 /\ Levels(all)[1] = <<d>>
      /\ \A i \in 1 .. Len(Levels(z)) : Levels(all)[i + 1] = Levels(z)[i]
  BY <1>0, <1>3, <1>5, Zenon
<1>7. ThreeWords(d, e, w) \o x = all
  <2>1. \A t \in Seq(STRING) :
          ThreeWords(d, e, w) \o t = Under(<<d>>, Under(<<e>>, Under(<<w>>, t)))
    BY ThreeLevels, ZenonT(30)
  <2>2. ThreeWords(d, e, w) \o x = Under(<<d>>, Under(<<e>>, Under(<<w>>, x)))
    BY <2>1
  <2> QED BY <1>1, <1>2, <1>3, <2>2, Zenon
<1>8. Len(Levels(x)) \in Nat \ {0}
  BY LevelsType
<1> DEFINE n == Len(Levels(x))
           k == Levels(x)
           l == Levels(y)
           m == Levels(z)
           o == Levels(all)
<1> HIDE DEF n, k, l, m, o
<1>9. /\ n \in Nat \ {0} /\ Len(l) = n + 1 /\ Len(m) = n + 2 /\ Len(o) = n + 3
      /\ l[1] = <<w>> /\ m[1] = <<e>> /\ o[1] = <<d>>
      /\ \A i \in 1 .. n : l[i + 1] = k[i]
      /\ \A i \in 1 .. n + 1 : m[i + 1] = l[i]
      /\ \A i \in 1 .. n + 2 : o[i + 1] = m[i]
  <2>1. n \in Nat \ {0} /\ Len(l) = n + 1
    BY <1>4, <1>8 DEF n, l
  <2>2. Len(m) = n + 2
    BY <1>5, <2>1 DEF l, m
  <2>3. Len(o) = n + 3
    BY <1>6, <2>1, <2>2 DEF m, o
  <2>4. \A i \in 1 .. Len(l) : m[i + 1] = l[i]
    BY <1>5 DEF l, m
  <2>5. \A i \in 1 .. Len(m) : o[i + 1] = m[i]
    BY <1>6 DEF m, o
  <2> QED BY <1>4, <1>5, <1>6, <2>1, <2>2, <2>3, <2>4, <2>5 DEF k, l, m, o, n
<1>10. o[2] = <<e>> /\ o[3] = <<w>>
  <2>1. 1 \in 1 .. n + 1 /\ 1 \in 1 .. n + 2 /\ 2 \in 1 .. n + 2 /\ 1 + 1 = 2 /\ 2 + 1 = 3
    BY <1>9
  <2> QED BY <1>9, <2>1
<1>11. ASSUME NEW i \in 1 .. n
       PROVE  o[i + 3] = k[i]
  <2>1. i + 1 \in 1 .. n + 1 /\ i + 2 \in 1 .. n + 2 /\ (i + 1) + 1 = i + 2 /\ (i + 2) + 1 = i + 3
    BY <1>9
  <2>2. l[i + 1] = k[i] /\ m[(i + 1) + 1] = l[i + 1] /\ o[(i + 2) + 1] = m[i + 2]
    BY <1>9, <2>1
  <2> QED BY <2>1, <2>2
<1>12. Levels(ThreeWords(d, e, w) \o x) = o
  BY <1>7 DEF o
<1> QED BY <1>8, <1>9, <1>10, <1>11, <1>12 DEF n, k

\* Of texts: what is in front, and one behind the other.
LEMMA TextPrefix ==
  \A s, t \in Seq(STRING) :
    IsPrefix(s, t) <=> Len(s) <= Len(t) /\ \A i \in 1 .. Len(s) : s[i] = t[i]
BY PrefixByElements

LEMMA TextConcat ==
  \A s, t \in Seq(STRING) :
    /\ s \o t \in Seq(STRING) /\ Len(s \o t) = Len(s) + Len(t)
    /\ Len(s) \in Nat /\ Len(t) \in Nat
    /\ \A i \in 1 .. Len(s) + Len(t) : (s \o t)[i] = IF i <= Len(s) THEN s[i] ELSE t[i - Len(s)]
BY ConcatProperties, LenProperties

\* A list of two.
LEMMA TwoElements ==
  ASSUME NEW S, NEW a \in S, NEW b \in S
  PROVE  /\ <<a, b>> \in Seq(S) /\ Len(<<a, b>>) = 2
         /\ <<a, b>>[1] = a /\ <<a, b>>[2] = b
OBVIOUS

\* What does not begin with a number or with "control" is nothing to a hub without a prefix.
LEMMA NoNumeral ==
  ASSUME NEW text \in Seq(STRING), Len(text) # 0, text[1] \notin DOMAIN AsHex \cup {"control"}
  PROVE  ~IsPrefix(<<"control", "/">>, text) /\ ~IsNumeral(Levels(text)[1], AsHex)
<1>1. ~IsPrefix(<<"control", "/">>, text)
  <2> DEFINE s == <<"control", "/">>
  <2>1. s \in Seq(STRING) /\ Len(s) = 2 /\ s[1] = "control"
    <3>1. {"control", "/"} \subseteq STRING
      BY WordAssumption
    <3> QED BY <3>1, TwoElements
  <2> HIDE DEF s
  <2>2. text[1] # s[1]
    BY <2>1
  <2>3. 1 \in 1 .. Len(s)
    BY <2>1
  <2>4. ~IsPrefix(s, text)
    BY <2>1, <2>2, <2>3, TextPrefix
  <2> QED BY <2>4 DEF s
<1>2. IF text[1] = "/" THEN Levels(text)[1] = <<>>
      ELSE Len(Levels(text)[1]) # 0 /\ Levels(text)[1][1] = text[1]
  BY FirstToken
<1>3. Len(<<>>) = 0
  BY EmptySeq
<1> QED BY <1>1, <1>2, <1>3 DEF IsNumeral

\* A topic with the prefix of one hub is nothing to a hub with another.
LEMMA OtherPrefix ==
  ASSUME Apart, NEW h \in Hubs, NEW g \in Hubs, Prefix[g] # Prefix[h],
         NEW t \in Seq(STRING), Len(t) # 0, t[1] \in DOMAIN AsHex \cup {"control", "report"},
         NEW m, m.topic = Prefix[h] \o t
  PROVE  OnPublish(g, m) = Nothing
<1>1. PICK p : p = Prefix[h] /\ p \in Seq(STRING)
  BY TextAssumption
<1>2. PICK q : q = Prefix[g] /\ q \in Seq(STRING) /\ q # p
  BY <1>1, TextAssumption
<1>3. PICK text : /\ text = p \o t /\ text \in Seq(STRING) /\ Len(text) = Len(p) + Len(t)
                  /\ \A i \in 1 .. Len(p) + Len(t) : text[i] = IF i <= Len(p) THEN p[i] ELSE t[i - Len(p)]
  <2>1. /\ p \o t \in Seq(STRING) /\ Len(p \o t) = Len(p) + Len(t)
        /\ \A i \in 1 .. Len(p) + Len(t) : (p \o t)[i] = IF i <= Len(p) THEN p[i] ELSE t[i - Len(p)]
    BY <1>1, TextConcat
  <2> QED BY <2>1
<1>4. Len(p) \in Nat /\ Len(q) \in Nat /\ Len(t) \in Nat \ {0}
  BY <1>1, <1>2, LenProperties
<1>5. /\ p # <<>> => p[1] \notin DOMAIN AsHex \cup {"control", "report"}
      /\ q # <<>> => q[1] \notin DOMAIN AsHex \cup {"control", "report"}
      /\ p # <<>> /\ q # <<>> => ~IsPrefix(p, q) /\ ~IsPrefix(q, p)
  BY <1>1, <1>2 DEF Apart
<1>6. (p = <<>> <=> Len(p) = 0) /\ (q = <<>> <=> Len(q) = 0)
  BY <1>1, <1>2, EmptySeq
<1>7. CASE q = <<>>
  <2>1. Len(text) # 0 /\ text[1] = p[1]
    BY <1>2, <1>3, <1>4, <1>6, <1>7
  <2>2. text[1] \notin DOMAIN AsHex \cup {"control"}
    BY <1>2, <1>5, <1>7, <2>1
  <2>3. ~IsPrefix(<<"control", "/">>, text) /\ ~IsNumeral(Levels(text)[1], AsHex)
    BY <1>3, <2>1, <2>2, NoNumeral
  <2>4. Rest(text, q) = text
    <3>1. <<>> \in Seq(STRING)
      BY EmptySeq
    <3>2. \A s, x \in Seq(STRING) : Rest(s \o x, s) = x
      BY RestBehind
    <3>3. <<>> \o text = text
      BY <1>3, ConcatEmptySeq
    <3> QED BY <1>3, <1>7, <3>1, <3>2, <3>3
  <2> QED BY <1>1, <1>2, <1>3, <2>3, <2>4 DEF OnPublish
<1>8. CASE q # <<>>
  <2>1. ~IsPrefix(q, text)
    <3> SUFFICES ASSUME IsPrefix(q, text) PROVE FALSE
      OBVIOUS
    <3>1. Len(q) <= Len(text) /\ \A i \in 1 .. Len(q) : q[i] = text[i]
      BY <1>2, <1>3, TextPrefix
    <3>2. CASE p = <<>>
      <4>1. q[1] = t[1]
        BY <1>3, <1>4, <1>6, <1>8, <3>1, <3>2
      <4> QED BY <1>5, <1>8, <4>1
    <3>3. CASE p # <<>> /\ Len(q) <= Len(p)
      <4>1. \A i \in 1 .. Len(q) : q[i] = p[i]
        BY <1>3, <1>4, <3>1, <3>3
      <4>2. IsPrefix(q, p)
        BY <1>1, <1>2, <3>3, <4>1, TextPrefix
      <4> QED BY <1>5, <1>8, <3>3, <4>2
    <3>4. CASE p # <<>> /\ ~(Len(q) <= Len(p))
      <4>1. Len(p) <= Len(q) /\ \A i \in 1 .. Len(p) : p[i] = q[i]
        BY <1>3, <1>4, <3>1, <3>4
      <4>2. IsPrefix(p, q)
        BY <1>1, <1>2, <4>1, TextPrefix
      <4> QED BY <1>5, <1>8, <3>4, <4>2
    <3> QED BY <3>2, <3>3, <3>4
  <2> QED BY <1>1, <1>2, <1>3, <2>1 DEF OnPublish
<1> QED BY <1>7, <1>8

\* What a hub publishes, behind its prefix: a report, or something of a device that does
\* not read as a command to it.
Told ==
  {t \in Seq(STRING) :
     /\ Len(t) # 0
     /\ \/ t[1] = "report"
        \/ t[1] \in DOMAIN AsHex /\ (Len(Levels(t)) \notin {4, 5} \/ Levels(t)[3] # <<"out">>)}

LEMMA ToldIsNothing ==
  ASSUME Apart, NEW h \in Hubs, NEW g \in Hubs, NEW t \in Told,
         NEW m, m.topic = Prefix[h] \o t
  PROVE  OnPublish(g, m) = Nothing
<1>1. /\ t \in Seq(STRING) /\ Len(t) # 0
      /\ \/ t[1] = "report"
         \/ t[1] \in DOMAIN AsHex /\ (Len(Levels(t)) \notin {4, 5} \/ Levels(t)[3] # <<"out">>)
  BY DEF Told
<1>2. CASE Prefix[g] # Prefix[h]
  BY <1>1, <1>2, OtherPrefix
<1>3. CASE Prefix[g] = Prefix[h]
  <2>1. Rest(m.topic, Prefix[g]) = t
    <3>1. \A p, x \in Seq(STRING) : Rest(p \o x, p) = x
      BY RestBehind
    <3>2. Prefix[h] \in Seq(STRING)
      BY TextAssumption
    <3>3. Rest(Prefix[h] \o t, Prefix[h]) = t
      BY <1>1, <3>1, <3>2
    <3> QED BY <1>3, <3>3
  <2>2. CASE t[1] = "report"
    <3>1. t[1] \notin DOMAIN AsHex \cup {"control"}
      BY <2>2, NumeralAssumption
    <3>2. ~IsPrefix(<<"control", "/">>, t) /\ ~IsNumeral(Levels(t)[1], AsHex)
      BY <1>1, <3>1, NoNumeral
    <3> QED BY <2>1, <3>2 DEF OnPublish
  <2>3. CASE t[1] # "report"
    <3>1. ~IsPrefix(<<"control", "/">>, t)
      <4>1. t[1] # "control"
        BY <1>1, <2>3, NumeralAssumption
      <4> DEFINE s == <<"control", "/">>
      <4>2. s \in Seq(STRING) /\ Len(s) = 2 /\ s[1] = "control"
        <5>1. {"control", "/"} \subseteq STRING
          BY WordAssumption
        <5> QED BY <5>1, TwoElements
      <4> HIDE DEF s
      <4>3. 1 \in 1 .. Len(s) /\ s[1] # t[1]
        BY <4>1, <4>2
      <4>4. ~IsPrefix(s, t)
        BY <1>1, <4>2, <4>3, TextPrefix
      <4> QED BY <4>4 DEF s
    <3> QED BY <1>1, <2>1, <2>3, <3>1 DEF OnPublish
  <2> QED BY <2>2, <2>3
<1> QED BY <1>2, <1>3

\* The levels of two words.
LEMMA LevelsOfTwo ==
  ASSUME NEW d \in STRING, NEW w \in STRING, "/" \notin {d, w}
  PROVE  <<d, "/", w>> \in Seq(STRING) /\ Levels(<<d, "/", w>>) = <<<<d>>, <<w>>>>
<1> DEFINE v == <<w>>
           u == Under(<<d>>, v)
           l == Levels(u)
<1>0. "/" \in STRING
  BY WordAssumption
<1>1. v \in Seq(STRING) /\ "/" \notin Range(v)
  BY DEF Range
<1>2. Levels(v) = <<v>>
  BY <1>1, LevelsWord
<1>3. u = <<d, "/", w>>
  <2>1. <<d>> \o <<"/">> = <<d, "/">>
    BY <1>0, WordAndSlash
  <2>2. <<d, "/">> \o <<w>> = <<d, "/", w>>
    BY <1>0, PairAndWord
  <2> QED BY <2>1, <2>2 DEF Under
<1>4. \A t \in Seq(STRING) :
        /\ Under(<<d>>, t) \in Seq(STRING) /\ Len(Levels(Under(<<d>>, t))) = Len(Levels(t)) + 1
        /\ Levels(Under(<<d>>, t))[1] = <<d>>
        /\ \A i \in 1 .. Len(Levels(t)) : Levels(Under(<<d>>, t))[i + 1] = Levels(t)[i]
  BY WordInFront
<1> HIDE DEF v
<1>5. /\ u \in Seq(STRING) /\ Len(l) = Len(Levels(v)) + 1 /\ l[1] = <<d>>
      /\ \A i \in 1 .. Len(Levels(v)) : l[i + 1] = Levels(v)[i]
  BY <1>1, <1>4
<1>6. Len(Levels(v)) = 1 /\ Levels(v)[1] = v
  BY <1>2
<1> HIDE DEF u
<1>7. l \in Seq(Seq(STRING))
  BY <1>5, LevelsType
<1> HIDE DEF l
<1>8. Len(l) = 2 /\ l[1] = <<d>> /\ l[2] = v
  <2>1. l[1 + 1] = Levels(v)[1]
    BY <1>5, <1>6
  <2> QED BY <1>5, <1>6, <2>1
<1>9. l = <<<<d>>, v>>
  <2> DEFINE k == <<<<d>>, v>>
  <2>1. k \in Seq(Seq(STRING)) /\ Len(k) = 2 /\ k[1] = <<d>> /\ k[2] = v
    <3>1. <<d>> \in Seq(STRING)
      OBVIOUS
    <3> QED BY <1>1, <3>1
  <2> HIDE DEF k
  <2>2. \A i \in 1 .. Len(l) : l[i] = k[i]
    BY <1>8, <2>1
  <2>3. l = k
    BY <1>7, <1>8, <2>1, <2>2, SeqEqual
  <2> QED BY <2>3 DEF k
<1> QED BY <1>3, <1>5, <1>9 DEF l, v

LEMMA SignedIsTold ==
  ASSUME FrameInv, frame # Nothing, NEW m \in Signed(frame)
  PROVE  \E t \in Told : m.topic = Prefix[frame.hub] \o t
<1> DEFINE f == frame
           h == f.hub
           dev == f.device
           ep == f.endpoint
           d == Hex16[dev]
           e == Decimal[ep]
           p == Prefix[h]
<1>1. /\ file \in Files
      /\ h \in Hubs /\ dev \in Joined[h] /\ ep \in Endpoints /\ f.is_global \in BOOLEAN
  BY DEF FrameInv
<1>2. /\ p \in Seq(STRING)
      /\ d \in STRING \ {"/"} /\ d \in DOMAIN AsHex
      /\ e \in STRING \ {"/"}
      /\ {"in", "out", "linkquality"} \subseteq STRING \ {"/"}
  BY <1>1, FrameTexts
<1>3. CASE m = Quality(f)
  <2> DEFINE w == "linkquality"
             t == <<d, "/", w>>
  <2>1. m.topic = p \o t
    BY <1>3 DEF Quality, Message
  <2>2. t[1] = d /\ Len(t) = 3
    OBVIOUS
  <2>3. w \in STRING /\ "/" \notin {d, w}
    BY <1>2
  <2> HIDE DEF w
  <2>4. t \in Seq(STRING) /\ Levels(t) = <<<<d>>, <<w>>>>
    BY <1>2, <2>3, LevelsOfTwo
  <2>5. Len(Levels(t)) = 2
    BY <2>4
  <2> HIDE DEF t
  <2>6. t \in Told
    <3>1. Len(Levels(t)) \notin {4, 5} /\ Len(t) # 0
      BY <2>2, <2>5
    <3>2. t[1] \in DOMAIN AsHex
      BY <1>2, <2>2
    <3> QED BY <2>4, <3>1, <3>2, Zenon DEF Told
  <2> QED BY <2>1, <2>6
<1>4. CASE m # Quality(f)
  <2>1. PICK c \in {x \in Clusters(file) : Id(x.key) = f.cluster} :
          \E k \in {l \in CommandsIn(c, f.is_global) : Id(l.key) = f.command} :
            m \in Published(TopicOf(f, c, k))
    BY <1>4 DEF Signed
  <2>2. PICK k \in CommandsIn(c, f.is_global) :
          Id(k.key) = f.command /\ m \in Published(TopicOf(f, c, k))
    BY <2>1
  <2>3. c \in Clusters(file)
    BY <2>1
  <2> DEFINE a == Documented(c.data)
             b == Documented(k.data)
             i == "in"
             t == ThreeWords(d, e, i)
             u == Under(a, b)
  <2>4. c.data \in Seq(STRING) /\ k.data \in Seq(STRING)
    BY <1>1, <2>2, <2>3, CommandTexts
  <2>5. a \in Seq(STRING) /\ b \in Seq(STRING)
    BY <2>4, SafeName
  <2>6. t \in Seq(STRING) /\ u \in Seq(STRING)
    <3>1. "/" \in STRING
      BY WordAssumption
    <3>2. t \in Seq(STRING)
      BY <1>2, ThreeLevels
    <3>3. u \in Seq(STRING)
      BY <2>5, <3>1, UnderType
    <3> QED BY <3>2, <3>3
  <2>7. TopicOf(f, c, k) = p \o t \o u
    BY DEF TopicOf
  <2>8. PICK v : v \in AtOrUnder(p \o t \o u) /\ m.topic = v
    BY <2>2, <2>7 DEF Published, Message
  <2>9. i \in STRING /\ "/" \notin {d, e, i}
    BY <1>2
  <2>10. Len(t) = 6 /\ t[1] = d
    BY DEF ThreeWords
  <2> HIDE DEF a, b, u, p, i, d, e
  <2> DEFINE s == t
  <2> HIDE DEF s
  <2>11. PICK x \in AtOrUnder(u) : v = (p \o s) \o x /\ x \in Seq(STRING)
    <3>1. p \o s \in Seq(STRING)
      BY <1>2, <2>6, ConcatProperties DEF s
    <3>2. PICK x \in AtOrUnder(u) : v = (p \o s) \o x
      BY <2>6, <2>8, <3>1, AtOrUnderBehind DEF s
    <3>3. x \in Seq(STRING)
      BY <2>6, EmptySeq, UnderUnder
    <3> QED BY <3>2, <3>3
  <2>12. m.topic = p \o (s \o x)
    <3>1. s \in Seq(STRING)
      BY <2>6 DEF s
    <3> QED BY <1>2, <2>8, <2>11, <3>1, ConcatAssociative
  <2>13. s \o x \in Seq(STRING) /\ Len(s \o x) # 0 /\ (s \o x)[1] = d
    <3>1. s \in Seq(STRING) /\ Len(s) = 6 /\ s[1] = d
      BY <2>6, <2>10 DEF s
    <3> DEFINE sx == s \o x
    <3>2. /\ sx \in Seq(STRING) /\ Len(sx) = Len(s) + Len(x) /\ Len(x) \in Nat
          /\ \A j \in 1 .. Len(s) + Len(x) : sx[j] = IF j <= Len(s) THEN s[j] ELSE x[j - Len(s)]
      BY <2>11, <3>1, TextConcat
    <3> HIDE DEF sx
    <3>3. Len(sx) # 0 /\ sx[1] = d
      BY <3>1, <3>2
    <3> QED BY <3>2, <3>3 DEF sx
  <2>14. Levels(s \o x)[3] = <<i>>
    <3>1. d \in STRING /\ e \in STRING
      BY <1>2
    <3>2. \A y \in Seq(STRING) : Levels(ThreeWords(d, e, i) \o y)[3] = <<i>>
      BY <2>9, <3>1, LevelsOfWords
    <3> QED BY <2>11, <3>2, Zenon DEF s
  <2>15. <<i>> # <<"out">>
    <3>1. i # "out"
      BY DEF i
    <3> QED BY <3>1
  <2>16. s \o x \in Told
    BY <1>2, <2>13, <2>14, <2>15 DEF Told
  <2> QED BY <2>12, <2>16 DEF p
<1> QED BY <1>3, <1>4

Texts == Seq(STRING)

Cat(s, t) == s \o t

LEMMA CatType == \A s, t \in Texts : Cat(s, t) \in Texts
<1>1. \A x, y \in Seq(STRING) : x \o y \in Seq(STRING)
  BY TextConcat
<1> QED BY <1>1, Zenon DEF Texts, Cat

LEMMA CatAssociative == \A s, t, u \in Texts : Cat(Cat(s, t), u) = Cat(s, Cat(t, u))
<1>1. \A x, y, z \in Seq(STRING) : (x \o y) \o z = x \o (y \o z)
  BY ConcatAssociative, SMTT(30)
<1> QED BY <1>1, Zenon DEF Texts, Cat

\* Three texts behind a prefix.
LEMMA ThreeBehind ==
  \A p, a, b, c \in Texts :
    /\ Cat(b, c) \in Texts /\ Cat(a, Cat(b, c)) \in Texts
    /\ Cat(Cat(Cat(p, a), b), c) = Cat(p, Cat(a, Cat(b, c)))
BY CatType, CatAssociative

LEMMA WithSlashType ==
  ASSUME NEW t \in Seq(STRING)
  PROVE  WithSlash(t) \in Seq(STRING)
<1>1. "/" \in STRING
  BY WordAssumption
<1>2. Append(t, "/") \in Seq(STRING)
  BY <1>1, AppendProperties
<1> QED BY <1>2 DEF WithSlash

\* A text that begins with one word of two.
LEMMA FirstWord ==
  ASSUME NEW a \in STRING, NEW b \in STRING
  PROVE  \A x \in Seq(STRING) :
           LET t == <<a, b>> \o x
           IN t \in Seq(STRING) /\ Len(t) # 0 /\ t[1] = a
<1> TAKE x \in Seq(STRING)
<1> DEFINE s == <<a, b>>
           t == s \o x
<1>1. s \in Seq(STRING) /\ Len(s) = 2 /\ s[1] = a
  BY TwoElements
<1> HIDE DEF s
<1>2. /\ t \in Seq(STRING) /\ Len(t) = Len(s) + Len(x) /\ Len(x) \in Nat
      /\ \A i \in 1 .. Len(s) + Len(x) : t[i] = IF i <= Len(s) THEN s[i] ELSE x[i - Len(s)]
  BY <1>1, TextConcat
<1> HIDE DEF t
<1>3. Len(t) # 0 /\ t[1] = a
  <2>1. 1 \in 1 .. Len(s) + Len(x) /\ 1 <= Len(s) /\ Len(t) # 0
    BY <1>1, <1>2
  <2>2. t[1] = s[1]
    BY <1>2, <2>1
  <2> QED BY <1>1, <2>1, <2>2
<1> QED BY <1>2, <1>3 DEF s, t

\* The reports of a dongle.
ReportPayloads == {Text(<<Decimal[n]>>) : n \in Seconds} \cup {Json(Object(<<>>))}

Reports == {Message(Prefix[h] \o t, p) : h \in Hubs, t \in Told, p \in ReportPayloads}

LEMMA ReportTold ==
  ASSUME NEW m \in Reports
  PROVE  \E h \in Hubs, t \in Told : m.topic = Prefix[h] \o t
<1>1. PICK h \in Hubs, t \in Told, p \in ReportPayloads : m = Message(Prefix[h] \o t, p)
  BY DEF Reports
<1> QED BY <1>1 DEF Message

LEMMA OnPermitJoinReports ==
  ASSUME NEW h \in Hubs, OnPermitJoin(h)
  PROVE  wire' \in Seq(Reports)
<1>1. {"report", "/", "permitjoin"} \subseteq STRING
  BY WordAssumption
<1>2. Prefix[h] \in Seq(STRING) /\ Instance[h] \in Seq(STRING)
  BY TextAssumption
<1>3. ASSUME NEW i \in Seq(STRING)
      PROVE  \E t \in Told : PermitJoinTopic(h, i) = Prefix[h] \o t
  <2> DEFINE p == Prefix[h]
             r == <<"report", "/">>
             w == WithSlash(i)
             j == <<"permitjoin">>
             t == Cat(r, Cat(w, j))
  <2>1. r \in Texts /\ j \in Texts
    BY <1>1 DEF Texts
  <2>2. w \in Texts
    BY WithSlashType DEF Texts
  <2>3. PermitJoinTopic(h, i) = Cat(Cat(Cat(p, r), w), j)
    BY DEF PermitJoinTopic, Cat
  <2>4. p \in Texts
    BY <1>2 DEF Texts
  <2> HIDE DEF p, r, w, j
  <2>5. Cat(Cat(Cat(p, r), w), j) = Cat(p, t) /\ Cat(w, j) \in Texts
    BY <2>1, <2>2, <2>4, ThreeBehind
  <2>6. t \in Seq(STRING) /\ Len(t) # 0 /\ t[1] = "report"
    <3>1. \A x \in Seq(STRING) : /\ <<"report", "/">> \o x \in Seq(STRING)
                                 /\ Len(<<"report", "/">> \o x) # 0
                                 /\ (<<"report", "/">> \o x)[1] = "report"
      BY <1>1, FirstWord
    <3>2. \A x \in Texts : Cat(r, x) \in Texts /\ Len(Cat(r, x)) # 0 /\ Cat(r, x)[1] = "report"
      BY <3>1, Zenon DEF r, Texts, Cat
    <3>3. t \in Texts /\ Len(t) # 0 /\ t[1] = "report"
      BY <2>5, <3>2
    <3> QED BY <3>3 DEF Texts
  <2>7. t \in Told
    BY <2>6 DEF Told
  <2> QED BY <2>3, <2>5, <2>7 DEF p, Cat
<1>4. PICK n \in Seconds :
        wire' = [i \in 1 .. (IF Instance[h] = <<>> THEN 1 ELSE 2) |->
                  Message(PermitJoinTopic(h, IF i = 1 THEN <<>> ELSE Instance[h]),
                          Text(<<Decimal[n]>>))]
  BY DEF OnPermitJoin
<1>5. PICK l \in Nat : l = IF Instance[h] = <<>> THEN 1 ELSE 2
  OBVIOUS
<1>6. ASSUME NEW i \in 1 .. l
      PROVE  Message(PermitJoinTopic(h, IF i = 1 THEN <<>> ELSE Instance[h]),
                     Text(<<Decimal[n]>>)) \in Reports
  <2>1. PICK s \in Seq(STRING) : s = IF i = 1 THEN <<>> ELSE Instance[h]
    BY <1>2, EmptySeq
  <2>2. PICK t \in Told : PermitJoinTopic(h, s) = Prefix[h] \o t
    BY <1>3
  <2>3. Message(Prefix[h] \o t, Text(<<Decimal[n]>>)) \in Reports
    BY DEF Reports, ReportPayloads
  <2> QED BY <2>1, <2>2, <2>3
<1>7. wire' \in [1 .. l -> Reports]
  BY <1>4, <1>5, <1>6
<1> QED BY <1>7, FunctionList

LEMMA OnJoinReports ==
  ASSUME NEW h \in Hubs, OnJoin(h)
  PROVE  wire' \in Seq(Reports)
<1>1. PICK w \in {"trustcenter_device", "end_device_announce"} :
        wire' = <<Message(Prefix[h] \o <<"report", "/", w>>, Json(Object(<<>>)))>>
  BY DEF OnJoin
<1>2. {"report", "/", w} \subseteq STRING
  BY WordAssumption
<1> DEFINE t == <<"report", "/", w>>
<1>3. t \in Seq(STRING) /\ Len(t) # 0 /\ t[1] = "report"
  BY <1>2
<1>4. t \in Told
  BY <1>3 DEF Told
<1> HIDE DEF t
<1>5. Message(Prefix[h] \o t, Json(Object(<<>>))) \in Reports
  BY <1>4 DEF Reports, ReportPayloads
<1> QED BY <1>1, <1>5 DEF t

-----------------------------------------------------------------------------
(* What a hub does for a request.                                            *)

Response(g, m) ==
  IF \E filter \in Subscriptions(g) : Matches(filter, m.topic) THEN OnPublish(g, m) ELSE Nothing

\* The rest behind a prefix.
LEMMA TextRest ==
  \A s, t \in Seq(STRING) : s \o t \in Seq(STRING) /\ Rest(s \o t, s) = t /\ IsPrefix(s, s \o t)
BY RestBehind

LEMMA ControlHeard ==
  ASSUME Apart, NEW h \in Hubs, NEW g \in Hubs, NEW r \in Seq(STRING),
         NEW m, m.topic = Prefix[h] \o (<<"control", "/">> \o r)
  PROVE  Response(g, m)
           = IF Prefix[g] = Prefix[h] THEN Control(g, r, m.payload) ELSE Nothing
<1> DEFINE c == "control"
           s == "/"
           n == "#"
           t == <<c, s>> \o r
           p == Prefix[h]
<1>0. c \in STRING /\ s \in STRING /\ n \in STRING /\ s \notin {c, n}
  BY WordAssumption
<1>1. p \in Seq(STRING)
  BY TextAssumption
<1>2. t \in Seq(STRING) /\ Len(t) # 0 /\ t[1] = c
  <2> HIDE DEF c, s
  <2>1. \A x \in Seq(STRING) :
          <<c, s>> \o x \in Seq(STRING) /\ Len(<<c, s>> \o x) # 0 /\ (<<c, s>> \o x)[1] = c
    BY <1>0, FirstWord
  <2> QED BY <2>1
<1>3. m.topic = p \o t
  OBVIOUS
<1>4. CASE Prefix[g] # Prefix[h]
  <2>1. t[1] \in DOMAIN AsHex \cup {"control", "report"}
    BY <1>2
  <2> HIDE DEF t, c
  <2>2. OnPublish(g, m) = Nothing
    BY <1>2, <1>3, <1>4, <2>1, OtherPrefix
  <2> QED BY <1>4, <2>2 DEF Response
<1>5. CASE Prefix[g] = Prefix[h]
  <2>1. Matches(<<c, s, n>>, t)
    <3>1. <<c, "/", n>> \in Seq(STRING) /\ Levels(<<c, "/", n>>) = <<<<c>>, <<n>>>>
      <4> HIDE DEF c, n
      <4> QED BY <1>0, LevelsOfTwo
    <3>2. t = Under(<<c>>, r)
      <4> HIDE DEF c
      <4>1. <<c>> \o <<s>> = <<c, s>>
        BY <1>0, WordAndSlash
      <4> QED BY <4>1, Zenon DEF Under
    <3>3. Len(Levels(Under(<<c>>, r))) = Len(Levels(r)) + 1 /\ Levels(Under(<<c>>, r))[1] = <<c>>
      <4> HIDE DEF c
      <4>1. c \in STRING \ {"/"}
        BY <1>0
      <4>2. \A x \in Seq(STRING) :
              /\ Len(Levels(Under(<<c>>, x))) = Len(Levels(x)) + 1
              /\ Levels(Under(<<c>>, x))[1] = <<c>>
        BY <4>1, WordInFront
      <4> QED BY <4>2
    <3>4. Len(Levels(r)) \in Nat \ {0}
      BY LevelsType
    <3> DEFINE f == Levels(<<c, s, n>>)
               l == Levels(t)
    <3>5. Len(f) = 2 /\ f[1] = <<c>>
      BY <3>1
    <3>6. Len(l) = Len(Levels(r)) + 1 /\ l[1] = <<c>>
      BY <3>2, <3>3
    <3> HIDE DEF f, l
    <3>7. Len(l) >= Len(f) - 1 /\ \A i \in 1 .. Len(f) - 1 : f[i] \in {<<"+">>, l[i]}
      <4>1. \A i \in 1 .. Len(f) - 1 : i = 1
        BY <3>5
      <4> QED BY <3>4, <3>5, <3>6, <4>1
    <3> QED BY <3>7 DEF Matches, f, l
  <2>2. Matches(p \o <<c, s, n>>, m.topic)
    <3>1. <<c, s, n>> \in Seq(STRING)
      BY <1>0
    <3> HIDE DEF c, s, n, t
    <3>2. Matches(Prefix[h] \o <<c, s, n>>, Prefix[h] \o t)
      BY <1>2, <2>1, <3>1, MatchesBehind
    <3> QED BY <1>3, <3>2
  <2>3. p \o <<c, s, n>> \in Subscriptions(g)
    BY <1>5 DEF Subscriptions
  <2>4. Response(g, m) = OnPublish(g, m)
    BY <2>2, <2>3, Zenon DEF Response
  <2>5. IsPrefix(p, m.topic) /\ Rest(m.topic, p) = t
    <3> HIDE DEF p, t
    <3> QED BY <1>1, <1>2, <1>3, TextRest
  <2>6. IsPrefix(<<c, s>>, t) /\ Rest(t, <<c, s>>) = r
    <3> DEFINE q == <<c, s>>
    <3>1. q \in Seq(STRING)
      BY <1>0
    <3>2. t = q \o r
      OBVIOUS
    <3> HIDE DEF q, t
    <3>3. IsPrefix(q, t) /\ Rest(t, q) = r
      BY <3>1, <3>2, TextRest
    <3> QED BY <3>3 DEF q
  <2> HIDE DEF t
  <2>7. OnPublish(g, m) = Control(g, r, m.payload)
    BY <1>5, <2>5, <2>6 DEF OnPublish
  <2> QED BY <1>5, <2>4, <2>7
<1> QED BY <1>4, <1>5

\* What may be a level, and what may be a word of one.
Words == STRING \ {"/"}
Level == {n \in Seq(STRING) : n # <<>> /\ "/" \notin Range(n)}

\* The levels of a command: of the short form, and of the long form.
AreLevels(levels, d, e, w, a, b, x) ==
  /\ levels[1] = <<d>> /\ levels[2] = <<e>> /\ levels[3] = <<w>> /\ levels[4] = a
  /\ x = a => Len(levels) = 4
  /\ x # a => Len(levels) = 5 /\ levels[5] = b
  /\ <<>> \notin Range(levels)

LEMMA CommandLevels ==
  \A d, e, w \in Words, a, b \in Level : \A x \in {a, Under(a, b)} :
    AreLevels(Levels(ThreeWords(d, e, w) \o x), d, e, w, a, b, x)
<1> TAKE d, e, w \in Words, a, b \in Level
<1> TAKE x \in {a, Under(a, b)}
<1> DEFINE o == Levels(ThreeWords(d, e, w) \o x)
           k == Levels(x)
<1>0. /\ "/" \in STRING /\ d \in STRING /\ e \in STRING /\ w \in STRING /\ "/" \notin {d, e, w}
      /\ a \in Seq(STRING) /\ "/" \notin Range(a) /\ a # <<>>
      /\ b \in Seq(STRING) /\ "/" \notin Range(b) /\ b # <<>>
  BY WordAssumption DEF Words, Level
<1>1. Under(a, b) \in Seq(STRING) /\ x \in Seq(STRING)
  BY <1>0, UnderType
<1>2. Levels(a) = <<a>> /\ Levels(b) = <<b>>
  BY <1>0, LevelsWord
<1>3. Len(<<a>>) = 1 /\ <<a>>[1] = a /\ Len(<<b>>) = 1 /\ <<b>>[1] = b
  OBVIOUS
<1>4. x = a => Len(k) = 1 /\ k[1] = a
  BY <1>2, <1>3
<1>5. x # a => Len(k) = 2 /\ k[1] = a /\ k[2] = b
  <2> SUFFICES ASSUME x # a PROVE Len(k) = 2 /\ k[1] = a /\ k[2] = b
    OBVIOUS
  <2>1. \A t \in Seq(STRING) :
          /\ Len(Levels(Under(a, t))) = Len(Levels(t)) + 1
          /\ Levels(Under(a, t))[1] = a
          /\ \A i \in 1 .. Len(Levels(t)) : Levels(Under(a, t))[i + 1] = Levels(t)[i]
    BY <1>0, FirstLevel
  <2>2. k = Levels(Under(a, b))
    OBVIOUS
  <2> HIDE DEF k
  <2>3. Len(k) = Len(Levels(b)) + 1 /\ k[1] = a /\ \A i \in 1 .. Len(Levels(b)) : k[i + 1] = Levels(b)[i]
    BY <1>0, <2>1, <2>2, Zenon
  <2>4. Len(Levels(b)) = 1 /\ Levels(b)[1] = b
    BY <1>2, <1>3
  <2>5. k[1 + 1] = Levels(b)[1]
    BY <2>3, <2>4
  <2> QED BY <2>3, <2>4, <2>5
<1>6. /\ o[1] = <<d>> /\ o[2] = <<e>> /\ o[3] = <<w>>
      /\ Len(o) = Len(k) + 3
      /\ \A i \in 1 .. Len(k) : o[i + 3] = k[i]
  <2>1. \A y \in Seq(STRING) :
          LET levels == Levels(ThreeWords(d, e, w) \o y)
          IN /\ levels[1] = <<d>> /\ levels[2] = <<e>> /\ levels[3] = <<w>>
             /\ Len(levels) = Len(Levels(y)) + 3
             /\ \A i \in 1 .. Len(Levels(y)) : levels[i + 3] = Levels(y)[i]
    BY <1>0, LevelsOfWords, SMTT(30)
  <2> QED BY <1>1, <2>1
<1>7. DOMAIN o = 1 .. Len(o)
  <2>1. ThreeWords(d, e, w) \in Seq(STRING)
    BY <1>0, ThreeLevels
  <2>2. ThreeWords(d, e, w) \o x \in Seq(STRING)
    BY <1>1, <2>1, TextConcat
  <2>3. o \in Seq(Seq(STRING))
    BY <2>2, LevelsType
  <2> QED BY <2>3, LenProperties
<1> HIDE DEF o, k
<1>6a. \A i \in 1 .. Len(k) : o[i + 3] = k[i]
  BY <1>6
<1>8. o[4] = a /\ (x = a => Len(o) = 4) /\ (x # a => Len(o) = 5 /\ o[5] = b)
  <2>1. CASE x = a
    <3>1. Len(k) = 1 /\ k[1] = a
      BY <1>4, <2>1
    <3>2. o[1 + 3] = k[1] /\ 1 + 3 = 4
      BY <1>6a, <3>1
    <3>3. o[4] = a
      BY <3>1, <3>2
    <3> QED BY <1>6, <2>1, <3>1, <3>3
  <2>2. CASE x # a
    <3>1. Len(k) = 2 /\ k[1] = a /\ k[2] = b
      BY <1>5, <2>2
    <3>2. o[1 + 3] = k[1] /\ 1 + 3 = 4 /\ o[2 + 3] = k[2] /\ 2 + 3 = 5
      BY <1>6a, <3>1
    <3>3. o[4] = a /\ o[5] = b
      BY <3>1, <3>2
    <3> QED BY <1>6, <2>2, <3>1, <3>3
  <2> QED BY <2>1, <2>2
<1>9. <<>> \notin Range(o)
  <2> SUFFICES ASSUME NEW i \in 1 .. Len(o) PROVE o[i] # <<>>
    BY <1>7 DEF Range
  <2>1. i = 1 \/ i = 2 \/ i = 3 \/ i = 4 \/ (i = 5 /\ x # a)
    <3>1. CASE x = a
      <4>1. Len(o) = 4
        BY <1>8, <3>1
      <4> QED BY <4>1
    <3>2. CASE x # a
      <4>1. Len(o) = 5
        BY <1>8, <3>2
      <4> QED BY <3>2, <4>1
    <3> QED BY <3>1, <3>2
  <2>2. <<d>> # <<>> /\ <<e>> # <<>> /\ <<w>> # <<>>
    OBVIOUS
  <2> QED BY <1>0, <1>6, <1>8, <2>1, <2>2
<1> QED BY <1>6, <1>8, <1>9 DEF o, AreLevels

LEMMA SixAndWord ==
  ASSUME NEW S, NEW a \in S, NEW b \in S, NEW c \in S, NEW d \in S, NEW e \in S, NEW f \in S, NEW g \in S
  PROVE  <<a, b, c, d, e, f>> \o <<g>> = <<a, b, c, d, e, f, g>>
<1> DEFINE s == <<a, b, c, d, e, f>>
           t == <<g>>
           u == <<a, b, c, d, e, f, g>>
           v == s \o t
<1>1. /\ s \in Seq(S) /\ Len(s) = 6
      /\ s[1] = a /\ s[2] = b /\ s[3] = c /\ s[4] = d /\ s[5] = e /\ s[6] = f
      /\ t \in Seq(S) /\ Len(t) = 1 /\ t[1] = g
      /\ u \in Seq(S) /\ Len(u) = 7
      /\ u[1] = a /\ u[2] = b /\ u[3] = c /\ u[4] = d /\ u[5] = e /\ u[6] = f /\ u[7] = g
  OBVIOUS
<1> HIDE DEF s, t, u
<1>2. /\ v \in Seq(S) /\ Len(v) = Len(s) + Len(t)
      /\ \A i \in 1 .. Len(s) + Len(t) : v[i] = IF i <= Len(s) THEN s[i] ELSE t[i - Len(s)]
  BY <1>1, ConcatProperties
<1> HIDE DEF v
<1>3. Len(v) = 7 /\ \A i \in 1 .. 6 : v[i] = s[i]
  BY <1>1, <1>2
<1>4. v[7] = g
  BY <1>1, <1>2
<1>5. \A i \in 1 .. 7 : i = 1 \/ i = 2 \/ i = 3 \/ i = 4 \/ i = 5 \/ i = 6 \/ i = 7
  OBVIOUS
<1>6. \A i \in 1 .. Len(v) : v[i] = u[i]
  BY <1>1, <1>3, <1>4, <1>5
<1>7. v = u
  BY <1>1, <1>2, <1>3, <1>6, SeqEqual
<1> QED BY <1>7 DEF v, s, t, u

LEMMA OutFilter ==
  \A y, w, n \in STRING :
    /\ ThreeWords(y, y, w) \o <<n>> = <<y, "/", y, "/", w, "/", n>>
    /\ ThreeWords(y, y, w) \o <<n>> \in Seq(STRING)
<1>1. ASSUME NEW S, NEW s \in S, NEW y \in S, NEW w \in S, NEW n \in S
      PROVE  /\ <<y, s, y, s, w, s>> \o <<n>> = <<y, s, y, s, w, s, n>>
             /\ <<y, s, y, s, w, s, n>> \in Seq(S)
  BY SixAndWord
<1>2. \A s, y, w, n \in STRING :
        /\ <<y, s, y, s, w, s>> \o <<n>> = <<y, s, y, s, w, s, n>>
        /\ <<y, s, y, s, w, s, n>> \in Seq(STRING)
  BY <1>1, Zenon
<1>3. "/" \in STRING
  BY WordAssumption
<1>4. \A y, w, n \in STRING :
        /\ <<y, "/", y, "/", w, "/">> \o <<n>> = <<y, "/", y, "/", w, "/", n>>
        /\ <<y, "/", y, "/", w, "/", n>> \in Seq(STRING)
  BY <1>2, <1>3, Zenon
<1> QED BY <1>4, Zenon DEF ThreeWords

\* A topic of a command, and the answer to one.
Behind(h, d, e, x) == Prefix[h] \o (ThreeWords(d, e, "out") \o x)
Answer(h, g, d, e, a, b, x, payload) ==
  LET ep == AsDecimal[e] % EndpointMod
  IN IF Prefix[g] # Prefix[h] THEN Nothing
     ELSE IF x = a THEN OnPublishCommandShort(g, AsHex[d], ep, a, payload)
     ELSE OnPublishCommandLong(g, AsHex[d], ep, a, b, payload)

LEMMA CommandHeard ==
  ASSUME Apart
  PROVE  \A h, g \in Hubs, d \in DOMAIN AsHex, e \in DOMAIN AsDecimal, a, b \in Level :
           \A x \in {a, Under(a, b)} : \A m :
             m.topic = Behind(h, d, e, x) => Response(g, m) = Answer(h, g, d, e, a, b, x, m.payload)
<1> TAKE h, g \in Hubs, d \in DOMAIN AsHex, e \in DOMAIN AsDecimal, a, b \in Level
<1> TAKE x \in {a, Under(a, b)}
<1> TAKE m
<1> HAVE m.topic = Behind(h, d, e, x)
<1> DEFINE w == "out"
           p == Prefix[h]
           t == ThreeWords(d, e, w) \o x
           o == Levels(t)
<1>0. /\ d \in STRING /\ e \in STRING /\ w \in STRING /\ "/" \notin {d, e, w} /\ "/" \in STRING
      /\ d \in Words /\ e \in Words /\ w \in Words /\ d # "control"
      /\ a \in Seq(STRING) /\ b \in Seq(STRING)
  BY NumeralAssumption, WordAssumption DEF Words, Level
<1>1. p \in Seq(STRING) /\ x \in Seq(STRING)
  BY <1>0, TextAssumption, UnderType
<1>2. t \in Seq(STRING) /\ Len(t) # 0 /\ t[1] = d
  <2> DEFINE s == ThreeWords(d, e, w)
  <2>1. s \in Seq(STRING)
    <3> HIDE DEF w
    <3> QED BY <1>0, ThreeLevels
  <2>2. Len(s) = 6 /\ s[1] = d
    BY DEF ThreeWords
  <2> HIDE DEF s
  <2>3. /\ t \in Seq(STRING) /\ Len(t) = Len(s) + Len(x) /\ Len(x) \in Nat
        /\ \A j \in 1 .. Len(s) + Len(x) : t[j] = IF j <= Len(s) THEN s[j] ELSE x[j - Len(s)]
    <3>1. t = s \o x
      BY DEF s
    <3> HIDE DEF t
    <3> QED BY <1>1, <2>1, <3>1, TextConcat
  <2> HIDE DEF t
  <2>4. 1 \in 1 .. Len(s) + Len(x) /\ 1 <= Len(s) /\ Len(t) # 0
    BY <2>2, <2>3
  <2> QED BY <2>2, <2>3, <2>4
<1>3. m.topic = p \o t
  BY DEF Behind
<1>4. CASE Prefix[g] # Prefix[h]
  <2>1. t[1] \in DOMAIN AsHex \cup {"control", "report"}
    BY <1>2
  <2> HIDE DEF t
  <2>2. OnPublish(g, m) = Nothing
    BY <1>2, <1>3, <1>4, <2>1, OtherPrefix
  <2> QED BY <1>4, <2>2 DEF Response, Answer
<1>5. CASE Prefix[g] = Prefix[h]
  <2>1. /\ o[1] = <<d>> /\ o[2] = <<e>> /\ o[3] = <<w>> /\ o[4] = a
        /\ x = a => Len(o) = 4
        /\ x # a => Len(o) = 5 /\ o[5] = b
        /\ <<>> \notin Range(o)
    <3>1. AreLevels(o, d, e, w, a, b, x)
      <4> HIDE DEF w
      <4> QED BY <1>0, CommandLevels
    <3> QED BY <3>1 DEF AreLevels
  <2>2. Matches(p \o <<"+", "/", "+", "/", "out", "/", "#">>, m.topic)
    <3> DEFINE y == "+"
               n == "#"
               f == ThreeWords(y, y, w) \o <<n>>
               l == Levels(f)
    <3>1. y \in STRING /\ n \in STRING /\ "/" \notin {y, n}
      BY WordAssumption
    <3>2. f = <<"+", "/", "+", "/", "out", "/", "#">>
      <4>1. f = <<y, "/", y, "/", w, "/", n>>
        <5> HIDE DEF y, n, w
        <5> QED BY <1>0, <3>1, OutFilter
      <4> QED BY <4>1
    <3>3. /\ l[1] = <<y>> /\ l[2] = <<y>> /\ l[3] = <<w>> /\ Len(l) = 4
      <4> HIDE DEF y, n, w
      <4>1. \A z \in Seq(STRING) :
              LET levels == Levels(ThreeWords(y, y, w) \o z)
              IN /\ levels[1] = <<y>> /\ levels[2] = <<y>> /\ levels[3] = <<w>>
                 /\ Len(levels) = Len(Levels(z)) + 3
        BY <1>0, <3>1, LevelsOfWords, SMTT(30)
      <4>2. <<n>> \in Seq(STRING) /\ "/" \notin Range(<<n>>)
        BY <3>1 DEF Range
      <4>3. Levels(<<n>>) = <<<<n>>>>
        BY <4>2, LevelsWord
      <4>4. Len(Levels(<<n>>)) = 1
        BY <4>3
      <4>5. l[1] = <<y>> /\ l[2] = <<y>> /\ l[3] = <<w>> /\ Len(l) = Len(Levels(<<n>>)) + 3
        BY <4>1, <4>2, Zenon
      <4> HIDE DEF l
      <4>6. Len(l) = 4
        <5>1. PICK k : k = Len(Levels(<<n>>))
          OBVIOUS
        <5>2. k + 3 = 4
          BY <4>4, <5>1
        <5> QED BY <4>5, <5>1, <5>2, Zenon
      <4> QED BY <4>5, <4>6
    <3>4. f \in Seq(STRING)
      <4> HIDE DEF y, n, w
      <4> QED BY <1>0, <3>1, OutFilter
    <3>5. Matches(f, t)
      <4>1. <<y>> = <<"+">>
        OBVIOUS
      <4> HIDE DEF l, o, y, w
      <4>2. Len(o) >= Len(l) - 1
        BY <2>1, <3>3
      <4>3. \A i \in 1 .. Len(l) - 1 : l[i] \in {<<"+">>, o[i]}
        <5>1. \A i \in 1 .. Len(l) - 1 : i = 1 \/ i = 2 \/ i = 3
          BY <3>3
        <5> QED BY <2>1, <3>3, <4>1, <5>1
      <4> QED BY <4>2, <4>3 DEF Matches, l, o
    <3> HIDE DEF f, t
    <3>6. Matches(Prefix[h] \o f, Prefix[h] \o t)
      BY <1>2, <3>4, <3>5, MatchesBehind
    <3> QED BY <1>3, <3>2, <3>6
  <2>3. p \o <<"+", "/", "+", "/", "out", "/", "#">> \in Subscriptions(g)
    BY <1>5 DEF Subscriptions
  <2>4. Response(g, m) = OnPublish(g, m)
    BY <2>2, <2>3, Zenon DEF Response
  <2>5. IsPrefix(p, m.topic) /\ Rest(m.topic, p) = t
    <3> HIDE DEF p, t
    <3>1. IsPrefix(p, p \o t) /\ Rest(p \o t, p) = t
      BY <1>1, <1>2, TextRest, Zenon
    <3> QED BY <1>3, <3>1
  <2>6. ~IsPrefix(<<"control", "/">>, t)
    <3> DEFINE q == <<"control", "/">>
    <3>1. q \in Seq(STRING) /\ Len(q) = 2 /\ q[1] = "control"
      <4>1. {"control", "/"} \subseteq STRING
        BY WordAssumption
      <4> QED BY <4>1, TwoElements
    <3> HIDE DEF q, t
    <3>2. 1 \in 1 .. Len(q) /\ q[1] # t[1]
      BY <1>0, <1>2, <3>1
    <3>3. ~IsPrefix(q, t)
      BY <1>2, <3>1, <3>2, TextPrefix
    <3> QED BY <3>3 DEF q
  <2>7. IsNumeral(o[1], AsHex) /\ IsNumeral(o[2], AsDecimal) /\ o[1][1] = d /\ o[2][1] = e
    <3>1. Len(<<d>>) = 1 /\ <<d>>[1] = d /\ Len(<<e>>) = 1 /\ <<e>>[1] = e
      OBVIOUS
    <3> HIDE DEF o
    <3> QED BY <2>1, <3>1 DEF IsNumeral
  <2> HIDE DEF t
  <2>8. OnPublish(g, m) =
          IF Len(o) = 4 THEN OnPublishCommandShort(g, AsHex[d], AsDecimal[e] % EndpointMod, a, m.payload)
          ELSE OnPublishCommandLong(g, AsHex[d], AsDecimal[e] % EndpointMod, a, o[5], m.payload)
    <3>1. o = Levels(Rest(m.topic, Prefix[g]))
      BY <1>5, <2>5
    <3>2. Rest(m.topic, Prefix[g]) = t /\ IsPrefix(Prefix[g], m.topic)
      BY <1>5, <2>5
    <3> HIDE DEF o
    <3>3. Len(o) \in {4, 5} /\ o[3] = <<"out">>
      BY <2>1
    <3>4. EndpointOf(o[2]) = AsDecimal[e] % EndpointMod
      BY <2>7 DEF EndpointOf
    <3> QED BY <2>1, <2>6, <2>7, <3>1, <3>2, <3>3, <3>4 DEF OnPublish
  <2> HIDE DEF o
  <2> QED BY <1>5, <2>1, <2>4, <2>8 DEF Answer
<1> QED BY <1>4, <1>5

\* The command of a file is found by its names.
Asked(c, is_global) == IF is_global THEN Globals(file) ELSE CommandsOf(c, "clientToServer")

LEMMA FoundByName ==
  ASSUME file \in Files, ParseFromPTree(file) # Refused, db = ParseFromPTree(file), DistinctNames,
         NEW c \in Clusters(file), NEW is_global \in BOOLEAN, NEW k \in Asked(c, is_global)
  PROVE  \E cluster, command :
           /\ cluster = ClusterByName(db, Documented(c.data)) /\ cluster # Nothing
           /\ cluster.id = Id(c.key)
           /\ command = CommandByName(db, cluster.id, "clientToServer", Documented(k.data))
           /\ command # Nothing /\ command.id = Id(k.key) /\ command.is_global = is_global
           /\ command.data = ObjectType(k.sub) /\ ObjectType(k.sub) # Refused
<1> DEFINE of == [x \in Clusters(file) |-> ParseClusterInfo(x)]
           name == Documented(k.data)
           to == "clientToServer"
<1>1. /\ Holds(db.global_commands, Records(TRUE, Globals(file)))
      /\ Holds(db.clusters, of)
  BY FileHolds
<1>2. PICK cluster : cluster = of[c] /\ cluster = ParseClusterInfo(c) /\ cluster # Refused
  BY <1>1 DEF Holds
<1>3. /\ cluster.id = Id(c.key) /\ cluster.name = Documented(c.data) /\ cluster # Nothing
      /\ Holds(cluster.commands[to], Records(FALSE, CommandsOf(c, to)))
  <2>1. cluster.name = MakeNameSafeForMqtt(c.data)
    BY <1>2, ClusterHolds
  <2> QED BY <1>2, <2>1, ClusterHolds DEF Documented, MakeNameSafeForMqtt, Directions
<1>4. ClusterByName(db, Documented(c.data)) = cluster /\ ClusterById(db, cluster.id) = cluster
  <2>1. c \in DOMAIN of /\ of[c].name = Documented(c.data) /\ of[c].id = cluster.id
    BY <1>2, <1>3
  <2> HIDE DEF of
  <2>2. FindByName(db.clusters, of[c].name) = of[c] /\ FindById(db.clusters, of[c].id) = of[c]
    BY <1>1, <2>1, Found
  <2> QED BY <1>2, <2>1, <2>2 DEF ClusterByName, ClusterById
<1> HIDE DEF of
<1>5. PICK g, command :
        /\ command = CommandByName(db, cluster.id, to, name)
        /\ command = ParseCommand(g, k) /\ command # Refused /\ command # Nothing
        /\ g = is_global
  <2>1. CASE is_global
    <3>1. PICK h : h = TRUE
      OBVIOUS
    <3>2. Holds(db.global_commands, Records(h, Globals(file)))
      BY <1>1, <3>1
    <3>3. k \in Globals(file)
      BY <2>1 DEF Asked
    <3>4. /\ FindByName(db.global_commands, name) = ParseCommand(h, k)
          /\ ParseCommand(h, k) # Refused /\ ParseCommand(h, k) # Nothing
      BY <3>2, <3>3, CommandFound
    <3>5. CommandByName(db, cluster.id, to, name) = ParseCommand(h, k)
      BY <3>4 DEF CommandByName
    <3>6. h = is_global
      BY <2>1, <3>1
    <3> QED BY <3>4, <3>5, <3>6
  <2>2. CASE ~is_global
    <3>1. PICK h : h = FALSE
      OBVIOUS
    <3>2. Holds(cluster.commands[to], Records(h, CommandsOf(c, to)))
      BY <1>3, <3>1
    <3>3. k \in CommandsOf(c, to)
      BY <2>2 DEF Asked
    <3>4. /\ FindByName(cluster.commands[to], name) = ParseCommand(h, k)
          /\ ParseCommand(h, k) # Refused /\ ParseCommand(h, k) # Nothing
      BY <3>2, <3>3, CommandFound
    <3>5. name \notin Names(Globals(file))
      <4>1. name \in Names(CommandsOf(c, to))
        BY <3>3 DEF Names
      <4> QED BY <4>1 DEF DistinctNames
    <3>6. PICK f : f = TRUE
      OBVIOUS
    <3>7. Holds(db.global_commands, Records(f, Globals(file)))
      BY <1>1, <3>6
    <3>8. FindByName(db.global_commands, name) = Nothing
      BY <3>5, <3>7, CommandFound
    <3>9. CommandByName(db, cluster.id, to, name) = ParseCommand(h, k)
      BY <1>3, <1>4, <3>4, <3>8 DEF CommandByName
    <3>10. h = is_global
      BY <2>2, <3>1
    <3> QED BY <3>4, <3>9, <3>10
  <2> QED BY <2>1, <2>2
<1>6. /\ command = [id |-> Id(k.key), name |-> MakeNameSafeForMqtt(k.data),
                    is_global |-> g, data |-> ObjectType(k.sub)]
      /\ ObjectType(k.sub) # Refused
  BY <1>5, CommandRecord
<1>7. command.id = Id(k.key) /\ command.is_global = is_global /\ command.data = ObjectType(k.sub)
  BY <1>5, <1>6
<1> QED BY <1>3, <1>4, <1>5, <1>6, <1>7

\* A command is sent to a device of the network, unless its arguments are missing.
LEMMA CommandSent ==
  ASSUME file \in Files, ParseFromPTree(file) # Refused, db = ParseFromPTree(file), DistinctNames,
         NEW c \in Clusters(file), NEW is_global \in BOOLEAN, NEW k \in Asked(c, is_global),
         NEW h \in Hubs, NEW dev, NEW ep, NEW json \in {Null, Arguments}
  PROVE  OnPublishCommand(h, dev, ep, Documented(c.data), Documented(k.data), json) =
           IF dev \in Joined[h] /\ (json = Null => k.sub = <<>>)
           THEN [act |-> "command", device |-> dev, endpoint |-> ep, cluster |-> Id(c.key),
                 command |-> Id(k.key), is_global |-> is_global]
           ELSE Nothing
<1>1. PICK cluster, command :
        /\ cluster = ClusterByName(db, Documented(c.data)) /\ cluster # Nothing
        /\ cluster.id = Id(c.key)
        /\ command = CommandByName(db, cluster.id, "clientToServer", Documented(k.data))
        /\ command # Nothing /\ command.id = Id(k.key) /\ command.is_global = is_global
        /\ command.data = ObjectType(k.sub) /\ ObjectType(k.sub) # Refused
  BY FoundByName
<1>2. OnPublishCommand(h, dev, ep, Documented(c.data), Documented(k.data), json)
        = SendCommand(h, dev, ep, cluster, command, json)
  BY <1>1 DEF OnPublishCommand
<1>3. ObjectType(k.sub).properties = <<>> <=> k.sub = <<>>
  <2>1. PICK e \in Range(file) :
          k \in Range(e.sub) \cup UNION {Range(s.sub) : s \in Range(e.sub)}
    BY DEF Asked, Globals, Clusters, CommandsOf
  <2> QED BY <1>1, <2>1, ObjectTypeAssumption
<1>4. Arguments # Null
  <2>1. DOMAIN [obj |-> <<>>] # DOMAIN [null |-> TRUE]
    OBVIOUS
  <2>2. Object(<<>>) # [null |-> TRUE]
    BY <2>1 DEF Object
  <2>3. Arguments.json = Object(<<>>) /\ Null.json = [null |-> TRUE]
    BY DEF Arguments, Null, Json
  <2> QED BY <2>2, <2>3
<1>5. IsEncoded(command.data, json) <=> (json = Null => k.sub = <<>>)
  BY <1>1, <1>3, <1>4 DEF IsEncoded
<1> QED BY <1>1, <1>2, <1>5 DEF SendCommand

\* The payloads of the two forms say the same.
LEMMA ArgumentsJson ==
  /\ Arguments # Null /\ Arguments # Text(<<>>) /\ Null # Text(<<>>)
  /\ "json" \in DOMAIN Arguments
  /\ Arguments.json # Nothing /\ Json(Arguments.json) = Arguments
<1>1. /\ DOMAIN [obj |-> <<>>] = {"obj"} /\ DOMAIN [null |-> TRUE] = {"null"}
      /\ DOMAIN [nothing |-> TRUE] = {"nothing"}
  OBVIOUS
<1>2. Object(<<>>) # [null |-> TRUE] /\ Object(<<>>) # Nothing
  BY <1>1 DEF Object, Nothing
<1>3. Arguments = [json |-> Object(<<>>)] /\ Null = [json |-> [null |-> TRUE]]
  BY DEF Arguments, Null, Json
<1>4. \A v : [json |-> v].json = v /\ DOMAIN [json |-> v] = {"json"}
  OBVIOUS
<1>5. DOMAIN Text(<<>>) = {"text"}
  BY DEF Text
<1>6. Arguments.json = Object(<<>>) /\ Null.json = [null |-> TRUE]
      /\ DOMAIN Arguments = {"json"} /\ DOMAIN Null = {"json"}
  BY <1>3, <1>4, Zenon
<1>7. Arguments # Text(<<>>) /\ Null # Text(<<>>)
  BY <1>5, <1>6
<1>8. Json(Arguments.json) = Arguments
  BY <1>3, <1>6 DEF Json
<1> QED BY <1>2, <1>6, <1>7, <1>8

LEMMA LongFormSent ==
  ASSUME NEW h, NEW dev, NEW ep, NEW a, NEW b, NEW args \in {Null, Arguments}
  PROVE  OnPublishCommandLong(h, dev, ep, a, b, IF args = Null THEN Text(<<>>) ELSE args)
           = OnPublishCommand(h, dev, ep, a, b, args)
BY ArgumentsJson DEF OnPublishCommandLong

ShortPayload(b, args) ==
  Json(Object(<<<<<<"command">>, Leaf(b)>>>>
              \o IF args = Null THEN <<>> ELSE <<<<<<"arguments">>, args.json>>>>))

LEMMA ShortFormSent ==
  ASSUME NEW h, NEW dev, NEW ep, NEW a, NEW b, NEW args \in {Null, Arguments}
  PROVE  OnPublishCommandShort(h, dev, ep, a, ShortPayload(b, args))
           = OnPublishCommand(h, dev, ep, a, b, args)
<1> DEFINE c == <<"command">>
           g == <<"arguments">>
           p1 == <<c, Leaf(b)>>
           p2 == <<g, args.json>>
           none == <<>>
           rest == IF args = Null THEN none ELSE <<p2>>
           o == <<p1>> \o rest
           payload == ShortPayload(b, args)
<1>1. payload.json.obj = o /\ "json" \in DOMAIN payload /\ "obj" \in DOMAIN payload.json
  BY DEF ShortPayload, Json, Object
<1>2. o = IF args = Null THEN <<p1>> ELSE <<p1, p2>>
  <2> DEFINE S == {p1, p2}
  <2>1. p1 \in S /\ p2 \in S
    OBVIOUS
  <2> HIDE DEF p1, p2, S
  <2>2. <<p1>> \o <<p2>> = <<p1, p2>>
    BY <2>1, WordAndSlash
  <2>3. <<p1>> \in Seq(S)
    BY <2>1
  <2>4. <<p1>> \o none = <<p1>>
    BY <2>3, ConcatEmptySeq
  <2> QED BY <2>2, <2>4
<1>3. c # g
  <2>1. c[1] # g[1]
    OBVIOUS
  <2> QED BY <2>1
<1>4. Leaf(b).leaf = b /\ Leaf(b) # Nothing
  <2>1. DOMAIN Leaf(b) = {"leaf"} /\ DOMAIN Nothing = {"nothing"}
    BY DEF Leaf, Nothing
  <2>2. Leaf(b).leaf = b
    BY DEF Leaf
  <2> QED BY <2>1, <2>2
<1>5. p1[1] = c /\ p1[2] = Leaf(b) /\ p2[1] = g /\ p2[2] = args.json
  OBVIOUS
<1>6. /\ DOMAIN o = IF args = Null THEN {1} ELSE {1, 2}
      /\ o[1] = p1 /\ (args # Null => o[2] = p2)
  <2>1. CASE args = Null
    <3>1. o = <<p1>>
      BY <1>2, <2>1
    <3> HIDE DEF o, p1
    <3> QED BY <2>1, <3>1
  <2>2. CASE args # Null
    <3>1. o = <<p1, p2>>
      BY <1>2, <2>2
    <3> HIDE DEF o, p1, p2
    <3> QED BY <2>2, <3>1
  <2> QED BY <2>1, <2>2
<1> HIDE DEF o, p1, p2, rest, c, g
<1>7. Member(o, c) = Leaf(b)
  <2>1. \A i \in DOMAIN o : o[i][1] = c => i = 1
    BY <1>3, <1>5, <1>6
  <2>2. 1 \in DOMAIN o /\ o[1][1] = c
    BY <1>5, <1>6
  <2>3. (CHOOSE i \in DOMAIN o : o[i][1] = c) = 1
    BY <2>1, <2>2
  <2> QED BY <1>5, <1>6, <2>2, <2>3 DEF Member
<1>8. CASE args = Null
  <2>1. ~\E i \in DOMAIN o : o[i][1] = g
    BY <1>3, <1>5, <1>6, <1>8
  <2>2. Member(o, g) = Nothing
    BY <2>1 DEF Member
  <2> QED BY <1>1, <1>4, <1>7, <1>8, <2>2 DEF OnPublishCommandShort, c, g
<1>9. CASE args # Null
  <2>1. \A i \in DOMAIN o : o[i][1] = g => i = 2
    BY <1>3, <1>5, <1>6, <1>9
  <2>2. 2 \in DOMAIN o /\ o[2][1] = g
    BY <1>5, <1>6, <1>9
  <2>3. (CHOOSE i \in DOMAIN o : o[i][1] = g) = 2
    BY <2>1, <2>2
  <2>4. Member(o, g) = args.json
    BY <1>5, <1>6, <1>9, <2>2, <2>3 DEF Member
  <2>5. args = Arguments
    BY <1>9
  <2> QED BY <1>1, <1>4, <1>7, <2>4, <2>5, ArgumentsJson DEF OnPublishCommandShort, c, g
<1> QED BY <1>8, <1>9

\* A name of the file is a level of a topic.
LEMMA NameLevels ==
  ASSUME file \in Files, NamesLeft,
         NEW c \in Clusters(file), NEW is_global \in BOOLEAN, NEW k \in Asked(c, is_global)
  PROVE  Documented(c.data) \in Level /\ Documented(k.data) \in Level
<1>1. k \in CommandsIn(c, is_global)
  BY DEF Asked, CommandsIn, Directions
<1>2. c.data \in Seq(STRING) /\ k.data \in Seq(STRING)
  BY <1>1, CommandTexts
<1>3. /\ Documented(c.data) \in Seq(STRING) /\ "/" \notin Range(Documented(c.data))
      /\ Documented(k.data) \in Seq(STRING) /\ "/" \notin Range(Documented(k.data))
  BY <1>2, SafeName
<1>4. {c, k} \subseteq {c} \cup Globals(file) \cup CommandsOf(c, "clientToServer")
  BY DEF Asked
<1>5. Documented(c.data) # <<>> /\ Documented(k.data) # <<>>
  BY <1>4 DEF NamesLeft, Names
<1> QED BY <1>3, <1>5 DEF Level

\* The topics of a command.
CommandText(h, d, e, a) == Prefix[h] \o <<d, "/", e, "/", "out", "/">> \o a

LEMMA CommandTopics ==
  \A h \in Hubs, dev, e \in Words, a, b \in Level :
    /\ CommandText(h, dev, e, a) = Behind(h, dev, e, a)
    /\ Under(CommandText(h, dev, e, a), b) = Behind(h, dev, e, Under(a, b))
<1> TAKE h \in Hubs, dev, e \in Words, a, b \in Level
<1> DEFINE w == "out"
           p == Prefix[h]
           t == ThreeWords(dev, e, w)
           s == <<"/">>
           u == CommandText(h, dev, e, a)
<1>1. p \in Texts /\ a \in Texts /\ b \in Texts
  BY TextAssumption DEF Texts, Level
<1>2. t \in Texts /\ s \in Texts
  <2>1. w \in STRING /\ "/" \in STRING /\ dev \in STRING /\ e \in STRING
    BY WordAssumption DEF Words
  <2> HIDE DEF w
  <2>2. ThreeWords(dev, e, w) \in Seq(STRING)
    BY <2>1, ThreeLevels
  <2>3. s \in Seq(STRING)
    BY <2>1
  <2> QED BY <2>2, <2>3 DEF Texts
<1>3. u = Cat(Cat(p, t), a)
  BY DEF Cat, ThreeWords, CommandText
<1>4. Under(a, b) = Cat(Cat(a, s), b) /\ Under(u, b) = Cat(Cat(u, s), b)
  BY DEF Cat, Under
<1> HIDE DEF p, t, s, u
<1>5. u = Cat(p, Cat(t, a))
  BY <1>1, <1>2, <1>3, CatAssociative
<1>6. Under(u, b) = Cat(p, Cat(t, Under(a, b)))
  <2>1. PICK v : v = Cat(t, a) /\ v \in Texts
    BY <1>1, <1>2, CatType
  <2>2. PICK x : x = Cat(a, s) /\ x \in Texts
    BY <1>1, <1>2, CatType
  <2>3. PICK y : y = Cat(v, s) /\ y \in Texts
    BY <1>2, <2>1, CatType
  <2>4. y = Cat(t, x)
    BY <1>1, <1>2, <2>1, <2>2, <2>3, CatAssociative
  <2>5. Cat(u, s) = Cat(p, y)
    BY <1>1, <1>2, <1>5, <2>1, <2>3, CatAssociative
  <2>6. Cat(Cat(p, y), b) = Cat(p, Cat(y, b))
    BY <1>1, <2>3, CatAssociative
  <2>7. Cat(y, b) = Cat(t, Cat(x, b))
    BY <1>1, <1>2, <2>2, <2>4, CatAssociative
  <2> QED BY <1>4, <2>2, <2>5, <2>6, <2>7
<1> QED BY <1>5, <1>6 DEF Cat, Behind, p, t, u

\* What a hub does for a command: nothing if it is for the hubs of another prefix.
LEMMA CommandActs ==
  ASSUME Apart, file \in Files, ParseFromPTree(file) # Refused, db = ParseFromPTree(file),
         DistinctNames, NamesLeft,
         NEW h \in Hubs, NEW g \in Hubs, NEW dev \in DOMAIN AsHex, NEW ep \in Endpoints,
         NEW c \in Clusters(file), NEW is_global \in BOOLEAN, NEW k \in Asked(c, is_global),
         NEW args \in {Null, Arguments},
         NEW m \in {LongForm(h, dev, ep, c, k, args), ShortForm(h, dev, ep, c, k, args)}
  PROVE  Response(g, m) =
           IF Prefix[g] # Prefix[h] THEN Nothing
           ELSE IF AsHex[dev] \in Joined[g] /\ (args = Null => k.sub = <<>>)
           THEN [act |-> "command", device |-> AsHex[dev], endpoint |-> ep,
                 cluster |-> Id(c.key), command |-> Id(k.key), is_global |-> is_global]
           ELSE Nothing
<1> DEFINE a == Documented(c.data)
           b == Documented(k.data)
           e == Decimal[ep]
           long == LongForm(h, dev, ep, c, k, args)
           short == ShortForm(h, dev, ep, c, k, args)
<1>1. a \in Level /\ b \in Level
  BY NameLevels
<1>2. dev \in Words /\ e \in Words /\ e \in DOMAIN AsDecimal /\ AsDecimal[e] = ep
  BY NumeralAssumption DEF Words
<1>3. AsDecimal[e] % EndpointMod = ep
  <2>1. PICK n \in Nat \ {0} : n = EndpointMod /\ ep \in 0 .. n - 1
    BY NumeralAssumption
  <2>2. \A i \in 0 .. n - 1 : i % n = i
    OBVIOUS
  <2> QED BY <1>2, <2>1, <2>2
<1>4. /\ long.topic = Behind(h, dev, e, Under(a, b))
      /\ short.topic = Behind(h, dev, e, a)
  <2>1. /\ long.topic = Under(CommandText(h, dev, e, a), b)
        /\ short.topic = CommandText(h, dev, e, a)
    BY DEF LongForm, ShortForm, Message, UserTopic, CommandText
  <2> HIDE DEF a, b, e
  <2> QED BY <1>1, <1>2, <2>1, CommandTopics
<1>5. /\ long.payload = IF args = Null THEN Text(<<>>) ELSE args
      /\ short.payload = ShortPayload(b, args)
  BY DEF LongForm, ShortForm, Message, ShortPayload
<1>6. Under(a, b) # a
  <2> HIDE DEF a, b
  <2>1. a \in Seq(STRING) /\ b \in Seq(STRING) /\ "/" \in STRING
    BY <1>1, WordAssumption DEF Level
  <2>2. Len(Under(a, b)) = Len(a) + 1 + Len(b)
    BY <2>1, UnderType
  <2>3. Len(a) \in Nat /\ Len(b) \in Nat
    BY <2>1, LenProperties
  <2> QED BY <2>2, <2>3
<1>7. OnPublishCommand(g, AsHex[dev], ep, a, b, args) =
        IF AsHex[dev] \in Joined[g] /\ (args = Null => k.sub = <<>>)
        THEN [act |-> "command", device |-> AsHex[dev], endpoint |-> ep,
              cluster |-> Id(c.key), command |-> Id(k.key), is_global |-> is_global]
        ELSE Nothing
  BY CommandSent
<1> HIDE DEF a, b, e, long, short
<1>8. \A x \in {a, Under(a, b)} :
        m.topic = Behind(h, dev, e, x) => Response(g, m) = Answer(h, g, dev, e, a, b, x, m.payload)
  BY <1>1, <1>2, CommandHeard
<1>9. CASE m = long
  <2>1. Response(g, m) = IF Prefix[g] # Prefix[h] THEN Nothing
                         ELSE OnPublishCommandLong(g, AsHex[dev], ep, a, b, m.payload)
    BY <1>3, <1>4, <1>6, <1>8, <1>9 DEF Answer
  <2>2. OnPublishCommandLong(g, AsHex[dev], ep, a, b, m.payload)
          = OnPublishCommand(g, AsHex[dev], ep, a, b, args)
    BY <1>5, <1>9, LongFormSent
  <2> QED BY <1>7, <2>1, <2>2
<1>10. CASE m = short
  <2>1. Response(g, m) = IF Prefix[g] # Prefix[h] THEN Nothing
                         ELSE OnPublishCommandShort(g, AsHex[dev], ep, a, m.payload)
    BY <1>3, <1>4, <1>8, <1>10 DEF Answer
  <2>2. OnPublishCommandShort(g, AsHex[dev], ep, a, m.payload)
          = OnPublishCommand(g, AsHex[dev], ep, a, b, args)
    BY <1>5, <1>10, ShortFormSent
  <2> QED BY <1>7, <2>1, <2>2
<1> QED BY <1>9, <1>10 DEF long, short

\* The ends of texts.
LEMMA TextEnds ==
  /\ \A s, t, u, v \in Texts : Len(u) = Len(v) /\ Cat(s, u) = Cat(t, v) => s = t /\ u = v
  /\ \A s, t \in Texts : IsPrefix(s, t) => Rest(t, s) \in Texts /\ t = Cat(s, Rest(t, s))
  /\ \A s, t \in Texts : IsPrefix(s, Cat(s, t)) /\ Rest(Cat(s, t), s) = t
  /\ \A t \in Texts : Cat(<<>>, t) = t
  /\ <<>> \in Texts
<1>1. \A s, t, u, v \in Seq(STRING) : Len(u) = Len(v) /\ s \o u = t \o v => s = t /\ u = v
  BY SameEnd, ZenonT(30)
<1>2. \A s, t \in Seq(STRING) : IsPrefix(s, t) => Rest(t, s) \in Seq(STRING) /\ t = s \o Rest(t, s)
  BY PrefixAndRest
<1>3. \A s, t \in Seq(STRING) : IsPrefix(s, s \o t) /\ Rest(s \o t, s) = t
  BY TextRest
<1>4. \A t \in Seq(STRING) : <<>> \o t = t
  BY ConcatEmptySeq
<1>5. <<>> \in Seq(STRING)
  BY EmptySeq
<1>6. \A s, t, u, v \in Texts : Len(u) = Len(v) /\ Cat(s, u) = Cat(t, v) => s = t /\ u = v
  BY <1>1, Zenon DEF Texts, Cat
<1>7. \A s, t \in Texts : IsPrefix(s, t) => Rest(t, s) \in Texts /\ t = Cat(s, Rest(t, s))
  BY <1>2, Zenon DEF Texts, Cat
<1>8. \A s, t \in Texts : IsPrefix(s, Cat(s, t)) /\ Rest(Cat(s, t), s) = t
  BY <1>3, Zenon DEF Texts, Cat
<1>9. \A t \in Texts : Cat(<<>>, t) = t
  BY <1>4, Zenon DEF Texts, Cat
<1> QED BY <1>5, <1>6, <1>7, <1>8, <1>9 DEF Texts

\* An instance is known by its slash.
AnyInstance == {<<>>} \cup {Instance[h] : h \in Hubs}

LEMMA InstanceTopics ==
  ASSUME Apart, NEW g \in Hubs, NEW i \in AnyInstance
  PROVE  /\ WithSlash(i) \in Texts
         /\ WithSlash(i) = <<>> <=> i = <<>>
         /\ WithSlash(i) = WithSlash(Instance[g]) <=> i = Instance[g]
<1>1. \A j \in Seq(STRING) : WithSlash(j) \in Seq(STRING) /\ (WithSlash(j) = <<>> <=> j = <<>>)
  <2> TAKE j \in Seq(STRING)
  <2>1. "/" \in STRING
    BY WordAssumption
  <2>2. Append(j, "/") # <<>>
    <3>1. Len(Append(j, "/")) # 0
      BY <2>1, AppendFirst
    <3> QED BY <3>1, EmptySeq
  <2> QED BY <2>2, WithSlashType DEF WithSlash
<1>2. i \in Seq(STRING) /\ Instance[g] \in Seq(STRING)
  BY TextAssumption, EmptySeq DEF AnyInstance
<1>3. WithSlash(i) = WithSlash(Instance[g]) <=> i = Instance[g]
  <2>1. CASE i = <<>>
    BY <1>1, <1>2, <2>1
  <2>2. CASE i # <<>>
    <3>1. PICK h \in Hubs : i = Instance[h]
      BY <2>2 DEF AnyInstance
    <3> QED BY <3>1 DEF Apart
  <2> QED BY <2>1, <2>2
<1> QED BY <1>1, <1>2, <1>3 DEF Texts

PermitJoinText == <<"permitjoin">>
DirectJoinText == <<"directjoin", "/">>
Word(w) == <<w>>

LEMMA ControlWords ==
  /\ PermitJoinText \in Texts /\ Len(PermitJoinText) = 1 /\ PermitJoinText[1] = "permitjoin"
  /\ DirectJoinText \in Texts
  /\ \A w \in STRING : Word(w) \in Texts /\ Len(Word(w)) = 1 /\ Word(w)[1] = w
<1>1. {"permitjoin", "directjoin", "/"} \subseteq STRING
  BY WordAssumption
<1>2. \A a, b \in STRING : <<a, b>> \in Seq(STRING)
  BY TwoElements
<1>3. \A w \in STRING : <<w>> \in Seq(STRING) /\ Len(<<w>>) = 1 /\ <<w>>[1] = w
  <2>1. ASSUME NEW S, NEW w \in S
        PROVE  <<w>> \in Seq(S) /\ Len(<<w>>) = 1 /\ <<w>>[1] = w
    OBVIOUS
  <2> QED BY <2>1
<1>4. PermitJoinText \in Texts /\ Len(PermitJoinText) = 1 /\ PermitJoinText[1] = "permitjoin"
  BY <1>1, <1>3, Zenon DEF PermitJoinText, Texts
<1>5. DirectJoinText \in Texts
  BY <1>1, <1>2, Zenon DEF DirectJoinText, Texts
<1> QED BY <1>3, <1>4, <1>5, Zenon DEF Word, Texts

\* What a hub makes of the topics behind "control".
LEMMA ControlPermitJoin ==
  ASSUME Apart, NEW g \in Hubs, NEW i \in AnyInstance, NEW payload
  PROVE  Control(g, Cat(WithSlash(i), PermitJoinText), payload)
           = IF i \in {<<>>, Instance[g]} THEN OnPublishPermitJoin(payload) ELSE Nothing
<1> DEFINE own == WithSlash(Instance[g])
           w == WithSlash(i)
           p == PermitJoinText
           d == DirectJoinText
           topic == Cat(w, p)
           device == Rest(topic, Cat(own, d))
<1>1. /\ w \in Texts /\ own \in Texts /\ (w = <<>> <=> i = <<>>) /\ (w = own <=> i = Instance[g])
  <2>1. Instance[g] \in AnyInstance
    BY DEF AnyInstance
  <2> QED BY <2>1, InstanceTopics
<1>2. p \in Texts /\ Len(p) = 1 /\ p[1] = "permitjoin" /\ d \in Texts
  BY ControlWords
<1>3. Control(g, topic, payload) =
        IF topic \in {p, Cat(own, p)} THEN OnPublishPermitJoin(payload)
        ELSE IF IsPrefix(Cat(own, d), topic) /\ IsNumeral(device, AsHex)
        THEN [act |-> "directjoin", device |-> AsHex[device[1]]]
        ELSE Nothing
  BY DEF Control, Cat, PermitJoinText, DirectJoinText
<1> HIDE DEF p, d, own, w
<1>4. topic \in {p, Cat(own, p)} <=> i \in {<<>>, Instance[g]}
  <2>1. topic = p <=> w = <<>>
    <3>1. p = Cat(<<>>, p)
      BY <1>2, TextEnds
    <3> QED BY <1>1, <1>2, <3>1, TextEnds
  <2>2. topic = Cat(own, p) <=> w = own
    BY <1>1, <1>2, TextEnds
  <2> QED BY <1>1, <2>1, <2>2
<1>5. ~(IsPrefix(Cat(own, d), topic) /\ IsNumeral(device, AsHex))
  <2> SUFFICES ASSUME IsPrefix(Cat(own, d), topic), IsNumeral(device, AsHex) PROVE FALSE
    OBVIOUS
  <2>1. topic \in Texts /\ Cat(own, d) \in Texts
    BY <1>1, <1>2, CatType
  <2>2. device \in Texts /\ topic = Cat(Cat(own, d), device)
    BY <2>1, TextEnds
  <2>3. Len(device) = 1 /\ device[1] \in DOMAIN AsHex
    BY DEF IsNumeral
  <2>4. PICK v \in Texts : v = device
    BY <2>2
  <2>5. p = v
    BY <1>1, <1>2, <2>1, <2>2, <2>3, <2>4, TextEnds
  <2> QED BY <1>2, <2>3, <2>4, <2>5, NumeralAssumption
<1> QED BY <1>3, <1>4, <1>5 DEF w, p

LEMMA ControlDirectJoin ==
  ASSUME Apart, NEW g \in Hubs, NEW i \in AnyInstance, NEW dev \in DOMAIN AsHex, NEW payload
  PROVE  Control(g, Cat(Cat(WithSlash(i), DirectJoinText), Word(dev)), payload)
           = IF i = Instance[g] THEN [act |-> "directjoin", device |-> AsHex[dev]] ELSE Nothing
<1> DEFINE own == WithSlash(Instance[g])
           w == WithSlash(i)
           p == PermitJoinText
           d == DirectJoinText
           e == Word(dev)
           topic == Cat(Cat(w, d), e)
           device == Rest(topic, Cat(own, d))
<1>1. /\ w \in Texts /\ own \in Texts /\ (w = own <=> i = Instance[g])
  <2>1. Instance[g] \in AnyInstance
    BY DEF AnyInstance
  <2> QED BY <2>1, InstanceTopics
<1>2. /\ p \in Texts /\ Len(p) = 1 /\ p[1] = "permitjoin" /\ d \in Texts
      /\ e \in Texts /\ Len(e) = 1 /\ e[1] = dev
  <2>1. dev \in STRING
    BY NumeralAssumption
  <2> QED BY <2>1, ControlWords
<1>3. Control(g, topic, payload) =
        IF topic \in {p, Cat(own, p)} THEN OnPublishPermitJoin(payload)
        ELSE IF IsPrefix(Cat(own, d), topic) /\ IsNumeral(device, AsHex)
        THEN [act |-> "directjoin", device |-> AsHex[device[1]]]
        ELSE Nothing
  BY DEF Control, Cat, PermitJoinText, DirectJoinText
<1> HIDE DEF p, d, own, w, e
<1>4. Cat(w, d) \in Texts /\ Cat(own, d) \in Texts
  BY <1>1, <1>2, CatType
<1>5. topic \notin {p, Cat(own, p)}
  <2>1. e # p
    BY <1>2, NumeralAssumption
  <2>2. p = Cat(<<>>, p) /\ <<>> \in Texts
    BY <1>2, TextEnds
  <2>3. topic # Cat(<<>>, p)
    BY <1>2, <1>4, <2>1, <2>2, TextEnds
  <2>4. topic # Cat(own, p)
    BY <1>1, <1>2, <1>4, <2>1, TextEnds
  <2> QED BY <2>2, <2>3, <2>4
<1>6. CASE i = Instance[g]
  <2>1. w = own
    BY <1>1, <1>6
  <2>2. IsPrefix(Cat(own, d), topic) /\ device = e
    BY <1>2, <1>4, <2>1, TextEnds
  <2>3. IsNumeral(e, AsHex)
    BY <1>2 DEF IsNumeral
  <2> HIDE DEF topic, device
  <2>4. Control(g, topic, payload) = [act |-> "directjoin", device |-> AsHex[dev]]
    BY <1>2, <1>3, <1>5, <2>2, <2>3
  <2> QED BY <1>6, <2>4 DEF topic, w, d, e
<1>7. CASE i # Instance[g]
  <2>1. ~(IsPrefix(Cat(own, d), topic) /\ IsNumeral(device, AsHex))
    <3> SUFFICES ASSUME IsPrefix(Cat(own, d), topic), IsNumeral(device, AsHex) PROVE FALSE
      OBVIOUS
    <3>1. topic \in Texts
      BY <1>2, <1>4, CatType
    <3>2. PICK v \in Texts : v = device /\ topic = Cat(Cat(own, d), v)
      BY <1>4, <3>1, TextEnds
    <3>3. Len(v) = 1
      BY <3>2 DEF IsNumeral
    <3>4. Cat(w, d) = Cat(own, d)
      <4>1. Len(e) = Len(v) /\ e \in Texts
        BY <1>2, <3>3
      <4>2. Cat(Cat(w, d), e) = Cat(Cat(own, d), v)
        BY <3>2
      <4> QED BY <1>4, <4>1, <4>2, TextEnds
    <3>5. w = own
      BY <1>1, <1>2, <3>4, TextEnds
    <3> QED BY <1>1, <1>7, <3>5
  <2> HIDE DEF topic, device
  <2>2. Control(g, topic, payload) = Nothing
    BY <1>3, <1>5, <2>1
  <2> QED BY <1>7, <2>2 DEF topic, w, d, e
<1> QED BY <1>6, <1>7

\* A message of a request of joining: heard by the hubs of the prefix.
ControlText == <<"control", "/">>

LEMMA ControlResponse ==
  ASSUME Apart
  PROVE  \A h, g \in Hubs, r \in Texts : \A m :
           m.topic = Cat(Prefix[h], Cat(ControlText, r)) =>
             Response(g, m) = IF Prefix[g] = Prefix[h] THEN Control(g, r, m.payload) ELSE Nothing
<1> TAKE h, g \in Hubs, r \in Texts
<1> TAKE m
<1> HAVE m.topic = Cat(Prefix[h], Cat(ControlText, r))
<1>1. r \in Seq(STRING)
  BY DEF Texts
<1>2. m.topic = Prefix[h] \o (<<"control", "/">> \o r)
  BY DEF Cat, ControlText
<1> QED BY <1>1, <1>2, ControlHeard

ControlTopic(h, i) == Prefix[h] \o <<"control", "/">> \o WithSlash(i)

LEMMA ControlTopics ==
  ASSUME Apart, NEW h \in Hubs, NEW i \in AnyInstance
  PROVE  /\ Append(ControlTopic(h, i), "permitjoin")
              = Cat(Prefix[h], Cat(ControlText, Cat(WithSlash(i), PermitJoinText)))
         /\ Cat(WithSlash(i), PermitJoinText) \in Texts
         /\ \A dev \in STRING :
              /\ ControlTopic(h, i) \o <<"directjoin", "/", dev>>
                   = Cat(Prefix[h], Cat(ControlText, Cat(Cat(WithSlash(i), DirectJoinText), Word(dev))))
              /\ Cat(Cat(WithSlash(i), DirectJoinText), Word(dev)) \in Texts
<1> DEFINE p == Prefix[h]
           c == ControlText
           w == WithSlash(i)
           j == PermitJoinText
           d == DirectJoinText
           t == Cat(Cat(p, c), w)
<1>1. p \in Texts /\ w \in Texts /\ j \in Texts /\ d \in Texts
  BY TextAssumption, InstanceTopics, ControlWords DEF Texts
<1>2. c \in Texts
  <2>1. {"control", "/"} \subseteq STRING
    BY WordAssumption
  <2>2. \A a, b \in STRING : <<a, b>> \in Seq(STRING)
    BY TwoElements
  <2> QED BY <2>1, <2>2, Zenon DEF ControlText, Texts
<1>3. ControlTopic(h, i) = t
  BY DEF ControlTopic, Cat, ControlText
<1> HIDE DEF p, c, w, j, d
<1>4. Cat(p, c) \in Texts /\ t \in Texts
  BY <1>1, <1>2, CatType
<1>5. Append(t, "permitjoin") = Cat(t, j)
  <2>1. ASSUME NEW S, NEW x \in Seq(S), NEW e \in S
        PROVE  Append(x, e) = x \o <<e>>
    BY AppendIsConcat
  <2>2. \A x \in Seq(STRING), e \in STRING : Append(x, e) = x \o <<e>>
    BY <2>1
  <2>3. "permitjoin" \in STRING
    BY WordAssumption
  <2> HIDE DEF t
  <2>4. Append(t, "permitjoin") = t \o <<"permitjoin">>
    BY <1>4, <2>2, <2>3, Zenon DEF Texts
  <2> QED BY <2>4 DEF Cat, j, PermitJoinText
<1>6. Cat(t, j) = Cat(p, Cat(c, Cat(w, j))) /\ Cat(w, j) \in Texts
  BY <1>1, <1>2, ThreeBehind
<1>7. ASSUME NEW dev \in STRING
      PROVE  /\ t \o <<"directjoin", "/", dev>> = Cat(p, Cat(c, Cat(Cat(w, d), Word(dev))))
             /\ Cat(Cat(w, d), Word(dev)) \in Texts
  <2> DEFINE e == Word(dev)
  <2>1. e \in Texts
    BY ControlWords
  <2>2. <<"directjoin", "/", dev>> = Cat(d, e)
    <3>1. \A a, b, x \in STRING : <<a, b>> \o <<x>> = <<a, b, x>>
      BY PairAndWord
    <3>2. {"directjoin", "/"} \subseteq STRING
      BY WordAssumption
    <3>3. <<"directjoin", "/">> \o <<dev>> = <<"directjoin", "/", dev>>
      BY <3>1, <3>2, Zenon
    <3> QED BY <3>3 DEF Cat, d, DirectJoinText, Word
  <2> HIDE DEF e
  <2>3. PICK x : x = Cat(d, e) /\ x \in Texts
    BY <1>1, <2>1, CatType
  <2>4. Cat(t, x) = Cat(p, Cat(c, Cat(w, x)))
    BY <1>1, <1>2, <2>3, ThreeBehind
  <2>5. Cat(w, x) = Cat(Cat(w, d), e)
    BY <1>1, <2>1, <2>3, CatAssociative
  <2>6. Cat(w, x) \in Texts
    BY <1>1, <2>3, CatType
  <2>7. t \o <<"directjoin", "/", dev>> = Cat(t, x)
    BY <2>2, <2>3 DEF Cat
  <2> QED BY <2>4, <2>5, <2>6, <2>7 DEF e
<1> QED BY <1>3, <1>5, <1>6, <1>7 DEF p, c, w, j, d

LEMMA PermitJoinSeconds ==
  ASSUME NEW n \in Seconds
  PROVE  OnPublishPermitJoin(Text(<<Decimal[n]>>)) = [act |-> "permitjoin", seconds |-> Min({n, 254})]
<1>1. n \in Nat /\ Decimal[n] \in DOMAIN AsAny /\ AsAny[Decimal[n]] = n
  BY NumeralAssumption
<1>2. Min({n, 254}) = IF n >= 255 THEN 254 ELSE n
  <2>1. CASE n >= 255
    <3>1. 254 \in {n, 254} /\ \A y \in {n, 254} : 254 <= y
      BY <1>1, <2>1
    <3>2. \A x \in {n, 254} : (\A y \in {n, 254} : x <= y) => x = 254
      BY <1>1, <2>1
    <3>3. Min({n, 254}) = 254
      BY <3>1, <3>2 DEF Min
    <3> QED BY <2>1, <3>3
  <2>2. CASE ~(n >= 255)
    <3>1. n \in {n, 254} /\ \A y \in {n, 254} : n <= y
      BY <1>1, <2>2
    <3>2. \A x \in {n, 254} : (\A y \in {n, 254} : x <= y) => x = n
      BY <1>1, <2>2
    <3>3. Min({n, 254}) = n
      BY <3>1, <3>2 DEF Min
    <3> QED BY <2>2, <3>3
  <2> QED BY <2>1, <2>2
<1> DEFINE t == <<Decimal[n]>>
<1>3. Len(t) = 1 /\ t[1] = Decimal[n]
  OBVIOUS
<1> HIDE DEF t
<1>4. "text" \in DOMAIN Text(t) /\ Text(t).text = t
  BY DEF Text
<1>5. IsNumeral(t, AsAny) /\ AsAny[t[1]] = n
  BY <1>1, <1>3 DEF IsNumeral
<1>6. OnPublishPermitJoin(Text(t)) = [act |-> "permitjoin", seconds |-> IF n >= 255 THEN 254 ELSE n]
  BY <1>4, <1>5 DEF OnPublishPermitJoin
<1> QED BY <1>2, <1>6 DEF t

LEMMA PermitJoinActs ==
  ASSUME Apart, NEW h \in Hubs, NEW g \in Hubs, NEW i \in AnyInstance, NEW n \in Seconds,
         NEW m, m = Message(Append(ControlTopic(h, i), "permitjoin"), Text(<<Decimal[n]>>))
  PROVE  Response(g, m) =
           IF Prefix[g] # Prefix[h] THEN Nothing
           ELSE IF i \in {<<>>, Instance[g]}
           THEN [act |-> "permitjoin", seconds |-> Min({n, 254})] ELSE Nothing
<1> DEFINE r == Cat(WithSlash(i), PermitJoinText)
<1>1. m.topic = Cat(Prefix[h], Cat(ControlText, r)) /\ r \in Texts
  BY ControlTopics DEF Message
<1>2. m.payload = Text(<<Decimal[n]>>)
  BY DEF Message
<1>3. Control(g, r, m.payload) = IF i \in {<<>>, Instance[g]}
                                 THEN OnPublishPermitJoin(m.payload) ELSE Nothing
  BY ControlPermitJoin
<1> HIDE DEF r
<1>4. Response(g, m) = IF Prefix[g] = Prefix[h] THEN Control(g, r, m.payload) ELSE Nothing
  BY <1>1, ControlResponse
<1>5. OnPublishPermitJoin(m.payload) = [act |-> "permitjoin", seconds |-> Min({n, 254})]
  BY <1>2, PermitJoinSeconds
<1> QED BY <1>3, <1>4, <1>5

LEMMA DirectJoinActs ==
  ASSUME Apart, NEW h \in Hubs, NEW g \in Hubs, NEW i \in AnyInstance, NEW dev \in DOMAIN AsHex,
         NEW m, m = Message(ControlTopic(h, i) \o <<"directjoin", "/", dev>>, Text(<<>>))
  PROVE  Response(g, m) =
           IF Prefix[g] # Prefix[h] THEN Nothing
           ELSE IF i = Instance[g]
           THEN [act |-> "directjoin", device |-> AsHex[dev]] ELSE Nothing
<1> DEFINE r == Cat(Cat(WithSlash(i), DirectJoinText), Word(dev))
<1>1. m.topic = Cat(Prefix[h], Cat(ControlText, r)) /\ r \in Texts
  <2>1. dev \in STRING
    BY NumeralAssumption
  <2> QED BY <2>1, ControlTopics DEF Message
<1>2. Control(g, r, m.payload) = IF i = Instance[g]
                                 THEN [act |-> "directjoin", device |-> AsHex[dev]] ELSE Nothing
  BY ControlDirectJoin
<1> HIDE DEF r
<1>3. Response(g, m) = IF Prefix[g] = Prefix[h] THEN Control(g, r, m.payload) ELSE Nothing
  BY <1>1, ControlResponse
<1> QED BY <1>2, <1>3

\* The message of what the user asked for.
CommandRequest(m) ==
  \E h \in Hubs, dev \in DOMAIN AsHex, ep \in Endpoints, c \in Clusters(file),
     is_global \in BOOLEAN, args \in {Null, Arguments} :
    \E k \in Asked(c, is_global) :
      /\ asked = [what |-> "command", prefix |-> Prefix[h], device |-> AsHex[dev],
                  endpoint |-> ep, cluster |-> c, command |-> k,
                  is_global |-> is_global, args |-> args]
      /\ m \in {LongForm(h, dev, ep, c, k, args), ShortForm(h, dev, ep, c, k, args)}
PermitJoinRequest(m) ==
  \E h \in Hubs, i \in AnyInstance, n \in Seconds :
    /\ asked = [what |-> "permitjoin", prefix |-> Prefix[h], instance |-> i, seconds |-> n]
    /\ m = Message(Append(ControlTopic(h, i), "permitjoin"), Text(<<Decimal[n]>>))
DirectJoinRequest(m) ==
  \E h \in Hubs, i \in AnyInstance, dev \in DOMAIN AsHex :
    /\ asked = [what |-> "directjoin", prefix |-> Prefix[h], instance |-> i, device |-> AsHex[dev]]
    /\ m = Message(ControlTopic(h, i) \o <<"directjoin", "/", dev>>, Text(<<>>))
Request(m) == CommandRequest(m) \/ PermitJoinRequest(m) \/ DirectJoinRequest(m)

\* A request is on its way, or done; without one the hubs are idle.
AskInv ==
  /\ frame # Nothing => asked = Nothing
  /\ asked = Nothing => acts = Idle /\ (frame = Nothing => wire \in Seq(Reports))
  /\ asked # Nothing =>
       /\ db = ParseFromPTree(file) /\ db # Refused
       /\ \/ \E m : wire = <<m>> /\ Request(m)
          \/ wire = <<>> /\ (DistinctNames /\ NamesLeft => \A h \in Hubs : acts[h] = Wanted(h))

\* What the hubs do for a request is what is wanted of them.
LEMMA RequestActs ==
  ASSUME Apart, file \in Files, ParseFromPTree(file) # Refused, db = ParseFromPTree(file),
         DistinctNames, NamesLeft, NEW m, Request(m), NEW g \in Hubs
  PROVE  Response(g, m) = Wanted(g)
<1>1. CASE CommandRequest(m)
  <2>1. PICK h \in Hubs, dev \in DOMAIN AsHex, ep \in Endpoints, c \in Clusters(file),
             is_global \in BOOLEAN, args \in {Null, Arguments} :
          \E k \in Asked(c, is_global) :
            /\ asked = [what |-> "command", prefix |-> Prefix[h], device |-> AsHex[dev],
                        endpoint |-> ep, cluster |-> c, command |-> k,
                        is_global |-> is_global, args |-> args]
            /\ m \in {LongForm(h, dev, ep, c, k, args), ShortForm(h, dev, ep, c, k, args)}
    BY <1>1 DEF CommandRequest
  <2>2. PICK k \in Asked(c, is_global) :
          /\ asked = [what |-> "command", prefix |-> Prefix[h], device |-> AsHex[dev],
                      endpoint |-> ep, cluster |-> c, command |-> k,
                      is_global |-> is_global, args |-> args]
          /\ m \in {LongForm(h, dev, ep, c, k, args), ShortForm(h, dev, ep, c, k, args)}
    BY <2>1
  <2>3. Response(g, m) =
          IF Prefix[g] # Prefix[h] THEN Nothing
          ELSE IF AsHex[dev] \in Joined[g] /\ (args = Null => k.sub = <<>>)
          THEN [act |-> "command", device |-> AsHex[dev], endpoint |-> ep,
                cluster |-> Id(c.key), command |-> Id(k.key), is_global |-> is_global]
          ELSE Nothing
    BY <2>2, CommandActs
  <2>4. /\ asked.what = "command" /\ asked.prefix = Prefix[h] /\ asked.device = AsHex[dev]
        /\ asked.endpoint = ep /\ asked.cluster = c /\ asked.command = k
        /\ asked.is_global = is_global /\ asked.args = args
    BY <2>2
  <2>5. asked # Nothing
    BY <2>2 DEF Nothing
  <2> QED BY <2>3, <2>4, <2>5 DEF Wanted
<1>2. CASE PermitJoinRequest(m)
  <2>1. PICK h \in Hubs, i \in AnyInstance, n \in Seconds :
          /\ asked = [what |-> "permitjoin", prefix |-> Prefix[h], instance |-> i, seconds |-> n]
          /\ m = Message(Append(ControlTopic(h, i), "permitjoin"), Text(<<Decimal[n]>>))
    BY <1>2 DEF PermitJoinRequest
  <2>2. Response(g, m) =
          IF Prefix[g] # Prefix[h] THEN Nothing
          ELSE IF i \in {<<>>, Instance[g]}
          THEN [act |-> "permitjoin", seconds |-> Min({n, 254})] ELSE Nothing
    BY <2>1, PermitJoinActs
  <2>3. /\ asked.what = "permitjoin" /\ asked.prefix = Prefix[h]
        /\ asked.instance = i /\ asked.seconds = n
    BY <2>1
  <2>4. asked # Nothing
    BY <2>1 DEF Nothing
  <2> QED BY <2>2, <2>3, <2>4 DEF Wanted
<1>3. CASE DirectJoinRequest(m)
  <2>1. PICK h \in Hubs, i \in AnyInstance, dev \in DOMAIN AsHex :
          /\ asked = [what |-> "directjoin", prefix |-> Prefix[h], instance |-> i,
                      device |-> AsHex[dev]]
          /\ m = Message(ControlTopic(h, i) \o <<"directjoin", "/", dev>>, Text(<<>>))
    BY <1>3 DEF DirectJoinRequest
  <2>2. Response(g, m) =
          IF Prefix[g] # Prefix[h] THEN Nothing
          ELSE IF i = Instance[g]
          THEN [act |-> "directjoin", device |-> AsHex[dev]] ELSE Nothing
    BY <2>1, DirectJoinActs
  <2>3. /\ asked.what = "directjoin" /\ asked.prefix = Prefix[h]
        /\ asked.instance = i /\ asked.device = AsHex[dev]
    BY <2>1
  <2>4. asked # Nothing
    BY <2>1 DEF Nothing
  <2> QED BY <2>2, <2>3, <2>4 DEF Wanted
<1> QED BY <1>1, <1>2, <1>3 DEF Request

LEMMA Delivered ==
  ASSUME Apart, FrameInv, AskInv, Deliver
  PROVE  AskInv'
<1>1. /\ wire # <<>> /\ wire' = Tail(wire)
      /\ acts' = [h \in Hubs |-> Response(h, Head(wire))]
      /\ file' = file /\ db' = db /\ asked' = asked /\ frame' = frame
  BY DEF Deliver, Response
<1>2. CASE asked = Nothing
  <2>1. acts' = Idle
    <3>1. \E h \in Hubs, t \in Told : Head(wire).topic = Prefix[h] \o t
      <4>1. CASE frame = Nothing
        <5>1. Head(wire) \in Reports
          BY <1>1, <1>2, <4>1, HeadTail DEF AskInv
        <5> QED BY <5>1, ReportTold
      <4>2. CASE frame # Nothing
        <5>1. wire \in Seq(Signed(frame)) /\ frame.hub \in Hubs
          BY <4>2 DEF FrameInv
        <5>2. Head(wire) \in Signed(frame)
          BY <1>1, <5>1, HeadTail
        <5> QED BY <4>2, <5>1, <5>2, SignedIsTold
      <4> QED BY <4>1, <4>2
    <3>2. \A g \in Hubs : OnPublish(g, Head(wire)) = Nothing
      BY <3>1, ToldIsNothing
    <3>3. \A g \in Hubs : Response(g, Head(wire)) = Nothing
      BY <3>2 DEF Response
    <3> QED BY <1>1, <3>3 DEF Idle
  <2>2. frame = Nothing => wire' \in Seq(Reports)
    BY <1>1, <1>2, HeadTail DEF AskInv
  <2> QED BY <1>1, <1>2, <2>1, <2>2 DEF AskInv
<1>3. CASE asked # Nothing
  <2>1. db = ParseFromPTree(file) /\ db # Refused /\ file \in Files
    BY <1>3 DEF AskInv, FrameInv
  <2>2. PICK m : wire = <<m>> /\ Request(m)
    BY <1>1, <1>3 DEF AskInv
  <2>3. Head(wire) = m /\ Tail(wire) = <<>>
    BY <2>2
  <2>4. wire' = <<>> /\ acts' = [h \in Hubs |-> Response(h, m)]
    BY <1>1, <2>3
  <2>5. DistinctNames /\ NamesLeft => \A g \in Hubs : Response(g, m) = Wanted(g)
    BY <2>1, <2>2, RequestActs
  <2>6. (DistinctNames <=> DistinctNames') /\ (NamesLeft <=> NamesLeft')
    BY <1>1 DEF DistinctNames, NamesLeft
  <2>7. \A g \in Hubs : Wanted(g)' = Wanted(g)
    BY <1>1 DEF Wanted
  <2>8. DistinctNames' /\ NamesLeft' => \A g \in Hubs : acts'[g] = Wanted(g)'
    BY <2>4, <2>5, <2>6, <2>7
  <2> QED BY <1>1, <1>3, <2>1, <2>4, <2>8 DEF AskInv
<1> QED BY <1>2, <1>3

LEMMA AskInvariant ==
  ASSUME Apart
  PROVE  Spec => []AskInv
<1>1. Init => AskInv
  BY EmptySeq DEF Init, AskInv
<1>2. ASSUME FrameInv, AskInv, [Next]_vars
      PROVE  AskInv'
  <2> SUFFICES ASSUME FrameInv, AskInv, [Next]_vars
               PROVE  AskInv'
    BY <1>2
  <2>1. \A m : file' = file /\ asked' = asked => (Request(m)' <=> Request(m))
    BY DEF Request, CommandRequest, PermitJoinRequest, DirectJoinRequest, Asked
  <2>2. file' = file /\ asked' = asked /\ acts' = acts =>
          /\ (DistinctNames <=> DistinctNames') /\ (NamesLeft <=> NamesLeft')
          /\ \A g \in Hubs : Wanted(g)' = Wanted(g)
    BY DEF DistinctNames, NamesLeft, Wanted
  <2>3. CASE LoadClusters \/ UNCHANGED vars
    <3>1. /\ file' = file /\ asked' = asked /\ acts' = acts /\ wire' = wire /\ frame' = frame
          /\ db' \in {db, ParseFromPTree(file)}
      BY <2>3 DEF LoadClusters, vars
    <3> QED BY <2>1, <2>2, <3>1 DEF AskInv
  <2>4. CASE Deliver
    BY <2>4, Delivered
  <2>5. Running => /\ db = ParseFromPTree(file) /\ db # Refused
                   /\ asked = Nothing /\ frame = Nothing /\ acts = Idle
    BY DEF Running, FrameInv, AskInv
  <2>6. CASE UserCommand
    <3>1. PICK h \in Hubs, dev \in {t \in DOMAIN AsHex : AsHex[t] \in Devices}, ep \in Endpoints,
               c \in Clusters(file), is_global \in BOOLEAN, args \in {Null, Arguments} :
            \E k \in Asked(c, is_global) :
              /\ asked' = [what |-> "command", prefix |-> Prefix[h], device |-> AsHex[dev],
                           endpoint |-> ep, cluster |-> c, command |-> k,
                           is_global |-> is_global, args |-> args]
              /\ \/ wire' = <<LongForm(h, dev, ep, c, k, args)>>
                 \/ wire' = <<ShortForm(h, dev, ep, c, k, args)>>
      BY <2>6 DEF UserCommand, Asked
    <3>2. PICK k \in Asked(c, is_global) :
            /\ asked' = [what |-> "command", prefix |-> Prefix[h], device |-> AsHex[dev],
                         endpoint |-> ep, cluster |-> c, command |-> k,
                         is_global |-> is_global, args |-> args]
            /\ \/ wire' = <<LongForm(h, dev, ep, c, k, args)>>
               \/ wire' = <<ShortForm(h, dev, ep, c, k, args)>>
      BY <3>1
    <3>3. PICK m \in {LongForm(h, dev, ep, c, k, args), ShortForm(h, dev, ep, c, k, args)} :
            wire' = <<m>>
      BY <3>2
    <3>4. file' = file /\ db' = db /\ frame' = frame /\ Running
      BY <2>6 DEF UserCommand
    <3>5. Asked(c, is_global)' = Asked(c, is_global)
      BY <3>4 DEF Asked
    <3>6. CommandRequest(m)'
      BY <3>2, <3>3, <3>4, <3>5 DEF CommandRequest
    <3>7. asked' # Nothing
      BY <3>2 DEF Nothing
    <3> QED BY <2>5, <3>3, <3>4, <3>6, <3>7 DEF AskInv, Request
  <2>7. CASE UserControl
    <3>1. PICK h \in Hubs, i \in AnyInstance :
            \/ \E n \in Seconds :
                 /\ wire' = <<Message(Append(ControlTopic(h, i), "permitjoin"), Text(<<Decimal[n]>>))>>
                 /\ asked' = [what |-> "permitjoin", prefix |-> Prefix[h], instance |-> i,
                              seconds |-> n]
            \/ \E dev \in DOMAIN AsHex :
                 /\ wire' = <<Message(ControlTopic(h, i) \o <<"directjoin", "/", dev>>, Text(<<>>))>>
                 /\ asked' = [what |-> "directjoin", prefix |-> Prefix[h], instance |-> i,
                              device |-> AsHex[dev]]
      BY <2>7 DEF UserControl, AnyInstance, ControlTopic
    <3>2. \E m : wire' = <<m>> /\ (PermitJoinRequest(m)' \/ DirectJoinRequest(m)')
      BY <3>1 DEF PermitJoinRequest, DirectJoinRequest
    <3>3. file' = file /\ db' = db /\ frame' = frame /\ Running
      BY <2>7 DEF UserControl
    <3>4. asked' # Nothing
      <4>1. ASSUME NEW n \in Seconds,
                   asked' = [what |-> "permitjoin", prefix |-> Prefix[h], instance |-> i,
                             seconds |-> n]
            PROVE  asked' # Nothing
        BY <4>1 DEF Nothing
      <4>2. ASSUME NEW dev \in DOMAIN AsHex,
                   asked' = [what |-> "directjoin", prefix |-> Prefix[h], instance |-> i,
                             device |-> AsHex[dev]]
            PROVE  asked' # Nothing
        BY <4>2 DEF Nothing
      <4> QED BY <3>1, <4>1, <4>2
    <3> QED BY <2>5, <3>2, <3>3, <3>4 DEF AskInv, Request
  <2>8. ASSUME NEW h \in Hubs, DeviceSends(h)
        PROVE  AskInv'
    <3>1. Running /\ asked' = asked /\ acts' = acts
      BY <2>8 DEF DeviceSends
    <3>2. frame' # Nothing
      BY <2>8 DEF DeviceSends, Nothing
    <3> QED BY <2>5, <3>1, <3>2 DEF AskInv
  <2>9. ASSUME NEW h \in Hubs, OnPermitJoin(h) \/ OnJoin(h)
        PROVE  AskInv'
    <3>1. Running /\ asked' = asked /\ acts' = acts /\ frame' = frame
      BY <2>9 DEF OnPermitJoin, OnJoin
    <3>2. wire' \in Seq(Reports)
      BY <2>9, OnPermitJoinReports, OnJoinReports
    <3> QED BY <2>5, <3>1, <3>2 DEF AskInv
  <2> QED BY <2>3, <2>4, <2>6, <2>7, <2>8, <2>9 DEF Next
<1> QED BY <1>1, <1>2, FrameInvariant, PTL DEF Spec

\* A message of a user makes the hubs that are meant, and no others, do what is asked, in
\* the long form and in the short form; no message of a hub makes a hub do anything
\* (OnPublish of main.cpp), whatever the file, the hubs and their devices are, as long as no
\* topic belongs to two prefixes or to two instances.
THEOREM ActsAsAskedHolds ==
  ASSUME Apart
  PROVE  Spec => []ActsAsAsked
<1>1. AskInv => ActsAsAsked
  <2> SUFFICES ASSUME AskInv, DistinctNames, NamesLeft, asked # Nothing => wire = <<>>,
                      NEW h \in Hubs
               PROVE  acts[h] = Wanted(h)
    BY DEF ActsAsAsked
  <2>1. CASE asked = Nothing
    BY <2>1 DEF AskInv, Idle, Wanted
  <2>2. CASE asked # Nothing
    <3>1. \A m : wire # <<m>>
      BY <2>2
    <3> QED BY <2>2, <3>1 DEF AskInv
  <2> QED BY <2>1, <2>2
<1> QED BY <1>1, AskInvariant, PTL
=============================================================================
