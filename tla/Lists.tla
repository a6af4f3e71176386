------------------------------- MODULE Lists --------------------------------
(***************************************************************************)
(* Operators on sequences that several modules share, in a form about which  *)
(* ListLemmas.tla can prove what they need.                                *)
(***************************************************************************)
EXTENDS Naturals, Sequences

\* The elements of s that are in T, in their order: SelectSeq, with a set for
\* its test.
Selected(s, T) ==
  LET f[i \in 0 .. Len(s)] ==
        IF i = 0 THEN <<>>
        ELSE IF s[i] \in T THEN Append(f[i - 1], s[i]) ELSE f[i - 1]
  IN f[Len(s)]

\* How many elements of s are in T.
Count(s, T) == Len(Selected(s, T))

\* Nothing of B comes behind anything of A.
NoneAfter(s, A, B) ==
  \A i, j \in 1 .. Len(s) : i < j /\ s[i] \in A => s[j] \notin B
=============================================================================
