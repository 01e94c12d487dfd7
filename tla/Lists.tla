------------------------------- MODULE Lists --------------------------------
(***************************************************************************)
(* What the code does with lists, as recursive functions.                  *)
(***************************************************************************)
EXTENDS Integers, Sequences

\* The elements that are in a set, in their order, as list comprehensions pick them.
Filter(s, S) ==
  LET f[i \in 0..Len(s)] ==
        IF i = 0 THEN <<>> ELSE IF s[i] \in S THEN Append(f[i - 1], s[i]) ELSE f[i - 1]
  IN f[Len(s)]

\* What the first sizes come to, as many of them as one asks for.
Sums(sizes) ==
  LET f[i \in 0..Len(sizes)] == IF i = 0 THEN 0 ELSE f[i - 1] + sizes[i]
  IN f
Total(sizes) == Sums(sizes)[Len(sizes)]
=============================================================================
