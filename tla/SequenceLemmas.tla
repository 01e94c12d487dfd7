--------------------------- MODULE SequenceLemmas ---------------------------
(***************************************************************************)
(* Facts about sequences that the proofs need and the library's            *)
(* SequenceTheorems do not state; induction; and what Filter keeps.        *)
(***************************************************************************)
EXTENDS Lists, SequencesExt, SequenceTheorems, FiniteSetTheorems, TLAPS

\* Cutting a sequence after its first n elements.
LEMMA CutLemma ==
  ASSUME NEW S, NEW s \in Seq(S), NEW n \in 0..Len(s)
  PROVE  /\ SubSeq(s, n + 1, Len(s)) \in Seq(S)
         /\ Len(SubSeq(s, n + 1, Len(s))) = Len(s) - n
         /\ \A i \in 1..(Len(s) - n) : SubSeq(s, n + 1, Len(s))[i] = s[i + n]
         /\ SubSeq(s, 1, n) \in Seq(S)
         /\ Len(SubSeq(s, 1, n)) = n
         /\ \A i \in 1..n : SubSeq(s, 1, n)[i] = s[i]
  OBVIOUS

\* RemoveAt closes the gap.
LEMMA RemoveAtLemma ==
  ASSUME NEW S, NEW s \in Seq(S), NEW n \in 1..Len(s)
  PROVE  /\ RemoveAt(s, n) \in Seq(S)
         /\ Len(RemoveAt(s, n)) = Len(s) - 1
         /\ \A i \in 1..(Len(s) - 1) :
              RemoveAt(s, n)[i] = IF i < n THEN s[i] ELSE s[i + 1]
<1> DEFINE a == SubSeq(s, 1, n - 1)
           b == SubSeq(s, n + 1, Len(s))
<1>1. a \in Seq(S) /\ Len(a) = n - 1 /\ \A i \in 1..(n - 1) : a[i] = s[i]
  OBVIOUS
<1>2. b \in Seq(S) /\ Len(b) = Len(s) - n /\ \A i \in 1..(Len(s) - n) : b[i] = s[i + n]
  OBVIOUS
<1>3. RemoveAt(s, n) = a \o b
  BY DEF RemoveAt
<1> HIDE DEF a, b
<1>4. /\ a \o b \in Seq(S)
      /\ Len(a \o b) = Len(a) + Len(b)
      /\ \A i \in 1..(Len(a) + Len(b)) :
           (a \o b)[i] = IF i <= Len(a) THEN a[i] ELSE b[i - Len(a)]
  BY <1>1, <1>2, ConcatProperties
<1>5. QED
  BY <1>1, <1>2, <1>3, <1>4

\* Elements moved from the head of one sequence to the end of the one before it.
LEMMA MoveLemma ==
  ASSUME NEW S, NEW a \in Seq(S), NEW b \in Seq(S), NEW n \in 0..Len(b)
  PROVE  /\ a \o SubSeq(b, 1, n) \in Seq(S)
         /\ (a \o SubSeq(b, 1, n)) \o SubSeq(b, n + 1, Len(b)) = a \o b
<1> DEFINE u == SubSeq(b, 1, n)
           v == SubSeq(b, n + 1, Len(b))
<1>1. u \in Seq(S) /\ v \in Seq(S) /\ Len(u) = n /\ Len(v) = Len(b) - n
  OBVIOUS
<1>2. u \o v = b
  <2>1. (\A i \in 1..n : u[i] = b[i]) /\ (\A i \in 1..(Len(b) - n) : v[i] = b[i + n])
    OBVIOUS
  <2> HIDE DEF u, v
  <2> DEFINE w == u \o v
  <2>2a. /\ w \in Seq(S)
        /\ Len(w) = Len(u) + Len(v)
        /\ \A i \in 1..(Len(u) + Len(v)) :
             w[i] = IF i <= Len(u) THEN u[i] ELSE v[i - Len(u)]
    BY <1>1, ConcatProperties
  <2>2b. Len(b) \in Nat /\ n \in 0..Len(b)
    OBVIOUS
  <2> HIDE DEF w
  <2>2. w \in Seq(S) /\ Len(w) = Len(b)
    BY <1>1, <2>2a, <2>2b
  <2>3. \A i \in 1..Len(b) : w[i] = b[i]
    BY <1>1, <2>1, <2>2a, <2>2b
  <2>4. w = b
    BY <2>2, <2>3, SeqEqual
  <2>5. QED
    BY <2>4 DEF w
<1> HIDE DEF u, v
<1>3. (a \o u) \o v = a \o (u \o v)
  BY <1>1, ConcatAssociative, SMTT(30)
<1>4. a \o u \in Seq(S)
  BY <1>1, ConcatProperties
<1>5. QED
  BY <1>2, <1>3, <1>4 DEF u, v

\* A new element at the end of a sequence without repetition.
LEMMA AppendDistinct ==
  ASSUME NEW S, NEW s \in Seq(S), NEW x \in S, IsInjective(s), x \notin ToSet(s)
  PROVE  /\ IsInjective(Append(s, x))
         /\ ToSet(Append(s, x)) = ToSet(s) \cup {x}
BY AppendProperties, LenProperties DEF ToSet, IsInjective

\* Removing an element of a sequence without repetition.
LEMMA RemoveDistinct ==
  ASSUME NEW S, NEW s \in Seq(S), NEW n \in 1..Len(s), IsInjective(s)
  PROVE  /\ IsInjective(RemoveAt(s, n))
         /\ ToSet(RemoveAt(s, n)) = ToSet(s) \ {s[n]}
<1> DEFINE r == RemoveAt(s, n)
<1>1. /\ r \in Seq(S) /\ Len(r) = Len(s) - 1
      /\ \A i \in 1..(Len(s) - 1) : r[i] = IF i < n THEN s[i] ELSE s[i + 1]
  BY RemoveAtLemma
<1> HIDE DEF r
<1>2. IsInjective(r)
  <2>1. DOMAIN r = 1..(Len(s) - 1) /\ DOMAIN s = 1..Len(s) /\ Len(s) \in Nat
    BY <1>1, LenProperties
  <2>2. SUFFICES ASSUME NEW i \in 1..(Len(s) - 1), NEW j \in 1..(Len(s) - 1), r[i] = r[j]
                 PROVE  i = j
    BY <2>1 DEF IsInjective
  <2> DEFINE k(m) == IF m < n THEN m ELSE m + 1
  <2>3. k(i) \in 1..Len(s) /\ k(j) \in 1..Len(s) /\ s[k(i)] = s[k(j)]
    BY <1>1, <2>1, <2>2
  <2>4. k(i) = k(j)
    BY <2>1, <2>3 DEF IsInjective
  <2>5. QED
    BY <2>1, <2>4
<1>3. ASSUME NEW y \in ToSet(r) PROVE y \in ToSet(s) \ {s[n]}
  BY <1>1, <1>3 DEF IsInjective, ToSet
<1>4. ASSUME NEW y \in ToSet(s) \ {s[n]} PROVE y \in ToSet(r)
  <2>1. PICK j \in 1..Len(s) : y = s[j] /\ j # n
    BY <1>4 DEF ToSet
  <2>2. CASE j < n
    BY <1>1, <2>1, <2>2 DEF ToSet
  <2>3. CASE j > n
    <3>1. j - 1 \in DOMAIN r /\ r[j - 1] = y
      BY <1>1, <2>1, <2>3
    <3>2. QED BY <3>1 DEF ToSet
  <2>4. QED BY <2>1, <2>2, <2>3
<1>5. QED
  BY <1>2, <1>3, <1>4 DEF r

\* Tail removes the first element.
LEMMA TailIsRemoveAt ==
  ASSUME NEW S, NEW s \in Seq(S), s # <<>>
  PROVE  Tail(s) = RemoveAt(s, 1)
<1>1. Len(s) \in Nat \ {0}
  BY EmptySeq
<1>2. /\ RemoveAt(s, 1) \in Seq(S) /\ Len(RemoveAt(s, 1)) = Len(s) - 1
      /\ \A i \in 1..(Len(s) - 1) : RemoveAt(s, 1)[i] = s[i + 1]
  BY <1>1, RemoveAtLemma
<1>3. Tail(s) \in Seq(S) /\ Len(Tail(s)) = Len(s) - 1
      /\ \A i \in 1..(Len(s) - 1) : Tail(s)[i] = s[i + 1]
  BY <1>1, HeadTailProperties
<1>4. QED
  BY <1>2, <1>3, SeqEqual

\* Removing from a part of a concatenation removes from the whole: the left part.
LEMMA RemoveAtOfLeft ==
  ASSUME NEW S, NEW a \in Seq(S), NEW b \in Seq(S), NEW n \in 1..Len(a)
  PROVE  /\ n \in 1..Len(a \o b) /\ (a \o b)[n] = a[n]
         /\ RemoveAt(a, n) \o b = RemoveAt(a \o b, n)
<1> DEFINE c == a \o b
<1>1. /\ c \in Seq(S) /\ Len(c) = Len(a) + Len(b)
      /\ \A i \in 1..(Len(a) + Len(b)) :
           c[i] = IF i <= Len(a) THEN a[i] ELSE b[i - Len(a)]
  BY ConcatProperties
<1>2. Len(a) \in Nat /\ Len(b) \in Nat
  OBVIOUS
<1> HIDE DEF c
<1>3. n \in 1..Len(a)
  OBVIOUS
<1> DEFINE r == RemoveAt(a, n)
           q == RemoveAt(c, n)
           w == r \o b
<1>4. n \in 1..Len(c) /\ c[n] = a[n]
  BY <1>1, <1>2
<1>5. /\ r \in Seq(S) /\ Len(r) = Len(a) - 1
      /\ \A i \in 1..(Len(a) - 1) : r[i] = IF i < n THEN a[i] ELSE a[i + 1]
  BY RemoveAtLemma
<1>6. /\ q \in Seq(S) /\ Len(q) = Len(c) - 1
      /\ \A i \in 1..(Len(c) - 1) : q[i] = IF i < n THEN c[i] ELSE c[i + 1]
  BY <1>1, <1>4, RemoveAtLemma
<1> HIDE DEF r, q
<1>7. /\ w \in Seq(S) /\ Len(w) = Len(r) + Len(b)
      /\ \A i \in 1..(Len(r) + Len(b)) :
           w[i] = IF i <= Len(r) THEN r[i] ELSE b[i - Len(r)]
  BY <1>5, ConcatProperties
<1> HIDE DEF w
<1>8. Len(w) = Len(q)
  BY <1>1, <1>2, <1>5, <1>6, <1>7
<1>9. ASSUME NEW i \in 1..Len(w) PROVE w[i] = q[i]
  <2>1. /\ i \in 1..(Len(r) + Len(b)) /\ i \in 1..(Len(c) - 1)
        /\ i \in 1..(Len(a) + Len(b)) /\ i + 1 \in 1..(Len(a) + Len(b))
        /\ Len(r) = Len(a) - 1
    BY <1>1, <1>2, <1>5, <1>7, <1>9
  <2>2. CASE i < n
    <3>1. i \in 1..(Len(a) - 1) /\ i <= Len(r) /\ i <= Len(a)
      BY <1>2, <1>3, <2>1, <2>2
    <3>2. w[i] = a[i]
      BY <1>5, <1>7, <2>1, <2>2, <3>1
    <3>3. q[i] = c[i]
      BY <1>6, <2>1, <2>2
    <3>4. QED
      BY <1>1, <2>1, <3>1, <3>2, <3>3
  <2>3. CASE ~(i < n) /\ i <= Len(r)
    <3>1. i \in 1..(Len(a) - 1) /\ i + 1 <= Len(a)
      BY <1>2, <1>3, <2>1, <2>3
    <3>2. w[i] = a[i + 1]
      BY <1>5, <1>7, <2>1, <2>3, <3>1
    <3>3. q[i] = c[i + 1]
      BY <1>6, <2>1, <2>3
    <3>4. QED
      BY <1>1, <2>1, <3>1, <3>2, <3>3
  <2>4. CASE ~(i <= Len(r))
    <3>1. ~(i < n) /\ ~(i + 1 <= Len(a)) /\ i - Len(r) = i + 1 - Len(a)
      BY <1>2, <1>3, <2>1, <2>4
    <3>2. w[i] = b[i - Len(r)]
      BY <1>7, <2>1, <2>4
    <3>3. q[i] = c[i + 1]
      BY <1>6, <2>1, <3>1
    <3>4. QED
      BY <1>1, <2>1, <3>1, <3>2, <3>3
  <2>5. QED
    BY <2>2, <2>3, <2>4
<1>10. w = q
  BY <1>6, <1>7, <1>8, <1>9, SeqEqual
<1>11. QED
  BY <1>4, <1>10 DEF w, r, q, c

\* Removing from a part of a concatenation removes from the whole: the right part.
LEMMA RemoveAtOfRight ==
  ASSUME NEW S, NEW a \in Seq(S), NEW b \in Seq(S), NEW n \in 1..Len(b)
  PROVE  /\ Len(a) + n \in 1..Len(a \o b) /\ (a \o b)[Len(a) + n] = b[n]
         /\ a \o RemoveAt(b, n) = RemoveAt(a \o b, Len(a) + n)
<1> DEFINE c == a \o b
<1>1. /\ c \in Seq(S) /\ Len(c) = Len(a) + Len(b)
      /\ \A i \in 1..(Len(a) + Len(b)) :
           c[i] = IF i <= Len(a) THEN a[i] ELSE b[i - Len(a)]
  BY ConcatProperties
<1>2. Len(a) \in Nat /\ Len(b) \in Nat
  OBVIOUS
<1> HIDE DEF c
<1>3. n \in 1..Len(b)
  OBVIOUS
<1> DEFINE r == RemoveAt(b, n)
           q == RemoveAt(c, Len(a) + n)
           w == a \o r
<1>4. Len(a) + n \in 1..Len(c) /\ c[Len(a) + n] = b[n]
  <2>1. /\ Len(a) + n \in 1..(Len(a) + Len(b)) /\ ~(Len(a) + n <= Len(a))
        /\ Len(a) + n - Len(a) = n
    BY <1>2, <1>3
  <2>2. c[Len(a) + n] = b[Len(a) + n - Len(a)]
    BY <1>1, <2>1
  <2>3. QED
    BY <1>1, <2>1, <2>2
<1>5. /\ r \in Seq(S) /\ Len(r) = Len(b) - 1
      /\ \A i \in 1..(Len(b) - 1) : r[i] = IF i < n THEN b[i] ELSE b[i + 1]
  BY RemoveAtLemma
<1>6. /\ q \in Seq(S) /\ Len(q) = Len(c) - 1
      /\ \A i \in 1..(Len(c) - 1) :
           q[i] = IF i < Len(a) + n THEN c[i] ELSE c[i + 1]
  BY <1>1, <1>4, RemoveAtLemma
<1> HIDE DEF r, q
<1>7. /\ w \in Seq(S) /\ Len(w) = Len(a) + Len(r)
      /\ \A i \in 1..(Len(a) + Len(r)) :
           w[i] = IF i <= Len(a) THEN a[i] ELSE r[i - Len(a)]
  BY <1>5, ConcatProperties
<1> HIDE DEF w
<1>8. Len(w) = Len(q)
  BY <1>1, <1>2, <1>5, <1>6, <1>7
<1>9. ASSUME NEW i \in 1..Len(w) PROVE w[i] = q[i]
  <2>1. /\ i \in 1..(Len(a) + Len(r)) /\ i \in 1..(Len(c) - 1)
        /\ i \in 1..(Len(a) + Len(b)) /\ i + 1 \in 1..(Len(a) + Len(b))
    BY <1>1, <1>2, <1>5, <1>7, <1>9
  <2>2. CASE i <= Len(a)
    <3>1. w[i] = a[i] /\ i < Len(a) + n
      BY <1>2, <1>3, <1>7, <2>1, <2>2
    <3>2. QED
      BY <1>1, <1>6, <2>1, <2>2, <3>1
  <2>3. CASE ~(i <= Len(a)) /\ i < Len(a) + n
    <3>1. i - Len(a) \in 1..(Len(b) - 1) /\ i - Len(a) < n
      BY <1>2, <1>3, <1>5, <2>1, <2>3
    <3>2. w[i] = b[i - Len(a)]
      BY <1>5, <1>7, <2>1, <2>3, <3>1
    <3>3. q[i] = c[i]
      BY <1>6, <2>1, <2>3
    <3>4. QED
      BY <1>1, <2>1, <2>3, <3>2, <3>3
  <2>4. CASE ~(i < Len(a) + n)
    <3>1. /\ i - Len(a) \in 1..(Len(b) - 1) /\ ~(i - Len(a) < n)
          /\ ~(i <= Len(a)) /\ ~(i + 1 <= Len(a))
          /\ i - Len(a) + 1 = i + 1 - Len(a)
      BY <1>2, <1>3, <1>5, <2>1, <2>4
    <3>2. w[i] = b[i - Len(a) + 1]
      BY <1>5, <1>7, <2>1, <3>1
    <3>3. q[i] = c[i + 1]
      BY <1>6, <2>1, <2>4
    <3>4. QED
      BY <1>1, <2>1, <3>1, <3>2, <3>3
  <2>5. QED
    BY <2>2, <2>3, <2>4
<1>10. w = q
  BY <1>6, <1>7, <1>8, <1>9, SeqEqual
<1>11. QED
  BY <1>4, <1>10 DEF w, r, q, c

\* Appending to the right part of a concatenation appends to the whole.
LEMMA AppendOfConcat ==
  ASSUME NEW S, NEW a \in Seq(S), NEW b \in Seq(S), NEW x \in S
  PROVE  a \o Append(b, x) = Append(a \o b, x)
BY AppendIsConcat, ConcatProperties, ConcatAssociative

-----------------------------------------------------------------------------
\* Induction, over sets: a set takes the place of the predicate.

\* A set of naturals with 0 and all successors is that of all naturals: below one that is
\* missing, the predecessor would map the missing ones into, but not onto, themselves.
LEMMA NatInd ==
  ASSUME NEW T \in SUBSET Nat, 0 \in T, \A n \in T : n + 1 \in T
  PROVE  T = Nat
<1> SUFFICES ASSUME NEW k \in Nat, k \notin T PROVE FALSE
  OBVIOUS
<1> DEFINE B == {x \in 0..k : x \notin T}
           f == [x \in B |-> x - 1]
<1>1. k \in B /\ \A x \in B : x - 1 \in B
  OBVIOUS
<1>2. IsFiniteSet(B)
  <2>1. IsFiniteSet(0..k)
    BY FS_Interval
  <2>2. QED
    BY <2>1, FS_Subset
<1>3. f \in Injection(B, B)
  BY <1>1 DEF Injection, IsInjective
<1>4. f \in Surjection(B, B)
  BY <1>2, <1>3, FS_Injection
<1>5. \E x \in B : x - 1 = k
  BY <1>1, <1>4 DEF Surjection
<1>6. QED
  BY <1>5
\* There is a function that is defined by recursion over an interval.
LEMMA Recursion ==
  ASSUME NEW X, NEW a \in X, NEW n \in Nat, NEW step \in [1..n -> [X -> X]]
  PROVE  \E f \in [0..n -> X] : f[0] = a /\ \A i \in 1..n : f[i] = step[i][f[i - 1]]
<1> DEFINE Partial(m) == \E f \in [0..m -> X] : f[0] = a /\ \A i \in 1..m : f[i] = step[i][f[i - 1]]
           T == {m \in Nat : m <= n => Partial(m)}
<1>1. Partial(0)
  <2> DEFINE f == [i \in 0..0 |-> a]
  <2>1. f \in [0..0 -> X] /\ f[0] = a
    OBVIOUS
  <2>2. 1..0 = {}
    OBVIOUS
  <2> HIDE DEF f
  <2>3. QED
    BY <2>1, <2>2
<1>2. ASSUME NEW m \in Nat, m + 1 <= n, Partial(m)
      PROVE  Partial(m + 1)
  <2>1. PICK f \in [0..m -> X] : f[0] = a /\ \A i \in 1..m : f[i] = step[i][f[i - 1]]
    BY <1>2
  <2>2. f[m] \in X /\ m + 1 \in 1..n
    BY <1>2
  <2>2a. step[m + 1][f[m]] \in X
    BY <2>2
  <2> DEFINE g == [i \in 0..(m + 1) |-> IF i = m + 1 THEN step[m + 1][f[m]] ELSE f[i]]
  <2>3. g \in [0..(m + 1) -> X]
    BY <2>2a
  <2>4. g[0] = a /\ g[m + 1] = step[m + 1][g[m]]
    BY <2>1
  <2>4a. \A i \in 1..m : g[i] = f[i] /\ g[i - 1] = f[i - 1]
    OBVIOUS
  <2>4b. \A i \in 1..(m + 1) : i \in 1..m \/ i = m + 1
    OBVIOUS
  <2> HIDE DEF g
  <2>5. \A i \in 1..(m + 1) : g[i] = step[i][g[i - 1]]
    BY <2>1, <2>4, <2>4a, <2>4b
  <2>6. QED
    BY <2>3, <2>4, <2>5
<1>3. 0 \in T /\ \A m \in T : m + 1 \in T
  <2> HIDE DEF Partial
  <2>1. ASSUME NEW m \in T
        PROVE  m + 1 \in T
    BY <1>2
  <2>2. QED
    BY <1>1, <2>1
<1>4. n \in T
  BY <1>3, NatInd
<1>5. QED
  BY <1>4

\* The same, named.
Recurs(f, n, X, a, step) ==
  f \in [0..n -> X] /\ f[0] = a /\ \A i \in 1..n : f[i] = step[i][f[i - 1]]
LEMMA RecursFacts ==
  ASSUME NEW X, NEW a, a \in X, NEW n, n \in Nat, NEW step, step \in [1..n -> [X -> X]]
  PROVE  \E f : Recurs(f, n, X, a, step)
BY Recursion DEF Recurs

\* Two functions are equal over an interval if they begin alike and go on alike.
LEMMA AlikeByStep ==
  ASSUME NEW n \in Nat, NEW f, NEW g, g[0] = f[0], \A i \in 1..n : g[i - 1] = f[i - 1] => g[i] = f[i]
  PROVE  \A i \in 0..n : g[i] = f[i]
<1> DEFINE T == {m \in Nat : m <= n => g[m] = f[m]}
<1>1. 0 \in T
  OBVIOUS
<1>2. ASSUME NEW m \in T PROVE m + 1 \in T
  OBVIOUS
<1>3. T \in SUBSET Nat
  OBVIOUS
<1> HIDE DEF T
<1>4. T = Nat
  BY <1>1, <1>2, <1>3, NatInd
<1>5. \A i \in 0..n : i \in T
  BY <1>4
<1>6. QED
  BY <1>5 DEF T

\* What is appended comes last.
LEMMA AppendFacts ==
  ASSUME NEW X, NEW w, w \in Seq(X), NEW x, x \in X
  PROVE  /\ Append(w, x) \in Seq(X) /\ Len(Append(w, x)) = Len(w) + 1 /\ Append(w, x)[Len(w) + 1] = x
         /\ \A i \in 1..Len(w) : Append(w, x)[i] = w[i]
OBVIOUS

\* It is one more element.
LEMMA AppendSet ==
  ASSUME NEW X, NEW v \in Seq(X), NEW x
  PROVE  ToSet(Append(v, x)) = ToSet(v) \cup {x}
<1>1. /\ DOMAIN v = 1..Len(v) /\ DOMAIN Append(v, x) = 1..(Len(v) + 1) /\ Append(v, x)[Len(v) + 1] = x
      /\ \A i \in 1..Len(v) : Append(v, x)[i] = v[i]
  OBVIOUS
<1>2. QED
  BY <1>1 DEF ToSet

\* A set of sequences with the empty one and all that append to one of them is that of all.
LEMMA SeqInd ==
  ASSUME NEW X, NEW T \in SUBSET Seq(X), <<>> \in T, \A s \in T, x \in X : Append(s, x) \in T
  PROVE  T = Seq(X)
<1> DEFINE N == {n \in Nat : \A s \in Seq(X) : Len(s) = n => s \in T}
<1>1. 0 \in N
  OBVIOUS
<1>2. ASSUME NEW n \in N
      PROVE  n + 1 \in N
  <2>1. SUFFICES ASSUME NEW s \in Seq(X), Len(s) = n + 1 PROVE s \in T
    OBVIOUS
  <2>2. PICK r : r = SubSeq(s, 1, n)
    OBVIOUS
  <2>3. PICK x : x = s[n + 1]
    OBVIOUS
  <2>4. n \in Nat /\ r \in Seq(X) /\ Len(r) = n /\ x \in X /\ \A i \in 1..n : r[i] = s[i]
    BY <2>1, <2>2, <2>3
  <2>5. PICK t : t = Append(r, x)
    OBVIOUS
  <2>6. t \in Seq(X) /\ Len(t) = n + 1 /\ t[n + 1] = x /\ \A i \in 1..n : t[i] = r[i]
    <3>1. /\ t \in Seq(X) /\ Len(t) = Len(r) + 1 /\ t[Len(r) + 1] = x
          /\ \A i \in 1..Len(r) : t[i] = r[i]
      BY ONLY <2>4, <2>5, AppendFacts
    <3>2. QED
      BY <2>4, <3>1
  <2>7. \A i \in 1..(n + 1) : i \in 1..n \/ i = n + 1
    BY <2>4
  <2>8. \A i \in 1..(n + 1) : t[i] = s[i]
    BY <2>3, <2>4, <2>6, <2>7
  <2>9. t = s
    BY <2>1, <2>6, <2>8, SeqEqual
  <2>10. r \in T
    BY <2>4
  <2>11. QED
    BY <2>4, <2>5, <2>9, <2>10
<1>3. N = Nat
  BY <1>1, <1>2, NatInd
<1>4. \A s \in Seq(X) : Len(s) \in N
  BY <1>3
<1>5. QED
  BY <1>4

-----------------------------------------------------------------------------
\* Filter.

\* What Filter's recursion comes to.
Filters(f, s, S) ==
  /\ f[0] = <<>>
  /\ \A i \in 1..Len(s) : f[i] = IF s[i] \in S THEN Append(f[i - 1], s[i]) ELSE f[i - 1]
  /\ Filter(s, S) = f[Len(s)]
LEMMA FilterIs ==
  ASSUME NEW X, NEW s, s \in Seq(X), NEW S
  PROVE  \E f : f \in [0..Len(s) -> Seq(X)] /\ Filters(f, s, S)
<1> DEFINE W == Seq(X)
           n == Len(s)
           step == [i \in 1..n |-> [w \in W |-> IF s[i] \in S THEN Append(w, s[i]) ELSE w]]
           Body(f) == [i \in 0..n |-> IF i = 0 THEN <<>> ELSE IF s[i] \in S THEN Append(f[i - 1], s[i]) ELSE f[i - 1]]
           g == CHOOSE f : f = Body(f)
<1>1. \A w \in W, i \in 1..n : step[i][w] \in W /\ step[i][w] = IF s[i] \in S THEN Append(w, s[i]) ELSE w
  OBVIOUS
<1>2. <<>> \in W /\ n \in Nat
  OBVIOUS
<1>3. PICK f \in [0..n -> W] : f[0] = <<>> /\ \A i \in 1..n : f[i] = step[i][f[i - 1]]
  <2> DEFINE a == <<>>
  <2>1. a \in W /\ n \in Nat /\ step \in [1..n -> [W -> W]]
    BY <1>1
  <2> HIDE DEF step, W, n, a
  <2>2. PICK V, b, k, st : V = W /\ b = a /\ k = n /\ st = step
    OBVIOUS
  <2>3. b \in V /\ k \in Nat /\ st \in [1..k -> [V -> V]]
    BY <2>1, <2>2
  <2>4. \E f \in [0..k -> V] : f[0] = b /\ \A i \in 1..k : f[i] = st[i][f[i - 1]]
    BY ONLY <2>3, Recursion
  <2>5. QED
    BY <2>2, <2>4 DEF a
<1>4. \A i \in 1..n : i \in 0..n /\ i - 1 \in 0..n /\ f[i - 1] \in W
  <2> HIDE DEF W
  <2>1. QED
    BY <1>2
<1>6. \A i \in 1..n : f[i] = IF s[i] \in S THEN Append(f[i - 1], s[i]) ELSE f[i - 1]
  BY <1>1, <1>3, <1>4
<1>7. f = Body(f)
  <2> HIDE DEF W, step, n
  <2>1. f = [i \in 0..n |-> f[i]]
    OBVIOUS
  <2>2. ASSUME NEW i \in 0..n
        PROVE  f[i] = Body(f)[i]
    <3>1. CASE i = 0
      BY <1>3, <3>1
    <3>2. CASE i # 0
      <4>1. i \in 1..n
        BY <1>2, <3>2
      <4>2. QED
        BY <1>6, <4>1, <3>2
    <3>3. QED
      BY <3>1, <3>2
  <2>3. DOMAIN Body(f) = 0..n
    OBVIOUS
  <2>4. Body(f) = [i \in 0..n |-> Body(f)[i]]
    OBVIOUS
  <2> HIDE DEF Body
  <2>5. QED
    BY <2>1, <2>2, <2>4
<1>8. g = Body(g)
  BY <1>7
<1>9. Filter(s, S) = g[n]
  BY DEF Filter
<1>10. g = f
  <2> DEFINE T == {m \in Nat : m <= n => g[m] = f[m]}
  <2>1. g[0] = <<>> /\ \A i \in 1..n : g[i] = IF s[i] \in S THEN Append(g[i - 1], s[i]) ELSE g[i - 1]
    <3> HIDE DEF W, step, n, g
    <3>1. \A i \in 0..n : g[i] = Body(g)[i]
      BY <1>8
    <3>2. QED
      BY <1>2, <3>1
  <2>2. g = [i \in 0..n |-> g[i]] /\ f = [i \in 0..n |-> f[i]]
    BY <1>7, <1>8
  <2> HIDE DEF W, step, n, g
  <2>3. 0 \in T /\ \A m \in T : m + 1 \in T
    BY <1>2, <1>3, <1>6, <2>1
  <2>4. T \in SUBSET Nat
    OBVIOUS
  <2>5. T = Nat
    BY <2>3, <2>4, NatInd
  <2>6. \A i \in 0..n : g[i] = f[i]
    BY <1>2, <2>5
  <2>7. QED
    BY <2>2, <2>6
<1>11. QED
  <2> HIDE DEF g, step
  <2>1. Filters(f, s, S)
    BY <1>3, <1>6, <1>9, <1>10 DEF Filters
  <2>2. QED
    BY <2>1

\* Of nothing, Filter keeps nothing.
LEMMA FilterNothing == ASSUME NEW S PROVE Filter(<<>>, S) = <<>>
<1>1. PICK X : X = {0}
  OBVIOUS
<1>2. <<>> \in Seq(X) /\ Len(<<>>) = 0
  OBVIOUS
<1>3. PICK s : s = <<>>
  OBVIOUS
<1>4. \E f : f \in [0..Len(s) -> Seq(X)] /\ Filters(f, s, S)
  BY <1>2, <1>3, FilterIs
<1>5. QED
  BY <1>2, <1>3, <1>4 DEF Filters

\* It keeps what is appended, if it is in the set.
LEMMA FilterAppend ==
  ASSUME NEW X, NEW s \in Seq(X), NEW x \in X, NEW S
  PROVE  Filter(Append(s, x), S) = IF x \in S THEN Append(Filter(s, S), x) ELSE Filter(s, S)
<1>1. PICK f : f \in [0..Len(s) -> Seq(X)] /\ Filters(f, s, S)
  BY FilterIs
<1>2. PICK t : t = Append(s, x)
  OBVIOUS
<1>3. /\ t \in Seq(X) /\ Len(t) = Len(s) + 1 /\ t[Len(s) + 1] = x
      /\ \A i \in 1..Len(s) : t[i] = s[i]
  BY <1>2
<1>4. PICK g : g \in [0..Len(t) -> Seq(X)] /\ Filters(g, t, S)
  BY <1>3, FilterIs
<1> DEFINE T == {m \in Nat : m <= Len(s) => g[m] = f[m]}
<1>5. 0 \in T
  BY <1>1, <1>4 DEF Filters
<1>6. ASSUME NEW m \in T
      PROVE  m + 1 \in T
  <2>1. SUFFICES ASSUME m + 1 <= Len(s) PROVE g[m + 1] = f[m + 1]
    BY <1>6
  <2>2. m + 1 \in 1..Len(s) /\ m + 1 \in 1..Len(t) /\ (m + 1) - 1 = m /\ g[m] = f[m]
    BY <1>3, <2>1
  <2>3. QED
    BY <1>1, <1>3, <1>4, <2>2, ZenonT(30) DEF Filters
<1>7. Len(s) \in T
  <2>1. T \in SUBSET Nat /\ Len(s) \in Nat
    OBVIOUS
  <2> HIDE DEF T
  <2>2. QED
    BY <1>5, <1>6, <2>1, NatInd
<1>8. g[Len(s)] = Filter(s, S)
  BY <1>1, <1>7 DEF Filters
<1>9. Len(t) \in 1..Len(t) /\ Len(t) - 1 = Len(s)
  BY <1>3
<1>10. QED
  BY <1>2, <1>3, <1>4, <1>8, <1>9 DEF Filters

\* What Filter keeps is what there was in the set.
LEMMA FilterType ==
  ASSUME NEW X, NEW s \in Seq(X), NEW S
  PROVE  Filter(s, S) \in Seq(X \cap S) /\ Filter(s, S) \in Seq(X) /\ Len(Filter(s, S)) <= Len(s)
<1> DEFINE P(w) == Filter(w, S) \in Seq(X \cap S) /\ Len(Filter(w, S)) <= Len(w)
           T == {w \in Seq(X) : P(w)}
<1>1. P(<<>>)
  <2>1. PICK e : e = <<>>
    OBVIOUS
  <2>2. e \in Seq(X \cap S) /\ Len(e) <= Len(e)
    BY <2>1
  <2>3. QED
    BY <2>1, <2>2, FilterNothing
<1>2. ASSUME NEW w \in Seq(X), P(w), NEW x \in X
      PROVE  P(Append(w, x))
  <2>1. Filter(Append(w, x), S) = IF x \in S THEN Append(Filter(w, S), x) ELSE Filter(w, S)
    BY FilterAppend
  <2>2. PICK v : v = Filter(w, S)
    OBVIOUS
  <2>3. v \in Seq(X \cap S) /\ Len(v) <= Len(w) /\ Len(v) \in Nat /\ Len(w) \in Nat
    BY <1>2, <2>2
  <2>4. Len(Append(w, x)) = Len(w) + 1
    BY AppendFacts
  <2>5. CASE x \in S
    BY <2>3, <2>5, AppendFacts, <2>1, <2>2, <2>4
  <2>6. CASE x \notin S
    BY <2>1, <2>2, <2>3, <2>4, <2>6
  <2>7. QED
    BY <2>5, <2>6
<1>3. <<>> \in T /\ \A w \in T, x \in X : Append(w, x) \in T
  BY <1>1, <1>2, AppendFacts
<1>4. T = Seq(X)
  BY <1>3, SeqInd DEF T
<1>5. PICK v : v = Filter(s, S)
  OBVIOUS
<1>6. v \in Seq(X \cap S) /\ Len(v) <= Len(s)
  BY <1>4, <1>5
<1>7. v \in Seq(X)
  BY <1>6
<1>8. QED
  BY <1>5, <1>6, <1>7

\* It keeps all of those.
LEMMA FilterRange ==
  ASSUME NEW X, NEW s \in Seq(X), NEW S
  PROVE  ToSet(Filter(s, S)) = ToSet(s) \cap S
<1> DEFINE P(w) == ToSet(Filter(w, S)) = ToSet(w) \cap S
           T == {w \in Seq(X) : P(w)}
<1>1. P(<<>>)
  BY FilterNothing DEF ToSet
<1>2. ASSUME NEW w \in Seq(X), P(w), NEW x \in X
      PROVE  P(Append(w, x))
  <2>1. Filter(Append(w, x), S) = IF x \in S THEN Append(Filter(w, S), x) ELSE Filter(w, S)
    BY FilterAppend
  <2>2. Filter(w, S) \in Seq(X)
    BY FilterType
  <2>3. ToSet(Append(w, x)) = ToSet(w) \cup {x} /\ ToSet(Append(Filter(w, S), x)) = ToSet(Filter(w, S)) \cup {x}
    BY <2>2, AppendSet
  <2>4. CASE x \in S
    BY <1>2, <2>1, <2>3, <2>4
  <2>5. CASE x \notin S
    BY <1>2, <2>1, <2>3, <2>5
  <2>6. QED
    BY <2>4, <2>5
<1>3. <<>> \in T /\ \A w \in T, x \in X : Append(w, x) \in T
  BY <1>1, <1>2, AppendFacts
<1>4. T = Seq(X)
  BY <1>3, SeqInd DEF T
<1>5. QED
  BY <1>4

\* To filter twice is to filter by both.
LEMMA FilterFilter ==
  ASSUME NEW X, NEW s \in Seq(X), NEW S, NEW R
  PROVE  Filter(Filter(s, S), R) = Filter(s, S \cap R)
<1> DEFINE P(w) == Filter(Filter(w, S), R) = Filter(w, S \cap R)
           T == {w \in Seq(X) : P(w)}
<1>1. P(<<>>)
  BY FilterNothing
<1>2. ASSUME NEW w \in Seq(X), P(w), NEW x \in X
      PROVE  P(Append(w, x))
  <2>1. PICK v : v = Filter(w, S)
    OBVIOUS
  <2>2. v \in Seq(X) /\ Filter(v, R) = Filter(w, S \cap R)
    BY <1>2, <2>1, FilterType
  <2>3. Filter(Append(w, x), S) = IF x \in S THEN Append(v, x) ELSE v
    BY <2>1, FilterAppend
  <2>4. Filter(Append(w, x), S \cap R) =
          IF x \in S \cap R THEN Append(Filter(w, S \cap R), x) ELSE Filter(w, S \cap R)
    BY FilterAppend
  <2>5. Filter(Append(v, x), R) = IF x \in R THEN Append(Filter(v, R), x) ELSE Filter(v, R)
    BY <2>2, FilterAppend
  <2>6. CASE x \in S
    <3>1. Filter(Append(w, x), S) = Append(v, x)
      BY <2>3, <2>6
    <3>2. CASE x \in R
      BY <2>2, <2>4, <2>5, <2>6, <3>1, <3>2
    <3>3. CASE x \notin R
      BY <2>2, <2>4, <2>5, <2>6, <3>1, <3>3
    <3>4. QED
      BY <3>2, <3>3
  <2>7. CASE x \notin S
    BY <2>2, <2>3, <2>4, <2>7
  <2>8. QED
    BY <2>6, <2>7
<1>3. <<>> \in T /\ \A w \in T, x \in X : Append(w, x) \in T
  <2> HIDE DEF P
  <2>1. <<>> \in T
    BY <1>1
  <2>2. \A w \in T, x \in X : Append(w, x) \in T
    BY <1>2, AppendFacts
  <2>3. QED
    BY <2>1, <2>2
<1>4. T = Seq(X)
  <2> HIDE DEF T
  <2>1. T \in SUBSET Seq(X)
    BY DEF T
  <2>2. QED
    BY <1>3, <2>1, SeqInd
<1>5. QED
  BY <1>4

\* A smaller set keeps less.
LEMMA FilterLess ==
  ASSUME NEW X, NEW s \in Seq(X), NEW S, NEW R, S \subseteq R
  PROVE  Len(Filter(s, S)) <= Len(Filter(s, R))
<1>1. PICK v : v = Filter(s, R)
  OBVIOUS
<1>2. v \in Seq(X)
  BY <1>1, FilterType
<1>3. Filter(v, S) = Filter(s, R \cap S) /\ R \cap S = S
  BY <1>1, FilterFilter
<1>4. Len(Filter(v, S)) <= Len(v)
  BY <1>2, FilterType
<1>5. QED
  BY <1>1, <1>3, <1>4

\* Nothing is left where nothing is in the set.
LEMMA FilterNone ==
  ASSUME NEW X, NEW s \in Seq(X), NEW S, ToSet(s) \cap S = {}
  PROVE  Filter(s, S) = <<>>
<1>1. PICK v : v = Filter(s, S)
  OBVIOUS
<1>2. v \in Seq(X) /\ ToSet(v) = {}
  BY <1>1, FilterRange, FilterType
<1>3. DOMAIN v = 1..Len(v) /\ Len(v) \in Nat /\ \A i \in DOMAIN v : v[i] \in ToSet(v)
  BY <1>2 DEF ToSet
<1>4. Len(v) = 0
  <2>1. 1 \notin DOMAIN v
    BY <1>2, <1>3
  <2>2. QED
    BY <1>3, <2>1
<1>5. v = <<>>
  BY <1>2, <1>4
<1>6. QED
  BY <1>1, <1>5

\* A list in ascending order stays in it.
Ascending(s) == \A i, j \in 1..Len(s) : i <= j => s[i] <= s[j]

LEMMA FilterAscending ==
  ASSUME NEW X \in SUBSET Int, NEW s \in Seq(X), NEW S, Ascending(s)
  PROVE  Ascending(Filter(s, S))
<1> DEFINE P(w) == Ascending(w) => Ascending(Filter(w, S))
           T == {w \in Seq(X) : P(w)}
<1>1. P(<<>>)
  BY FilterNothing DEF Ascending
<1>2. ASSUME NEW w \in Seq(X), P(w), NEW x \in X
      PROVE  P(Append(w, x))
  <2>1. PICK v : v = Filter(w, S)
    OBVIOUS
  <2>2. v \in Seq(X) /\ ToSet(v) = ToSet(w) \cap S
    BY <2>1, FilterType, FilterRange
  <2>3. PICK y : y = Append(w, x)
    OBVIOUS
  <2>4. SUFFICES ASSUME Ascending(y) PROVE Ascending(Filter(y, S))
    BY <2>3
  <2>5. Filter(y, S) = IF x \in S THEN Append(v, x) ELSE v
    BY <2>1, <2>3, FilterAppend
  <2>6. /\ y \in Seq(X) /\ Len(y) = Len(w) + 1 /\ y[Len(w) + 1] = x
        /\ \A i \in 1..Len(w) : y[i] = w[i]
    BY <2>3, AppendFacts
  <2>7. Ascending(w) /\ \A i \in 1..Len(w) : w[i] <= x
    BY <2>4, <2>6 DEF Ascending
  <2>8. Ascending(v)
    BY <1>2, <2>1, <2>7
  <2>9. DOMAIN v = 1..Len(v) /\ DOMAIN w = 1..Len(w)
    BY <2>2
  <2>10. ASSUME NEW i \in 1..Len(v)
         PROVE  v[i] <= x
    BY <2>2, <2>9, <2>7 DEF ToSet
  <2>11. PICK z : z = Append(v, x)
    OBVIOUS
  <2>12. /\ z \in Seq(X) /\ Len(z) = Len(v) + 1 /\ z[Len(v) + 1] = x
         /\ \A i \in 1..Len(v) : z[i] = v[i]
    BY <2>2, <2>11, AppendFacts
  <2>13. Ascending(z)
    <3>1. ASSUME NEW i \in 1..Len(z), NEW j \in 1..Len(z), i <= j
          PROVE  z[i] <= z[j]
      <4>1. Len(v) \in Nat /\ x \in Int /\ (j \in 1..Len(v) \/ j = Len(v) + 1)
        BY <2>2, <2>12
      <4>2. CASE j \in 1..Len(v)
        <5>1. i \in 1..Len(v)
          BY <3>1, <4>1, <4>2
        <5>2. v[i] <= v[j]
          BY <2>8, <3>1, <4>2, <5>1 DEF Ascending
        <5>3. QED
          BY <2>12, <4>2, <5>1, <5>2
      <4>3. CASE j = Len(v) + 1 /\ i \in 1..Len(v)
        BY <2>10, <2>12, <4>3
      <4>4. CASE j = Len(v) + 1 /\ i = Len(v) + 1
        BY <2>12, <4>1, <4>4
      <4>5. i \in 1..Len(v) \/ i = Len(v) + 1
        BY <2>12, <4>1
      <4>6. QED
        BY <4>1, <4>2, <4>3, <4>4, <4>5
    <3>2. QED
      BY <3>1 DEF Ascending
  <2>14. QED
    BY <2>5, <2>8, <2>11, <2>13
<1>3. <<>> \in T /\ \A w \in T, x \in X : Append(w, x) \in T
  BY <1>1, <1>2, AppendFacts
<1>4. T = Seq(X)
  <2> HIDE DEF T
  <2>1. T \in SUBSET Seq(X)
    BY DEF T
  <2>2. QED
    BY <1>3, <2>1, SeqInd
<1>5. QED
  BY <1>4

\* A list without repetitions stays without.
LEMMA FilterInjective ==
  ASSUME NEW X, NEW s \in Seq(X), NEW S, IsInjective(s)
  PROVE  IsInjective(Filter(s, S))
<1> DEFINE P(w) == IsInjective(w) => IsInjective(Filter(w, S))
           T == {w \in Seq(X) : P(w)}
<1>1. P(<<>>)
  BY FilterNothing DEF IsInjective
<1>2. ASSUME NEW w \in Seq(X), P(w), NEW x \in X
      PROVE  P(Append(w, x))
  <2>1. PICK v : v = Filter(w, S)
    OBVIOUS
  <2>2. v \in Seq(X) /\ ToSet(v) = ToSet(w) \cap S
    BY <2>1, FilterType, FilterRange
  <2>3. PICK y : y = Append(w, x)
    OBVIOUS
  <2>4. SUFFICES ASSUME IsInjective(y) PROVE IsInjective(Filter(y, S))
    BY <2>3
  <2>5. Filter(y, S) = IF x \in S THEN Append(v, x) ELSE v
    BY <2>1, <2>3, FilterAppend
  <2>6. /\ y \in Seq(X) /\ Len(y) = Len(w) + 1 /\ y[Len(w) + 1] = x
        /\ \A i \in 1..Len(w) : y[i] = w[i]
    BY <2>3, AppendFacts
  <2>7. IsInjective(w) /\ \A i \in 1..Len(w) : w[i] # x
    <3>1. /\ DOMAIN w = 1..Len(w) /\ DOMAIN y = 1..(Len(w) + 1) /\ Len(w) \in Nat
          /\ \A i \in 1..Len(w) : i \in 1..(Len(w) + 1) /\ i # Len(w) + 1
      BY <2>6
    <3>2. QED
      BY <2>4, <2>6, <3>1 DEF IsInjective
  <2>8. IsInjective(v)
    BY <1>2, <2>1, <2>7
  <2>9. DOMAIN v = 1..Len(v) /\ DOMAIN w = 1..Len(w)
    BY <2>2
  <2>10. ASSUME NEW i \in 1..Len(v)
         PROVE  v[i] # x
    BY <2>2, <2>9, <2>7 DEF ToSet
  <2>11. PICK z : z = Append(v, x)
    OBVIOUS
  <2>12. /\ z \in Seq(X) /\ Len(z) = Len(v) + 1 /\ z[Len(v) + 1] = x
         /\ \A i \in 1..Len(v) : z[i] = v[i]
    BY <2>2, <2>11, AppendFacts
  <2>13. IsInjective(z)
    <3>1. /\ DOMAIN v = 1..Len(v) /\ DOMAIN z = 1..(Len(v) + 1) /\ Len(v) \in Nat
          /\ \A i \in 1..(Len(v) + 1) : i \in 1..Len(v) \/ i = Len(v) + 1
      BY <2>2, <2>12
    <3>2. QED
      BY <2>8, <2>10, <2>12, <3>1 DEF IsInjective
  <2>14. QED
    BY <2>5, <2>8, <2>11, <2>13
<1>3. <<>> \in T /\ \A w \in T, x \in X : Append(w, x) \in T
  <2> HIDE DEF P
  <2>1. <<>> \in T
    BY <1>1
  <2>2. \A w \in T, x \in X : Append(w, x) \in T
    BY <1>2, AppendFacts
  <2>3. QED
    BY <2>1, <2>2
<1>4. T = Seq(X)
  <2> HIDE DEF T
  <2>1. T \in SUBSET Seq(X)
    BY DEF T
  <2>2. QED
    BY <1>3, <2>1, SeqInd
<1>5. QED
  BY <1>4

-----------------------------------------------------------------------------
\* FlattenSeq.

\* What FlattenSeq's recursion comes to.
Flattens(f, c) ==
  /\ f[0] = <<>> /\ FlattenSeq(c) = f[Len(c)]
  /\ \A i \in 1..Len(c) : f[i] = f[i - 1] \o c[i]
LEMMA FlattenIs ==
  ASSUME NEW X, NEW c \in Seq(Seq(X))
  PROVE  \E f : f \in [0..Len(c) -> Seq(X)] /\ Flattens(f, c)
<1> DEFINE n == Len(c)
           W == Seq(X)
           step == [i \in 1..n |-> [w \in W |-> w \o c[i]]]
           Body(f) == [i \in 1..n |-> IF i = 1 THEN c[i] ELSE f[i - 1] \o c[i]]
           g == CHOOSE f : f = Body(f)
<1>1. n \in Nat /\ <<>> \in W
  OBVIOUS
<1>2. \A i \in 1..n, w \in W : w \o c[i] \in W /\ step[i][w] = w \o c[i]
  BY ConcatProperties
<1>3. PICK f \in [0..n -> W] : f[0] = <<>> /\ \A i \in 1..n : f[i] = step[i][f[i - 1]]
  <2>0. step \in [1..n -> [W -> W]]
    BY <1>2
  <2> HIDE DEF n, W, step
  <2>1. PICK V, a, k, st : V = W /\ a = <<>> /\ k = n /\ st = step
    OBVIOUS
  <2>2. a \in V
    BY <1>1, <2>1
  <2>3. k \in Nat
    BY <1>1, <2>1
  <2>4. st \in [1..k -> [V -> V]]
    BY <2>0, <2>1
  <2>5. \E f \in [0..k -> V] : f[0] = a /\ \A i \in 1..k : f[i] = st[i][f[i - 1]]
    BY ONLY <2>2, <2>3, <2>4, Recursion, SMTT(60)
  <2>6. QED
    BY <2>1, <2>5
<1>4. \A i \in 1..n : i - 1 \in 0..n /\ f[i] = f[i - 1] \o c[i]
  <2>1. \A i \in 1..n : i - 1 \in 0..n
    OBVIOUS
  <2> HIDE DEF n, W, step
  <2>2. QED
    BY <1>2, <1>3, <2>1
<1>5. n = 0 => FlattenSeq(c) = <<>>
  BY DEF FlattenSeq
<1>6. n # 0 => FlattenSeq(c) = f[n]
  <2>1. SUFFICES ASSUME n # 0 PROVE FlattenSeq(c) = f[n]
    OBVIOUS
  <2>2. 1 \in 1..n /\ n \in 1..n /\ 1 - 1 = 0
    BY <1>1, <2>1
  <2>3. f[1] = c[1]
    <3>0. c[1] \in W
      BY <2>2
    <3>1. f[1] = <<>> \o c[1] /\ c[1] \in Seq(X)
      BY <1>3, <1>4, <2>2, <3>0
    <3>2. QED
      BY <3>1, ConcatEmptySeq
  <2> DEFINE h == [i \in 1..n |-> f[i]]
  <2>4. \A i \in 1..n : i # 1 => i - 1 \in 1..n
    BY <1>1
  <2>5. h = Body(h)
    BY <1>4, <2>3, <2>4
  <2>6. g = Body(g)
    BY <2>5
  <2>7. FlattenSeq(c) = g[n]
    BY <2>1 DEF FlattenSeq
  <2>8. \A i \in 1..n : g[i] = IF i = 1 THEN c[i] ELSE g[i - 1] \o c[i]
    BY <2>6
  <2> DEFINE q == [i \in 0..n |-> IF i = 0 THEN <<>> ELSE g[i]]
  <2>9. q[0] = f[0] /\ \A i \in 1..n : q[i - 1] = f[i - 1] => q[i] = f[i]
    <3>1. /\ 0 \in 0..n
          /\ \A i \in 1..n : i \in 0..n /\ i # 0 /\ i - 1 \in 0..n /\ (i - 1 = 0 <=> i = 1)
      BY <1>1
    <3>2. \A i \in 0..n : q[i] = IF i = 0 THEN <<>> ELSE g[i]
      OBVIOUS
    <3> HIDE DEF n, W, step, g, q
    <3>3. q[0] = f[0]
      BY <1>3, <3>1, <3>2
    <3>4. ASSUME NEW i \in 1..n, q[i - 1] = f[i - 1]
          PROVE  q[i] = f[i]
      <4>1. q[i] = g[i] /\ f[i] = f[i - 1] \o c[i]
        BY <1>4, <3>1, <3>2
      <4>2. CASE i = 1
        BY <2>3, <2>8, <4>1, <4>2
      <4>3. CASE i # 1
        BY <3>1, <3>2, <4>3, <2>8, <3>4, <4>1
      <4>4. QED
        BY <4>2, <4>3
    <3>5. QED
      BY <3>3, <3>4
  <2> HIDE DEF n, W, step, g
  <2>10. \A i \in 0..n : q[i] = f[i]
    <3> HIDE DEF q
    <3>1. n \in Nat
      BY <1>1
    <3>2. QED
      BY ONLY <2>9, <3>1, AlikeByStep
  <2>11. n \in 0..n /\ q[n] = g[n]
    BY <1>1, <2>1
  <2>12. QED
    BY <2>7, <2>10, <2>11
<1>7. QED
  BY <1>1, <1>3, <1>4, <1>5, <1>6 DEF Flattens

LEMMA FlattenNothing == FlattenSeq(<<>>) = <<>>
  BY DEF FlattenSeq

LEMMA FlattenAppend ==
  ASSUME NEW X, NEW c \in Seq(Seq(X)), NEW x \in Seq(X)
  PROVE  FlattenSeq(c) \in Seq(X) /\ FlattenSeq(Append(c, x)) = FlattenSeq(c) \o x
<1>1. PICK d : d = Append(c, x)
  OBVIOUS
<1>2. d \in Seq(Seq(X)) /\ Len(d) = Len(c) + 1 /\ d[Len(c) + 1] = x /\ \A i \in 1..Len(c) : d[i] = c[i]
  BY <1>1, AppendFacts
<1>3. PICK f : f \in [0..Len(c) -> Seq(X)] /\ Flattens(f, c)
  BY FlattenIs
<1>4. PICK g : g \in [0..Len(d) -> Seq(X)] /\ Flattens(g, d)
  BY <1>2, FlattenIs
<1>5. Len(c) \in Nat /\ Len(c) + 1 \in 1..Len(d) /\ Len(c) \in 0..Len(c) /\ (Len(c) + 1) - 1 = Len(c)
      /\ \A i \in 1..Len(c) : i \in 1..Len(d)
  BY <1>2
<1>6. g[0] = f[0] /\ \A i \in 1..Len(c) : g[i - 1] = f[i - 1] => g[i] = f[i]
  BY <1>2, <1>3, <1>4, <1>5 DEF Flattens
<1>7. \A i \in 0..Len(c) : g[i] = f[i]
  BY <1>5, <1>6, AlikeByStep
<1>8. g[Len(c) + 1] = f[Len(c)] \o x
  BY <1>2, <1>4, <1>5, <1>7 DEF Flattens
<1>9. QED
  BY <1>1, <1>2, <1>3, <1>4, <1>5, <1>8 DEF Flattens

\* What is before the last element, and it.
LEMMA FrontLast ==
  ASSUME NEW X, NEW c \in Seq(X), c # <<>>
  PROVE  /\ Front(c) \in Seq(X) /\ Last(c) \in X /\ c = Append(Front(c), Last(c))
         /\ Len(Front(c)) = Len(c) - 1 /\ \A i \in 1..(Len(c) - 1) : Front(c)[i] = c[i]
<1>1. Len(c) \in Nat /\ Len(c) # 0
  BY EmptySeq
<1>2. Front(c) \in Seq(X) /\ Len(Front(c)) = Len(c) - 1 /\ \A i \in 1..(Len(c) - 1) : Front(c)[i] = c[i]
  <2>1. PICK k : k = Len(c) - 1
    OBVIOUS
  <2>2. k \in 0..Len(c) /\ Front(c) = SubSeq(c, 1, k)
    BY <1>1, <2>1 DEF Front
  <2>3. SubSeq(c, 1, k) \in Seq(X) /\ Len(SubSeq(c, 1, k)) = k /\ \A i \in 1..k : SubSeq(c, 1, k)[i] = c[i]
    BY <2>2, CutLemma
  <2>4. QED
    BY <2>1, <2>2, <2>3
<1>3. Last(c) \in X
  BY <1>1 DEF Last
<1>4. PICK d : d = Append(Front(c), Last(c))
  OBVIOUS
<1>5. d \in Seq(X) /\ Len(d) = Len(c) /\ d[Len(c)] = c[Len(c)] /\ \A i \in 1..(Len(c) - 1) : d[i] = c[i]
  BY <1>1, <1>2, <1>3, <1>4, AppendFacts DEF Last
<1>6. \A i \in 1..Len(c) : i \in 1..(Len(c) - 1) \/ i = Len(c)
  BY <1>1
<1>7. d = c
  BY <1>5, <1>6, SeqEqual
<1>8. QED
  BY <1>2, <1>3, <1>4, <1>7

\* What two sets have in common with a list decides.
LEMMA FilterSame ==
  ASSUME NEW X, NEW s \in Seq(X), NEW S, NEW R, \A x \in ToSet(s) : x \in S <=> x \in R
  PROVE  Filter(s, S) = Filter(s, R)
<1> DEFINE P(w) == (\A x \in ToSet(w) : x \in S <=> x \in R) => Filter(w, S) = Filter(w, R)
           T == {w \in Seq(X) : P(w)}
<1>1. P(<<>>)
  BY FilterNothing
<1>2. ASSUME NEW w \in Seq(X), P(w), NEW x \in X
      PROVE  P(Append(w, x))
  <2>1. SUFFICES ASSUME \A y \in ToSet(Append(w, x)) : y \in S <=> y \in R
                 PROVE  Filter(Append(w, x), S) = Filter(Append(w, x), R)
    OBVIOUS
  <2>2. ToSet(Append(w, x)) = ToSet(w) \cup {x}
    BY AppendSet
  <2>3. Filter(w, S) = Filter(w, R) /\ (x \in S <=> x \in R)
    BY <1>2, <2>1, <2>2
  <2>4. /\ Filter(Append(w, x), S) = IF x \in S THEN Append(Filter(w, S), x) ELSE Filter(w, S)
        /\ Filter(Append(w, x), R) = IF x \in R THEN Append(Filter(w, R), x) ELSE Filter(w, R)
    BY FilterAppend
  <2>5. QED
    BY <2>3, <2>4
<1>3. <<>> \in T /\ \A w \in T, x \in X : Append(w, x) \in T
  BY <1>1, <1>2, AppendFacts
<1>4. T = Seq(X)
  <2> HIDE DEF T
  <2>1. T \in SUBSET Seq(X)
    BY DEF T
  <2>2. QED
    BY <1>3, <2>1, SeqInd
<1>5. s \in T
  BY <1>4
<1>6. QED
  BY <1>5
=============================================================================
