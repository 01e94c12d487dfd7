---------------------------- MODULE InsightProofs ---------------------------
(***************************************************************************)
(* Proofs about the readers of the knowledge graph, for any paths, names,  *)
(* notes, requests and limits: while no writer stirred the graph under     *)
(* them, a context holds the best of what the request reached, a snapshot  *)
(* is the graph, the centralities and communities are those of the cache,  *)
(* a fused search ranks what its lists agree on, and a merge drops only    *)
(* what it may (InsightSound).  First what the operators compute (scores,  *)
(* rankings, balls, fusions), then an invariant that holds at every pause: *)
(* KeptInv for the graph, the snapshot, the cache and a fused search,      *)
(* TopicInv for a context that is being retrieved.                         *)
(***************************************************************************)
EXTENDS Insight, SequenceLemmas, FiniteSetTheorems, TLAPS

InsightSpec == InsightInit /\ [][InsightNext]_insightVars

-----------------------------------------------------------------------------
\* Values.

LEMMA TheOne == ASSUME NEW x PROVE (CHOOSE y \in {x} : TRUE) = x
OBVIOUS

LEMMA PutFacts ==
  ASSUME NEW f, NEW x, NEW v
  PROVE  /\ DOMAIN Put(f, x, v) = DOMAIN f \cup {x}
         /\ Put(f, x, v)[x] = v
         /\ \A y \in DOMAIN f : y # x => Put(f, x, v)[y] = f[y]
BY DEF Put

LEMMA DropFacts ==
  ASSUME NEW f, NEW s
  PROVE  /\ DOMAIN Drop(f, s) = DOMAIN f \ s
         /\ \A y \in DOMAIN f \ s : Drop(f, s)[y] = f[y]
BY DEF Drop, Restrict

\* Functions from some of D to R.
Partial(D, R) == UNION {[S -> R] : S \in SUBSET D}

LEMMA PartialFacts ==
  ASSUME NEW D, NEW R, NEW f \in Partial(D, R)
  PROVE  DOMAIN f \subseteq D /\ \A x \in DOMAIN f : f[x] \in R
BY DEF Partial

LEMMA PartialPut ==
  ASSUME NEW D, NEW R, NEW f \in Partial(D, R), NEW x \in D, NEW v \in R
  PROVE  Put(f, x, v) \in Partial(D, R)
<1>1. DOMAIN f \cup {x} \in SUBSET D /\ \A y \in DOMAIN f : f[y] \in R
  BY PartialFacts
<1>2. Put(f, x, v) \in [DOMAIN f \cup {x} -> R]
  BY <1>1 DEF Put
<1> QED  BY <1>1, <1>2 DEF Partial

LEMMA PartialDrop ==
  ASSUME NEW D, NEW R, NEW f \in Partial(D, R), NEW s
  PROVE  Drop(f, s) \in Partial(D, R)
<1>1. DOMAIN f \ s \in SUBSET D /\ \A y \in DOMAIN f : f[y] \in R
  BY PartialFacts
<1>2. Drop(f, s) \in [DOMAIN f \ s -> R]
  BY <1>1 DEF Drop, Restrict
<1> QED  BY <1>1, <1>2 DEF Partial

-----------------------------------------------------------------------------
\* The rows of the graph, and what the writes do to them.

Ents == [src: Paths, old: BOOLEAN]
Rows == [ents: Partial(Names, Ents), prov: SUBSET (Names \X Paths), edges: SUBSET Edges,
         hashes: Partial(Paths, Contents), bereft: SUBSET Names, lent: SUBSET Paths]

LEMMA RowsFacts ==
  ASSUME NEW g \in Rows
  PROVE  /\ IsGraph(g)
         /\ DOMAIN g.ents \subseteq Names /\ \A n \in DOMAIN g.ents : g.ents[n] \in Ents
         /\ DOMAIN g.hashes \subseteq Paths /\ \A p \in DOMAIN g.hashes : g.hashes[p] \in Contents
<1>1. g.ents \in Partial(Names, Ents) /\ g.hashes \in Partial(Paths, Contents)
  BY DEF Rows
<1>2. /\ DOMAIN g.ents \subseteq Names /\ \A n \in DOMAIN g.ents : g.ents[n] \in Ents
      /\ DOMAIN g.hashes \subseteq Paths /\ \A p \in DOMAIN g.hashes : g.hashes[p] \in Contents
  BY <1>1, PartialFacts
<1>3. g.prov \subseteq Names \X Paths /\ g.edges \subseteq Edges /\ g.bereft \subseteq Names /\ g.lent \subseteq Paths
  BY DEF Rows
<1> QED  BY <1>2, <1>3 DEF IsGraph, Ents

Upserted(g, h, p, names) ==
  /\ h \in Rows
  /\ DOMAIN h.ents = DOMAIN g.ents \cup names
  /\ \A n \in names : h.ents[n] = [src |-> p, old |-> FALSE]
  /\ \A n \in DOMAIN g.ents : n \notin names => h.ents[n] = g.ents[n]
  /\ h.prov = g.prov \cup (names \X {p})
  /\ h.edges = g.edges /\ h.hashes = g.hashes /\ h.lent = g.lent
  /\ h.bereft = g.bereft \ names

LEMMA UpsertEntitiesFacts ==
  ASSUME NEW g \in Rows, NEW p \in Paths, NEW names \in SUBSET Names
  PROVE  Upserted(g, UpsertEntities(g, p, names), p, names)
<1> DEFINE ents == [n \in DOMAIN g.ents \cup names |->
                        IF n \in names THEN [src |-> p, old |-> FALSE] ELSE g.ents[n]]
           prov == g.prov \cup (names \X {p})
           h == UpsertEntities(g, p, names)
<1>1. ents \in Partial(Names, Ents)
  <2>1. DOMAIN g.ents \cup names \in SUBSET Names
    BY RowsFacts
  <2>2. \A n \in DOMAIN g.ents \cup names : (IF n \in names THEN [src |-> p, old |-> FALSE] ELSE g.ents[n]) \in Ents
    BY RowsFacts DEF Ents
  <2>3. ents \in [DOMAIN g.ents \cup names -> Ents]
    BY <2>2
  <2> QED  BY <2>1, <2>3 DEF Partial
<1>2. prov \subseteq Names \X Paths
  BY DEF Rows
<1>3. /\ h.ents = ents /\ h.prov = prov /\ h.bereft = g.bereft \ names
      /\ h.edges = g.edges /\ h.hashes = g.hashes /\ h.lent = g.lent
  BY DEF UpsertEntities, Rows
<1>4. h \in Rows
  BY <1>1, <1>2 DEF UpsertEntities, ents, prov, Rows
<1> QED  BY <1>3, <1>4 DEF Upserted

LEMMA UpsertEdgesFacts ==
  ASSUME NEW g \in Rows, NEW es \in SUBSET Edges
  PROVE  LET h == UpsertEdges(g, es) IN
         /\ h \in Rows
         /\ h.ents = g.ents /\ h.prov = g.prov /\ h.hashes = g.hashes /\ h.bereft = g.bereft
         /\ h.edges = g.edges \cup {e \in es : ~\E f \in g.edges : Alike(e, f)}
         /\ h.lent = g.lent \cup {e.src : e \in {x \in es : \E f \in g.edges : Alike(x, f) /\ f.src # x.src}}
<1> DEFINE edges == g.edges \cup {e \in es : ~\E f \in g.edges : Alike(e, f)}
           lent == g.lent \cup {e.src : e \in {x \in es : \E f \in g.edges : Alike(x, f) /\ f.src # x.src}}
<1>1. edges \subseteq Edges
  BY DEF Rows
<1>2. lent \subseteq Paths
  BY DEF Rows, Edges
<1>3. UpsertEdges(g, es) = [[g EXCEPT !.edges = edges] EXCEPT !.lent = lent]
  BY DEF UpsertEdges, Rows
<1> HIDE DEF edges, lent
<1>4. PICK ed, le : ed = edges /\ le = lent
  OBVIOUS
<1>5. [[g EXCEPT !.edges = ed] EXCEPT !.lent = le] \in Rows
  BY <1>1, <1>2, <1>4 DEF Rows
<1> QED  BY <1>3, <1>4, <1>5 DEF edges, lent, Rows

LEMMA DeleteSourceFacts ==
  ASSUME NEW g \in Rows, NEW p \in Paths
  PROVE  LET h == DeleteSource(g, p)
             out == Unowned(g, h.prov, p) IN
         /\ h \in Rows
         /\ h.prov = {s \in g.prov : s[2] # p}
         /\ DOMAIN h.ents = DOMAIN g.ents \ out
         /\ \A n \in DOMAIN h.ents : h.ents[n] = g.ents[n]
         /\ h.edges = {e \in g.edges : e.src # p /\ {e.from, e.to} \cap out = {}}
         /\ DOMAIN h.hashes = DOMAIN g.hashes \ {p}
         /\ \A q \in DOMAIN h.hashes : h.hashes[q] = g.hashes[q]
         /\ h.bereft = (g.bereft \ out) \cup {n \in DOMAIN g.ents \ out : g.ents[n].src = p}
         /\ h.lent = g.lent \ {p}
<1> DEFINE prov == {s \in g.prov : s[2] # p}
           out == Unowned(g, prov, p)
           ents == Drop(g.ents, out)
           hashes == Drop(g.hashes, {p})
           edges == {e \in g.edges : e.src # p /\ {e.from, e.to} \cap out = {}}
           bereft == (g.bereft \ out) \cup {n \in DOMAIN g.ents \ out : g.ents[n].src = p}
<1>1. DeleteSource(g, p) = [ents |-> ents, prov |-> prov, edges |-> edges, hashes |-> hashes,
                            bereft |-> bereft, lent |-> g.lent \ {p}]
  BY DEF DeleteSource
<1>2. DOMAIN ents = DOMAIN g.ents \ out /\ \A n \in DOMAIN ents : ents[n] = g.ents[n]
  <2> HIDE DEF out
  <2>1. PICK f, o : f = g.ents /\ o = out
    OBVIOUS
  <2>2. DOMAIN Drop(f, o) = DOMAIN f \ o /\ \A n \in DOMAIN f \ o : Drop(f, o)[n] = f[n]
    BY DropFacts
  <2> QED  BY <2>1, <2>2
<1>3. DOMAIN hashes = DOMAIN g.hashes \ {p} /\ \A q \in DOMAIN hashes : hashes[q] = g.hashes[q]
  <2>1. PICK f : f = g.hashes
    OBVIOUS
  <2>2. DOMAIN Drop(f, {p}) = DOMAIN f \ {p} /\ \A n \in DOMAIN f \ {p} : Drop(f, {p})[n] = f[n]
    BY DropFacts
  <2> QED  BY <2>1, <2>2
<1>4. prov \subseteq Names \X Paths /\ edges \subseteq Edges /\ bereft \subseteq Names /\ g.lent \ {p} \subseteq Paths
  BY RowsFacts DEF Rows
<1>5. ents \in Partial(Names, Ents) /\ hashes \in Partial(Paths, Contents)
  BY PartialDrop DEF Rows
<1> HIDE DEF ents, hashes, edges, bereft, prov, out
<1>6. PICK en, pr, ed, ha, be, le : en = ents /\ pr = prov /\ ed = edges /\ ha = hashes /\ be = bereft /\ le = g.lent \ {p}
  OBVIOUS
<1>7. [ents |-> en, prov |-> pr, edges |-> ed, hashes |-> ha, bereft |-> be, lent |-> le] \in Rows
  BY <1>4, <1>5, <1>6 DEF Rows
<1>8. DeleteSource(g, p) \in Rows
  BY <1>1, <1>6, <1>7
<1>9. DeleteSource(g, p).prov = prov /\ Unowned(g, DeleteSource(g, p).prov, p) = out
  BY <1>1 DEF out, prov
<1>10. /\ DeleteSource(g, p).ents = ents /\ DeleteSource(g, p).edges = edges
       /\ DeleteSource(g, p).hashes = hashes /\ DeleteSource(g, p).bereft = bereft
       /\ DeleteSource(g, p).lent = g.lent \ {p}
  BY <1>1
<1> QED  BY <1>2, <1>3, <1>8, <1>9, <1>10 DEF edges, bereft, prov

-----------------------------------------------------------------------------
\* The graph is whole: no edge without both its ends.

Whole(g) == g \in Rows /\ \A e \in g.edges : {e.from, e.to} \subseteq DOMAIN g.ents

LEMMA WholeDelete ==
  ASSUME NEW g, Whole(g), NEW p \in Paths
  PROVE  Whole(DeleteSource(g, p))
<1> DEFINE h == DeleteSource(g, p)
           out == Unowned(g, h.prov, p)
<1>1. g \in Rows
  BY DEF Whole
<1>2. /\ h \in Rows /\ DOMAIN h.ents = DOMAIN g.ents \ out
      /\ h.edges = {e \in g.edges : e.src # p /\ {e.from, e.to} \cap out = {}}
  BY <1>1, DeleteSourceFacts
<1> HIDE DEF h, out
<1>3. \A e \in h.edges : {e.from, e.to} \subseteq DOMAIN h.ents
  BY <1>2 DEF Whole
<1>4. QED
  BY <1>2, <1>3 DEF Whole, h

LEMMA WholeUpsertEntities ==
  ASSUME NEW g, Whole(g), NEW p \in Paths, NEW names \in SUBSET Names
  PROVE  Whole(UpsertEntities(g, p, names)) /\ Upserted(g, UpsertEntities(g, p, names), p, names)
BY UpsertEntitiesFacts DEF Whole, Upserted

LEMMA WholeUpsertEdges ==
  ASSUME NEW g, Whole(g), NEW es \in SUBSET Edges, \A e \in es : {e.from, e.to} \subseteq DOMAIN g.ents
  PROVE  /\ Whole(UpsertEdges(g, es)) /\ UpsertEdges(g, es).ents = g.ents /\ UpsertEdges(g, es).prov = g.prov
         /\ UpsertEdges(g, es).edges \subseteq g.edges \cup es
BY UpsertEdgesFacts DEF Whole

LEMMA WholeRebuilt ==
  ASSUME NEW g, Whole(g), NEW w \in Writing
  PROVE  Whole(Rebuilt(g, w))
<1> DEFINE p == w.path
           names == Stated(p, w.strong, w.weak)
           es == StatedEdges(p, w.strong, w.weak)
<1>1. p \in Paths /\ w.strong \subseteq Names /\ w.weak \subseteq Names /\ NoContent \in Contents
  BY InsightAssumption DEF Writing
<1>2. OwnName[p] \in Names
  BY <1>1, OwnNameAssumption
<1>3. names \in SUBSET Names
  BY <1>1, <1>2 DEF Stated
<1>4. \A n \in Names, s \in BOOLEAN : /\ Edge(p, n, s) \in Edges /\ Edge(p, n, s).from = OwnName[p]
                                      /\ Edge(p, n, s).to = n
  BY <1>1, <1>2 DEF Edge, Edges, Rels
<1>5. es \in SUBSET Edges /\ \A e \in es : e.from \in names /\ e.to \in names
  <2>1. \A e \in es : \E n \in w.strong \cup w.weak, s \in BOOLEAN : e = Edge(p, n, s)
    BY DEF StatedEdges
  <2>2. w.strong \cup w.weak \subseteq names /\ OwnName[p] \in names
    BY DEF Stated
  <2> HIDE DEF es, names
  <2>3. QED
    BY <1>1, <1>4, <2>1, <2>2
<1> HIDE DEF p, names, es
<1>6. PICK d : d = DeleteSource(g, p)
  OBVIOUS
<1>7. PICK u : u = UpsertEntities(d, p, names)
  OBVIOUS
<1>8. PICK v : v = UpsertEdges(u, es)
  OBVIOUS
<1>9. Whole(d)
  BY <1>1, <1>6, WholeDelete
<1>10. Whole(u) /\ Upserted(d, u, p, names)
  BY <1>1, <1>3, <1>7, <1>9, WholeUpsertEntities
<1>11. Whole(v)
  BY <1>5, <1>10, <1>8, WholeUpsertEdges DEF Upserted
<1>12. PICK x : x = Put(v.hashes, p, NoContent)
  OBVIOUS
<1>13. Rebuilt(g, w) = [v EXCEPT !.hashes = x]
  BY <1>6, <1>7, <1>8, <1>12 DEF Rebuilt, RebuildOne, p, names, es
<1>14. x \in Partial(Paths, Contents)
  BY <1>11, <1>1, <1>12, PartialPut DEF Whole, Rows
<1>15. v \in Rows /\ \A e \in v.edges : {e.from, e.to} \subseteq DOMAIN v.ents
  BY <1>11 DEF Whole
<1>16. PICK y : y = [v EXCEPT !.hashes = x]
  OBVIOUS
<1>17. y \in Rows /\ y.edges = v.edges /\ y.ents = v.ents
  BY <1>14, <1>15, <1>16 DEF Rows
<1>18. QED
  BY <1>13, <1>15, <1>16, <1>17 DEF Whole

\* The graph of the first notes.
LEMMA WholeBuilt ==
  ASSUME NEW notes \in Seq(Writing)
  PROVE  Whole(Built(notes))
<1> DEFINE n == Len(notes)
           Graphs == {g \in Rows : Whole(g)}
           Then(i, w) == Rebuilt(w, notes[i])
           step == [i \in 1..n |-> [w \in Graphs |-> Then(i, w)]]
           Body(f) == [i \in 0..n |-> IF i = 0 THEN EmptyGraph ELSE Rebuilt(f[i - 1], notes[i])]
           g == CHOOSE f : f = Body(f)
<1>1. n \in Nat /\ \A i \in 1..n : notes[i] \in Writing
  OBVIOUS
<1>2. EmptyGraph \in Graphs
  <2>1. PICK a, b : a = [x \in {} |-> {}] /\ b = [q \in {} |-> {}]
    OBVIOUS
  <2>2. a \in Partial(Names, Ents) /\ b \in Partial(Paths, Contents)
    <3>1. a \in [{} -> Ents] /\ b \in [{} -> Contents]
      BY <2>1
    <3>2. {} \in SUBSET Names /\ {} \in SUBSET Paths
      OBVIOUS
    <3>3. QED
      BY <3>1, <3>2 DEF Partial
  <2>3. EmptyGraph = [ents |-> a, prov |-> {}, edges |-> {}, hashes |-> b, bereft |-> {}, lent |-> {}]
    BY <2>1 DEF EmptyGraph
  <2>4. EmptyGraph \in Rows /\ EmptyGraph.edges = {}
    BY <2>2, <2>3 DEF Rows
  <2>5. QED
    BY <2>4 DEF Whole
<1>3. \A i \in 1..n, w \in Graphs : Then(i, w) \in Graphs
  BY <1>1, WholeRebuilt DEF Whole
<1> HIDE DEF Then, Graphs, n
<1>4. step \in [1..n -> [Graphs -> Graphs]]
  BY <1>3
<1>5. PICK f : f \in [0..n -> Graphs] /\ f[0] = EmptyGraph /\ \A i \in 1..n : f[i] = step[i][f[i - 1]]
  <2> HIDE DEF step
  <2>1. \E f : Recurs(f, n, Graphs, EmptyGraph, step)
    BY <1>1, <1>2, <1>4, RecursFacts
  <2>2. QED
    BY <2>1 DEF Recurs
<1>6. \A i \in 1..n : i - 1 \in 0..n /\ f[i - 1] \in Graphs /\ f[i] = Then(i, f[i - 1])
  <2>1. \A i \in 1..n, w \in Graphs : step[i][w] = Then(i, w)
    OBVIOUS
  <2>2. \A i \in 1..n : i - 1 \in 0..n
    BY <1>1
  <2> HIDE DEF step
  <2>3. QED
    BY <1>5, <2>1, <2>2
<1>7. f = Body(f)
  BY <1>5, <1>1, <1>6 DEF Then
<1>8. g = Body(g)
  BY <1>7
<1>9. \A i \in 0..n : g[i] = f[i]
  <2> HIDE DEF g
  <2>1. \A i \in 0..n : g[i] = IF i = 0 THEN EmptyGraph ELSE Then(i, g[i - 1])
    BY <1>8 DEF Then
  <2>2. \A i \in 1..n : i \in 0..n /\ i # 0
    BY <1>1
  <2>3. g[0] = f[0] /\ \A i \in 1..n : g[i - 1] = f[i - 1] => g[i] = f[i]
    BY <1>1, <1>5, <1>6, <2>1, <2>2
  <2>4. QED
    BY <1>1, <2>3, AlikeByStep
<1>10. Built(notes) = g[n]
  BY DEF Built, n
<1>11. QED
  BY <1>1, <1>5, <1>9, <1>10 DEF Graphs

-----------------------------------------------------------------------------
\* Orders.

\* A finite set has an element with the highest score.
LEMMA Highest ==
  ASSUME NEW S, IsFiniteSet(S), S # {}, NEW score, \A x \in S : score[x] \in Int
  PROVE  \E x \in S : \A y \in S : score[y] <= score[x]
<1> DEFINE T == {n \in Nat : \A R \in SUBSET S : R # {} /\ Cardinality(R) = n =>
                               \E x \in R : \A y \in R : score[y] <= score[x]}
<1>1. \A R \in SUBSET S : IsFiniteSet(R) /\ Cardinality(R) \in Nat
  BY FS_Subset, FS_CardinalityType
<1>2. 0 \in T
  BY <1>1, FS_EmptySet
<1>3. ASSUME NEW n \in T PROVE n + 1 \in T
  <2> SUFFICES ASSUME NEW R \in SUBSET S, R # {}, Cardinality(R) = n + 1
               PROVE  \E x \in R : \A y \in R : score[y] <= score[x]
    OBVIOUS
  <2>1. PICK a \in R : TRUE
    OBVIOUS
  <2>2. PICK Q : Q = R \ {a}
    OBVIOUS
  <2>3. Q \in SUBSET S /\ Cardinality(Q) = n
    <3>1. IsFiniteSet(R)
      BY <1>1
    <3>2. Cardinality(Q) = Cardinality(R) - 1
      BY <2>1, <2>2, <3>1, FS_RemoveElement
    <3>3. QED
      BY <2>2, <3>2
  <2>4. CASE Q = {}
    BY <2>2, <2>4, <2>1
  <2>5. CASE Q # {}
    BY <1>3, <2>3, <2>5, <2>1, <2>2
  <2>6. QED
    BY <2>4, <2>5
<1>4. T \in SUBSET Nat
  OBVIOUS
<1> HIDE DEF T
<1>5. T = Nat
  BY <1>2, <1>3, <1>4, NatInd
<1>6. Cardinality(S) \in T
  BY <1>1, <1>5
<1>7. QED
  BY <1>6 DEF T

\* The sequences of all the elements of a set.
LEMMA SeqsFacts ==
  ASSUME NEW S, IsFiniteSet(S), NEW r \in SetToSeqs(S)
  PROVE  /\ r \in Seq(S) /\ Len(r) = Cardinality(S) /\ Len(r) \in Nat /\ DOMAIN r = 1..Len(r)
         /\ IsInjective(r) /\ ToSet(r) = S
<1>1. PICK n : n = Cardinality(S)
  OBVIOUS
<1>2. n \in Nat
  BY <1>1, FS_CardinalityType
<1>3. r \in [1..n -> S] /\ \A i, j \in 1..n : i # j => r[i] # r[j]
  BY <1>1 DEF SetToSeqs
<1>4. r \in Seq(S) /\ Len(r) = n /\ DOMAIN r = 1..n /\ IsInjective(r)
  BY <1>2, <1>3 DEF IsInjective
<1>5. r \in Injection(1..n, S)
  BY <1>3, <1>4 DEF Injection
<1>6. Cardinality(1..n) = n
  BY <1>2, FS_Interval
<1>7. r \in Surjection(1..n, S)
  BY <1>1, <1>5, <1>6, FS_Injection
<1>8. ToSet(r) = S
  BY <1>3, <1>4, <1>7 DEF Surjection, ToSet
<1>9. QED
  BY <1>1, <1>2, <1>4, <1>8

\* Names have an order.
InOrder(r) == \A i, j \in DOMAIN r : i < j => NameOrder[r[i]] < NameOrder[r[j]]
LEMMA Ordered ==
  ASSUME NEW names \in SUBSET Names
  PROVE  \E r \in SetToSeqs(names) : InOrder(r)
<1> DEFINE T == {n \in Nat : \A R \in SUBSET Names : Cardinality(R) = n => \E r \in SetToSeqs(R) : InOrder(r)}
<1>0. /\ \A x \in Names : NameOrder[x] \in Nat
      /\ \A x, y \in Names : NameOrder[x] = NameOrder[y] => x = y
  BY InsightAssumption DEF IsInjective
<1>1. \A R \in SUBSET Names : IsFiniteSet(R) /\ Cardinality(R) \in Nat
  BY InsightAssumption, FS_Subset, FS_CardinalityType
<1>2. 0 \in T
  <2> SUFFICES ASSUME NEW R \in SUBSET Names, Cardinality(R) = 0
               PROVE  \E r \in SetToSeqs(R) : InOrder(r)
    OBVIOUS
  <2>1. PICK r : r = [i \in 1..0 |-> 0]
    OBVIOUS
  <2>2. R = {} /\ 1..0 = {}
    BY <1>1, FS_EmptySet
  <2>3. r \in SetToSeqs(R) /\ DOMAIN r = {}
    BY <2>1, <2>2 DEF SetToSeqs
  <2>4. QED
    BY <2>3 DEF InOrder
<1>3. ASSUME NEW n \in T PROVE n + 1 \in T
  <2> SUFFICES ASSUME NEW R \in SUBSET Names, Cardinality(R) = n + 1
               PROVE  \E r \in SetToSeqs(R) : InOrder(r)
    OBVIOUS
  <2>1. IsFiniteSet(R) /\ R # {} /\ \A x \in R : NameOrder[x] \in Int
    BY <1>0, <1>1, FS_EmptySet
  <2>2. PICK a \in R : \A y \in R : NameOrder[y] <= NameOrder[a]
    BY <2>1, Highest
  <2>3. PICK Q : Q = R \ {a}
    OBVIOUS
  <2>4. Q \in SUBSET Names /\ Cardinality(Q) = n
    <3>1. Cardinality(Q) = Cardinality(R) - 1
      BY <2>1, <2>2, <2>3, FS_RemoveElement
    <3>2. QED
      BY <2>3, <3>1
  <2>5. PICK q \in SetToSeqs(Q) : InOrder(q)
    BY <1>3, <2>4
  <2>6. q \in [1..n -> Q] /\ \A i, j \in 1..n : i # j => q[i] # q[j]
    BY <2>4, <2>5 DEF SetToSeqs
  <2>7. PICK r : r = [i \in 1..(n + 1) |-> IF i = n + 1 THEN a ELSE q[i]]
    OBVIOUS
  <2>8. n \in Nat /\ \A i \in 1..(n + 1) : i = n + 1 \/ (i \in 1..n /\ i # n + 1)
    OBVIOUS
  <2>9. r \in [1..(n + 1) -> R] /\ r[n + 1] = a /\ \A i \in 1..n : r[i] = q[i] /\ q[i] \in Q
    BY <2>2, <2>3, <2>6, <2>7, <2>8
  <2>10. \A i, j \in 1..(n + 1) : i # j => r[i] # r[j]
    BY <2>3, <2>6, <2>8, <2>9
  <2>11. r \in SetToSeqs(R)
    BY <2>9, <2>10 DEF SetToSeqs
  <2>12. InOrder(r)
    <3> SUFFICES ASSUME NEW i \in 1..(n + 1), NEW j \in 1..(n + 1), i < j
                 PROVE  NameOrder[r[i]] < NameOrder[r[j]]
      BY <2>9 DEF InOrder
    <3>1. i \in 1..n
      BY <2>8
    <3>2. CASE j = n + 1
      BY <2>3, <2>9, <3>1, <1>0, <2>2, <3>2
    <3>3. CASE j \in 1..n
      BY <2>5, <2>6, <2>9, <3>1, <3>3 DEF InOrder
    <3>4. QED
      BY <2>8, <3>2, <3>3
  <2>13. QED
    BY <2>11, <2>12
<1>4. T \in SUBSET Nat
  OBVIOUS
<1> HIDE DEF T
<1>5. T = Nat
  BY <1>2, <1>3, <1>4, NatInd
<1>6. Cardinality(names) \in T
  BY <1>1, <1>5
<1>7. QED
  BY <1>6 DEF T

LEMMA ByNameFacts ==
  ASSUME NEW names \in SUBSET Names
  PROVE  /\ ByName(names) \in Seq(Names) /\ IsInjective(ByName(names)) /\ ToSet(ByName(names)) = names
<1>1. PICK r : r = ByName(names)
  OBVIOUS
<1>2. r \in SetToSeqs(names)
  BY Ordered, <1>1 DEF InOrder, ByName
<1>3. IsFiniteSet(names)
  BY InsightAssumption, FS_Subset
<1>4. r \in Seq(names) /\ IsInjective(r) /\ ToSet(r) = names
  BY <1>2, <1>3, SeqsFacts
<1>5. r \in Seq(Names)
  BY <1>4
<1>6. QED
  BY <1>1, <1>4, <1>5

\* The first of a sequence.
LEMMA FirstFacts ==
  ASSUME NEW S, NEW s \in Seq(S), NEW n \in Nat
  PROVE  /\ FirstOnes(s, n) \in Seq(S) /\ Len(FirstOnes(s, n)) = IF n < Len(s) THEN n ELSE Len(s)
         /\ Len(FirstOnes(s, n)) <= Len(s) /\ Len(FirstOnes(s, n)) <= n
         /\ \A i \in 1..Len(FirstOnes(s, n)) : i \in 1..Len(s) /\ FirstOnes(s, n)[i] = s[i]
         /\ IsInjective(s) => IsInjective(FirstOnes(s, n))
         /\ ToSet(FirstOnes(s, n)) \subseteq ToSet(s)
BY DEF FirstOnes, IsInjective, ToSet

-----------------------------------------------------------------------------
\* Types of all but the retrieval of a context; the graph is whole.

HeldSet == [of: Names, src: Paths]
Merging == {"check", "merge", "move", "drop", "merged"}
FusionSet == [at: {"none", "hops", "done", "raised"} \cup Merging, term: SUBSET Terms,
              cached: Seq(Names), seeds: Seq(Names), lists: Seq(Seq(Names)),
              from: SUBSET HeldSet, to: SUBSET HeldSet, edges: SUBSET Edges]
MergeFits(f) ==
  f.at \in Merging => /\ \E k : f.to = {k} /\ \A r \in f.from : r.of # k.of
                      /\ f.at # "check" => \E d : f.from = {d}

Nets == [nodes: Partial(Names, Paths \cup {NoPath}), edges: SUBSET Edges]
NetFits(g) == g \in Nets /\ \A e \in g.edges : {e.from, e.to} \subseteq DOMAIN g.nodes
ShotSet == [at: {"none", "edges", "scan"}, nodes: Partial(Names, Paths)]

StirredFits == stirred \in [Readers -> BOOLEAN]
BaseInv == /\ StirredFits /\ Whole(graph) /\ fusion \in FusionSet /\ MergeFits(fusion)
           /\ shot \in ShotSet /\ NetFits(cache) /\ NetFits(view)

\* The retrieval of a context changes nothing else.
Reads == \/ \E t \in Topics : Retrieve(t)
         \/ MatchEntities \/ Matched \/ Near1 \/ Hop \/ Descend \/ Hopped \/ Rank1 \/ Read1
LEMMA ReadsLeave ==
  ASSUME StirredFits, Reads
  PROVE  /\ graph' = graph /\ onDisk' = onDisk /\ shot' = shot /\ cache' = cache /\ view' = view /\ fusion' = fusion
         /\ stirred' \in [Readers -> BOOLEAN]
         /\ stirred'["shot"] = stirred["shot"] /\ stirred'["fusion"] = stirred["fusion"]
<1>1. CASE \E t \in Topics : Retrieve(t)
  BY <1>1 DEF Retrieve, Fresh, graphVars, StirredFits, Readers
<1>2. CASE MatchEntities \/ Matched \/ Near1 \/ Hop \/ Descend \/ Hopped \/ Rank1 \/ Read1
  <2>1. \E t : Steps1(t)
    BY <1>2 DEF MatchEntities, Matched, Near1, Hop, Descend, Hopped, Rank1, Read1
  <2>2. QED
    BY <2>1 DEF Steps1, Quietly, graphVars, StirredFits
<1>3. QED
  BY <1>1, <1>2 DEF Reads

-----------------------------------------------------------------------------
\* Snapshots.

LEMMA WithoutFits ==
  ASSUME NEW g, NetFits(g), NEW names
  PROVE  /\ NetFits(Without(g, names)) /\ DOMAIN Without(g, names).nodes = DOMAIN g.nodes \ names
         /\ \A n \in DOMAIN g.nodes \ names : Without(g, names).nodes[n] = g.nodes[n]
         /\ Without(g, names).edges = {e \in g.edges : {e.from, e.to} \cap names = {}}
<1>1. PICK a, b, c : /\ a = g.nodes /\ b = Drop(a, names)
                     /\ c = {e \in g.edges : {e.from, e.to} \cap names = {}}
  OBVIOUS
<1>2. DOMAIN b = DOMAIN a \ names /\ \A y \in DOMAIN a \ names : b[y] = a[y]
  <2>1. DOMAIN Drop(a, names) = DOMAIN a \ names /\ \A y \in DOMAIN a \ names : Drop(a, names)[y] = a[y]
    BY DropFacts
  <2>2. b = Drop(a, names)
    BY <1>1
  <2>3. QED
    BY <2>1, <2>2
<1>3. b \in Partial(Names, Paths \cup {NoPath})
  BY <1>1, PartialDrop DEF NetFits, Nets
<1>4. c \subseteq Edges
  BY <1>1 DEF NetFits, Nets
<1>5. PICK h : h = [nodes |-> b, edges |-> c]
  OBVIOUS
<1>6. h = Without(g, names)
  BY <1>1, <1>5 DEF Without
<1>7. h \in Nets
  BY <1>3, <1>4, <1>5 DEF Nets
<1>8. \A e \in h.edges : {e.from, e.to} \subseteq DOMAIN h.nodes
  BY <1>1, <1>2, <1>5 DEF NetFits
<1>9. NetFits(h)
  BY <1>7, <1>8 DEF NetFits
<1>10. DOMAIN h.nodes = DOMAIN g.nodes \ names /\ \A n \in DOMAIN g.nodes \ names : h.nodes[n] = g.nodes[n]
  BY <1>1, <1>2, <1>5
<1>11. h.edges = {e \in g.edges : {e.from, e.to} \cap names = {}}
  BY <1>1, <1>5
<1>12. QED
  BY <1>6, <1>9, <1>10, <1>11

LEMMA NothingFits == NetFits(NoGraph) /\ NoGraph.nodes \in Partial(Names, Paths) /\ DOMAIN NoGraph.nodes = {}
<1>1. PICK a : a = [n \in {} |-> NoPath]
  OBVIOUS
<1>2. a \in Partial(Names, Paths) /\ a \in Partial(Names, Paths \cup {NoPath}) /\ DOMAIN a = {}
  <2>1. a \in [{} -> Paths] /\ a \in [{} -> Paths \cup {NoPath}] /\ {} \in SUBSET Names
    BY <1>1
  <2>2. QED
    BY <1>1, <2>1 DEF Partial
<1>3. NoGraph = [nodes |-> a, edges |-> {}]
  BY <1>1 DEF NoGraph
<1>4. NoGraph.nodes = a /\ NoGraph.edges = {} /\ NoGraph \in Nets
  BY <1>2, <1>3 DEF Nets
<1>5. QED
  BY <1>2, <1>4 DEF NetFits

\* Snapshot, SnapshotEdges and TenantSnapshot.
Shoots == Snapshot \/ SnapshotEdges \/ TenantSnapshot
Shot(g) == [n \in DOMAIN g.ents |-> g.ents[n].src]
LEMMA ShotFits ==
  ASSUME NEW g, Whole(g)
  PROVE  Shot(g) \in Partial(Names, Paths) /\ DOMAIN Shot(g) = DOMAIN g.ents
BY RowsFacts DEF Whole, Ents, Shot, Partial

\* What the second statement makes of the nodes of the first.
Ends(g) == UNION {{e.from, e.to} : e \in g.edges}
Shot2(nodes, g) ==
  [nodes |-> [n \in DOMAIN nodes \cup Ends(g) |-> IF n \in DOMAIN nodes THEN nodes[n] ELSE NoPath],
   edges |-> g.edges]
LEMMA Shot2Fits ==
  ASSUME NEW g, Whole(g), NEW nodes \in Partial(Names, Paths)
  PROVE  /\ NetFits(Shot2(nodes, g)) /\ Shot2(nodes, g).edges = g.edges
         /\ DOMAIN Shot2(nodes, g).nodes = DOMAIN nodes \cup Ends(g)
         /\ \A n \in DOMAIN nodes : Shot2(nodes, g).nodes[n] = nodes[n]
<1>1. PICK a : a = [n \in DOMAIN nodes \cup Ends(g) |-> IF n \in DOMAIN nodes THEN nodes[n] ELSE NoPath]
  OBVIOUS
<1>2. DOMAIN nodes \subseteq Names /\ \A n \in DOMAIN nodes : nodes[n] \in Paths
  BY PartialFacts
<1>3. g.edges \subseteq Edges
  BY DEF Whole, Rows
<1>4. Ends(g) \subseteq Names
  BY <1>3 DEF Edges, Ends
<1>5. a \in [DOMAIN nodes \cup Ends(g) -> Paths \cup {NoPath}] /\ DOMAIN nodes \cup Ends(g) \in SUBSET Names
  BY <1>1, <1>2, <1>4
<1>6. a \in Partial(Names, Paths \cup {NoPath}) /\ DOMAIN a = DOMAIN nodes \cup Ends(g)
  BY <1>5 DEF Partial
<1>7. PICK h : h = [nodes |-> a, edges |-> g.edges]
  OBVIOUS
<1>8. h = Shot2(nodes, g)
  BY <1>1, <1>7 DEF Shot2
<1>9. h \in Nets /\ h.nodes = a /\ h.edges = g.edges
  BY <1>3, <1>6, <1>7 DEF Nets
<1>10. \A e \in h.edges : {e.from, e.to} \subseteq DOMAIN h.nodes
  BY <1>6, <1>9 DEF Ends
<1>11. \A n \in DOMAIN nodes : a[n] = nodes[n]
  BY <1>1
<1>12. QED
  BY <1>6, <1>8, <1>9, <1>10, <1>11 DEF NetFits

\* What a snapshot makes of the state.
LEMMA ShootsMakes ==
  ASSUME BaseInv, Shoots
  PROVE  /\ graph' = graph /\ fusion' = fusion /\ topic' = topic /\ onDisk' = onDisk
         /\ shot' \in ShotSet /\ NetFits(cache') /\ NetFits(view')
         /\ stirred' \in [Readers -> BOOLEAN] /\ stirred'["topic"] = stirred["topic"]
         /\ \/ /\ shot'.at = "edges" /\ shot.at = "none" /\ shot'.nodes = Shot(graph)
               /\ cache' = cache /\ view' = view /\ stirred'["fusion"] = stirred["fusion"]
            \/ /\ shot'.at = "scan" /\ shot.at = "edges" /\ cache' = Shot2(shot.nodes, graph) /\ view' = view
               /\ stirred'["shot"] = stirred["shot"]
               /\ stirred'["fusion"] = (stirred["fusion"] \/ fusion.at \in {"hops", "done"})
            \/ /\ shot'.at = "none" /\ shot.at = "scan" /\ cache' = cache
               /\ stirred'["fusion"] = stirred["fusion"]
               /\ view' = cache \/ \A n \in DOMAIN view'.nodes : view'.nodes[n] \in Visible \cup {NoPath}
<1>1. CASE Snapshot
  <2>1. PICK a : a = Shot(graph)
    OBVIOUS
  <2>2. shot' = [at |-> "edges", nodes |-> a] /\ shot.at = "none"
    BY <1>1, <2>1 DEF Snapshot, Shot, Source
  <2>3. a \in Partial(Names, Paths)
    BY <2>1, ShotFits DEF BaseInv
  <2>4. shot' \in ShotSet /\ shot'.at = "edges" /\ shot'.nodes = a
    BY <2>2, <2>3 DEF ShotSet
  <2>5. stirred' = [stirred EXCEPT !["shot"] = FALSE]
    BY <1>1 DEF Snapshot, Fresh
  <2>6. /\ graph' = graph /\ fusion' = fusion /\ topic' = topic /\ onDisk' = onDisk /\ cache' = cache /\ view' = view
    BY <1>1 DEF Snapshot, graphVars
  <2>7. /\ stirred' \in [Readers -> BOOLEAN] /\ stirred'["topic"] = stirred["topic"]
        /\ stirred'["fusion"] = stirred["fusion"]
    BY <2>5 DEF BaseInv, StirredFits, Readers
  <2>8. NetFits(cache') /\ NetFits(view')
    BY <2>6 DEF BaseInv, NetFits
  <2>9. QED
    BY <2>1, <2>2, <2>4, <2>6, <2>7, <2>8
<1>2. CASE SnapshotEdges
  <2>1. shot.at = "edges" /\ shot' = [shot EXCEPT !.at = "scan"]
    BY <1>2 DEF SnapshotEdges
  <2>2. shot' \in ShotSet /\ shot'.at = "scan"
    BY <2>1 DEF BaseInv, ShotSet
  <2>3. cache' = Shot2(shot.nodes, graph)
    BY <1>2 DEF SnapshotEdges, Shot2, Ends
  <2>4. stirred' = [stirred EXCEPT !["fusion"] = @ \/ fusion.at \in {"hops", "done"}]
    BY <1>2 DEF SnapshotEdges
  <2>5. /\ graph' = graph /\ fusion' = fusion /\ topic' = topic /\ onDisk' = onDisk /\ view' = view
    BY <1>2 DEF SnapshotEdges, graphVars
  <2>6. /\ stirred' \in [Readers -> BOOLEAN] /\ stirred'["topic"] = stirred["topic"]
        /\ stirred'["shot"] = stirred["shot"]
        /\ stirred'["fusion"] = (stirred["fusion"] \/ fusion.at \in {"hops", "done"})
    BY <2>4 DEF BaseInv, StirredFits, Readers
  <2>7. shot.nodes \in Partial(Names, Paths)
    BY DEF BaseInv, ShotSet
  <2>8. NetFits(cache')
    BY <2>7, Shot2Fits, <2>3 DEF BaseInv, NetFits
  <2>9. NetFits(view')
    BY <2>5 DEF BaseInv, NetFits
  <2>10. QED
    BY <2>1, <2>2, <2>3, <2>5, <2>6, <2>8, <2>9
<1>3. CASE TenantSnapshot
  <2>1. shot.at = "scan" /\ shot' = [at |-> "none", nodes |-> NoGraph.nodes]
    BY <1>3 DEF TenantSnapshot
  <2>2. shot' \in ShotSet /\ shot'.at = "none"
    BY NothingFits, <2>1 DEF ShotSet
  <2>3. /\ graph' = graph /\ fusion' = fusion /\ topic' = topic /\ onDisk' = onDisk /\ cache' = cache
        /\ stirred' = stirred
    BY <1>3 DEF TenantSnapshot, Quietly, graphVars
  <2>4. /\ stirred' \in [Readers -> BOOLEAN] /\ stirred'["topic"] = stirred["topic"]
        /\ stirred'["fusion"] = stirred["fusion"]
    BY <2>3 DEF BaseInv, StirredFits
  <2>5. NetFits(cache) /\ NetFits(cache')
    BY <2>3 DEF BaseInv, NetFits
  <2>6. PICK all \in BOOLEAN :
          LET hidden == {n \in DOMAIN cache.nodes : cache.nodes[n] \notin (onDisk \cap Visible) \cup {NoPath}}
              shown == Without(cache, hidden)
              alone == {n \in DOMAIN shown.nodes : shown.nodes[n] = NoPath /\ Degree(shown, n) = 0}
          IN view' = IF all THEN cache ELSE Without(shown, alone)
    BY <1>3 DEF TenantSnapshot
  <2>7. PICK hidden : hidden = {n \in DOMAIN cache.nodes : cache.nodes[n] \notin (onDisk \cap Visible) \cup {NoPath}}
    OBVIOUS
  <2>8. PICK shown : shown = Without(cache, hidden)
    OBVIOUS
  <2>9. PICK alone : alone = {n \in DOMAIN shown.nodes : shown.nodes[n] = NoPath /\ Degree(shown, n) = 0}
    OBVIOUS
  <2>10. view' = cache \/ view' = Without(shown, alone)
    BY <2>6, <2>7, <2>8, <2>9
  <2>11. CASE view' = cache
    BY <2>5, <2>11, <2>1, <2>2, <2>3, <2>4 DEF NetFits
  <2>12. CASE view' = Without(shown, alone)
    <3>1. /\ NetFits(shown) /\ DOMAIN shown.nodes = DOMAIN cache.nodes \ hidden
          /\ \A n \in DOMAIN cache.nodes \ hidden : shown.nodes[n] = cache.nodes[n]
      BY <2>5, <2>8, WithoutFits
    <3>2. PICK v : v = Without(shown, alone)
      OBVIOUS
    <3>3. /\ NetFits(v) /\ DOMAIN v.nodes = DOMAIN shown.nodes \ alone
          /\ \A n \in DOMAIN shown.nodes \ alone : v.nodes[n] = shown.nodes[n]
      BY <3>1, <3>2, WithoutFits
    <3>4. \A n \in DOMAIN v.nodes : v.nodes[n] \in Visible \cup {NoPath}
      BY <2>7, <3>1, <3>3
    <3>5. view' = v
      BY <2>12, <3>2
    <3>6. NetFits(view') /\ \A n \in DOMAIN view'.nodes : view'.nodes[n] \in Visible \cup {NoPath}
      BY <3>3, <3>4, <3>5 DEF NetFits
    <3>7. QED
      BY <2>1, <2>2, <2>3, <2>4, <2>5, <3>6
  <2>13. QED
    BY <2>10, <2>11, <2>12
<1>4. QED
  BY <1>1, <1>2, <1>3 DEF Shoots

-----------------------------------------------------------------------------
\* Lists of names.

\* From the end.
LEMMA ReverseFacts ==
  ASSUME NEW S, NEW s \in Seq(S)
  PROVE  /\ Reverse(s) \in Seq(S) /\ Len(Reverse(s)) = Len(s)
         /\ \A i \in 1..Len(s) : (Len(s) - i) + 1 \in 1..Len(s) /\ Reverse(s)[i] = s[(Len(s) - i) + 1]
         /\ IsInjective(s) => IsInjective(Reverse(s))
BY DEF Reverse, IsInjective


LEMMA SearchFacts ==
  ASSUME Whole(graph), NEW term \in Terms, NEW n \in Nat
  PROVE  /\ SearchEntities(term, n) \in Seq(Names) /\ IsInjective(SearchEntities(term, n))
         /\ Len(SearchEntities(term, n)) <= n
         /\ ToSet(SearchEntities(term, n)) \subseteq DOMAIN graph.ents
<1>1. PICK m : m = Matches[term] \cap DOMAIN graph.ents
  OBVIOUS
<1>2. m \in SUBSET Names /\ m \subseteq DOMAIN graph.ents
  BY <1>1, InsightAssumption
<1>3. PICK s : s = ByName(m)
  OBVIOUS
<1>4. s \in Seq(Names) /\ IsInjective(s) /\ ToSet(s) = m
  BY <1>2, <1>3, ByNameFacts
<1>5. PICK t : t = FirstOnes(s, n)
  OBVIOUS
<1>6. t \in Seq(Names) /\ IsInjective(t) /\ Len(t) <= n /\ ToSet(t) \subseteq ToSet(s)
  BY <1>4, <1>5, FirstFacts
<1>7. t = SearchEntities(term, n)
  BY <1>1, <1>3, <1>5 DEF SearchEntities
<1>8. QED
  BY <1>2, <1>4, <1>6, <1>7

\* One list after another of other names.
LEMMA JoinFacts ==
  ASSUME NEW S, NEW a \in Seq(S), NEW b \in Seq(S), IsInjective(a), IsInjective(b), ToSet(a) \cap ToSet(b) = {}
  PROVE  a \o b \in Seq(S) /\ IsInjective(a \o b) /\ ToSet(a \o b) = ToSet(a) \cup ToSet(b)
<1>1. PICK c, k, l : c = a \o b /\ k = Len(a) /\ l = Len(b)
  OBVIOUS
<1>2. /\ c \in Seq(S) /\ Len(c) = k + l /\ k \in Nat /\ l \in Nat
      /\ DOMAIN a = 1..k /\ DOMAIN b = 1..l /\ DOMAIN c = 1..(k + l)
      /\ \A i \in 1..k : c[i] = a[i]
      /\ \A i \in 1..(k + l) : i \notin 1..k => i - k \in 1..l /\ c[i] = b[i - k]
  BY <1>1
<1>3. \A i \in 1..l : i + k \in 1..(k + l) /\ i + k \notin 1..k /\ (i + k) - k = i
  BY <1>2
<1>4. ToSet(c) = ToSet(a) \cup ToSet(b)
  <2>1. \A x \in ToSet(c) : x \in ToSet(a) \cup ToSet(b)
    BY <1>2 DEF ToSet
  <2>2. \A x \in ToSet(a) : x \in ToSet(c)
    BY <1>2 DEF ToSet
  <2>3. \A x \in ToSet(b) : x \in ToSet(c)
    <3> SUFFICES ASSUME NEW i \in 1..l PROVE b[i] \in ToSet(c)
      BY <1>2 DEF ToSet
    <3>1. c[i + k] = b[i] /\ i + k \in DOMAIN c
      <4>1. i + k \in 1..(k + l) /\ i + k \notin 1..k /\ (i + k) - k = i
        BY <1>3
      <4>2. c[i + k] = b[(i + k) - k]
        BY <1>2, <4>1
      <4>3. QED
        BY <1>2, <4>1, <4>2
    <3>2. QED
      BY <3>1 DEF ToSet
  <2>4. QED
    BY <2>1, <2>2, <2>3
<1>5. IsInjective(c)
  <2> SUFFICES ASSUME NEW i \in 1..(k + l), NEW j \in 1..(k + l), c[i] = c[j]
               PROVE  i = j
    BY <1>2 DEF IsInjective
  <2>1. \A x \in 1..k : a[x] \in ToSet(a)
    BY <1>2 DEF ToSet
  <2>2. \A x \in 1..l : b[x] \in ToSet(b)
    BY <1>2 DEF ToSet
  <2>3. CASE i \in 1..k /\ j \in 1..k
    BY <1>2, <2>3 DEF IsInjective
  <2>4. CASE i \in 1..k /\ j \notin 1..k
    BY <1>2, <2>1, <2>2, <2>4
  <2>5. CASE i \notin 1..k /\ j \in 1..k
    BY <1>2, <2>1, <2>2, <2>5
  <2>6. CASE i \notin 1..k /\ j \notin 1..k
    <3>0. i - k \in 1..l /\ j - k \in 1..l /\ b[i - k] = b[j - k]
      BY <1>2, <2>6
    <3>1. i - k = j - k
      <4>1. \A x, y \in 1..l : b[x] = b[y] => x = y
        BY <1>2 DEF IsInjective
      <4>2. QED
        BY <3>0, <4>1
    <3>2. QED
      BY <1>2, <3>1
  <2>7. QED
    BY <2>3, <2>4, <2>5, <2>6
<1>6. QED
  BY <1>1, <1>2, <1>4, <1>5

\* A list of distinct names of a set, no longer than the searches give.
Listing(s, from) == s \in Seq(Names) /\ IsInjective(s) /\ Len(s) <= 2 * Limit /\ ToSet(s) \subseteq from

LEMMA NoListing == ASSUME NEW from PROVE Listing(<<>>, from)
BY InsightAssumption DEF ToSet, IsInjective, Listing

LEMMA CutListing ==
  ASSUME NEW s \in Seq(Names), IsInjective(s), NEW from, ToSet(s) \subseteq from
  PROVE  Listing(FirstOnes(s, 2 * Limit), from)
BY InsightAssumption, FirstFacts DEF Listing

-----------------------------------------------------------------------------
\* Writes meanwhile.

Meanwhile == \/ \E w \in Writings : WriteNote(w)
             \/ \E p \in Paths : DeleteNote(p) \/ ForgetNote(p)
LEMMA MeanwhileMakes ==
  ASSUME BaseInv, Meanwhile
  PROVE  /\ Whole(graph') /\ topic' = topic /\ shot' = shot /\ cache' = cache /\ view' = view /\ fusion' = fusion
         /\ stirred' = [r \in Readers |-> TRUE]
<1>1. CASE \E w \in Writings : WriteNote(w)
  BY <1>1, InsightAssumption, WholeRebuilt DEF BaseInv, WriteNote, Commits, Whole
<1>2. CASE \E p \in Paths : DeleteNote(p)
  BY <1>2 DEF DeleteNote, graphVars, BaseInv, Whole
<1>3. CASE \E p \in Paths : ForgetNote(p)
  BY <1>3, WholeDelete DEF BaseInv, ForgetNote, Commits, Whole
<1>4. QED
  BY <1>1, <1>2, <1>3 DEF Meanwhile

-----------------------------------------------------------------------------
\* Fused searches and merges.

\* What a search holds was there, as long as nothing changed (st says whether it did).
SearchFits(f, nodes, ents, st) ==
  /\ f.at = "hops" => /\ Listing(f.cached, Names) /\ IsInjective(f.seeds)
                      /\ ~st => ToSet(f.cached) \subseteq nodes /\ ToSet(f.seeds) \subseteq ents
  /\ f.at = "done" => /\ Len(f.lists) = 3 /\ \A k \in 1..3 : Listing(f.lists[k], Names)
                      /\ ~st => /\ ToSet(f.lists[1]) \subseteq nodes /\ ToSet(f.lists[2]) \subseteq ents
                                /\ ToSet(f.lists[3]) \subseteq nodes

\* What a merge holds is so, and what it has done.
MergeHolds(f, g, st) ==
  /\ f.at \in {"check", "merge", "move", "drop"} /\ ~st =>
       \A r \in f.from \cup f.to : r.of \in DOMAIN g.ents /\ g.ents[r.of].src = r.src
  /\ f.at = "merged" /\ ~st =>
       \A d \in f.from, k \in f.to :
         /\ d.of \in DOMAIN g.ents => \E p \in Paths : <<d.of, p>> \in g.prov
         /\ k.of \notin DOMAIN g.ents => k.src = d.src

FusionFits(f, g, c, st) ==
  /\ f \in FusionSet /\ MergeFits(f)
  /\ SearchFits(f, DOMAIN c.nodes, DOMAIN g.ents, st) /\ MergeHolds(f, g, st)
FusionInv == FusionFits(fusion, graph, cache, stirred["fusion"])

\* What a step of a fused search or a merge leaves: the graph, or else everyone is stirred.
FusionMade ==
  /\ Whole(graph') /\ FusionFits(fusion', graph', cache', stirred'["fusion"])
  /\ topic' = topic /\ shot' = shot /\ cache' = cache /\ view' = view
  /\ stirred' \in [Readers -> BOOLEAN]
  /\ \/ graph' = graph /\ stirred'["shot"] = stirred["shot"] /\ stirred'["topic"] = stirred["topic"]
     \/ stirred'["shot"] /\ stirred'["topic"]

LEMMA IdleFits ==
  /\ NoFusion \in FusionSet
  /\ \A f \in FusionSet : f.at \in {"none", "raised"} => \A g, c, st : FusionFits(f, g, c, st)
<1>1. NoFusion \in FusionSet
  BY DEF NoFusion, FusionSet
<1>2. ASSUME NEW f \in FusionSet, NEW g, NEW c, NEW st, f.at \in {"none", "raised"}
      PROVE  FusionFits(f, g, c, st)
  BY <1>2 DEF FusionFits, MergeFits, SearchFits, MergeHolds, Merging
<1>3. QED
  BY <1>1, <1>2

LEMMA StirredFresh ==
  ASSUME StirredFits, stirred' = [stirred EXCEPT !["fusion"] = FALSE]
  PROVE  /\ stirred' \in [Readers -> BOOLEAN] /\ ~stirred'["fusion"]
         /\ stirred'["shot"] = stirred["shot"] /\ stirred'["topic"] = stirred["topic"]
BY DEF StirredFits, Readers

LEMMA StirredElse ==
  ASSUME StirredFits, stirred' = [r \in Readers |-> stirred[r] \/ r # "fusion"]
  PROVE  /\ stirred' \in [Readers -> BOOLEAN] /\ stirred'["fusion"] = stirred["fusion"]
         /\ stirred'["shot"] /\ stirred'["topic"]
BY DEF StirredFits, Readers

\* The steps that change only what is held.
LEMMA Fuses1Makes ==
  ASSUME BaseInv, NEW f, Fuses1(f), FusionFits(f, graph, cache, stirred["fusion"])
  PROVE  FusionMade
BY DEF Fuses1, Quietly, graphVars, BaseInv, StirredFits, FusionMade

LEMMA FuseMakes ==
  ASSUME BaseInv, NEW term \in Terms, Fuse(term)
  PROVE  FusionMade
<1>1. PICK a : a = FirstOnes(ByName(Named(cache) \cap Matches[term]), 2 * Limit)
  OBVIOUS
<1>2. PICK s : s = SearchEntities(term, 3)
  OBVIOUS
<1>3. Listing(a, Names) /\ ToSet(a) \subseteq DOMAIN cache.nodes
  <2>1. PICK m : m = Named(cache) \cap Matches[term]
    OBVIOUS
  <2>2. m \in SUBSET Names /\ m \subseteq DOMAIN cache.nodes
    BY <2>1, InsightAssumption DEF Named
  <2>3. PICK b : b = ByName(m)
    OBVIOUS
  <2>4. b \in Seq(Names) /\ IsInjective(b) /\ ToSet(b) = m
    BY <2>2, <2>3, ByNameFacts
  <2>5. Listing(FirstOnes(b, 2 * Limit), m)
    BY <2>4, CutListing
  <2>6. a = FirstOnes(b, 2 * Limit)
    BY <1>1, <2>1, <2>3
  <2>7. Listing(a, m)
    BY <2>5, <2>6
  <2>8. QED
    BY <2>2, <2>7 DEF Listing
<1>4. s \in Seq(Names) /\ IsInjective(s) /\ ToSet(s) \subseteq DOMAIN graph.ents
  BY <1>2, SearchFacts DEF BaseInv
<1>5. PICK f : f = [NoFusion EXCEPT !.at = "hops", !.term = {term}, !.cached = a, !.seeds = s]
  OBVIOUS
<1>6. fusion' = f
  BY <1>1, <1>2, <1>5 DEF Fuse
<1>7. f \in FusionSet /\ f.at = "hops" /\ f.cached = a /\ f.seeds = s
  BY <1>3, <1>4, <1>5, IdleFits DEF FusionSet, Listing
<1>8. \A st : FusionFits(f, graph, cache, st)
  BY <1>3, <1>4, <1>7 DEF FusionFits, MergeFits, SearchFits, MergeHolds, Merging
<1>9. /\ graph' = graph /\ topic' = topic /\ shot' = shot /\ cache' = cache /\ view' = view
      /\ stirred' = [stirred EXCEPT !["fusion"] = FALSE]
  BY DEF Fuse, Fresh, graphVars
<1>10. /\ stirred' \in [Readers -> BOOLEAN] /\ stirred'["shot"] = stirred["shot"]
       /\ stirred'["topic"] = stirred["topic"]
  BY <1>9, StirredFresh DEF BaseInv
<1>11. Whole(graph') /\ FusionFits(fusion', graph', cache', stirred'["fusion"])
  BY <1>6, <1>8, <1>9 DEF BaseInv
<1>12. QED
  BY <1>9, <1>10, <1>11 DEF FusionMade

\* The neighbours of what is there are there.
LEMMA NeighborsThere ==
  ASSUME Whole(graph), NEW n
  PROVE  Neighbors1(n) \subseteq DOMAIN graph.ents /\ DOMAIN graph.ents \subseteq Names
BY RowsFacts DEF Whole, Neighbors1, Outgoing, Incoming

LEMMA GraphAndVectorMakes ==
  ASSUME BaseInv, FusionInv, GraphAndVector
  PROVE  FusionMade
<1> DEFINE near0 == FirstOnes(Reverse(ByName(Named(cache))), 2 * Limit)
           all0 == UNION {Neighbors1(n) : n \in ToSet(fusion.seeds)}
           hops0 == all0 \ ToSet(fusion.seeds)
<1>1. PICK hops : hops = hops0
  OBVIOUS
<1>0. hops \cap ToSet(fusion.seeds) = {}
  BY <1>1
<1>2. PICK near : near = near0
  OBVIOUS
<1>3. PICK f, n : /\ f = <<>> \/ \E r \in SetToSeqs(hops) : f = FirstOnes(fusion.seeds \o r, 2 * Limit)
                  /\ n = <<>> \/ n = near
                  /\ Fuses1([fusion EXCEPT !.at = "done", !.lists = <<fusion.cached, f, n>>])
  BY <1>1, <1>2 DEF GraphAndVector
<1>4. /\ fusion \in FusionSet /\ fusion.at = "hops" /\ Whole(graph) /\ NetFits(cache)
      /\ Listing(fusion.cached, Names) /\ IsInjective(fusion.seeds) /\ fusion.seeds \in Seq(Names)
      /\ ~stirred["fusion"] => ToSet(fusion.cached) \subseteq DOMAIN cache.nodes
                               /\ ToSet(fusion.seeds) \subseteq DOMAIN graph.ents
  BY DEF GraphAndVector, BaseInv, FusionInv, FusionFits, SearchFits, FusionSet
<1>5. hops \subseteq DOMAIN graph.ents /\ hops \subseteq Names /\ hops \cap ToSet(fusion.seeds) = {}
  BY <1>4, NeighborsThere, <1>1, <1>0
<1>6. Listing(f, DOMAIN graph.ents \cup ToSet(fusion.seeds))
  <2>1. CASE f = <<>>
    BY <2>1, NoListing
  <2>2. CASE \E r \in SetToSeqs(hops) : f = FirstOnes(fusion.seeds \o r, 2 * Limit)
    <3>1. PICK r \in SetToSeqs(hops) : f = FirstOnes(fusion.seeds \o r, 2 * Limit)
      BY <2>2
    <3>2. IsFiniteSet(hops)
      BY <1>5, InsightAssumption, FS_Subset
    <3>3. r \in Seq(hops) /\ IsInjective(r) /\ ToSet(r) = hops
      BY <3>2, SeqsFacts
    <3>4. r \in Seq(Names)
      BY <1>5, <3>3
    <3>5. ToSet(fusion.seeds) \cap ToSet(r) = {}
      BY <1>5, <3>3
    <3>6. PICK j : j = fusion.seeds \o r
      OBVIOUS
    <3>7. j \in Seq(Names) /\ IsInjective(j) /\ ToSet(j) = ToSet(fusion.seeds) \cup ToSet(r)
      BY <1>4, <3>3, <3>4, <3>5, <3>6, JoinFacts
    <3>8. ToSet(j) \subseteq DOMAIN graph.ents \cup ToSet(fusion.seeds)
      BY <1>5, <3>3, <3>7
    <3>9. QED
      BY <3>1, <3>6, <3>7, <3>8, CutListing
  <2>3. QED
    BY <1>3, <2>1, <2>2
<1>7. Listing(n, DOMAIN cache.nodes)
  <2>1. CASE n = <<>>
    BY <2>1, NoListing
  <2>2. CASE n = near
    <3>1. DOMAIN cache.nodes \subseteq Names
      BY <1>4, PartialFacts DEF NetFits, Nets
    <3>2. Named(cache) \in SUBSET Names /\ Named(cache) \subseteq DOMAIN cache.nodes
      BY <3>1 DEF Named
    <3>3. PICK b : b = ByName(Named(cache))
      OBVIOUS
    <3>4. b \in Seq(Names) /\ IsInjective(b) /\ ToSet(b) = Named(cache)
      BY <3>2, <3>3, ByNameFacts
    <3>5. PICK r : r = Reverse(b)
      OBVIOUS
    <3>6. /\ r \in Seq(Names) /\ Len(r) = Len(b) /\ IsInjective(r)
          /\ \A i \in 1..Len(b) : (Len(b) - i) + 1 \in 1..Len(b) /\ r[i] = b[(Len(b) - i) + 1]
      BY <3>4, <3>5, ReverseFacts
    <3>7. ToSet(r) \subseteq ToSet(b)
      <4>1. DOMAIN r = 1..Len(b) /\ DOMAIN b = 1..Len(b)
        BY <3>4, <3>6
      <4>2. QED
        BY <3>6, <4>1 DEF ToSet
    <3>8. ToSet(r) \subseteq DOMAIN cache.nodes
      BY <3>2, <3>4, <3>7
    <3>9. near = FirstOnes(r, 2 * Limit)
      BY <1>2, <3>3, <3>5
    <3>10. QED
      BY <2>2, <3>6, <3>8, <3>9, CutListing
  <2>3. QED
    BY <1>3, <2>1, <2>2
<1>8. f \in Seq(Names) /\ n \in Seq(Names) /\ fusion.cached \in Seq(Names)
  BY <1>4, <1>6, <1>7 DEF Listing
<1>9. PICK l : l = <<fusion.cached, f, n>>
  OBVIOUS
<1>10. l \in Seq(Seq(Names)) /\ Len(l) = 3 /\ l[1] = fusion.cached /\ l[2] = f /\ l[3] = n
  BY <1>8, <1>9
<1>11. PICK h : h = [fusion EXCEPT !.at = "done", !.lists = l]
  OBVIOUS
<1>12. h \in FusionSet /\ h.at = "done" /\ h.lists = l
  BY <1>4, <1>10, <1>11 DEF FusionSet
<1>13. FusionFits(h, graph, cache, stirred["fusion"])
  <2>1. \A k \in 1..3 : Listing(l[k], Names)
    BY <1>4, <1>6, <1>7, <1>8, <1>10 DEF ToSet, Listing
  <2>2. ~stirred["fusion"] => /\ ToSet(l[1]) \subseteq DOMAIN cache.nodes /\ ToSet(l[2]) \subseteq DOMAIN graph.ents
                              /\ ToSet(l[3]) \subseteq DOMAIN cache.nodes
    BY <1>4, <1>6, <1>7, <1>10 DEF Listing
  <2>3. QED
    BY <1>10, <1>12, <2>1, <2>2 DEF FusionFits, MergeFits, SearchFits, MergeHolds, Merging
<1>14. Fuses1(h)
  BY <1>3, <1>9, <1>11
<1>15. QED
  BY <1>13, <1>14, Fuses1Makes

LEMMA FindMakes ==
  ASSUME BaseInv, NEW n \in Names, NEW term \in Terms, FindDuplicates(n, term)
  PROVE  FusionMade
<1>1. PICK s : s = SearchEntities(term, 5)
  OBVIOUS
<1>2. s \in Seq(Names) /\ ToSet(s) \subseteq DOMAIN graph.ents /\ ToSet(s) \subseteq Names
  BY <1>1, SearchFacts DEF BaseInv, ToSet
<1>3. PICK from, to : from = {Held(m) : m \in ToSet(s) \ {n}} /\ to = {Held(n)}
  OBVIOUS
<1>4. PICK f : f = [NoFusion EXCEPT !.at = "check", !.to = to, !.from = from]
  OBVIOUS
<1>5. fusion' = f /\ n \in DOMAIN graph.ents
  BY <1>1, <1>3, <1>4 DEF FindDuplicates
<1>6. \A m \in DOMAIN graph.ents : m \in Names /\ graph.ents[m].src \in Paths
  BY RowsFacts DEF BaseInv, Whole, Ents
<1>7. \A m \in DOMAIN graph.ents : Held(m) \in HeldSet /\ Held(m).of = m /\ Held(m).src = graph.ents[m].src
  BY <1>6 DEF Held, HeldSet, Source
<1>8. /\ from \in SUBSET HeldSet /\ to \in SUBSET HeldSet /\ \E k : to = {k} /\ \A r \in from : r.of # k.of
      /\ \A r \in from \cup to : r.of \in DOMAIN graph.ents /\ graph.ents[r.of].src = r.src
  BY <1>2, <1>3, <1>5, <1>7
<1>9. f \in FusionSet /\ f.at = "check" /\ f.from = from /\ f.to = to
  BY <1>4, <1>8, IdleFits DEF FusionSet, Merging
<1>10. \A st : FusionFits(f, graph, cache, st)
  BY <1>8, <1>9 DEF FusionFits, MergeFits, SearchFits, MergeHolds, Merging
<1>11. /\ graph' = graph /\ topic' = topic /\ shot' = shot /\ cache' = cache /\ view' = view
       /\ stirred' = [stirred EXCEPT !["fusion"] = FALSE]
  BY DEF FindDuplicates, Fresh, graphVars
<1>12. /\ stirred' \in [Readers -> BOOLEAN] /\ stirred'["shot"] = stirred["shot"]
       /\ stirred'["topic"] = stirred["topic"]
  BY <1>11, StirredFresh DEF BaseInv
<1>13. Whole(graph') /\ FusionFits(fusion', graph', cache', stirred'["fusion"])
  BY <1>5, <1>10, <1>11 DEF BaseInv
<1>14. QED
  BY <1>11, <1>12, <1>13 DEF FusionMade

LEMMA CheckMakes ==
  ASSUME BaseInv, FusionInv, CheckDuplicates
  PROVE  FusionMade
<1>1. PICK same \in {{}} \cup {{r} : r \in fusion.from} :
        Fuses1(IF same = {} THEN NoFusion ELSE [fusion EXCEPT !.at = "merge", !.from = same])
  BY DEF CheckDuplicates
<1>2. CASE same = {}
  BY <1>1, <1>2, IdleFits, Fuses1Makes DEF NoFusion
<1>3. CASE same # {}
  <2>1. PICK h : h = [fusion EXCEPT !.at = "merge", !.from = same]
    OBVIOUS
  <2>2. Fuses1(h) /\ \E r \in fusion.from : same = {r}
    BY <1>1, <1>3, <2>1
  <2>3. fusion \in FusionSet /\ fusion.at = "check"
    BY DEF CheckDuplicates, FusionInv, FusionFits
  <2>4. /\ \E k : fusion.to = {k} /\ \A r \in fusion.from : r.of # k.of
        /\ ~stirred["fusion"] => \A r \in fusion.from \cup fusion.to : r.of \in DOMAIN graph.ents /\ graph.ents[r.of].src = r.src
    BY <2>3 DEF FusionInv, FusionFits, MergeFits, MergeHolds, Merging
  <2>5. h \in FusionSet /\ h.at = "merge" /\ h.from = same /\ h.to = fusion.to /\ same \subseteq fusion.from
    BY <2>1, <2>2, <2>3 DEF FusionSet, Merging
  <2>6. FusionFits(h, graph, cache, stirred["fusion"])
    BY <2>2, <2>4, <2>5 DEF FusionFits, MergeFits, SearchFits, MergeHolds, Merging
  <2>7. QED
    BY <2>2, <2>6, Fuses1Makes
<1>4. QED
  BY <1>2, <1>3

LEMMA BeginMakes ==
  ASSUME BaseInv, FusionInv, MergeDuplicate
  PROVE  FusionMade
<1>1. PICK d : d = (CHOOSE r \in fusion.from : TRUE).of
  OBVIOUS
<1>2. PICK es : es = Outgoing(d) \cup Incoming(d)
  OBVIOUS
<1>3. PICK h : h = [fusion EXCEPT !.at = "move", !.edges = es]
  OBVIOUS
<1>4. Fuses1(h) /\ fusion \in FusionSet /\ fusion.at = "merge"
  BY <1>1, <1>2, <1>3 DEF MergeDuplicate, FusionInv, FusionFits
<1>5. es \subseteq Edges
  BY <1>2 DEF Outgoing, Incoming, BaseInv, Whole, Rows
<1>6. h \in FusionSet /\ h.at = "move" /\ h.from = fusion.from /\ h.to = fusion.to
  BY <1>3, <1>4, <1>5 DEF FusionSet, Merging
<1>7. FusionFits(h, graph, cache, stirred["fusion"])
  BY <1>4, <1>6 DEF FusionInv, FusionFits, MergeFits, SearchFits, MergeHolds, Merging
<1>8. QED
  BY <1>4, <1>7, Fuses1Makes

\* The two entities of a merge.
LEMMA TheTwo ==
  ASSUME fusion \in FusionSet, MergeFits(fusion), fusion.at \in {"merge", "move", "drop", "merged"}
  PROVE  /\ fusion.to = {Kept1} /\ fusion.from = {Dropped1} /\ Dropped1.of # Kept1.of
         /\ Kept1 \in HeldSet /\ Dropped1 \in HeldSet
         /\ Kept1.of \in Names /\ Kept1.src \in Paths /\ Dropped1.of \in Names /\ Dropped1.src \in Paths
BY TheOne DEF MergeFits, Merging, Kept1, Dropped1, FusionSet, HeldSet

LEMMA MoveMakes ==
  ASSUME BaseInv, FusionInv, MoveEdge
  PROVE  FusionMade
<1>1. fusion \in FusionSet /\ fusion.at = "move" /\ MergeFits(fusion)
  BY DEF MoveEdge, FusionInv, FusionFits
<1>2. PICK e \in fusion.edges :
         \/ Fuses1([fusion EXCEPT !.edges = @ \ {e}])
         \/ Fuses1([NoFusion EXCEPT !.at = "raised"])
         \/ /\ {Moved1(e).from, Moved1(e).to} \subseteq DOMAIN graph.ents
            /\ fusion' = [fusion EXCEPT !.edges = @ \ {e}]
            /\ Writes(UpsertEdges(graph, {Moved1(e)}))
            /\ stirred' = [r \in Readers |-> stirred[r] \/ r # "fusion"]
            /\ UNCHANGED <<onDisk, topic, shot, cache, view, budget>>
  BY DEF MoveEdge
<1>3. PICK h : h = [fusion EXCEPT !.edges = @ \ {e}]
  OBVIOUS
<1>4. h \in FusionSet /\ h.at = "move" /\ h.from = fusion.from /\ h.to = fusion.to
  BY <1>1, <1>3 DEF FusionSet
<1>5. ASSUME NEW g, g.ents = graph.ents
      PROVE  FusionFits(h, g, cache, stirred["fusion"])
  BY <1>1, <1>4, <1>5 DEF FusionInv, FusionFits, MergeFits, SearchFits, MergeHolds, Merging
<1>6. CASE Fuses1([fusion EXCEPT !.edges = @ \ {e}])
  BY <1>3, <1>5, <1>6, Fuses1Makes
<1>7. CASE Fuses1([NoFusion EXCEPT !.at = "raised"])
  BY IdleFits, <1>7, Fuses1Makes DEF FusionSet
<1>8. CASE /\ {Moved1(e).from, Moved1(e).to} \subseteq DOMAIN graph.ents
           /\ fusion' = [fusion EXCEPT !.edges = @ \ {e}]
           /\ Writes(UpsertEdges(graph, {Moved1(e)}))
           /\ stirred' = [r \in Readers |-> stirred[r] \/ r # "fusion"]
           /\ UNCHANGED <<onDisk, topic, shot, cache, view, budget>>
  <2>1. PICK m : m = Moved1(e)
    OBVIOUS
  <2>2. e \in Edges
    BY <1>1 DEF FusionSet
  <2>3. m \in Edges
    BY <1>1, TheTwo, <2>1, <2>2 DEF Moved1, Edges
  <2>4. PICK g : g = UpsertEdges(graph, {m})
    OBVIOUS
  <2>5. Whole(g) /\ g.ents = graph.ents
    BY <1>8, <2>1, <2>3, <2>4, WholeUpsertEdges DEF BaseInv
  <2>6. /\ graph' = g /\ fusion' = h /\ topic' = topic /\ shot' = shot /\ cache' = cache /\ view' = view
    BY <1>3, <1>8, <2>1, <2>4 DEF Writes
  <2>7. /\ stirred' \in [Readers -> BOOLEAN] /\ stirred'["fusion"] = stirred["fusion"]
        /\ stirred'["shot"] /\ stirred'["topic"]
    BY <1>8, StirredElse DEF BaseInv
  <2>8. FusionFits(fusion', graph', cache', stirred'["fusion"]) /\ Whole(graph')
    BY <1>5, <2>5, <2>6, <2>7
  <2>9. QED
    BY <2>6, <2>7, <2>8 DEF FusionMade
<1>9. QED
  BY <1>2, <1>6, <1>7, <1>8

LEMMA AliasMakes ==
  ASSUME BaseInv, FusionInv, WriteAlias
  PROVE  FusionMade
<1>1. fusion \in FusionSet /\ fusion.at = "move" /\ MergeFits(fusion)
  BY DEF WriteAlias, FusionInv, FusionFits
<1>2. PICK h : h = [fusion EXCEPT !.at = "drop"]
  OBVIOUS
<1>3. h \in FusionSet /\ h.at = "drop" /\ h.from = fusion.from /\ h.to = fusion.to
  BY <1>1, <1>2 DEF FusionSet, Merging
<1>4. PICK k : k = Kept1
  OBVIOUS
<1>5. /\ fusion.to = {k} /\ fusion.from = {Dropped1} /\ Dropped1.of # k.of
      /\ k.of \in Names /\ k.src \in Paths
  BY <1>1, <1>4, TheTwo
<1>6. PICK g : g = UpsertEntities(graph, k.src, {k.of})
  OBVIOUS
<1>7. Whole(g) /\ Upserted(graph, g, k.src, {k.of})
  BY <1>5, <1>6, WholeUpsertEntities DEF BaseInv
<1>8. FusionFits(h, g, cache, stirred["fusion"])
  <2>1. ASSUME ~stirred["fusion"], NEW r \in h.from \cup h.to
        PROVE  r.of \in DOMAIN g.ents /\ g.ents[r.of].src = r.src
    BY <1>1, <1>3, <2>1, <1>7, <1>5 DEF FusionInv, FusionFits, MergeHolds, Upserted
  <2>2. MergeFits(h)
    BY <1>1, <1>3 DEF MergeFits, Merging
  <2>3. QED
    BY <1>3, <2>1, <2>2 DEF FusionFits, SearchFits, MergeHolds
<1>9. /\ graph' = g /\ fusion' = h /\ topic' = topic /\ shot' = shot /\ cache' = cache /\ view' = view
      /\ stirred' = [r \in Readers |-> stirred[r] \/ r # "fusion"]
  BY <1>2, <1>4, <1>6 DEF WriteAlias, Writes
<1>10. /\ stirred' \in [Readers -> BOOLEAN] /\ stirred'["fusion"] = stirred["fusion"]
       /\ stirred'["shot"] /\ stirred'["topic"]
  BY <1>9, StirredElse DEF BaseInv
<1>11. FusionFits(fusion', graph', cache', stirred'["fusion"]) /\ Whole(graph')
  BY <1>7, <1>8, <1>9, <1>10
<1>12. QED
  BY <1>9, <1>10, <1>11 DEF FusionMade

\* The duplicate stays if another note states it, and what stays with it goes only for the
\* same source.
LEMMA DropMakes ==
  ASSUME BaseInv, FusionInv, DropDuplicate
  PROVE  FusionMade
<1>1. fusion \in FusionSet /\ fusion.at = "drop" /\ MergeFits(fusion)
  BY DEF DropDuplicate, FusionInv, FusionFits
<1>2. PICK h : h = [fusion EXCEPT !.at = "merged"]
  OBVIOUS
<1>3. h \in FusionSet /\ h.at = "merged" /\ h.from = fusion.from /\ h.to = fusion.to
  BY <1>1, <1>2 DEF FusionSet, Merging
<1>4. PICK k, d : k = Kept1 /\ d = Dropped1
  OBVIOUS
<1>5. /\ fusion.to = {k} /\ fusion.from = {d} /\ d.of # k.of
      /\ k.of \in Names /\ k.src \in Paths /\ d.of \in Names /\ d.src \in Paths
  BY <1>1, <1>4, TheTwo
<1> DEFINE g == DeleteSource(graph, d.src)
           out == Unowned(graph, g.prov, d.src)
<1>6. Whole(g)
  BY <1>5, WholeDelete DEF BaseInv
<1>7. graph \in Rows
  BY DEF BaseInv, Whole
<1>8. /\ DOMAIN g.ents = DOMAIN graph.ents \ out /\ \A n \in DOMAIN g.ents : g.ents[n] = graph.ents[n]
  BY <1>5, <1>7, DeleteSourceFacts
<1>9. \A n : n \in out <=> n \in DOMAIN graph.ents /\ graph.ents[n].src = d.src /\ ~\E q \in Paths : <<n, q>> \in g.prov
  BY DEF Unowned
<1> HIDE DEF g, out
<1>10. ASSUME ~stirred["fusion"]
       PROVE  /\ d.of \in DOMAIN g.ents => \E p \in Paths : <<d.of, p>> \in g.prov
              /\ k.of \notin DOMAIN g.ents => k.src = d.src
  BY <1>1, <1>5, <1>10, <1>8, <1>9 DEF FusionInv, FusionFits, MergeHolds
<1>11. FusionFits(h, g, cache, stirred["fusion"])
  BY <1>1, <1>3, <1>5, <1>10 DEF MergeFits, Merging, FusionFits, SearchFits, MergeHolds
<1>12. /\ graph' = g /\ fusion' = h /\ topic' = topic /\ shot' = shot /\ cache' = cache /\ view' = view
       /\ stirred' = [r \in Readers |-> stirred[r] \/ r # "fusion"]
  BY <1>2, <1>4 DEF DropDuplicate, Commits, g
<1>13. /\ stirred' \in [Readers -> BOOLEAN] /\ stirred'["fusion"] = stirred["fusion"]
       /\ stirred'["shot"] /\ stirred'["topic"]
  BY <1>12, StirredElse DEF BaseInv
<1>14. FusionFits(fusion', graph', cache', stirred'["fusion"]) /\ Whole(graph')
  BY <1>6, <1>11, <1>12, <1>13
<1>15. QED
  BY <1>12, <1>13, <1>14 DEF FusionMade

LEMMA EndMakes ==
  ASSUME BaseInv, MergeEnds
  PROVE  FusionMade
BY IdleFits, Fuses1Makes DEF MergeEnds, NoFusion

-----------------------------------------------------------------------------
\* What is under way, and what was made of it.

SnapInv ==
  /\ shot.at = "edges" /\ ~stirred["shot"] => shot.nodes = Shot(graph)
  /\ shot.at = "scan" /\ ~stirred["shot"] =>
       /\ cache.edges = graph.edges /\ DOMAIN cache.nodes = DOMAIN graph.ents
       /\ \A n \in DOMAIN cache.nodes : cache.nodes[n] \in Paths
  /\ shot.at # "scan" => view = cache \/ \A n \in DOMAIN view.nodes : view.nodes[n] \in Visible \cup {NoPath}
KeptInv == BaseInv /\ FusionInv /\ SnapInv

LEMMA KeptBegins == InsightInit => KeptInv
<1> SUFFICES ASSUME InsightInit PROVE KeptInv
  OBVIOUS
<1>1. PICK v \in Vaults : graph = Built(v.notes)
  BY DEF InsightInit
<1>2. Whole(graph)
  BY <1>1, InsightAssumption, WholeBuilt
<1>3. /\ shot = [at |-> "none", nodes |-> NoGraph.nodes] /\ cache = NoGraph /\ view = NoGraph
      /\ fusion = NoFusion /\ stirred = [r \in Readers |-> FALSE]
  BY DEF InsightInit
<1>4. shot \in ShotSet /\ shot.at = "none"
  BY NothingFits, <1>3 DEF ShotSet
<1>5. NetFits(cache) /\ NetFits(view)
  BY <1>3, NothingFits
<1>6. stirred \in [Readers -> BOOLEAN]
  BY <1>3
<1>7. NoFusion.at = "none" /\ NoFusion \in FusionSet
  BY IdleFits DEF NoFusion
<1>8. FusionInv
  BY <1>3, <1>7, IdleFits DEF FusionInv
<1>9. BaseInv
  BY <1>2, <1>4, <1>5, <1>6, <1>8 DEF BaseInv, StirredFits, FusionInv, FusionFits
<1>10. SnapInv
  BY <1>3, <1>4 DEF SnapInv
<1>11. QED
  BY <1>8, <1>9, <1>10 DEF KeptInv

Fusing == \/ \E term \in Terms : Fuse(term)
          \/ GraphAndVector
          \/ \E n \in Names, term \in Terms : FindDuplicates(n, term)
          \/ CheckDuplicates \/ MergeDuplicate \/ MoveEdge \/ WriteAlias \/ DropDuplicate \/ MergeEnds
LEMMA FusingMakes ==
  ASSUME BaseInv, FusionInv, Fusing
  PROVE  FusionMade
BY FuseMakes, GraphAndVectorMakes, FindMakes, CheckMakes, BeginMakes, MoveMakes, AliasMakes, DropMakes, EndMakes
   DEF Fusing

LEMMA NextParts == InsightNext => Reads \/ Shoots \/ Fusing \/ Meanwhile
BY DEF InsightNext, Reads, Shoots, Fusing, Meanwhile

LEMMA KeptStays == KeptInv /\ [InsightNext]_insightVars => KeptInv'
<1> SUFFICES ASSUME KeptInv, [InsightNext]_insightVars PROVE KeptInv'
  OBVIOUS
<1>0. BaseInv /\ FusionInv /\ SnapInv
  BY DEF KeptInv
<1>1. CASE UNCHANGED insightVars
  <2>1. /\ graph' = graph /\ shot' = shot /\ cache' = cache /\ view' = view /\ fusion' = fusion /\ stirred' = stirred
    BY <1>1 DEF insightVars, graphVars
  <2>2. QED
    BY <1>0, <2>1 DEF KeptInv, BaseInv, StirredFits, FusionInv, SnapInv, Shot
<1>2. CASE Reads
  BY <1>0, <1>2, ReadsLeave DEF BaseInv, StirredFits, FusionInv, SnapInv, Shot, KeptInv
<1>3. CASE Shoots
  <2>0. /\ graph' = graph /\ fusion' = fusion /\ shot' \in ShotSet /\ NetFits(cache') /\ NetFits(view')
        /\ stirred' \in [Readers -> BOOLEAN]
    BY <1>0, <1>3, ShootsMakes
  <2>1. BaseInv'
    BY <1>0, <2>0 DEF BaseInv, StirredFits
  <2>2. FusionFits(fusion, graph, cache, stirred["fusion"])
    BY <1>0 DEF FusionInv
  <2>3. CASE /\ shot'.at = "edges" /\ shot.at = "none" /\ shot'.nodes = Shot(graph)
             /\ cache' = cache /\ view' = view /\ stirred'["fusion"] = stirred["fusion"]
    BY <2>0, <2>2, <2>3, <1>0, <2>1 DEF FusionInv, SnapInv, Shot, KeptInv
  <2>4. CASE /\ shot'.at = "scan" /\ shot.at = "edges" /\ cache' = Shot2(shot.nodes, graph) /\ view' = view
             /\ stirred'["shot"] = stirred["shot"]
             /\ stirred'["fusion"] = (stirred["fusion"] \/ fusion.at \in {"hops", "done"})
    <3>1. FusionInv'
      BY <2>4, <2>2, <2>0 DEF FusionFits, SearchFits, MergeHolds, FusionInv
    <3>2. SnapInv'
      <4>1. ASSUME ~stirred'["shot"]
            PROVE  /\ cache'.edges = graph'.edges /\ DOMAIN cache'.nodes = DOMAIN graph'.ents
                   /\ \A n \in DOMAIN cache'.nodes : cache'.nodes[n] \in Paths
        <5>1. shot.nodes = Shot(graph)
          BY <1>0, <2>4, <4>1 DEF SnapInv
        <5>2. PICK s : s = Shot(graph)
          OBVIOUS
        <5>3. s \in Partial(Names, Paths) /\ DOMAIN s = DOMAIN graph.ents
          BY <1>0, <5>2, ShotFits DEF BaseInv
        <5>4. PICK c : c = Shot2(s, graph)
          OBVIOUS
        <5>5. /\ c.edges = graph.edges /\ DOMAIN c.nodes = DOMAIN s \cup Ends(graph)
              /\ \A n \in DOMAIN s : c.nodes[n] = s[n]
          BY <1>0, <5>3, <5>4, Shot2Fits DEF BaseInv
        <5>6. Ends(graph) \subseteq DOMAIN graph.ents
          BY <1>0 DEF Ends, BaseInv, Whole
        <5>7. \A n \in DOMAIN s : s[n] \in Paths
          BY <5>3, PartialFacts
        <5>8. c.edges = graph.edges /\ DOMAIN c.nodes = DOMAIN graph.ents /\ \A n \in DOMAIN c.nodes : c.nodes[n] \in Paths
          BY <5>3, <5>5, <5>6, <5>7
        <5>9. cache' = c
          BY <2>4, <5>1, <5>2, <5>4
        <5>10. QED
          BY <2>0, <5>8, <5>9
      <4>2. QED
        BY <2>4, <4>1 DEF SnapInv
    <3>3. QED
      BY <2>1, <3>1, <3>2 DEF KeptInv
  <2>5. CASE /\ shot'.at = "none" /\ shot.at = "scan" /\ cache' = cache
             /\ stirred'["fusion"] = stirred["fusion"]
             /\ view' = cache \/ \A n \in DOMAIN view'.nodes : view'.nodes[n] \in Visible \cup {NoPath}
    BY <2>0, <2>2, <2>5, <2>1 DEF FusionInv, SnapInv, KeptInv
  <2>6. QED
    BY <1>0, <1>3, <2>3, <2>4, <2>5, ShootsMakes
<1>4. CASE Fusing
  <2>1. FusionMade
    BY <1>0, <1>4, FusingMakes
  <2>2. BaseInv' /\ FusionInv'
    BY <1>0, <2>1 DEF BaseInv, StirredFits, FusionMade, FusionInv, FusionFits
  <2>3. SnapInv'
    BY <1>0, <2>1 DEF SnapInv, FusionMade, Shot
  <2>4. QED
    BY <2>2, <2>3 DEF KeptInv
<1>5. CASE Meanwhile
  <2>1. /\ Whole(graph') /\ shot' = shot /\ cache' = cache /\ view' = view /\ fusion' = fusion
        /\ stirred' = [r \in Readers |-> TRUE]
    BY <1>0, <1>5, MeanwhileMakes
  <2>2. stirred' \in [Readers -> BOOLEAN] /\ stirred'["shot"] /\ stirred'["fusion"]
    BY <2>1 DEF Readers
  <2>3. BaseInv'
    BY <1>0, <2>1, <2>2 DEF BaseInv, StirredFits
  <2>4. FusionInv'
    BY <1>0, <2>2, <2>1 DEF FusionInv, FusionFits, SearchFits, MergeHolds
  <2>5. SnapInv'
    BY <1>0, <2>1, <2>2 DEF SnapInv
  <2>6. QED
    BY <2>3, <2>4, <2>5 DEF KeptInv
<1>6. QED
  BY <1>1, <1>2, <1>3, <1>4, <1>5, NextParts

LEMMA KeptHolds == InsightSpec => []KeptInv
BY KeptBegins, KeptStays, PTL DEF InsightSpec

-----------------------------------------------------------------------------
\* Merges and snapshots are right.

LEMMA MergesRight == KeptInv => MergeRight
BY TheTwo DEF MergeRight, KeptInv, FusionInv, FusionFits, MergeHolds

LEMMA SnapshotsRight == KeptInv => SnapshotRight
<1> SUFFICES ASSUME KeptInv PROVE SnapshotRight
  OBVIOUS
<1>1. SnapInv /\ NetFits(cache) /\ NetFits(view)
  BY DEF KeptInv, BaseInv
<1>2. shot.at = "scan" /\ ~stirred["shot"] => Mirrors(cache) /\ Named(cache) = DOMAIN cache.nodes
  BY <1>1, InsightAssumption DEF SnapInv, Mirrors, Named
<1>3. \A g \in {cache, view} : \A e \in g.edges : {e.from, e.to} \subseteq DOMAIN g.nodes
  BY <1>1 DEF NetFits
<1>4. ASSUME shot.at # "scan", view # cache, NEW c \in Communities(view)
      PROVE  Shown(view, c) \subseteq Visible
  BY <1>1, <1>4 DEF Communities, SnapInv, Shown
<1>5. QED
  BY <1>2, <1>3, <1>4 DEF SnapshotRight

-----------------------------------------------------------------------------
\* What fused searches give.

\* A unit this large gives more points to a better place.
LEMMA UnitTells ==
  ASSUME NEW L \in Nat, NEW a \in 61..(60 + 2 * L), NEW b \in 61..(60 + 2 * L), a < b
  PROVE  LET u == (61 + 2 * L) * (61 + 2 * L) IN u \div b < u \div a /\ u \div b > 0
<1>1. PICK m : m = 61 + 2 * L
  OBVIOUS
<1>2. m \in Nat /\ a \in Nat /\ b \in Nat /\ a > 0 /\ b > 0 /\ b + 1 <= m /\ a + 1 <= b
  BY <1>1
<1>3. PICK u : u = m * m
  OBVIOUS
<1>4. u \in Nat
  BY <1>2, <1>3
<1>5. PICK q : q = u \div b
  OBVIOUS
<1>6. PICK p : p = u \div a
  OBVIOUS
<1>7. q \in Nat /\ b * q <= u /\ u < b * (q + 1)
  BY <1>2, <1>4, <1>5
<1>8. p \in Nat /\ a * p <= u /\ u < a * (p + 1)
  BY <1>2, <1>4, <1>6
<1>9. q >= b
  BY <1>2, <1>7, <1>3
<1>10. q < p
  <2> SUFFICES ASSUME p <= q PROVE FALSE
    BY <1>7, <1>8
  <2>1. a * (p + 1) <= a * (q + 1)
    BY <1>2, <1>7, <1>8
  <2>2. a * (q + 1) <= (b - 1) * (q + 1)
    BY <1>2, <1>7
  <2>3. (b - 1) * (q + 1) = b * q + b - q - 1
    BY <1>2, <1>7
  <2>4. PICK z : z = b * q
    OBVIOUS
  <2>5. z \in Nat
    BY <1>2, <1>7, <2>4
  <2>6. u < z + b - q - 1
    <3>1. PICK x : x = a * (p + 1)
      OBVIOUS
    <3>2. PICK y : y = a * (q + 1)
      OBVIOUS
    <3>3. x \in Int /\ y \in Int
      BY <1>2, <1>7, <1>8, <3>1, <3>2
    <3>4. u < x /\ x <= y /\ y <= z + b - q - 1
      BY <1>8, <2>1, <2>2, <2>3, <2>4, <3>1, <3>2
    <3>5. QED
      BY <1>2, <1>4, <1>7, <2>5, <3>3, <3>4
  <2>7. z <= u
    BY <1>7, <2>4
  <2>8. QED
    BY <1>2, <1>4, <1>7, <1>9, <2>5, <2>6, <2>7
<1>11. QED
  BY <1>1, <1>2, <1>3, <1>5, <1>6, <1>7, <1>9, <1>10

\* Where a name is in a list.
LEMMA PlaceFacts ==
  ASSUME NEW s, Listing(s, Names), NEW n
  PROVE  /\ PlaceIn(s, n) \in Nat /\ PlaceIn(s, n) <= 2 * Limit
         /\ PlaceIn(s, n) = 0 <=> n \notin ToSet(s)
<1>1. s \in Seq(Names) /\ IsInjective(s) /\ Len(s) <= 2 * Limit /\ Len(s) \in Nat /\ DOMAIN s = 1..Len(s) /\ Limit \in Nat
  BY InsightAssumption DEF Listing
<1>2. PICK I : I = {i \in 1..Len(s) : s[i] = n}
  OBVIOUS
<1>3. PlaceIn(s, n) = IF I # {} THEN Min(I) ELSE 0
  BY <1>2 DEF PlaceIn, SelectInSeq
<1>4. CASE I = {}
  BY <1>1, <1>2, <1>4, <1>3 DEF ToSet
<1>5. CASE I # {}
  BY <1>5, <1>2, <1>1, <1>3 DEF IsInjective, Min, ToSet
<1>6. QED
  BY <1>4, <1>5

PlaceOr(s, n) == IF PlaceIn(s, n) = 0 THEN 2 * Limit + 1 ELSE PlaceIn(s, n)

\* A worse place in a list has fewer points.
LEMMA PointsFacts ==
  ASSUME NEW s, Listing(s, Names), NEW m, NEW n
  PROVE  /\ Points(s, n) \in Nat
         /\ PlaceOr(s, m) > PlaceOr(s, n) => Points(s, m) < Points(s, n)
<1>1. PICK i : i = PlaceIn(s, m)
  OBVIOUS
<1>2. PICK j : j = PlaceIn(s, n)
  OBVIOUS
<1>3. i \in Nat /\ j \in Nat /\ i <= 2 * Limit /\ j <= 2 * Limit /\ Limit \in Nat
  BY <1>1, <1>2, PlaceFacts, InsightAssumption
<1>4. PICK u : u = (61 + 2 * Limit) * (61 + 2 * Limit)
  OBVIOUS
<1>5. u \in Nat
  BY <1>3, <1>4
<1>6. Points(s, m) = (IF i = 0 THEN 0 ELSE u \div (60 + i)) /\ Points(s, n) = (IF j = 0 THEN 0 ELSE u \div (60 + j))
  BY <1>1, <1>2, <1>4 DEF Points, Unit
<1>7. PlaceOr(s, m) = (IF i = 0 THEN 2 * Limit + 1 ELSE i) /\ PlaceOr(s, n) = (IF j = 0 THEN 2 * Limit + 1 ELSE j)
  BY <1>1, <1>2 DEF PlaceOr
<1>8. Points(s, n) \in Nat
  BY <1>3, <1>5, <1>6
<1>9. ASSUME PlaceOr(s, m) > PlaceOr(s, n) PROVE Points(s, m) < Points(s, n)
  <2>1. j # 0
    BY <1>3, <1>7, <1>9
  <2>2. CASE i = 0
    BY <1>3, <2>1, <1>4, <1>5, <1>6, <2>2
  <2>3. CASE i # 0
    <3>1. j < i
      BY <1>3, <1>7, <1>9, <2>1, <2>3
    <3>2. 60 + j \in 61..(60 + 2 * Limit) /\ 60 + i \in 61..(60 + 2 * Limit) /\ 60 + j < 60 + i
      BY <1>3, <2>1, <2>3, <3>1
    <3>3. u \div (60 + i) < u \div (60 + j)
      BY <1>3, <1>4, <3>2, UnitTells
    <3>4. QED
      BY <1>6, <2>1, <2>3, <3>3
  <2>4. QED
    BY <2>2, <2>3
<1>10. QED
  BY <1>8, <1>9
LEMMA FusionsRight == KeptInv => FusionRight
<1> SUFFICES ASSUME KeptInv, fusion.at = "done", NEW lists, lists = fusion.lists, NEW all \in Fused(lists)
             PROVE  /\ IsInjective(all)
                    /\ \A i \in DOMAIN all : \A n \in Candidates(lists) \ ToSet(SubSeq(all, 1, i)) :
                         \E k \in DOMAIN lists : PlaceOr(lists[k], all[i]) <= PlaceOr(lists[k], n)
                    /\ ~stirred["fusion"] /\ Mirrors(cache) => ToSet(all) \subseteq DOMAIN graph.ents
  BY DEF FusionRight, PlaceOr
<1>1. /\ fusion \in FusionSet /\ SearchFits(fusion, DOMAIN cache.nodes, DOMAIN graph.ents, stirred["fusion"])
  BY DEF KeptInv, FusionInv, FusionFits
<1>2. lists \in Seq(Seq(Names)) /\ Len(lists) = 3 /\ \A k \in 1..3 : Listing(lists[k], Names)
  BY <1>1 DEF SearchFits, FusionSet
<1>3. DOMAIN lists = 1..3
  BY <1>2
<1>4. PICK C : C = Candidates(lists)
  OBVIOUS
<1>5. C = ToSet(lists[1]) \cup ToSet(lists[2]) \cup ToSet(lists[3])
  BY <1>3, <1>4 DEF Candidates
<1>6. C \subseteq Names
  BY <1>2, <1>5 DEF Listing
<1>7. IsFiniteSet(C)
  BY <1>6, InsightAssumption, FS_Subset
<1>8. PICK score : score = [n \in C |-> RRF(lists, n)]
  OBVIOUS
<1>9. PICK r \in Rankings(C, score) : all = FirstOnes(r, Limit)
  BY <1>4, <1>8 DEF Fused
<1>10. r \in SetToSeqs(C) /\ \A i, j \in DOMAIN r : i < j => score[r[i]] >= score[r[j]]
  BY <1>9 DEF Rankings
<1>11. /\ r \in Seq(C) /\ Len(r) \in Nat /\ DOMAIN r = 1..Len(r) /\ IsInjective(r) /\ ToSet(r) = C
  BY <1>7, <1>10, SeqsFacts
<1>12. Limit \in Nat
  BY InsightAssumption
<1>13. /\ all \in Seq(C) /\ Len(all) <= Len(r) /\ IsInjective(all) /\ ToSet(all) \subseteq C
       /\ \A i \in 1..Len(all) : i \in 1..Len(r) /\ all[i] = r[i]
  BY <1>9, <1>11, <1>12, FirstFacts
<1>14. Len(all) \in Nat /\ DOMAIN all = 1..Len(all)
  BY <1>13
<1>15. ASSUME NEW i \in DOMAIN all, NEW n \in C \ ToSet(SubSeq(all, 1, i))
       PROVE  \E k \in DOMAIN lists : PlaceOr(lists[k], all[i]) <= PlaceOr(lists[k], n)
  <2>1. i \in 1..Len(all) /\ i \in 1..Len(r) /\ all[i] = r[i] /\ i \in Nat
    BY <1>13, <1>14
  <2>2. PICK j \in 1..Len(r) : r[j] = n
    BY <1>11 DEF ToSet
  <2>3. i < j
    <3> SUFFICES ASSUME j <= i PROVE FALSE
      BY <1>11, <2>1
    <3>1. PICK u : u = SubSeq(all, 1, i)
      OBVIOUS
    <3>2. DOMAIN u = 1..i /\ \A x \in 1..i : u[x] = all[x]
      BY <1>13, <1>14, <2>1, <3>1
    <3>3. j \in 1..i /\ j \in 1..Len(all)
      BY <1>14, <2>1
    <3>4. u[j] = n
      BY <1>13, <2>2, <3>2, <3>3
    <3>5. n \in ToSet(u)
      BY <3>2, <3>3, <3>4 DEF ToSet
    <3>6. QED
      BY <3>1, <3>5
  <2>4. PICK m : m = all[i]
    OBVIOUS
  <2>5. m = r[i] /\ m \in C
    BY <1>11, <2>1, <2>4
  <2>6. score[m] >= score[n]
    BY <1>10, <1>11, <2>1, <2>2, <2>3, <2>5
  <2>7. RRF(lists, m) >= RRF(lists, n)
    BY <1>8, <2>5, <2>6
  <2>8. PICK a : a = lists[1]
    OBVIOUS
  <2>9. PICK b : b = lists[2]
    OBVIOUS
  <2>10. PICK c : c = lists[3]
    OBVIOUS
  <2>11. Listing(a, Names) /\ Listing(b, Names) /\ Listing(c, Names)
    BY <1>2, <2>8, <2>9, <2>10
  <2>12. Points(a, m) + Points(b, m) + Points(c, m) >= Points(a, n) + Points(b, n) + Points(c, n)
    BY <2>7, <2>8, <2>9, <2>10 DEF RRF
  <2>13. \/ Points(a, m) >= Points(a, n)
         \/ Points(b, m) >= Points(b, n)
         \/ Points(c, m) >= Points(c, n)
    BY <2>11, PointsFacts, <2>12
  <2>14. PICK k \in 1..3 : Points(lists[k], m) >= Points(lists[k], n)
    BY <2>8, <2>9, <2>10, <2>13
  <2>15. Listing(lists[k], Names)
    BY <1>2
  <2>16. PICK s : s = lists[k]
    OBVIOUS
  <2>17. PlaceOr(s, m) <= PlaceOr(s, n)
    BY <2>15, <2>16, PlaceFacts, <1>12, PointsFacts, <2>14 DEF PlaceOr
  <2>18. QED
    BY <1>3, <2>4, <2>14, <2>16, <2>17
<1>16. ASSUME ~stirred["fusion"], Mirrors(cache)
       PROVE  ToSet(all) \subseteq DOMAIN graph.ents
  BY <1>16, <1>1, <1>5, <1>13 DEF Mirrors, SearchFits
<1>17. QED
  BY <1>4, <1>13, <1>15, <1>16

-----------------------------------------------------------------------------
\* Finite sets and sums.

\* A set of parts of a finite set with the empty one and, with a part, that part and one more.
LEMMA SetInd ==
  ASSUME NEW S, IsFiniteSet(S), NEW T, {} \in T, \A t \in T : t \subseteq S => \A x \in S \ t : t \cup {x} \in T
  PROVE  \A t \in SUBSET S : t \in T
<1> DEFINE N == {k \in Nat : \A t \in SUBSET S : Cardinality(t) = k => t \in T}
<1>0. \A t \in SUBSET S : IsFiniteSet(t) /\ Cardinality(t) \in Nat
  BY FS_Subset, FS_CardinalityType
<1>1. 0 \in N
  BY <1>0, FS_EmptySet
<1>2. ASSUME NEW k \in N PROVE k + 1 \in N
  <2> SUFFICES ASSUME NEW t \in SUBSET S, Cardinality(t) = k + 1 PROVE t \in T
    OBVIOUS
  <2>1. t # {}
    <3>1. k \in Nat
      OBVIOUS
    <3>2. k + 1 # 0 /\ Cardinality({}) = 0
      BY <3>1, FS_EmptySet
    <3>3. QED
      BY <3>2
  <2>2. PICK x \in t : TRUE
    BY <2>1
  <2>3. PICK u : u = t \ {x}
    OBVIOUS
  <2>4. IsFiniteSet(t)
    BY <1>0
  <2>5. Cardinality(u) = Cardinality(t) - 1
    BY <2>2, <2>3, <2>4, FS_RemoveElement
  <2>6. u \in SUBSET S /\ Cardinality(u) = k
    BY <2>3, <2>5
  <2>7. u \in T /\ x \in S \ u /\ t = u \cup {x}
    BY <2>2, <2>3, <2>6
  <2>8. QED
    BY <2>6, <2>7
<1>3. N \in SUBSET Nat
  OBVIOUS
<1> HIDE DEF N
<1>4. N = Nat
  BY <1>1, <1>2, <1>3, NatInd
<1>5. QED
  BY <1>0, <1>4 DEF N

\* SumFunction adds the values one by one.
OneOf(s) == CHOOSE x \in s : TRUE
OneLess(f, w, s) == IF s = {} THEN 0 ELSE f[OneOf(s)] + w[s \ {OneOf(s)}]
Folded(f, w, S) == w = [s \in SUBSET S |-> OneLess(f, w, s)]
LEMMA FoldedIs ==
  ASSUME NEW S, IsFiniteSet(S), NEW f \in [S -> Int]
  PROVE  \E w \in [SUBSET S -> Int] : Folded(f, w, S) /\ SumFunction(f) = w[S]
<1> DEFINE W == [SUBSET S -> Int]
           n == Cardinality(S)
           zero == [s \in SUBSET S |-> 0]
           Then(w) == [s \in SUBSET S |-> OneLess(f, w, s)]
           step == [i \in 1..n |-> [w \in W |-> Then(w)]]
<1>0. n \in Nat /\ \A s \in SUBSET S : IsFiniteSet(s) /\ Cardinality(s) \in Nat /\ Cardinality(s) <= n
  BY FS_Subset, FS_CardinalityType
<1>1. \A s \in SUBSET S : s # {} => OneOf(s) \in s /\ OneOf(s) \in S /\ s \ {OneOf(s)} \in SUBSET S
  BY DEF OneOf
<1>2. \A w \in W : Then(w) \in W
  BY <1>1 DEF OneLess
<1>3. step \in [1..n -> [W -> W]]
  BY <1>2
<1>4. zero \in W
  OBVIOUS
<1>5. PICK r : Recurs(r, n, W, zero, step)
  BY <1>0, <1>3, <1>4, RecursFacts
<1>6. /\ r \in [0..n -> W] /\ r[0] = zero
      /\ \A i \in 1..n : i - 1 \in 0..n /\ r[i] = Then(r[i - 1])
  <2>1. r \in [0..n -> W] /\ r[0] = zero /\ \A i \in 1..n : r[i] = step[i][r[i - 1]]
    BY <1>5 DEF Recurs
  <2>2. \A i \in 1..n : i - 1 \in 0..n
    BY <1>0
  <2>3. \A i \in 1..n : r[i - 1] \in W
    BY <2>1, <2>2
  <2>4. \A i \in 1..n : step[i][r[i - 1]] = Then(r[i - 1])
    BY <2>3
  <2>5. QED
    BY <2>1, <2>2, <2>4
<1> HIDE DEF W, zero, step
<1> DEFINE Settled(i) == \A s \in SUBSET S : Cardinality(s) <= i => r[i][s] = OneLess(f, r[i], s)
           N == {i \in Nat : i <= n => Settled(i)}
<1>7. 0 \in N
  BY <1>0, FS_EmptySet, <1>6 DEF OneLess, zero
<1>8. ASSUME NEW i \in N PROVE i + 1 \in N
  <2> SUFFICES ASSUME i + 1 <= n, NEW s \in SUBSET S, Cardinality(s) <= i + 1
               PROVE  r[i + 1][s] = OneLess(f, r[i + 1], s)
    OBVIOUS
  <2>1. i \in Nat /\ Settled(i) /\ i + 1 \in 1..n /\ (i + 1) - 1 = i
    BY <1>0
  <2>2. PICK v, w : v = r[i] /\ w = r[i + 1]
    OBVIOUS
  <2>3. w = Then(v)
    BY <1>6, <2>1, <2>2
  <2>4. w[s] = OneLess(f, v, s)
    BY <2>3
  <2>5. CASE s = {}
    BY <2>2, <2>4, <2>5 DEF OneLess
  <2>6. CASE s # {}
    <3>1. PICK u : u = s \ {OneOf(s)}
      OBVIOUS
    <3>2. OneOf(s) \in s /\ u \in SUBSET S
      BY <1>1, <2>6, <3>1
    <3>3. Cardinality(u) <= i
      BY <1>0, <3>1, <3>2, FS_RemoveElement, <2>1
    <3>4. v[u] = OneLess(f, v, u)
      BY <2>1, <2>2, <3>2, <3>3
    <3>5. w[u] = OneLess(f, v, u)
      BY <2>3, <3>2
    <3>6. QED
      BY <2>2, <2>4, <2>6, <3>1, <3>4, <3>5 DEF OneLess
  <2>7. QED
    BY <2>5, <2>6
<1>9. N \in SUBSET Nat
  OBVIOUS
<1> HIDE DEF N
<1>10. n \in N
  BY <1>0, <1>7, <1>8, <1>9, NatInd
<1>11. PICK v : v = r[n]
  OBVIOUS
<1>12. v \in W /\ \A s \in SUBSET S : v[s] = OneLess(f, v, s)
  BY <1>0, <1>6, <1>10, <1>11 DEF N
<1>13. v = [s \in SUBSET S |-> OneLess(f, v, s)]
  BY <1>12 DEF W
<1>14. PICK w : w = CHOOSE x : Folded(f, x, S)
  OBVIOUS
<1>15. Folded(f, w, S)
  BY <1>13, <1>14 DEF Folded
<1>16. SumFunction(f) = w[S]
  <2>1. DOMAIN f = S
    OBVIOUS
  <2>2. SumFunction(f) = MapThenFoldSet(+, 0, LAMBDA i : f[i], LAMBDA s : CHOOSE x \in s : TRUE, S)
    BY <2>1 DEF SumFunction, SumFunctionOnSet, FoldFunctionOnSet
  <2>3. QED
    BY <1>14, <2>2 DEF MapThenFoldSet, Folded, OneLess, OneOf
<1>17. w \in W
  <2> DEFINE M == {k \in Nat : \A s \in SUBSET S : Cardinality(s) <= k => w[s] \in Int}
  <2>1. \A s \in SUBSET S : w[s] = OneLess(f, w, s)
    BY <1>15 DEF Folded
  <2>2. 0 \in M
    <3> SUFFICES ASSUME NEW s \in SUBSET S, Cardinality(s) <= 0 PROVE w[s] \in Int
      OBVIOUS
    <3>1. s = {}
      BY <1>0, FS_EmptySet
    <3>2. QED
      BY <2>1, <3>1 DEF OneLess
  <2>3. ASSUME NEW k \in M PROVE k + 1 \in M
    <3>0. w[{}] = 0
      BY <2>1 DEF OneLess
    <3> SUFFICES ASSUME NEW s \in SUBSET S, Cardinality(s) <= k + 1 PROVE w[s] \in Int
      OBVIOUS
    <3> SUFFICES ASSUME s # {} PROVE w[s] \in Int
      BY <3>0
    <3>1. PICK u : u = s \ {OneOf(s)}
      OBVIOUS
    <3>2. OneOf(s) \in s /\ OneOf(s) \in S /\ u \in SUBSET S
      BY <1>1, <3>1
    <3>3. Cardinality(u) <= k
      BY <1>0, <3>1, <3>2, FS_RemoveElement
    <3>4. w[u] \in Int /\ f[OneOf(s)] \in Int
      BY <3>2, <3>3
    <3>5. w[s] = f[OneOf(s)] + w[u]
      BY <2>1, <3>1 DEF OneLess
    <3>6. QED
      BY <3>4, <3>5
  <2>4. M \in SUBSET Nat
    OBVIOUS
  <2> HIDE DEF M
  <2>5. n \in M
    BY <1>0, <2>2, <2>3, <2>4, NatInd
  <2>6. \A s \in SUBSET S : w[s] \in Int
    BY <1>0, <2>5 DEF M
  <2>7. QED
    BY <1>15, <2>6 DEF Folded, W
<1>18. QED
  BY <1>15, <1>16, <1>17 DEF W
\* In whatever order.
Adds(f, w, S) == w[{}] = 0 /\ \A t \in SUBSET S : \A x \in S \ t : w[t \cup {x}] = f[x] + w[t]
LEMMA SumIs ==
  ASSUME NEW S, IsFiniteSet(S), NEW f \in [S -> Int]
  PROVE  \E w \in [SUBSET S -> Int] : Adds(f, w, S) /\ SumFunction(f) = w[S]
<1>1. PICK w \in [SUBSET S -> Int] : Folded(f, w, S) /\ SumFunction(f) = w[S]
  BY FoldedIs
<1>2. \A s \in SUBSET S : w[s] = OneLess(f, w, s)
  BY <1>1 DEF Folded
<1>3. w[{}] = 0
  BY <1>2 DEF OneLess
<1>4. \A s \in SUBSET S : s # {} => OneOf(s) \in s /\ OneOf(s) \in S /\ w[s] = f[OneOf(s)] + w[s \ {OneOf(s)}]
  BY <1>2 DEF OneOf, OneLess
<1>5. \A s \in SUBSET S : IsFiniteSet(s) /\ Cardinality(s) \in Nat
  BY FS_Subset, FS_CardinalityType
<1> DEFINE N == {k \in Nat : \A t \in SUBSET S : Cardinality(t) <= k => \A x \in S \ t : w[t \cup {x}] = f[x] + w[t]}
<1>6. 0 \in N
  <2> SUFFICES ASSUME NEW t \in SUBSET S, Cardinality(t) <= 0, NEW x \in S \ t PROVE w[t \cup {x}] = f[x] + w[t]
    OBVIOUS
  <2>1. t = {}
    BY <1>5, FS_EmptySet
  <2>2. PICK s : s = {x}
    OBVIOUS
  <2>3. s \in SUBSET S /\ s # {}
    BY <2>2
  <2>4. OneOf(s) = x /\ s \ {x} = {}
    BY <1>4, <2>2, <2>3
  <2>5. w[s] = f[x] + w[{}]
    BY <1>4, <2>3, <2>4
  <2>6. t \cup {x} = s
    BY <2>1, <2>2
  <2>7. QED
    BY <2>1, <2>5, <2>6
<1>7. ASSUME NEW k \in N PROVE k + 1 \in N
  <2>0. k \in Nat /\ k + 1 \in Nat
    OBVIOUS
  <2> SUFFICES ASSUME NEW t \in SUBSET S, Cardinality(t) <= k + 1, NEW x \in S \ t PROVE w[t \cup {x}] = f[x] + w[t]
    BY <2>0
  <2>1. PICK s : s = t \cup {x}
    OBVIOUS
  <2>2. PICK y : y = OneOf(s)
    OBVIOUS
  <2>3. s \in SUBSET S /\ y \in s /\ y \in S /\ w[s] = f[y] + w[s \ {y}]
    BY <1>4, <2>1, <2>2
  <2>4. CASE y = x
    BY <2>1, <2>3, <2>4
  <2>5. CASE y # x
    <3>1. PICK u : u = t \ {y}
      OBVIOUS
    <3>2. y \in t /\ u \in SUBSET S /\ x \in S \ u /\ y \in S \ u
      BY <2>1, <2>3, <2>5, <3>1
    <3>3. Cardinality(u) <= k
      BY <1>5, <3>1, <3>2, FS_RemoveElement, <2>0
    <3>4. \A v \in SUBSET S : Cardinality(v) <= k => \A z \in S \ v : w[v \cup {z}] = f[z] + w[v]
      OBVIOUS
    <3> HIDE DEF N
    <3>5. w[u \cup {x}] = f[x] + w[u] /\ w[u \cup {y}] = f[y] + w[u]
      BY <3>2, <3>3, <3>4
    <3>6. s \ {y} = u \cup {x} /\ t = u \cup {y}
      BY <2>1, <2>5, <3>1, <3>2
    <3>7. PICK a, b, c : a = f[x] /\ b = f[y] /\ c = w[u]
      OBVIOUS
    <3>8. a \in Int /\ b \in Int /\ c \in Int
      BY <3>2, <3>7
    <3>9. w[s] = b + (a + c) /\ w[t] = b + c
      BY <2>3, <3>5, <3>6, <3>7
    <3>10. w[s] = a + w[t]
      BY <3>8, <3>9
    <3>11. QED
      BY <2>1, <3>7, <3>10
  <2>6. QED
    BY <2>4, <2>5
<1>8. N \in SUBSET Nat
  OBVIOUS
<1> HIDE DEF N
<1>9. N = Nat
  BY <1>6, <1>7, <1>8, NatInd
<1>10. \A t \in SUBSET S : \A x \in S \ t : w[t \cup {x}] = f[x] + w[t]
  <2> TAKE t \in SUBSET S
  <2>1. PICK k \in Nat : k = Cardinality(t)
    BY <1>5
  <2>2. k \in N /\ Cardinality(t) <= k
    BY <1>9, <2>1
  <2>3. QED
    BY <2>2 DEF N
<1>11. QED
  BY <1>1, <1>3, <1>10 DEF Adds

\* A sum of no less over no less is no less.
LEMMA SumGrows ==
  ASSUME NEW S, IsFiniteSet(S), NEW R \in SUBSET S, NEW f \in [R -> Nat], NEW g \in [S -> Nat],
         \A x \in R : f[x] <= g[x]
  PROVE  SumFunction(f) \in Nat /\ SumFunction(g) \in Nat /\ SumFunction(f) <= SumFunction(g)
<1>1. IsFiniteSet(R) /\ f \in [R -> Int] /\ g \in [S -> Int]
  BY FS_Subset
<1>2. PICK v \in [SUBSET R -> Int] : Adds(f, v, R) /\ SumFunction(f) = v[R]
  BY <1>1, SumIs
<1>3. PICK w \in [SUBSET S -> Int] : Adds(g, w, S) /\ SumFunction(g) = w[S]
  BY <1>1, SumIs
<1> DEFINE T == {t \in SUBSET S : v[t \cap R] \in Nat /\ w[t] \in Nat /\ v[t \cap R] <= w[t]}
<1>4. {} \in T
  BY <1>2, <1>3 DEF Adds
<1>5. ASSUME NEW t \in T, NEW x \in S \ t PROVE t \cup {x} \in T
  <2>1. PICK a, b : a = v[t \cap R] /\ b = w[t]
    OBVIOUS
  <2>2. a \in Nat /\ b \in Nat /\ a <= b /\ t \in SUBSET S
    BY <2>1
  <2>3. w[t \cup {x}] = g[x] + b /\ g[x] \in Nat /\ t \cup {x} \in SUBSET S
    BY <1>3, <2>1, <2>2 DEF Adds
  <2>4. CASE x \in R
    <3>1. (t \cup {x}) \cap R = (t \cap R) \cup {x} /\ x \in R \ (t \cap R) /\ t \cap R \in SUBSET R
      BY <2>4
    <3>2. v[(t \cap R) \cup {x}] = f[x] + a /\ f[x] \in Nat /\ f[x] <= g[x]
      BY <1>2, <2>1, <2>4, <3>1 DEF Adds
    <3>3. f[x] + a \in Nat /\ g[x] + b \in Nat /\ f[x] + a <= g[x] + b
      BY <2>2, <2>3, <3>2
    <3>4. QED
      BY <2>3, <3>1, <3>2, <3>3
  <2>5. CASE x \notin R
    <3>1. (t \cup {x}) \cap R = t \cap R
      BY <2>5
    <3>2. g[x] + b \in Nat /\ a <= g[x] + b
      BY <2>2, <2>3
    <3>3. QED
      BY <2>1, <2>2, <2>3, <3>1, <3>2
  <2>6. QED
    BY <2>4, <2>5
<1>6. \A t \in T : t \subseteq S => \A x \in S \ t : t \cup {x} \in T
  BY <1>5
<1> HIDE DEF T
<1>7. S \in T
  BY <1>4, <1>6, SetInd
<1>8. S \cap R = R
  OBVIOUS
<1>9. QED
  BY <1>2, <1>3, <1>7, <1>8 DEF T

-----------------------------------------------------------------------------
\* What analytics count.

LEMMA EdgesFinite == IsFiniteSet(Edges)
<1> DEFINE A == Names \X Names
           B == Rels \X Paths
           C == BOOLEAN \X BOOLEAN
           P == (A \X B) \X C
           f == [t \in P |-> [from |-> t[1][1][1], to |-> t[1][1][2], rel |-> t[1][2][1], src |-> t[1][2][2],
                              strong |-> t[2][1], old |-> t[2][2]]]
<1>1. IsFiniteSet(A)
  BY InsightAssumption, FS_Product
<1>2. IsFiniteSet({"states", "references"}) /\ IsFiniteSet({TRUE, FALSE})
  <2>1. {"states", "references"} = {"states"} \cup {"references"} /\ {TRUE, FALSE} = {TRUE} \cup {FALSE}
    OBVIOUS
  <2>2. IsFiniteSet({"states"} \cup {"references"}) /\ IsFiniteSet({TRUE} \cup {FALSE})
    BY FS_Singleton, FS_Union
  <2>3. QED
    BY <2>1, <2>2
<1>3. IsFiniteSet(Rels) /\ IsFiniteSet(BOOLEAN)
  BY <1>2 DEF Rels
<1>4. IsFiniteSet(B) /\ IsFiniteSet(C)
  BY <1>3, InsightAssumption, FS_Product
<1>5. IsFiniteSet(P)
  BY <1>1, <1>4, FS_Product
<1>6. f \in [P -> Edges]
  BY DEF Edges
<1>7. \A e \in Edges : \E t \in P : f[t] = e
  <2> TAKE e \in Edges
  <2>1. /\ e.from \in Names /\ e.to \in Names /\ e.rel \in Rels /\ e.src \in Paths /\ e.strong \in BOOLEAN /\ e.old \in BOOLEAN
        /\ e = [from |-> e.from, to |-> e.to, rel |-> e.rel, src |-> e.src, strong |-> e.strong, old |-> e.old]
    BY DEF Edges
  <2>2. PICK a, b, c : a = <<e.from, e.to>> /\ b = <<e.rel, e.src>> /\ c = <<e.strong, e.old>>
    OBVIOUS
  <2>3. PICK t : t = <<<<a, b>>, c>>
    OBVIOUS
  <2>4. t \in P
    BY <2>1, <2>2, <2>3
  <2>5. f[t] = e
    BY <2>1, <2>2, <2>3, <2>4
  <2>6. QED
    BY <2>4, <2>5
<1>8. f \in Surjection(P, Edges)
  BY <1>6, <1>7 DEF Surjection
<1>9. QED
  BY <1>5, <1>8, FS_Surjection

\* A net is finite, and its edges have their ends in it.
LEMMA NetFacts ==
  ASSUME NEW g, NetFits(g)
  PROVE  /\ IsFiniteSet(g.edges) /\ IsFiniteSet(DOMAIN g.nodes) /\ Cardinality(DOMAIN g.nodes) \in Nat
         /\ DOMAIN g.nodes \subseteq Names /\ g.edges \subseteq Edges
         /\ \A e \in g.edges : e.from \in DOMAIN g.nodes /\ e.to \in DOMAIN g.nodes
         /\ \A E \in SUBSET g.edges : IsFiniteSet(E) /\ Cardinality(E) \in Nat
BY PartialFacts, EdgesFinite, InsightAssumption, FS_Subset, FS_CardinalityType DEF NetFits, Nets

LeavingFrom(g, s) == {e \in g.edges : e.from \in s}
ComingTo(g, s) == {e \in g.edges : e.to \in s}
LEMMA DegreeFacts ==
  ASSUME NEW g, NetFits(g), NEW n
  PROVE  /\ Degree(g, n) = Cardinality(LeavingFrom(g, {n})) + Cardinality(ComingTo(g, {n})) /\ Degree(g, n) \in Nat
         /\ Cardinality(LeavingFrom(g, {n})) \in Nat /\ Cardinality(ComingTo(g, {n})) \in Nat
BY NetFacts DEF LeavingFrom, ComingTo, Degree

\* Two finite sets that share nothing.
LEMMA CardBoth ==
  ASSUME NEW S, IsFiniteSet(S), NEW a \in SUBSET S, NEW b \in SUBSET S, a \cap b = {}
  PROVE  Cardinality(a \cup b) = Cardinality(a) + Cardinality(b)
<1>1. IsFiniteSet(a) /\ IsFiniteSet(b) /\ Cardinality(a) \in Nat /\ Cardinality(b) \in Nat
  BY FS_Subset, FS_CardinalityType
<1>2. PICK c : c = a \cap b
  OBVIOUS
<1>3. Cardinality(a \cup b) = Cardinality(a) + Cardinality(b) - Cardinality(c)
  BY <1>1, <1>2, FS_Union
<1>4. Cardinality(c) = 0
  BY <1>2, FS_EmptySet
<1>5. PICK k, l, m : k = Cardinality(a) /\ l = Cardinality(b) /\ m = Cardinality(a \cup b)
  OBVIOUS
<1>6. k \in Nat /\ l \in Nat /\ m = k + l - 0
  BY <1>1, <1>3, <1>4, <1>5
<1>7. m = k + l
  BY <1>6
<1>8. QED
  BY <1>5, <1>7

\* Ends add up to the degrees.
LEMMA Handshake ==
  ASSUME NEW g, NetFits(g)
  PROVE  SumFunction([n \in DOMAIN g.nodes |-> Degree(g, n)]) = 2 * Cardinality(g.edges)
<1>1. PICK D, E : D = DOMAIN g.nodes /\ E = g.edges
  OBVIOUS
<1>2. IsFiniteSet(D) /\ IsFiniteSet(E) /\ \A e \in E : e.from \in D /\ e.to \in D
  BY <1>1, NetFacts
<1>3. PICK f : f = [n \in D |-> Degree(g, n)]
  OBVIOUS
<1>4. f \in [D -> Int]
  <2>1. ASSUME NEW n \in D PROVE Degree(g, n) \in Int
    <3>1. PICK k : k = Degree(g, n)
      OBVIOUS
    <3>2. k \in Nat
      BY <3>1, DegreeFacts
    <3>3. QED
      BY <3>1, <3>2
  <2>2. QED
    BY <1>3, <2>1
<1>5. PICK w \in [SUBSET D -> Int] : Adds(f, w, D) /\ SumFunction(f) = w[D]
  BY <1>2, <1>4, SumIs
<1> DEFINE T == {s \in SUBSET D : w[s] = Cardinality(LeavingFrom(g, s)) + Cardinality(ComingTo(g, s))}
<1>6. {} \in T
  <2>1. LeavingFrom(g, {}) = {} /\ ComingTo(g, {}) = {}
    BY DEF LeavingFrom, ComingTo
  <2>2. Cardinality({}) = 0
    BY FS_EmptySet
  <2>3. w[{}] = 0
    BY <1>5 DEF Adds
  <2>4. Cardinality(LeavingFrom(g, {})) = 0 /\ Cardinality(ComingTo(g, {})) = 0
    BY <2>1, <2>2
  <2>5. w[{}] = Cardinality(LeavingFrom(g, {})) + Cardinality(ComingTo(g, {}))
    BY <2>3, <2>4
  <2>6. QED
    BY <2>5
<1>7. ASSUME NEW s \in T, NEW x \in D \ s PROVE s \cup {x} \in T
  <2>1. PICK t : t = s \cup {x}
    OBVIOUS
  <2>2. s \in SUBSET D /\ t \in SUBSET D /\ w[t] = f[x] + w[s]
    BY <1>5, <2>1 DEF Adds
  <2>3. /\ LeavingFrom(g, t) = LeavingFrom(g, s) \cup LeavingFrom(g, {x})
        /\ LeavingFrom(g, s) \cap LeavingFrom(g, {x}) = {}
        /\ LeavingFrom(g, s) \in SUBSET E /\ LeavingFrom(g, {x}) \in SUBSET E
    BY <1>1, <2>1 DEF LeavingFrom
  <2>4. /\ ComingTo(g, t) = ComingTo(g, s) \cup ComingTo(g, {x})
        /\ ComingTo(g, s) \cap ComingTo(g, {x}) = {}
        /\ ComingTo(g, s) \in SUBSET E /\ ComingTo(g, {x}) \in SUBSET E
    BY <1>1, <2>1 DEF ComingTo
  <2>5. PICK a, b, c, d : /\ a = Cardinality(LeavingFrom(g, s)) /\ b = Cardinality(LeavingFrom(g, {x}))
                          /\ c = Cardinality(ComingTo(g, s)) /\ d = Cardinality(ComingTo(g, {x}))
    OBVIOUS
  <2>6. a \in Nat /\ b \in Nat /\ c \in Nat /\ d \in Nat
    BY <1>1, <2>3, <2>4, <2>5, NetFacts
  <2>7. Cardinality(LeavingFrom(g, t)) = a + b
    <3>1. PICK p, q : p = LeavingFrom(g, s) /\ q = LeavingFrom(g, {x})
      OBVIOUS
    <3>2. p \in SUBSET E /\ q \in SUBSET E /\ p \cap q = {} /\ LeavingFrom(g, t) = p \cup q
      BY <2>3, <3>1
    <3>3. Cardinality(p \cup q) = Cardinality(p) + Cardinality(q)
      BY <1>2, <3>2, CardBoth
    <3>4. QED
      BY <2>5, <3>1, <3>2, <3>3
  <2>8. Cardinality(ComingTo(g, t)) = c + d
    <3>1. PICK p, q : p = ComingTo(g, s) /\ q = ComingTo(g, {x})
      OBVIOUS
    <3>2. p \in SUBSET E /\ q \in SUBSET E /\ p \cap q = {} /\ ComingTo(g, t) = p \cup q
      BY <2>4, <3>1
    <3>3. Cardinality(p \cup q) = Cardinality(p) + Cardinality(q)
      BY <1>2, <3>2, CardBoth
    <3>4. QED
      BY <2>5, <3>1, <3>2, <3>3
  <2>9. f[x] = b + d
    BY <1>3, <2>5, DegreeFacts
  <2>10. w[s] = a + c
    BY <2>5
  <2>11. w[t] = (a + b) + (c + d)
    BY <2>2, <2>6, <2>9, <2>10
  <2>12. QED
    BY <2>1, <2>2, <2>7, <2>8, <2>11
<1>8. \A s \in T : s \subseteq D => \A x \in D \ s : s \cup {x} \in T
  BY <1>7
<1> HIDE DEF T
<1>9. D \in T
  BY <1>2, <1>6, <1>8, SetInd
<1>10. LeavingFrom(g, D) = E /\ ComingTo(g, D) = E
  BY <1>1, <1>2 DEF LeavingFrom, ComingTo
<1>11. Cardinality(E) \in Nat
  BY <1>1, NetFacts
<1>12. w[D] = Cardinality(E) + Cardinality(E)
  BY <1>9, <1>10 DEF T
<1>13. QED
  BY <1>1, <1>3, <1>5, <1>11, <1>12

-----------------------------------------------------------------------------
\* What is within so many steps.

Spread(b, k, n, near) == b[0] = {n} /\ \A i \in 1..k : b[i] = b[i - 1] \cup UNION {near[m] : m \in b[i - 1]}
Closed(c, near) == \A m \in c : near[m] \subseteq c
LEMMA BallsAre ==
  ASSUME NEW U, NEW n \in U, NEW near \in [U -> SUBSET U], NEW k \in Nat
  PROVE  \E b \in [0..k -> SUBSET U] : b = Balls(near, n, k) /\ Spread(b, k, n, near)
<1> DEFINE X == SUBSET U
           Then(w) == w \cup UNION {near[m] : m \in w}
           step == [i \in 1..k |-> [w \in X |-> Then(w)]]
           Body(f) == [i \in 0..k |-> IF i = 0 THEN {n} ELSE Then(f[i - 1])]
           g == CHOOSE f : f = Body(f)
<1>1. \A w \in X : Then(w) \in X
  OBVIOUS
<1>2. {n} \in X
  OBVIOUS
<1> HIDE DEF Then, X
<1>3. step \in [1..k -> [X -> X]]
  BY <1>1
<1>4. PICK f : f \in [0..k -> X] /\ f[0] = {n} /\ \A i \in 1..k : f[i] = step[i][f[i - 1]]
  <2> HIDE DEF step
  <2>1. \E f : Recurs(f, k, X, {n}, step)
    BY <1>2, <1>3, RecursFacts
  <2>2. QED
    BY <2>1 DEF Recurs
<1>5. \A i \in 1..k : i - 1 \in 0..k /\ f[i - 1] \in X /\ f[i] = Then(f[i - 1])
  <2>1. \A i \in 1..k, w \in X : step[i][w] = Then(w)
    OBVIOUS
  <2>2. \A i \in 1..k : i - 1 \in 0..k
    OBVIOUS
  <2> HIDE DEF step
  <2>3. QED
    BY <1>4, <2>1, <2>2
<1>6. f = Body(f)
  BY <1>4, <1>5
<1>7. g = Body(g)
  BY <1>6
<1>8. \A i \in 0..k : g[i] = f[i]
  <2> HIDE DEF g
  <2>1. \A i \in 0..k : g[i] = IF i = 0 THEN {n} ELSE Then(g[i - 1])
    BY <1>7
  <2>2. \A i \in 1..k : i \in 0..k /\ i # 0
    OBVIOUS
  <2>3. g[0] = f[0] /\ \A i \in 1..k : g[i - 1] = f[i - 1] => g[i] = f[i]
    BY <1>4, <1>5, <2>1, <2>2
  <2>4. QED
    BY <2>3, AlikeByStep
<1>9. Balls(near, n, k) = g
  BY DEF Balls, Then
<1>10. g = f
  BY <1>4, <1>7, <1>8
<1>11. f \in [0..k -> SUBSET U] /\ Spread(f, k, n, near)
  BY <1>4, <1>5 DEF X, Then, Spread
<1>12. QED
  BY <1>9, <1>10, <1>11

LEMMA BallsFacts ==
  ASSUME NEW U, IsFiniteSet(U), NEW n \in U, NEW near \in [U -> SUBSET U], NEW k \in Nat,
         NEW b \in [0..k -> SUBSET U], Spread(b, k, n, near)
  PROVE  /\ n \in b[k] /\ \A i, j \in 0..k : i <= j => b[i] \subseteq b[j]
         /\ \A c \in SUBSET U : n \in c /\ Closed(c, near) => \A i \in 0..k : b[i] \subseteq c
         /\ \A i, j \in 0..k : i <= j /\ Closed(b[i], near) => b[j] = b[i]
         /\ Cardinality(U) <= k => Closed(b[k], near)
<1>1. b[0] = {n} /\ \A i \in 1..k : i - 1 \in 0..k /\ b[i] = b[i - 1] \cup UNION {near[m] : m \in b[i - 1]}
  BY DEF Spread
<1>2. \A i \in 1..k : b[i - 1] \subseteq b[i]
  BY <1>1
<1>3. \A i, j \in 0..k : i <= j => b[i] \subseteq b[j]
  <2> SUFFICES ASSUME NEW i \in 0..k PROVE \A j \in 0..k : i <= j => b[i] \subseteq b[j]
    OBVIOUS
  <2> DEFINE N == {j \in Nat : j <= k /\ i <= j => b[i] \subseteq b[j]}
  <2>1. 0 \in N
    OBVIOUS
  <2>2. ASSUME NEW j \in N PROVE j + 1 \in N
    BY <1>2
  <2>3. N \in SUBSET Nat
    OBVIOUS
  <2> HIDE DEF N
  <2>4. N = Nat
    BY <2>1, <2>2, <2>3, NatInd
  <2>5. \A j \in 0..k : j \in Nat /\ j <= k
    OBVIOUS
  <2>6. QED
    BY <2>4, <2>5 DEF N
<1>4. ASSUME NEW c \in SUBSET U, n \in c, Closed(c, near) PROVE \A i \in 0..k : b[i] \subseteq c
  <2> DEFINE N == {j \in Nat : j <= k => b[j] \subseteq c}
  <2>1. 0 \in N
    BY <1>1, <1>4
  <2>2. ASSUME NEW j \in N PROVE j + 1 \in N
    <3> SUFFICES ASSUME j + 1 <= k PROVE b[j + 1] \subseteq c
      OBVIOUS
    <3>1. j \in Nat /\ j + 1 \in 1..k /\ (j + 1) - 1 = j /\ j <= k
      OBVIOUS
    <3>2. b[j] \subseteq c /\ b[j + 1] = b[j] \cup UNION {near[m] : m \in b[j]}
      BY <1>1, <3>1
    <3>3. \A m \in b[j] : near[m] \subseteq c
      BY <1>4, <3>2 DEF Closed
    <3>4. QED
      BY <3>2, <3>3
  <2>3. N \in SUBSET Nat
    OBVIOUS
  <2> HIDE DEF N
  <2>4. N = Nat
    BY <2>1, <2>2, <2>3, NatInd
  <2>5. \A j \in 0..k : j \in Nat /\ j <= k
    OBVIOUS
  <2>6. QED
    BY <2>4, <2>5 DEF N
<1>5. ASSUME NEW i \in 0..k, Closed(b[i], near), NEW j \in 0..k, i <= j PROVE b[j] = b[i]
  <2>1. n \in b[i] /\ b[i] \in SUBSET U
    BY <1>3, <1>1
  <2>2. b[j] \subseteq b[i]
    BY <1>4, <1>5, <2>1
  <2>3. b[i] \subseteq b[j]
    BY <1>3, <1>5
  <2>4. QED
    BY <2>2, <2>3
<1>6. ASSUME Cardinality(U) <= k PROVE Closed(b[k], near)
  <2>0. \A s \in SUBSET U : IsFiniteSet(s) /\ Cardinality(s) \in Nat /\ Cardinality(s) <= Cardinality(U)
    BY FS_Subset, FS_CardinalityType
  <2> DEFINE N == {j \in Nat : j <= k => Closed(b[j], near) \/ Cardinality(b[j]) >= j + 1}
  <2>1. 0 \in N
    <3>1. Cardinality(b[0]) = 1
      BY <1>1, FS_Singleton
    <3>2. QED
      BY <3>1
  <2>2. ASSUME NEW j \in N PROVE j + 1 \in N
    <3> SUFFICES ASSUME j + 1 <= k PROVE Closed(b[j + 1], near) \/ Cardinality(b[j + 1]) >= (j + 1) + 1
      OBVIOUS
    <3>1. j \in Nat /\ j + 1 \in 0..k /\ j \in 0..k /\ j + 1 \in 1..k /\ (j + 1) - 1 = j /\ j <= k
      OBVIOUS
    <3>2. Closed(b[j], near) \/ Cardinality(b[j]) >= j + 1
      BY <3>1
    <3> HIDE DEF N
    <3>3. CASE Closed(b[j], near)
      BY <1>5, <3>1, <3>3
    <3>4. CASE ~Closed(b[j], near)
      <4>1. PICK m \in b[j] : \E x \in near[m] : x \notin b[j]
        BY <3>4 DEF Closed
      <4>0. PICK x \in near[m] : x \notin b[j]
        BY <4>1
      <4>2. b[j + 1] = b[j] \cup UNION {near[y] : y \in b[j]} /\ b[j] \in SUBSET U /\ b[j + 1] \in SUBSET U
        BY <1>1, <3>1
      <4>3. x \in b[j + 1] /\ b[j] \cup {x} \subseteq b[j + 1]
        BY <4>0, <4>2
      <4>4. PICK s, t : s = b[j] /\ t = b[j + 1]
        OBVIOUS
      <4>5. Cardinality(s \cup {x}) = Cardinality(s) + 1
        BY <2>0, <4>0, <4>2, <4>4, FS_AddElement
      <4>6. Cardinality(s \cup {x}) <= Cardinality(t)
        BY <2>0, <4>2, <4>3, <4>4, FS_Subset
      <4>7. Cardinality(s) \in Nat /\ Cardinality(t) \in Nat /\ Cardinality(s) >= j + 1
        BY <2>0, <3>2, <3>4, <4>2, <4>4
      <4>8. QED
        BY <3>1, <4>4, <4>5, <4>6, <4>7
    <3>5. QED
      BY <3>3, <3>4
  <2>3. N \in SUBSET Nat
    OBVIOUS
  <2> HIDE DEF N
  <2>4. k \in N
    BY <2>1, <2>2, <2>3, NatInd
  <2>5. Closed(b[k], near) \/ Cardinality(b[k]) >= k + 1
    BY <2>4 DEF N
  <2>6. b[k] \in SUBSET U /\ Cardinality(U) \in Nat
    BY <2>0
  <2>7. QED
    BY <1>6, <2>0, <2>5, <2>6
<1>7. n \in b[k]
  BY <1>1, <1>3
<1>8. QED
  BY <1>3, <1>4, <1>5, <1>6, <1>7

-----------------------------------------------------------------------------
\* Components.

LEMMA LinkedFacts ==
  ASSUME NEW g, NEW n
  PROVE  \A m : m \in Linked(g, n) <=> m # n /\ \E e \in g.edges : n \in {e.from, e.to} /\ m \in {e.from, e.to}
BY DEF Linked

LEMMA LinkedBoth == ASSUME NEW g, NEW n, NEW m \in Linked(g, n) PROVE n \in Linked(g, m)
BY LinkedFacts

LEMMA ComponentFacts ==
  ASSUME NEW g, NetFits(g), NEW n \in DOMAIN g.nodes
  PROVE  /\ n \in Component(g, n) /\ Component(g, n) \subseteq DOMAIN g.nodes
         /\ \A m \in Component(g, n) : Linked(g, m) \subseteq Component(g, n)
         /\ \A c \in SUBSET DOMAIN g.nodes : n \in c /\ (\A m \in c : Linked(g, m) \subseteq c) => Component(g, n) \subseteq c
<1>1. PICK D : D = DOMAIN g.nodes
  OBVIOUS
<1>2. IsFiniteSet(D) /\ Cardinality(D) \in Nat /\ \A e \in g.edges : e.from \in D /\ e.to \in D
  BY <1>1, NetFacts
<1>3. PICK k : k = Cardinality(D)
  OBVIOUS
<1>4. PICK near : near = [m \in D |-> Linked(g, m)]
  OBVIOUS
<1>5. \A m \in D : Linked(g, m) \subseteq D
  BY <1>2, LinkedFacts
<1>6. near \in [D -> SUBSET D]
  BY <1>4, <1>5
<1>7. PICK b \in [0..k -> SUBSET D] : b = Balls(near, n, k) /\ Spread(b, k, n, near)
  BY <1>1, <1>2, <1>3, <1>6, BallsAre
<1>8. Component(g, n) = b[k]
  BY <1>1, <1>3, <1>4, <1>7 DEF Component
<1>9. /\ n \in b[k] /\ Closed(b[k], near) /\ b[k] \in SUBSET D
      /\ \A c \in SUBSET D : n \in c /\ Closed(c, near) => \A i \in 0..k : b[i] \subseteq c
  BY <1>1, <1>2, <1>3, <1>6, <1>7, BallsFacts
<1>10. k \in 0..k
  BY <1>2, <1>3
<1>11. \A c \in SUBSET D : Closed(c, near) <=> \A m \in c : Linked(g, m) \subseteq c
  BY <1>4 DEF Closed
<1>12. QED
  BY <1>1, <1>8, <1>9, <1>10, <1>11

\* Components are apart, and each node is in one.
LEMMA ComponentsApart ==
  ASSUME NEW g, NetFits(g)
  PROVE  /\ UNION Components(g) = DOMAIN g.nodes
         /\ \A c, d \in Components(g) : c = d \/ c \cap d = {}
<1> DEFINE D == DOMAIN g.nodes
<1>1. UNION Components(g) = D
  BY ComponentFacts DEF Components
<1>2. ASSUME NEW m \in D, NEW n \in D, NEW x \in Component(g, m), x \in Component(g, n)
      PROVE  Component(g, m) \subseteq Component(g, n)
  <2>1. PICK c, d : c = Component(g, n) /\ d = D \ c
    OBVIOUS
  <2>2. n \in c /\ c \subseteq D /\ \A y \in c : Linked(g, y) \subseteq c
    BY <2>1, ComponentFacts
  <2>3. \A y \in d : Linked(g, y) \subseteq d
    BY NetFacts, LinkedFacts, LinkedBoth, <2>2, <2>1
  <2>4. m \in c
    BY <2>1, <2>3, ComponentFacts, <1>2
  <2>5. QED
    BY <2>1, <2>2, <2>4, ComponentFacts
<1>3. ASSUME NEW c \in Components(g), NEW d \in Components(g), NEW x \in c \cap d PROVE c = d
  BY <1>2 DEF Components
<1>4. QED
  BY <1>1, <1>3

\* What no edge touches is a component of its own.
LEMMA OrphansAlone ==
  ASSUME NEW g, NetFits(g), NEW n \in OfDegree(g, 0)
  PROVE  Component(g, n) = {n}
<1>1. n \in DOMAIN g.nodes /\ Degree(g, n) = 0
  BY DEF OfDegree
<1>2. PICK a, b : a = LeavingFrom(g, {n}) /\ b = ComingTo(g, {n})
  OBVIOUS
<1>3. Cardinality(a) = 0 /\ Cardinality(b) = 0
  BY <1>1, <1>2, DegreeFacts
<1>4. a = {} /\ b = {}
  BY <1>2, NetFacts, <1>3, FS_EmptySet DEF LeavingFrom, ComingTo
<1>5. Linked(g, n) = {}
  BY <1>2, <1>4, LinkedFacts DEF LeavingFrom, ComingTo
<1>6. PICK c : c = {n}
  OBVIOUS
<1>7. c \in SUBSET DOMAIN g.nodes /\ n \in c /\ \A m \in c : Linked(g, m) \subseteq c
  BY <1>1, <1>5, <1>6
<1>8. n \in Component(g, n) /\ Component(g, n) \subseteq c
  BY <1>1, <1>7, ComponentFacts
<1>9. QED
  BY <1>6, <1>8

\* What has one edge is at its end.
LEMMA LeavesHang ==
  ASSUME NEW g, NetFits(g), NEW n \in OfDegree(g, 1)
  PROVE  Cardinality(Linked(g, n)) = 1
<1>1. n \in DOMAIN g.nodes /\ Degree(g, n) = 1
  BY DEF OfDegree
<1>2. PICK a, b : a = LeavingFrom(g, {n}) /\ b = ComingTo(g, {n})
  OBVIOUS
<1>3. a \in SUBSET g.edges /\ b \in SUBSET g.edges
  BY <1>2 DEF LeavingFrom, ComingTo
<1>4. IsFiniteSet(a) /\ IsFiniteSet(b)
  BY <1>3, NetFacts
<1>5. (Cardinality(a) = 0 /\ Cardinality(b) = 1) \/ (Cardinality(a) = 1 /\ Cardinality(b) = 0)
  BY <1>1, <1>2, DegreeFacts
<1>6. PICK e : a \cup b = {e} /\ (a = {} \/ b = {})
  <2>1. CASE Cardinality(a) = 0 /\ Cardinality(b) = 1
    BY <1>4, <2>1, FS_EmptySet, FS_Singleton
  <2>2. CASE Cardinality(a) = 1 /\ Cardinality(b) = 0
    BY <1>4, <2>2, FS_EmptySet, FS_Singleton
  <2>3. QED
    BY <1>5, <2>1, <2>2
<1>7. e \in g.edges /\ \A f \in g.edges : n \in {f.from, f.to} <=> f = e
  BY <1>2, <1>6 DEF LeavingFrom, ComingTo
<1>8. e.from # e.to
  BY <1>2, <1>6, <1>7 DEF LeavingFrom, ComingTo
<1>9. PICK m : {e.from, e.to} = {n, m} /\ m # n
  BY <1>7, <1>8
<1>10. Linked(g, n) = {m}
  BY <1>7, <1>9, LinkedFacts
<1>11. QED
  BY <1>10, FS_Singleton

\* A pair nobody else is linked to is a small component.
LEMMA PairsSmall ==
  ASSUME NEW g, NetFits(g), NEW m \in DOMAIN g.nodes, NEW n \in DOMAIN g.nodes,
         Linked(g, m) = {n}, Linked(g, n) = {m}
  PROVE  {m, n} \in Small(g)
<1>1. m # n
  BY LinkedFacts
<1>2. PICK c : c = Component(g, m)
  OBVIOUS
<1>3. m \in c /\ n \in c
  BY <1>2, ComponentFacts
<1>4. c \subseteq {m, n}
  <2>1. {m, n} \in SUBSET DOMAIN g.nodes /\ m \in {m, n} /\ \A x \in {m, n} : Linked(g, x) \subseteq {m, n}
    OBVIOUS
  <2>2. QED
    BY <1>2, <2>1, ComponentFacts
<1>5. c = {m, n} /\ c \in Components(g)
  BY <1>2, <1>3, <1>4 DEF Components
<1>6. Cardinality(c) = 2
  <2>1. IsFiniteSet({m}) /\ Cardinality({m}) = 1
    BY FS_Singleton
  <2>2. Cardinality({m} \cup {n}) = 1 + 1
    BY <1>1, <2>1, FS_AddElement
  <2>3. {m} \cup {n} = c
    BY <1>5
  <2>4. QED
    BY <2>2, <2>3
<1>7. QED
  BY <1>5, <1>6 DEF Small

-----------------------------------------------------------------------------
\* How dense a community is.

PairsOf(t) == {p \in SUBSET t : \E a, b \in t : a # b /\ p = {a, b}}
LEMMA PairsFew ==
  ASSUME NEW S, IsFiniteSet(S)
  PROVE  /\ IsFiniteSet(PairsOf(S)) /\ Cardinality(PairsOf(S)) \in Nat /\ Cardinality(S) \in Nat
         /\ 2 * Cardinality(PairsOf(S)) <= Cardinality(S) * (Cardinality(S) - 1)
<1> DEFINE T == {t \in SUBSET S : IsFiniteSet(PairsOf(t)) /\ 2 * Cardinality(PairsOf(t)) <= Cardinality(t) * (Cardinality(t) - 1)}
<1>0. \A t \in SUBSET S : IsFiniteSet(t) /\ Cardinality(t) \in Nat
  BY FS_Subset, FS_CardinalityType
<1>1. {} \in T
  <2>1. PairsOf({}) = {}
    BY DEF PairsOf
  <2>2. IsFiniteSet({}) /\ Cardinality({}) = 0
    BY FS_EmptySet
  <2>3. PICK k : k = Cardinality({})
    OBVIOUS
  <2>4. k = 0 /\ 2 * k <= k * (k - 1)
    BY <2>2, <2>3
  <2>5. QED
    BY <2>1, <2>2, <2>3, <2>4
<1>2. ASSUME NEW t \in T, NEW x \in S \ t PROVE t \cup {x} \in T
  <2>1. PICK u, p, q, r : u = t \cup {x} /\ p = PairsOf(t) /\ q = {{a, x} : a \in t} /\ r = PairsOf(u)
    OBVIOUS
  <2>2. t \in SUBSET S /\ u \in SUBSET S /\ IsFiniteSet(p) /\ 2 * Cardinality(p) <= Cardinality(t) * (Cardinality(t) - 1)
    BY <2>1
  <2>3. r = p \cup q
    <3>1. r \subseteq p \cup q
      <4> SUFFICES ASSUME NEW y \in r PROVE y \in p \cup q
        OBVIOUS
      <4>1. PICK a \in u, b \in u : a # b /\ y = {a, b}
        BY <2>1 DEF PairsOf
      <4>2. CASE a = x
        <5>1. b \in t /\ y = {b, x}
          BY <2>1, <4>1, <4>2
        <5>2. QED
          BY <2>1, <5>1
      <4>3. CASE b = x
        <5>1. a \in t /\ y = {a, x}
          BY <2>1, <4>1, <4>3
        <5>2. QED
          BY <2>1, <5>1
      <4>4. CASE a # x /\ b # x
        <5>1. a \in t /\ b \in t
          BY <2>1, <4>4
        <5>2. y \in PairsOf(t)
          BY <4>1, <5>1 DEF PairsOf
        <5>3. QED
          BY <2>1, <5>2
      <4>5. QED
        BY <4>2, <4>3, <4>4
    <3>2. p \subseteq r
      BY <2>1 DEF PairsOf
    <3>3. q \subseteq r
      <4> SUFFICES ASSUME NEW a \in t PROVE {a, x} \in PairsOf(u)
        BY <2>1
      <4>1. a \in u /\ x \in u /\ a # x
        BY <2>1
      <4>2. QED
        BY <4>1 DEF PairsOf
    <3>4. QED
      BY <3>1, <3>2, <3>3
  <2>4. IsFiniteSet(q) /\ Cardinality(q) <= Cardinality(t)
    <3>1. PICK f : f = [a \in t |-> {a, x}]
      OBVIOUS
    <3>2. f \in [t -> q] /\ \A y \in q : \E a \in t : f[a] = y
      BY <2>1, <3>1
    <3>3. f \in Surjection(t, q)
      BY <3>2 DEF Surjection
    <3>4. QED
      BY <1>0, <3>3, FS_Surjection
  <2>5. PICK k, l, m, n, o : /\ k = Cardinality(t) /\ l = Cardinality(p) /\ m = Cardinality(q)
                             /\ n = Cardinality(r) /\ o = Cardinality(p \cap q)
    OBVIOUS
  <2>6. k \in Nat /\ l \in Nat /\ m \in Nat /\ o \in Nat /\ m <= k /\ 2 * l <= k * (k - 1)
    <3>1. IsFiniteSet(p \cap q)
      BY <2>2, FS_Intersection
    <3>2. QED
      BY <1>0, <2>2, <2>4, <2>5, <3>1, FS_CardinalityType
  <2>7. IsFiniteSet(r) /\ n = l + m - o
    BY <2>2, <2>3, <2>4, <2>5, FS_Union
  <2>8. Cardinality(u) = k + 1
    BY <1>0, <2>1, <2>2, <2>5, FS_AddElement
  <2>9. 2 * n <= (k + 1) * ((k + 1) - 1)
    <3>1. PICK z : z = k * (k - 1)
      OBVIOUS
    <3>2. z \in Int /\ (k + 1) * ((k + 1) - 1) = z + 2 * k
      BY <2>6, <3>1
    <3>3. 2 * l <= z
      BY <2>6, <3>1
    <3>4. 2 * n <= z + 2 * k
      BY <2>6, <2>7, <3>2, <3>3
    <3>5. QED
      BY <3>2, <3>4
  <2>10. QED
    BY <2>1, <2>2, <2>5, <2>7, <2>8, <2>9
<1>3. \A t \in T : t \subseteq S => \A x \in S \ t : t \cup {x} \in T
  BY <1>2
<1> HIDE DEF T
<1>4. S \in T
  BY <1>1, <1>3, SetInd
<1>5. QED
  BY <1>0, <1>4, FS_CardinalityType DEF T

\* No community is denser than complete, unless a note links to itself.
LEMMA NoneDenser ==
  ASSUME NEW g, NetFits(g), {e \in g.edges : e.from = e.to} = {}, NEW c \in Communities(g)
  PROVE  Cohesion(g, c) <= 100
<1>1. c \in SUBSET DOMAIN g.nodes /\ Cardinality(c) >= 2
  BY DEF Communities
<1>2. IsFiniteSet(c)
  BY <1>1, NetFacts, FS_Subset
<1>3. PICK n : n = Cardinality(c)
  OBVIOUS
<1>4. PICK w : w = {{e.from, e.to} : e \in {f \in g.edges : {f.from, f.to} \subseteq c}}
  OBVIOUS
<1>5. w \subseteq PairsOf(c)
  BY <1>4 DEF PairsOf
<1>6. PICK l, m : l = Cardinality(w) /\ m = Cardinality(PairsOf(c))
  OBVIOUS
<1>7. l \in Nat /\ m \in Nat /\ l <= m /\ n \in Nat /\ n >= 2 /\ 2 * m <= n * (n - 1)
  <2>1. IsFiniteSet(PairsOf(c)) /\ m \in Nat /\ n \in Nat /\ 2 * m <= n * (n - 1)
    BY <1>2, <1>3, <1>6, PairsFew
  <2>2. IsFiniteSet(w) /\ l <= m
    BY <1>5, <1>6, <2>1, FS_Subset
  <2>3. l \in Nat
    BY <1>6, <2>2, FS_CardinalityType
  <2>4. QED
    BY <1>1, <1>3, <2>1, <2>2, <2>3
<1>8. Cohesion(g, c) = (100 * l) \div ((n * (n - 1)) \div 2)
  BY <1>7, <1>3, <1>4, <1>6 DEF Cohesion
<1>9. PICK z : z = n * (n - 1)
  OBVIOUS
<1>10. z \in Nat /\ z >= 2 /\ 2 * m <= z
  BY <1>7, <1>9
<1>11. PICK d : d = z \div 2
  OBVIOUS
<1>12. d \in Nat /\ d >= 1 /\ m <= d
  BY <1>7, <1>10, <1>11
<1>13. (100 * l) \div d <= 100
  BY <1>7, <1>12
<1>14. QED
  BY <1>8, <1>9, <1>11, <1>13

-----------------------------------------------------------------------------
\* Who is central, and who is a hub.

Arcs(g) == {<<e.from, e.to>> : e \in g.edges}
OutOf(g, n) == Cardinality({a \in Arcs(g) : a[1] = n})
Preds(g, n) == {m \in DOMAIN g.nodes : <<m, n>> \in Arcs(g)}
Share(g, w, n) == [m \in Preds(g, n) |-> (85 * w[m]) \div (100 * OutOf(g, m))]
Next1(g, w) == [n \in DOMAIN g.nodes |->
                  (15 * Mass) \div (100 * Cardinality(DOMAIN g.nodes)) + SumFunction(Share(g, w, n))]

\* Arcs are finitely many; whoever is a predecessor has one.
LEMMA OutFacts ==
  ASSUME NEW g, NetFits(g), NEW n
  PROVE  \A m \in Preds(g, n) : OutOf(g, m) \in Nat /\ OutOf(g, m) > 0
<1> SUFFICES ASSUME NEW m \in Preds(g, n) PROVE OutOf(g, m) \in Nat /\ OutOf(g, m) > 0
  OBVIOUS
<1>1. PICK s : s = {a \in Arcs(g) : a[1] = m}
  OBVIOUS
<1>2. <<m, n>> \in s
  BY <1>1 DEF Preds
<1>3. IsFiniteSet(s)
  <2>1. IsFiniteSet(Names \X Names)
    BY InsightAssumption, FS_Product
  <2>2. Arcs(g) \in SUBSET (Names \X Names)
    BY NetFacts DEF Arcs, Edges
  <2>3. s \in SUBSET (Names \X Names)
    BY <1>1, <2>2
  <2>4. QED
    BY <2>1, <2>3, FS_Subset
<1>4. PICK k : k = Cardinality(s)
  OBVIOUS
<1>5. k \in Nat /\ k # 0
  BY <1>2, <1>3, <1>4, FS_CardinalityType, FS_EmptySet
<1>6. OutOf(g, m) = k
  BY <1>1, <1>4 DEF OutOf
<1>7. QED
  BY <1>5, <1>6

\* What one gives to each that it links to.
LEMMA ShareFacts ==
  ASSUME NEW g, NetFits(g), NEW w \in [DOMAIN g.nodes -> Nat], NEW n
  PROVE  Share(g, w, n) \in [Preds(g, n) -> Nat] /\ IsFiniteSet(Preds(g, n)) /\ SumFunction(Share(g, w, n)) \in Nat
<1>1. \A m \in Preds(g, n) : (85 * w[m]) \div (100 * OutOf(g, m)) \in Nat
  BY OutFacts DEF Preds
<1>2. PICK f : f = Share(g, w, n)
  OBVIOUS
<1>3. f \in [Preds(g, n) -> Nat]
  BY <1>1, <1>2 DEF Share
<1>4. PICK P : P = Preds(g, n)
  OBVIOUS
<1>5. IsFiniteSet(P)
  BY <1>4, NetFacts, FS_Subset DEF Preds
<1>6. P \in SUBSET P /\ f \in [P -> Nat] /\ \A m \in P : f[m] <= f[m]
  BY <1>3, <1>4
<1>7. SumFunction(f) \in Nat
  BY <1>5, <1>6, SumGrows
<1>8. QED
  BY <1>2, <1>3, <1>4, <1>5, <1>7

\* The ranks after some rounds.
LEMMA RankIs ==
  ASSUME NEW g, NetFits(g), DOMAIN g.nodes # {}
  PROVE  \E w \in [DOMAIN g.nodes -> Nat] : PageRank(g) = Next1(g, w) /\ PageRank(g) \in [DOMAIN g.nodes -> Nat]
<1> DEFINE D == DOMAIN g.nodes
           W == [D -> Nat]
           Then(w) == Next1(g, w)
           first == [n \in D |-> Mass \div Cardinality(D)]
           step == [i \in 1..Rounds |-> [w \in W |-> Then(w)]]
           Body(f) == [r \in 0..Rounds |-> IF r = 0 THEN first ELSE Then(f[r - 1])]
           v == CHOOSE f : f = Body(f)
<1>0. PICK k : k = Cardinality(D)
  OBVIOUS
<1>1. k \in Nat /\ k > 0
  BY <1>0, NetFacts, FS_EmptySet
<1>2. first \in W
  BY <1>1, <1>0 DEF Mass
<1>3. \A w \in W : Then(w) \in W
  BY <1>1, ShareFacts, <1>0 DEF Mass, Next1
<1> HIDE DEF first, W, Then
<1>4. step \in [1..Rounds -> [W -> W]] /\ Rounds \in Nat
  BY <1>3 DEF Rounds
<1>5. PICK f : f \in [0..Rounds -> W] /\ f[0] = first /\ \A i \in 1..Rounds : f[i] = step[i][f[i - 1]]
  <2> HIDE DEF step
  <2>1. \E f : Recurs(f, Rounds, W, first, step)
    BY <1>2, <1>4, RecursFacts
  <2>2. QED
    BY <2>1 DEF Recurs
<1>6. \A i \in 1..Rounds : i - 1 \in 0..Rounds /\ f[i - 1] \in W /\ f[i] = Then(f[i - 1])
  <2>1. \A i \in 1..Rounds, w \in W : step[i][w] = Then(w)
    OBVIOUS
  <2>2. \A i \in 1..Rounds : i - 1 \in 0..Rounds
    BY <1>4
  <2> HIDE DEF step
  <2>3. QED
    BY <1>5, <2>1, <2>2
<1>7. f = Body(f)
  BY <1>5, <1>4, <1>6
<1>8. v = Body(v)
  BY <1>7
<1>9. \A i \in 0..Rounds : v[i] = f[i]
  <2> HIDE DEF v
  <2>1. \A i \in 0..Rounds : v[i] = IF i = 0 THEN first ELSE Then(v[i - 1])
    BY <1>8
  <2>2. \A i \in 1..Rounds : i \in 0..Rounds /\ i # 0
    BY <1>4
  <2>3. v[0] = f[0] /\ \A i \in 1..Rounds : v[i - 1] = f[i - 1] => v[i] = f[i]
    BY <1>4, <1>5, <1>6, <2>1, <2>2
  <2>4. QED
    BY <1>4, <2>3, AlikeByStep
<1>10. PageRank(g) = v[Rounds]
  BY DEF PageRank, Then, Next1, Share, Preds, Arcs, OutOf, first
<1>11. PageRank(g) = f[Rounds] /\ 4 \in 1..Rounds /\ Rounds = 4 /\ 4 \in 0..Rounds
  BY <1>9, <1>10 DEF Rounds
<1>12. f[Rounds - 1] \in W /\ f[Rounds] = Then(f[Rounds - 1]) /\ f[Rounds] \in W
  BY <1>3, <1>6, <1>11
<1>13. QED
  BY <1>11, <1>12 DEF W, Then

\* What is first by score.
LEMMA RankedFacts ==
  ASSUME NEW S, IsFiniteSet(S), NEW score, NEW r \in Rankings(S, score), NEW k \in Nat
  PROVE  /\ FirstOnes(r, k) \in Seq(S) /\ IsInjective(FirstOnes(r, k)) /\ Len(FirstOnes(r, k)) <= k
         /\ DOMAIN FirstOnes(r, k) = 1..Len(FirstOnes(r, k)) /\ ToSet(FirstOnes(r, k)) \subseteq S
         /\ \A m \in ToSet(FirstOnes(r, k)), n \in S \ ToSet(FirstOnes(r, k)) : score[m] >= score[n]
         /\ \A i \in DOMAIN FirstOnes(r, k) : \A n \in S \ ToSet(SubSeq(FirstOnes(r, k), 1, i)) : score[FirstOnes(r, k)[i]] >= score[n]
<1>1. /\ r \in Seq(S) /\ Len(r) \in Nat /\ DOMAIN r = 1..Len(r) /\ IsInjective(r) /\ ToSet(r) = S
      /\ \A i, j \in 1..Len(r) : i < j => score[r[i]] >= score[r[j]]
  BY SeqsFacts DEF Rankings
<1>2. PICK u : u = FirstOnes(r, k)
  OBVIOUS
<1>3. /\ u \in Seq(S) /\ Len(u) <= Len(r) /\ Len(u) <= k /\ IsInjective(u)
      /\ ToSet(u) \subseteq S /\ \A i \in 1..Len(u) : i \in 1..Len(r) /\ u[i] = r[i]
  BY <1>1, <1>2, FirstFacts
<1>4. Len(u) \in Nat /\ DOMAIN u = 1..Len(u)
  BY <1>3
<1>5. ASSUME NEW i \in 1..Len(u), NEW n \in S \ ToSet(SubSeq(u, 1, i)) PROVE score[u[i]] >= score[n]
  <2>1. PICK j \in 1..Len(r) : r[j] = n
    BY <1>1 DEF ToSet
  <2>2. i < j
    <3> SUFFICES ASSUME j <= i PROVE FALSE
      BY <1>1, <1>4
    <3>1. PICK v : v = SubSeq(u, 1, i)
      OBVIOUS
    <3>2. DOMAIN v = 1..i /\ \A x \in 1..i : v[x] = u[x]
      BY <1>3, <1>4, <3>1
    <3>3. j \in 1..i /\ j \in 1..Len(u)
      BY <1>4
    <3>4. v[j] = n
      BY <1>3, <2>1, <3>2, <3>3
    <3>5. n \in ToSet(v)
      BY <3>2, <3>3, <3>4 DEF ToSet
    <3>6. QED
      BY <3>1, <3>5
  <2>3. i \in 1..Len(r) /\ u[i] = r[i]
    BY <1>3
  <2>4. QED
    BY <1>1, <2>1, <2>2, <2>3
<1>6. ASSUME NEW m \in ToSet(u), NEW n \in S \ ToSet(u) PROVE score[m] >= score[n]
  BY <1>4, <1>3, <1>5 DEF ToSet
<1>7. QED
  BY <1>2, <1>3, <1>4, <1>5, <1>6

\* Whoever has all the predecessors of one has as high a rank.
LEMMA RankGrows ==
  ASSUME NEW g, NetFits(g), NEW m \in DOMAIN g.nodes, NEW n \in DOMAIN g.nodes, Preds(g, m) \subseteq Preds(g, n)
  PROVE  PageRank(g)[m] \in Nat /\ PageRank(g)[n] \in Nat /\ PageRank(g)[m] <= PageRank(g)[n]
<1>1. DOMAIN g.nodes # {}
  OBVIOUS
<1>2. PICK w \in [DOMAIN g.nodes -> Nat] : PageRank(g) = Next1(g, w) /\ PageRank(g) \in [DOMAIN g.nodes -> Nat]
  BY <1>1, RankIs
<1>3. PICK P, Q : P = Preds(g, m) /\ Q = Preds(g, n)
  OBVIOUS
<1>4. PICK f, h : f = Share(g, w, m) /\ h = Share(g, w, n)
  OBVIOUS
<1>5. f \in [P -> Nat] /\ h \in [Q -> Nat] /\ IsFiniteSet(Q)
  BY <1>3, <1>4, ShareFacts
<1>6. P \in SUBSET Q
  BY <1>3
<1>7. \A x \in P : f[x] = h[x]
  BY <1>3, <1>4, <1>6 DEF Share
<1>8. \A x \in P : f[x] <= h[x]
  BY <1>5, <1>7
<1>9. SumFunction(f) \in Nat /\ SumFunction(h) \in Nat /\ SumFunction(f) <= SumFunction(h)
  BY <1>5, <1>6, <1>8, SumGrows
<1>10. PICK c : c = (15 * Mass) \div (100 * Cardinality(DOMAIN g.nodes))
  OBVIOUS
<1>11. PICK s, t : s = SumFunction(f) /\ t = SumFunction(h)
  OBVIOUS
<1>12. c \in Int
  BY <1>1, NetFacts, FS_EmptySet, <1>10 DEF Mass
<1>13. PageRank(g)[m] = c + s /\ PageRank(g)[n] = c + t
  BY <1>2, <1>4, <1>10, <1>11 DEF Next1
<1>14. PageRank(g)[m] \in Nat /\ PageRank(g)[n] \in Nat
  BY <1>2
<1>15. c + s <= c + t
  BY <1>9, <1>11, <1>12
<1>16. QED
  BY <1>13, <1>14, <1>15

LEMMA AnalyticsAreRight == KeptInv => AnalyticsRight
<1> SUFFICES ASSUME KeptInv, DOMAIN view.nodes # {}
             PROVE  AnalyticsRight
  BY DEF AnalyticsRight
<1> DEFINE nodes == DOMAIN view.nodes
           preds(n) == {e.from : e \in {f \in view.edges : f.to = n}}
<1>1. NetFits(view)
  BY DEF KeptInv, BaseInv
<1>2. SumFunction([n \in nodes |-> Degree(view, n)]) = 2 * Cardinality(view.edges)
  BY <1>1, Handshake
<1>3. \A n \in OfDegree(view, 0) : Component(view, n) = {n}
  BY <1>1, OrphansAlone
<1>4. \A n \in OfDegree(view, 1) : Cardinality(Linked(view, n)) = 1
  BY <1>1, LeavesHang
<1>5. UNION Components(view) = nodes /\ \A c, d \in Components(view) : c = d \/ c \cap d = {}
  BY <1>1, ComponentsApart
<1>6. \A m, n \in nodes : Linked(view, m) = {n} /\ Linked(view, n) = {m} => {m, n} \in Small(view)
  BY <1>1, PairsSmall
<1>7. {e \in view.edges : e.from = e.to} = {} => \A c \in Communities(view) : Cohesion(view, c) <= 100
  BY <1>1, NoneDenser
<1>8. IsFiniteSet(nodes)
  BY <1>1, NetFacts
<1>9. ASSUME NEW central \in Centrality(view, 2), NEW m \in ToSet(central), NEW n \in nodes \ ToSet(central),
             preds(m) \subseteq preds(n)
      PROVE  PageRank(view)[m] = PageRank(view)[n]
  <2>1. PICK r \in Rankings(nodes, PageRank(view)) : central = FirstOnes(r, 2)
    BY DEF Centrality
  <2>2. m \in nodes /\ PageRank(view)[m] >= PageRank(view)[n]
    BY <2>1, <1>8, RankedFacts
  <2>3. \A x \in nodes : Preds(view, x) = preds(x)
    BY <1>1, NetFacts DEF Preds, Arcs
  <2>4. Preds(view, m) \subseteq Preds(view, n)
    BY <1>9, <2>2, <2>3
  <2>5. PageRank(view)[m] \in Nat /\ PageRank(view)[n] \in Nat /\ PageRank(view)[m] <= PageRank(view)[n]
    BY <1>1, <2>2, <2>4, RankGrows
  <2>6. QED
    BY <2>2, <2>5
<1>10. ASSUME NEW hubs \in GodNodes(view, 2, 2), NEW i \in DOMAIN hubs, NEW n \in nodes,
              Degree(view, n) > Degree(view, hubs[i])
       PROVE  n \in ToSet(SubSeq(hubs, 1, i))
  <2>1. PICK S, score : S = {x \in nodes : Degree(view, x) >= 2} /\ score = [x \in nodes |-> Degree(view, x)]
    OBVIOUS
  <2>2. PICK r \in Rankings(S, score) : hubs = FirstOnes(r, 2)
    BY <2>1 DEF GodNodes
  <2>3. IsFiniteSet(S)
    BY <1>8, <2>1, FS_Subset
  <2>4. /\ ToSet(hubs) \subseteq S
        /\ \A j \in DOMAIN hubs : \A x \in S \ ToSet(SubSeq(hubs, 1, j)) : score[hubs[j]] >= score[x]
    BY <2>2, <2>3, RankedFacts
  <2>5. PICK h : h = hubs[i]
    OBVIOUS
  <2>6. h \in S
    BY <2>4, <2>5 DEF ToSet
  <2>7. PICK a, b : a = Degree(view, n) /\ b = Degree(view, h)
    OBVIOUS
  <2>8. a \in Nat /\ b \in Nat /\ a > b /\ b >= 2
    BY <1>1, <1>10, <2>1, <2>5, <2>6, <2>7, DegreeFacts
  <2>9. n \in S /\ score[n] = a /\ score[h] = b
    BY <2>8, <2>1, <2>6, <2>7
  <2>10. ~(score[h] >= score[n])
    BY <2>8, <2>9
  <2>11. QED
    BY <2>4, <2>5, <2>9, <2>10
<1>11. QED
  BY <1>2, <1>3, <1>4, <1>5, <1>6, <1>7, <1>9, <1>10 DEF AnalyticsRight

-----------------------------------------------------------------------------
\* Distances.

LEMMA MinIs ==
  ASSUME NEW S \in SUBSET Nat, NEW x \in S
  PROVE  Min(S) \in S /\ \A y \in S : Min(S) <= y
<1> DEFINE N == {n \in Nat : (\E z \in S : z <= n) => \E z \in S : \A y \in S : z <= y}
<1>1. 0 \in N
  OBVIOUS
<1>2. ASSUME NEW n \in N PROVE n + 1 \in N
  OBVIOUS
<1>3. N \in SUBSET Nat
  OBVIOUS
<1> HIDE DEF N
<1>4. N = Nat
  BY <1>1, <1>2, <1>3, NatInd
<1>5. x \in Nat /\ x <= x /\ x \in N
  BY <1>4
<1>6. \E z \in S : \A y \in S : z <= y
  BY <1>5 DEF N
<1>7. QED
  BY <1>6 DEF Min

\* Distances from m: none but its own is 0, a step adds at most one, and all were come to
\* from one that is one nearer.
DistanceLaws(d, g, m) ==
  /\ m \in DOMAIN d /\ DOMAIN d \subseteq Names /\ \A x \in DOMAIN d : d[x] \in Nat /\ (d[x] = 0 <=> x = m)
  /\ \A x \in DOMAIN d : \A y \in Linked(g, x) : y \in DOMAIN d /\ d[y] <= d[x] + 1
  /\ \A x \in DOMAIN d : \A j \in Nat : d[x] = j + 1 => \E y \in DOMAIN d : d[y] = j /\ x \in Linked(g, y)
LEMMA DistanceHolds ==
  ASSUME NEW g, Whole(g), NEW m \in Names
  PROVE  DistanceLaws(Distance(g, m), g, m)
<1>1. PICK k : k = Cardinality(Names)
  OBVIOUS
<1>2. k \in Nat /\ IsFiniteSet(Names)
  BY <1>1, InsightAssumption, FS_CardinalityType
<1>3. PICK near : near = [n \in Names |-> Linked(g, n)]
  OBVIOUS
<1>4. \A n \in Names : Linked(g, n) \in SUBSET Names
  BY LinkedFacts DEF Whole, Rows, Edges
<1>5. near \in [Names -> SUBSET Names]
  BY <1>3, <1>4
<1>6. PICK b \in [0..k -> SUBSET Names] : b = Balls(near, m, k) /\ Spread(b, k, m, near)
  BY <1>2, <1>5, BallsAre
<1>7. /\ m \in b[k] /\ \A i, j \in 0..k : i <= j => b[i] \subseteq b[j]
      /\ Closed(b[k], near)
  BY <1>1, <1>2, <1>5, <1>6, BallsFacts
<1>8. PICK d : d = Distance(g, m)
  OBVIOUS
<1>9. d = [n \in b[k] |-> Min({i \in 0..k : n \in b[i]})]
  BY <1>1, <1>3, <1>6, <1>8 DEF Distance
<1>10. k \in 0..k /\ 0 \in 0..k /\ b[0] = {m} /\ \A i \in 1..k : i - 1 \in 0..k /\ b[i] = b[i - 1] \cup UNION {near[n] : n \in b[i - 1]}
  BY <1>2, <1>6 DEF Spread
<1>11. DOMAIN d = b[k] /\ b[k] \subseteq Names
  BY <1>6, <1>9, <1>10
<1>12. ASSUME NEW x \in b[k]
       PROVE  d[x] \in 0..k /\ \A i \in 0..k : d[x] <= i <=> x \in b[i]
  BY <1>2, <1>10, MinIs, <1>9, <1>7
<1>13. \A x \in DOMAIN d : d[x] \in Nat /\ (d[x] = 0 <=> x = m)
  BY <1>11, <1>10, <1>12
<1>14. ASSUME NEW x \in DOMAIN d, NEW y \in Linked(g, x)
       PROVE  y \in DOMAIN d /\ d[y] <= d[x] + 1
  <2>1. x \in b[k] /\ x \in Names /\ y \in near[x]
    BY <1>3, <1>11
  <2>2. y \in b[k]
    BY <1>7, <2>1 DEF Closed
  <2>3. PICK i, j : i = d[x] /\ j = d[y]
    OBVIOUS
  <2>4. i \in 0..k /\ j \in 0..k /\ x \in b[i] /\ \A l \in 0..k : j <= l <=> y \in b[l]
    BY <1>12, <2>1, <2>2, <2>3
  <2>5. CASE i = k
    BY <1>2, <1>11, <2>2, <2>3, <2>4, <2>5
  <2>6. CASE i # k
    <3>1. i + 1 \in 1..k /\ (i + 1) - 1 = i /\ i + 1 \in 0..k
      BY <1>2, <2>4, <2>6
    <3>2. b[i + 1] = b[i] \cup UNION {near[n] : n \in b[i]}
      BY <1>10, <3>1
    <3>3. y \in b[i + 1]
      BY <2>1, <2>4, <3>2
    <3>4. j <= i + 1
      BY <2>4, <3>1, <3>3
    <3>5. QED
      BY <1>11, <2>2, <2>3, <3>4
  <2>7. QED
    BY <2>5, <2>6
<1>15. ASSUME NEW x \in DOMAIN d, NEW j \in Nat, d[x] = j + 1
       PROVE  \E y \in DOMAIN d : d[y] = j /\ x \in Linked(g, y)
  <2>1. x \in b[k] /\ j + 1 \in 0..k /\ \A i \in 0..k : j + 1 <= i <=> x \in b[i]
    BY <1>11, <1>12, <1>15
  <2>2. j + 1 \in 1..k /\ (j + 1) - 1 = j /\ j \in 0..k /\ ~(j + 1 <= j)
    BY <1>2, <2>1
  <2>3. x \in b[j + 1] /\ x \notin b[j]
    BY <2>1, <2>2
  <2>4. b[j + 1] = b[j] \cup UNION {near[n] : n \in b[j]}
    BY <1>10, <2>2
  <2>5. PICK y \in b[j] : x \in near[y]
    BY <2>3, <2>4
  <2>6. y \in b[k] /\ y \in Names
    BY <1>2, <1>7, <1>10, <2>2, <1>11
  <2>7. x \in Linked(g, y)
    BY <1>3, <2>5, <2>6
  <2>8. d[y] \in 0..k /\ d[y] <= j
    BY <1>12, <2>2, <2>5, <2>6
  <2>9. d[x] <= d[y] + 1
    BY <1>11, <1>14, <2>6, <2>7
  <2>10. d[y] = j
    BY <1>15, <2>8, <2>9
  <2>11. QED
    BY <1>11, <2>6, <2>7, <2>10
<1>16. QED
  BY <1>7, <1>8, <1>11, <1>13, <1>14, <1>15 DEF DistanceLaws

\* All distances up to the longest occur.
LEMMA DistancesAll ==
  ASSUME NEW d, NEW g, NEW m, DistanceLaws(d, g, m), NEW x \in DOMAIN d, NEW j \in Nat, j <= d[x]
  PROVE  \E y \in DOMAIN d : d[y] = j
<1> DEFINE N == {n \in Nat : n <= d[x] => \E y \in DOMAIN d : d[y] = d[x] - n}
<1>1. d[x] \in Nat
  BY DEF DistanceLaws
<1>2. 0 \in N
  BY <1>1
<1>3. ASSUME NEW n \in N PROVE n + 1 \in N
  BY <1>1 DEF DistanceLaws
<1>4. N \in SUBSET Nat
  OBVIOUS
<1> HIDE DEF N
<1>5. N = Nat
  BY <1>2, <1>3, <1>4, NatInd
<1>6. PICK n : n = d[x] - j
  OBVIOUS
<1>7. n \in Nat /\ n <= d[x] /\ d[x] - n = j
  BY <1>1, <1>6
<1>8. n \in N
  BY <1>5, <1>7
<1>9. QED
  BY <1>7, <1>8 DEF N

\* What can be reached from an entity are entities.
LEMMA ReachThere ==
  ASSUME NEW g, Whole(g), NEW m \in DOMAIN g.ents
  PROVE  DOMAIN Distance(g, m) \subseteq DOMAIN g.ents
<1>1. DOMAIN g.ents \subseteq Names /\ \A e \in g.edges : e.from \in DOMAIN g.ents /\ e.to \in DOMAIN g.ents
  BY RowsFacts DEF Whole
<1>2. m \in Names
  BY <1>1
<1>3. PICK d : d = Distance(g, m)
  OBVIOUS
<1>4. DistanceLaws(d, g, m)
  BY <1>2, <1>3, DistanceHolds
<1> DEFINE N == {n \in Nat : \A x \in DOMAIN d : d[x] = n => x \in DOMAIN g.ents}
<1>5. 0 \in N
  BY <1>4 DEF DistanceLaws
<1>6. ASSUME NEW n \in N PROVE n + 1 \in N
  BY <1>4, <1>1, LinkedFacts DEF DistanceLaws
<1>7. N \in SUBSET Nat
  OBVIOUS
<1> HIDE DEF N
<1>8. N = Nat
  BY <1>5, <1>6, <1>7, NatInd
<1>9. \A x \in DOMAIN d : d[x] \in N
  BY <1>4, <1>8 DEF DistanceLaws
<1>10. \A x \in DOMAIN d : x \in DOMAIN g.ents
  BY <1>9 DEF N
<1>11. QED
  BY <1>3, <1>10

-----------------------------------------------------------------------------
\* Scores.

LEMMA MaxOf ==
  ASSUME NEW S \in SUBSET (0..1000), S # {}
  PROVE  Max(S) \in S /\ \A y \in S : y <= Max(S)
<1>1. IsFiniteSet(S)
  <2>1. PICK a, b : a = 0 /\ b = 1000
    OBVIOUS
  <2>2. PICK I : I = a..b
    OBVIOUS
  <2>3. a \in Int /\ b \in Int
    BY <2>1
  <2>6. IsFiniteSet(a..b)
    BY <2>3, FS_Interval
  <2>4. S \in SUBSET I
    BY <2>1, <2>2
  <2>5. QED
    BY <2>2, <2>4, <2>6, FS_Subset, ZenonT(30)
<1>2. PICK f : f = [x \in S |-> x]
  BY ZenonT(30)
<1>3. \A x \in S : f[x] = x /\ f[x] \in Int
  BY <1>2
<1>4. PICK x \in S : \A y \in S : f[y] <= f[x]
  BY <1>1, <1>3, Highest, ZenonT(30)
<1>5. \A y \in S : x >= y
  BY <1>3, <1>4
<1>6. Max(S) \in S /\ \A y \in S : Max(S) >= y
  BY <1>5, ZenonT(30) DEF Max
<1>7. ASSUME NEW y \in S PROVE y <= Max(S)
  BY <1>6
<1>8. QED
  BY <1>6, <1>7

LEMMA MaxIs ==
  ASSUME NEW S \in SUBSET (0..1000), NEW x \in S, \A y \in S : y <= x
  PROVE  Max(S) = x
<1>1. PICK a : a = Max(S)
  OBVIOUS
<1>2. a \in S /\ \A y \in S : y <= a
  BY <1>1, MaxOf
<1>3. a <= x /\ x <= a /\ a \in Int /\ x \in Int
  BY <1>2
<1>4. QED
  BY <1>1, <1>3

Scores == Partial(Paths, 0..1000)
Marks == SUBSET (Paths \X (0..1000))
LEMMA ScoredFacts ==
  ASSUME NEW s \in Scores, NEW adds \in Marks, NEW r, r = Scored(s, adds)
  PROVE  /\ r \in Scores /\ DOMAIN r = DOMAIN s \cup {a[1] : a \in adds}
         /\ \A p \in DOMAIN r : (p \in DOMAIN s /\ r[p] = s[p]) \/ \E a \in adds : a[1] = p /\ a[2] = r[p]
         /\ \A a \in adds : a[2] <= r[a[1]]
         /\ \A p \in DOMAIN s : s[p] <= r[p]
<1> DEFINE M(p) == {a[2] : a \in {b \in adds : b[1] = p}} \cup (IF p \in DOMAIN s THEN {s[p]} ELSE {})
           D == DOMAIN s \cup {a[1] : a \in adds}
<1>2. DOMAIN s \subseteq Paths /\ \A p \in DOMAIN s : s[p] \in 0..1000
  BY PartialFacts DEF Scores
<1>3. r = [p \in D |-> Max(M(p))]
  BY DEF Scored
<1>4. \A p \in D : M(p) \in SUBSET (0..1000) /\ M(p) # {}
  <2> TAKE p \in D
  <2>1. \A a \in adds : a[2] \in 0..1000
    BY DEF Marks
  <2>2. M(p) \in SUBSET (0..1000)
    BY <1>2, <2>1
  <2>3. p \in DOMAIN s => s[p] \in M(p)
    OBVIOUS
  <2>4. \A a \in adds : a[1] = p => a[2] \in M(p)
    OBVIOUS
  <2>5. p \in DOMAIN s \/ \E a \in adds : a[1] = p
    OBVIOUS
  <2> HIDE DEF M
  <2>6. PICK S : S = M(p)
    OBVIOUS
  <2>7. S \in SUBSET (0..1000)
    BY <2>2, <2>6
  <2>8. \E v : v \in S
    BY <2>3, <2>4, <2>5, <2>6
  <2>9. QED
    BY <2>6, <2>7, <2>8
<1>5. \A p, v : v \in M(p) <=> (\E a \in adds : a[1] = p /\ a[2] = v) \/ (p \in DOMAIN s /\ s[p] = v)
  OBVIOUS
<1> HIDE DEF M
<1>6. \A p \in D : r[p] \in M(p) /\ r[p] \in 0..1000 /\ \A v \in M(p) : v <= r[p]
  <2> TAKE p \in D
  <2>1. PICK S : S = M(p)
    OBVIOUS
  <2>2. S \in SUBSET (0..1000) /\ S # {}
    BY <1>4, <2>1
  <2>3. Max(S) \in S /\ \A v \in S : v <= Max(S)
    BY <2>2, MaxOf
  <2>4. r[p] = Max(S)
    BY <1>3, <2>1
  <2>5. QED
    BY <2>1, <2>2, <2>3, <2>4
<1>7. D \subseteq Paths
  BY <1>2 DEF Marks
<1>8. DOMAIN r = D /\ r \in Scores
  <2>1. DOMAIN r = D
    BY <1>3
  <2>2. r \in [D -> 0..1000]
    <3> HIDE DEF D
    <3>1. r = [p \in D |-> r[p]]
      BY <1>3
    <3>2. QED
      BY <1>6, <3>1
  <2>3. D \in SUBSET Paths
    BY <1>7
  <2> HIDE DEF D
  <2>4. QED
    BY <2>1, <2>2, <2>3 DEF Scores, Partial
<1>9. \A p \in DOMAIN r : (p \in DOMAIN s /\ r[p] = s[p]) \/ \E a \in adds : a[1] = p /\ a[2] = r[p]
  BY <1>5, <1>6, <1>8
<1>10. \A a \in adds : a[2] <= r[a[1]]
  BY <1>5, <1>6
<1>11. \A p \in DOMAIN s : s[p] <= r[p]
  BY <1>5, <1>6
<1>12. QED
  BY <1>8, <1>9, <1>10, <1>11

-----------------------------------------------------------------------------
\* The context of a topic.

\* Types, whatever the graph did.
TopicStages == {"none", "match", "near", "hops", "rank", "read", "done"}
Visits == [of: Names, depth: Nat \ {0}, src: Paths]
TopicSet == [at: TopicStages, terms: Seq(Terms), matched: Seq(HeldSet), rest: Seq(HeldSet),
             frontier: SUBSET Names, next: SUBSET Names, depth: Nat, found: SUBSET Visits,
             scores: Scores, lines: Nat, left: Seq(Paths), total: Nat, given: Seq(Paths),
             want: SUBSET Topics]
TopicTyped(t) ==
  /\ t \in TopicSet
  /\ t.at # "none" => \E w \in Topics : t.want = {w}
  /\ t.at \in {"near", "hops"} => t.rest # <<>>
  /\ t.at \in {"match", "rank", "read"} => t.rest = <<>>
  /\ t.at = "match" => DOMAIN t.scores = {}
  /\ ToSet(t.rest) \subseteq ToSet(t.matched)
  /\ t.at = "hops" => /\ t.depth # 0
                      /\ \A w \in t.want : t.depth <= w.hops + 1 /\ (t.depth = w.hops + 1 => t.next = {})
  /\ t.at \notin {"read", "done"} => t.given = <<>>
  /\ IsInjective(t.given \o t.left)
  /\ t.given # <<>> => \A w \in t.want : t.total <= w.chars

\* While nothing changed: what was matched is there;
Known(t, g) == \A h \in ToSet(t.matched) : h.of \in DOMAIN g.ents /\ g.ents[h.of].src = h.src

\* what a traversal found is at its distance, and nothing nearer was left out, nor anything
\* below what it has left of its level;
Traversed(t, g, d) ==
  /\ \A f \in t.found : f.of \in DOMAIN d /\ d[f.of] = f.depth /\ f.src = g.ents[f.of].src
  /\ \A x \in DOMAIN d : d[x] # 0 /\ d[x] < t.depth => \E f \in t.found : f.of = x
  /\ t.next \subseteq {f.of : f \in t.found}
  /\ \A f \in t.found : f.depth < t.depth \/ f.of \in t.next
  /\ \A x \in t.frontier : x \in DOMAIN d /\ d[x] + 1 = t.depth
  /\ \A x \in t.next : x \in DOMAIN d /\ d[x] = t.depth
  /\ \A x \in DOMAIN d \ t.frontier : d[x] + 1 = t.depth =>
       \A y \in Linked(g, x) : d[y] = t.depth => y \in t.next

\* every score is that of something within reach of a match, at least what all within reach
\* of those gone through are worth;
Worth(d) == IF d = 0 THEN 1000 ELSE 50 \div d
Within(g, w, m, x) == x \in DOMAIN Distance(g, m) /\ Distance(g, m)[x] <= w.hops
Backed(t, g, w) ==
  \A p \in DOMAIN t.scores : \E h \in ToSet(t.matched) : \E x \in DOMAIN g.ents :
    Within(g, w, h.of, x) /\ g.ents[x].src = p /\ t.scores[p] <= Worth(Distance(g, h.of)[x])
Covered(t, g, w) ==
  \A h \in ToSet(t.matched) \ ToSet(t.rest) : \A x \in DOMAIN g.ents :
    Within(g, w, h.of, x) =>
      g.ents[x].src \in DOMAIN t.scores /\ Worth(Distance(g, h.of)[x]) <= t.scores[g.ents[x].src]

\* and what is left to read comes before everything else that is there.
BestFirst(t, disk) ==
  /\ ToSet(t.left) \subseteq DOMAIN t.scores
  /\ \A p \in ToSet(t.left), q \in (DOMAIN t.scores \cap disk) \ (ToSet(t.left) \cup ToSet(t.given)) :
       t.scores[p] >= t.scores[q]

Scoring == {"near", "hops", "rank", "read"}
TopicStill(t, g, disk) ==
  /\ Known(t, g)
  /\ t.at = "hops" => Traversed(t, g, Distance(g, Head(t.rest).of))
  /\ t.at \in Scoring => \A w \in t.want : w.hops > 0 => Backed(t, g, w) /\ Covered(t, g, w)
  /\ t.at = "read" => BestFirst(t, disk)
TopicInv == TopicTyped(topic) /\ (~stirred["topic"] => TopicStill(topic, graph, onDisk))

-----------------------------------------------------------------------------
\* Lists without their head.
LEMMA HeadTail ==
  ASSUME NEW S, NEW s \in Seq(S), s # <<>>
  PROVE  /\ Head(s) \in S /\ Tail(s) \in Seq(S) /\ Head(s) \in ToSet(s)
         /\ ToSet(s) = {Head(s)} \cup ToSet(Tail(s))
         /\ IsInjective(s) => IsInjective(Tail(s)) /\ Head(s) \notin ToSet(Tail(s))
<1>1. PICK n, t : n = Len(s) /\ t = Tail(s)
  OBVIOUS
<1>2. n \in Nat /\ n # 0 /\ DOMAIN s = 1..n /\ Head(s) = s[1] /\ \A i \in 1..n : s[i] \in S
  BY <1>1
<1>3. t \in Seq(S) /\ Len(t) = n - 1 /\ DOMAIN t = 1..(n - 1) /\ \A i \in 1..(n - 1) : t[i] = s[i + 1]
  BY <1>1, <1>2
<1>4. 1 \in 1..n /\ (\A i \in 1..(n - 1) : i + 1 \in 1..n /\ i + 1 # 1) /\ \A i \in 1..n : i = 1 \/ (i - 1 \in 1..(n - 1) /\ (i - 1) + 1 = i)
  BY <1>2
<1>5. ToSet(s) = {s[1]} \cup ToSet(t)
  <2>1. \A x \in ToSet(s) : x \in {s[1]} \cup ToSet(t)
    <3> SUFFICES ASSUME NEW i \in 1..n PROVE s[i] \in {s[1]} \cup ToSet(t)
      BY <1>2 DEF ToSet
    <3>1. CASE i = 1
      BY <3>1
    <3>2. CASE i # 1
      <4>1. i - 1 \in 1..(n - 1) /\ t[i - 1] = s[i]
        BY <1>4, <3>2, <1>3
      <4>2. QED
        BY <1>3, <4>1 DEF ToSet
    <3>3. QED
      BY <3>1, <3>2
  <2>2. \A x \in ToSet(t) : x \in ToSet(s)
    BY <1>3, <1>4, <1>2 DEF ToSet
  <2>3. s[1] \in ToSet(s)
    BY <1>2, <1>4 DEF ToSet
  <2>4. QED
    BY <2>1, <2>2, <2>3
<1>6. ASSUME IsInjective(s) PROVE IsInjective(t) /\ s[1] \notin ToSet(t)
  <2>1. \A i, j \in 1..n : s[i] = s[j] => i = j
    BY <1>2, <1>6 DEF IsInjective
  <2>2. \A i, j \in 1..(n - 1) : t[i] = t[j] => i = j
    BY <1>2, <1>3, <2>1
  <2>3. \A i \in 1..(n - 1) : t[i] # s[1]
    BY <1>3, <1>4, <2>1
  <2>4. QED
    BY <1>3, <2>2, <2>3 DEF IsInjective, ToSet
<1>7. QED
  BY <1>1, <1>2, <1>3, <1>5, <1>6

\* What is joined without repetition has none in its parts, nor between them.
LEMMA JoinParts ==
  ASSUME NEW S, NEW a \in Seq(S), NEW b \in Seq(S), IsInjective(a \o b)
  PROVE  IsInjective(a) /\ IsInjective(b) /\ ToSet(a) \cap ToSet(b) = {}
<1>1. PICK c, k, l : c = a \o b /\ k = Len(a) /\ l = Len(b)
  OBVIOUS
<1>2. /\ c \in Seq(S) /\ Len(c) = k + l /\ k \in Nat /\ l \in Nat
      /\ DOMAIN a = 1..k /\ DOMAIN b = 1..l /\ DOMAIN c = 1..(k + l)
      /\ \A i \in 1..k : c[i] = a[i]
      /\ \A i \in 1..(k + l) : i \notin 1..k => i - k \in 1..l /\ c[i] = b[i - k]
  BY <1>1
<1>3. \A i, j \in 1..(k + l) : c[i] = c[j] => i = j
  BY <1>1, <1>2 DEF IsInjective
<1>4. \A i \in 1..k : i \in 1..(k + l) /\ c[i] = a[i]
  BY <1>2
<1>5. \A i \in 1..l : i + k \in 1..(k + l) /\ i + k \notin 1..k /\ c[i + k] = b[i]
  BY <1>2
<1>6. \A i, j \in 1..k : a[i] = a[j] => i = j
  BY <1>3, <1>4
<1>7. \A i, j \in 1..l : b[i] = b[j] => i = j
  BY <1>3, <1>5, <1>2
<1>8. \A i \in 1..k, j \in 1..l : a[i] # b[j]
  BY <1>3, <1>4, <1>5
<1>9. IsInjective(a) /\ IsInjective(b)
  BY <1>2, <1>6, <1>7 DEF IsInjective
<1>10. ToSet(a) \cap ToSet(b) = {}
  BY <1>2, <1>8 DEF ToSet
<1>11. QED
  BY <1>9, <1>10

LEMMA JoinSet ==
  ASSUME NEW S, NEW a \in Seq(S), NEW b \in Seq(S)
  PROVE  a \o b \in Seq(S) /\ ToSet(a \o b) \subseteq ToSet(a) \cup ToSet(b)
BY DEF ToSet

\* A step that leaves topic as t.
LEMMA Steps1Makes ==
  ASSUME BaseInv, NEW t, Steps1(t), TopicTyped(t), ~stirred["topic"] => TopicStill(t, graph, onDisk)
  PROVE  TopicInv'
BY DEF Steps1, Quietly, graphVars, TopicInv

LEMMA TheWant ==
  ASSUME TopicTyped(topic), topic.at # "none"
  PROVE  /\ Want1 \in Topics /\ topic.want = {Want1}
         /\ Want1 \in Topic /\ Want1.hops \in Nat /\ Want1.top \in Nat /\ Want1.chars \in Nat
BY TheOne, InsightAssumption DEF TopicTyped, Want1, Topic

\* A retrieval that begins.
LEMMA NoTopicFits == NoTopic \in TopicSet
<1>1. PICK s : s = [p \in {} |-> 0]
  OBVIOUS
<1>2. s \in [{} -> 0..1000]
  BY <1>1
<1>3. s \in Scores
  <2>1. PICK Z, R : Z = {} /\ R = 0..1000
    BY ZenonT(30)
  <2>2. Z \in SUBSET Paths /\ s \in [Z -> R]
    BY <1>2, <2>1
  <2>3. s \in Partial(Paths, R)
    BY <2>2 DEF Partial
  <2>4. QED
    BY <2>1, <2>3 DEF Scores
<1>4. <<>> \in Seq(Terms) /\ <<>> \in Seq(HeldSet) /\ <<>> \in Seq(Paths)
  OBVIOUS
<1>5. NoTopic = [at |-> "none", terms |-> <<>>, matched |-> <<>>, rest |-> <<>>, frontier |-> {},
                 next |-> {}, depth |-> 0, found |-> {}, scores |-> s, lines |-> 1,
                 left |-> <<>>, total |-> 0, given |-> <<>>, want |-> {}]
  BY <1>1 DEF NoTopic
<1>6. QED
  BY <1>3, <1>4, <1>5 DEF TopicSet, TopicStages

LEMMA RetrieveMakes ==
  ASSUME BaseInv, NEW w \in Topics, Retrieve(w)
  PROVE  TopicInv'
<1>1. PICK t : t = [NoTopic EXCEPT !.at = "match", !.terms = w.terms, !.want = {w}]
  OBVIOUS
<1>2. topic' = t /\ graph' = graph /\ onDisk' = onDisk
  BY <1>1 DEF Retrieve, graphVars
<1>3. w.terms \in Seq(Terms)
  BY InsightAssumption DEF Topic
<1>4. t \in TopicSet
  BY <1>1, <1>3, NoTopicFits DEF TopicSet, TopicStages
<1>5. /\ t.at = "match" /\ t.want = {w} /\ t.matched = <<>> /\ t.rest = <<>> /\ t.given = <<>> /\ t.left = <<>>
      /\ DOMAIN t.scores = {}
  BY <1>1 DEF NoTopic
<1>6. ToSet(<<>>) = {} /\ <<>> \o <<>> = <<>> /\ IsInjective(<<>>)
  BY DEF ToSet, IsInjective
<1>7. TopicTyped(t)
  BY <1>4, <1>5, <1>6 DEF TopicTyped
<1>8. TopicStill(t, graph, onDisk)
  BY <1>5, <1>6 DEF TopicStill, Known, Scoring
<1>9. QED
  BY <1>2, <1>7, <1>8 DEF TopicInv

\* Search for the next term.
LEMMA MatchMakes ==
  ASSUME BaseInv, TopicInv, MatchEntities
  PROVE  TopicInv'
<1>1. TopicTyped(topic) /\ topic \in TopicSet /\ topic.at = "match" /\ topic.terms # <<>>
  BY DEF TopicInv, TopicTyped, MatchEntities
<1>2. topic.terms \in Seq(Terms) /\ topic.matched \in Seq(HeldSet)
  BY <1>1 DEF TopicSet
<1>3. Head(topic.terms) \in Terms /\ Tail(topic.terms) \in Seq(Terms)
  BY <1>1, <1>2, HeadTail
<1>4. PICK found : found = SearchEntities(Head(topic.terms), MatchLimit)
  OBVIOUS
<1>5. found \in Seq(Names) /\ ToSet(found) \subseteq DOMAIN graph.ents
  BY <1>3, <1>4, SearchFacts DEF BaseInv, MatchLimit
<1>6. PICK not : not = Names \ {topic.matched[i].of : i \in DOMAIN topic.matched}
  OBVIOUS
<1>7. PICK new : new = Filter(found, not)
  OBVIOUS
<1>8. new \in Seq(Names) /\ ToSet(new) \subseteq DOMAIN graph.ents
  BY <1>5, <1>7, FilterType, FilterRange
<1>9. PICK more : more = [i \in DOMAIN new |-> [of |-> new[i], src |-> Source(new[i])]]
  OBVIOUS
<1>10. \A n \in DOMAIN graph.ents : n \in Names /\ graph.ents[n].src \in Paths
  BY RowsFacts DEF BaseInv, Whole, Ents
<1>11. /\ more \in Seq(HeldSet)
       /\ \A h \in ToSet(more) : h.of \in DOMAIN graph.ents /\ graph.ents[h.of].src = h.src
  <2>1. PICK l : l = Len(new)
    OBVIOUS
  <2>2. l \in Nat /\ DOMAIN new = 1..l /\ \A i \in 1..l : new[i] \in ToSet(new)
    BY <1>8, <2>1 DEF ToSet
  <2>3. \A i \in 1..l : new[i] \in Names /\ new[i] \in DOMAIN graph.ents /\ graph.ents[new[i]].src \in Paths
    BY <1>8, <1>10, <2>2
  <2>4. more = [i \in 1..l |-> [of |-> new[i], src |-> graph.ents[new[i]].src]]
    BY <1>9, <2>2 DEF Source
  <2>5. \A i \in 1..l : more[i] \in HeldSet /\ more[i].of \in DOMAIN graph.ents /\ graph.ents[more[i].of].src = more[i].src
    BY <2>3, <2>4 DEF HeldSet
  <2>6. DOMAIN more = 1..l
    BY <2>4
  <2>7. more = [i \in 1..l |-> more[i]]
    BY <2>4
  <2>8. more \in [1..l -> HeldSet]
    BY <2>5, <2>6, <2>7
  <2>9. more \in Seq(HeldSet)
    BY <2>2, <2>8
  <2>10. QED
    BY <2>5, <2>6, <2>9 DEF ToSet
<1>12. PICK all : all = topic.matched \o more
  OBVIOUS
<1>13. all \in Seq(HeldSet) /\ ToSet(all) \subseteq ToSet(topic.matched) \cup ToSet(more)
  BY <1>2, <1>11, <1>12, JoinSet
<1>14. PICK m : m = FirstOnes(all, MatchLimit)
  OBVIOUS
<1>15. m \in Seq(HeldSet) /\ ToSet(m) \subseteq ToSet(topic.matched) \cup ToSet(more)
  BY <1>13, <1>14, FirstFacts DEF MatchLimit
<1>16. PICK t : t = [topic EXCEPT !.terms = Tail(topic.terms), !.matched = m]
  OBVIOUS
<1>17. Steps1(t)
  BY <1>4, <1>6, <1>7, <1>9, <1>12, <1>14, <1>16 DEF MatchEntities
<1>18. t \in TopicSet
  BY <1>1, <1>3, <1>15, <1>16 DEF TopicSet
<1>19. /\ t.at = "match" /\ t.matched = m /\ t.rest = topic.rest /\ t.given = topic.given /\ t.left = topic.left
       /\ t.want = topic.want /\ t.total = topic.total /\ t.scores = topic.scores
  BY <1>1, <1>16 DEF TopicSet
<1>20. TopicTyped(t)
  BY <1>1, <1>19, <1>18 DEF TopicTyped, ToSet
<1>21. ASSUME ~stirred["topic"] PROVE TopicStill(t, graph, onDisk)
  BY <1>21, <1>11, <1>15, <1>19 DEF TopicInv, TopicStill, Known, Scoring
<1>22. QED
  BY <1>17, <1>20, <1>21, Steps1Makes

\* All terms searched, or enough found.
LEMMA MatchedMakes ==
  ASSUME BaseInv, TopicInv, Matched
  PROVE  TopicInv'
<1>1. /\ TopicTyped(topic) /\ topic \in TopicSet /\ topic.at = "match" /\ topic.rest = <<>> /\ topic.given = <<>>
      /\ IsInjective(topic.given \o topic.left) /\ \E w \in Topics : topic.want = {w}
  BY DEF TopicInv, TopicTyped, Matched
<1>2. topic.matched \in Seq(HeldSet)
  BY <1>1 DEF TopicSet
<1>3. CASE topic.matched = <<>>
  <2>1. PICK t : t = [topic EXCEPT !.at = "done"]
    OBVIOUS
  <2>2. Steps1(t)
    BY <1>3, <2>1 DEF Matched
  <2>3. /\ t \in TopicSet /\ t.at = "done" /\ t.matched = topic.matched /\ t.rest = topic.rest /\ t.given = topic.given
        /\ t.left = topic.left /\ t.want = topic.want /\ t.total = topic.total
    BY <1>1, <2>1 DEF TopicSet, TopicStages
  <2>4. ToSet(t.rest) \subseteq ToSet(t.matched)
    BY <1>1, <2>3 DEF TopicTyped
  <2>5. TopicTyped(t)
    BY <1>1, <2>3, <2>4 DEF TopicTyped
  <2>6. ASSUME ~stirred["topic"] PROVE TopicStill(t, graph, onDisk)
    BY <2>3, <2>6 DEF TopicInv, TopicStill, Known, Scoring
  <2>7. QED
    BY <2>2, <2>5, <2>6, Steps1Makes
<1>4. CASE topic.matched # <<>>
  <2>1. PICK t : t = [topic EXCEPT !.at = "near", !.rest = topic.matched]
    OBVIOUS
  <2>2. Steps1(t)
    BY <1>4, <2>1 DEF Matched
  <2>3. /\ t \in TopicSet /\ t.at = "near" /\ t.matched = topic.matched /\ t.rest = topic.matched /\ t.given = topic.given
        /\ t.left = topic.left /\ t.want = topic.want /\ t.total = topic.total /\ t.scores = topic.scores
    BY <1>1, <1>2, <2>1 DEF TopicSet, TopicStages
  <2>4. TopicTyped(t)
    BY <1>1, <1>4, <2>3 DEF TopicTyped
  <2>5. ASSUME ~stirred["topic"] PROVE TopicStill(t, graph, onDisk)
    BY <2>3, <2>5, <1>1 DEF TopicInv, TopicStill, Known, TopicTyped, Backed, Covered
  <2>6. QED
    BY <2>2, <2>4, <2>5, Steps1Makes
<1>5. QED
  BY <1>3, <1>4

\* What can be matched, and what is reached from it, while the graph keeps still.
LEMMA StillFacts ==
  ASSUME BaseInv, NEW h, h.of \in DOMAIN graph.ents
  PROVE  /\ DistanceLaws(Distance(graph, h.of), graph, h.of)
         /\ DOMAIN Distance(graph, h.of) \subseteq DOMAIN graph.ents
         /\ \A x \in DOMAIN graph.ents : x \in Names /\ graph.ents[x].src \in Paths
BY RowsFacts, DistanceHolds, ReachThere DEF BaseInv, Whole, Ents

\* What is nearer is worth no less.
LEMMA WorthFacts ==
  /\ \A d \in Nat : Worth(d) \in 0..1000
  /\ Worth(0) = 1000 /\ Worth(1) = 50
BY DEF Worth

\* Scores are still backed when what is added is; and still cover what they did, and
\* what is gone through now.
Backing(t, g, w, p, v) ==
  \E h \in ToSet(t.matched) : \E x \in DOMAIN g.ents :
    Within(g, w, h.of, x) /\ g.ents[x].src = p /\ v <= Worth(Distance(g, h.of)[x])
LEMMA ScoredBacked ==
  ASSUME NEW t, NEW u, NEW g, NEW w, NEW adds \in Marks, t.scores \in Scores,
         u.matched = t.matched, u.scores = Scored(t.scores, adds),
         Backed(t, g, w), \A a \in adds : Backing(t, g, w, a[1], a[2])
  PROVE  Backed(u, g, w)
<1>1. PICK s, r : s = t.scores /\ r = u.scores
  OBVIOUS
<1>2. \A p \in DOMAIN s : Backing(t, g, w, p, s[p])
  BY <1>1 DEF Backed, Backing
<1>0. s \in Scores /\ r = Scored(s, adds)
  BY <1>1
<1>3. \A p \in DOMAIN r : (p \in DOMAIN s /\ r[p] = s[p]) \/ \E a \in adds : a[1] = p /\ a[2] = r[p]
  <2>1. /\ r \in Scores /\ DOMAIN r = DOMAIN s \cup {a[1] : a \in adds}
        /\ \A p \in DOMAIN r : (p \in DOMAIN s /\ r[p] = s[p]) \/ \E a \in adds : a[1] = p /\ a[2] = r[p]
        /\ \A a \in adds : a[2] <= r[a[1]]
        /\ \A p \in DOMAIN s : s[p] <= r[p]
    BY <1>0, ScoredFacts, SMTT(30)
  <2>2. QED
    BY <2>1
<1>4. \A p \in DOMAIN r : Backing(t, g, w, p, r[p])
  BY <1>2, <1>3
<1>5. \A p \in DOMAIN r : Backing(u, g, w, p, r[p])
  BY <1>4 DEF Backing
<1>6. QED
  BY <1>1, <1>5 DEF Backed, Backing

LEMMA ScoredCovered ==
  ASSUME NEW t, NEW u, NEW g, NEW w, NEW adds \in Marks, t.scores \in Scores,
         u.matched = t.matched, u.scores = Scored(t.scores, adds), Covered(t, g, w),
         \A h \in ToSet(t.rest) \ ToSet(u.rest) : \A x \in DOMAIN g.ents : Within(g, w, h.of, x) =>
           \E a \in adds : a[1] = g.ents[x].src /\ Worth(Distance(g, h.of)[x]) = a[2],
         \A h \in ToSet(t.matched) : DistanceLaws(Distance(g, h.of), g, h.of)
  PROVE  Covered(u, g, w)
<1>1. PICK s, r : s = t.scores /\ r = u.scores
  OBVIOUS
<1>2. /\ \A a \in adds : a[2] <= r[a[1]] /\ a[1] \in DOMAIN r
      /\ \A p \in DOMAIN s : s[p] <= r[p] /\ p \in DOMAIN r /\ s[p] \in 0..1000
      /\ \A p \in DOMAIN r : r[p] \in 0..1000
  <2>0. s \in Scores /\ r = Scored(s, adds)
    BY <1>1
  <2>1. /\ r \in Scores /\ s \in Scores /\ DOMAIN r = DOMAIN s \cup {a[1] : a \in adds}
        /\ \A a \in adds : a[2] <= r[a[1]]
        /\ \A p \in DOMAIN s : s[p] <= r[p]
    BY <2>0, ScoredFacts
  <2>2. (\A p \in DOMAIN s : s[p] \in 0..1000) /\ \A p \in DOMAIN r : r[p] \in 0..1000
    <3>1. PICK R : R = 0..1000
      OBVIOUS
    <3>2. r \in Partial(Paths, R) /\ s \in Partial(Paths, R)
      BY <2>1, <3>1 DEF Scores
    <3>3. (\A p \in DOMAIN s : s[p] \in R) /\ \A p \in DOMAIN r : r[p] \in R
      BY <3>2, PartialFacts
    <3>4. QED
      BY <3>1, <3>3
  <2>3. QED
    BY <2>1, <2>2
<1>3. ASSUME NEW h \in ToSet(u.matched) \ ToSet(u.rest), NEW x \in DOMAIN g.ents, Within(g, w, h.of, x)
      PROVE  g.ents[x].src \in DOMAIN r /\ Worth(Distance(g, h.of)[x]) <= r[g.ents[x].src]
  <2>1. PICK p, v, d : p = g.ents[x].src /\ d = Distance(g, h.of)[x] /\ v = Worth(d)
    OBVIOUS
  <2>2. d \in Nat
    BY <1>3, <2>1 DEF Within, DistanceLaws
  <2>3. v \in 0..1000
    BY <2>1, <2>2, WorthFacts, SMTT(30)
  <2>4. CASE h \in ToSet(t.rest)
    BY <1>3, <2>1, <2>4, <1>2
  <2>5. CASE h \notin ToSet(t.rest)
    <3>1. p \in DOMAIN s /\ v <= s[p]
      BY <1>1, <1>3, <2>1, <2>5 DEF Covered
    <3>2. s[p] <= r[p] /\ p \in DOMAIN r /\ s[p] \in 0..1000 /\ r[p] \in 0..1000
      BY <1>2, <3>1
    <3>3. v <= r[p]
      <4>1. PICK i, j : i = s[p] /\ j = r[p]
        OBVIOUS
      <4>2. v \in 0..1000 /\ i \in 0..1000 /\ j \in 0..1000 /\ v <= i /\ i <= j
        BY <2>3, <3>1, <3>2, <4>1
      <4>3. v <= j
        BY ONLY <4>2
      <4>4. QED
        BY <4>1, <4>3
    <3>4. QED
      BY <2>1, <3>2, <3>3, ZenonT(30)
  <2>6. QED
    BY <2>4, <2>5
<1>4. QED
  BY <1>1, <1>3 DEF Covered

\* The neighbours are one step away, unless an entity is linked to itself.
LEMMA NeighborsLinked ==
  ASSUME BaseInv, NEW n
  PROVE  /\ \A y \in Neighbors1(n) : y = n \/ y \in Linked(graph, n)
         /\ \A y \in Linked(graph, n) : y \in Neighbors1(n)
BY LinkedFacts DEF Neighbors1, Outgoing, Incoming

LEMMA EdgeScoreFacts == \A e : EdgeScore(e) \in 0..1000 /\ EdgeScore(e) <= 50
BY DEF EdgeScore

\* The neighbours of the next entity that was matched.
LEMMA NearMakes ==
  ASSUME BaseInv, TopicInv, Near1
  PROVE  TopicInv'
<1>1. TopicTyped(topic) /\ topic \in TopicSet /\ topic.at = "near" /\ topic.rest # <<>>
  BY DEF TopicInv, TopicTyped, Near1
<1>2. /\ topic.rest \in Seq(HeldSet) /\ topic.matched \in Seq(HeldSet) /\ topic.scores \in Scores /\ topic.lines \in Nat
  BY <1>1 DEF TopicSet
<1>3. PICK k : k = Head(topic.rest)
  OBVIOUS
<1>4. k \in HeldSet /\ k \in ToSet(topic.rest) /\ k \in ToSet(topic.matched)
  BY <1>1, <1>2, <1>3, HeadTail DEF TopicTyped
<1>5. PICK n : n = k.of
  OBVIOUS
<1>6. n \in Names
  BY <1>4, <1>5 DEF HeldSet
<1>7. PICK out, inc : out = Outgoing(n) /\ inc = Incoming(n)
  OBVIOUS
<1>8. PICK adds : adds = {<<Source(e.to), EdgeScore(e)>> : e \in out} \cup {<<Source(e.from), EdgeScore(e)>> : e \in inc}
  OBVIOUS
<1>9. \A e \in graph.edges : e.from \in DOMAIN graph.ents /\ e.to \in DOMAIN graph.ents
  BY DEF BaseInv, Whole
<1>10. \A x \in DOMAIN graph.ents : x \in Names /\ graph.ents[x].src \in Paths
  BY RowsFacts DEF BaseInv, Whole, Ents
<1>11. \A a \in adds : \E x \in Neighbors1(n), v \in 0..1000 : x \in DOMAIN graph.ents /\ v <= 50 /\ a = <<graph.ents[x].src, v>>
  <2>1. ASSUME NEW e \in out
        PROVE  e.to \in Neighbors1(n) /\ e.to \in DOMAIN graph.ents /\ EdgeScore(e) \in 0..1000 /\ EdgeScore(e) <= 50
    BY <1>7, <1>9, EdgeScoreFacts DEF Neighbors1, Outgoing
  <2>2. ASSUME NEW e \in inc
        PROVE  e.from \in Neighbors1(n) /\ e.from \in DOMAIN graph.ents /\ EdgeScore(e) \in 0..1000 /\ EdgeScore(e) <= 50
    BY <1>7, <1>9, EdgeScoreFacts DEF Neighbors1, Incoming
  <2> TAKE a \in adds
  <2>3. CASE \E e \in out : a = <<Source(e.to), EdgeScore(e)>>
    BY <2>1, <2>3, SMTT(30) DEF Source
  <2>4. CASE \E e \in inc : a = <<Source(e.from), EdgeScore(e)>>
    BY <2>2, <2>4, SMTT(30) DEF Source
  <2>5. QED
    BY <1>8, <2>3, <2>4
<1>12. adds \in Marks
  BY <1>10, <1>11 DEF Marks
<1>13. PICK s : s = Scored(topic.scores, adds)
  OBVIOUS
<1>14. s \in Scores
  BY <1>2, <1>12, <1>13, ScoredFacts
<1>15. PICK l : l = topic.lines + 1 + Cardinality(out) + Cardinality(inc)
  OBVIOUS
<1>16. l \in Nat
  BY <1>7, EdgesFinite, FS_Subset, FS_CardinalityType, <1>2, <1>15 DEF BaseInv, Whole, Rows, Outgoing,
     Incoming
<1>17. PICK t : t = [topic EXCEPT !.at = "hops", !.frontier = {n}, !.next = {}, !.depth = 1, !.found = {}, !.lines = l,
                                  !.scores = s]
  OBVIOUS
<1>18. Steps1(t)
  BY <1>3, <1>5, <1>7, <1>8, <1>13, <1>15, <1>17 DEF Near1
<1>19. t \in TopicSet
  BY <1>1, <1>6, <1>14, <1>16, <1>17 DEF TopicSet, TopicStages
<1>20. /\ t.at = "hops" /\ t.matched = topic.matched /\ t.rest = topic.rest /\ t.given = topic.given /\ t.left = topic.left
       /\ t.want = topic.want /\ t.total = topic.total /\ t.scores = s /\ t.frontier = {n} /\ t.next = {} /\ t.depth = 1
       /\ t.found = {}
  BY <1>1, <1>17 DEF TopicSet
<1>21. TopicTyped(t)
  <2>1. \A w \in t.want : t.depth <= w.hops + 1 /\ (t.depth = w.hops + 1 => t.next = {})
    BY <1>20, <1>1, InsightAssumption DEF TopicSet, Topic
  <2>2. QED
    BY <1>1, <1>19, <1>20, <2>1 DEF TopicTyped
<1>22. ASSUME ~stirred["topic"] PROVE TopicStill(t, graph, onDisk)
  <2>1. Known(topic, graph) /\ \A w \in topic.want : w.hops > 0 => Backed(topic, graph, w) /\ Covered(topic, graph, w)
    BY <1>1, <1>22 DEF TopicInv, TopicStill, Scoring
  <2>2. Known(t, graph)
    BY <1>20, <2>1 DEF Known
  <2>3. \A h \in ToSet(topic.matched) : h.of \in DOMAIN graph.ents
    BY <2>1 DEF Known
  <2>4. \A h \in ToSet(topic.matched) : DistanceLaws(Distance(graph, h.of), graph, h.of)
    BY <2>3, StillFacts
  <2>5. PICK d : d = Distance(graph, n)
    OBVIOUS
  <2>6. DistanceLaws(d, graph, n)
    BY <1>4, <1>5, <2>4, <2>5
  <2>7. d[n] = 0 /\ n \in DOMAIN d /\ \A x \in DOMAIN d : d[x] \in Nat /\ (d[x] = 0 => x = n)
    BY <2>6 DEF DistanceLaws
  <2>8. Traversed(t, graph, d)
    BY <1>20, <2>7 DEF Traversed
  <2>9. ASSUME NEW w \in t.want, w.hops > 0 PROVE Backed(t, graph, w) /\ Covered(t, graph, w)
    <3>1. w.hops \in Nat /\ w \in topic.want
      BY <1>1, <1>20, InsightAssumption DEF TopicSet, Topic
    <3>2. \A a \in adds : Backing(topic, graph, w, a[1], a[2])
      <4> TAKE a \in adds
      <4>1. PICK x \in Neighbors1(n), v \in 0..1000 : x \in DOMAIN graph.ents /\ v <= 50 /\ a = <<graph.ents[x].src, v>>
        BY <1>11
      <4>2. x \in DOMAIN d /\ (d[x] = 0 \/ d[x] = 1)
        BY NeighborsLinked, <2>6, <2>7 DEF DistanceLaws
      <4>3. v <= Worth(d[x])
        BY <4>2, WorthFacts, <4>1
      <4>4. d[x] <= w.hops
        BY <2>9, <3>1, <4>2
      <4>5. Within(graph, w, k.of, x)
        BY <1>5, <2>5, <4>2, <4>4 DEF Within
      <4>6. a[1] = graph.ents[x].src /\ a[2] = v
        BY <4>1
      <4>7. QED
        BY <1>4, <1>5, <2>5, <4>1, <4>3, <4>5, <4>6 DEF Backing
    <3>3. Backed(topic, graph, w) /\ Covered(topic, graph, w)
      BY <2>1, <2>9, <3>1
    <3>4. Backed(t, graph, w)
      BY <1>2, <1>12, <1>13, <1>20, <3>2, <3>3, ScoredBacked
    <3>5. ToSet(topic.rest) \ ToSet(t.rest) = {}
      BY <1>20
    <3>6. Covered(t, graph, w)
      BY <1>2, <1>12, <1>13, <1>20, <2>4, <3>3, <3>5, ScoredCovered
    <3>7. QED
      BY <3>4, <3>6
  <2>10. Head(t.rest).of = n
    BY <1>3, <1>5, <1>20
  <2>11. QED
    BY <1>20, <2>2, <2>5, <2>8, <2>9, <2>10 DEF TopicStill
<1>23. QED
  BY <1>18, <1>21, <1>22, Steps1Makes

\* What is so during a traversal.
LEMMA HopsFacts ==
  ASSUME BaseInv, TopicInv, topic.at = "hops", NEW k, k = Head(topic.rest)
  PROVE  /\ TopicTyped(topic) /\ topic \in TopicSet /\ topic.rest # <<>>
         /\ topic.rest \in Seq(HeldSet) /\ k \in HeldSet /\ k \in ToSet(topic.rest) /\ k \in ToSet(topic.matched)
         /\ k.of \in Names
         /\ topic.frontier \subseteq Names /\ topic.next \subseteq Names /\ topic.found \subseteq Visits
         /\ topic.depth \in Nat /\ topic.depth # 0
         /\ Want1.hops \in Nat /\ topic.want = {Want1}
         /\ topic.depth <= Want1.hops + 1 /\ (topic.depth = Want1.hops + 1 => topic.next = {})
         /\ ~stirred["topic"] =>
              /\ \A h \in ToSet(topic.matched) : h.of \in DOMAIN graph.ents /\ graph.ents[h.of].src = h.src
              /\ \A h \in ToSet(topic.matched) : DistanceLaws(Distance(graph, h.of), graph, h.of)
              /\ Traversed(topic, graph, Distance(graph, k.of))
<1>1. TopicTyped(topic) /\ topic \in TopicSet /\ topic.rest # <<>>
  BY DEF TopicInv, TopicTyped
<1>2. /\ topic.rest \in Seq(HeldSet) /\ topic.frontier \subseteq Names /\ topic.next \subseteq Names
      /\ topic.found \subseteq Visits /\ topic.depth \in Nat
  BY <1>1 DEF TopicSet
<1>3. k \in HeldSet /\ k \in ToSet(topic.rest) /\ k \in ToSet(topic.matched)
  BY <1>1, <1>2, HeadTail DEF TopicTyped
<1>4. k.of \in Names
  BY <1>3 DEF HeldSet
<1>5. Want1.hops \in Nat /\ topic.want = {Want1}
  BY <1>1, TheWant
<1>6. topic.depth # 0 /\ topic.depth <= Want1.hops + 1 /\ (topic.depth = Want1.hops + 1 => topic.next = {})
  BY <1>1, <1>5 DEF TopicTyped
<1>7. ASSUME ~stirred["topic"]
      PROVE  /\ \A h \in ToSet(topic.matched) : h.of \in DOMAIN graph.ents /\ graph.ents[h.of].src = h.src
             /\ \A h \in ToSet(topic.matched) : DistanceLaws(Distance(graph, h.of), graph, h.of)
             /\ Traversed(topic, graph, Distance(graph, k.of))
  BY <1>7, StillFacts DEF TopicInv, TopicStill, Known
<1>8. QED
  BY <1>1, <1>2, <1>3, <1>4, <1>5, <1>6, <1>7

\* One entity of the frontier.
LEMMA HopMakes ==
  ASSUME BaseInv, TopicInv, Hop
  PROVE  TopicInv'
<1>1. topic.at = "hops" /\ topic.depth <= Want1.hops
  BY DEF Hop
<1>2. PICK k : k = Head(topic.rest)
  OBVIOUS
<1>3. /\ TopicTyped(topic) /\ topic \in TopicSet /\ k.of \in Names
      /\ topic.frontier \subseteq Names /\ topic.next \subseteq Names /\ topic.found \subseteq Visits
      /\ topic.depth \in Nat /\ topic.depth # 0 /\ Want1.hops \in Nat /\ topic.want = {Want1}
  BY <1>1, <1>2, HopsFacts
<1>4. PICK n \in topic.frontier :
        LET new == Neighbors1(n) \ Met
        IN Steps1([topic EXCEPT !.frontier = @ \ {n}, !.next = @ \cup new,
                     !.found = @ \cup {[of |-> m, depth |-> topic.depth, src |-> Source(m)] : m \in new}])
  BY DEF Hop
<1>5. PICK new : new = Neighbors1(n) \ Met
  OBVIOUS
<1>6. PICK d, f : d = topic.depth /\ f = {[of |-> m, depth |-> d, src |-> Source(m)] : m \in new}
  OBVIOUS
<1>7. PICK t : t = [topic EXCEPT !.frontier = topic.frontier \ {n}, !.next = topic.next \cup new, !.found = topic.found \cup f]
  OBVIOUS
<1>8. Steps1(t)
  BY <1>4, <1>5, <1>6, <1>7
<1>9. new \subseteq DOMAIN graph.ents /\ DOMAIN graph.ents \subseteq Names
  BY <1>5, NeighborsThere DEF BaseInv
<1>10. f \subseteq Visits
  BY RowsFacts, <1>9, <1>3, <1>6 DEF BaseInv, Whole, Ents, Source, Visits
<1>11. t \in TopicSet
  BY <1>3, <1>9, <1>10, <1>7 DEF TopicSet
<1>12. /\ t.at = "hops" /\ t.matched = topic.matched /\ t.rest = topic.rest /\ t.given = topic.given /\ t.left = topic.left
       /\ t.want = topic.want /\ t.total = topic.total /\ t.scores = topic.scores /\ t.depth = d
       /\ t.frontier = topic.frontier \ {n} /\ t.next = topic.next \cup new /\ t.found = topic.found \cup f
  BY <1>1, <1>3, <1>6, <1>7 DEF TopicSet
<1>13. TopicTyped(t)
  <2>1. \A w \in t.want : t.depth <= w.hops + 1 /\ t.depth # w.hops + 1
    BY <1>1, <1>3, <1>6, <1>12
  <2>2. t.depth # 0
    BY <1>3, <1>6, <1>12
  <2>3. QED
    BY <1>1, <1>3, <1>11, <1>12, <2>1, <2>2 DEF TopicTyped
<1>14. ASSUME ~stirred["topic"] PROVE TopicStill(t, graph, onDisk)
  <2>1. Known(topic, graph) /\ \A w \in topic.want : w.hops > 0 => Backed(topic, graph, w) /\ Covered(topic, graph, w)
    BY <1>1, <1>14 DEF TopicInv, TopicStill, Scoring
  <2>2. Known(t, graph)
    BY <1>12, <2>1 DEF Known
  <2>3. \A w \in t.want : w.hops > 0 => Backed(t, graph, w) /\ Covered(t, graph, w)
    BY <1>12, <2>1 DEF Backed, Covered
  <2>4. PICK dist : dist = Distance(graph, k.of)
    OBVIOUS
  <2>5. DistanceLaws(dist, graph, k.of) /\ Traversed(topic, graph, dist)
    BY <1>1, <1>2, <1>14, <2>4, HopsFacts
  <2>6. /\ n \in DOMAIN dist /\ dist[n] + 1 = d
        /\ \A x \in DOMAIN dist : dist[x] \in Nat /\ (dist[x] = 0 <=> x = k.of)
        /\ d \in Nat
    BY <1>3, <1>6, <2>5 DEF Traversed, DistanceLaws
  <2>7. /\ \A v \in topic.found : v.of \in DOMAIN dist /\ dist[v.of] = v.depth /\ v.src = graph.ents[v.of].src
        /\ \A x \in DOMAIN dist : dist[x] # 0 /\ dist[x] < d => \E v \in topic.found : v.of = x
        /\ topic.next \subseteq {v.of : v \in topic.found}
        /\ \A v \in topic.found : v.depth < d \/ v.of \in topic.next
        /\ \A x \in topic.frontier : x \in DOMAIN dist /\ dist[x] + 1 = d
        /\ \A x \in topic.next : x \in DOMAIN dist /\ dist[x] = d
        /\ \A x \in DOMAIN dist \ topic.frontier : dist[x] + 1 = d =>
             \A y \in Linked(graph, x) : dist[y] = d => y \in topic.next
    BY <1>6, <2>5 DEF Traversed
  <2>8. Met = {v.of : v \in topic.found} \cup {k.of}
    BY <1>2 DEF Met
  <2>9. n \in Met
    BY <2>6, <2>8, <2>7
  <2>10. ASSUME NEW y \in new PROVE y \in DOMAIN dist /\ dist[y] = d
    <3>1. y \in Linked(graph, n) /\ y \notin Met
      BY <1>5, <2>9, NeighborsLinked
    <3>2. y \in DOMAIN dist /\ dist[y] <= dist[n] + 1
      BY <2>5, <2>6, <3>1 DEF DistanceLaws
    <3>3. dist[y] # 0 /\ ~(dist[y] < d)
      BY <2>6, <2>7, <2>8, <3>1, <3>2
    <3>4. dist[y] = d
      BY <2>6, <3>2, <3>3
    <3>5. QED
      BY <3>2, <3>4
  <2>11. ASSUME NEW y \in Linked(graph, n), dist[y] = d PROVE y \in topic.next \cup new
    <3>1. y \in Neighbors1(n)
      BY NeighborsLinked
    <3>2. y \in DOMAIN dist
      BY <2>5, <2>6 DEF DistanceLaws
    <3>3. y # k.of
      BY <1>3, <1>6, <2>6, <2>11, <3>2
    <3>4. CASE y \in Met
      BY <2>8, <3>3, <3>4, <2>7, <2>11, <2>6
    <3>5. CASE y \notin Met
      BY <1>5, <3>1, <3>5
    <3>6. QED
      BY <3>4, <3>5
  <2>12. \A v \in f : v.of \in new /\ v.depth = d /\ v.src = graph.ents[v.of].src
    BY <1>6 DEF Source
  <2>13. \A y \in new : \E v \in f : v.of = y
    <3> TAKE y \in new
    <3>1. PICK v : v = [of |-> y, depth |-> d, src |-> Source(y)]
      OBVIOUS
    <3>2. v \in f /\ v.of = y
      BY <1>6, <3>1
    <3>3. QED
      BY <3>2
  <2>14. Traversed(t, graph, dist)
    BY <1>12, <2>7, <2>10, <2>12, <2>13, <2>11 DEF Traversed
  <2>15. Head(t.rest).of = k.of
    BY <1>2, <1>12
  <2>16. QED
    BY <1>12, <2>2, <2>3, <2>4, <2>14, <2>15 DEF TopicStill
<1>15. QED
  BY <1>8, <1>13, <1>14, Steps1Makes

\* The next level.
LEMMA DescendMakes ==
  ASSUME BaseInv, TopicInv, Descend
  PROVE  TopicInv'
<1>1. topic.at = "hops" /\ topic.depth <= Want1.hops /\ topic.frontier = {} /\ topic.next # {}
  BY DEF Descend
<1>2. PICK k : k = Head(topic.rest)
  OBVIOUS
<1>3. /\ TopicTyped(topic) /\ topic \in TopicSet /\ k.of \in Names
      /\ topic.next \subseteq Names /\ topic.depth \in Nat /\ Want1.hops \in Nat /\ topic.want = {Want1}
  BY <1>1, <1>2, HopsFacts
<1>4. PICK d : d = topic.depth
  OBVIOUS
<1>5. PICK t : t = [topic EXCEPT !.frontier = topic.next, !.next = {}, !.depth = d + 1]
  OBVIOUS
<1>6. Steps1(t)
  BY <1>4, <1>5 DEF Descend
<1>7. d \in Nat /\ d + 1 \in Nat /\ d + 1 # 0 /\ d + 1 <= Want1.hops + 1
  BY <1>1, <1>3, <1>4
<1>8. t \in TopicSet
  BY <1>3, <1>5, <1>7 DEF TopicSet
<1>9. /\ t.at = "hops" /\ t.matched = topic.matched /\ t.rest = topic.rest /\ t.given = topic.given /\ t.left = topic.left
      /\ t.want = topic.want /\ t.total = topic.total /\ t.scores = topic.scores /\ t.depth = d + 1
      /\ t.frontier = topic.next /\ t.next = {} /\ t.found = topic.found
  BY <1>1, <1>3, <1>5 DEF TopicSet
<1>10. TopicTyped(t)
  BY <1>1, <1>3, <1>7, <1>8, <1>9 DEF TopicTyped
<1>11. ASSUME ~stirred["topic"] PROVE TopicStill(t, graph, onDisk)
  <2>1. Known(topic, graph) /\ \A w \in topic.want : w.hops > 0 => Backed(topic, graph, w) /\ Covered(topic, graph, w)
    BY <1>1, <1>11 DEF TopicInv, TopicStill, Scoring
  <2>2. Known(t, graph)
    BY <1>9, <2>1 DEF Known
  <2>3. \A w \in t.want : w.hops > 0 => Backed(t, graph, w) /\ Covered(t, graph, w)
    BY <1>9, <2>1 DEF Backed, Covered
  <2>4. PICK dist : dist = Distance(graph, k.of)
    OBVIOUS
  <2>5. DistanceLaws(dist, graph, k.of) /\ Traversed(topic, graph, dist)
    BY <1>1, <1>2, <1>11, <2>4, HopsFacts
  <2>6. d # 0 /\ \A x \in DOMAIN dist : dist[x] \in Nat
    BY <1>1, <1>2, <1>4, <2>5, HopsFacts DEF DistanceLaws
  <2>7. /\ \A v \in topic.found : v.of \in DOMAIN dist /\ dist[v.of] = v.depth /\ v.src = graph.ents[v.of].src
        /\ \A x \in DOMAIN dist : dist[x] # 0 /\ dist[x] < d => \E v \in topic.found : v.of = x
        /\ topic.next \subseteq {v.of : v \in topic.found}
        /\ \A v \in topic.found : v.depth < d \/ v.of \in topic.next
        /\ \A x \in topic.next : x \in DOMAIN dist /\ dist[x] = d
        /\ \A x \in DOMAIN dist : dist[x] + 1 = d => \A y \in Linked(graph, x) : dist[y] = d => y \in topic.next
    BY <1>1, <1>4, <2>5 DEF Traversed
  <2>8. ASSUME NEW x \in DOMAIN dist, dist[x] = d PROVE x \in topic.next
    <3>1. PICK j : j = d - 1
      OBVIOUS
    <3>2. j \in Nat /\ d = j + 1
      BY <1>7, <2>6, <3>1
    <3>3. PICK y \in DOMAIN dist : dist[y] = j /\ x \in Linked(graph, y)
      BY <2>5, <2>8, <3>2 DEF DistanceLaws
    <3>4. QED
      BY <2>7, <2>8, <3>2, <3>3
  <2>9. Traversed(t, graph, dist)
    BY <1>9, <2>7, <1>7, <2>6, <2>8 DEF Traversed
  <2>10. Head(t.rest).of = k.of
    BY <1>2, <1>9
  <2>11. QED
    BY <1>9, <2>2, <2>3, <2>4, <2>9, <2>10 DEF TopicStill
<1>12. QED
  BY <1>6, <1>10, <1>11, Steps1Makes

\* At its end, a traversal has found all within reach, and nothing else.
LEMMA TraversedAll ==
  ASSUME BaseInv, TopicInv, topic.at = "hops", ~stirred["topic"], NEW dist, dist = Distance(graph, Head(topic.rest).of),
         topic.depth > Want1.hops \/ (topic.frontier = {} /\ topic.next = {})
  PROVE  /\ \A x \in DOMAIN dist : dist[x] # 0 /\ dist[x] <= Want1.hops => \E v \in topic.found : v.of = x
         /\ \A v \in topic.found : v.depth <= Want1.hops
<1>1. PICK k, d, w : k = Head(topic.rest) /\ d = topic.depth /\ w = Want1.hops
  OBVIOUS
<1>2. d \in Nat /\ d # 0 /\ w \in Nat /\ d <= w + 1 /\ (d = w + 1 => topic.next = {}) /\ topic.found \subseteq Visits
  BY <1>1, HopsFacts
<1>3. DistanceLaws(dist, graph, k.of) /\ Traversed(topic, graph, dist)
  BY <1>1, HopsFacts
<1>4. \A x \in DOMAIN dist : dist[x] \in Nat
  BY <1>3 DEF DistanceLaws
<1>5. /\ \A x \in DOMAIN dist : dist[x] # 0 /\ dist[x] < d => \E v \in topic.found : v.of = x
      /\ \A v \in topic.found : v.depth < d \/ v.of \in topic.next
      /\ \A x \in DOMAIN dist \ topic.frontier : dist[x] + 1 = d =>
           \A y \in Linked(graph, x) : dist[y] = d => y \in topic.next
  BY <1>1, <1>3 DEF Traversed
<1>6. topic.next = {}
  BY <1>2, <1>1
<1>7. \A v \in topic.found : v.depth <= w
  BY <1>2, <1>5, <1>6 DEF Visits
<1>8. ASSUME NEW x \in DOMAIN dist, dist[x] # 0, dist[x] <= w PROVE dist[x] < d
  <2>1. CASE d > w
    BY <1>2, <1>4, <1>8, <2>1
  <2>2. CASE ~(d > w) /\ ~(dist[x] < d)
    <3>1. topic.frontier = {}
      BY <1>1, <2>2
    <3>2. d <= dist[x]
      BY <1>2, <1>4, <2>2
    <3>3. PICK y \in DOMAIN dist : dist[y] = d
      BY <1>2, <1>3, <3>2, DistancesAll
    <3>4. PICK j : j = d - 1
      OBVIOUS
    <3>5. j \in Nat /\ d = j + 1
      BY <1>2, <3>4
    <3>6. PICK z \in DOMAIN dist : dist[z] = j /\ y \in Linked(graph, z)
      BY <1>3, <3>3, <3>5 DEF DistanceLaws
    <3>7. y \in topic.next
      BY <1>5, <3>1, <3>3, <3>5, <3>6
    <3>8. QED
      BY <1>6, <3>7
  <2>3. QED
    BY <2>1, <2>2
<1>9. QED
  BY <1>1, <1>5, <1>7, <1>8

\* The end of a traversal.
LEMMA HoppedMakes ==
  ASSUME BaseInv, TopicInv, Hopped
  PROVE  TopicInv'
<1>1. topic.at = "hops" /\ (topic.depth > Want1.hops \/ (topic.frontier = {} /\ topic.next = {}))
  BY DEF Hopped
<1>2. PICK k : k = Head(topic.rest)
  OBVIOUS
<1>3. /\ TopicTyped(topic) /\ topic \in TopicSet /\ k.of \in Names /\ topic.rest # <<>> /\ topic.rest \in Seq(HeldSet)
      /\ k \in HeldSet /\ k \in ToSet(topic.matched) /\ topic.found \subseteq Visits
      /\ Want1.hops \in Nat /\ topic.want = {Want1}
  BY <1>1, <1>2, HopsFacts
<1>4. PICK rest : rest = Tail(topic.rest)
  OBVIOUS
<1>5. /\ rest \in Seq(HeldSet) /\ ToSet(topic.rest) = {k} \cup ToSet(rest)
      /\ (Len(topic.rest) = 1 <=> rest = <<>>)
  <2>1. rest \in Seq(HeldSet) /\ ToSet(topic.rest) = {k} \cup ToSet(rest)
    BY <1>2, <1>3, <1>4, HeadTail
  <2>2. Len(topic.rest) = 1 <=> rest = <<>>
    <3>1. PICK r : r = topic.rest
      OBVIOUS
    <3>2. r \in Seq(HeldSet) /\ r # <<>> /\ rest = Tail(r)
      BY <1>3, <1>4, <3>1
    <3>3. Len(rest) = Len(r) - 1 /\ Len(r) \in Nat
      BY <3>2
    <3>4. Len(rest) = 0 <=> rest = <<>>
      BY <2>1, EmptySeq
    <3>5. QED
      BY <3>1, <3>3, <3>4
  <2>3. QED
    BY <2>1, <2>2
<1>6. PICK at : at = IF Len(topic.rest) = 1 THEN "rank" ELSE "near"
  OBVIOUS
<1>7. at \in TopicStages /\ at \in {"rank", "near"} /\ (at = "rank" <=> rest = <<>>)
  BY <1>5, <1>6 DEF TopicStages
<1>8. PICK hops, adds : /\ hops = {<<f.src, HopScore(f.depth)>> : f \in topic.found}
                        /\ adds = hops \cup {<<k.src, OwnScore>>}
  OBVIOUS
<1>9. \A f \in topic.found : f.src \in Paths /\ f.depth \in Nat /\ f.depth # 0 /\ HopScore(f.depth) = Worth(f.depth) /\ HopScore(f.depth) \in 0..1000
  <2> TAKE f \in topic.found
  <2>1. f.src \in Paths /\ f.depth \in Nat /\ f.depth # 0
    BY <1>3 DEF Visits
  <2>2. HopScore(f.depth) = Worth(f.depth)
    BY <2>1 DEF HopScore, Worth
  <2>3. QED
    BY <2>1, <2>2, WorthFacts, SMTT(30)
<1>10. OwnScore \in 0..1000 /\ k.src \in Paths /\ OwnScore = Worth(0)
  BY <1>3, WorthFacts DEF HeldSet, OwnScore
<1>11. \A a \in adds : (a[1] = k.src /\ a[2] = Worth(0)) \/ \E f \in topic.found : a[1] = f.src /\ a[2] = Worth(f.depth)
  <2> TAKE a \in adds
  <2>1. CASE a = <<k.src, OwnScore>>
    BY <1>10, <2>1
  <2>2. CASE \E f \in topic.found : a = <<f.src, HopScore(f.depth)>>
    BY <1>9, <2>2
  <2>3. QED
    BY <1>8, <2>1, <2>2
<1>12. adds \in Marks
  <2>1. \A a \in adds : a \in Paths \X (0..1000)
    <3>1. PICK R : R = 0..1000
      OBVIOUS
    <3>2. OwnScore \in R /\ k.src \in Paths
      BY <1>10, <3>1
    <3>3. ASSUME NEW f \in topic.found PROVE f.src \in Paths /\ HopScore(f.depth) \in R
      BY <1>9, <3>1
    <3>5. ASSUME NEW a \in adds PROVE a \in Paths \X R
      BY <3>2, <3>3, <1>8
    <3>4. QED
      BY <3>1, <3>5
  <2>2. QED
    BY <2>1 DEF Marks
<1>13. (\E a \in adds : a[1] = k.src /\ a[2] = Worth(0)) /\ \A f \in topic.found : \E a \in adds : a[1] = f.src /\ a[2] = Worth(f.depth)
  <2>1. <<k.src, OwnScore>> \in adds
    BY <1>8
  <2>2. \E a \in adds : a[1] = k.src /\ a[2] = Worth(0)
    BY <1>10, <2>1
  <2>3. ASSUME NEW f \in topic.found PROVE \E a \in adds : a[1] = f.src /\ a[2] = Worth(f.depth)
    <3>1. PICK a : a = <<f.src, HopScore(f.depth)>>
      OBVIOUS
    <3>2. a \in adds
      BY <1>8, <3>1
    <3>3. QED
      BY <1>9, <3>1, <3>2
  <2>4. QED
    BY <2>2, <2>3
<1>14. PICK s : s = Scored(topic.scores, adds)
  OBVIOUS
<1>15. topic.scores \in Scores
  BY <1>3 DEF TopicSet
<1>16. s \in Scores
  BY <1>12, <1>14, <1>15, ScoredFacts
<1>17. PICK t : t = [topic EXCEPT !.at = at, !.rest = rest, !.frontier = {}, !.next = {}, !.found = {}, !.depth = 0,
                                  !.scores = s]
  OBVIOUS
<1>18. Steps1(t)
  BY <1>2, <1>4, <1>6, <1>8, <1>14, <1>17 DEF Hopped
<1>19. t \in TopicSet
  BY <1>3, <1>5, <1>7, <1>16, <1>17 DEF TopicSet
<1>20. /\ t.at = at /\ t.matched = topic.matched /\ t.rest = rest /\ t.given = topic.given /\ t.left = topic.left
       /\ t.want = topic.want /\ t.total = topic.total /\ t.scores = s
  BY <1>3, <1>17 DEF TopicSet
<1>21. TopicTyped(t)
  BY <1>1, <1>3, <1>5, <1>7, <1>19, <1>20 DEF TopicTyped
<1>22. ASSUME ~stirred["topic"] PROVE TopicStill(t, graph, onDisk)
  <2>1. Known(topic, graph) /\ \A w \in topic.want : w.hops > 0 => Backed(topic, graph, w) /\ Covered(topic, graph, w)
    BY <1>1, <1>22 DEF TopicInv, TopicStill, Scoring
  <2>2. Known(t, graph)
    BY <1>20, <2>1 DEF Known
  <2>3. PICK dist : dist = Distance(graph, k.of)
    OBVIOUS
  <2>4. /\ \A h \in ToSet(topic.matched) : h.of \in DOMAIN graph.ents /\ graph.ents[h.of].src = h.src
        /\ \A h \in ToSet(topic.matched) : DistanceLaws(Distance(graph, h.of), graph, h.of)
        /\ Traversed(topic, graph, dist)
    BY <1>1, <1>2, <1>22, <2>3, HopsFacts
  <2>5. DistanceLaws(dist, graph, k.of) /\ DOMAIN dist \subseteq DOMAIN graph.ents /\ k.of \in DOMAIN graph.ents /\ graph.ents[k.of].src = k.src
    BY <1>3, <2>3, <2>4, StillFacts
  <2>6. /\ \A x \in DOMAIN dist : dist[x] \in Nat /\ (dist[x] = 0 <=> x = k.of)
        /\ k.of \in DOMAIN dist
        /\ \A f \in topic.found : f.of \in DOMAIN dist /\ dist[f.of] = f.depth /\ f.src = graph.ents[f.of].src
    BY <2>4, <2>5 DEF DistanceLaws, Traversed
  <2>7. /\ \A x \in DOMAIN dist : dist[x] # 0 /\ dist[x] <= Want1.hops => \E v \in topic.found : v.of = x
        /\ \A v \in topic.found : v.depth <= Want1.hops
    BY <1>1, <1>2, <1>22, <2>3, TraversedAll
  <2>8. ASSUME NEW w \in t.want, w.hops > 0 PROVE Backed(t, graph, w) /\ Covered(t, graph, w)
    <3>1. w = Want1 /\ w.hops \in Nat
      BY <1>3, <1>20
    <3>2. ASSUME NEW x \in DOMAIN dist, dist[x] <= w.hops, NEW a \in adds, a[1] = graph.ents[x].src, a[2] = Worth(dist[x])
          PROVE  Backing(topic, graph, w, a[1], a[2])
      <4>1. Worth(dist[x]) \in 0..1000
        BY <2>6, WorthFacts, SMTT(30)
      <4>2. Within(graph, w, k.of, x) /\ x \in DOMAIN graph.ents
        BY <2>3, <2>5, <3>2 DEF Within
      <4>3. a[2] <= Worth(dist[x])
        BY <3>2, <4>1
      <4>4. QED
        BY <1>3, <2>3, <3>2, <4>2, <4>3 DEF Backing
    <3>3. \A a \in adds : Backing(topic, graph, w, a[1], a[2])
      BY <2>6, <3>1, <2>5, <3>2, <2>7, <1>11
    <3>4. Backed(topic, graph, w) /\ Covered(topic, graph, w)
      BY <1>20, <2>1, <2>8
    <3>5. Backed(t, graph, w)
      BY <1>12, <1>14, <1>15, <1>20, <3>3, <3>4, ScoredBacked
    <3>6. ASSUME NEW h \in ToSet(topic.rest) \ ToSet(t.rest), NEW x \in DOMAIN graph.ents, Within(graph, w, h.of, x)
          PROVE  \E a \in adds : a[1] = graph.ents[x].src /\ Worth(Distance(graph, h.of)[x]) = a[2]
      <4>1. h = k
        BY <1>5, <1>20, <3>6
      <4>2. x \in DOMAIN dist /\ dist[x] <= Want1.hops
        BY <2>3, <3>1, <3>6, <4>1 DEF Within
      <4>3. CASE dist[x] = 0
        <5>1. x = k.of
          BY <2>6, <4>2, <4>3
        <5>2. QED
          BY <1>13, <2>3, <2>5, <4>1, <4>3, <5>1
      <4>4. CASE dist[x] # 0
        <5>1. PICK f \in topic.found : f.of = x
          BY <2>7, <4>2, <4>4
        <5>2. f.src = graph.ents[x].src /\ f.depth = dist[x]
          BY <2>6, <5>1
        <5>3. PICK a \in adds : a[1] = f.src /\ a[2] = Worth(f.depth)
          BY <1>13
        <5>4. QED
          BY <2>3, <4>1, <5>2, <5>3
      <4>5. QED
        BY <4>3, <4>4
    <3>7. Covered(t, graph, w)
      BY <1>12, <1>14, <1>15, <1>20, <2>4, <3>4, <3>6, ScoredCovered
    <3>8. QED
      BY <3>5, <3>7
  <2>9. t.at # "hops" /\ t.at # "read"
    BY <1>7, <1>20
  <2>10. QED
    BY <2>2, <2>8, <2>9 DEF TopicStill
<1>23. QED
  BY <1>18, <1>21, <1>22, Steps1Makes

\* The paths in the order of their scores.
LEMMA RankMakes ==
  ASSUME BaseInv, TopicInv, Rank1
  PROVE  TopicInv'
<1>1. TopicTyped(topic) /\ topic \in TopicSet /\ topic.at = "rank" /\ topic.rest = <<>> /\ topic.given = <<>>
  BY DEF TopicInv, TopicTyped, Rank1
<1>2. Want1.top \in Nat /\ topic.want = {Want1} /\ topic.lines \in Nat /\ topic.scores \in Scores
  BY <1>1, TheWant DEF TopicSet
<1>3. PICK sc, S : sc = topic.scores /\ S = DOMAIN sc
  OBVIOUS
<1>4. S \subseteq Paths
  BY <1>2, <1>3, PartialFacts DEF Scores
<1>5. IsFiniteSet(S)
  BY <1>4, InsightAssumption, FS_Subset
<1>6. PICK order \in Rankings(S, sc) :
        Steps1([topic EXCEPT !.at = "read", !.left = FirstOnes(order, Want1.top), !.total = LineSize * (topic.lines + 1)])
  BY <1>3 DEF Rank1
<1>7. PICK left : left = FirstOnes(order, Want1.top)
  OBVIOUS
<1>8. /\ left \in Seq(S) /\ IsInjective(left) /\ ToSet(left) \subseteq S
      /\ \A p \in ToSet(left), q \in S \ ToSet(left) : sc[p] >= sc[q]
  BY <1>2, <1>5, <1>7, RankedFacts
<1>9. left \in Seq(Paths)
  BY <1>4, <1>8
<1>10. PICK size : size = LineSize * (topic.lines + 1)
  OBVIOUS
<1>11. size \in Nat
  BY <1>2, InsightAssumption, <1>10
<1>12. PICK t : t = [topic EXCEPT !.at = "read", !.left = left, !.total = size]
  OBVIOUS
<1>13. Steps1(t)
  BY <1>6, <1>7, <1>10, <1>12
<1>14. t \in TopicSet
  BY <1>1, <1>9, <1>11, <1>12 DEF TopicSet, TopicStages
<1>15. /\ t.at = "read" /\ t.matched = topic.matched /\ t.rest = topic.rest /\ t.given = <<>> /\ t.left = left
       /\ t.want = topic.want /\ t.scores = sc
  BY <1>1, <1>3, <1>12 DEF TopicSet
<1>16. <<>> \o left = left
  BY <1>9
<1>17. TopicTyped(t)
  BY <1>1, <1>8, <1>14, <1>15, <1>16 DEF TopicTyped
<1>18. ASSUME ~stirred["topic"] PROVE TopicStill(t, graph, onDisk)
  <2>1. Known(topic, graph) /\ \A w \in topic.want : w.hops > 0 => Backed(topic, graph, w) /\ Covered(topic, graph, w)
    BY <1>1, <1>18 DEF TopicInv, TopicStill, Scoring
  <2>2. Known(t, graph)
    BY <1>15, <2>1 DEF Known
  <2>3. \A w \in t.want : w.hops > 0 => Backed(t, graph, w) /\ Covered(t, graph, w)
    BY <1>3, <1>15, <2>1 DEF Backed, Covered
  <2>4. BestFirst(t, onDisk)
    BY <1>3, <1>8, <1>15 DEF BestFirst
  <2>5. QED
    BY <1>15, <2>2, <2>3, <2>4 DEF TopicStill
<1>19. QED
  BY <1>13, <1>17, <1>18, Steps1Makes

\* The next note is read, or left out.
LEMMA ReadMakes ==
  ASSUME BaseInv, TopicInv, Read1
  PROVE  TopicInv'
<1>1. /\ TopicTyped(topic) /\ topic \in TopicSet /\ topic.at = "read" /\ topic.rest = <<>>
      /\ IsInjective(topic.given \o topic.left) /\ \E w \in Topics : topic.want = {w}
  BY DEF TopicInv, TopicTyped, Read1
<1>2. /\ Want1.chars \in Nat /\ topic.want = {Want1} /\ topic.left \in Seq(Paths) /\ topic.given \in Seq(Paths)
      /\ topic.total \in Nat
  BY <1>1, TheWant DEF TopicSet
<1>3. topic.given # <<>> => topic.total <= Want1.chars
  BY <1>1, <1>2 DEF TopicTyped
<1>4. PICK left, given, total, rest : left = topic.left /\ given = topic.given /\ total = topic.total /\ rest = Tail(left)
  OBVIOUS
<1>5. IsInjective(given) /\ IsInjective(left) /\ ToSet(given) \cap ToSet(left) = {}
  BY <1>1, <1>2, <1>4, JoinParts
<1>6. ~stirred["topic"] =>
        /\ Known(topic, graph) /\ \A w \in topic.want : w.hops > 0 => Backed(topic, graph, w) /\ Covered(topic, graph, w)
        /\ BestFirst(topic, onDisk)
  BY <1>1 DEF TopicInv, TopicStill, Scoring
<1>7. CASE left = <<>> \/ total >= Want1.chars
  <2>1. PICK t : t = [topic EXCEPT !.at = "done", !.left = <<>>]
    OBVIOUS
  <2>2. Steps1(t)
    BY <1>4, <1>7, <2>1 DEF Read1
  <2>3. t \in TopicSet
    <3>1. <<>> \in Seq(Paths)
      OBVIOUS
    <3>2. QED
      BY <1>1, <2>1, <3>1 DEF TopicSet, TopicStages
  <2>4. /\ t.at = "done" /\ t.matched = topic.matched /\ t.rest = topic.rest /\ t.given = given /\ t.left = <<>>
        /\ t.want = topic.want /\ t.total = topic.total
    BY <1>1, <1>4, <2>1 DEF TopicSet
  <2>5. given \o <<>> = given
    BY <1>2, <1>4
  <2>6. ToSet(t.rest) \subseteq ToSet(t.matched)
    BY <1>1, <2>4 DEF TopicTyped
  <2>7. TopicTyped(t)
    BY <1>1, <1>2, <1>3, <1>4, <1>5, <2>3, <2>4, <2>5, <2>6 DEF TopicTyped
  <2>8. ASSUME ~stirred["topic"] PROVE TopicStill(t, graph, onDisk)
    BY <1>6, <2>4, <2>8 DEF Known, TopicStill, Scoring
  <2>9. QED
    BY <2>2, <2>7, <2>8, Steps1Makes
<1>8. CASE left # <<>> /\ ~(total >= Want1.chars)
  <2>1. PICK p : p = Head(left)
    OBVIOUS
  <2>2. /\ p \in Paths /\ rest \in Seq(Paths) /\ ToSet(left) = {p} \cup ToSet(rest) /\ IsInjective(rest) /\ p \notin ToSet(rest)
    BY <1>2, <1>4, <1>5, <1>8, <2>1, HeadTail
  <2>3. CASE p \notin onDisk
    <3>1. PICK t : t = [topic EXCEPT !.left = rest]
      OBVIOUS
    <3>2. Steps1(t)
      BY <1>4, <1>8, <2>1, <2>3, <3>1 DEF Read1
    <3>3. t \in TopicSet
      BY <1>1, <2>2, <3>1 DEF TopicSet
    <3>4. /\ t.at = "read" /\ t.matched = topic.matched /\ t.rest = topic.rest /\ t.given = given /\ t.left = rest
          /\ t.want = topic.want /\ t.total = topic.total /\ t.scores = topic.scores
      BY <1>1, <1>4, <3>1 DEF TopicSet
    <3>5. IsInjective(given \o rest)
      BY <1>2, <1>4, <1>5, <2>2, JoinFacts
    <3>6. TopicTyped(t)
      BY <1>1, <1>2, <1>3, <1>4, <3>3, <3>4, <3>5 DEF TopicTyped
    <3>7. ASSUME ~stirred["topic"] PROVE TopicStill(t, graph, onDisk)
      BY <1>6, <3>4, <3>7, <1>4, <2>2, <2>3 DEF Known, Backed, Covered, BestFirst, TopicStill
    <3>8. QED
      BY <3>2, <3>6, <3>7, Steps1Makes
  <2>4. CASE p \in onDisk
    <3>1. PICK more, sum : more = Append(given, p) /\ sum = total + Fits(NoteSize)
      OBVIOUS
    <3>2. sum \in Nat /\ sum <= Want1.chars
      <4>1. PICK c, n : c = Want1.chars /\ n = NoteSize
        OBVIOUS
      <4>2. c \in Nat /\ n \in Nat /\ total \in Nat /\ ~(total >= c)
        BY <1>2, <1>4, <1>8, <4>1, InsightAssumption
      <4>3. Fits(NoteSize) = IF n < c - total THEN n ELSE c - total
        BY <1>4, <4>1 DEF Fits
      <4>4. PICK fits : fits = Fits(NoteSize)
        OBVIOUS
      <4>5. fits \in Nat /\ total + fits <= c
        BY <4>2, <4>3, <4>4
      <4>6. QED
        BY <3>1, <4>1, <4>2, <4>4, <4>5
    <3>3. more \in Seq(Paths) /\ ToSet(more) = ToSet(given) \cup {p}
      BY <1>2, <1>4, <2>2, <3>1, AppendSet, AppendFacts
    <3>4. IsInjective(more)
      <4>1. p \notin ToSet(given)
        BY <1>5, <2>2
      <4>2. PICK one : one = <<p>>
        OBVIOUS
      <4>3. one \in Seq(Paths) /\ IsInjective(one) /\ ToSet(one) = {p}
        BY <2>2, <4>2 DEF IsInjective, ToSet
      <4>4. more = given \o one
        BY <1>2, <1>4, <2>2, <3>1, <4>2
      <4>5. QED
        BY <1>2, <1>4, <1>5, <4>1, <4>3, <4>4, JoinFacts
    <3>5. IsInjective(more \o rest)
      BY <1>5, <2>2, <3>3, <3>4, JoinFacts
    <3>6. PICK t : t = [topic EXCEPT !.left = rest, !.given = more, !.total = sum]
      OBVIOUS
    <3>7. Steps1(t)
      BY <1>4, <1>8, <2>1, <2>4, <3>1, <3>6 DEF Read1
    <3>8. t \in TopicSet
      BY <1>1, <2>2, <3>2, <3>3, <3>6 DEF TopicSet
    <3>9. /\ t.at = "read" /\ t.matched = topic.matched /\ t.rest = topic.rest /\ t.given = more /\ t.left = rest
          /\ t.want = topic.want /\ t.total = sum /\ t.scores = topic.scores
      BY <1>1, <1>4, <3>6 DEF TopicSet
    <3>10. TopicTyped(t)
      BY <1>1, <1>2, <3>2, <3>5, <3>8, <3>9 DEF TopicTyped
    <3>11. ASSUME ~stirred["topic"] PROVE TopicStill(t, graph, onDisk)
      BY <1>6, <3>9, <3>11, <1>4, <2>2, <3>3 DEF Known, Backed, Covered, BestFirst, TopicStill
    <3>12. QED
      BY <3>7, <3>10, <3>11, Steps1Makes
  <2>5. QED
    BY <2>3, <2>4
<1>9. QED
  BY <1>7, <1>8

LEMMA TopicBegins == InsightInit => TopicInv
<1> SUFFICES ASSUME InsightInit PROVE TopicInv
  OBVIOUS
<1>1. topic = NoTopic /\ stirred = [r \in Readers |-> FALSE]
  BY DEF InsightInit
<1>2. NoTopic \in TopicSet
  BY NoTopicFits
<1>3. /\ NoTopic.at = "none" /\ NoTopic.matched = <<>> /\ NoTopic.rest = <<>> /\ NoTopic.given = <<>> /\ NoTopic.left = <<>>
  BY DEF NoTopic
<1>4. ToSet(<<>>) = {} /\ <<>> \o <<>> = <<>> /\ IsInjective(<<>>)
  BY DEF ToSet, IsInjective
<1>5. TopicTyped(NoTopic)
  BY <1>2, <1>3, <1>4 DEF TopicTyped
<1>6. TopicStill(NoTopic, graph, onDisk)
  BY <1>3, <1>4 DEF TopicStill, Known, Scoring
<1>7. QED
  BY <1>1, <1>5, <1>6 DEF TopicInv

\* Neither a fused search nor a merge touches a note.
LEMMA FusingLeaves == Fusing => onDisk' = onDisk
<1>1. \A term : Fuse(term) => onDisk' = onDisk
  BY DEF Fuse
<1>2. \A f : Fuses1(f) => onDisk' = onDisk
  BY DEF Fuses1, Quietly
<1>3. GraphAndVector => onDisk' = onDisk
  BY <1>2 DEF GraphAndVector
<1>4. \A n, term : FindDuplicates(n, term) => onDisk' = onDisk
  BY DEF FindDuplicates
<1>5. CheckDuplicates \/ MergeDuplicate \/ MergeEnds => onDisk' = onDisk
  BY <1>2 DEF CheckDuplicates, MergeDuplicate, MergeEnds
<1>6. MoveEdge => onDisk' = onDisk
  BY <1>2 DEF MoveEdge
<1>7. WriteAlias \/ DropDuplicate => onDisk' = onDisk
  BY DEF WriteAlias, DropDuplicate
<1>8. QED
  BY <1>1, <1>3, <1>4, <1>5, <1>6, <1>7 DEF Fusing

LEMMA TopicStays == KeptInv /\ TopicInv /\ [InsightNext]_insightVars => TopicInv'
<1> SUFFICES ASSUME KeptInv, TopicInv, [InsightNext]_insightVars PROVE TopicInv'
  OBVIOUS
<1>0. BaseInv /\ FusionInv
  BY DEF KeptInv
<1>1. ASSUME topic' = topic, stirred'["topic"] \/ (graph' = graph /\ onDisk' = onDisk /\ stirred'["topic"] = stirred["topic"])
      PROVE  TopicInv'
  BY <1>1 DEF TopicInv
<1>2. CASE UNCHANGED insightVars
  BY <1>2, <1>1 DEF insightVars, graphVars
<1>3. CASE Reads
  BY <1>0, <1>3, RetrieveMakes, MatchMakes, MatchedMakes, NearMakes, HopMakes, DescendMakes, HoppedMakes, RankMakes,
     ReadMakes DEF Reads
<1>4. CASE Shoots
  BY <1>0, <1>4, ShootsMakes, <1>1
<1>5. CASE Fusing
  BY <1>0, <1>5, FusingMakes, FusingLeaves, <1>1 DEF FusionMade
<1>6. CASE Meanwhile
  BY <1>0, <1>6, MeanwhileMakes, <1>1 DEF Readers
<1>7. QED
  BY <1>2, <1>3, <1>4, <1>5, <1>6, NextParts

\* What has a path within reach of a match, and what the best of it is worth.
Near(m) == Distance(graph, m)
Reached(p) ==
  UNION {{<<m, n>> : n \in {k \in DOMAIN Near(m) : graph.ents[k].src = p /\ Near(m)[k] <= Want1.hops}} :
           m \in {topic.matched[i].of : i \in DOMAIN topic.matched}}
Values(p) == {IF Near(w[1])[w[2]] = 0 THEN 1000 ELSE 50 \div Near(w[1])[w[2]] : w \in Reached(p)}
Best(p) == Max({0} \cup Values(p))

LEMMA BestIs ==
  ASSUME BaseInv, TopicInv, topic.at = "read", ~stirred["topic"], Want1.hops > 0
  PROVE  /\ \A p \in Paths : Reached(p) # {} <=> p \in DOMAIN topic.scores
         /\ \A p \in DOMAIN topic.scores : Best(p) = topic.scores[p]
<1>1. /\ TopicTyped(topic) /\ topic \in TopicSet /\ topic.rest = <<>> /\ topic.want = {Want1} /\ topic.matched \in Seq(HeldSet)
      /\ Want1.hops \in Nat /\ topic.scores \in Scores
  BY TheWant DEF TopicInv, TopicTyped, TopicSet
<1>2. PICK s, M : s = topic.scores /\ M = ToSet(topic.matched)
  OBVIOUS
<1>3. DOMAIN s \subseteq Paths /\ \A p \in DOMAIN s : s[p] \in 0..1000
  <2>1. PICK R : R = 0..1000
    OBVIOUS
  <2>2. s \in Partial(Paths, R)
    BY <1>1, <1>2, <2>1 DEF Scores
  <2>3. DOMAIN s \subseteq Paths /\ \A p \in DOMAIN s : s[p] \in R
    BY <2>2, PartialFacts
  <2>4. QED
    BY <2>1, <2>3
<1>4. /\ \A h \in M : h.of \in DOMAIN graph.ents
      /\ Backed(topic, graph, Want1) /\ Covered(topic, graph, Want1)
  BY <1>1, <1>2 DEF TopicInv, TopicStill, Known, Scoring
<1>5. \A h \in M : DistanceLaws(Near(h.of), graph, h.of) /\ DOMAIN Near(h.of) \subseteq DOMAIN graph.ents
  BY <1>4, StillFacts DEF Near
<1>6. \A h \in M : \A x \in DOMAIN Near(h.of) : Near(h.of)[x] \in Nat /\ x \in DOMAIN graph.ents
  BY <1>5 DEF DistanceLaws
<1>7. \A p \in DOMAIN s : \E h \in M : \E x \in DOMAIN Near(h.of) :
        Near(h.of)[x] <= Want1.hops /\ graph.ents[x].src = p /\ s[p] <= Worth(Near(h.of)[x])
  BY <1>2, <1>4 DEF Backed, Within, Near
<1>8. \A h \in M : \A x \in DOMAIN Near(h.of) : Near(h.of)[x] <= Want1.hops =>
        graph.ents[x].src \in DOMAIN s /\ Worth(Near(h.of)[x]) <= s[graph.ents[x].src]
  BY <1>1, <1>2, <1>4, <1>6 DEF ToSet, Covered, Within, Near
<1>9. M = {topic.matched[i] : i \in DOMAIN topic.matched}
  BY <1>2 DEF ToSet
<1>10. ASSUME NEW p, NEW h \in M, NEW x \in DOMAIN Near(h.of), graph.ents[x].src = p, Near(h.of)[x] <= Want1.hops
       PROVE  Reached(p) # {} /\ Worth(Near(h.of)[x]) \in Values(p)
  <2>1. PICK i \in DOMAIN topic.matched : h = topic.matched[i]
    BY <1>9
  <2>2. PICK v, m : m = h.of /\ v = <<m, x>>
    OBVIOUS
  <2>3. v \in Reached(p)
    BY <1>10, <2>1, <2>2 DEF Reached
  <2>4. v[1] = m /\ v[2] = x
    BY <2>2
  <2>5. (IF Near(v[1])[v[2]] = 0 THEN 1000 ELSE 50 \div Near(v[1])[v[2]]) \in Values(p)
    BY <2>3 DEF Values
  <2>6. Worth(Near(h.of)[x]) \in Values(p)
    BY <2>2, <2>4, <2>5 DEF Worth
  <2>7. QED
    BY <2>3, <2>6
<1>11. ASSUME NEW p, NEW v \in Reached(p)
       PROVE  \E h \in M : \E x \in DOMAIN Near(h.of) : v = <<h.of, x>> /\ graph.ents[x].src = p /\ Near(h.of)[x] <= Want1.hops
  BY <1>9 DEF Reached
<1>12. ASSUME NEW p, NEW y \in Values(p)
       PROVE  \E h \in M : \E x \in DOMAIN Near(h.of) : graph.ents[x].src = p /\ Near(h.of)[x] <= Want1.hops /\ y = Worth(Near(h.of)[x])
  BY <1>11 DEF Values, Worth
<1>13. ASSUME NEW p \in Paths PROVE Reached(p) # {} <=> p \in DOMAIN s
  BY <1>7, <1>10, <1>11, <1>8
<1>14. ASSUME NEW p \in DOMAIN s PROVE Best(p) = s[p]
  <2>1. PICK S, b : S = {0} \cup Values(p) /\ b = s[p]
    OBVIOUS
  <2>2. b \in 0..1000
    BY <1>3, <2>1
  <2>3. ASSUME NEW y \in Values(p) PROVE y \in 0..1000 /\ y <= b
    <3>1. PICK h \in M : \E x \in DOMAIN Near(h.of) : graph.ents[x].src = p /\ Near(h.of)[x] <= Want1.hops /\ y = Worth(Near(h.of)[x])
      BY <1>12
    <3>2. PICK x \in DOMAIN Near(h.of) : graph.ents[x].src = p /\ Near(h.of)[x] <= Want1.hops /\ y = Worth(Near(h.of)[x])
      BY <3>1
    <3>3. y \in 0..1000
      BY <1>6, <3>2, WorthFacts, SMTT(30)
    <3>4. Worth(Near(h.of)[x]) <= s[graph.ents[x].src]
      BY <1>8, <3>2
    <3>5. QED
      BY <2>1, <3>2, <3>3, <3>4
  <2>4. b \in Values(p)
    <3>1. PICK h \in M : \E x \in DOMAIN Near(h.of) :
            Near(h.of)[x] <= Want1.hops /\ graph.ents[x].src = p /\ s[p] <= Worth(Near(h.of)[x])
      BY <1>7
    <3>2. PICK x \in DOMAIN Near(h.of) :
            Near(h.of)[x] <= Want1.hops /\ graph.ents[x].src = p /\ s[p] <= Worth(Near(h.of)[x])
      BY <3>1
    <3>3. PICK y : y = Worth(Near(h.of)[x])
      OBVIOUS
    <3>4. y \in Values(p) /\ b <= y
      BY <1>10, <2>1, <3>2, <3>3
    <3>5. y \in 0..1000 /\ y <= b
      BY <2>3, <3>4
    <3>6. y = b
      BY <2>2, <3>4, <3>5
    <3>7. QED
      BY <3>4, <3>6
  <2>5. S \in SUBSET (0..1000) /\ b \in S /\ \A y \in S : y <= b
    <3>1. PICK V : V = Values(p)
      OBVIOUS
    <3>2. \A y \in V : y \in 0..1000 /\ y <= b
      BY <2>3, <3>1
    <3>3. S = {0} \cup V /\ b \in V
      BY <2>1, <2>4, <3>1
    <3>4. QED
      BY <2>2, <3>2, <3>3
  <2>6. Max(S) = b
    BY <2>5, MaxIs
  <2>7. QED
    BY <2>1, <2>6 DEF Best
<1>15. QED
  BY <1>2, <1>13, <1>14

LEMMA ContextsRight == KeptInv /\ TopicInv => ContextRight
<1> SUFFICES ASSUME KeptInv, TopicInv PROVE ContextRight
  OBVIOUS
<1>1. BaseInv /\ TopicTyped(topic) /\ topic \in TopicSet
  BY DEF KeptInv, TopicInv, TopicTyped
<1>2. ASSUME topic.at = "hops", ~stirred["topic"]
      PROVE  /\ \A f \in topic.found : f.of \in DOMAIN Near(Head(topic.rest).of) /\ Near(Head(topic.rest).of)[f.of] = f.depth
             /\ topic.frontier = {} => {f.of : f \in topic.found} =
                  {n \in DOMAIN Near(Head(topic.rest).of) : Near(Head(topic.rest).of)[n] \in 1..topic.depth}
  <2>1. PICK k, dist, d : k = Head(topic.rest) /\ dist = Near(k.of) /\ d = topic.depth
    OBVIOUS
  <2>2. DistanceLaws(dist, graph, k.of) /\ Traversed(topic, graph, dist) /\ d \in Nat /\ d # 0 /\ topic.found \subseteq Visits
    BY <1>1, <1>2, <2>1, HopsFacts DEF Near
  <2>3. \A x \in DOMAIN dist : dist[x] \in Nat
    BY <2>2 DEF DistanceLaws
  <2>4. /\ \A v \in topic.found : v.of \in DOMAIN dist /\ dist[v.of] = v.depth
        /\ \A x \in DOMAIN dist : dist[x] # 0 /\ dist[x] < d => \E v \in topic.found : v.of = x
        /\ topic.next \subseteq {v.of : v \in topic.found}
        /\ \A v \in topic.found : v.depth < d \/ v.of \in topic.next
        /\ \A x \in topic.next : x \in DOMAIN dist /\ dist[x] = d
        /\ \A x \in DOMAIN dist \ topic.frontier : dist[x] + 1 = d => \A y \in Linked(graph, x) : dist[y] = d => y \in topic.next
    BY <2>1, <2>2 DEF Traversed
  <2>5. ASSUME topic.frontier = {} PROVE {f.of : f \in topic.found} = {n \in DOMAIN dist : dist[n] \in 1..d}
    <3>1. ASSUME NEW f \in topic.found PROVE f.of \in DOMAIN dist /\ dist[f.of] \in 1..d
      BY <2>2, <2>4 DEF Visits
    <3>2. ASSUME NEW x \in DOMAIN dist, dist[x] \in 1..d PROVE \E f \in topic.found : f.of = x
      <4>1. dist[x] # 0 /\ (dist[x] < d \/ dist[x] = d)
        BY <2>2, <2>3, <3>2
      <4>2. CASE dist[x] = d
        BY <2>2, <4>2, <2>4, <2>5 DEF DistanceLaws
      <4>3. QED
        BY <2>4, <4>1, <4>2
    <3>3. QED
      BY <3>1, <3>2
  <2>6. QED
    BY <2>1, <2>4, <2>5
<1>3. ASSUME topic.at = "read", ~stirred["topic"], Want1.hops > 0
      PROVE  /\ \A p \in ToSet(topic.left), q \in Paths \ (ToSet(topic.left) \cup ToSet(topic.given)) :
                  q \in onDisk \cap DOMAIN topic.scores => Best(p) >= Best(q)
             /\ \A p \in Paths : Reached(p) # {} <=> p \in DOMAIN topic.scores
  BY <1>1, <1>3, BestIs DEF TopicInv, TopicStill, BestFirst
<1>4. IsInjective(topic.given \o topic.left)
  BY <1>1 DEF TopicTyped
<1>5. topic.given # <<>> => topic.total <= Want1.chars
  BY <1>1, TheWant DEF TopicTyped
<1>6. QED
  BY <1>2, <1>3, <1>4, <1>5 DEF ContextRight, Near, Reached, Values, Best

\* What a context, a snapshot, the analytics, a fused search and a merge give is right
\* unless a writer stirred the graph in between: GraphRetriever.retrieve, the index's
\* snapshot, god_nodes and detect_communities, the fused search and merge_entities.
THEOREM InsightHolds == InsightSpec => []InsightSound
<1>1. InsightInit => KeptInv /\ TopicInv
  BY KeptBegins, TopicBegins
<1>2. KeptInv /\ TopicInv /\ [InsightNext]_insightVars => (KeptInv /\ TopicInv)'
  BY KeptStays, TopicStays
<1>3. KeptInv /\ TopicInv => InsightSound
  BY ContextsRight, SnapshotsRight, AnalyticsAreRight, FusionsRight, MergesRight DEF InsightSound
<1>4. QED
  BY <1>1, <1>2, <1>3, PTL DEF InsightSpec
=============================================================================
