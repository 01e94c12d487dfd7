---------------------------- MODULE GardenProofs ----------------------------
(***************************************************************************)
(* Proofs about Garden, for any paths, titles, folders, tasks and          *)
(* workloads: all of its state has its type (GardenTypeOK); no text of a   *)
(* note disappears but by a deletion or a task that worked from what       *)
(* another had changed, and a note's folder follows its maturity           *)
(* (VaultSafe); and once everything has come to rest, index, vectors and   *)
(* graph say what the notes say (DerivedAgree).                            *)
(*                                                                         *)
(* First the values and the graph's rows, then what each action does to    *)
(* what it touches; then one invariant after another, each with one lemma  *)
(* per kind of action:                                                     *)
(*   ShapeInv, OldFound, LockInv   types, and who holds which path         *)
(*   TextInv, FolderInv            texts that somebody carries, folders    *)
(*   FreshInv                      what is being processed is current      *)
(*   IndexInv, VectorInv           the index and the vectors agree, or     *)
(*                                 somebody is about to make them          *)
(*   RowsInv, SaidInv              the graph's rows fit each other, and    *)
(*                                 say what the notes say, or somebody is  *)
(*                                 about to make them                      *)
(***************************************************************************)
EXTENDS Garden, FiniteSetTheorems, SequenceTheorems, TLAPS

-----------------------------------------------------------------------------
\* Values.

LEMMA TheOne == ASSUME NEW x PROVE (CHOOSE y \in {x} : TRUE) = x
OBVIOUS

LEMMA PutFacts ==
  ASSUME NEW f, NEW x, NEW v
  PROVE  /\ DOMAIN Put(f, x, v) = DOMAIN f \cup {x}
         /\ Put(f, x, v)[x] = v
         /\ \A y \in DOMAIN f : y # x => Put(f, x, v)[y] = f[y]
BY DEF Put

LEMMA DropFacts ==
  ASSUME NEW f, NEW s
  PROVE  /\ DOMAIN Drop(f, s) = DOMAIN f \ s
         /\ \A y \in DOMAIN f \ s : Drop(f, s)[y] = f[y]
BY DEF Drop, Restrict

\* Functions from some of D to R.
Partial(D, R) == UNION {[S -> R] : S \in SUBSET D}

LEMMA PartialFacts ==
  ASSUME NEW D, NEW R, NEW f \in Partial(D, R)
  PROVE  DOMAIN f \subseteq D /\ \A x \in DOMAIN f : f[x] \in R
BY DEF Partial

LEMMA PartialPut ==
  ASSUME NEW D, NEW R, NEW f \in Partial(D, R), NEW x \in D, NEW v \in R
  PROVE  Put(f, x, v) \in Partial(D, R)
<1>1. DOMAIN f \cup {x} \in SUBSET D /\ \A y \in DOMAIN f : f[y] \in R
  BY PartialFacts
<1>2. Put(f, x, v) \in [DOMAIN f \cup {x} -> R]
  BY <1>1 DEF Put
<1> QED  BY <1>1, <1>2 DEF Partial

LEMMA PartialDrop ==
  ASSUME NEW D, NEW R, NEW f \in Partial(D, R), NEW s
  PROVE  Drop(f, s) \in Partial(D, R)
<1>1. DOMAIN f \ s \in SUBSET D /\ \A y \in DOMAIN f : f[y] \in R
  BY PartialFacts
<1>2. Drop(f, s) \in [DOMAIN f \ s -> R]
  BY <1>1 DEF Drop, Restrict
<1> QED  BY <1>1, <1>2 DEF Partial

\* A vault, or an index.
IsVault(f) == f \in Partial(Paths, Notes)

LEMMA NameFacts ==
  /\ \A p \in Paths : OwnName[p] \in Names
  /\ \A t \in Titles : <<t, 0>> \in Names /\ <<"entities", t, 0>> \in Paths
BY OwnNameAssumption, DirsAssumption, PathsAssumption, NamesAssumption

LEMMA NoteFacts ==
  ASSUME NEW c \in Notes
  PROVE  /\ TextsOf(c) \subseteq Texts /\ c.shown \in SUBSET Paths /\ c.states \in SUBSET Names
         /\ c.status \in Statuses /\ c.maturity \in Statuses
BY DEF Notes, TextsOf

LEMMA LinkFacts ==
  ASSUME NEW p \in Paths, NEW c \in Notes
  PROVE  /\ LinksOf(c) \subseteq Names
         /\ StatedBy(p, c) \subseteq Names
         /\ EdgesBy(p, c) \subseteq Edges
<1>1. LinksOf(c) \subseteq Names
  BY NoteFacts, LinksAssumption, NameFacts DEF LinksOf
<1>2. StatedBy(p, c) \subseteq Names
  BY <1>1, NameFacts, NoteFacts DEF StatedBy, Stated
<1>3. ASSUME NEW n \in Names, NEW s \in BOOLEAN PROVE Edge(p, n, s) \in Edges
  BY NameFacts DEF Edge, Edges, Rels
<1>4. EdgesBy(p, c) \subseteq Edges
  BY <1>1, <1>3, NoteFacts DEF EdgesBy, StatedEdges
<1> QED  BY <1>1, <1>2, <1>4

\* Every relationship is from the note to one of the names it states.
LEMMA EdgesByFacts ==
  ASSUME NEW p \in Paths, NEW c \in Notes, NEW e \in EdgesBy(p, c)
  PROVE  /\ e.src = p /\ e.from \in StatedBy(p, c) /\ e.to \in StatedBy(p, c)
         /\ ~e.old /\ (e.rel = "states" => e.strong)
BY DEF EdgesBy, StatedEdges, StatedBy, Stated, Edge

-----------------------------------------------------------------------------
\* What the writes to the graph do.

Ents == [src: Paths, old: BOOLEAN]
Rows == [ents: Partial(Names, Ents), prov: SUBSET (Names \X Paths), edges: SUBSET Edges,
         hashes: Partial(Paths, Notes), bereft: SUBSET Names, lent: SUBSET Paths]

LEMMA RowsFacts ==
  ASSUME NEW g \in Rows
  PROVE  /\ IsGraph(g)
         /\ DOMAIN g.ents \subseteq Names /\ \A n \in DOMAIN g.ents : g.ents[n] \in Ents
         /\ DOMAIN g.hashes \subseteq Paths /\ \A p \in DOMAIN g.hashes : g.hashes[p] \in Notes
<1>1. g.ents \in Partial(Names, Ents) /\ g.hashes \in Partial(Paths, Notes)
  BY DEF Rows
<1>2. /\ DOMAIN g.ents \subseteq Names /\ \A n \in DOMAIN g.ents : g.ents[n] \in Ents
      /\ DOMAIN g.hashes \subseteq Paths /\ \A p \in DOMAIN g.hashes : g.hashes[p] \in Notes
  BY <1>1, PartialFacts
<1>3. g.prov \subseteq Names \X Paths /\ g.edges \subseteq Edges /\ g.bereft \subseteq Names /\ g.lent \subseteq Paths
  BY DEF Rows
<1> QED  BY <1>2, <1>3, ContentsAssumption DEF IsGraph, Ents

Upserted(g, h, p, names) ==
  /\ h \in Rows
  /\ DOMAIN h.ents = DOMAIN g.ents \cup names
  /\ \A n \in names : h.ents[n] = [src |-> p, old |-> FALSE]
  /\ \A n \in DOMAIN g.ents : n \notin names => h.ents[n] = g.ents[n]
  /\ h.prov = g.prov \cup (names \X {p})
  /\ h.edges = g.edges /\ h.hashes = g.hashes /\ h.lent = g.lent
  /\ h.bereft = g.bereft \ names

LEMMA UpsertEntitiesFacts ==
  ASSUME NEW g \in Rows, NEW p \in Paths, NEW names \in SUBSET Names
  PROVE  Upserted(g, UpsertEntities(g, p, names), p, names)
<1> DEFINE ents == [n \in DOMAIN g.ents \cup names |->
                        IF n \in names THEN [src |-> p, old |-> FALSE] ELSE g.ents[n]]
           prov == g.prov \cup (names \X {p})
           h == UpsertEntities(g, p, names)
<1>1. ents \in Partial(Names, Ents)
  <2>1. DOMAIN g.ents \cup names \in SUBSET Names
    BY RowsFacts
  <2>2. \A n \in DOMAIN g.ents \cup names : (IF n \in names THEN [src |-> p, old |-> FALSE] ELSE g.ents[n]) \in Ents
    BY RowsFacts DEF Ents
  <2>3. ents \in [DOMAIN g.ents \cup names -> Ents]
    BY <2>2
  <2> QED  BY <2>1, <2>3 DEF Partial
<1>2. prov \subseteq Names \X Paths
  BY DEF Rows
<1>3. /\ h.ents = ents /\ h.prov = prov /\ h.bereft = g.bereft \ names
      /\ h.edges = g.edges /\ h.hashes = g.hashes /\ h.lent = g.lent
  BY DEF UpsertEntities, Rows
<1>4. h \in Rows
  BY <1>1, <1>2 DEF UpsertEntities, ents, prov, Rows
<1> QED  BY <1>3, <1>4 DEF Upserted

LEMMA UpsertEdgesFacts ==
  ASSUME NEW g \in Rows, NEW es \in SUBSET Edges
  PROVE  LET h == UpsertEdges(g, es) IN
         /\ h \in Rows
         /\ h.ents = g.ents /\ h.prov = g.prov /\ h.hashes = g.hashes /\ h.bereft = g.bereft
         /\ h.edges = g.edges \cup {e \in es : ~\E f \in g.edges : Alike(e, f)}
         /\ h.lent = g.lent \cup {e.src : e \in {x \in es : \E f \in g.edges : Alike(x, f) /\ f.src # x.src}}
<1> DEFINE edges == g.edges \cup {e \in es : ~\E f \in g.edges : Alike(e, f)}
           lent == g.lent \cup {e.src : e \in {x \in es : \E f \in g.edges : Alike(x, f) /\ f.src # x.src}}
<1>1. edges \subseteq Edges
  BY DEF Rows
<1>2. lent \subseteq Paths
  BY DEF Rows, Edges
<1>3. UpsertEdges(g, es) = [[g EXCEPT !.edges = edges] EXCEPT !.lent = lent]
  BY DEF UpsertEdges, Rows
<1> HIDE DEF edges, lent
<1>4. PICK ed, le : ed = edges /\ le = lent
  OBVIOUS
<1>5. [[g EXCEPT !.edges = ed] EXCEPT !.lent = le] \in Rows
  BY <1>1, <1>2, <1>4 DEF Rows
<1> QED  BY <1>3, <1>4, <1>5 DEF edges, lent, Rows

LEMMA DeleteSourceFacts ==
  ASSUME NEW g \in Rows, NEW p \in Paths
  PROVE  LET h == DeleteSource(g, p)
             out == Unowned(g, h.prov, p) IN
         /\ h \in Rows
         /\ h.prov = {s \in g.prov : s[2] # p}
         /\ DOMAIN h.ents = DOMAIN g.ents \ out
         /\ \A n \in DOMAIN h.ents : h.ents[n] = g.ents[n]
         /\ h.edges = {e \in g.edges : e.src # p /\ {e.from, e.to} \cap out = {}}
         /\ DOMAIN h.hashes = DOMAIN g.hashes \ {p}
         /\ \A q \in DOMAIN h.hashes : h.hashes[q] = g.hashes[q]
         /\ h.bereft = (g.bereft \ out) \cup {n \in DOMAIN g.ents \ out : g.ents[n].src = p}
         /\ h.lent = g.lent \ {p}
<1> DEFINE prov == {s \in g.prov : s[2] # p}
           out == Unowned(g, prov, p)
           ents == Drop(g.ents, out)
           hashes == Drop(g.hashes, {p})
           edges == {e \in g.edges : e.src # p /\ {e.from, e.to} \cap out = {}}
           bereft == (g.bereft \ out) \cup {n \in DOMAIN g.ents \ out : g.ents[n].src = p}
<1>1. DeleteSource(g, p) = [ents |-> ents, prov |-> prov, edges |-> edges, hashes |-> hashes,
                            bereft |-> bereft, lent |-> g.lent \ {p}]
  BY DEF DeleteSource
<1>2. DOMAIN ents = DOMAIN g.ents \ out /\ \A n \in DOMAIN ents : ents[n] = g.ents[n]
  <2> HIDE DEF out
  <2>1. PICK f, o : f = g.ents /\ o = out
    OBVIOUS
  <2>2. DOMAIN Drop(f, o) = DOMAIN f \ o /\ \A n \in DOMAIN f \ o : Drop(f, o)[n] = f[n]
    BY DropFacts
  <2> QED  BY <2>1, <2>2
<1>3. DOMAIN hashes = DOMAIN g.hashes \ {p} /\ \A q \in DOMAIN hashes : hashes[q] = g.hashes[q]
  <2>1. PICK f : f = g.hashes
    OBVIOUS
  <2>2. DOMAIN Drop(f, {p}) = DOMAIN f \ {p} /\ \A n \in DOMAIN f \ {p} : Drop(f, {p})[n] = f[n]
    BY DropFacts
  <2> QED  BY <2>1, <2>2
<1>4. prov \subseteq Names \X Paths /\ edges \subseteq Edges /\ bereft \subseteq Names /\ g.lent \ {p} \subseteq Paths
  BY RowsFacts DEF Rows
<1>5. ents \in Partial(Names, Ents) /\ hashes \in Partial(Paths, Notes)
  BY PartialDrop DEF Rows
<1> HIDE DEF ents, hashes, edges, bereft, prov, out
<1>6. PICK en, pr, ed, ha, be, le : en = ents /\ pr = prov /\ ed = edges /\ ha = hashes /\ be = bereft /\ le = g.lent \ {p}
  OBVIOUS
<1>7. [ents |-> en, prov |-> pr, edges |-> ed, hashes |-> ha, bereft |-> be, lent |-> le] \in Rows
  BY <1>4, <1>5, <1>6 DEF Rows
<1>8. DeleteSource(g, p) \in Rows
  BY <1>1, <1>6, <1>7
<1>9. DeleteSource(g, p).prov = prov /\ Unowned(g, DeleteSource(g, p).prov, p) = out
  BY <1>1 DEF out, prov
<1>10. /\ DeleteSource(g, p).ents = ents /\ DeleteSource(g, p).edges = edges
       /\ DeleteSource(g, p).hashes = hashes /\ DeleteSource(g, p).bereft = bereft
       /\ DeleteSource(g, p).lent = g.lent \ {p}
  BY <1>1
<1> QED  BY <1>2, <1>3, <1>8, <1>9, <1>10 DEF edges, bereft, prov

\* The same, with what goes given a name.
Deleted(g, h, p, out) ==
  /\ \A n : n \in out <=> n \in DOMAIN g.ents /\ g.ents[n].src = p /\ ~\E q \in Paths \ {p} : <<n, q>> \in g.prov
  /\ h \in Rows
  /\ h.prov = {s \in g.prov : s[2] # p}
  /\ DOMAIN h.ents = DOMAIN g.ents \ out
  /\ \A n \in DOMAIN h.ents : h.ents[n] = g.ents[n]
  /\ h.edges = {e \in g.edges : e.src # p /\ {e.from, e.to} \cap out = {}}
  /\ DOMAIN h.hashes = DOMAIN g.hashes \ {p}
  /\ \A q \in DOMAIN h.hashes : h.hashes[q] = g.hashes[q]
  /\ h.bereft = (g.bereft \ out) \cup {n \in DOMAIN g.ents \ out : g.ents[n].src = p}
  /\ h.lent = g.lent \ {p}

LEMMA DeleteSourceParts ==
  ASSUME NEW g \in Rows, NEW p \in Paths
  PROVE  \E out : Deleted(g, DeleteSource(g, p), p, out)
<1> DEFINE h == DeleteSource(g, p)
           o == Unowned(g, h.prov, p)
<1>1. /\ h \in Rows
      /\ h.prov = {s \in g.prov : s[2] # p}
      /\ DOMAIN h.ents = DOMAIN g.ents \ o
      /\ \A n \in DOMAIN h.ents : h.ents[n] = g.ents[n]
      /\ h.edges = {e \in g.edges : e.src # p /\ {e.from, e.to} \cap o = {}}
      /\ DOMAIN h.hashes = DOMAIN g.hashes \ {p}
      /\ \A q \in DOMAIN h.hashes : h.hashes[q] = g.hashes[q]
      /\ h.bereft = (g.bereft \ o) \cup {n \in DOMAIN g.ents \ o : g.ents[n].src = p}
      /\ h.lent = g.lent \ {p}
  BY DeleteSourceFacts
<1> HIDE DEF h
<1>2. \A n : n \in o <=> n \in DOMAIN g.ents /\ g.ents[n].src = p /\ ~\E q \in Paths \ {p} : <<n, q>> \in g.prov
  BY <1>1 DEF Rows, Unowned
<1> HIDE DEF o
<1>3. Deleted(g, h, p, o)
  BY <1>1, <1>2 DEF Deleted
<1> QED  BY <1>3 DEF h

\* The same rows, but for what is not asked of them.
SameRows(g, h) ==
  /\ h \in Rows
  /\ DOMAIN h.ents = DOMAIN g.ents /\ \A n \in DOMAIN g.ents : h.ents[n].src = g.ents[n].src
  /\ h.prov = g.prov /\ h.hashes = g.hashes /\ h.bereft = g.bereft /\ h.lent = g.lent
  /\ \A f \in h.edges : \E e \in g.edges : Alike(e, f) /\ e.src = f.src
  /\ \A e \in g.edges : \E f \in h.edges : Alike(e, f) /\ e.src = f.src

LEMMA AlikeFacts ==
  /\ \A e : Alike(e, e)
  /\ \A e, f : Alike(e, f) => Alike(f, e)
  /\ \A e, f, d : Alike(e, f) /\ Alike(f, d) => Alike(e, d)
BY DEF Alike

LEMMA EntsFacts ==
  ASSUME NEW g \in Rows, NEW f, DOMAIN f = DOMAIN g.ents, f = [n \in DOMAIN g.ents |-> f[n]],
         \A n \in DOMAIN g.ents : f[n] \in Ents
  PROVE  f \in Partial(Names, Ents)
BY RowsFacts DEF Partial

LEMMA ConfirmFacts ==
  ASSUME NEW g \in Rows, NEW p \in Paths
  PROVE  SameRows(g, Confirm(g, p)) /\ Confirm(g, p).edges = g.edges
<1> DEFINE ents == [n \in DOMAIN g.ents |-> IF g.ents[n].src = p THEN [g.ents[n] EXCEPT !.old = FALSE] ELSE g.ents[n]]
           h == Confirm(g, p)
<1>1. \A n \in DOMAIN g.ents : ents[n] \in Ents /\ ents[n].src = g.ents[n].src
  BY RowsFacts DEF Ents
<1>2. ents \in Partial(Names, Ents)
  <2>1. ents \in [DOMAIN g.ents -> Ents]
    BY <1>1
  <2> QED  BY <2>1, RowsFacts DEF Partial
<1>3. h = [g EXCEPT !.ents = ents]
  BY DEF Confirm
<1>4. DOMAIN ents = DOMAIN g.ents
  OBVIOUS
<1> HIDE DEF ents
<1>5. h \in Rows /\ h.ents = ents /\ h.prov = g.prov /\ h.hashes = g.hashes /\ h.bereft = g.bereft
      /\ h.lent = g.lent /\ h.edges = g.edges
  BY <1>2, <1>3 DEF Rows
<1> QED  BY <1>1, <1>4, <1>5, AlikeFacts DEF SameRows

LEMMA ReplaceEdges ==
  ASSUME NEW g \in Rows, NEW h, NEW es \in SUBSET Edges, h = [g EXCEPT !.edges = es],
         \A f \in es : \E e \in g.edges : Alike(e, f) /\ e.src = f.src,
         \A e \in g.edges : \E f \in es : Alike(e, f) /\ e.src = f.src
  PROVE  SameRows(g, h) /\ h.edges = es /\ h.ents = g.ents
BY DEF Rows, SameRows

LEMMA EdgeChange ==
  ASSUME NEW e \in Edges, NEW b \in BOOLEAN
  PROVE  /\ [e EXCEPT !.strong = b] \in Edges /\ Alike(e, [e EXCEPT !.strong = b]) /\ [e EXCEPT !.strong = b].src = e.src
         /\ [e EXCEPT !.strong = b].strong = b /\ [e EXCEPT !.strong = b].old = e.old /\ [e EXCEPT !.strong = b].rel = e.rel
         /\ [e EXCEPT !.old = b] \in Edges /\ Alike(e, [e EXCEPT !.old = b]) /\ [e EXCEPT !.old = b].src = e.src
         /\ [e EXCEPT !.old = b].old = b
BY DEF Edges, Alike

LEMMA PromoteFacts ==
  ASSUME NEW g \in Rows, NEW ns
  PROVE  LET h == PromoteEdges(g, ns) IN
         /\ SameRows(g, h)
         /\ \A f \in h.edges : f \in g.edges \/ f.strong
<1> DEFINE new(e) == IF e.to \in ns THEN [e EXCEPT !.strong = TRUE] ELSE e
           es == {new(e) : e \in g.edges}
<1>1. g.edges \subseteq Edges
  BY DEF Rows
<1>2. \A e \in g.edges : new(e) \in Edges /\ Alike(e, new(e)) /\ e.src = new(e).src /\ (new(e) = e \/ new(e).strong)
  BY <1>1, EdgeChange, AlikeFacts
<1>3. PromoteEdges(g, ns) = [g EXCEPT !.edges = es]
  BY DEF PromoteEdges
<1> HIDE DEF new
<1>4. es \in SUBSET Edges
  BY <1>2
<1>5. /\ \A f \in es : \E e \in g.edges : Alike(e, f) /\ e.src = f.src
      /\ \A e \in g.edges : \E f \in es : Alike(e, f) /\ e.src = f.src
  BY <1>2
<1>6. \A f \in es : f \in g.edges \/ f.strong
  BY <1>2
<1> HIDE DEF es
<1>7. PICK h : h = [g EXCEPT !.edges = es]
  OBVIOUS
<1>8. SameRows(g, h) /\ h.edges = es
  BY <1>4, <1>5, <1>7, ReplaceEdges
<1> QED  BY <1>3, <1>6, <1>7, <1>8

LEMMA DemoteFacts ==
  ASSUME NEW g \in Rows, NEW ds
  PROVE  LET h == DemoteEdges(g, ds) IN
         /\ SameRows(g, h)
         /\ \A f \in h.edges : f \in g.edges \/ \E e \in ds : f.old = e.old
<1> DEFINE new(e) == IF e \in ds THEN [e EXCEPT !.strong = FALSE] ELSE e
           es == {new(e) : e \in g.edges}
<1>1. g.edges \subseteq Edges
  BY DEF Rows
<1>2. \A e \in g.edges : new(e) \in Edges /\ Alike(e, new(e)) /\ e.src = new(e).src
                         /\ (new(e) = e \/ (e \in ds /\ new(e).old = e.old))
  BY <1>1, EdgeChange, AlikeFacts
<1>3. DemoteEdges(g, ds) = [g EXCEPT !.edges = es]
  BY DEF DemoteEdges
<1> HIDE DEF new
<1>4. es \in SUBSET Edges
  BY <1>2
<1>5. /\ \A f \in es : \E e \in g.edges : Alike(e, f) /\ e.src = f.src
      /\ \A e \in g.edges : \E f \in es : Alike(e, f) /\ e.src = f.src
  BY <1>2
<1>6. \A f \in es : f \in g.edges \/ \E e \in ds : f.old = e.old
  BY <1>2
<1> HIDE DEF es
<1>7. PICK h : h = [g EXCEPT !.edges = es]
  OBVIOUS
<1>8. SameRows(g, h) /\ h.edges = es
  BY <1>4, <1>5, <1>7, ReplaceEdges
<1> QED  BY <1>3, <1>6, <1>7, <1>8

LEMMA AgedFacts ==
  ASSUME NEW g \in Rows
  PROVE  /\ SameRows(g, Aged(g))
         /\ \A f \in Aged(g).edges : f.old
<1> DEFINE ents == [n \in DOMAIN g.ents |-> [g.ents[n] EXCEPT !.old = TRUE]]
           es == {[e EXCEPT !.old = TRUE] : e \in g.edges}
           h == [g EXCEPT !.ents = ents]
<1>1. \A n \in DOMAIN g.ents : ents[n] \in Ents /\ ents[n].src = g.ents[n].src
  BY RowsFacts DEF Ents
<1>2. ents \in Partial(Names, Ents)
  <2>1. ents \in [DOMAIN g.ents -> Ents]
    BY <1>1
  <2> QED  BY <2>1, RowsFacts DEF Partial
<1>3. DOMAIN ents = DOMAIN g.ents
  OBVIOUS
<1>4. \A e \in g.edges : LET f == [e EXCEPT !.old = TRUE] IN f \in Edges /\ Alike(e, f) /\ e.src = f.src /\ f.old
  BY EdgeChange DEF Rows
<1>5. /\ es \in SUBSET Edges
      /\ \A f \in es : \E e \in g.edges : Alike(e, f) /\ e.src = f.src
      /\ \A e \in g.edges : \E f \in es : Alike(e, f) /\ e.src = f.src
      /\ \A f \in es : f.old
  BY <1>4
<1>6. Aged(g) = [[g EXCEPT !.ents = ents] EXCEPT !.edges = es]
  BY DEF Aged, Rows
<1> HIDE DEF ents, es
<1>7. h \in Rows /\ h.ents = ents /\ h.prov = g.prov /\ h.hashes = g.hashes /\ h.bereft = g.bereft
      /\ h.lent = g.lent /\ h.edges = g.edges
  BY <1>2 DEF Rows
<1> HIDE DEF h
<1>8. Aged(g) = [h EXCEPT !.edges = es]
  BY <1>6 DEF h
<1>9. SameRows(h, Aged(g)) /\ Aged(g).edges = es /\ Aged(g).ents = ents
  BY <1>5, <1>7, <1>8 DEF Rows, SameRows
<1>10. SameRows(g, h)
  BY <1>1, <1>3, <1>7, AlikeFacts DEF SameRows
<1>11. SameRows(g, Aged(g))
  BY <1>1, <1>3, <1>7, <1>9 DEF SameRows
<1> QED  BY <1>5, <1>9, <1>11

LEMMA HashFacts ==
  ASSUME NEW g \in Rows, NEW p \in Paths, NEW c \in Notes
  PROVE  LET h == [g EXCEPT !.hashes = Put(@, p, c)] IN
         /\ h \in Rows
         /\ h.ents = g.ents /\ h.prov = g.prov /\ h.edges = g.edges /\ h.bereft = g.bereft /\ h.lent = g.lent
         /\ DOMAIN h.hashes = DOMAIN g.hashes \cup {p} /\ h.hashes[p] = c
         /\ \A q \in DOMAIN g.hashes : q # p => h.hashes[q] = g.hashes[q]
BY PartialPut DEF Rows, Put

-----------------------------------------------------------------------------
\* No relationship without its entities, no entity without a note, and what a frontmatter
\* states is strong while it is young.

EdgesFit(g) == \A e \in g.edges : {e.from, e.to} \subseteq DOMAIN g.ents
StatesStrong(g) == \A e \in g.edges : e.rel = "states" /\ ~e.old => e.strong
Owned(g) == \A n \in DOMAIN g.ents : <<n, g.ents[n].src>> \in g.prov \/ n \in g.bereft
Sound(g) == EdgesFit(g) /\ StatesStrong(g) /\ Owned(g)

LEMMA SoundUpsertEntities ==
  ASSUME NEW g \in Rows, Sound(g), NEW p \in Paths, NEW names \in SUBSET Names
  PROVE  Sound(UpsertEntities(g, p, names))
<1> DEFINE h == UpsertEntities(g, p, names)
<1>1. Upserted(g, h, p, names)
  BY UpsertEntitiesFacts
<1> HIDE DEF h
<1>2. EdgesFit(h) /\ StatesStrong(h)
  BY <1>1 DEF Sound, EdgesFit, StatesStrong, Upserted
<1>3. Owned(h)
  BY <1>1 DEF Sound, Owned, Upserted
<1> QED  BY <1>2, <1>3 DEF Sound, h

LEMMA SoundUpsertEdges ==
  ASSUME NEW g \in Rows, Sound(g), NEW es \in SUBSET Edges,
         \A e \in es : {e.from, e.to} \subseteq DOMAIN g.ents /\ (e.rel = "states" => e.strong)
  PROVE  Sound(UpsertEdges(g, es))
BY UpsertEdgesFacts DEF Sound, EdgesFit, StatesStrong, Owned

LEMMA SoundDeleteSource ==
  ASSUME NEW g \in Rows, Sound(g), NEW p \in Paths
  PROVE  Sound(DeleteSource(g, p))
<1> DEFINE h == DeleteSource(g, p)
<1>2. PICK out : Deleted(g, h, p, out)
  BY DeleteSourceParts
<1> HIDE DEF h
<1>3. EdgesFit(h)
  BY <1>2 DEF Sound, EdgesFit, Deleted
<1>4. StatesStrong(h)
  BY <1>2 DEF Sound, StatesStrong, Deleted
<1>5. Owned(h)
  BY <1>2, RowsFacts DEF Sound, Owned, Deleted, Ents, Rows
<1> QED  BY <1>3, <1>4, <1>5 DEF Sound, h

LEMMA SoundSame ==
  ASSUME NEW g, NEW h, Sound(g), SameRows(g, h), \A f \in h.edges : f \in g.edges \/ f.strong \/ f.old
  PROVE  Sound(h)
BY DEF Sound, EdgesFit, SameRows, Alike, StatesStrong, Owned

LEMMA SoundHash ==
  ASSUME NEW g \in Rows, Sound(g), NEW p \in Paths, NEW c \in Notes
  PROVE  Sound([g EXCEPT !.hashes = Put(@, p, c)])
BY HashFacts DEF Sound, EdgesFit, StatesStrong, Owned

\* What a write for one note leaves as it is for another.
Keeps(g, h, q) ==
  /\ StatedIn(h, q) = StatedIn(g, q)
  /\ StatedIn(g, q) \subseteq DOMAIN g.ents => StatedIn(g, q) \subseteq DOMAIN h.ents
  /\ AllAlike(RowsOf(h, q), RowsOf(g, q))
  /\ \A f \in RowsOf(g, q) : f.from \in StatedIn(g, q) /\ f.to \in StatedIn(g, q) => \E k \in RowsOf(h, q) : Alike(f, k)
  /\ q \in g.lent => q \in h.lent

\* Of one note's content: everything; no more than it; everything but relationships.
SaysOf(g, p, c) == Says(g, p, StatedBy(p, c), EdgesBy(p, c))
Part(g, p, c) == StatedIn(g, p) \subseteq StatedBy(p, c) /\ AllAlike(RowsOf(g, p), EdgesBy(p, c))
Half(g, p, c) == StatedIn(g, p) = StatedBy(p, c) /\ StatedBy(p, c) \subseteq DOMAIN g.ents
                 /\ AllAlike(RowsOf(g, p), EdgesBy(p, c))

LEMMA KeepsFacts ==
  ASSUME NEW g, NEW h, NEW p \in Paths, NEW c \in Notes, Keeps(g, h, p)
  PROVE  /\ SaysOf(g, p, c) => SaysOf(h, p, c)
         /\ Part(g, p, c) => Part(h, p, c)
         /\ Half(g, p, c) => Half(h, p, c)
         /\ SaysNothing(g, p) => SaysNothing(h, p)
<1> DEFINE N == StatedBy(p, c)
           E == EdgesBy(p, c)
<1>1. \A e \in E : e.from \in N /\ e.to \in N
  BY EdgesByFacts
<1> HIDE DEF N, E
<1>2. AllAlike(RowsOf(g, p), E) => AllAlike(RowsOf(h, p), E)
  BY AlikeFacts DEF Keeps, AllAlike
<1>3. SaysOf(g, p, c) => SaysOf(h, p, c)
  <2> SUFFICES ASSUME Says(g, p, N, E) PROVE Says(h, p, N, E)
    BY DEF SaysOf, N, E
  <2>1. StatedIn(h, p) = N /\ N \subseteq DOMAIN h.ents /\ StatedIn(g, p) = N
    BY DEF Says, Keeps
  <2>2. AllAlike(RowsOf(h, p), E)
    BY <1>2 DEF Says
  <2>3. ASSUME p \notin h.lent, NEW e \in E PROVE \E f \in RowsOf(h, p) : Alike(e, f)
    BY <2>3, <1>1, <2>1, AlikeFacts DEF Says, AllAlike, Keeps, Alike
  <2> QED  BY <2>1, <2>2, <2>3 DEF Says, AllAlike
<1>4. Part(g, p, c) => Part(h, p, c)
  BY <1>2 DEF Part, Keeps, N, E
<1>5. Half(g, p, c) => Half(h, p, c)
  BY <1>2 DEF Half, Keeps, N, E
<1>6. SaysNothing(g, p) => SaysNothing(h, p)
  BY DEF SaysNothing, Keeps, AllAlike
<1> QED  BY <1>3, <1>4, <1>5, <1>6

LEMMA SaysStronger ==
  ASSUME NEW g, NEW p, NEW c
  PROVE  /\ SaysOf(g, p, c) => Half(g, p, c)
         /\ Half(g, p, c) => Part(g, p, c)
         /\ SaysNothing(g, p) => Part(g, p, c)
BY DEF SaysOf, Says, Half, Part, SaysNothing, AllAlike

LEMMA KeepsTrans ==
  ASSUME NEW g, NEW h, NEW k, NEW q, Keeps(g, h, q), Keeps(h, k, q)
  PROVE  Keeps(g, k, q)
BY AlikeFacts DEF Keeps, AllAlike, Alike

LEMMA KeepsSame ==
  ASSUME NEW g, NEW h, NEW q, SameRows(g, h)
  PROVE  Keeps(g, h, q)
BY AlikeFacts DEF SameRows, StatedIn, AllAlike, RowsOf, Keeps

LEMMA KeepsUpsertEntities ==
  ASSUME NEW g \in Rows, NEW p \in Paths, NEW names \in SUBSET Names, NEW q \in Paths, q # p
  PROVE  Keeps(g, UpsertEntities(g, p, names), q)
<1> DEFINE h == UpsertEntities(g, p, names)
<1>0. Upserted(g, h, p, names)
  BY UpsertEntitiesFacts
<1> HIDE DEF h
<1>1. /\ DOMAIN h.ents = DOMAIN g.ents \cup names /\ h.prov = g.prov \cup (names \X {p})
      /\ h.edges = g.edges /\ h.lent = g.lent
  BY <1>0 DEF Upserted
<1>2. StatedIn(h, q) = StatedIn(g, q)
  BY <1>1 DEF StatedIn
<1>3. RowsOf(h, q) = RowsOf(g, q)
  BY <1>1 DEF RowsOf
<1>4. Keeps(g, h, q)
  BY <1>1, <1>2, <1>3, AlikeFacts DEF Keeps, AllAlike
<1> QED  BY <1>4 DEF h

LEMMA KeepsUpsertEdges ==
  ASSUME NEW g \in Rows, NEW p \in Paths, NEW es \in SUBSET Edges, \A e \in es : e.src = p, NEW q \in Paths, q # p
  PROVE  Keeps(g, UpsertEdges(g, es), q)
BY UpsertEdgesFacts, AlikeFacts DEF StatedIn, RowsOf, Keeps, AllAlike

LEMMA KeepsDeleteSource ==
  ASSUME NEW g \in Rows, NEW p \in Paths, NEW q \in Paths, q # p
  PROVE  Keeps(g, DeleteSource(g, p), q)
<1> DEFINE h == DeleteSource(g, p)
<1>1. PICK out : Deleted(g, h, p, out)
  BY DeleteSourceParts
<1> HIDE DEF h
<1>2. StatedIn(h, q) = StatedIn(g, q)
  BY <1>1 DEF StatedIn, Deleted
<1>3. RowsOf(h, q) \subseteq RowsOf(g, q)
  BY <1>1 DEF RowsOf, Deleted
<1>4. \A n \in StatedIn(g, q) : <<n, q>> \in g.prov
  BY DEF StatedIn, Rows
<1>5. \A n \in StatedIn(g, q) : n \notin out
  BY <1>1, <1>4 DEF Deleted
<1>6. StatedIn(g, q) \subseteq DOMAIN g.ents => StatedIn(g, q) \subseteq DOMAIN h.ents
  BY <1>1, <1>5 DEF Deleted
<1>7. \A f \in RowsOf(g, q) : f.from \in StatedIn(g, q) /\ f.to \in StatedIn(g, q) => f \in RowsOf(h, q)
  BY <1>1, <1>5 DEF RowsOf, Deleted
<1>8. q \in g.lent => q \in h.lent
  BY <1>1 DEF Deleted
<1>9. Keeps(g, h, q)
  BY <1>2, <1>3, <1>6, <1>7, <1>8, AlikeFacts DEF Keeps, AllAlike
<1> QED  BY <1>9 DEF h

LEMMA KeepsHash ==
  ASSUME NEW g \in Rows, NEW p \in Paths, NEW c \in Notes, NEW q
  PROVE  Keeps(g, [g EXCEPT !.hashes = Put(@, p, c)], q)
BY HashFacts, AlikeFacts DEF Keeps, AllAlike, StatedIn, RowsOf

-----------------------------------------------------------------------------
\* What a write does for its own note.

LEMMA DeletedNothing ==
  ASSUME NEW g \in Rows, NEW p \in Paths
  PROVE  LET h == DeleteSource(g, p) IN
         /\ SaysNothing(h, p) /\ p \notin h.lent /\ p \notin DOMAIN h.hashes
         /\ \A q \in DOMAIN h.hashes : q \in DOMAIN g.hashes /\ h.hashes[q] = g.hashes[q]
BY DeleteSourceParts DEF Deleted, StatedIn, RowsOf, SaysNothing

\* Its entities: a part becomes half of what the note says.
LEMMA StatedHalf ==
  ASSUME NEW g \in Rows, NEW p \in Paths, NEW c \in Notes
  PROVE  LET h == UpsertEntities(g, p, StatedBy(p, c)) IN
         /\ Part(g, p, c) => Half(h, p, c)
         /\ SaysOf(g, p, c) => SaysOf(h, p, c)
<1> DEFINE N == StatedBy(p, c)
           E == EdgesBy(p, c)
           h == UpsertEntities(g, p, N)
<1>1. N \subseteq Names
  BY LinkFacts
<1>0. Upserted(g, h, p, N)
  BY <1>1, UpsertEntitiesFacts
<1> HIDE DEF h, N, E
<1>2. /\ DOMAIN h.ents = DOMAIN g.ents \cup N /\ h.prov = g.prov \cup (N \X {p})
      /\ h.edges = g.edges /\ h.lent = g.lent
  BY <1>0 DEF Upserted
<1>3. StatedIn(h, p) = StatedIn(g, p) \cup N
  <2>1. g.prov \subseteq Names \X Paths
    BY DEF Rows
  <2>2. \A n : n \in StatedIn(g, p) <=> <<n, p>> \in g.prov
    BY <2>1 DEF StatedIn
  <2>3. \A n : n \in StatedIn(h, p) <=> <<n, p>> \in h.prov
    BY <2>1, <1>1, <1>2 DEF StatedIn
  <2> QED  BY <2>2, <2>3, <1>2
<1>4. RowsOf(h, p) = RowsOf(g, p)
  BY <1>2 DEF RowsOf
<1>5. Part(g, p, c) => Half(h, p, c)
  BY <1>2, <1>3, <1>4 DEF Part, Half, N, E
<1>6. SaysOf(g, p, c) => SaysOf(h, p, c)
  BY <1>2, <1>3, <1>4 DEF SaysOf, Says, N, E
<1> QED  BY <1>5, <1>6 DEF h, N

\* Its relationships: half becomes everything; some of them add nothing that is not its own.
LEMMA RelatedAll ==
  ASSUME NEW g \in Rows, NEW p \in Paths, NEW c \in Notes, NEW es \in SUBSET EdgesBy(p, c)
  PROVE  LET h == UpsertEdges(g, es) IN
         /\ es = EdgesBy(p, c) /\ Half(g, p, c) => SaysOf(h, p, c)
         /\ Part(g, p, c) => Part(h, p, c)
         /\ Half(g, p, c) => Half(h, p, c)
         /\ SaysOf(g, p, c) => SaysOf(h, p, c)
<1> DEFINE N == StatedBy(p, c)
           E == EdgesBy(p, c)
           h == UpsertEdges(g, es)
<1>1. E \subseteq Edges /\ \A e \in E : e.src = p
  BY LinkFacts, EdgesByFacts
<1>2. /\ h.ents = g.ents /\ h.prov = g.prov
      /\ h.edges = g.edges \cup {e \in es : ~\E f \in g.edges : Alike(e, f)}
      /\ h.lent = g.lent \cup {e.src : e \in {x \in es : \E f \in g.edges : Alike(x, f) /\ f.src # x.src}}
  BY <1>1, UpsertEdgesFacts
<1>3. es \subseteq E
  OBVIOUS
<1> HIDE DEF h, N, E
<1>4. StatedIn(h, p) = StatedIn(g, p)
  BY <1>2 DEF StatedIn
<1>5. AllAlike(RowsOf(g, p), E) => AllAlike(RowsOf(h, p), E)
  BY <1>2, <1>3, AlikeFacts DEF AllAlike, RowsOf
<1>6. AllAlike(E, RowsOf(g, p)) => AllAlike(E, RowsOf(h, p))
  BY <1>2 DEF AllAlike, RowsOf
<1>7. ASSUME es = E, p \notin h.lent PROVE AllAlike(E, RowsOf(h, p))
  BY <1>1, <1>2, <1>7, AlikeFacts DEF AllAlike, RowsOf
<1>8. es = E /\ Half(g, p, c) => SaysOf(h, p, c)
  BY <1>2, <1>4, <1>5, <1>7 DEF Half, SaysOf, Says, N, E
<1>9. Part(g, p, c) => Part(h, p, c)
  BY <1>4, <1>5 DEF Part, N, E
<1>10. Half(g, p, c) => Half(h, p, c)
  BY <1>2, <1>4, <1>5 DEF Half, N, E
<1>11. SaysOf(g, p, c) => SaysOf(h, p, c)
  BY <1>2, <1>4, <1>5, <1>6 DEF SaysOf, Says, N, E
<1> QED  BY <1>8, <1>9, <1>10, <1>11 DEF h, E

\* Everything at once, which is what a rebuild does.
LEMMA RebuiltFacts ==
  ASSUME NEW g \in Rows, NEW p \in Paths, NEW c \in Notes
  PROVE  LET h == Rebuilt(g, p, c) IN
         /\ h \in Rows
         /\ SaysOf(h, p, c)
         /\ Sound(g) => Sound(h)
         /\ DOMAIN DeleteSource(g, p).ents \subseteq DOMAIN h.ents
         /\ p \in DOMAIN h.hashes /\ h.hashes[p] = c
         /\ \A q \in DOMAIN h.hashes : q # p => q \in DOMAIN g.hashes /\ h.hashes[q] = g.hashes[q]
         /\ \A q \in Paths : q # p => Keeps(g, h, q)
<1> DEFINE N == StatedBy(p, c)
           E == EdgesBy(p, c)
           g1 == DeleteSource(g, p)
           g2 == UpsertEntities(g1, p, N)
           g3 == UpsertEdges(g2, E)
           h == [g3 EXCEPT !.hashes = Put(@, p, c)]
<1>1. Rebuilt(g, p, c) = h
  BY DEF Rebuilt, RebuildOne, StatedBy, EdgesBy
<1>2. N \subseteq Names /\ E \subseteq Edges /\ \A e \in E : e.src = p /\ {e.from, e.to} \subseteq N /\ (e.rel = "states" => e.strong)
  BY LinkFacts, EdgesByFacts
<1> DEFINE Names1 == N
<1>3. g1 \in Rows /\ SaysNothing(g1, p) /\ (Sound(g) => Sound(g1))
      /\ \A q \in DOMAIN g1.hashes : q \in DOMAIN g.hashes /\ g1.hashes[q] = g.hashes[q]
  BY DeletedNothing, DeleteSourceFacts, SoundDeleteSource
<1>4. \A q \in Paths : q # p => Keeps(g, g1, q)
  BY KeepsDeleteSource
<1> HIDE DEF g1, N, E
<1>5. g2 \in Rows /\ (Sound(g1) => Sound(g2)) /\ DOMAIN g2.ents = DOMAIN g1.ents \cup N /\ g2.hashes = g1.hashes
  <2>1. Upserted(g1, g2, p, N)
    BY <1>2, <1>3, UpsertEntitiesFacts
  <2>2. Sound(g1) => Sound(g2)
    BY <1>2, <1>3, SoundUpsertEntities
  <2> QED  BY <2>1, <2>2 DEF Upserted
<1>6. Half(g2, p, c)
  BY <1>3, StatedHalf, SaysStronger DEF N
<1>7. \A q \in Paths : q # p => Keeps(g1, g2, q)
  BY <1>2, <1>3, KeepsUpsertEntities
<1> HIDE DEF g2
<1>8. g3 \in Rows /\ (Sound(g2) => Sound(g3)) /\ g3.ents = g2.ents /\ g3.hashes = g2.hashes
  BY <1>2, <1>5, UpsertEdgesFacts, SoundUpsertEdges
<1>9. SaysOf(g3, p, c)
  BY <1>5, <1>6, RelatedAll DEF E
<1>10. \A q \in Paths : q # p => Keeps(g2, g3, q)
  BY <1>2, <1>5, KeepsUpsertEdges
<1> HIDE DEF g3
<1>11. /\ h \in Rows /\ (Sound(g3) => Sound(h)) /\ h.ents = g3.ents /\ h.hashes[p] = c
       /\ DOMAIN h.hashes = DOMAIN g3.hashes \cup {p} /\ \A q \in DOMAIN g3.hashes : q # p => h.hashes[q] = g3.hashes[q]
  BY <1>8, HashFacts, SoundHash
<1>12. \A q \in Paths : Keeps(g3, h, q)
  BY <1>8, KeepsHash
<1> HIDE DEF h
<1>13. SaysOf(h, p, c)
  BY <1>9, <1>12, KeepsFacts
<1>14. \A q \in Paths : q # p => Keeps(g, h, q)
  BY <1>4, <1>7, <1>10, <1>12, KeepsTrans
<1>15. DOMAIN g1.ents \subseteq DOMAIN h.ents
  BY <1>5, <1>8, <1>11
<1>16. \A q \in DOMAIN h.hashes : q # p => q \in DOMAIN g.hashes /\ h.hashes[q] = g.hashes[q]
  BY <1>3, <1>5, <1>8, <1>11
<1> QED  BY <1>1, <1>3, <1>5, <1>8, <1>11, <1>13, <1>14, <1>15, <1>16 DEF g1

-----------------------------------------------------------------------------
\* Types, and how an activity's record fits the step it is at.

ActRec == [pc: Pcs, ops: Seq(Ops), path: SUBSET Paths, seen: SUBSET Notes, names: SUBSET Names,
           found: SUBSET Edges, todo: SUBSET Paths, goal: Statuses, was: Statuses, to: SUBSET Paths, again: BOOLEAN]

TypesInv ==
  /\ files \in Partial(Paths, Notes) /\ index \in Partial(Paths, Notes) /\ loaded \in BOOLEAN
  /\ vectors \in Partial(Paths \X {"abs", "rel"}, Notes)
  /\ graph \in Rows /\ saved \in Rows
  /\ act \in [Acts -> ActRec]
  /\ written \subseteq Texts /\ gone \subseteq Texts /\ cut \subseteq Texts /\ crossed \subseteq Texts
  /\ astray \subseteq Paths /\ indexOff \subseteq Paths /\ vectorsOff \subseteq Paths /\ graphOff \subseteq Paths

\* Steps at which a task, or a job, has one path, or one note.
TaskPcs == {"idle", "waiting", "ready", "naming", "applying", "listing", "indexing", "toEmbed", "embedding",
            "toGraph", "extracting", "stating", "relating", "committing", "unlisting", "unembedding",
            "removing", "stubbing", "scan", "scanning"}
AtPcs == {"naming", "applying", "listing", "indexing", "toEmbed", "embedding", "toGraph", "extracting",
          "stating", "relating", "committing", "unlisting", "unembedding", "removing", "stubbing",
          "status", "statusWrite", "field", "fieldWrite", "renaming", "scanning", "rebuilding"}
SeenPcs == {"applying", "indexing", "embedding", "extracting", "stating", "relating", "committing",
            "statusWrite", "fieldWrite", "scanning", "rebuilding"}
NewFolders == {"seeds"} \cup Maturities

Fits(a, r) ==
  /\ a \in Tasks => r.pc \in TaskPcs
  /\ a = "care" => r.pc \in {"idle", "visiting"} \cup Promoting
  /\ a = "edges" => r.pc \in {"idle", "promoting", "sifting", "demoting"}
  /\ a = "reindex" => r.pc \in {"idle", "scan", "scanning"}
  /\ a = "rebuild" => r.pc \in {"idle", "rebuild", "rebuilding"}
  /\ r.pc \in AtPcs => \E p \in Paths : r.path = {p}
  /\ r.pc \in SeenPcs => \E c \in Notes : r.seen = {c}
  /\ a \in Tasks /\ r.pc # "idle" => r.ops # <<>>
  /\ \A i \in DOMAIN r.ops : r.ops[i].do = "create" => Dir(r.ops[i].path) \in NewFolders
  /\ r.pc = "naming" => Head(r.ops).do = "create" /\ \A p \in r.path : Dir(p) \in NewFolders
  /\ a \in Tasks /\ r.pc \in {"scan", "scanning"} => \E p \in Paths : r.to = {p}
  /\ r.pc \in Promoting => r.goal \in Folders
  /\ r.pc = "renaming" => \E q \in Paths : r.to = {q} /\ Dir(q) = r.goal /\ \A p \in r.path : r.goal # Dir(p)
  /\ r.pc \notin {"renaming", "scan", "scanning"} => r.to = {}

FitsInv == \A a \in Acts : Fits(a, act[a])

\* The garden lock has one holder.
Holds(a) == Naming(a, FALSE) \/ Doing(a, {"fieldWrite"})
LockInv == \A a, b \in Acts : Holds(a) /\ Holds(b) => a = b

ShapeInv == TypesInv /\ FitsInv

LEMMA ActsFacts ==
  /\ Tasks \subseteq Acts /\ {"care", "edges", "reindex", "rebuild"} \subseteq Acts
  /\ \A a \in Tasks : a # "care" /\ a # "edges" /\ a # "reindex" /\ a # "rebuild"
BY TasksAssumption DEF Acts, Jobs

LEMMA AtFacts ==
  ASSUME ShapeInv, NEW a \in Acts, act[a].pc \in AtPcs
  PROVE  At(a) \in Paths /\ act[a].path = {At(a)}
BY TheOne DEF ShapeInv, FitsInv, Fits, At

LEMMA SeenFacts ==
  ASSUME ShapeInv, NEW a \in Acts, act[a].pc \in SeenPcs
  PROVE  Seen(a) \in Notes /\ act[a].seen = {Seen(a)}
BY TheOne DEF ShapeInv, FitsInv, Fits, Seen

LEMMA RecFacts ==
  ASSUME TypesInv, NEW a \in Acts
  PROVE  act[a] \in ActRec
BY DEF TypesInv

LEMMA FileFacts ==
  ASSUME TypesInv
  PROVE  DOMAIN files \subseteq Paths /\ \A p \in DOMAIN files : files[p] \in Notes
BY PartialFacts DEF TypesInv

LEMMA IdleFacts ==
  /\ Idle \in ActRec
  /\ Idle.pc = "idle" /\ Idle.ops = <<>> /\ Idle.path = {} /\ Idle.seen = {} /\ Idle.names = {} /\ Idle.found = {}
  /\ Idle.todo = {} /\ Idle.goal = "none" /\ Idle.was = "none" /\ Idle.to = {} /\ Idle.again = FALSE
BY DEF Idle, ActRec, Pcs, Statuses

\* The operation a busy task is at.
LEMMA OpFacts ==
  ASSUME ShapeInv, NEW a \in Tasks, act[a].pc # "idle"
  PROVE  /\ act[a].ops \in Seq(Ops) /\ Len(act[a].ops) \in Nat \ {0} /\ 1 \in DOMAIN act[a].ops
         /\ Op(a) = act[a].ops[1] /\ Op(a) \in Ops
         /\ Op(a).do = "create" => Dir(Op(a).path) \in NewFolders
BY ActsFacts DEF ShapeInv, TypesInv, ActRec, FitsInv, Fits, Op

\* What follows an operation.
Rested(a, r) ==
  /\ r \in ActRec
  /\ r.pc \in {"idle", "ready"} /\ r.path = {} /\ r.seen = {} /\ r.names = {} /\ r.found = {} /\ r.todo = {} /\ r.to = {}
  /\ r.pc = "idle" => r.ops = <<>>
  /\ r.pc = "ready" => r.ops # <<>>
  /\ \A i \in DOMAIN r.ops : i \in Nat /\ i + 1 \in DOMAIN act[a].ops /\ r.ops[i] = act[a].ops[i + 1]

LEMMA NextOpFacts ==
  ASSUME ShapeInv, NEW a \in Tasks, act[a].pc # "idle"
  PROVE  Rested(a, NextOp(a))
<1>1. PICK s \in Seq(Ops) : s = act[a].ops /\ Len(s) \in Nat \ {0}
  BY OpFacts
<1>2. CASE Len(s) = 1
  BY <1>1, <1>2, IdleFacts DEF NextOp, Rested
<1>3. CASE Len(s) # 1
  <2>0. s # <<>>
    BY <1>1
  <2>a. Tail(s) \in Seq(Ops) /\ Len(Tail(s)) = Len(s) - 1 /\ \A i \in 1..Len(Tail(s)) : Tail(s)[i] = s[i + 1]
    BY <2>0, HeadTailProperties
  <2>1. PICK t \in Seq(Ops) : t = Tail(s)
    BY <2>a
  <2>2. Len(t) = Len(s) - 1 /\ t # <<>> /\ \A i \in DOMAIN t : i \in Nat /\ i + 1 \in DOMAIN s /\ t[i] = s[i + 1]
    <3>1. DOMAIN t = 1..Len(t) /\ DOMAIN s = 1..Len(s) /\ Len(t) = Len(s) - 1 /\ Len(t) \in Nat
      BY <2>a, <2>1
    <3>2. \A i \in 1..Len(t) : t[i] = s[i + 1]
      BY <2>a, <2>1
    <3>3. t # <<>>
      <4>1. Len(t) # 0
        BY <3>1, <1>1, <1>3
      <4>2. Len(<<>>) = 0
        BY EmptySeq
      <4> QED  BY <4>1, <4>2
    <3> QED  BY <3>1, <3>2, <3>3, <1>1
  <2>3. NextOp(a) = [Idle EXCEPT !.pc = "ready", !.ops = t]
    BY <1>1, <1>3, <2>1 DEF NextOp
  <2>4. PICK r : r = [Idle EXCEPT !.pc = "ready", !.ops = t]
    OBVIOUS
  <2>5. /\ r \in ActRec /\ r.pc = "ready" /\ r.ops = t /\ r.path = {} /\ r.seen = {} /\ r.names = {} /\ r.found = {}
        /\ r.todo = {} /\ r.to = {}
    BY <2>4 DEF Idle, ActRec, Pcs, Statuses
  <2> QED  BY <1>1, <2>2, <2>3, <2>4, <2>5 DEF Rested
<1> QED  BY <1>2, <1>3

LEMMA FinishedFacts ==
  ASSUME ShapeInv, NEW a \in Tasks, act[a].pc # "idle"
  PROVE  \/ Rested(a, Finished(a))
         \/ \E todo \in SUBSET Paths :
              /\ Finished(a) = [act[a] EXCEPT !.pc = "stubbing", !.todo = todo]
              /\ \A e \in todo : Dir(e) = "entities"
<1> DEFINE stubs == IF Op(a).stubs THEN {<<"entities", t, 0>> : t \in Links[Op(a).text]} ELSE {}
<1>1. Op(a).text \in Texts
  BY OpFacts DEF Ops
<1>2. Links[Op(a).text] \subseteq Titles
  BY <1>1, LinksAssumption
<1>3. stubs \in SUBSET Paths
  BY <1>2, NameFacts
<1>4. \A e \in stubs : Dir(e) = "entities"
  BY DEF Dir
<1>5. Finished(a) = IF stubs = {} THEN NextOp(a) ELSE [act[a] EXCEPT !.pc = "stubbing", !.todo = stubs]
  BY DEF Finished
<1> QED  BY <1>3, <1>4, <1>5, NextOpFacts

-----------------------------------------------------------------------------
\* Records and notes that change.

LEMMA RecPc ==
  ASSUME NEW r \in ActRec, NEW pc \in Pcs
  PROVE  LET s == [r EXCEPT !.pc = pc] IN
         /\ s \in ActRec /\ s.pc = pc /\ s.ops = r.ops /\ s.path = r.path /\ s.seen = r.seen /\ s.names = r.names
         /\ s.found = r.found /\ s.todo = r.todo /\ s.goal = r.goal /\ s.was = r.was /\ s.to = r.to /\ s.again = r.again
BY DEF ActRec

LEMMA BlankFacts ==
  /\ Blank.status = "none" /\ Blank.maturity = "none" /\ Blank.states = {} /\ Blank.auto = FALSE
  /\ Blank.mentions = {} /\ Blank.body = {} /\ Blank.shown = {} /\ Blank.tail = {} /\ Blank \in Notes
  /\ TextsOf(Blank) = {} /\ \A p : InItsFolder(p, Blank)
BY DEF Blank, Notes, Statuses, TextsOf, InItsFolder

LEMMA NewNoteFacts ==
  ASSUME NEW p \in Paths, NEW x \in Texts, Dir(p) \in NewFolders
  PROVE  NewNote(p, x) \in Notes /\ TextsOf(NewNote(p, x)) = {x} /\ InItsFolder(p, NewNote(p, x))
<1>1. PICK b \in Notes : b = Blank /\ b.tail = {}
  BY BlankFacts
<1>2. PICK st \in Statuses : st = IF Dir(p) = "seeds" THEN "none" ELSE "seed"
  BY DEF Statuses
<1>3. PICK ma \in Statuses : ma = IF Dir(p) = "seeds" THEN "none" ELSE Dir(p)
  BY DEF NewFolders, Maturities, Statuses
<1>4. PICK re \in SUBSET Names : re = Relates[x]
  BY LinksAssumption
<1>5. PICK n : n = [b EXCEPT !.status = st, !.maturity = ma, !.states = re, !.body = {x}]
  OBVIOUS
<1>6. n \in Notes /\ n.status = st /\ n.maturity = ma /\ n.body = {x} /\ n.tail = {}
  BY <1>1, <1>5 DEF Notes
<1>7. NewNote(p, x) = n
  BY <1>1, <1>2, <1>3, <1>4, <1>5 DEF NewNote
<1>8. Dir(p) = "seeds" => Dir(p) \notin Folders
  BY DEF Folders, Maturities
<1> QED  BY <1>2, <1>3, <1>6, <1>7, <1>8 DEF TextsOf, InItsFolder

LEMMA RewrittenFacts ==
  ASSUME NEW c \in Notes, NEW x \in Texts
  PROVE  /\ Rewritten(c, x) \in Notes /\ TextsOf(Rewritten(c, x)) = {x}
         /\ Rewritten(c, x).status = c.status /\ Rewritten(c, x).maturity = c.maturity
BY DEF Rewritten, Notes, TextsOf

LEMMA AppendedFacts ==
  ASSUME NEW c \in Notes, NEW x \in Texts
  PROVE  /\ Appended(c, x) \in Notes /\ TextsOf(Appended(c, x)) = TextsOf(c) \cup {x}
         /\ Appended(c, x).status = c.status /\ Appended(c, x).maturity = c.maturity
BY DEF Appended, Notes, TextsOf

LEMMA NewStubFacts ==
  ASSUME NEW p \in Paths
  PROVE  NewStub(p) \in Notes /\ TextsOf(NewStub(p)) = {} /\ NewStub(p).status = "none"
BY BlankFacts DEF Notes, Statuses, NewStub, TextsOf

LEMMA MentionedFacts ==
  ASSUME NEW c \in Notes, NEW p \in Paths
  PROVE  /\ Mentioned(c, p) \in Notes /\ TextsOf(Mentioned(c, p)) \subseteq TextsOf(c)
         /\ Mentioned(c, p).status = c.status /\ Mentioned(c, p).maturity = c.maturity
BY DEF Mentioned, Notes, TextsOf

\* What a task that writes finds in the note.
Before(p) == IF p \in DOMAIN files THEN files[p] ELSE Blank

LEMMA BeforeFacts ==
  ASSUME TypesInv, NEW p
  PROVE  Before(p) \in Notes /\ TextsOf(Before(p)) = TextsAt(p)
BY FileFacts, BlankFacts DEF Before, TextsAt, NotesAt

LEMMA TextsAtFacts ==
  ASSUME TypesInv
  PROVE  /\ \A p : TextsAt(p) \subseteq Texts
         /\ \A p \in DOMAIN files : TextsAt(p) = TextsOf(files[p])
         /\ \A p : p \notin DOMAIN files => TextsAt(p) = {}
BY FileFacts, NoteFacts DEF TextsAt, NotesAt

-----------------------------------------------------------------------------
\* What each step does, in the terms of the invariants.

FilesStay == files' = files /\ written' = written /\ gone' = gone /\ cut' = cut /\ crossed' = crossed /\ astray' = astray
IndexStays == index' = index /\ loaded' = loaded /\ indexOff' = indexOff
VectorsStay == vectors' = vectors /\ vectorsOff' = vectorsOff
GraphStays == graph' = graph /\ saved' = saved /\ graphOff' = graphOff
StoresStay == IndexStays /\ VectorsStay /\ GraphStays
AllStay == FilesStay /\ StoresStay

\* Activity b stays as it is, but for the names whose rows are gone.
Copies(r, s) ==
  /\ s.pc = r.pc /\ s.ops = r.ops /\ s.path = r.path /\ s.seen = r.seen /\ s.found = r.found
  /\ s.todo = r.todo /\ s.goal = r.goal /\ s.was = r.was /\ s.to = r.to /\ s.again = r.again
Stays(b) == Copies(act[b], act'[b])

\* Only a takes a step.
Moves(a) == act' \in [Acts -> ActRec] /\ \A b \in Acts \ {a} : Stays(b)

\* a goes to pc with that path, note, paths to visit and path to come back to.
Turns(a, pc, path, seen, todo, to) ==
  /\ Moves(a)
  /\ act'[a].pc = pc /\ act'[a].path = path /\ act'[a].seen = seen /\ act'[a].todo = todo /\ act'[a].to = to
  /\ act'[a].ops = act[a].ops /\ act'[a].found = act[a].found
  /\ act'[a].goal = act[a].goal /\ act'[a].was = act[a].was /\ act'[a].again = act[a].again
Steps(a, pc) == Turns(a, pc, act[a].path, act[a].seen, act[a].todo, act[a].to)
Rests(a) == Moves(a) /\ Rested(a, act'[a])
NamesStay(s) == \A b \in s : act'[b].names = act[b].names

LEMMA BecomesFacts ==
  ASSUME TypesInv, NEW a \in Acts, NEW r \in ActRec, Becomes(a, r)
  PROVE  Moves(a) /\ act'[a] = r /\ NamesStay(Acts \ {a})
BY DEF Moves, Becomes, TypesInv, Stays, Copies, NamesStay

LEMMA GoesFacts ==
  ASSUME TypesInv, NEW a \in Acts, NEW pc \in Pcs, Goes(a, pc)
  PROVE  Steps(a, pc) /\ NamesStay(Acts)
<1>1. PICK r \in ActRec : r = act[a]
  BY RecFacts
<1>2. PICK s : s = [r EXCEPT !.pc = pc]
  OBVIOUS
<1>3. /\ s \in ActRec /\ s.pc = pc /\ s.ops = r.ops /\ s.path = r.path /\ s.seen = r.seen /\ s.names = r.names
      /\ s.found = r.found /\ s.todo = r.todo /\ s.goal = r.goal /\ s.was = r.was /\ s.to = r.to /\ s.again = r.again
  BY <1>2, RecPc
<1>4. Becomes(a, s)
  BY <1>1, <1>2 DEF Goes
<1> QED  BY <1>1, <1>3, <1>4, BecomesFacts DEF Steps, Turns, NamesStay

LEMMA ReadsFacts ==
  ASSUME ShapeInv, NEW a \in Acts, NEW pc \in Pcs, Reads(a, pc), At(a) \in DOMAIN files
  PROVE  Turns(a, pc, act[a].path, {files[At(a)]}, act[a].todo, act[a].to) /\ NamesStay(Acts)
<1>1. PICK r \in ActRec : r = act[a]
  BY RecFacts DEF ShapeInv
<1>2. PICK c \in Notes : c = files[At(a)]
  BY FileFacts DEF ShapeInv
<1>3. PICK s : s = [r EXCEPT !.pc = pc, !.seen = {c}]
  OBVIOUS
<1>4. /\ s \in ActRec /\ s.pc = pc /\ s.ops = r.ops /\ s.path = r.path /\ s.seen = {c} /\ s.names = r.names
      /\ s.found = r.found /\ s.todo = r.todo /\ s.goal = r.goal /\ s.was = r.was /\ s.to = r.to /\ s.again = r.again
  BY <1>3 DEF ActRec
<1>5. Becomes(a, s)
  BY <1>1, <1>2, <1>3 DEF Reads
<1> QED  BY <1>1, <1>2, <1>4, <1>5, BecomesFacts DEF Turns, NamesStay, ShapeInv

LEMMA RestsFacts ==
  ASSUME ShapeInv, NEW a \in Tasks, act[a].pc # "idle", Becomes(a, NextOp(a))
  PROVE  Rests(a)
<1>1. Rested(a, NextOp(a))
  BY NextOpFacts
<1>2. NextOp(a) \in ActRec
  BY <1>1 DEF Rested
<1>3. act'[a] = NextOp(a) /\ Moves(a)
  BY <1>2, BecomesFacts, ActsFacts DEF ShapeInv
<1> QED  BY <1>1, <1>3 DEF Rests

\* The stubs, or the next operation.
Ends(a) == \/ Rests(a)
           \/ \E todo \in SUBSET Paths : /\ Turns(a, "stubbing", act[a].path, act[a].seen, todo, act[a].to)
                                         /\ \A e \in todo : Dir(e) = "entities"

LEMMA EndsFacts ==
  ASSUME ShapeInv, NEW a \in Tasks, act[a].pc # "idle", act' \in [Acts -> ActRec],
         act'[a] = Finished(a), \A b \in Acts \ {a} : Stays(b)
  PROVE  Ends(a)
<1>1. CASE Rested(a, Finished(a))
  BY <1>1 DEF Ends, Rests, Moves
<1>2. ASSUME NEW todo \in SUBSET Paths, Finished(a) = [act[a] EXCEPT !.pc = "stubbing", !.todo = todo],
             \A e \in todo : Dir(e) = "entities"
      PROVE  Ends(a)
  BY RecFacts, ActsFacts, <1>2 DEF ShapeInv, Pcs, ActRec, Turns, Moves, Ends
<1> QED  BY <1>1, <1>2, FinishedFacts

LEMMA BecomesEnds ==
  ASSUME ShapeInv, NEW a \in Tasks, act[a].pc # "idle", Becomes(a, Finished(a))
  PROVE  Ends(a) /\ NamesStay(Acts \ {a})
<1>1. Finished(a) \in ActRec
  <2>1. CASE Rested(a, Finished(a))
    BY <2>1 DEF Rested
  <2>2. ASSUME NEW todo \in SUBSET Paths, Finished(a) = [act[a] EXCEPT !.pc = "stubbing", !.todo = todo]
        PROVE  Finished(a) \in ActRec
    <3>1. PICK r \in ActRec : r = act[a]
      BY RecFacts, ActsFacts DEF ShapeInv
    <3>2. "stubbing" \in Pcs
      BY DEF Pcs
    <3>3. [r EXCEPT !.pc = "stubbing", !.todo = todo] \in ActRec
      BY <3>2 DEF ActRec
    <3> QED  BY <2>2, <3>1, <3>3
  <2> QED  BY <2>1, <2>2, FinishedFacts
<1>2. Moves(a) /\ act'[a] = Finished(a) /\ NamesStay(Acts \ {a})
  BY <1>1, BecomesFacts, ActsFacts DEF ShapeInv
<1> QED  BY <1>2, EndsFacts DEF Moves

\* Names that are forgotten.
Left(g, b) == IF act[b].pc \in GraphPcs THEN act[b].names \cap DOMAIN g.ents ELSE act[b].names
Forgotten(g, s) == \A b \in s : act'[b].names = Left(g, b)

LEMMA ForgetsFacts ==
  ASSUME TypesInv, NEW g, NEW b \in Acts
  PROVE  Forgets(g)[b] \in ActRec /\ Copies(act[b], Forgets(g)[b]) /\ Forgets(g)[b].names = Left(g, b)
BY RecFacts DEF ActRec, Left, Copies, Forgets, Doing

LEMMA ForgetAll ==
  ASSUME TypesInv, NEW a \in Acts, NEW g, NEW r \in ActRec, act' = [Forgets(g) EXCEPT ![a] = r]
  PROVE  Moves(a) /\ act'[a] = r /\ Forgotten(g, Acts \ {a})
BY ForgetsFacts DEF Forgets, Moves, Stays, Forgotten

LEMMA FreeFacts ==
  ASSUME NEW p \in Paths, NEW q \in Free(p)
  PROVE  q \in Paths /\ q \notin DOMAIN files /\ Dir(q) = Dir(p)
<1>1. CASE p \notin DOMAIN files
  BY <1>1 DEF Free
<1>2. CASE p \in DOMAIN files
  <2>1. PICK k \in 1..MaxDup : q = Numbered(p, k) /\ Numbered(p, k) \notin DOMAIN files
    BY <1>2 DEF Free
  <2>2. k \in 0..MaxDup
    BY PathsAssumption
  <2>3. q = <<p[1], p[2], k>> /\ p[1] \in Dirs /\ p[2] \in Titles
    BY <2>1, PathsAssumption DEF Numbered
  <2> QED  BY <2>1, <2>2, <2>3, PathsAssumption DEF Dir
<1> QED  BY <1>1, <1>2

LEMMA ChooseFacts ==
  ASSUME ShapeInv, NEW a \in Tasks, Choose(a)
  PROVE  /\ AllStay
         /\ act[a].pc \in {"waiting", "ready"} /\ Op(a).do = "create" /\ Op(a) = Head(act[a].ops)
         /\ IF Dir(Op(a).path) = "seeds" THEN SeedLockFree ELSE GardenLockFree
         /\ \E p \in Paths : /\ p \notin DOMAIN files /\ Dir(p) = Dir(Op(a).path) /\ Dir(p) \in NewFolders
                             /\ Turns(a, "naming", {p}, act[a].seen, act[a].todo, act[a].to)
<1>1. act[a].pc \in {"waiting", "ready"} /\ Op(a).do = "create"
  BY DEF Choose, Turn, Doing
<1>2. Op(a).path \in Paths /\ Dir(Op(a).path) \in NewFolders
  BY <1>1, OpFacts DEF Ops
<1>3. PICK p \in Free(Op(a).path) : Becomes(a, [act[a] EXCEPT !.pc = "naming", !.path = {p}])
  BY DEF Choose
<1>4. p \in Paths /\ p \notin DOMAIN files /\ Dir(p) = Dir(Op(a).path)
  BY <1>2, <1>3, FreeFacts
<1>5. PICK r \in ActRec : r = act[a]
  BY RecFacts, ActsFacts DEF ShapeInv
<1>6. PICK s : s = [r EXCEPT !.pc = "naming", !.path = {p}]
  OBVIOUS
<1>7. /\ s \in ActRec /\ s.pc = "naming" /\ s.ops = r.ops /\ s.path = {p} /\ s.seen = r.seen /\ s.names = r.names
      /\ s.found = r.found /\ s.todo = r.todo /\ s.goal = r.goal /\ s.was = r.was /\ s.to = r.to /\ s.again = r.again
  BY <1>6, <1>4 DEF ActRec, Pcs
<1>8. Becomes(a, s)
  BY <1>3, <1>5, <1>6
<1>9. Turns(a, "naming", {p}, act[a].seen, act[a].todo, act[a].to)
  BY <1>5, <1>7, <1>8, BecomesFacts, ActsFacts DEF Turns, ShapeInv
<1>10. AllStay /\ IF Dir(Op(a).path) = "seeds" THEN SeedLockFree ELSE GardenLockFree
  BY DEF Choose, AllStay, FilesStay, StoresStay, IndexStays, VectorsStay, GraphStays, stores, graphVars, history, off
<1> QED  BY <1>1, <1>2, <1>4, <1>9, <1>10 DEF Op

\* A task changes a note, and the subscribers are going to hear of it.
Changes(a, p, xs) ==
  /\ Tells(a, p) /\ Crosses(a, p, xs)
  /\ index' = index /\ loaded' = loaded /\ vectors' = vectors /\ graph' = graph /\ saved' = saved

\* Where a task that changes a note is.
Applies(a, p) ==
  /\ act[a].pc = "applying" /\ At(a) = p /\ act[a].path = {p} /\ p \in Paths
  /\ Seen(a) \in Notes /\ act[a].seen = {Seen(a)} /\ Op(a).text \in Texts

LEMMA AppliesFacts ==
  ASSUME ShapeInv, NEW a \in Tasks, act[a].pc = "applying"
  PROVE  Applies(a, At(a))
BY AtFacts, SeenFacts, ActsFacts, OpFacts DEF AtPcs, SeenPcs, Ops, Applies

Created(a, p, x, n) ==
  /\ act[a].pc = "naming" /\ At(a) = p /\ act[a].path = {p} /\ p \in Paths /\ x = Op(a).text /\ x \in Texts
  /\ Dir(p) \in NewFolders
  /\ files' = Put(files, p, n) /\ written' = written \cup {x} /\ gone' = gone /\ cut' = cut
  /\ Changes(a, p, {x})
  /\ n \in Notes /\ TextsOf(n) = {x} /\ InItsFolder(p, n)
  /\ Steps(a, "listing")

LEMMA CreateFacts ==
  ASSUME ShapeInv, NEW a \in Tasks, Create(a)
  PROVE  \E p, x, n : Created(a, p, x, n)
<1> DEFINE p == At(a)
           x == Op(a).text
<1>1. act[a].pc = "naming"
  BY DEF Create, Doing
<1>2. p \in Paths /\ act[a].path = {p}
  BY <1>1, AtFacts, ActsFacts DEF AtPcs
<1>3. x \in Texts
  BY <1>1, OpFacts DEF Ops
<1>4. Dir(p) \in NewFolders
  BY <1>1, <1>2, ActsFacts DEF ShapeInv, FitsInv, Fits
<1>5. Steps(a, "listing")
  BY GoesFacts, ActsFacts DEF Create, Pcs, ShapeInv
<1>6. /\ files' = Put(files, p, NewNote(p, x)) /\ written' = written \cup {x} /\ gone' = gone /\ cut' = cut
      /\ Changes(a, p, {x})
  BY DEF Create, Changes, stores, graphVars
<1>7. PICK n : n = NewNote(p, x)
  OBVIOUS
<1>8. n \in Notes /\ TextsOf(n) = {x} /\ InItsFolder(p, n)
  BY <1>2, <1>3, <1>4, <1>7, NewNoteFacts
<1>9. Created(a, p, x, n)
  BY <1>1, <1>2, <1>3, <1>4, <1>5, <1>6, <1>7, <1>8 DEF Created
<1> QED  BY <1>9

\* It finds the note, or goes on to the next operation.
LEMMA FindFacts ==
  ASSUME ShapeInv, NEW a \in Tasks, Find(a)
  PROVE  /\ AllStay
         /\ act[a].pc \in {"waiting", "ready"}
         /\ \/ Rests(a)
            \/ \E p \in DOMAIN files : \E c \in {files[p], Blank} :
                 p \in Paths /\ c \in Notes /\ Turns(a, "applying", {p}, {c}, act[a].todo, act[a].to)
<1>1. act[a].pc \in {"waiting", "ready"}
  BY DEF Find, Turn, Doing
<1>2. Op(a).path \in Paths
  BY <1>1, OpFacts DEF Ops
<1>3. AllStay
  BY DEF Find, AllStay, FilesStay, StoresStay, IndexStays, VectorsStay, GraphStays, stores, graphVars, history, off
<1>4. CASE Op(a).path \notin DOMAIN files
  BY <1>4, <1>1, <1>3, RestsFacts DEF Find
<1>5. CASE Op(a).path \in DOMAIN files
  <2>1. PICK p \in Paths : p = Op(a).path
    BY <1>2
  <2>2. PICK c \in {files[p], Blank} : Becomes(a, [act[a] EXCEPT !.pc = "applying", !.path = {p}, !.seen = {c}])
    BY <1>5, <2>1 DEF Find
  <2>3. c \in Notes
    BY <1>5, <2>1, FileFacts, BlankFacts DEF ShapeInv
  <2>4. PICK r \in ActRec : r = act[a]
    BY RecFacts, ActsFacts DEF ShapeInv
  <2>5. PICK s : s = [r EXCEPT !.pc = "applying", !.path = {p}, !.seen = {c}]
    OBVIOUS
  <2>6. /\ s \in ActRec /\ s.pc = "applying" /\ s.ops = r.ops /\ s.path = {p} /\ s.seen = {c} /\ s.names = r.names
        /\ s.found = r.found /\ s.todo = r.todo /\ s.goal = r.goal /\ s.was = r.was /\ s.to = r.to /\ s.again = r.again
    BY <2>3, <2>5 DEF ActRec, Pcs
  <2>7. Becomes(a, s)
    BY <2>2, <2>4, <2>5
  <2>8. Turns(a, "applying", {p}, {c}, act[a].todo, act[a].to)
    BY <2>4, <2>6, <2>7, BecomesFacts, ActsFacts, ZenonT(30) DEF Turns, ShapeInv
  <2> QED  BY <1>1, <1>3, <1>5, <2>1, <2>3, <2>8
<1> QED  BY <1>4, <1>5

Replaced(a, p, x, n) ==
  /\ Applies(a, p) /\ x = Op(a).text
  /\ files' = Put(files, p, n) /\ written' = written \cup {x} /\ gone' = gone \cup TextsAt(p) /\ cut' = cut
  /\ Changes(a, p, {x} \cup TextsAt(p))
  /\ n \in Notes /\ TextsOf(n) = {x} /\ n.status = Seen(a).status /\ n.maturity = Seen(a).maturity
  /\ Steps(a, "listing")

LEMMA ReplaceFacts ==
  ASSUME ShapeInv, NEW a \in Tasks, Replace(a)
  PROVE  \E p, x, n : Replaced(a, p, x, n)
<1> DEFINE p == At(a)
           x == Op(a).text
<1>1. Applies(a, p)
  BY AppliesFacts DEF Replace, Doing
<1>2. Steps(a, "listing")
  BY GoesFacts, ActsFacts DEF Replace, Pcs, ShapeInv
<1>3. /\ files' = Put(files, p, Rewritten(Seen(a), x)) /\ written' = written \cup {x}
      /\ gone' = gone \cup TextsAt(p) /\ cut' = cut
      /\ Changes(a, p, {x} \cup TextsAt(p))
  BY DEF Replace, Changes, stores, graphVars
<1>4. PICK n : n = Rewritten(Seen(a), x)
  OBVIOUS
<1>5. n \in Notes /\ TextsOf(n) = {x} /\ n.status = Seen(a).status /\ n.maturity = Seen(a).maturity
  BY <1>1, <1>4, RewrittenFacts DEF Applies
<1>6. Replaced(a, p, x, n)
  BY <1>1, <1>2, <1>3, <1>4, <1>5 DEF Replaced
<1> QED  BY <1>6

Extended(a, p, x, n) ==
  /\ Applies(a, p) /\ x = Op(a).text
  /\ files' = Put(files, p, n) /\ written' = written \cup {x} /\ gone' = gone /\ cut' = cut
  /\ Changes(a, p, {x})
  /\ n \in Notes /\ TextsOf(n) = TextsAt(p) \cup {x} /\ n.status = Before(p).status /\ n.maturity = Before(p).maturity
  /\ Steps(a, "listing")

LEMMA AppendFacts ==
  ASSUME ShapeInv, NEW a \in Tasks, AppendText(a)
  PROVE  \E p, x, n : Extended(a, p, x, n)
<1> DEFINE p == At(a)
           x == Op(a).text
<1>1. Applies(a, p)
  BY AppliesFacts DEF AppendText, Doing
<1>2. Steps(a, "listing")
  BY GoesFacts, ActsFacts DEF AppendText, Pcs, ShapeInv
<1>3. /\ files' = Put(files, p, Appended(Before(p), x)) /\ written' = written \cup {x} /\ gone' = gone /\ cut' = cut
      /\ Changes(a, p, {x})
  BY DEF AppendText, Changes, stores, graphVars, Before
<1>4. PICK n : n = Appended(Before(p), x)
  OBVIOUS
<1>5. n \in Notes /\ TextsOf(n) = TextsAt(p) \cup {x} /\ n.status = Before(p).status /\ n.maturity = Before(p).maturity
  BY <1>1, <1>4, AppendedFacts, BeforeFacts DEF Applies, ShapeInv
<1>6. Extended(a, p, x, n)
  BY <1>1, <1>2, <1>3, <1>4, <1>5 DEF Extended
<1> QED  BY <1>6

Removed(a, p) ==
  /\ Applies(a, p) /\ p \in DOMAIN files
  /\ files' = Drop(files, {p}) /\ written' = written /\ gone' = gone \cup TextsAt(p) /\ cut' = cut
  /\ Changes(a, p, TextsAt(p))
  /\ Steps(a, "unlisting")

LEMMA DeleteFacts ==
  ASSUME ShapeInv, NEW a \in Tasks, Delete(a)
  PROVE  \/ \E p : Removed(a, p)
         \/ act[a].pc = "applying" /\ AllStay /\ Rests(a)
<1>1. Applies(a, At(a))
  BY AppliesFacts DEF Delete, Doing
<1>2. CASE At(a) \in DOMAIN files
  <2>1. Steps(a, "unlisting")
    BY <1>2, GoesFacts, ActsFacts DEF Delete, Pcs, ShapeInv
  <2>2. /\ files' = Drop(files, {At(a)}) /\ written' = written /\ gone' = gone \cup TextsAt(At(a)) /\ cut' = cut
        /\ Changes(a, At(a), TextsAt(At(a)))
    BY <1>2 DEF Delete, Changes, stores, graphVars
  <2>3. Removed(a, At(a))
    BY <1>1, <1>2, <2>1, <2>2 DEF Removed
  <2> QED  BY <2>3
<1>3. CASE At(a) \notin DOMAIN files
  <2>1. Rests(a)
    BY <1>1, <1>3, RestsFacts DEF Delete, Applies
  <2>2. AllStay
    BY <1>3 DEF Delete, AllStay, FilesStay, StoresStay, IndexStays, VectorsStay, GraphStays, stores, graphVars, history, off
  <2> QED  BY <1>1, <2>1, <2>2 DEF Applies
<1> QED  BY <1>2, <1>3

Stubbed(a, e, n) ==
  /\ act[a].pc = "stubbing" /\ GardenLockFree /\ e \in act[a].todo /\ e \in Paths
  /\ files' = Put(files, e, n) /\ written' = written /\ gone' = gone /\ cut' = cut \cup (TextsAt(e) \ TextsOf(n))
  /\ Silently({e}) /\ Crosses(a, e, {})
  /\ index' = index /\ loaded' = loaded /\ vectors' = vectors /\ graph' = graph /\ saved' = saved
  /\ n \in Notes /\ TextsOf(n) \subseteq TextsAt(e)
  /\ e \in DOMAIN files => n.status = files[e].status /\ n.maturity = files[e].maturity
  /\ e \notin DOMAIN files => n.status = "none"
  /\ Rests(a) \/ Turns(a, "stubbing", act[a].path, act[a].seen, act[a].todo \ {e}, act[a].to)

LEMMA StubFacts ==
  ASSUME ShapeInv, NEW a \in Tasks, Stub(a)
  PROVE  \E e, n : Stubbed(a, e, n)
<1> DEFINE note(e) == IF e \in DOMAIN files THEN Mentioned(files[e], At(a)) ELSE NewStub(At(a))
<1>1. act[a].pc = "stubbing" /\ GardenLockFree
  BY DEF Stub, Doing
<1>2. At(a) \in Paths
  BY <1>1, AtFacts, ActsFacts DEF AtPcs
<1>3. PICK e \in act[a].todo :
        /\ files' = Put(files, e, note(e)) /\ cut' = cut \cup (TextsAt(e) \ TextsOf(note(e)))
        /\ Becomes(a, IF act[a].todo = {e} THEN NextOp(a) ELSE [act[a] EXCEPT !.todo = @ \ {e}])
        /\ Silently({e}) /\ Crosses(a, e, {})
  BY DEF Stub
<1>4. PICK r \in ActRec : r = act[a]
  BY RecFacts, ActsFacts DEF ShapeInv
<1>5. e \in Paths
  BY <1>3, <1>4 DEF ActRec
<1>6. PICK n : n = note(e)
  OBVIOUS
<1>7. /\ n \in Notes /\ TextsOf(n) \subseteq TextsAt(e)
      /\ e \in DOMAIN files => n.status = files[e].status /\ n.maturity = files[e].maturity
      /\ e \notin DOMAIN files => n.status = "none"
  BY FileFacts, <1>2, MentionedFacts, <1>6, TextsAtFacts, NewStubFacts DEF ShapeInv
<1>8. CASE act[a].todo = {e}
  <2>1. Becomes(a, NextOp(a))
    BY <1>3, <1>8
  <2>2. Rests(a)
    BY <1>1, <2>1, RestsFacts
  <2> HIDE DEF note
  <2>3. Stubbed(a, e, n)
    BY <1>1, <1>3, <1>5, <1>6, <1>7, <2>2 DEF Stubbed, Stub, stores, graphVars
  <2> QED  BY <2>3
<1>9. CASE act[a].todo # {e}
  <2>1. PICK s : s = [r EXCEPT !.todo = @ \ {e}]
    OBVIOUS
  <2>2. /\ s \in ActRec /\ s.pc = r.pc /\ s.ops = r.ops /\ s.path = r.path /\ s.seen = r.seen /\ s.names = r.names
        /\ s.found = r.found /\ s.todo = r.todo \ {e} /\ s.goal = r.goal /\ s.was = r.was /\ s.to = r.to /\ s.again = r.again
    BY <2>1 DEF ActRec
  <2>3. Becomes(a, s)
    BY <1>3, <1>4, <1>9, <2>1
  <2>4. Turns(a, "stubbing", act[a].path, act[a].seen, act[a].todo \ {e}, act[a].to)
    BY <1>1, <1>4, <2>2, <2>3, BecomesFacts, ActsFacts DEF Turns, ShapeInv
  <2> HIDE DEF note
  <2>5. Stubbed(a, e, n)
    BY <1>1, <1>3, <1>5, <1>6, <1>7, <2>4 DEF Stubbed, Stub, stores, graphVars
  <2> QED  BY <2>5
<1> QED  BY <1>8, <1>9

-----------------------------------------------------------------------------
\* The subscribers.

\* A subscriber reads the note, or finds it gone.
LEMMA ReadFacts ==
  ASSUME ShapeInv, NEW a \in Tasks,
         \/ ReadForIndex(a) \/ ReadForVector(a)
  PROVE  /\ AllStay /\ NamesStay(Acts) /\ At(a) \in Paths /\ act[a].path = {At(a)}
         /\ \/ /\ ReadForIndex(a) /\ act[a].pc = "listing"
               /\ \/ At(a) \in DOMAIN files /\ Turns(a, "indexing", act[a].path, {files[At(a)]}, act[a].todo, act[a].to)
                  \/ At(a) \notin DOMAIN files /\ Steps(a, "toEmbed")
            \/ /\ ReadForVector(a) /\ act[a].pc = "toEmbed"
               /\ \/ At(a) \in DOMAIN files /\ Turns(a, "embedding", act[a].path, {files[At(a)]}, act[a].todo, act[a].to)
                  \/ At(a) \notin DOMAIN files /\ Steps(a, "toGraph")
<1>0. {"indexing", "embedding", "toEmbed", "toGraph"} \subseteq Pcs
  BY DEF Pcs
<1>1. CASE ReadForIndex(a)
  <2>1. AllStay
    BY <1>1 DEF ReadForIndex, AllStay, FilesStay, StoresStay, IndexStays, VectorsStay, GraphStays, stores, graphVars, history, off
  <2>2. act[a].pc = "listing"
    BY <1>1 DEF ReadForIndex, Doing
  <2>3. At(a) \in Paths /\ act[a].path = {At(a)}
    BY <2>2, AtFacts, ActsFacts DEF AtPcs
  <2>4. CASE At(a) \in DOMAIN files
    <3>1. Reads(a, "indexing")
      BY <1>1, <2>4 DEF ReadForIndex
    <3>2. Turns(a, "indexing", act[a].path, {files[At(a)]}, act[a].todo, act[a].to) /\ NamesStay(Acts)
      BY <1>0, <2>4, <3>1, ReadsFacts, ActsFacts
    <3> QED  BY <1>1, <2>1, <2>2, <2>3, <2>4, <3>2
  <2>5. CASE At(a) \notin DOMAIN files
    <3>1. Goes(a, "toEmbed")
      BY <1>1, <2>5 DEF ReadForIndex
    <3>2. Steps(a, "toEmbed") /\ NamesStay(Acts)
      BY <1>0, <3>1, GoesFacts, ActsFacts DEF ShapeInv
    <3> QED  BY <1>1, <2>1, <2>2, <2>3, <2>5, <3>2
  <2> QED  BY <2>4, <2>5
<1>2. CASE ReadForVector(a)
  <2>1. AllStay
    BY <1>2 DEF ReadForVector, AllStay, FilesStay, StoresStay, IndexStays, VectorsStay, GraphStays, stores, graphVars, history, off
  <2>2. act[a].pc = "toEmbed"
    BY <1>2 DEF ReadForVector, Doing
  <2>3. At(a) \in Paths /\ act[a].path = {At(a)}
    BY <2>2, AtFacts, ActsFacts DEF AtPcs
  <2>4. CASE At(a) \in DOMAIN files
    <3>1. Reads(a, "embedding")
      BY <1>2, <2>4 DEF ReadForVector
    <3>2. Turns(a, "embedding", act[a].path, {files[At(a)]}, act[a].todo, act[a].to) /\ NamesStay(Acts)
      BY <1>0, <2>4, <3>1, ReadsFacts, ActsFacts
    <3> QED  BY <1>2, <2>1, <2>2, <2>3, <2>4, <3>2
  <2>5. CASE At(a) \notin DOMAIN files
    <3>1. Goes(a, "toGraph")
      BY <1>2, <2>5 DEF ReadForVector
    <3>2. Steps(a, "toGraph") /\ NamesStay(Acts)
      BY <1>0, <3>1, GoesFacts, ActsFacts DEF ShapeInv
    <3> QED  BY <1>2, <2>1, <2>2, <2>3, <2>5, <3>2
  <2> QED  BY <2>4, <2>5
<1> QED  BY <1>1, <1>2

\* One that has read it.
Processes(a, p, c, pc) ==
  act[a].pc = pc /\ At(a) = p /\ p \in Paths /\ act[a].path = {p} /\ c \in Notes /\ Seen(a) = c /\ act[a].seen = {c}

LEMMA ProcessesFacts ==
  ASSUME ShapeInv, NEW a \in Acts, act[a].pc \in SeenPcs
  PROVE  Processes(a, At(a), Seen(a), act[a].pc)
BY AtFacts, SeenFacts DEF AtPcs, SeenPcs, Processes

LEMMA IndexNoteFacts ==
  ASSUME ShapeInv, NEW a \in Tasks, IndexNote(a)
  PROVE  \E p, c :
           /\ Processes(a, p, c, "indexing")
           /\ FilesStay /\ VectorsStay /\ GraphStays /\ NamesStay(Acts)
           /\ index' = Put(index, p, c) /\ loaded' = loaded /\ indexOff' = indexOff
           /\ \/ loaded /\ Steps(a, "toEmbed")
              \/ ~loaded /\ Turns(a, "scan", {p}, {c}, Scanned, {p})
<1> DEFINE p == At(a)
           c == Seen(a)
<1>1. Processes(a, p, c, "indexing")
  BY ProcessesFacts, ActsFacts DEF IndexNote, Doing, SeenPcs
<1>2. /\ FilesStay /\ VectorsStay /\ GraphStays
      /\ index' = Put(index, p, c) /\ loaded' = loaded /\ indexOff' = indexOff
  BY DEF IndexNote, FilesStay, VectorsStay, GraphStays, graphVars, history, off
<1>3. CASE loaded
  BY <1>3, GoesFacts, ActsFacts, <1>1, <1>2 DEF IndexNote, Pcs, ShapeInv
<1>4. CASE ~loaded
  <2>1. PICK r \in ActRec : r = act[a]
    BY RecFacts, ActsFacts DEF ShapeInv
  <2>2. PICK q \in Paths : q = p
    BY <1>1 DEF Processes
  <2>3. PICK todo \in SUBSET Paths : todo = Scanned
    BY FileFacts DEF Scanned, ShapeInv
  <2>4. PICK s : s = [r EXCEPT !.pc = "scan", !.todo = todo, !.to = {q}]
    OBVIOUS
  <2>5. /\ s \in ActRec /\ s.pc = "scan" /\ s.ops = r.ops /\ s.path = r.path /\ s.seen = r.seen /\ s.names = r.names
        /\ s.found = r.found /\ s.todo = todo /\ s.goal = r.goal /\ s.was = r.was /\ s.to = {q} /\ s.again = r.again
    BY <2>4 DEF ActRec, Pcs
  <2>6. Becomes(a, s)
    BY <1>4, <2>1, <2>2, <2>3, <2>4 DEF IndexNote
  <2>7. Moves(a) /\ act'[a] = s /\ NamesStay(Acts \ {a})
    BY <2>5, <2>6, BecomesFacts, ActsFacts DEF ShapeInv
  <2>8. NamesStay(Acts)
    BY <2>1, <2>5, <2>7 DEF NamesStay
  <2>9. Turns(a, "scan", {p}, {c}, Scanned, {p})
    BY <1>1, <2>1, <2>2, <2>3, <2>5, <2>7 DEF Turns, Processes
  <2> QED  BY <1>1, <1>2, <1>4, <2>8, <2>9
<1> QED  BY <1>3, <1>4

LEMMA EmbedFacts ==
  ASSUME ShapeInv, NEW a \in Tasks, StoreVector(a) \/ EmbedFails(a)
  PROVE  \E p, c :
           /\ Processes(a, p, c, "embedding")
           /\ FilesStay /\ IndexStays /\ GraphStays /\ NamesStay(Acts) /\ Steps(a, "toGraph")
           /\ \/ vectors' = Put(vectors, <<p, "abs">>, c) /\ vectorsOff' = vectorsOff
              \/ vectors' = vectors /\ vectorsOff' = vectorsOff \cup {p}
<1>1. Processes(a, At(a), Seen(a), "embedding")
  BY ProcessesFacts, ActsFacts DEF StoreVector, EmbedFails, Doing, SeenPcs
<1>2. Steps(a, "toGraph") /\ NamesStay(Acts)
  BY GoesFacts, ActsFacts DEF StoreVector, EmbedFails, Pcs, ShapeInv
<1>3. /\ FilesStay /\ IndexStays /\ GraphStays
      /\ \/ vectors' = Put(vectors, <<At(a), "abs">>, Seen(a)) /\ vectorsOff' = vectorsOff
         \/ vectors' = vectors /\ vectorsOff' = vectorsOff \cup {At(a)}
  <2>1. CASE StoreVector(a)
    BY <2>1 DEF StoreVector, FilesStay, IndexStays, GraphStays, graphVars, history, off
  <2>2. CASE EmbedFails(a)
    BY <2>2 DEF EmbedFails, FilesStay, IndexStays, GraphStays, stores, graphVars, history
  <2> QED  BY <2>1, <2>2
<1> QED  BY <1>1, <1>2, <1>3

LEMMA ReadForGraphFacts ==
  ASSUME ShapeInv, NEW a \in Tasks, ReadForGraph(a)
  PROVE  /\ act[a].pc = "toGraph" /\ AllStay /\ NamesStay(Acts \ {a}) /\ At(a) \in Paths /\ act[a].path = {At(a)}
         /\ \/ At(a) \in DOMAIN files /\ Turns(a, "extracting", act[a].path, {files[At(a)]}, act[a].todo, act[a].to)
            \/ At(a) \notin DOMAIN files /\ Ends(a)
<1>1. AllStay
  BY DEF ReadForGraph, AllStay, FilesStay, StoresStay, IndexStays, VectorsStay, GraphStays, stores, graphVars, history, off
<1>2. act[a].pc = "toGraph"
  BY DEF ReadForGraph, Doing
<1>3. At(a) \in Paths /\ act[a].path = {At(a)}
  BY <1>2, AtFacts, ActsFacts DEF AtPcs
<1>4. CASE At(a) \in DOMAIN files
  BY <1>4, ReadsFacts, ActsFacts, <1>1, <1>2, <1>3 DEF ReadForGraph, Pcs, NamesStay
<1>5. CASE At(a) \notin DOMAIN files
  BY <1>5, <1>1, <1>2, <1>3, BecomesEnds DEF ReadForGraph
<1> QED  BY <1>4, <1>5

\* What a step that writes to the graph leaves alone.
GraphStep == FilesStay /\ IndexStays /\ VectorsStay /\ graphOff' = graphOff

LEMMA UnstateFacts ==
  ASSUME ShapeInv, NEW a \in Tasks, Unstate(a)
  PROVE  \E p, c, g :
           /\ Processes(a, p, c, "extracting") /\ GraphStep
           /\ g = DeleteSource(graph, p) /\ graph' = g /\ saved' = g
           /\ Steps(a, "stating") /\ Forgotten(g, Acts)
<1> DEFINE p == At(a)
<1>1. Processes(a, p, Seen(a), "extracting")
  BY ProcessesFacts, ActsFacts DEF Unstate, Doing, SeenPcs
<1>2. PICK g : g = DeleteSource(graph, p)
  OBVIOUS
<1>3. graph' = g /\ saved' = g /\ act' = [Forgets(g) EXCEPT ![a].pc = "stating"] /\ GraphStep
  BY <1>2 DEF Unstate, Commits, GraphStep, FilesStay, IndexStays, VectorsStay, stores, history, off
<1>4. PICK r \in ActRec : r = Forgets(g)[a] /\ Copies(act[a], r) /\ r.names = Left(g, a)
  BY ForgetsFacts, ActsFacts DEF ShapeInv
<1>5. PICK s : s = [r EXCEPT !.pc = "stating"]
  OBVIOUS
<1>6. /\ s \in ActRec /\ s.pc = "stating" /\ s.ops = r.ops /\ s.path = r.path /\ s.seen = r.seen /\ s.names = r.names
      /\ s.found = r.found /\ s.todo = r.todo /\ s.goal = r.goal /\ s.was = r.was /\ s.to = r.to /\ s.again = r.again
  BY <1>5 DEF ActRec, Pcs
<1>7. act' = [Forgets(g) EXCEPT ![a] = s]
  BY <1>3, <1>4, <1>5
<1>8. Moves(a) /\ act'[a] = s /\ Forgotten(g, Acts \ {a})
  BY <1>6, <1>7, ForgetAll, ActsFacts DEF ShapeInv
<1>9. Steps(a, "stating")
  BY <1>4, <1>6, <1>8 DEF Steps, Turns, Copies
<1>10. Forgotten(g, Acts)
  BY <1>4, <1>6, <1>8 DEF Forgotten
<1> QED  BY <1>1, <1>2, <1>3, <1>9, <1>10

LEMMA StateFacts ==
  ASSUME ShapeInv, NEW a \in Tasks, State(a)
  PROVE  \E p, c, ns :
           /\ Processes(a, p, c, "stating") /\ GraphStep
           /\ ns = StatedBy(p, c) /\ ns \in SUBSET Names /\ graph' = UpsertEntities(graph, p, ns) /\ saved' = saved
           /\ Steps(a, "relating") /\ act'[a].names = ns /\ NamesStay(Acts \ {a})
<1> DEFINE p == At(a)
           c == Seen(a)
<1>1. Processes(a, p, c, "stating")
  BY ProcessesFacts, ActsFacts DEF State, Doing, SeenPcs
<1>2. PICK ns \in SUBSET Names : ns = StatedBy(p, c)
  BY <1>1, LinkFacts DEF Processes
<1>3. graph' = UpsertEntities(graph, p, ns) /\ saved' = saved /\ GraphStep
  BY <1>2 DEF State, Writes, GraphStep, FilesStay, IndexStays, VectorsStay, stores, history, off
<1>4. PICK r \in ActRec : r = act[a]
  BY RecFacts, ActsFacts DEF ShapeInv
<1>5. PICK s : s = [r EXCEPT !.pc = "relating", !.names = ns]
  OBVIOUS
<1>6. /\ s \in ActRec /\ s.pc = "relating" /\ s.ops = r.ops /\ s.path = r.path /\ s.seen = r.seen /\ s.names = ns
      /\ s.found = r.found /\ s.todo = r.todo /\ s.goal = r.goal /\ s.was = r.was /\ s.to = r.to /\ s.again = r.again
  BY <1>5 DEF ActRec, Pcs
<1>7. Becomes(a, s)
  BY <1>2, <1>4, <1>5 DEF State
<1>8. Moves(a) /\ act'[a] = s /\ NamesStay(Acts \ {a})
  BY <1>6, <1>7, BecomesFacts, ActsFacts DEF ShapeInv
<1>9. Steps(a, "relating")
  BY <1>4, <1>6, <1>8 DEF Steps, Turns
<1> QED  BY <1>1, <1>2, <1>3, <1>6, <1>8, <1>9

LEMMA RelateFacts ==
  ASSUME ShapeInv, NEW a \in Tasks, Relate(a)
  PROVE  \E p, c, es :
           /\ Processes(a, p, c, "relating") /\ GraphStep /\ NamesStay(Acts \ {a})
           /\ es \in SUBSET EdgesBy(p, c) /\ graph' = UpsertEdges(graph, es) /\ saved' = saved
           /\ \A e \in es : {e.from, e.to} \subseteq act[a].names
           /\ \/ es = EdgesBy(p, c) /\ Steps(a, "committing")
              \/ ~(\A e \in EdgesBy(p, c) : {e.from, e.to} \subseteq act[a].names) /\ Ends(a)
<1> DEFINE p == At(a)
           c == Seen(a)
<1>1. Processes(a, p, c, "relating")
  BY ProcessesFacts, ActsFacts DEF Relate, Doing, SeenPcs
<1>2. GraphStep /\ saved' = saved
  BY DEF Relate, Writes, GraphStep, FilesStay, IndexStays, VectorsStay, stores, history, off
<1> DEFINE all == EdgesBy(p, c)
           fit == {e \in all : {e.from, e.to} \subseteq act[a].names}
<1>3. CASE fit = all
  BY <1>3, GoesFacts, ActsFacts, <1>1, <1>2 DEF Relate, Writes, Pcs, ShapeInv, NamesStay
<1>4. CASE fit # all
  BY <1>4, <1>1, BecomesEnds, <1>2 DEF Relate, Writes, Processes
<1> QED  BY <1>3, <1>4

LEMMA CommitFacts ==
  ASSUME ShapeInv, NEW a \in Tasks, Commit(a)
  PROVE  \E p, c, g :
           /\ Processes(a, p, c, "committing") /\ GraphStep /\ NamesStay(Acts \ {a})
           /\ g \in {graph, Confirm(graph, p)} /\ graph' = g /\ saved' = g
           /\ Ends(a)
<1>1. Processes(a, At(a), Seen(a), "committing")
  BY ProcessesFacts, ActsFacts DEF Commit, Doing, SeenPcs
<1>2. PICK g : g = IF Op(a).do = "create" THEN graph ELSE Confirm(graph, At(a))
  OBVIOUS
<1>3. graph' = g /\ saved' = g /\ GraphStep
  BY <1>2 DEF Commit, Commits, GraphStep, FilesStay, IndexStays, VectorsStay, stores, history, off
<1>4. Ends(a) /\ NamesStay(Acts \ {a})
  BY <1>1, BecomesEnds DEF Commit, Processes
<1>5. g \in {graph, Confirm(graph, At(a))}
  BY <1>2
<1> QED  BY <1>1, <1>3, <1>4, <1>5

Clears(a, p, pc) == act[a].pc = pc /\ At(a) = p /\ p \in Paths /\ act[a].path = {p}

LEMMA ClearsFacts ==
  ASSUME ShapeInv, NEW a \in Acts, act[a].pc \in Untold
  PROVE  Clears(a, At(a), act[a].pc)
BY AtFacts DEF AtPcs, Untold, Clears

LEMMA UnlistFacts ==
  ASSUME ShapeInv, NEW a \in Tasks, Unlist(a)
  PROVE  \E p : /\ Clears(a, p, "unlisting") /\ FilesStay /\ VectorsStay /\ GraphStays /\ NamesStay(Acts)
                /\ index' = Drop(index, {p}) /\ loaded' = loaded /\ indexOff' = indexOff
                /\ Steps(a, "unembedding")
<1>1. Clears(a, At(a), "unlisting")
  BY ClearsFacts, ActsFacts DEF Unlist, Doing, Untold
<1>2. /\ FilesStay /\ VectorsStay /\ GraphStays /\ index' = Drop(index, {At(a)}) /\ loaded' = loaded /\ indexOff' = indexOff
  BY DEF Unlist, FilesStay, VectorsStay, GraphStays, graphVars, history, off
<1>3. Steps(a, "unembedding") /\ NamesStay(Acts)
  BY GoesFacts, ActsFacts DEF Unlist, Pcs, ShapeInv
<1> QED  BY <1>1, <1>2, <1>3

LEMMA UnembedFacts ==
  ASSUME ShapeInv, NEW a \in Tasks, Unembed(a)
  PROVE  \E p : /\ Clears(a, p, "unembedding") /\ FilesStay /\ IndexStays /\ GraphStays /\ NamesStay(Acts)
                /\ vectors' = Drop(vectors, {<<p, "abs">>}) /\ vectorsOff' = vectorsOff
                /\ Steps(a, "removing")
<1>1. Clears(a, At(a), "unembedding")
  BY ClearsFacts, ActsFacts DEF Unembed, Doing, Untold
<1>2. /\ FilesStay /\ IndexStays /\ GraphStays /\ vectors' = Drop(vectors, {<<At(a), "abs">>}) /\ vectorsOff' = vectorsOff
  BY DEF Unembed, FilesStay, IndexStays, GraphStays, graphVars, history, off
<1>3. Steps(a, "removing") /\ NamesStay(Acts)
  BY GoesFacts, ActsFacts DEF Unembed, Pcs, ShapeInv
<1> QED  BY <1>1, <1>2, <1>3

LEMMA FinishedRec ==
  ASSUME ShapeInv, NEW a \in Tasks, act[a].pc # "idle"
  PROVE  Finished(a) \in ActRec
<1>1. CASE Rested(a, Finished(a))
  BY <1>1 DEF Rested
<1>2. ASSUME NEW todo \in SUBSET Paths, Finished(a) = [act[a] EXCEPT !.pc = "stubbing", !.todo = todo]
      PROVE  Finished(a) \in ActRec
  <2>1. PICK r \in ActRec : r = act[a]
    BY RecFacts, ActsFacts DEF ShapeInv
  <2>2. [r EXCEPT !.pc = "stubbing", !.todo = todo] \in ActRec
    BY DEF ActRec, Pcs
  <2> QED  BY <1>2, <2>1, <2>2
<1> QED  BY <1>1, <1>2, FinishedFacts

LEMMA WithdrawFacts ==
  ASSUME ShapeInv, NEW a \in Tasks, Withdraw(a)
  PROVE  \E p, g :
           /\ Clears(a, p, "removing") /\ GraphStep
           /\ g = DeleteSource(graph, p) /\ graph' = g /\ saved' = g
           /\ Ends(a) /\ Forgotten(g, Acts \ {a})
<1>1. Clears(a, At(a), "removing")
  BY ClearsFacts, ActsFacts DEF Withdraw, Doing, Untold
<1>2. PICK g : g = DeleteSource(graph, At(a))
  OBVIOUS
<1>3. graph' = g /\ saved' = g /\ act' = [Forgets(g) EXCEPT ![a] = Finished(a)] /\ GraphStep
  BY <1>2 DEF Withdraw, Commits, GraphStep, FilesStay, IndexStays, VectorsStay, stores, history, off
<1>4. Finished(a) \in ActRec
  BY <1>1, FinishedRec DEF Clears
<1>5. Moves(a) /\ act'[a] = Finished(a) /\ Forgotten(g, Acts \ {a})
  BY <1>3, <1>4, ForgetAll, ActsFacts DEF ShapeInv
<1>6. Ends(a)
  BY <1>1, <1>5, EndsFacts DEF Clears, Moves
<1> QED  BY <1>1, <1>2, <1>3, <1>5, <1>6

-----------------------------------------------------------------------------
\* The scan.

LEMMA ReadToScanFacts ==
  ASSUME ShapeInv, NEW a \in Tasks \cup {"reindex"}, ReadToScan(a)
  PROVE  /\ act[a].pc = "scan" /\ AllStay /\ NamesStay(Acts)
         /\ \E p \in act[a].todo :
              /\ p \in Paths
              /\ \/ p \in DOMAIN files /\ Turns(a, "scanning", {p}, {files[p]}, act[a].todo \ {p}, act[a].to)
                 \/ p \notin DOMAIN files /\ Turns(a, "scan", act[a].path, act[a].seen, act[a].todo \ {p}, act[a].to)
<1>1. act[a].pc = "scan" /\ AllStay
  BY DEF ReadToScan, Doing, AllStay, FilesStay, StoresStay, IndexStays, VectorsStay, GraphStays, stores, graphVars, history, off
<1>2. PICK r \in ActRec : r = act[a]
  BY RecFacts, ActsFacts DEF ShapeInv
<1>3. PICK p \in act[a].todo :
        Becomes(a, IF p \in DOMAIN files
                   THEN [act[a] EXCEPT !.pc = "scanning", !.path = {p}, !.seen = {files[p]}, !.todo = @ \ {p}]
                   ELSE [act[a] EXCEPT !.todo = @ \ {p}])
  BY DEF ReadToScan
<1>4. p \in Paths
  BY <1>2, <1>3 DEF ActRec
<1>5. CASE p \in DOMAIN files
  <2>1. PICK c \in Notes : c = files[p]
    BY <1>5, FileFacts DEF ShapeInv
  <2>2. PICK s : s = [r EXCEPT !.pc = "scanning", !.path = {p}, !.seen = {c}, !.todo = @ \ {p}]
    OBVIOUS
  <2>3. /\ s \in ActRec /\ s.pc = "scanning" /\ s.ops = r.ops /\ s.path = {p} /\ s.seen = {c} /\ s.names = r.names
        /\ s.found = r.found /\ s.todo = r.todo \ {p} /\ s.goal = r.goal /\ s.was = r.was /\ s.to = r.to /\ s.again = r.again
    BY <1>4, <2>2 DEF ActRec, Pcs
  <2>4. Becomes(a, s)
    BY <1>2, <1>3, <1>5, <2>1, <2>2
  <2>5. Moves(a) /\ act'[a] = s /\ NamesStay(Acts \ {a})
    BY <2>3, <2>4, BecomesFacts, ActsFacts DEF ShapeInv
  <2>6. Turns(a, "scanning", {p}, {files[p]}, act[a].todo \ {p}, act[a].to) /\ NamesStay(Acts)
    BY <1>2, <2>1, <2>3, <2>5 DEF Turns, NamesStay
  <2> QED  BY <1>1, <1>3, <1>4, <1>5, <2>6
<1>6. CASE p \notin DOMAIN files
  <2>1. PICK s : s = [r EXCEPT !.todo = @ \ {p}]
    OBVIOUS
  <2>2. /\ s \in ActRec /\ s.pc = r.pc /\ s.ops = r.ops /\ s.path = r.path /\ s.seen = r.seen /\ s.names = r.names
        /\ s.found = r.found /\ s.todo = r.todo \ {p} /\ s.goal = r.goal /\ s.was = r.was /\ s.to = r.to /\ s.again = r.again
    BY <2>1 DEF ActRec
  <2>3. Becomes(a, s)
    BY <1>2, <1>3, <1>6, <2>1
  <2>4. Moves(a) /\ act'[a] = s /\ NamesStay(Acts \ {a})
    BY <2>2, <2>3, BecomesFacts, ActsFacts DEF ShapeInv
  <2>5. Turns(a, "scan", act[a].path, act[a].seen, act[a].todo \ {p}, act[a].to) /\ NamesStay(Acts)
    BY <1>1, <1>2, <2>2, <2>4 DEF Turns, NamesStay
  <2> QED  BY <1>1, <1>3, <1>4, <1>6, <2>5
<1> QED  BY <1>5, <1>6

LEMMA ScanFacts ==
  ASSUME ShapeInv, NEW a \in Tasks \cup {"reindex"}, Scan(a)
  PROVE  \E p, c :
           /\ Processes(a, p, c, "scanning") /\ FilesStay /\ VectorsStay /\ GraphStays /\ NamesStay(Acts)
           /\ index' = Put(index, p, c) /\ loaded' = loaded /\ indexOff' = indexOff
           /\ Steps(a, "scan")
<1>1. Processes(a, At(a), Seen(a), "scanning")
  BY ProcessesFacts, ActsFacts DEF Scan, Doing, SeenPcs
<1>2. /\ FilesStay /\ VectorsStay /\ GraphStays
      /\ index' = Put(index, At(a), Seen(a)) /\ loaded' = loaded /\ indexOff' = indexOff
  BY DEF Scan, FilesStay, VectorsStay, GraphStays, graphVars, history, off
<1>3. Steps(a, "scan") /\ NamesStay(Acts)
  BY GoesFacts, ActsFacts DEF Scan, Pcs, ShapeInv
<1> QED  BY <1>1, <1>2, <1>3

LEMMA ScanEndsFacts ==
  ASSUME ShapeInv, NEW a \in Tasks \cup {"reindex"}, ScanEnds(a)
  PROVE  /\ act[a].pc = "scan" /\ act[a].todo = {} /\ FilesStay /\ VectorsStay /\ GraphStays /\ NamesStay(Acts \ {a})
         /\ index' = index /\ indexOff' = indexOff
         /\ \/ a \in Tasks /\ loaded' = (DOMAIN index # {}) /\ Turns(a, "toEmbed", act[a].to, act[a].seen, {}, {})
            \/ a \notin Tasks /\ (act[a].again \/ loaded) /\ loaded' = (DOMAIN index # {}) /\ Moves(a) /\ act'[a] = Idle
            \/ /\ a \notin Tasks /\ ~act[a].again /\ ~loaded /\ loaded' = loaded /\ Moves(a)
               /\ act'[a].pc = "scan" /\ act'[a].path = act[a].path /\ act'[a].todo = Scanned /\ act'[a].to = act[a].to
               /\ act'[a].ops = act[a].ops /\ act'[a].again = TRUE /\ act'[a].seen = act[a].seen
<1>1. act[a].pc = "scan" /\ act[a].todo = {} /\ FilesStay /\ VectorsStay /\ GraphStays /\ index' = index /\ indexOff' = indexOff
  BY DEF ScanEnds, Doing, FilesStay, VectorsStay, GraphStays, graphVars, history, off
<1>2. PICK r \in ActRec : r = act[a]
  BY RecFacts, ActsFacts DEF ShapeInv
<1>3. CASE a \in Tasks
  <2>1. PICK s : s = [r EXCEPT !.pc = "toEmbed", !.path = r.to, !.to = {}]
    OBVIOUS
  <2>2. /\ s \in ActRec /\ s.pc = "toEmbed" /\ s.ops = r.ops /\ s.path = r.to /\ s.seen = r.seen /\ s.names = r.names
        /\ s.found = r.found /\ s.todo = r.todo /\ s.goal = r.goal /\ s.was = r.was /\ s.to = {} /\ s.again = r.again
    BY <2>1 DEF ActRec, Pcs
  <2>3. Becomes(a, s) /\ loaded' = (DOMAIN index # {})
    BY <1>2, <1>3, <2>1 DEF ScanEnds
  <2>4. Moves(a) /\ act'[a] = s /\ NamesStay(Acts \ {a})
    BY <2>2, <2>3, BecomesFacts, ActsFacts DEF ShapeInv
  <2>5. Turns(a, "toEmbed", act[a].to, act[a].seen, {}, {})
    BY <1>1, <1>2, <2>2, <2>4 DEF Turns
  <2> QED  BY <1>1, <1>3, <2>3, <2>4, <2>5
<1>4. CASE a \notin Tasks /\ (act[a].again \/ loaded)
  <2>1. Becomes(a, Idle) /\ loaded' = (DOMAIN index # {})
    BY <1>4 DEF ScanEnds
  <2>2. Moves(a) /\ act'[a] = Idle /\ NamesStay(Acts \ {a})
    BY <2>1, BecomesFacts, IdleFacts, ActsFacts DEF ShapeInv
  <2> QED  BY <1>1, <1>4, <2>1, <2>2
<1>5. CASE a \notin Tasks /\ ~(act[a].again \/ loaded)
  <2>1. PICK todo \in SUBSET Paths : todo = Scanned
    BY FileFacts DEF Scanned, ShapeInv
  <2>2. PICK s : s = [r EXCEPT !.todo = todo, !.again = TRUE]
    OBVIOUS
  <2>3. /\ s \in ActRec /\ s.pc = r.pc /\ s.ops = r.ops /\ s.path = r.path /\ s.seen = r.seen /\ s.names = r.names
        /\ s.todo = todo /\ s.to = r.to /\ s.again = TRUE
    BY <2>2 DEF ActRec
  <2>4. Becomes(a, s) /\ loaded' = loaded
    BY <1>2, <1>5, <2>1, <2>2 DEF ScanEnds
  <2>5. Moves(a) /\ act'[a] = s /\ NamesStay(Acts \ {a})
    BY <2>3, <2>4, BecomesFacts, ActsFacts DEF ShapeInv
  <2> QED  BY <1>1, <1>2, <1>5, <2>1, <2>3, <2>4, <2>5
<1> QED  BY <1>3, <1>4, <1>5

-----------------------------------------------------------------------------
\* The promotion.

\* It is done, or goes on to the next note.
Wanders == /\ Moves("care") /\ NamesStay(Acts \ {"care"})
           /\ act'["care"].pc \in {"idle", "visiting"} /\ act'["care"].path = {} /\ act'["care"].to = {}
           /\ act'["care"].ops = <<>>

LEMMA VisitsFacts ==
  ASSUME ShapeInv, NEW rest \in SUBSET Paths, Becomes("care", Visits(rest))
  PROVE  Wanders
<1>1. PICK i \in ActRec : i = Idle /\ i.path = {} /\ i.to = {} /\ i.ops = <<>>
  BY IdleFacts
<1>2. PICK pc \in {"idle", "visiting"} : pc = IF rest = {} THEN "idle" ELSE "visiting"
  OBVIOUS
<1>3. PICK s : s = [i EXCEPT !.pc = pc, !.todo = rest]
  OBVIOUS
<1>4. s \in ActRec /\ s.pc = pc /\ s.path = {} /\ s.to = {} /\ s.ops = <<>>
  BY <1>1, <1>2, <1>3 DEF ActRec, Pcs
<1>5. Becomes("care", s)
  BY <1>1, <1>2, <1>3 DEF Visits
<1> QED  BY <1>4, <1>5, <1>2, BecomesFacts, ActsFacts DEF Wanders, ShapeInv

LEMMA CareIdles ==
  ASSUME ShapeInv, Becomes("care", Idle)
  PROVE  Wanders
BY BecomesFacts, ActsFacts, IdleFacts DEF ShapeInv, Wanders

LEMMA CareTodo ==
  ASSUME ShapeInv
  PROVE  act["care"].todo \in SUBSET Paths
BY RecFacts, ActsFacts DEF ActRec, ShapeInv

LEMMA StartCareFacts ==
  ASSUME ShapeInv, StartCare
  PROVE  AllStay /\ Wanders
<1>1. AllStay
  BY DEF StartCare, AllStay, FilesStay, StoresStay, IndexStays, VectorsStay, GraphStays, stores, graphVars, history, off
<1>2. {p \in DOMAIN files : Dir(p) # "seeds"} \in SUBSET Paths
  BY FileFacts DEF ShapeInv
<1> QED  BY <1>1, <1>2, VisitsFacts DEF StartCare

LEMMA GoalFacts ==
  ASSUME NEW g, NEW p, NEW status, NEW goal \in Evaluate(g, p, status)
  PROVE  goal \in Folders
BY DEF Evaluate, Demotion, Promotion, Folders, Maturities

LEMMA MaturedFacts ==
  ASSUME NEW c \in Notes
  PROVE  Matured(c) \in Statuses
BY DEF Matured, Notes, Statuses

\* A note whose status is going to change.
Picked(p, goal, was) ==
  /\ p \in act["care"].todo /\ p \in Paths /\ p \in DOMAIN files /\ goal \in Folders /\ was = Matured(files[p])
  /\ Moves("care") /\ NamesStay(Acts \ {"care"})
  /\ act'["care"].pc = "status" /\ act'["care"].path = {p} /\ act'["care"].to = {} /\ act'["care"].ops = <<>>
  /\ act'["care"].goal = goal /\ act'["care"].was = was

LEMMA VisitFacts ==
  ASSUME ShapeInv, Visit
  PROVE  /\ act["care"].pc = "visiting" /\ AllStay
         /\ Wanders \/ \E p, goal, was : Picked(p, goal, was)
<1>1. act["care"].pc = "visiting" /\ AllStay
  BY DEF Visit, Cares, Doing, AllStay, FilesStay, StoresStay, IndexStays, VectorsStay, GraphStays, stores, graphVars, history, off
<1> DEFINE rest(p) == act["care"].todo \ {p}
           gone1(p) == p \notin DOMAIN files /\ Becomes("care", Idle)
           none(p) == p \in DOMAIN files /\ Becomes("care", Visits(rest(p)))
           some(p) == p \in DOMAIN files /\ \E s \in Evaluate(graph, p, files[p].status) :
                        Becomes("care", [Idle EXCEPT !.pc = "status", !.path = {p}, !.todo = rest(p),
                                                     !.goal = s, !.was = Matured(files[p])])
<1>2. PICK p \in act["care"].todo : gone1(p) \/ none(p) \/ some(p)
  BY DEF Visit
<1>3. p \in Paths
  BY CareTodo
<1>4. CASE gone1(p)
  BY <1>1, <1>4, CareIdles
<1>5. CASE none(p)
  BY CareTodo, <1>1, <1>5, VisitsFacts
<1>6. CASE some(p)
  <2>1. PICK i \in ActRec : i = Idle /\ i.path = {} /\ i.to = {} /\ i.ops = <<>>
    BY IdleFacts
  <2>2. PICK goal \in Folders : Becomes("care", [i EXCEPT !.pc = "status", !.path = {p}, !.todo = rest(p),
                                                          !.goal = goal, !.was = Matured(files[p])])
    BY <1>6, <2>1, GoalFacts
  <2>3. PICK was \in Statuses : was = Matured(files[p])
    BY <1>6, FileFacts, MaturedFacts DEF ShapeInv
  <2>4. PICK todo \in SUBSET Paths : todo = rest(p)
    BY CareTodo
  <2>5. PICK s : s = [i EXCEPT !.pc = "status", !.path = {p}, !.todo = todo, !.goal = goal, !.was = was]
    OBVIOUS
  <2>6. goal \in Statuses
    BY DEF Folders, Maturities, Statuses
  <2>7. /\ s \in ActRec /\ s.pc = "status" /\ s.path = {p} /\ s.to = {} /\ s.ops = <<>> /\ s.goal = goal /\ s.was = was
    BY <1>3, <2>1, <2>5, <2>6 DEF ActRec, Pcs
  <2>8. Becomes("care", s)
    BY <2>2, <2>3, <2>4, <2>5
  <2>9. Moves("care") /\ act'["care"] = s /\ NamesStay(Acts \ {"care"})
    BY <2>7, <2>8, BecomesFacts, ActsFacts DEF ShapeInv
  <2>10. Picked(p, goal, was)
    BY <1>2, <1>3, <1>6, <2>2, <2>3, <2>7, <2>9 DEF Picked
  <2> QED  BY <1>1, <2>10
<1> QED  BY <1>2, <1>4, <1>5, <1>6

LEMMA CareAt ==
  ASSUME ShapeInv, act["care"].pc \in Promoting
  PROVE  At("care") \in Paths /\ act["care"].path = {At("care")} /\ act["care"].goal \in Folders
BY AtFacts, ActsFacts DEF Promoting, AtPcs, ShapeInv, FitsInv, Fits

LEMMA CareReadFacts ==
  ASSUME ShapeInv, ReadStatus \/ ReadField
  PROVE  \E p : /\ At("care") = p /\ p \in Paths /\ act["care"].path = {p} /\ p \in DOMAIN files /\ files[p] \in Notes
                /\ AllStay /\ NamesStay(Acts)
                /\ \/ act["care"].pc = "status" /\ Turns("care", "statusWrite", {p}, {files[p]}, act["care"].todo, act["care"].to)
                   \/ /\ act["care"].pc = "field" /\ GardenLockFree
                      /\ Turns("care", "fieldWrite", {p}, {files[p]}, act["care"].todo, act["care"].to)
<1> DEFINE p == At("care")
<1>1. act["care"].pc \in {"status", "field"}
  BY DEF ReadStatus, ReadField, Cares, Doing
<1>2. p \in Paths /\ act["care"].path = {p}
  BY <1>1, CareAt DEF Promoting
<1>3. p \in DOMAIN files
  BY DEF ReadStatus, ReadField
<1>4. AllStay
  BY DEF ReadStatus, ReadField, AllStay, FilesStay, StoresStay, IndexStays, VectorsStay, GraphStays, stores, graphVars, history, off
<1>5. files[p] \in Notes
  BY <1>3, FileFacts DEF ShapeInv
<1>6. CASE ReadStatus
  <2>1. Turns("care", "statusWrite", {p}, {files[p]}, act["care"].todo, act["care"].to) /\ NamesStay(Acts)
    BY <1>2, <1>3, <1>6, ReadsFacts, ActsFacts DEF ReadStatus, Pcs
  <2>2. act["care"].pc = "status"
    BY <1>6 DEF ReadStatus, Cares, Doing
  <2> QED  BY <1>2, <1>3, <1>4, <1>5, <2>1, <2>2
<1>7. CASE ReadField
  <2>1. Turns("care", "fieldWrite", {p}, {files[p]}, act["care"].todo, act["care"].to) /\ NamesStay(Acts)
    BY <1>2, <1>3, <1>7, ReadsFacts, ActsFacts DEF ReadField, Pcs
  <2>2. act["care"].pc = "field" /\ GardenLockFree
    BY <1>7 DEF ReadField, Cares, Doing
  <2> QED  BY <1>2, <1>3, <1>4, <1>5, <2>1, <2>2
<1> QED  BY <1>6, <1>7

\* A note that a promotion writes without an event that the index and the graph understand.
StatusWritten(p, c, n) ==
  /\ Processes("care", p, c, "statusWrite") /\ Steps("care", "field") /\ NamesStay(Acts)
  /\ written' = written /\ gone' = gone /\ cut' = cut /\ crossed' = crossed /\ astray' = astray
  /\ index' = index /\ loaded' = loaded /\ graph' = graph /\ saved' = saved
  /\ \/ /\ files' = files /\ vectors' = vectors /\ indexOff' = indexOff /\ vectorsOff' = vectorsOff /\ graphOff' = graphOff
     \/ /\ files' = Put(files, p, n) /\ vectors' = Put(vectors, <<p, "rel">>, n) /\ Silently({p})
        /\ c.status # "none" /\ n \in Notes /\ TextsOf(n) = TextsOf(c) /\ n.maturity = c.maturity

LEMMA WriteStatusFacts ==
  ASSUME ShapeInv, WriteStatus
  PROVE  \E p, c, n : StatusWritten(p, c, n)
<1>1. act["care"].pc = "statusWrite"
  BY DEF WriteStatus, Cares, Doing
<1>2. PICK p, c : Processes("care", p, c, "statusWrite")
  BY <1>1, ProcessesFacts, ActsFacts DEF SeenPcs
<1>3. Steps("care", "field") /\ NamesStay(Acts)
  BY GoesFacts, ActsFacts DEF WriteStatus, Pcs, ShapeInv
<1>4. PICK goal \in Statuses : goal = act["care"].goal
  BY RecFacts, ActsFacts DEF ActRec, ShapeInv
<1>5. c \in Notes /\ At("care") = p /\ Seen("care") = c
  BY <1>2 DEF Processes
<1>6. PICK n : n = [c EXCEPT !.status = goal]
  OBVIOUS
<1>7. n \in Notes /\ TextsOf(n) = TextsOf(c) /\ n.maturity = c.maturity
  BY <1>5, <1>6 DEF Notes, TextsOf
<1>8. /\ written' = written /\ gone' = gone /\ cut' = cut /\ crossed' = crossed /\ astray' = astray
      /\ index' = index /\ loaded' = loaded /\ graph' = graph /\ saved' = saved
  BY DEF WriteStatus, graphVars, history
<1>9. IF c.status \in {"none", goal} THEN UNCHANGED <<files, vectors, off>>
      ELSE files' = Put(files, p, n) /\ vectors' = Put(vectors, <<p, "rel">>, n) /\ Silently({p})
  BY <1>4, <1>5, <1>6 DEF WriteStatus
<1>10. StatusWritten(p, c, n)
  BY <1>2, <1>3, <1>7, <1>8, <1>9 DEF StatusWritten, off
<1> QED  BY <1>10

FieldWritten(p, c, n, goal) ==
  /\ Processes("care", p, c, "fieldWrite") /\ act["care"].goal = goal /\ goal \in Folders
  /\ files' = Put(files, p, n) /\ Silently({p})
  /\ written' = written /\ gone' = gone /\ cut' = cut /\ crossed' = crossed /\ astray' = astray
  /\ index' = index /\ loaded' = loaded /\ vectors' = vectors /\ graph' = graph /\ saved' = saved
  /\ n \in Notes /\ TextsOf(n) = TextsOf(c) /\ n.maturity = goal /\ n.status = c.status
  /\ \/ (goal = act["care"].was \/ goal = Dir(p)) /\ Wanders
     \/ /\ goal # act["care"].was /\ goal # Dir(p)
        /\ \E q \in Paths : /\ q \notin DOMAIN files /\ Dir(q) = goal
                            /\ Turns("care", "renaming", {p}, {c}, act["care"].todo, {q}) /\ NamesStay(Acts)

LEMMA WriteFieldFacts ==
  ASSUME ShapeInv, WriteField
  PROVE  \E p, c, n, goal : FieldWritten(p, c, n, goal)
<1>1. act["care"].pc = "fieldWrite"
  BY DEF WriteField, Cares, Doing
<1>2. PICK p, c : Processes("care", p, c, "fieldWrite")
  BY <1>1, ProcessesFacts, ActsFacts DEF SeenPcs
<1>3. PICK goal \in Folders : goal = act["care"].goal
  BY <1>1, CareAt DEF Promoting
<1>4. goal \in Statuses
  BY DEF Folders, Maturities, Statuses
<1>5. c \in Notes /\ At("care") = p /\ Seen("care") = c /\ act["care"].seen = {c} /\ act["care"].path = {p} /\ p \in Paths
  BY <1>2 DEF Processes
<1>6. PICK n : n = [c EXCEPT !.maturity = goal]
  OBVIOUS
<1>7. n \in Notes /\ TextsOf(n) = TextsOf(c) /\ n.maturity = goal /\ n.status = c.status
  BY <1>4, <1>5, <1>6 DEF Notes, TextsOf
<1>8. /\ files' = Put(files, p, n) /\ Silently({p})
      /\ written' = written /\ gone' = gone /\ cut' = cut /\ crossed' = crossed /\ astray' = astray
      /\ index' = index /\ loaded' = loaded /\ vectors' = vectors /\ graph' = graph /\ saved' = saved
  BY <1>3, <1>5, <1>6 DEF WriteField, stores, graphVars, history
<1>9. CASE goal = act["care"].was \/ goal = Dir(p)
  <2>1. Becomes("care", Visits(act["care"].todo))
    BY <1>3, <1>5, <1>9 DEF WriteField, NextNote
  <2>2. Wanders
    BY <2>1, VisitsFacts, CareTodo
  <2>3. FieldWritten(p, c, n, goal)
    BY <1>2, <1>3, <1>7, <1>8, <1>9, <2>2 DEF FieldWritten
  <2> QED  BY <2>3
<1>10. CASE ~(goal = act["care"].was \/ goal = Dir(p))
  <2>1. PICK q \in Free(<<goal, p[2], p[3]>>) : Becomes("care", [act["care"] EXCEPT !.pc = "renaming", !.to = {q}])
    BY <1>3, <1>5, <1>10 DEF WriteField
  <2>2. <<goal, p[2], p[3]>> \in Paths /\ Dir(<<goal, p[2], p[3]>>) = goal
    BY DirsAssumption, <1>5, PathsAssumption DEF Folders, Dir
  <2>3. q \in Paths /\ q \notin DOMAIN files /\ Dir(q) = goal
    BY <2>1, <2>2, FreeFacts
  <2>4. PICK r \in ActRec : r = act["care"]
    BY RecFacts, ActsFacts DEF ShapeInv
  <2>5. PICK s : s = [r EXCEPT !.pc = "renaming", !.to = {q}]
    OBVIOUS
  <2>6. /\ s \in ActRec /\ s.pc = "renaming" /\ s.ops = r.ops /\ s.path = r.path /\ s.seen = r.seen /\ s.names = r.names
        /\ s.found = r.found /\ s.todo = r.todo /\ s.goal = r.goal /\ s.was = r.was /\ s.to = {q} /\ s.again = r.again
    BY <2>3, <2>5 DEF ActRec, Pcs
  <2>7. Becomes("care", s)
    BY <2>1, <2>4, <2>5
  <2>8. Moves("care") /\ act'["care"] = s /\ NamesStay(Acts \ {"care"})
    BY <2>6, <2>7, BecomesFacts, ActsFacts DEF ShapeInv
  <2>9. Turns("care", "renaming", {p}, {c}, act["care"].todo, {q}) /\ NamesStay(Acts)
    BY <1>5, <2>4, <2>6, <2>8 DEF Turns, NamesStay
  <2>10. FieldWritten(p, c, n, goal)
    BY <1>2, <1>3, <1>7, <1>8, <1>10, <2>3, <2>9 DEF FieldWritten
  <2> QED  BY <2>10
<1> QED  BY <1>9, <1>10

Renamed(p, q) ==
  /\ act["care"].pc = "renaming" /\ act["care"].path = {p} /\ act["care"].to = {q} /\ p \in Paths /\ q \in Paths
  /\ p \in DOMAIN files /\ Dir(q) \in Folders /\ Dir(q) # Dir(p) /\ files[p] \in Notes
  /\ files' = Put(Drop(files, {p}), q, files[p]) /\ Silently({p, q})
  /\ crossed' = (IF Crossers("care", q) = {} THEN crossed ELSE crossed \cup TextsAt(p))
  /\ astray' = (IF Others("care", p, {"applying"}) = {} THEN astray ELSE astray \cup {p})
  /\ written' = written /\ gone' = gone /\ cut' = cut
  /\ index' = index /\ loaded' = loaded /\ vectors' = vectors /\ graph' = graph /\ saved' = saved
  /\ Wanders

LEMMA RenameFacts ==
  ASSUME ShapeInv, Rename
  PROVE  \E p, q : Renamed(p, q)
<1>1. act["care"].pc = "renaming" /\ At("care") \in DOMAIN files
  BY DEF Rename, Cares, Doing
<1>2. PICK p : p = At("care")
  OBVIOUS
<1>3. p \in Paths /\ act["care"].path = {p}
  BY <1>1, <1>2, CareAt DEF Promoting
<1>4. PICK q \in Paths : act["care"].to = {q} /\ Dir(q) \in Folders /\ Dir(q) # Dir(p)
  BY <1>1, <1>3, ActsFacts DEF ShapeInv, FitsInv, Fits, Promoting
<1>5. /\ files' = Put(Drop(files, {p}), q, files[p]) /\ Silently({p, q})
      /\ crossed' = (IF Crossers("care", q) = {} THEN crossed ELSE crossed \cup TextsAt(p))
      /\ astray' = (IF Others("care", p, {"applying"}) = {} THEN astray ELSE astray \cup {p})
  BY <1>2, <1>4 DEF Rename
<1>6. /\ written' = written /\ gone' = gone /\ cut' = cut
      /\ index' = index /\ loaded' = loaded /\ vectors' = vectors /\ graph' = graph /\ saved' = saved
  BY DEF Rename, stores, graphVars
<1>7. Wanders
  BY VisitsFacts, CareTodo DEF Rename, NextNote
<1>8. files[p] \in Notes
  BY <1>1, <1>2, FileFacts DEF ShapeInv
<1>9. Renamed(p, q)
  BY <1>1, <1>2, <1>3, <1>4, <1>5, <1>6, <1>7, <1>8 DEF Renamed
<1> QED  BY <1>9

LEMMA PromotionFailsFacts ==
  ASSUME ShapeInv, PromotionFails
  PROVE  AllStay /\ Wanders
<1>1. AllStay
  BY DEF PromotionFails, CareFails, AllStay, FilesStay, StoresStay, IndexStays, VectorsStay, GraphStays, stores, graphVars, history, off
<1> QED  BY <1>1, CareIdles DEF PromotionFails, CareFails

-----------------------------------------------------------------------------
\* The edge lifecycle, the months.

\* The same rows but for the strength and the age of relationships.
Sifted(g, h) == SameRows(g, h) /\ \A f \in h.edges : f \in g.edges \/ f.strong \/ f.old

OldFound == \A e \in act["edges"].found : e.old

EdgeStep ==
  /\ FilesStay /\ IndexStays /\ VectorsStay /\ graphOff' = graphOff /\ NamesStay(Acts \ {"edges"})
  /\ Moves("edges") /\ act'["edges"].pc \in {"idle", "promoting", "sifting", "demoting"}
  /\ act'["edges"].to = {} /\ act'["edges"].ops \in {<<>>, act["edges"].ops}
  /\ OldFound'
  /\ \/ graph' = graph /\ saved' = saved
     \/ Sifted(graph, graph') /\ saved' = graph'

LEMMA BatchFacts ==
  ASSUME NEW h, Batch(h), Sifted(graph, h)
  PROVE  \/ graph' = graph /\ saved' = saved
         \/ Sifted(graph, graph') /\ saved' = graph'
BY DEF Batch, graphVars, Commits

LEMMA EdgeLifeFacts ==
  ASSUME ShapeInv, OldFound, EdgeLife
  PROVE  EdgeStep
<1>0. PICK r \in ActRec : r = act["edges"]
  BY RecFacts, ActsFacts DEF ShapeInv
<1>a. PICK i \in ActRec : i = Idle /\ i.to = {} /\ i.ops = <<>> /\ i.found = {} /\ i.pc = "idle"
  BY IdleFacts
<1>b. FilesStay /\ IndexStays /\ VectorsStay /\ graphOff' = graphOff
  BY DEF EdgeLife, FindPromotions, PromoteBatch, FindDemotions, DemoteBatch, FilesStay, IndexStays, VectorsStay,
         stores, history, off
<1>c. graph \in Rows
  BY DEF ShapeInv, TypesInv
<1>1. CASE FindPromotions
  <2>1. PICK ns \in SUBSET Names : ns = PromotionCandidates(graph)
    BY DEF PromotionCandidates
  <2>2. PICK s : s = [i EXCEPT !.pc = "promoting", !.names = ns]
    OBVIOUS
  <2>3. s \in ActRec /\ s.pc = "promoting" /\ s.to = {} /\ s.ops = <<>> /\ s.found = {}
    BY <1>a, <2>2 DEF ActRec, Pcs
  <2>4. Becomes("edges", s) /\ graph' = graph /\ saved' = saved
    BY <1>1, <1>a, <2>1, <2>2 DEF FindPromotions, graphVars
  <2>5. Moves("edges") /\ act'["edges"] = s /\ NamesStay(Acts \ {"edges"})
    BY <2>3, <2>4, BecomesFacts, ActsFacts DEF ShapeInv
  <2> QED  BY <1>b, <2>3, <2>4, <2>5 DEF EdgeStep, OldFound
<1>2. CASE PromoteBatch
  <2>1. Steps("edges", "sifting") /\ NamesStay(Acts)
    BY <1>2, GoesFacts, ActsFacts DEF PromoteBatch, Pcs, ShapeInv
  <2>2. PICK h : h = PromoteEdges(graph, act["edges"].names)
    OBVIOUS
  <2>3. Sifted(graph, h)
    BY <1>c, <2>2, PromoteFacts DEF Sifted
  <2>4. \/ graph' = graph /\ saved' = saved
        \/ Sifted(graph, graph') /\ saved' = graph'
    BY <1>2, <2>2, <2>3, BatchFacts DEF PromoteBatch
  <2>5. act["edges"].to = {}
    BY <1>2, ActsFacts DEF PromoteBatch, Doing, ShapeInv, FitsInv, Fits
  <2> QED  BY <1>b, <2>1, <2>4, <2>5 DEF EdgeStep, OldFound, Steps, Turns, NamesStay
<1>3. CASE FindDemotions
  <2>1. PICK es \in SUBSET Edges : es = DemotionCandidates(graph) /\ \A e \in es : e.old
    <3>1. graph.edges \subseteq Edges
      BY <1>c DEF Rows
    <3>2. DemotionCandidates(graph) \subseteq Edges
      BY <3>1 DEF DemotionCandidates
    <3>3. \A e \in DemotionCandidates(graph) : e.old
      BY DEF DemotionCandidates
    <3> QED  BY <3>2, <3>3
  <2>2. PICK s : s = [i EXCEPT !.pc = "demoting", !.found = es]
    OBVIOUS
  <2>3. s \in ActRec /\ s.pc = "demoting" /\ s.to = {} /\ s.ops = <<>> /\ s.found = es
    BY <1>a, <2>2 DEF ActRec, Pcs
  <2>4. Becomes("edges", s) /\ graph' = graph /\ saved' = saved
    BY <1>3, <1>a, <2>1, <2>2 DEF FindDemotions, graphVars
  <2>5. Moves("edges") /\ act'["edges"] = s /\ NamesStay(Acts \ {"edges"})
    BY <2>3, <2>4, BecomesFacts, ActsFacts DEF ShapeInv
  <2> QED  BY <1>b, <2>1, <2>3, <2>4, <2>5 DEF EdgeStep, OldFound
<1>4. CASE DemoteBatch
  <2>1. Becomes("edges", i)
    BY <1>4, <1>a DEF DemoteBatch
  <2>2. Moves("edges") /\ act'["edges"] = i /\ NamesStay(Acts \ {"edges"})
    BY <2>1, <1>a, BecomesFacts, ActsFacts DEF ShapeInv
  <2>3. PICK h, es : es = act["edges"].found /\ h = DemoteEdges(graph, es)
    OBVIOUS
  <2>4. SameRows(graph, h) /\ \A f \in h.edges : f \in graph.edges \/ \E e \in es : f.old = e.old
    BY <1>c, <2>3, DemoteFacts
  <2>5. Sifted(graph, h)
    BY <2>3, <2>4 DEF Sifted, OldFound
  <2>6. \/ graph' = graph /\ saved' = saved
        \/ Sifted(graph, graph') /\ saved' = graph'
    BY <1>4, <2>3, <2>5, BatchFacts DEF DemoteBatch
  <2> QED  BY <1>b, <1>a, <2>2, <2>6 DEF EdgeStep, OldFound
<1> QED  BY <1>1, <1>2, <1>3, <1>4 DEF EdgeLife

LEMMA MonthsPassFacts ==
  ASSUME ShapeInv, MonthsPass
  PROVE  /\ FilesStay /\ IndexStays /\ VectorsStay /\ graphOff' = graphOff /\ act' = act
         /\ Sifted(graph, graph') /\ Sifted(saved, saved')
<1>1. graph \in Rows /\ saved \in Rows
  BY DEF ShapeInv, TypesInv
<1>2. Sifted(graph, Aged(graph)) /\ Sifted(saved, Aged(saved))
  BY <1>1, AgedFacts DEF Sifted
<1> QED  BY <1>2 DEF MonthsPass, FilesStay, IndexStays, VectorsStay, stores, history, off

-----------------------------------------------------------------------------
\* A crash, and the rebuild.

Crashed ==
  /\ files' = files /\ written' = written /\ gone' = gone /\ cut' = cut /\ crossed' = crossed
  /\ astray' = astray \cup act["care"].path
  /\ index' = [p \in {} |-> Blank] /\ loaded' = FALSE /\ indexOff' = {p \in DOMAIN files : Dir(p) = "seed"}
  /\ vectors' = vectors /\ vectorsOff' = vectorsOff \cup InFlight
  /\ graph' = saved /\ saved' = saved /\ graphOff' = graphOff \cup Vanishing
  /\ act' \in [Acts -> ActRec]
  /\ \A a \in Tasks : IF act[a].pc = "waiting" THEN act'[a] = act[a] ELSE act'[a] = Idle
  /\ act'["care"] = Idle /\ act'["edges"] = Idle
  /\ LET r == act'["reindex"] IN r.pc = "scan" /\ r.todo = {p \in DOMAIN files : Dir(p) = "seeds"} /\ r.path = {}
                                 /\ r.to = {} /\ r.ops = <<>> /\ r.again = FALSE
  /\ LET r == act'["rebuild"] IN r.pc = "rebuild" /\ r.todo = DOMAIN files /\ r.path = {} /\ r.to = {} /\ r.ops = <<>>

LEMMA CrashFacts ==
  ASSUME ShapeInv, Crash
  PROVE  Crashed
<1>1. /\ files' = files /\ written' = written /\ gone' = gone /\ cut' = cut /\ crossed' = crossed
      /\ astray' = astray \cup act["care"].path
      /\ index' = [p \in {} |-> Blank] /\ loaded' = FALSE /\ indexOff' = {p \in DOMAIN files : Dir(p) = "seed"}
      /\ vectors' = vectors /\ vectorsOff' = vectorsOff \cup InFlight
      /\ graph' = saved /\ saved' = saved /\ graphOff' = graphOff \cup Vanishing
  BY DEF Crash
<1>2. PICK i \in ActRec : /\ i = Idle /\ i.to = {} /\ i.ops = <<>> /\ i.path = {} /\ i.again = FALSE
  BY IdleFacts
<1>3. PICK seeds \in SUBSET Paths : seeds = {p \in DOMAIN files : Dir(p) = "seeds"}
  BY FileFacts DEF ShapeInv
<1>4. PICK all \in SUBSET Paths : all = DOMAIN files
  BY FileFacts DEF ShapeInv
<1>5. PICK r1, r2 : r1 = [i EXCEPT !.pc = "scan", !.todo = seeds] /\ r2 = [i EXCEPT !.pc = "rebuild", !.todo = all]
  OBVIOUS
<1>6. /\ r1 \in ActRec /\ r1.pc = "scan" /\ r1.todo = seeds /\ r1.path = {} /\ r1.to = {} /\ r1.ops = <<>> /\ r1.again = FALSE
      /\ r2 \in ActRec /\ r2.pc = "rebuild" /\ r2.todo = all /\ r2.path = {} /\ r2.to = {} /\ r2.ops = <<>>
  BY <1>2, <1>5 DEF ActRec, Pcs
<1> DEFINE new(a) == CASE a \in Tasks -> IF Doing(a, {"waiting"}) THEN act[a] ELSE Idle
                       [] a = "reindex" -> [Idle EXCEPT !.pc = "scan", !.todo = {p \in DOMAIN files : Dir(p) = "seeds"}]
                       [] a = "rebuild" -> [Idle EXCEPT !.pc = "rebuild", !.todo = DOMAIN files]
                       [] OTHER -> Idle
<1>7. act' = [a \in Acts |-> new(a)]
  BY DEF Crash
<1>8. ASSUME NEW a \in Tasks
      PROVE  new(a) = IF act[a].pc = "waiting" THEN act[a] ELSE i
  BY <1>2, ActsFacts DEF Doing
<1>9. new("reindex") = r1
  BY <1>2, <1>3, <1>5, ActsFacts
<1>10. new("rebuild") = r2
  BY <1>2, <1>4, <1>5, ActsFacts
<1>11. new("care") = i /\ new("edges") = i
  BY <1>2, ActsFacts
<1>12. \A a \in Acts : new(a) \in ActRec
  <2>1. \A a \in Tasks : act[a] \in ActRec
    BY RecFacts, ActsFacts DEF ShapeInv
  <2> HIDE DEF new
  <2> QED  BY <1>2, <1>6, <1>8, <1>9, <1>10, <1>11, <2>1 DEF Acts, Jobs
<1> HIDE DEF new
<1>13. act' \in [Acts -> ActRec] /\ \A a \in Acts : act'[a] = new(a)
  BY <1>7, <1>12
<1> QED  BY <1>1, <1>2, <1>3, <1>4, <1>6, <1>8, <1>9, <1>10, <1>11, <1>13, ActsFacts DEF Crashed

\* The rebuild skips a note, reads it, or ends.
LEMMA ReadToRebuildFacts ==
  ASSUME ShapeInv, ReadToRebuild
  PROVE  /\ act["rebuild"].pc = "rebuild" /\ AllStay /\ NamesStay(Acts)
         /\ \E p \in act["rebuild"].todo :
              /\ p \in Paths
              /\ LET rest == act["rebuild"].todo \ {p} IN
                 \/ /\ p \notin DOMAIN files \/ (p \in DOMAIN graph.hashes /\ graph.hashes[p] = files[p])
                    /\ Turns("rebuild", "rebuild", act["rebuild"].path, act["rebuild"].seen, rest, act["rebuild"].to)
                 \/ /\ p \in DOMAIN files
                    /\ Turns("rebuild", "rebuilding", {p}, {files[p]}, rest, act["rebuild"].to)
<1>1. act["rebuild"].pc = "rebuild" /\ AllStay
  BY DEF ReadToRebuild, Doing, AllStay, FilesStay, StoresStay, IndexStays, VectorsStay, GraphStays, stores, graphVars, history, off
<1>2. PICK r \in ActRec : r = act["rebuild"]
  BY RecFacts, ActsFacts DEF ShapeInv
<1> DEFINE skip(p) == p \notin DOMAIN files \/ (p \in DOMAIN graph.hashes /\ graph.hashes[p] = files[p])
<1>3. PICK p \in r.todo :
        Becomes("rebuild", IF skip(p) THEN [r EXCEPT !.todo = @ \ {p}]
                           ELSE [[r EXCEPT !.todo = @ \ {p}] EXCEPT !.pc = "rebuilding", !.path = {p}, !.seen = {files[p]}])
  BY <1>2 DEF ReadToRebuild
<1>4. p \in Paths
  BY <1>3 DEF ActRec
<1>5. CASE skip(p)
  <2>1. PICK s : s = [r EXCEPT !.todo = @ \ {p}]
    OBVIOUS
  <2>2. /\ s \in ActRec /\ s.pc = r.pc /\ s.ops = r.ops /\ s.path = r.path /\ s.seen = r.seen /\ s.names = r.names
        /\ s.found = r.found /\ s.todo = r.todo \ {p} /\ s.goal = r.goal /\ s.was = r.was /\ s.to = r.to /\ s.again = r.again
    BY <2>1 DEF ActRec
  <2>3. Becomes("rebuild", s)
    BY <1>3, <1>5, <2>1
  <2>4. Moves("rebuild") /\ act'["rebuild"] = s /\ NamesStay(Acts \ {"rebuild"})
    BY <2>2, <2>3, BecomesFacts, ActsFacts DEF ShapeInv
  <2>5. Turns("rebuild", "rebuild", act["rebuild"].path, act["rebuild"].seen, act["rebuild"].todo \ {p}, act["rebuild"].to)
        /\ NamesStay(Acts)
    BY <1>1, <1>2, <2>2, <2>4 DEF Turns, NamesStay
  <2> QED  BY <1>1, <1>2, <1>3, <1>4, <1>5, <2>5
<1>6. CASE ~skip(p)
  <2>1. PICK c \in Notes : c = files[p]
    BY <1>6, FileFacts DEF ShapeInv
  <2>2. PICK s : s = [[r EXCEPT !.todo = @ \ {p}] EXCEPT !.pc = "rebuilding", !.path = {p}, !.seen = {c}]
    OBVIOUS
  <2>3. /\ s \in ActRec /\ s.pc = "rebuilding" /\ s.ops = r.ops /\ s.path = {p} /\ s.seen = {c} /\ s.names = r.names
        /\ s.found = r.found /\ s.todo = r.todo \ {p} /\ s.goal = r.goal /\ s.was = r.was /\ s.to = r.to /\ s.again = r.again
    BY <1>4, <2>2, ZenonT(30) DEF ActRec, Pcs
  <2>4. Becomes("rebuild", s)
    BY <1>3, <1>6, <2>1, <2>2
  <2>5. Moves("rebuild") /\ act'["rebuild"] = s /\ NamesStay(Acts \ {"rebuild"})
    BY <2>3, <2>4, BecomesFacts, ActsFacts DEF ShapeInv
  <2>6. Turns("rebuild", "rebuilding", {p}, {files[p]}, act["rebuild"].todo \ {p}, act["rebuild"].to) /\ NamesStay(Acts)
    BY <1>2, <2>1, <2>3, <2>5 DEF Turns, NamesStay
  <2>7. p \in DOMAIN files
    BY <1>6
  <2> QED  BY <1>1, <1>2, <1>3, <1>4, <2>6, <2>7
<1> QED  BY <1>5, <1>6

RebuiltOne(p, c, g) ==
  /\ Processes("rebuild", p, c, "rebuilding") /\ FilesStay /\ IndexStays /\ VectorsStay
  /\ g = Rebuilt(graph, p, c) /\ graph' = g /\ saved' = g
  /\ graphOff' = (IF Others("rebuild", p, GraphPcs \cup Untold) = {} /\ {c} = NotesAt(p) THEN graphOff \ {p} ELSE graphOff)
  /\ Turns("rebuild", "rebuild", {}, {c}, act["rebuild"].todo, act["rebuild"].to)
  /\ Forgotten(DeleteSource(graph, p), Acts \ {"rebuild"})

LEMMA RebuildNoteFacts ==
  ASSUME ShapeInv, RebuildNote
  PROVE  \E p, c, g : RebuiltOne(p, c, g)
<1>1. act["rebuild"].pc = "rebuilding"
  BY DEF RebuildNote, Doing
<1>2. PICK p, c : Processes("rebuild", p, c, "rebuilding")
  BY <1>1, ProcessesFacts, ActsFacts DEF SeenPcs
<1>3. At("rebuild") = p /\ Seen("rebuild") = c /\ act["rebuild"].path = {p} /\ act["rebuild"].seen = {c}
  BY <1>2 DEF Processes
<1>4. PICK g : g = Rebuilt(graph, p, c)
  OBVIOUS
<1>5. graph' = g /\ saved' = g
  BY <1>3, <1>4 DEF RebuildNote, Commits
<1>6. graphOff' = IF Others("rebuild", p, GraphPcs \cup Untold) = {} /\ {c} = NotesAt(p) THEN graphOff \ {p} ELSE graphOff
  BY <1>3 DEF RebuildNote
<1>7. FilesStay /\ IndexStays /\ VectorsStay
  BY DEF RebuildNote, FilesStay, IndexStays, VectorsStay, stores, history
<1>8. PICK d : d = DeleteSource(graph, p)
  OBVIOUS
<1>9. PICK r \in ActRec : r = Forgets(d)["rebuild"] /\ Copies(act["rebuild"], r)
  BY ForgetsFacts, ActsFacts DEF ShapeInv
<1>10. act' = [Forgets(d) EXCEPT !["rebuild"].pc = "rebuild", !["rebuild"].path = {}]
  BY <1>3, <1>8 DEF RebuildNote
<1>11. PICK s : s = [r EXCEPT !.pc = "rebuild", !.path = {}]
  OBVIOUS
<1>12. act' = [Forgets(d) EXCEPT !["rebuild"] = s]
  BY ActsFacts, <1>10, <1>9, <1>11 DEF Forgets
<1>13. /\ s \in ActRec /\ s.pc = "rebuild" /\ s.ops = r.ops /\ s.path = {} /\ s.seen = r.seen
       /\ s.found = r.found /\ s.todo = r.todo /\ s.goal = r.goal /\ s.was = r.was /\ s.to = r.to /\ s.again = r.again
  BY <1>11 DEF ActRec, Pcs
<1>14. Moves("rebuild") /\ act'["rebuild"] = s /\ Forgotten(d, Acts \ {"rebuild"})
  BY <1>12, <1>13, ForgetAll, ActsFacts DEF ShapeInv
<1>15. Turns("rebuild", "rebuild", {}, {c}, act["rebuild"].todo, act["rebuild"].to)
  BY <1>3, <1>9, <1>13, <1>14 DEF Turns, Copies
<1>16. RebuiltOne(p, c, g)
  BY <1>2, <1>4, <1>5, <1>6, <1>7, <1>8, <1>14, <1>15 DEF RebuiltOne
<1> QED  BY <1>16

Hurt == UNION {act[b].path : b \in {c \in Acts : Doing(c, {"relating", "committing"})}}

RebuildFailed ==
  /\ act["rebuild"].pc = "rebuilding" /\ FilesStay /\ IndexStays /\ VectorsStay
  /\ graph' = saved /\ saved' = saved
  /\ Moves("rebuild") /\ Forgotten(saved, Acts \ {"rebuild"})
  /\ act'["rebuild"].path = {} /\ act'["rebuild"].to = {} /\ act'["rebuild"].ops = <<>>
  /\ \/ act'["rebuild"].pc = "idle" /\ graphOff' = graphOff \cup Hurt \cup DOMAIN files
     \/ act'["rebuild"].pc = "rebuild" /\ act'["rebuild"].todo = DOMAIN files /\ graphOff' = graphOff \cup Hurt

LEMMA RebuildFailsFacts ==
  ASSUME ShapeInv, RebuildFails
  PROVE  RebuildFailed
<1>1. /\ act["rebuild"].pc = "rebuilding" /\ FilesStay /\ IndexStays /\ VectorsStay
      /\ graph' = saved /\ saved' = saved
  BY DEF RebuildFails, RollsBack, Doing, FilesStay, IndexStays, VectorsStay, stores, history
<1>2. PICK i \in ActRec : i = Idle /\ i.to = {} /\ i.ops = <<>> /\ i.path = {} /\ i.pc = "idle"
  BY IdleFacts
<1>3. PICK all \in SUBSET Paths : all = DOMAIN files
  BY FileFacts DEF ShapeInv
<1>4. PICK s : s = [i EXCEPT !.pc = "rebuild", !.todo = all, !.again = TRUE]
  OBVIOUS
<1>5. s \in ActRec /\ s.pc = "rebuild" /\ s.path = {} /\ s.to = {} /\ s.ops = <<>> /\ s.todo = all
  BY <1>2, <1>4 DEF ActRec, Pcs
<1>6. CASE act["rebuild"].again
  <2>1. act' = [Forgets(saved) EXCEPT !["rebuild"] = i] /\ graphOff' = graphOff \cup Hurt \cup DOMAIN files
    BY <1>2, <1>6 DEF RebuildFails, Hurt
  <2>2. Moves("rebuild") /\ act'["rebuild"] = i /\ Forgotten(saved, Acts \ {"rebuild"})
    BY <2>1, ForgetAll, ActsFacts DEF ShapeInv
  <2> QED  BY <1>1, <1>2, <2>1, <2>2 DEF RebuildFailed
<1>7. CASE ~act["rebuild"].again
  <2>1. act' = [Forgets(saved) EXCEPT !["rebuild"] = s] /\ graphOff' = graphOff \cup Hurt
    BY <1>2, <1>3, <1>4, <1>7 DEF RebuildFails, Hurt
  <2>2. Moves("rebuild") /\ act'["rebuild"] = s /\ Forgotten(saved, Acts \ {"rebuild"})
    BY <1>5, <2>1, ForgetAll, ActsFacts DEF ShapeInv
  <2> QED  BY <1>1, <1>3, <1>5, <2>1, <2>2 DEF RebuildFailed
<1> QED  BY <1>6, <1>7

LEMMA RebuildEndsFacts ==
  ASSUME ShapeInv, RebuildEnds
  PROVE  /\ act["rebuild"].pc = "rebuild" /\ act["rebuild"].todo = {} /\ AllStay
         /\ Moves("rebuild") /\ act'["rebuild"] = Idle /\ NamesStay(Acts \ {"rebuild"})
<1>1. act["rebuild"].pc = "rebuild" /\ act["rebuild"].todo = {} /\ AllStay
  BY DEF RebuildEnds, Doing, AllStay, FilesStay, StoresStay, IndexStays, VectorsStay, GraphStays, stores, graphVars, history, off
<1>2. Moves("rebuild") /\ act'["rebuild"] = Idle /\ NamesStay(Acts \ {"rebuild"})
  BY IdleFacts, BecomesFacts, ActsFacts DEF RebuildEnds, ShapeInv
<1> QED  BY <1>1, <1>2

LEMMA WriterNames ==
  ASSUME TypesInv, NEW a \in Tasks, Writer(a)
  PROVE  NamesStay(Acts \ {a})
<1>1. PICK r : Becomes(a, r)
  BY DEF Writer, Choose, Create, Find, Replace, AppendText, Delete, Stub, Goes
<1> QED  BY <1>1 DEF Becomes, NamesStay, TypesInv

-----------------------------------------------------------------------------
\* Types, and the garden lock.

VaultTypes == /\ files \in Partial(Paths, Notes) /\ written \subseteq Texts /\ gone \subseteq Texts /\ cut \subseteq Texts
              /\ crossed \subseteq Texts /\ astray \subseteq Paths
IndexTypes == index \in Partial(Paths, Notes) /\ loaded \in BOOLEAN /\ indexOff \subseteq Paths
VectorTypes == vectors \in Partial(Paths \X {"abs", "rel"}, Notes) /\ vectorsOff \subseteq Paths
GraphTypes == graph \in Rows /\ saved \in Rows /\ graphOff \subseteq Paths
ActTypes == act \in [Acts -> ActRec]

LEMMA TypesParts ==
  /\ TypesInv <=> VaultTypes /\ IndexTypes /\ VectorTypes /\ GraphTypes /\ ActTypes
  /\ TypesInv' <=> VaultTypes' /\ IndexTypes' /\ VectorTypes' /\ GraphTypes' /\ ActTypes'
BY DEF TypesInv, VaultTypes, IndexTypes, VectorTypes, GraphTypes, ActTypes

LEMMA TypesStay ==
  ASSUME TypesInv
  PROVE  /\ FilesStay => VaultTypes'
         /\ IndexStays => IndexTypes'
         /\ VectorsStay => VectorTypes'
         /\ GraphStays => GraphTypes'
         /\ AllStay => VaultTypes' /\ IndexTypes' /\ VectorTypes' /\ GraphTypes'
BY DEF TypesInv, FilesStay, IndexStays, VectorsStay, GraphStays, StoresStay, AllStay,
       VaultTypes, IndexTypes, VectorTypes, GraphTypes

LEMMA OffTypes ==
  ASSUME TypesInv, NEW ps \in SUBSET Paths,
         \/ Silently(ps)
         \/ \E a \in Acts, p \in ps : Tells(a, p)
  PROVE  indexOff' \subseteq Paths /\ vectorsOff' \subseteq Paths /\ graphOff' \subseteq Paths
BY DEF TypesInv, Silently, Tells, Marked

LEMMA CrossTypes ==
  ASSUME TypesInv, NEW a, NEW p \in Paths, NEW xs \in SUBSET Texts, Crosses(a, p, xs)
  PROVE  crossed' \subseteq Texts /\ astray' \subseteq Paths
BY RecFacts, ActsFacts DEF ActRec, TypesInv, Crosses

\* What is done with the files.
LEMMA PutTypes ==
  ASSUME TypesInv, NEW p \in Paths, NEW n \in Notes
  PROVE  Put(files, p, n) \in Partial(Paths, Notes) /\ Drop(files, {p}) \in Partial(Paths, Notes)
         /\ \A q \in Paths : Put(Drop(files, {p}), q, n) \in Partial(Paths, Notes)
BY PartialPut, PartialDrop DEF TypesInv

LEMMA StoreTypes ==
  ASSUME TypesInv, NEW p \in Paths, NEW c \in Notes
  PROVE  /\ Put(index, p, c) \in Partial(Paths, Notes) /\ Drop(index, {p}) \in Partial(Paths, Notes)
         /\ Put(vectors, <<p, "abs">>, c) \in Partial(Paths \X {"abs", "rel"}, Notes)
         /\ Put(vectors, <<p, "rel">>, c) \in Partial(Paths \X {"abs", "rel"}, Notes)
         /\ Drop(vectors, {<<p, "abs">>}) \in Partial(Paths \X {"abs", "rel"}, Notes)
BY PartialPut, PartialDrop DEF TypesInv

LEMMA ChangesTypes ==
  ASSUME TypesInv, NEW a \in Acts, NEW p \in Paths, NEW xs \in SUBSET Texts, Changes(a, p, xs)
  PROVE  /\ crossed' \subseteq Texts /\ astray' \subseteq Paths
         /\ IndexTypes' /\ VectorTypes' /\ GraphTypes'
BY OffTypes, CrossTypes DEF Changes, IndexTypes, VectorTypes, GraphTypes, TypesInv

-----------------------------------------------------------------------------
\* Fits.

LEMMA FitsStep ==
  ASSUME ShapeInv, NEW a \in Acts, Moves(a), Fits(a, act'[a])
  PROVE  FitsInv'
BY DEF Moves, Stays, ShapeInv, FitsInv, Copies, Fits

\* A task that goes on.
LEMMA FitsTurns ==
  ASSUME ShapeInv, NEW a \in Tasks, act[a].pc # "idle", NEW pc \in TaskPcs \ {"idle"}, NEW path, NEW seen, NEW todo, NEW to,
         Turns(a, pc, path, seen, todo, to),
         pc \in AtPcs => \E p \in Paths : path = {p},
         pc \in SeenPcs => \E c \in Notes : seen = {c},
         pc = "naming" => Head(act[a].ops).do = "create" /\ \A p \in path : Dir(p) \in NewFolders,
         IF pc \in {"scan", "scanning"} THEN \E p \in Paths : to = {p} ELSE to = {}
  PROVE  FitsInv' /\ ActTypes'
<1>1. a # "care" /\ a # "edges" /\ a # "reindex" /\ a # "rebuild" /\ a \in Acts
  BY ActsFacts
<1>2. pc \notin Promoting
  BY DEF TaskPcs, Promoting
<1>3. PICK r, s : r = act[a] /\ s = act'[a]
  OBVIOUS
<1>4. s.pc = pc /\ s.path = path /\ s.seen = seen /\ s.to = to /\ s.ops = r.ops /\ r.pc # "idle"
  BY <1>3 DEF Turns
<1>5. Fits(a, r)
  BY <1>1, <1>3 DEF ShapeInv, FitsInv
<1>6. r.ops # <<>> /\ \A i \in DOMAIN r.ops : r.ops[i].do = "create" => Dir(r.ops[i].path) \in NewFolders
  BY <1>4, <1>5 DEF Fits
<1>7. pc # "renaming"
  BY DEF TaskPcs
<1>8. Fits(a, s)
  BY <1>1, <1>2, <1>3, <1>4, <1>6, <1>7 DEF Fits
<1> QED  BY <1>1, <1>3, <1>8, FitsStep DEF Turns, Moves, ActTypes

LEMMA FitsRests ==
  ASSUME ShapeInv, NEW a \in Tasks, Rests(a)
  PROVE  FitsInv' /\ ActTypes'
<1>1. a # "care" /\ a # "edges" /\ a # "reindex" /\ a # "rebuild" /\ a \in Acts
  BY ActsFacts
<1>2. PICK r, s : r = act[a] /\ s = act'[a]
  OBVIOUS
<1>3. Rested(a, s)
  BY <1>2 DEF Rests
<1>4. Fits(a, r)
  BY <1>1, <1>2 DEF ShapeInv, FitsInv
<1>5. \A i \in DOMAIN s.ops : s.ops[i].do = "create" => Dir(s.ops[i].path) \in NewFolders
  BY <1>4, <1>2, <1>3 DEF Fits, Rested
<1>6. s.pc \in {"idle", "ready"} /\ s.to = {} /\ (s.pc = "ready" => s.ops # <<>>)
  BY <1>3 DEF Rested
<1>7. Fits(a, s)
  BY <1>1, <1>5, <1>6 DEF Fits, TaskPcs, AtPcs, SeenPcs, Promoting
<1> QED  BY <1>1, <1>2, <1>7, FitsStep DEF Rests, Moves, ActTypes

\* A step within the processing of an event.
LEMMA FitsSteps ==
  ASSUME ShapeInv, NEW a \in Tasks, act[a].pc \in AtPcs, act[a].pc \notin {"naming", "scan", "scanning"},
         NEW pc \in TaskPcs \ {"idle", "naming", "scan", "scanning"}, pc \in SeenPcs => act[a].pc \in SeenPcs, Steps(a, pc)
  PROVE  FitsInv' /\ ActTypes'
<1>1. a \in Acts /\ act[a].pc # "idle"
  BY ActsFacts DEF AtPcs
<1>2. PICK p \in Paths : act[a].path = {p}
  BY <1>1 DEF ShapeInv, FitsInv, Fits
<1>3. pc \in SeenPcs => \E c \in Notes : act[a].seen = {c}
  BY <1>1 DEF ShapeInv, FitsInv, Fits
<1>4. act[a].to = {}
  BY <1>1 DEF ShapeInv, FitsInv, Fits, TaskPcs
<1>5. Turns(a, pc, act[a].path, act[a].seen, act[a].todo, act[a].to)
  BY DEF Steps
<1> QED  BY <1>1, <1>2, <1>3, <1>4, <1>5, FitsTurns

LEMMA FitsEnds ==
  ASSUME ShapeInv, NEW a \in Tasks, act[a].pc \in AtPcs, act[a].pc \notin {"naming", "scan", "scanning"}, Ends(a)
  PROVE  FitsInv' /\ ActTypes'
<1>1. CASE Rests(a)
  BY <1>1, FitsRests
<1>2. ASSUME NEW todo \in SUBSET Paths, Turns(a, "stubbing", act[a].path, act[a].seen, todo, act[a].to)
      PROVE  FitsInv' /\ ActTypes'
  <2>1. a \in Acts /\ act[a].pc # "idle"
    BY ActsFacts DEF AtPcs
  <2>2. PICK p \in Paths : act[a].path = {p}
    BY <2>1 DEF ShapeInv, FitsInv, Fits
  <2>3. act[a].pc \in TaskPcs
    BY <2>1 DEF ShapeInv, FitsInv, Fits
  <2>4. act[a].to = {}
    BY <2>1, <2>3 DEF ShapeInv, FitsInv, Fits, TaskPcs
  <2>5. "stubbing" \in TaskPcs \ {"idle"} /\ "stubbing" \in AtPcs /\ "stubbing" \notin SeenPcs
    BY DEF TaskPcs, AtPcs, SeenPcs
  <2> QED  BY <1>2, <2>1, <2>2, <2>4, <2>5, FitsTurns
<1> QED  BY <1>1, <1>2 DEF Ends

LEMMA ShapeParts ==
  ASSUME VaultTypes', IndexTypes', VectorTypes', GraphTypes', ActTypes', FitsInv'
  PROVE  ShapeInv'
BY TypesParts DEF ShapeInv

LEMMA TaskTo ==
  ASSUME ShapeInv, NEW a \in Tasks, act[a].pc \notin {"scan", "scanning"}
  PROVE  act[a].to = {}
BY ActsFacts DEF ShapeInv, FitsInv, Fits, TaskPcs

LEMMA ShapeWriter ==
  ASSUME ShapeInv, NEW a \in Tasks, Writer(a)
  PROVE  ShapeInv'
<1>0. a \in Acts /\ TypesInv
  BY ActsFacts DEF ShapeInv
<1>1. CASE Choose(a)
  <2>1. PICK p \in Paths : Dir(p) \in NewFolders /\ Turns(a, "naming", {p}, act[a].seen, act[a].todo, act[a].to)
    BY <1>1, ChooseFacts
  <2>2. act[a].pc \in {"waiting", "ready"} /\ Head(act[a].ops).do = "create" /\ AllStay
    BY <1>1, ChooseFacts
  <2>3. act[a].to = {}
    BY <2>2, TaskTo
  <2>4. FitsInv' /\ ActTypes'
    BY <2>1, <2>2, <2>3, FitsTurns DEF TaskPcs, SeenPcs
  <2> QED  BY <1>0, <2>2, <2>4, TypesStay, ShapeParts
<1>2. CASE Create(a)
  <2>1. PICK p, x, n : Created(a, p, x, n)
    BY <1>2, CreateFacts
  <2>2. act[a].pc = "naming" /\ Steps(a, "listing")
    BY <2>1 DEF Created
  <2>3. act[a].to = {}
    BY <2>2, TaskTo
  <2>4. FitsInv' /\ ActTypes'
    BY <2>1, <2>2, <2>3, FitsTurns DEF TaskPcs, SeenPcs, Steps, Created
  <2>5. /\ crossed' \subseteq Texts /\ astray' \subseteq Paths
        /\ IndexTypes' /\ VectorTypes' /\ GraphTypes'
    BY <1>0, <2>1, ChangesTypes DEF Created
  <2>6. VaultTypes'
    BY <1>0, <2>1, <2>5, PutTypes DEF Created, VaultTypes, TypesInv
  <2> QED  BY <2>4, <2>5, <2>6, ShapeParts
<1>3. CASE Find(a)
  <2>1. AllStay /\ act[a].pc \in {"waiting", "ready"}
    BY <1>3, FindFacts
  <2>2. CASE Rests(a)
    BY <1>0, <2>1, <2>2, FitsRests, TypesStay, ShapeParts
  <2>3. ASSUME NEW p \in Paths, NEW c \in Notes, Turns(a, "applying", {p}, {c}, act[a].todo, act[a].to)
        PROVE  ShapeInv'
    <3>1. act[a].to = {}
      BY <2>1, TaskTo
    <3>2. FitsInv' /\ ActTypes'
      BY <2>1, <2>3, <3>1, FitsTurns DEF TaskPcs
    <3> QED  BY <1>0, <2>1, <3>2, TypesStay, ShapeParts
  <2>4. CASE ~Rests(a)
    BY <1>3, <2>4, FindFacts, <2>3
  <2> QED  BY <2>2, <2>4
<1>4. ASSUME NEW p \in Paths, NEW xs \in SUBSET Texts, Changes(a, p, xs),
             files' \in Partial(Paths, Notes), written' \subseteq Texts, gone' \subseteq Texts, cut' \subseteq Texts,
             act[a].pc = "applying", NEW pc \in {"listing", "unlisting"}, Steps(a, pc)
      PROVE  ShapeInv'
  BY <1>4, FitsSteps, <1>0, ChangesTypes, ShapeParts DEF TaskPcs, AtPcs, SeenPcs, VaultTypes
<1>5. CASE Replace(a)
  <2>1. PICK p, x, n : Replaced(a, p, x, n)
    BY <1>5, ReplaceFacts
  <2>2. TextsAt(p) \subseteq Texts
    BY <1>0, TextsAtFacts
  <2>3. p \in Paths /\ x \in Texts /\ n \in Notes /\ act[a].pc = "applying" /\ Steps(a, "listing") /\ Changes(a, p, {x} \cup TextsAt(p))
    BY <2>1 DEF Replaced, Applies
  <2>4. files' \in Partial(Paths, Notes) /\ written' \subseteq Texts /\ gone' \subseteq Texts /\ cut' \subseteq Texts
    BY <1>0, <2>1, <2>2, <2>3, PutTypes DEF Replaced, TypesInv
  <2>5. {x} \cup TextsAt(p) \in SUBSET Texts
    BY <2>2, <2>3
  <2> QED  BY <1>4, <2>3, <2>4, <2>5
<1>6. CASE AppendText(a)
  <2>1. PICK p, x, n : Extended(a, p, x, n)
    BY <1>6, AppendFacts
  <2>2. p \in Paths /\ x \in Texts /\ n \in Notes /\ act[a].pc = "applying" /\ Steps(a, "listing") /\ Changes(a, p, {x})
    BY <2>1 DEF Extended, Applies
  <2>3. files' \in Partial(Paths, Notes) /\ written' \subseteq Texts /\ gone' \subseteq Texts /\ cut' \subseteq Texts
    BY <1>0, <2>1, <2>2, PutTypes DEF Extended, TypesInv
  <2> QED  BY <1>4, <2>2, <2>3
<1>7. CASE Delete(a)
  <2>1. ASSUME NEW p, Removed(a, p) PROVE ShapeInv'
    BY <1>0, TextsAtFacts, <2>1, PartialDrop, <1>4 DEF Removed, Applies, TypesInv
  <2>2. CASE AllStay /\ Rests(a)
    BY <1>0, <2>2, FitsRests, TypesStay, ShapeParts
  <2> QED  BY <1>7, <2>1, <2>2, DeleteFacts
<1>8. CASE Stub(a)
  <2>1. PICK e, n : Stubbed(a, e, n)
    BY <1>8, StubFacts
  <2>2. FitsInv' /\ ActTypes'
    <3>1. CASE Rests(a)
      BY <3>1, FitsRests
    <3>2. CASE Turns(a, "stubbing", act[a].path, act[a].seen, act[a].todo \ {e}, act[a].to)
      <4>1. act[a].pc = "stubbing"
        BY <2>1 DEF Stubbed
      <4>2. act[a].to = {}
        BY <4>1, TaskTo
      <4>3. PICK p \in Paths : act[a].path = {p}
        BY <1>0, <4>1 DEF ShapeInv, FitsInv, Fits, AtPcs
      <4> QED  BY <3>2, <4>1, <4>2, <4>3, FitsTurns DEF TaskPcs, SeenPcs
    <3> QED  BY <2>1, <3>1, <3>2 DEF Stubbed
  <2>3. /\ e \in Paths /\ n \in Notes /\ Silently({e}) /\ Crosses(a, e, {}) /\ files' = Put(files, e, n)
        /\ written' = written /\ gone' = gone /\ cut' = cut \cup (TextsAt(e) \ TextsOf(n))
        /\ index' = index /\ loaded' = loaded /\ vectors' = vectors /\ graph' = graph /\ saved' = saved
    BY <2>1 DEF Stubbed
  <2>4. TextsAt(e) \subseteq Texts
    BY <1>0, TextsAtFacts
  <2>5. crossed' \subseteq Texts /\ astray' \subseteq Paths
    BY <1>0, <2>3, CrossTypes
  <2>6. VaultTypes'
    BY <1>0, <2>3, <2>4, <2>5, PutTypes DEF VaultTypes, TypesInv
  <2>7. indexOff' \subseteq Paths /\ vectorsOff' \subseteq Paths /\ graphOff' \subseteq Paths
    BY <2>3, <1>0, OffTypes
  <2>8. IndexTypes' /\ VectorTypes' /\ GraphTypes'
    BY <1>0, <2>3, <2>7 DEF IndexTypes, VectorTypes, GraphTypes, TypesInv
  <2> QED  BY <2>2, <2>6, <2>8, ShapeParts
<1> QED  BY <1>1, <1>2, <1>3, <1>5, <1>6, <1>7, <1>8 DEF Writer

LEMMA SeenPath ==
  ASSUME ShapeInv, NEW a \in Tasks, act[a].pc \in AtPcs
  PROVE  \E p \in Paths : act[a].path = {p}
BY ActsFacts DEF ShapeInv, FitsInv, Fits

LEMMA GraphTypesStep ==
  ASSUME TypesInv, GraphStep, graph' \in Rows, saved' \in Rows
  PROVE  VaultTypes' /\ IndexTypes' /\ VectorTypes' /\ GraphTypes'
BY TypesStay DEF GraphStep, GraphTypes, TypesInv

LEMMA ShapeSubscribers ==
  ASSUME ShapeInv, NEW a \in Tasks, Subscribers(a)
  PROVE  ShapeInv'
<1>0. a \in Acts /\ TypesInv /\ graph \in Rows /\ saved \in Rows
  BY ActsFacts DEF ShapeInv, TypesInv
<1>1. CASE ReadForIndex(a) \/ ReadForVector(a)
  <2>1. AllStay /\ At(a) \in Paths /\ act[a].path = {At(a)}
    BY <1>1, ReadFacts
  <2>2. act[a].pc \in {"listing", "toEmbed"}
    BY <1>1 DEF ReadForIndex, ReadForVector, Doing
  <2>3. act[a].to = {}
    BY <2>2, TaskTo
  <2>4. ASSUME NEW pc \in {"indexing", "embedding"}, At(a) \in DOMAIN files,
               Turns(a, pc, act[a].path, {files[At(a)]}, act[a].todo, act[a].to)
        PROVE  FitsInv' /\ ActTypes'
    <3>1. files[At(a)] \in Notes
      BY <1>0, <2>4, FileFacts
    <3> QED  BY <2>1, <2>2, <2>3, <2>4, <3>1, FitsTurns DEF TaskPcs
  <2>5. ASSUME NEW pc \in {"toEmbed", "toGraph"}, Steps(a, pc)
        PROVE  FitsInv' /\ ActTypes'
    BY <2>2, <2>5, FitsSteps DEF TaskPcs, AtPcs, SeenPcs
  <2>6. FitsInv' /\ ActTypes'
    BY <1>1, <2>4, <2>5, ReadFacts
  <2> QED  BY <1>0, <2>1, <2>6, TypesStay, ShapeParts
<1>2. CASE IndexNote(a)
  <2>1. PICK p, c : /\ Processes(a, p, c, "indexing")
                    /\ FilesStay /\ VectorsStay /\ GraphStays
                    /\ index' = Put(index, p, c) /\ loaded' = loaded /\ indexOff' = indexOff
                    /\ \/ loaded /\ Steps(a, "toEmbed")
                       \/ ~loaded /\ Turns(a, "scan", {p}, {c}, Scanned, {p})
    BY <1>2, IndexNoteFacts
  <2>2. p \in Paths /\ c \in Notes /\ act[a].pc = "indexing"
    BY <2>1 DEF Processes
  <2>3. FitsInv' /\ ActTypes'
    BY <2>2, FitsSteps, FitsTurns, <2>1 DEF TaskPcs, AtPcs, SeenPcs
  <2>4. IndexTypes'
    BY <1>0, <2>1, <2>2, StoreTypes DEF IndexTypes, TypesInv
  <2> QED  BY <1>0, <2>1, <2>3, <2>4, TypesStay, ShapeParts
<1>3. CASE StoreVector(a) \/ EmbedFails(a)
  <2>1. PICK p, c : /\ Processes(a, p, c, "embedding")
                    /\ FilesStay /\ IndexStays /\ GraphStays /\ Steps(a, "toGraph")
                    /\ \/ vectors' = Put(vectors, <<p, "abs">>, c) /\ vectorsOff' = vectorsOff
                       \/ vectors' = vectors /\ vectorsOff' = vectorsOff \cup {p}
    BY <1>3, EmbedFacts
  <2>2. p \in Paths /\ c \in Notes /\ act[a].pc = "embedding"
    BY <2>1 DEF Processes
  <2>3. FitsInv' /\ ActTypes'
    BY <2>1, <2>2, FitsSteps DEF TaskPcs, AtPcs, SeenPcs
  <2>4. VectorTypes'
    BY <1>0, <2>1, <2>2, StoreTypes DEF VectorTypes, TypesInv
  <2> QED  BY <1>0, <2>1, <2>3, <2>4, TypesStay, ShapeParts
<1>4. CASE ReadForGraph(a)
  <2>1. act[a].pc = "toGraph" /\ AllStay /\ At(a) \in Paths /\ act[a].path = {At(a)}
    BY <1>4, ReadForGraphFacts
  <2>2. CASE At(a) \in DOMAIN files /\ Turns(a, "extracting", act[a].path, {files[At(a)]}, act[a].todo, act[a].to)
    <3>1. files[At(a)] \in Notes
      BY <1>0, <2>2, FileFacts
    <3>2. act[a].to = {}
      BY <2>1, TaskTo
    <3>3. FitsInv' /\ ActTypes'
      BY <2>1, <2>2, <3>1, <3>2, FitsTurns DEF TaskPcs
    <3> QED  BY <1>0, <2>1, <3>3, TypesStay, ShapeParts
  <2>3. CASE Ends(a)
    BY <2>1, <2>3, FitsEnds, <1>0, TypesStay, ShapeParts DEF AtPcs
  <2> QED  BY <1>4, <2>2, <2>3, ReadForGraphFacts
<1>5. CASE Unstate(a)
  <2>1. PICK p, c, g : /\ Processes(a, p, c, "extracting") /\ GraphStep
                       /\ g = DeleteSource(graph, p) /\ graph' = g /\ saved' = g /\ Steps(a, "stating")
    BY <1>5, UnstateFacts
  <2>2. p \in Paths /\ act[a].pc = "extracting"
    BY <2>1 DEF Processes
  <2>3. g \in Rows
    BY <1>0, <2>1, <2>2, DeleteSourceFacts
  <2>4. FitsInv' /\ ActTypes'
    BY <2>1, <2>2, FitsSteps DEF TaskPcs, AtPcs, SeenPcs
  <2> QED  BY <1>0, <2>1, <2>3, <2>4, GraphTypesStep, ShapeParts
<1>6. CASE State(a)
  <2>1. PICK p, c, ns : /\ Processes(a, p, c, "stating") /\ GraphStep /\ ns \in SUBSET Names
                        /\ graph' = UpsertEntities(graph, p, ns) /\ saved' = saved /\ Steps(a, "relating")
    BY <1>6, StateFacts
  <2>2. p \in Paths /\ act[a].pc = "stating"
    BY <2>1 DEF Processes
  <2>3. graph' \in Rows /\ saved' \in Rows
    BY <1>0, <2>1, <2>2, UpsertEntitiesFacts DEF Upserted
  <2>4. FitsInv' /\ ActTypes'
    BY <2>1, <2>2, FitsSteps DEF TaskPcs, AtPcs, SeenPcs
  <2> QED  BY <1>0, <2>1, <2>3, <2>4, GraphTypesStep, ShapeParts
<1>7. CASE Relate(a)
  <2>1. PICK p, c, es : /\ Processes(a, p, c, "relating") /\ GraphStep
                        /\ es \in SUBSET EdgesBy(p, c) /\ graph' = UpsertEdges(graph, es) /\ saved' = saved
                        /\ Steps(a, "committing") \/ Ends(a)
    BY <1>7, RelateFacts
  <2>2. p \in Paths /\ c \in Notes /\ act[a].pc = "relating"
    BY <2>1 DEF Processes
  <2>3. es \in SUBSET Edges
    BY <2>1, <2>2, LinkFacts
  <2>4. graph' \in Rows /\ saved' \in Rows
    BY <1>0, <2>1, <2>3, UpsertEdgesFacts
  <2>5. FitsInv' /\ ActTypes'
    BY <2>1, <2>2, FitsSteps, FitsEnds DEF TaskPcs, AtPcs, SeenPcs
  <2> QED  BY <1>0, <2>1, <2>4, <2>5, GraphTypesStep, ShapeParts
<1>8. CASE Commit(a)
  <2>1. PICK p, c, g : /\ Processes(a, p, c, "committing") /\ GraphStep
                       /\ g \in {graph, Confirm(graph, p)} /\ graph' = g /\ saved' = g /\ Ends(a)
    BY <1>8, CommitFacts
  <2>2. p \in Paths /\ act[a].pc = "committing"
    BY <2>1 DEF Processes
  <2>3. g \in Rows
    BY <1>0, <2>1, <2>2, ConfirmFacts DEF SameRows
  <2>4. FitsInv' /\ ActTypes'
    BY <2>1, <2>2, FitsEnds DEF AtPcs
  <2> QED  BY <1>0, <2>1, <2>3, <2>4, GraphTypesStep, ShapeParts
<1>9. CASE Unlist(a)
  <2>1. PICK p : /\ Clears(a, p, "unlisting") /\ FilesStay /\ VectorsStay /\ GraphStays
                 /\ index' = Drop(index, {p}) /\ loaded' = loaded /\ indexOff' = indexOff /\ Steps(a, "unembedding")
    BY <1>9, UnlistFacts
  <2>2. p \in Paths /\ act[a].pc = "unlisting"
    BY <2>1 DEF Clears
  <2>3. FitsInv' /\ ActTypes'
    BY <2>1, <2>2, FitsSteps DEF TaskPcs, AtPcs, SeenPcs
  <2>4. IndexTypes'
    BY <1>0, <2>1, PartialDrop DEF IndexTypes, TypesInv
  <2> QED  BY <1>0, <2>1, <2>3, <2>4, TypesStay, ShapeParts
<1>10. CASE Unembed(a)
  <2>1. PICK p : /\ Clears(a, p, "unembedding") /\ FilesStay /\ IndexStays /\ GraphStays
                 /\ vectors' = Drop(vectors, {<<p, "abs">>}) /\ vectorsOff' = vectorsOff /\ Steps(a, "removing")
    BY <1>10, UnembedFacts
  <2>2. p \in Paths /\ act[a].pc = "unembedding"
    BY <2>1 DEF Clears
  <2>3. FitsInv' /\ ActTypes'
    BY <2>1, <2>2, FitsSteps DEF TaskPcs, AtPcs, SeenPcs
  <2>4. VectorTypes'
    BY <1>0, <2>1, PartialDrop DEF VectorTypes, TypesInv
  <2> QED  BY <1>0, <2>1, <2>3, <2>4, TypesStay, ShapeParts
<1>11. CASE Withdraw(a)
  <2>1. PICK p, g : /\ Clears(a, p, "removing") /\ GraphStep
                    /\ g = DeleteSource(graph, p) /\ graph' = g /\ saved' = g /\ Ends(a)
    BY <1>11, WithdrawFacts
  <2>2. p \in Paths /\ act[a].pc = "removing"
    BY <2>1 DEF Clears
  <2>3. g \in Rows
    BY <1>0, <2>1, <2>2, DeleteSourceFacts
  <2>4. FitsInv' /\ ActTypes'
    BY <2>1, <2>2, FitsEnds DEF AtPcs
  <2> QED  BY <1>0, <2>1, <2>3, <2>4, GraphTypesStep, ShapeParts
<1> QED  BY <1>1, <1>2, <1>3, <1>4, <1>5, <1>6, <1>7, <1>8, <1>9, <1>10, <1>11 DEF Subscribers

\* What a job may become.
LEMMA FitsJob ==
  ASSUME ShapeInv, NEW a \in Jobs, Moves(a), NEW pc, act'[a].pc = pc,
         pc \notin {"scan", "scanning", "renaming"} => act'[a].to = {},
         act'[a].ops \in {<<>>, act[a].ops},
         a = "care" => /\ pc \in {"idle", "visiting"} \cup Promoting
                       /\ pc \in Promoting => act'[a].goal \in Folders
                       /\ pc = "renaming" => \E q \in Paths : /\ act'[a].to = {q} /\ Dir(q) = act'[a].goal
                                                              /\ \A p \in act'[a].path : act'[a].goal # Dir(p),
         a = "edges" => pc \in {"idle", "promoting", "sifting", "demoting"},
         a = "reindex" => pc \in {"idle", "scan", "scanning"},
         a = "rebuild" => pc \in {"idle", "rebuild", "rebuilding"},
         pc \in AtPcs => \E p \in Paths : act'[a].path = {p},
         pc \in SeenPcs => \E c \in Notes : act'[a].seen = {c}
  PROVE  FitsInv' /\ ActTypes'
<1>1. a \in Acts /\ a \notin Tasks
  BY TasksAssumption DEF Acts
<1>2. PICK r, s : r = act[a] /\ s = act'[a]
  OBVIOUS
<1>3. Fits(a, r)
  BY <1>1, <1>2 DEF ShapeInv, FitsInv
<1>4. \A i \in DOMAIN s.ops : s.ops[i].do = "create" => Dir(s.ops[i].path) \in NewFolders
  BY <1>3, <1>2 DEF Fits
<1>5. s.pc = pc /\ pc # "naming" /\ (pc = "renaming" => a = "care")
  BY <1>2 DEF Jobs, Promoting
<1>6. pc \in Promoting => a = "care"
  BY DEF Jobs, Promoting
<1>7. Fits(a, s)
  BY <1>1, <1>2, <1>4, <1>5, <1>6 DEF Fits
<1> QED  BY <1>1, <1>2, <1>7, FitsStep DEF Moves, ActTypes

LEMMA JobFacts ==
  /\ {"care", "edges", "reindex", "rebuild"} = Jobs /\ Jobs \subseteq Acts
BY DEF Jobs, Acts

LEMMA ShapeScan ==
  ASSUME ShapeInv, NEW a \in Tasks \cup {"reindex"}, ReadToScan(a) \/ Scan(a) \/ ScanEnds(a)
  PROVE  ShapeInv'
<1>0. a \in Acts /\ TypesInv
  BY ActsFacts DEF ShapeInv
<1>a. ASSUME a \in Tasks, act[a].pc \in {"scan", "scanning"}
      PROVE  \E p \in Paths : act[a].to = {p}
  BY <1>0, <1>a DEF ShapeInv, FitsInv, Fits
<1>b. ASSUME NEW pc \in {"scan", "scanning"}, NEW path, NEW seen, NEW todo, Turns(a, pc, path, seen, todo, act[a].to),
             act[a].pc \in {"scan", "scanning"},
             pc = "scanning" => (\E p \in Paths : path = {p}) /\ (\E c \in Notes : seen = {c})
      PROVE  FitsInv' /\ ActTypes'
  BY <1>a, <1>b, FitsTurns, FitsJob DEF TaskPcs, AtPcs, SeenPcs, Jobs, Promoting, Turns
<1>1. CASE ReadToScan(a)
  <2>1. act[a].pc = "scan" /\ AllStay
    BY <1>1, ReadToScanFacts
  <2>2. PICK p \in Paths : \/ p \in DOMAIN files /\ Turns(a, "scanning", {p}, {files[p]}, act[a].todo \ {p}, act[a].to)
                           \/ p \notin DOMAIN files /\ Turns(a, "scan", act[a].path, act[a].seen, act[a].todo \ {p}, act[a].to)
    BY <1>1, ReadToScanFacts
  <2>3. FitsInv' /\ ActTypes'
    BY <1>0, FileFacts, <1>b, <2>1, <2>2
  <2> QED  BY <1>0, <2>1, <2>3, TypesStay, ShapeParts
<1>2. CASE Scan(a)
  <2>1. PICK p, c : /\ Processes(a, p, c, "scanning") /\ FilesStay /\ VectorsStay /\ GraphStays
                    /\ index' = Put(index, p, c) /\ loaded' = loaded /\ indexOff' = indexOff /\ Steps(a, "scan")
    BY <1>2, ScanFacts
  <2>2. p \in Paths /\ c \in Notes /\ act[a].pc = "scanning"
    BY <2>1 DEF Processes
  <2>3. FitsInv' /\ ActTypes'
    BY <1>b, <2>1, <2>2 DEF Steps
  <2>4. IndexTypes'
    BY <1>0, <2>1, <2>2, StoreTypes DEF IndexTypes, TypesInv
  <2> QED  BY <1>0, <2>1, <2>3, <2>4, TypesStay, ShapeParts
<1>3. CASE ScanEnds(a)
  <2>1. /\ act[a].pc = "scan" /\ FilesStay /\ VectorsStay /\ GraphStays
        /\ index' = index /\ indexOff' = indexOff /\ loaded' \in BOOLEAN
    BY <1>0, <1>3, ScanEndsFacts DEF TypesInv
  <2>2. FitsInv' /\ ActTypes'
    <3>1. CASE a \in Tasks /\ Turns(a, "toEmbed", act[a].to, act[a].seen, {}, {})
      BY <1>a, <2>1, <3>1, FitsTurns DEF TaskPcs, SeenPcs
    <3>2. CASE a \notin Tasks /\ Moves(a) /\ act'[a] = Idle
      BY <3>2, JobFacts, IdleFacts, FitsJob DEF AtPcs, SeenPcs
    <3>3. CASE a \notin Tasks /\ Moves(a) /\ act'[a].pc = "scan" /\ act'[a].ops = act[a].ops
      BY <3>3, JobFacts, FitsJob DEF AtPcs, SeenPcs
    <3> QED  BY <1>3, <3>1, <3>2, <3>3, ScanEndsFacts
  <2>3. IndexTypes'
    BY <1>0, <2>1 DEF IndexTypes, TypesInv
  <2> QED  BY <1>0, <2>1, <2>2, <2>3, TypesStay, ShapeParts
<1> QED  BY <1>1, <1>2, <1>3

LEMMA FitsWanders ==
  ASSUME ShapeInv, Wanders
  PROVE  FitsInv' /\ ActTypes'
BY FitsJob, JobFacts DEF AtPcs, SeenPcs, Promoting, Wanders

LEMMA CareTo ==
  ASSUME ShapeInv, act["care"].pc \in Promoting \ {"renaming"}
  PROVE  act["care"].to = {} /\ act["care"].goal \in Folders
BY ActsFacts DEF ShapeInv, FitsInv, Fits, Promoting

LEMMA SilentTypes ==
  ASSUME TypesInv, NEW ps \in SUBSET Paths, Silently(ps), index' = index, loaded' = loaded, graph' = graph, saved' = saved,
         vectors' \in Partial(Paths \X {"abs", "rel"}, Notes)
  PROVE  IndexTypes' /\ VectorTypes' /\ GraphTypes'
BY OffTypes DEF IndexTypes, VectorTypes, GraphTypes, TypesInv

LEMMA ShapeCare ==
  ASSUME ShapeInv, Care
  PROVE  ShapeInv'
<1>0. TypesInv /\ "care" \in Acts /\ "care" \in Jobs
  BY ActsFacts, JobFacts DEF ShapeInv
<1>a. ASSUME AllStay, Wanders PROVE ShapeInv'
  BY <1>0, <1>a, FitsWanders, TypesStay, ShapeParts
<1>1. CASE StartCare \/ PromotionFails
  BY <1>1, <1>a, StartCareFacts, PromotionFailsFacts
<1>2. CASE Visit
  <2>1. AllStay
    BY <1>2, VisitFacts
  <2>2. ASSUME NEW p, NEW goal, NEW was, Picked(p, goal, was) PROVE ShapeInv'
    BY <2>2, <1>0, FitsJob, <2>1, TypesStay, ShapeParts DEF Picked, SeenPcs, Promoting
  <2> QED  BY <1>2, <1>a, <2>1, <2>2, VisitFacts
<1>3. CASE ReadStatus \/ ReadField
  <2>1. PICK p : /\ p \in Paths /\ files[p] \in Notes /\ AllStay
                 /\ \/ act["care"].pc = "status" /\ Turns("care", "statusWrite", {p}, {files[p]}, act["care"].todo, act["care"].to)
                    \/ act["care"].pc = "field" /\ Turns("care", "fieldWrite", {p}, {files[p]}, act["care"].todo, act["care"].to)
    BY <1>3, CareReadFacts
  <2>2. act["care"].pc \in Promoting \ {"renaming"}
    BY <2>1 DEF Promoting
  <2>3. act["care"].to = {} /\ act["care"].goal \in Folders
    BY <2>2, CareTo
  <2>4. PICK pc \in {"statusWrite", "fieldWrite"} : Turns("care", pc, {p}, {files[p]}, act["care"].todo, act["care"].to)
    BY <2>1
  <2>5. pc \in Promoting
    BY DEF Promoting
  <2>6. FitsInv' /\ ActTypes'
    BY <2>3, <2>4, <1>0, <2>1, <2>5, FitsJob DEF Turns
  <2> QED  BY <1>0, <2>1, <2>6, TypesStay, ShapeParts
<1>4. CASE WriteStatus
  <2>1. PICK p, c, n : StatusWritten(p, c, n)
    BY <1>4, WriteStatusFacts
  <2>2. p \in Paths /\ c \in Notes /\ act["care"].pc = "statusWrite" /\ act["care"].path = {p} /\ Steps("care", "field")
    BY <2>1 DEF StatusWritten, Processes
  <2>3. act["care"].to = {} /\ act["care"].goal \in Folders
    BY <2>2, CareTo DEF Promoting
  <2>4. FitsInv' /\ ActTypes'
    BY <2>2, <2>3, <1>0, FitsJob DEF Steps, Turns, Promoting, SeenPcs
  <2>5. CASE files' = files /\ vectors' = vectors /\ indexOff' = indexOff /\ vectorsOff' = vectorsOff /\ graphOff' = graphOff
    <3>1. AllStay
      BY <2>1, <2>5 DEF StatusWritten, AllStay, FilesStay, StoresStay, IndexStays, VectorsStay, GraphStays
    <3> QED  BY <1>0, <2>4, <3>1, TypesStay, ShapeParts
  <2>6. CASE n \in Notes /\ files' = Put(files, p, n) /\ vectors' = Put(vectors, <<p, "rel">>, n) /\ Silently({p})
    <3>1. files' \in Partial(Paths, Notes) /\ vectors' \in Partial(Paths \X {"abs", "rel"}, Notes) /\ {p} \in SUBSET Paths
      BY <1>0, <2>2, <2>6, PutTypes, StoreTypes
    <3>2. IndexTypes' /\ VectorTypes' /\ GraphTypes'
      BY <1>0, <2>1, <2>6, <3>1, SilentTypes DEF StatusWritten
    <3>3. VaultTypes'
      BY <1>0, <2>1, <3>1 DEF StatusWritten, VaultTypes, TypesInv
    <3> QED  BY <2>4, <3>2, <3>3, ShapeParts
  <2> QED  BY <2>1, <2>5, <2>6 DEF StatusWritten
<1>5. CASE WriteField
  <2>1. PICK p, c, n, goal : FieldWritten(p, c, n, goal)
    BY <1>5, WriteFieldFacts
  <2>2. /\ p \in Paths /\ c \in Notes /\ act["care"].pc = "fieldWrite" /\ goal \in Folders /\ act["care"].goal = goal
        /\ files' = Put(files, p, n) /\ n \in Notes /\ Silently({p})
        /\ written' = written /\ gone' = gone /\ cut' = cut /\ crossed' = crossed /\ astray' = astray
        /\ index' = index /\ loaded' = loaded /\ vectors' = vectors /\ graph' = graph /\ saved' = saved
    BY <2>1 DEF FieldWritten, Processes
  <2>3. FitsInv' /\ ActTypes'
    BY FitsWanders, <2>2, <1>0, FitsJob, <2>1 DEF Turns, Promoting, SeenPcs, FieldWritten
  <2>4. files' \in Partial(Paths, Notes) /\ {p} \in SUBSET Paths
    BY <1>0, <2>2, PutTypes
  <2>5. IndexTypes' /\ VectorTypes' /\ GraphTypes'
    BY <1>0, <2>2, <2>4, SilentTypes DEF TypesInv
  <2>6. VaultTypes'
    BY <1>0, <2>2, <2>4 DEF VaultTypes, TypesInv
  <2> QED  BY <2>3, <2>5, <2>6, ShapeParts
<1>6. CASE Rename
  <2>1. PICK p, q : Renamed(p, q)
    BY <1>6, RenameFacts
  <2>2. /\ p \in Paths /\ q \in Paths /\ files[p] \in Notes /\ files' = Put(Drop(files, {p}), q, files[p]) /\ Silently({p, q})
        /\ crossed' = (IF Crossers("care", q) = {} THEN crossed ELSE crossed \cup TextsAt(p))
        /\ astray' = (IF Others("care", p, {"applying"}) = {} THEN astray ELSE astray \cup {p})
        /\ written' = written /\ gone' = gone /\ cut' = cut
        /\ index' = index /\ loaded' = loaded /\ vectors' = vectors /\ graph' = graph /\ saved' = saved
        /\ Wanders
    BY <2>1 DEF Renamed
  <2>3. FitsInv' /\ ActTypes'
    BY <2>2, FitsWanders
  <2>4. files' \in Partial(Paths, Notes) /\ {p, q} \in SUBSET Paths
    BY <1>0, <2>2, PutTypes
  <2>5. IndexTypes' /\ VectorTypes' /\ GraphTypes'
    BY <1>0, <2>2, <2>4, SilentTypes DEF TypesInv
  <2>6. TextsAt(p) \subseteq Texts
    BY <1>0, TextsAtFacts
  <2>7. VaultTypes'
    BY <1>0, <2>2, <2>4, <2>6 DEF VaultTypes, TypesInv
  <2> QED  BY <2>3, <2>5, <2>7, ShapeParts
<1> QED  BY <1>1, <1>2, <1>3, <1>4, <1>5, <1>6 DEF Care

LEMMA ShapeEdges ==
  ASSUME ShapeInv, EdgeStep
  PROVE  ShapeInv'
<1>1. TypesInv /\ "edges" \in Jobs
  BY JobFacts DEF ShapeInv
<1>2. PICK pc \in {"idle", "promoting", "sifting", "demoting"} : act'["edges"].pc = pc
  BY DEF EdgeStep
<1>3. pc \notin AtPcs \cup SeenPcs
  BY DEF AtPcs, SeenPcs
<1>4. FitsInv' /\ ActTypes'
  BY <1>1, <1>2, <1>3, FitsJob DEF EdgeStep
<1>5. graph' \in Rows /\ saved' \in Rows
  BY <1>1 DEF EdgeStep, Sifted, SameRows, TypesInv
<1>6. GraphTypes'
  BY <1>1, <1>5 DEF EdgeStep, GraphTypes, TypesInv
<1> QED  BY <1>1, <1>4, <1>6, TypesStay, ShapeParts DEF EdgeStep

LEMMA ShapeMonths ==
  ASSUME ShapeInv, MonthsPass
  PROVE  ShapeInv'
<1>1. TypesInv
  BY DEF ShapeInv
<1>2. /\ FilesStay /\ IndexStays /\ VectorsStay /\ graphOff' = graphOff /\ act' = act
      /\ Sifted(graph, graph') /\ Sifted(saved, saved')
  BY MonthsPassFacts
<1>3. GraphTypes'
  BY <1>1, <1>2 DEF GraphTypes, Sifted, SameRows, TypesInv
<1>4. FitsInv' /\ ActTypes'
  BY <1>2 DEF ShapeInv, FitsInv, ActTypes, TypesInv
<1> QED  BY <1>1, <1>2, <1>3, <1>4, TypesStay, ShapeParts

\* What rests fits.
LEMMA IdleFits ==
  ASSUME NEW a \in Acts
  PROVE  Fits(a, Idle)
BY IdleFacts DEF Fits, TaskPcs, AtPcs, SeenPcs, Promoting

LEMMA ShapeCrash ==
  ASSUME ShapeInv, Crash
  PROVE  ShapeInv'
<1>1. TypesInv
  BY DEF ShapeInv
<1>2. Crashed
  BY CrashFacts
<1>3. ASSUME NEW a \in Tasks PROVE Fits(a, act'[a])
  BY ActsFacts, <1>2, IdleFits DEF ShapeInv, FitsInv, Crashed
<1>4. Fits("care", act'["care"]) /\ Fits("edges", act'["edges"])
  BY <1>2, IdleFits, ActsFacts DEF Crashed
<1>5. Fits("reindex", act'["reindex"])
  BY <1>2, ActsFacts DEF Crashed, Fits, AtPcs, SeenPcs, Promoting
<1>6. Fits("rebuild", act'["rebuild"])
  BY <1>2, ActsFacts DEF Crashed, Fits, AtPcs, SeenPcs, Promoting
<1>7. FitsInv'
  BY <1>3, <1>4, <1>5, <1>6 DEF FitsInv, Acts, Jobs
<1>8. ActTypes'
  BY <1>2 DEF Crashed, ActTypes
<1>9. VaultTypes'
  BY <1>1, RecFacts, ActsFacts, <1>2 DEF ActRec, Crashed, VaultTypes, TypesInv
<1>10. IndexTypes'
  <2>1. [p \in {} |-> Blank] \in [{} -> Notes]
    OBVIOUS
  <2>2. [p \in {} |-> Blank] \in Partial(Paths, Notes)
    BY <2>1 DEF Partial
  <2>3. {p \in DOMAIN files : Dir(p) = "seed"} \subseteq Paths
    BY <1>1, FileFacts
  <2> QED  BY <1>2, <2>2, <2>3 DEF Crashed, IndexTypes
<1>11. InFlight \subseteq Paths /\ Vanishing \subseteq Paths
  BY <1>1, RecFacts, ActsFacts DEF ActRec, InFlight, Vanishing
<1>12. VectorTypes' /\ GraphTypes'
  BY <1>1, <1>2, <1>11 DEF Crashed, VectorTypes, GraphTypes, TypesInv
<1> QED  BY <1>7, <1>8, <1>9, <1>10, <1>12, ShapeParts

LEMMA ShapeRebuild ==
  ASSUME ShapeInv, ReadToRebuild \/ RebuildNote \/ RebuildFails \/ RebuildEnds
  PROVE  ShapeInv'
<1>0. TypesInv /\ "rebuild" \in Jobs /\ "rebuild" \in Acts
  BY JobFacts, ActsFacts DEF ShapeInv
<1>a. act["rebuild"].pc \in {"rebuild", "rebuilding"} => act["rebuild"].to = {}
  BY <1>0 DEF ShapeInv, FitsInv, Fits
<1>b. ASSUME NEW pc \in {"idle", "rebuild"}, Moves("rebuild"), act'["rebuild"].pc = pc, act'["rebuild"].to = {},
             act'["rebuild"].ops \in {<<>>, act["rebuild"].ops}
      PROVE  FitsInv' /\ ActTypes'
  BY <1>0, <1>b, FitsJob DEF AtPcs, SeenPcs
<1>1. CASE ReadToRebuild
  <2>1. AllStay /\ act["rebuild"].pc = "rebuild"
    BY <1>1, ReadToRebuildFacts
  <2>2. PICK p \in Paths, rest \in {act["rebuild"].todo \ {q} : q \in Paths} :
          \/ Turns("rebuild", "rebuild", act["rebuild"].path, act["rebuild"].seen, rest, act["rebuild"].to)
          \/ p \in DOMAIN files /\ Turns("rebuild", "rebuilding", {p}, {files[p]}, rest, act["rebuild"].to)
    BY <1>1, ReadToRebuildFacts
  <2>3. CASE Turns("rebuild", "rebuild", act["rebuild"].path, act["rebuild"].seen, rest, act["rebuild"].to)
    <3>1. FitsInv' /\ ActTypes'
      BY <1>a, <1>b, <2>1, <2>3 DEF Turns
    <3> QED  BY <1>0, <2>1, <3>1, TypesStay, ShapeParts
  <2>4. CASE p \in DOMAIN files /\ Turns("rebuild", "rebuilding", {p}, {files[p]}, rest, act["rebuild"].to)
    <3>1. files[p] \in Notes
      BY <1>0, <2>4, FileFacts
    <3>2. /\ Moves("rebuild") /\ act'["rebuild"].pc = "rebuilding" /\ act'["rebuild"].path = {p} /\ act'["rebuild"].to = {}
          /\ act'["rebuild"].ops = act["rebuild"].ops /\ act'["rebuild"].seen = {files[p]}
      BY <1>a, <2>1, <2>4 DEF Turns
    <3>3. FitsInv' /\ ActTypes'
      BY <1>0, <3>1, <3>2, FitsJob
    <3> QED  BY <1>0, <2>1, <3>3, TypesStay, ShapeParts
  <2> QED  BY <2>2, <2>3, <2>4
<1>2. CASE RebuildNote
  <2>1. PICK p, c, g : RebuiltOne(p, c, g)
    BY <1>2, RebuildNoteFacts
  <2>2. p \in Paths /\ c \in Notes /\ act["rebuild"].pc = "rebuilding" /\ Turns("rebuild", "rebuild", {}, {c}, act["rebuild"].todo, act["rebuild"].to)
    BY <2>1 DEF RebuiltOne, Processes
  <2>3. FitsInv' /\ ActTypes'
    BY <1>a, <1>b, <2>2 DEF Turns
  <2>4. graph' \in Rows /\ saved' \in Rows
    BY <1>0, <2>1, <2>2, RebuiltFacts DEF RebuiltOne, TypesInv
  <2>5. GraphTypes'
    BY <1>0, <2>1, <2>4 DEF RebuiltOne, GraphTypes, TypesInv
  <2> QED  BY <1>0, <2>1, <2>3, <2>5, TypesStay, ShapeParts DEF RebuiltOne
<1>3. CASE RebuildFails
  <2>1. RebuildFailed
    BY <1>3, RebuildFailsFacts
  <2>2. FitsInv' /\ ActTypes'
    BY <1>b, <2>1 DEF RebuildFailed
  <2>3. Hurt \subseteq Paths /\ DOMAIN files \subseteq Paths
    BY <1>0, RecFacts, FileFacts DEF ActRec, Hurt
  <2>4. GraphTypes'
    BY <1>0, <2>1, <2>3 DEF RebuildFailed, GraphTypes, TypesInv
  <2> QED  BY <1>0, <2>1, <2>2, <2>4, TypesStay, ShapeParts DEF RebuildFailed
<1>4. CASE RebuildEnds
  <2>1. FitsInv' /\ ActTypes'
    BY <1>b, <1>4, RebuildEndsFacts, IdleFacts
  <2> QED  BY <1>0, <1>4, <2>1, RebuildEndsFacts, TypesStay, ShapeParts
<1> QED  BY <1>1, <1>2, <1>3, <1>4

LEMMA ShapeStep ==
  ASSUME ShapeInv, OldFound, GardenNext
  PROVE  ShapeInv'
<1>1. CASE Care
  BY <1>1, ShapeCare
<1>2. CASE EdgeLife
  BY <1>2, EdgeLifeFacts, ShapeEdges
<1>3. CASE MonthsPass
  BY <1>3, ShapeMonths
<1>4. CASE Start
  BY <1>4, ShapeCrash, ShapeRebuild, ShapeScan DEF Start
<1>5. CASE \E a \in Tasks : Writer(a) \/ Subscribers(a)
  BY <1>5, ShapeWriter, ShapeSubscribers
<1> QED  BY <1>1, <1>2, <1>3, <1>4, <1>5 DEF GardenNext

-----------------------------------------------------------------------------
\* Which activity takes a step, and that no other comes to hold the lock.

Unheld == {"naming", "fieldWrite"}

LEMMA EndsMoves ==
  ASSUME NEW a, Ends(a)
  PROVE  Moves(a) /\ act'[a].pc \in {"idle", "ready", "stubbing"}
BY DEF Ends, Rests, Rested, Turns

LEMMA WriterMoves ==
  ASSUME ShapeInv, NEW a \in Tasks, Writer(a)
  PROVE  Moves(a) /\ (act'[a].pc \notin Unheld \/ Choose(a))
<1>1. CASE Choose(a)
  BY <1>1, ChooseFacts DEF Turns
<1>2. CASE Create(a)
  BY <1>2, CreateFacts DEF Created, Steps, Turns, Unheld
<1>3. CASE Find(a)
  BY <1>3, FindFacts DEF Rests, Rested, Turns, Unheld
<1>4. CASE Replace(a)
  BY <1>4, ReplaceFacts DEF Replaced, Steps, Turns, Unheld
<1>5. CASE AppendText(a)
  BY <1>5, AppendFacts DEF Extended, Steps, Turns, Unheld
<1>6. CASE Delete(a)
  BY <1>6, DeleteFacts DEF Removed, Rests, Rested, Steps, Turns, Unheld
<1>7. CASE Stub(a)
  BY <1>7, StubFacts DEF Stubbed, Rests, Rested, Turns, Unheld
<1> QED  BY <1>1, <1>2, <1>3, <1>4, <1>5, <1>6, <1>7 DEF Writer

LEMMA SubscriberMoves ==
  ASSUME ShapeInv, NEW a \in Tasks, Subscribers(a)
  PROVE  Moves(a) /\ act'[a].pc \notin Unheld
<1>1. CASE ReadForIndex(a) \/ ReadForVector(a)
  BY <1>1, ReadFacts DEF Steps, Turns, Unheld
<1>2. CASE IndexNote(a)
  BY <1>2, IndexNoteFacts DEF Steps, Turns, Unheld
<1>3. CASE StoreVector(a) \/ EmbedFails(a)
  BY <1>3, EmbedFacts DEF Steps, Turns, Unheld
<1>4. CASE ReadForGraph(a)
  BY <1>4, ReadForGraphFacts, EndsMoves DEF Turns, Unheld
<1>5. CASE Unstate(a)
  BY <1>5, UnstateFacts DEF Steps, Turns, Unheld
<1>6. CASE State(a)
  BY <1>6, StateFacts DEF Steps, Turns, Unheld
<1>7. CASE Relate(a)
  BY <1>7, RelateFacts, EndsMoves DEF Steps, Turns, Unheld
<1>8. CASE Commit(a)
  BY <1>8, CommitFacts, EndsMoves DEF Unheld
<1>9. CASE Unlist(a)
  BY <1>9, UnlistFacts DEF Steps, Turns, Unheld
<1>10. CASE Unembed(a)
  BY <1>10, UnembedFacts DEF Steps, Turns, Unheld
<1>11. CASE Withdraw(a)
  BY <1>11, WithdrawFacts, EndsMoves DEF Unheld
<1> QED  BY <1>1, <1>2, <1>3, <1>4, <1>5, <1>6, <1>7, <1>8, <1>9, <1>10, <1>11 DEF Subscribers

LEMMA ScanMoves ==
  ASSUME ShapeInv, NEW a \in Tasks \cup {"reindex"}, ReadToScan(a) \/ Scan(a) \/ ScanEnds(a)
  PROVE  Moves(a) /\ act'[a].pc \notin Unheld /\ a \in Acts /\ a # "edges"
BY ActsFacts, ReadToScanFacts, ScanFacts, ScanEndsFacts, IdleFacts DEF Turns, Unheld, Steps

LEMMA CareMoves ==
  ASSUME ShapeInv, Care
  PROVE  Moves("care") /\ (act'["care"].pc \notin Unheld \/ GardenLockFree)
<1>1. CASE StartCare \/ PromotionFails
  BY <1>1, StartCareFacts, PromotionFailsFacts DEF Wanders, Unheld
<1>2. CASE Visit
  BY <1>2, VisitFacts DEF Wanders, Picked, Unheld
<1>3. CASE ReadStatus \/ ReadField
  BY <1>3, CareReadFacts DEF Turns, Unheld
<1>4. CASE WriteStatus
  BY <1>4, WriteStatusFacts DEF StatusWritten, Steps, Turns, Unheld
<1>5. CASE WriteField
  <2>1. PICK p, c, n, goal : FieldWritten(p, c, n, goal)
    BY <1>5, WriteFieldFacts
  <2>2. Wanders \/ \E q : Turns("care", "renaming", {p}, {c}, act["care"].todo, {q})
    BY <2>1 DEF FieldWritten
  <2> QED  BY <2>2 DEF Wanders, Turns, Unheld
<1>6. CASE Rename
  BY <1>6, RenameFacts DEF Renamed, Wanders, Unheld
<1> QED  BY <1>1, <1>2, <1>3, <1>4, <1>5, <1>6 DEF Care

LEMMA RebuildMoves ==
  ASSUME ShapeInv, ReadToRebuild \/ RebuildNote \/ RebuildFails \/ RebuildEnds
  PROVE  Moves("rebuild") /\ act'["rebuild"].pc \notin Unheld
BY ReadToRebuildFacts, RebuildNoteFacts, RebuildFailsFacts, RebuildEndsFacts, IdleFacts DEF Turns, Unheld,
   RebuiltOne, RebuildFailed

LEMMA EdgesMove ==
  ASSUME EdgeStep
  PROVE  Moves("edges") /\ act'["edges"].pc \notin Unheld
BY DEF EdgeStep, Unheld

-----------------------------------------------------------------------------
\* The lock.

LEMMA HoldsStays ==
  ASSUME NEW b \in Acts, Stays(b), Holds(b)'
  PROVE  Holds(b)
BY DEF Stays, Copies, Holds, Naming, Doing, At

LEMMA LockStep ==
  ASSUME LockInv, NEW a \in Acts, Moves(a), Holds(a)' => \A b \in Acts : ~Holds(b)
  PROVE  LockInv'
BY HoldsStays DEF Moves, LockInv

LEMMA LockQuiet ==
  ASSUME LockInv, NEW a \in Acts, Moves(a), act'[a].pc \notin Unheld
  PROVE  LockInv'
BY LockStep DEF Holds, Naming, Doing, Unheld

LEMMA LockNext ==
  ASSUME ShapeInv, OldFound, LockInv, GardenNext
  PROVE  LockInv'
<1>0. GardenLockFree => \A b \in Acts : ~Holds(b)
  BY DEF GardenLockFree, Holds
<1>1. CASE Care
  BY <1>1, CareMoves, LockQuiet, ActsFacts, <1>0, LockStep
<1>2. CASE EdgeLife
  BY <1>2, EdgeLifeFacts, EdgesMove, LockQuiet, ActsFacts
<1>3. CASE MonthsPass
  BY <1>3, MonthsPassFacts DEF LockInv, Holds, Naming, Doing, At
<1>4. CASE Start
  <2>1. CASE Crash
    <3>1. ASSUME NEW b \in Acts PROVE ~(Holds(b)')
      BY <2>1, CrashFacts, IdleFacts DEF Crashed, Acts, Jobs, Holds, Naming, Doing
    <3> QED  BY <3>1 DEF LockInv
  <2>2. CASE ReadToRebuild \/ RebuildNote \/ RebuildFails \/ RebuildEnds
    BY <2>2, RebuildMoves, LockQuiet, ActsFacts
  <2>3. CASE \E a \in Tasks \cup {"reindex"} : ReadToScan(a) \/ Scan(a) \/ ScanEnds(a)
    BY <2>3, ScanMoves, LockQuiet
  <2> QED  BY <1>4, <2>1, <2>2, <2>3 DEF Start
<1>5. ASSUME NEW a \in Tasks, Writer(a) PROVE LockInv'
  <2>0. a \in Acts
    BY ActsFacts
  <2>1. CASE act'[a].pc \notin Unheld
    BY <1>5, <2>0, <2>1, WriterMoves, LockQuiet
  <2>2. CASE Choose(a)
    <3>1. PICK p \in Paths : /\ Dir(p) = Dir(Op(a).path)
                             /\ Turns(a, "naming", {p}, act[a].seen, act[a].todo, act[a].to)
      BY <2>2, ChooseFacts
    <3>2. Moves(a) /\ act'[a].pc = "naming" /\ act'[a].path = {p}
      BY <3>1 DEF Turns
    <3>3. At(a)' = p
      BY <3>2, TheOne DEF At
    <3>4. CASE Dir(p) = "seeds"
      BY <3>2, <3>3, <3>4, <2>0, LockStep DEF Holds, Naming, Doing
    <3>5. CASE Dir(p) # "seeds"
      <4>1. GardenLockFree
        BY <2>2, <3>1, <3>5, ChooseFacts
      <4> QED  BY <1>0, <2>0, <3>2, <4>1, LockStep
    <3> QED  BY <3>4, <3>5
  <2> QED  BY <1>5, <2>1, <2>2, WriterMoves
<1>6. ASSUME NEW a \in Tasks, Subscribers(a) PROVE LockInv'
  BY <1>6, SubscriberMoves, LockQuiet, ActsFacts
<1> QED  BY <1>1, <1>2, <1>3, <1>4, <1>5, <1>6 DEF GardenNext

\* What the edge lifecycle has found is old.
LEMMA FoundStays ==
  ASSUME OldFound, NEW a \in Acts, a # "edges", Moves(a)
  PROVE  OldFound'
BY ActsFacts DEF OldFound, Moves, Stays, Copies

LEMMA OldNext ==
  ASSUME ShapeInv, OldFound, GardenNext
  PROVE  OldFound'
<1>1. CASE Care
  BY <1>1, CareMoves, FoundStays, ActsFacts
<1>2. CASE EdgeLife
  BY <1>2, EdgeLifeFacts DEF EdgeStep
<1>3. CASE MonthsPass
  BY <1>3, MonthsPassFacts DEF OldFound
<1>4. CASE Start
  <2>1. CASE Crash
    BY <2>1, CrashFacts, IdleFacts DEF Crashed, OldFound
  <2>2. CASE ReadToRebuild \/ RebuildNote \/ RebuildFails \/ RebuildEnds
    BY <2>2, RebuildMoves, FoundStays, ActsFacts
  <2>3. CASE \E a \in Tasks \cup {"reindex"} : ReadToScan(a) \/ Scan(a) \/ ScanEnds(a)
    BY <2>3, ScanMoves, FoundStays
  <2> QED  BY <1>4, <2>1, <2>2, <2>3 DEF Start
<1>5. ASSUME NEW a \in Tasks, Writer(a) \/ Subscribers(a) PROVE OldFound'
  BY <1>5, WriterMoves, SubscriberMoves, FoundStays, ActsFacts
<1> QED  BY <1>1, <1>2, <1>3, <1>4, <1>5 DEF GardenNext

-----------------------------------------------------------------------------
\* The vault and its graph at first.

LEMMA FirstGraphFacts ==
  ASSUME NEW f \in Partial(Paths, Notes)
  PROVE  LET g == FirstGraph(f) IN
         /\ g \in Rows /\ Sound(g) /\ g.hashes = f
         /\ \A p \in DOMAIN f : SaysOf(g, p, f[p])
         /\ \A p \in Paths \ DOMAIN f : SaysNothing(g, p)
<1> DEFINE named == UNION {StatedBy(p, f[p]) : p \in DOMAIN f}
           es == UNION {EdgesBy(p, f[p]) : p \in DOMAIN f}
           rows == {CHOOSE e \in es : Alike(e, x) : x \in es}
           ents == [n \in named |-> [src |-> CHOOSE p \in DOMAIN f : n \in StatedBy(p, f[p]), old |-> FALSE]]
           prov == UNION {StatedBy(p, f[p]) \X {p} : p \in DOMAIN f}
           lent == {p \in DOMAIN f : ~(EdgesBy(p, f[p]) \subseteq rows)}
<1>0. DOMAIN f \subseteq Paths /\ \A p \in DOMAIN f : f[p] \in Notes
  BY PartialFacts
<1>1. \A p \in DOMAIN f : StatedBy(p, f[p]) \subseteq Names /\ EdgesBy(p, f[p]) \subseteq Edges
  BY <1>0, LinkFacts
<1>2. named \subseteq Names /\ es \subseteq Edges
  BY <1>1
<1>3. \A x \in es : (CHOOSE e \in es : Alike(e, x)) \in es
  BY AlikeFacts
<1>4. rows \subseteq es
  BY <1>3
<1>5. \A n \in named : (CHOOSE p \in DOMAIN f : n \in StatedBy(p, f[p])) \in {p \in DOMAIN f : n \in StatedBy(p, f[p])}
  OBVIOUS
<1>6. PICK e1, r1, v1, l1 : e1 = ents /\ r1 = rows /\ v1 = prov /\ l1 = lent
  OBVIOUS
<1>7. /\ DOMAIN e1 = named
      /\ \A n \in named : e1[n] \in Ents /\ e1[n].src \in DOMAIN f /\ n \in StatedBy(e1[n].src, f[e1[n].src])
  <2>1. \A n \in named : e1[n] = [src |-> CHOOSE p \in DOMAIN f : n \in StatedBy(p, f[p]), old |-> FALSE]
    BY <1>6
  <2>2. ASSUME NEW n \in named
        PROVE  e1[n] \in Ents /\ e1[n].src \in DOMAIN f /\ n \in StatedBy(e1[n].src, f[e1[n].src])
    <3>1. PICK q : q = CHOOSE p \in DOMAIN f : n \in StatedBy(p, f[p])
      OBVIOUS
    <3>2. q \in DOMAIN f /\ n \in StatedBy(q, f[q])
      BY <1>5, <3>1
    <3>3. e1[n] = [src |-> q, old |-> FALSE]
      BY <2>1, <3>1
    <3> QED  BY <1>0, <3>2, <3>3 DEF Ents
  <2>3. DOMAIN e1 = named
    BY <1>6
  <2> QED  BY <2>2, <2>3
<1>8. e1 \in Partial(Names, Ents)
  <2>1. e1 = [n \in named |-> e1[n]]
    BY <1>6
  <2>2. e1 \in [named -> Ents]
    BY <1>7, <2>1
  <2> QED  BY <1>2, <2>2 DEF Partial
<1>9. v1 \in SUBSET (Names \X Paths) /\ r1 \in SUBSET Edges /\ l1 \in SUBSET Paths /\ r1 \subseteq es
  <2>1. v1 \subseteq Names \X Paths
    BY <1>0, <1>1, <1>6
  <2> QED  BY <1>0, <1>2, <1>4, <1>6, <2>1
<1>10. PICK g : g = FirstGraph(f)
  OBVIOUS
<1>11. g = [ents |-> e1, prov |-> v1, edges |-> r1, hashes |-> f, bereft |-> {}, lent |-> l1]
  BY <1>6, <1>10 DEF FirstGraph
<1>12. g \in Rows /\ g.ents = e1 /\ g.prov = v1 /\ g.edges = r1 /\ g.hashes = f /\ g.lent = l1
  BY <1>8, <1>9, <1>11 DEF Rows
<1>13. \A n, p : <<n, p>> \in v1 <=> p \in DOMAIN f /\ n \in StatedBy(p, f[p])
  BY <1>6
<1>14. \A e \in es : e.src \in DOMAIN f /\ e \in EdgesBy(e.src, f[e.src]) /\ {e.from, e.to} \subseteq StatedBy(e.src, f[e.src])
                     /\ (e.rel = "states" => e.strong)
  BY <1>0, EdgesByFacts
<1>15. \A n \in named : n \in DOMAIN e1
  BY <1>7
<1>16. Sound(g)
  BY <1>9, <1>12, <1>14, <1>15, <1>7, <1>13 DEF EdgesFit, StatesStrong, Owned, Sound
<1>a. \A p : StatedIn(g, p) = {n \in named : p \in DOMAIN f /\ n \in StatedBy(p, f[p])}
  <2>1. \A p, n : n \in StatedIn(g, p) <=> <<n, p>> \in v1
    BY <1>9, <1>12 DEF StatedIn
  <2>2. \A n, p : p \in DOMAIN f /\ n \in StatedBy(p, f[p]) => n \in named
    OBVIOUS
  <2> HIDE DEF named
  <2> QED  BY <1>13, <2>1, <2>2
<1>17. ASSUME NEW p \in DOMAIN f PROVE SaysOf(g, p, f[p])
  <2>1. StatedIn(g, p) = StatedBy(p, f[p]) /\ StatedBy(p, f[p]) \subseteq DOMAIN g.ents
    BY <1>a, <1>12, <1>15
  <2>2. AllAlike(RowsOf(g, p), EdgesBy(p, f[p]))
    BY <1>9, <1>12, <1>14, AlikeFacts DEF AllAlike, RowsOf
  <2>3. ASSUME p \notin g.lent PROVE AllAlike(EdgesBy(p, f[p]), RowsOf(g, p))
    BY <1>6, <1>12, <2>3, <1>0, EdgesByFacts, AlikeFacts DEF AllAlike, RowsOf
  <2> QED  BY <2>1, <2>2, <2>3 DEF SaysOf, Says
<1>18. ASSUME NEW p \in Paths \ DOMAIN f PROVE SaysNothing(g, p)
  BY <1>a, <1>9, <1>12, <1>14 DEF RowsOf, SaysNothing
<1> QED  BY <1>10, <1>12, <1>16, <1>17, <1>18

LEMMA FirstVault ==
  ASSUME GardenInit
  PROVE  files \in Partial(Paths, Notes)
BY FirstNotesAssumption DEF GardenInit, Partial

\* A task waits, or has nothing to do; the jobs rest.
LEMMA FirstActs ==
  ASSUME GardenInit
  PROVE  /\ act \in [Acts -> ActRec]
         /\ \A a \in Jobs : act[a] = Idle
         /\ \A a \in Tasks : \/ act[a] = Idle
                             \/ /\ act[a].pc = "waiting" /\ act[a].ops = load.asks[a] /\ act[a].ops # <<>> /\ act[a].path = {}
                                /\ act[a].to = {} /\ act[a].found = {} /\ act[a].names = {} /\ act[a].seen = {}
                                /\ act[a].todo = {}
<1>1. load \in Loads
  BY WorkloadsAssumption DEF GardenInit
<1>2. \A a \in Tasks : load.asks[a] \in Seq(Ops)
  BY <1>1 DEF Loads
<1> DEFINE new(a) == IF a \in Tasks /\ load.asks[a] # <<>> THEN [Idle EXCEPT !.pc = "waiting", !.ops = load.asks[a]] ELSE Idle
<1>3. act = [a \in Acts |-> new(a)]
  BY DEF GardenInit
<1>4. PICK i \in ActRec : i = Idle /\ i.path = {} /\ i.to = {} /\ i.found = {} /\ i.names = {} /\ i.seen = {} /\ i.todo = {}
  BY IdleFacts
<1>5. ASSUME NEW a \in Tasks, load.asks[a] # <<>>
      PROVE  /\ new(a) \in ActRec
             /\ new(a).pc = "waiting" /\ new(a).ops = load.asks[a] /\ new(a).path = {} /\ new(a).to = {} /\ new(a).found = {}
             /\ new(a).names = {} /\ new(a).seen = {} /\ new(a).todo = {}
  BY <1>2, <1>4, <1>5 DEF ActRec, Pcs
<1>6. \A a \in Acts : ~(a \in Tasks /\ load.asks[a] # <<>>) => new(a) = Idle
  OBVIOUS
<1> HIDE DEF new
<1>7. \A a \in Acts : new(a) \in ActRec
  BY <1>4, <1>5, <1>6
<1>8. act \in [Acts -> ActRec] /\ \A a \in Acts : act[a] = new(a)
  BY <1>3, <1>7
<1>9. \A a \in Jobs : act[a] = Idle
  BY <1>6, <1>8, TasksAssumption DEF Acts
<1> QED  BY <1>5, <1>6, <1>8, <1>9, ActsFacts

LEMMA ShapeFirst ==
  ASSUME GardenInit
  PROVE  ShapeInv /\ OldFound /\ LockInv
<1>1. files \in Partial(Paths, Notes)
  BY FirstVault
<1>2. ActTypes
  BY FirstActs DEF ActTypes
<1>3. graph \in Rows /\ saved \in Rows
  BY <1>1, FirstGraphFacts DEF GardenInit
<1>4. index \in Partial(Paths, Notes) /\ loaded \in BOOLEAN
  BY <1>1 DEF GardenInit
<1>5. vectors \in Partial(Paths \X {"abs", "rel"}, Notes)
  <2>1. DOMAIN files \subseteq Paths /\ \A p \in DOMAIN files : files[p] \in Notes
    BY <1>1, PartialFacts
  <2> DEFINE ks == {<<p, "abs">> : p \in DOMAIN files}
  <2>2. vectors = [k \in ks |-> files[k[1]]]
    BY DEF GardenInit
  <2>3. ks \subseteq Paths \X {"abs", "rel"}
    BY <2>1
  <2>4. \A k \in ks : files[k[1]] \in Notes
    BY <2>1
  <2>5. vectors \in [ks -> Notes]
    BY <2>2, <2>4
  <2> QED  BY <2>3, <2>5 DEF Partial
<1>6. written \subseteq Texts
  <2>1. \A p \in DOMAIN files : TextsOf(files[p]) \subseteq Texts
    BY <1>1, PartialFacts, NoteFacts
  <2>2. written = UNION {TextsOf(files[p]) : p \in DOMAIN files}
    BY DEF GardenInit
  <2> QED  BY <2>1, <2>2
<1>7. TypesInv
  BY <1>1, <1>2, <1>3, <1>4, <1>5, <1>6 DEF TypesInv, ActTypes, GardenInit
<1>8. FitsInv
  <2>1. ASSUME NEW a \in Tasks, act[a] # Idle PROVE Fits(a, act[a])
    <3>1. PICK r : r = act[a]
      OBVIOUS
    <3>2. r.pc = "waiting" /\ r.ops = load.asks[a] /\ r.ops # <<>> /\ r.to = {}
      BY <2>1, <3>1, FirstActs
    <3>3. \A i \in DOMAIN r.ops : r.ops[i].do = "create" => Dir(r.ops[i].path) \in NewFolders
      BY <3>2, WorkloadsAssumption DEF GardenInit, NewFolders, Dir
    <3>4. Fits(a, r)
      BY <3>2, <3>3, ActsFacts DEF Fits, TaskPcs, AtPcs, SeenPcs, Promoting
    <3> QED  BY <3>1, <3>4
  <2> QED  BY <2>1, IdleFits, FirstActs DEF FitsInv, Acts
<1>9. \A a \in Acts : act[a].pc \in {"idle", "waiting"}
  BY FirstActs, IdleFacts DEF Acts
<1>10. LockInv
  BY <1>9 DEF LockInv, Holds, Naming, Doing
<1>11. OldFound
  BY FirstActs, IdleFacts DEF OldFound, Jobs
<1> QED  BY <1>7, <1>8, <1>10, <1>11 DEF ShapeInv

-----------------------------------------------------------------------------
LEMMA ShapeTypes ==
  ASSUME ShapeInv, LockInv
  PROVE  GardenTypeOK
<1>1. DOMAIN files \subseteq Paths /\ \A p \in DOMAIN files : files[p] \in Notes
  BY FileFacts DEF ShapeInv
<1>2. DOMAIN index \subseteq Paths /\ \A p \in DOMAIN index : index[p] \in Notes
  BY PartialFacts DEF ShapeInv, TypesInv
<1>3. DOMAIN vectors \subseteq Paths \X {"abs", "rel"} /\ \A k \in DOMAIN vectors : vectors[k] \in Notes
  BY PartialFacts DEF ShapeInv, TypesInv
<1>4. IsGraph(graph) /\ IsGraph(saved)
  BY RowsFacts DEF ShapeInv, TypesInv
<1>5. DOMAIN act = Acts /\ \A a \in Acts : IsAct(act[a])
  BY DEF ShapeInv, TypesInv, ActRec, IsAct
<1>6. Cardinality({a \in Acts : Naming(a, FALSE) \/ Doing(a, {"fieldWrite"})}) <= 1
  <2>1. PICK H : H = {a \in Acts : Naming(a, FALSE) \/ Doing(a, {"fieldWrite"})}
    OBVIOUS
  <2>2. \A a, b \in H : a = b
    BY <2>1 DEF LockInv, Holds
  <2>3. H = {} \/ \E a : H = {a}
    BY <2>2
  <2>4. Cardinality(H) \in {0, 1}
    BY <2>3, FS_EmptySet, FS_Singleton
  <2>5. Cardinality(H) <= 1
    BY <2>4
  <2> QED  BY <2>1, <2>5
<1> QED  BY <1>1, <1>2, <1>3, <1>4, <1>5, <1>6 DEF GardenTypeOK, ShapeInv, TypesInv

LEMMA ShapeStutter ==
  ASSUME ShapeInv, OldFound, LockInv, UNCHANGED vars
  PROVE  ShapeInv' /\ OldFound' /\ LockInv'
<1>1. /\ files' = files /\ index' = index /\ loaded' = loaded /\ vectors' = vectors /\ graph' = graph /\ saved' = saved /\ act' = act
      /\ written' = written /\ gone' = gone /\ cut' = cut /\ crossed' = crossed /\ astray' = astray
      /\ indexOff' = indexOff /\ vectorsOff' = vectorsOff /\ graphOff' = graphOff
  BY DEF vars, stores, graphVars, history, off
<1>2. ShapeInv'
  BY <1>1 DEF ShapeInv, TypesInv, FitsInv
<1>3. OldFound' /\ LockInv'
  BY <1>1 DEF OldFound, LockInv, Holds, Naming, Doing, At
<1> QED  BY <1>2, <1>3

\* Types, and that the garden lock has one holder, whatever the activities do.
THEOREM GardenTypesHold == Spec => []GardenTypeOK
<1> DEFINE Inv == ShapeInv /\ OldFound /\ LockInv
<1>1. GardenInit => Inv
  BY ShapeFirst
<1>2. Inv /\ [GardenNext]_vars => Inv'
  BY ShapeStep, OldNext, LockNext, ShapeStutter
<1>3. Inv => GardenTypeOK
  BY ShapeTypes
<1> QED  BY <1>1, <1>2, <1>3, PTL DEF Spec

-----------------------------------------------------------------------------
\* Where texts are.

LEMMA TextsPut ==
  ASSUME NEW p, NEW n, files' = Put(files, p, n)
  PROVE  TextsAt(p)' = TextsOf(n) /\ \A q : q # p => TextsAt(q)' = TextsAt(q)
BY DEF Put, TextsAt, NotesAt

LEMMA TextsDrop ==
  ASSUME NEW p, files' = Drop(files, {p})
  PROVE  TextsAt(p)' = {} /\ \A q : q # p => TextsAt(q)' = TextsAt(q)
<1>1. DOMAIN files' = DOMAIN files \ {p} /\ \A q \in DOMAIN files \ {p} : files'[q] = files[q]
  BY DropFacts
<1> QED  BY <1>1 DEF TextsAt, NotesAt

LEMMA TextsStay ==
  ASSUME files' = files
  PROVE  \A q : TextsAt(q)' = TextsAt(q)
BY DEF TextsAt, NotesAt

LEMMA TextsMove ==
  ASSUME NEW p \in DOMAIN files, NEW q, q # p, files' = Put(Drop(files, {p}), q, files[p])
  PROVE  /\ TextsAt(p)' = {} /\ TextsAt(q)' = TextsAt(p)
         /\ \A r : r # p /\ r # q => TextsAt(r)' = TextsAt(r)
<1>1. PICK d : d = Drop(files, {p})
  OBVIOUS
<1>2. DOMAIN d = DOMAIN files \ {p} /\ \A r \in DOMAIN files \ {p} : d[r] = files[r]
  BY <1>1, DropFacts
<1>3. files' = Put(d, q, files[p])
  BY <1>1
<1>4. DOMAIN files' = (DOMAIN files \ {p}) \cup {q} /\ files'[q] = files[p]
      /\ \A r \in DOMAIN files \ {p} : r # q => files'[r] = files[r]
  BY <1>2, <1>3 DEF Put
<1> QED  BY <1>4 DEF TextsAt, NotesAt

-----------------------------------------------------------------------------
\* The texts a task is still to write.
PendPcs == {"waiting", "ready", "naming", "applying"}
PendOf(r) == {i \in DOMAIN r.ops : i > 1 \/ r.pc \in PendPcs}

\* Each of them was there before, at the same place or at the next.
PendMaps == \A b \in Tasks : \E k \in {0, 1} : \A i \in PendOf(act'[b]) :
              i \in Nat /\ i + k \in PendOf(act[b]) /\ act'[b].ops[i] = act[b].ops[i + k]

Writing == {"statusWrite", "fieldWrite"}

Kept == \A x \in written : x \in gone \cup crossed \cup cut \/ \E p \in Paths : x \in TextsAt(p)
NotBack == \A p \in Paths : TextsAt(p) \cap gone \subseteq crossed
Apart == \A p, q \in Paths : \A x : x \in TextsAt(p) /\ x \in TextsAt(q) => p = q
PendInv ==
  \A a \in Tasks : \A i \in PendOf(act[a]) :
    /\ act[a].ops[i].text \notin gone
    /\ \A p \in Paths : act[a].ops[i].text \notin TextsAt(p)
    /\ act["care"].pc \in Writing => \A c \in act["care"].seen : act[a].ops[i].text \notin TextsOf(c)
    /\ \A b \in Tasks : \A j \in PendOf(act[b]) : act[b].ops[j].text = act[a].ops[i].text => a = b /\ i = j
\* What a promotion has read is what it is going to write.
CareTexts ==
  act["care"].pc \in Writing => \A p \in act["care"].path : \A c \in act["care"].seen :
    /\ TextsAt(p) \subseteq TextsOf(c) \cup crossed
    /\ TextsOf(c) \subseteq TextsAt(p) \cup crossed \cup cut
    /\ TextsOf(c) \cap gone \subseteq crossed
    /\ \A q \in Paths \ {p} : TextsAt(q) \cap TextsOf(c) = {}
\* A name that was free is written over.
AimTexts ==
  /\ \A a \in Tasks : act[a].pc = "naming" => \A p \in act[a].path : TextsAt(p) \subseteq crossed \cup cut
  /\ act["care"].pc = "renaming" => \A q \in act["care"].to : TextsAt(q) \subseteq crossed \cup cut
TextInv == Kept /\ NotBack /\ Apart /\ PendInv /\ CareTexts /\ AimTexts

\* Nothing is written but a part of what is there, and what is cut off is said to be.
LEMMA TextsShrink ==
  ASSUME TextInv,
         \A q \in Paths : TextsAt(q)' \subseteq TextsAt(q) /\ TextsAt(q) \subseteq TextsAt(q)' \cup cut',
         cut \subseteq cut', written' = written, gone' = gone, crossed' = crossed,
         PendMaps,
         act'["care"].pc \in Writing =>
            \/ Stays("care")
            \/ \A p \in act'["care"].path : p \in Paths /\ \A c \in act'["care"].seen : TextsOf(c) = TextsAt(p)',
         \A a \in Tasks : act'[a].pc = "naming" => Stays(a) \/ \A p \in act'[a].path : TextsAt(p)' = {},
         act'["care"].pc = "renaming" => Stays("care"),
         ShapeInv, ShapeInv'
  PROVE  TextInv'
<1>1. Kept'
  BY DEF TextInv, Kept
<1>2. NotBack'
  BY DEF TextInv, NotBack
<1>3. Apart'
  BY DEF TextInv, Apart
<1>4. \A c \in act'["care"].seen : act'["care"].pc \in Writing =>
        \/ act["care"].pc \in Writing /\ c \in act["care"].seen
        \/ \E p \in Paths : TextsOf(c) \subseteq TextsAt(p)
  <2>1. ASSUME act'["care"].pc \in Writing, ~Stays("care"), NEW c \in act'["care"].seen
        PROVE  \E p \in Paths : TextsOf(c) \subseteq TextsAt(p)
    BY <2>1, ActsFacts DEF ShapeInv, FitsInv, Fits, Writing, AtPcs
  <2> QED  BY <2>1 DEF Stays, Copies
<1>5. PendInv'
  <2>1. ASSUME NEW a \in Tasks, NEW i \in PendOf(act'[a])
        PROVE  /\ act'[a].ops[i].text \notin gone'
               /\ \A p \in Paths : act'[a].ops[i].text \notin TextsAt(p)'
               /\ act'["care"].pc \in Writing => \A c \in act'["care"].seen : act'[a].ops[i].text \notin TextsOf(c)
               /\ \A b \in Tasks : \A j \in PendOf(act'[b]) : act'[b].ops[j].text = act'[a].ops[i].text => a = b /\ i = j
    <3>1. PICK k \in {0, 1} : \A j \in PendOf(act'[a]) : j \in Nat /\ j + k \in PendOf(act[a]) /\ act'[a].ops[j] = act[a].ops[j + k]
      BY DEF PendMaps
    <3>2. PICK t : t = act'[a].ops[i].text
      OBVIOUS
    <3>3. i \in Nat /\ i + k \in PendOf(act[a]) /\ act[a].ops[i + k].text = t
      BY <2>1, <3>1, <3>2
    <3>4. /\ t \notin gone /\ \A p \in Paths : t \notin TextsAt(p)
          /\ act["care"].pc \in Writing => \A c \in act["care"].seen : t \notin TextsOf(c)
          /\ \A b \in Tasks : \A j \in PendOf(act[b]) : act[b].ops[j].text = t => a = b /\ i + k = j
      BY <3>3 DEF TextInv, PendInv
    <3>5. act'["care"].pc \in Writing => \A c \in act'["care"].seen : t \notin TextsOf(c)
      BY <1>4, <3>4
    <3>6. ASSUME NEW b \in Tasks, NEW j \in PendOf(act'[b]), act'[b].ops[j].text = t
          PROVE  a = b /\ i = j
      BY <3>6, <3>4, <3>1, <3>3 DEF PendMaps
    <3> QED  BY <3>2, <3>4, <3>5, <3>6
  <2> QED  BY <2>1 DEF PendInv
<1>6. CareTexts'
  <2>1. CASE Stays("care")
    BY <2>1, ActsFacts DEF TextInv, CareTexts, Stays, Copies, ShapeInv, TypesInv, ActRec
  <2>2. ASSUME act'["care"].pc \in Writing, ~Stays("care"), NEW p \in act'["care"].path, NEW c \in act'["care"].seen
        PROVE  /\ TextsAt(p)' \subseteq TextsOf(c) \cup crossed'
               /\ TextsOf(c) \subseteq TextsAt(p)' \cup crossed' \cup cut'
               /\ TextsOf(c) \cap gone' \subseteq crossed'
               /\ \A q \in Paths \ {p} : TextsAt(q)' \cap TextsOf(c) = {}
    BY <2>2, <1>2, <1>3 DEF NotBack, Apart
  <2> QED  BY <2>1, <2>2 DEF CareTexts
<1>7. AimTexts'
  <2>1. ASSUME NEW a \in Tasks, act'[a].pc = "naming", NEW p \in act'[a].path
        PROVE  TextsAt(p)' \subseteq crossed' \cup cut'
    <3>1. CASE Stays(a)
      <4>1. act[a].pc = "naming" /\ p \in act[a].path /\ p \in Paths
        BY <2>1, <3>1, ActsFacts DEF Stays, Copies, ShapeInv, TypesInv, ActRec
      <4> QED  BY <4>1 DEF TextInv, AimTexts
    <3> QED  BY <2>1, <3>1
  <2>2. ASSUME act'["care"].pc = "renaming", NEW q \in act'["care"].to
        PROVE  TextsAt(q)' \subseteq crossed' \cup cut'
    <3>1. act["care"].pc = "renaming" /\ q \in act["care"].to /\ q \in Paths
      BY <2>2, ActsFacts DEF Stays, Copies, ShapeInv, TypesInv, ActRec
    <3> QED  BY <3>1 DEF TextInv, AimTexts
  <2> QED  BY <2>1, <2>2 DEF AimTexts
<1> QED  BY <1>1, <1>2, <1>3, <1>5, <1>6, <1>7 DEF TextInv

LEMMA ActPaths ==
  ASSUME ShapeInv, NEW a \in Acts
  PROVE  act[a].path \subseteq Paths /\ act[a].to \subseteq Paths /\ act[a].todo \subseteq Paths
BY DEF ShapeInv, TypesInv, ActRec

\* What a task has still to write after a step of it.
LEMMA PendKept ==
  ASSUME ShapeInv, NEW a \in Tasks,
         \/ Rests(a)
         \/ Moves(a) /\ act'[a].ops = act[a].ops /\ (act'[a].pc \in PendPcs => act[a].pc \in PendPcs)
  PROVE  PendMaps
<1>1. ASSUME NEW b \in Tasks
      PROVE  \E k \in {0, 1} : \A i \in PendOf(act'[b]) :
               i \in Nat /\ i + k \in PendOf(act[b]) /\ act'[b].ops[i] = act[b].ops[i + k]
  <2>0. a \in Acts /\ b \in Acts
    BY ActsFacts
  <2>1. act[b].ops \in Seq(Ops) /\ act'[b].ops \in Seq(Ops)
    BY <2>0 DEF ShapeInv, TypesInv, ActRec, Rests, Moves
  <2>2. CASE b # a
    BY <2>0, <2>2, <2>1 DEF Rests, Moves, Stays, Copies, PendOf
  <2>3. CASE b = a /\ Rests(a)
    BY <2>3, <2>1 DEF Rests, Rested, PendOf
  <2>4. CASE b = a /\ act'[a].ops = act[a].ops /\ (act'[a].pc \in PendPcs => act[a].pc \in PendPcs)
    BY <2>1, <2>4 DEF PendOf
  <2> QED  BY <2>2, <2>3, <2>4
<1> QED  BY <1>1 DEF PendMaps

\* And after a step of a job.
LEMMA PendJob ==
  ASSUME ShapeInv, NEW a \in Jobs, Moves(a)
  PROVE  PendMaps
<1>1. ASSUME NEW b \in Tasks
      PROVE  \E k \in {0, 1} : \A i \in PendOf(act'[b]) :
               i \in Nat /\ i + k \in PendOf(act[b]) /\ act'[b].ops[i] = act[b].ops[i + k]
  <2>0. b \in Acts /\ b # a
    BY TasksAssumption, ActsFacts
  <2>1. act[b].ops \in Seq(Ops)
    BY <2>0 DEF ShapeInv, TypesInv, ActRec
  <2>2. act'[b].ops = act[b].ops /\ act'[b].pc = act[b].pc
    BY <2>0 DEF Moves, Stays, Copies
  <2>3. \A i \in PendOf(act'[b]) : i \in Nat /\ i + 0 \in PendOf(act[b]) /\ act'[b].ops[i] = act[b].ops[i + 0]
    BY <2>1, <2>2 DEF PendOf
  <2> QED  BY <2>3
<1> QED  BY <1>1 DEF PendMaps

\* A task changes the note at p: it adds at most its text x, and what is no more there is
\* deleted or replaced, or was crossed or cut off before.
TextStep(a, p, x, xs) ==
  /\ Moves(a) /\ act[a].pc \in {"naming", "applying"} /\ act'[a].pc \in {"listing", "unlisting"}
  /\ act'[a].ops = act[a].ops /\ act[a].path = {p} /\ p \in Paths
  /\ 1 \in DOMAIN act[a].ops /\ x = act[a].ops[1].text
  /\ \A q : q # p => TextsAt(q)' = TextsAt(q)
  /\ TextsAt(p)' \subseteq TextsAt(p) \cup {x}
  /\ written \subseteq written' /\ written' \subseteq written \cup (TextsAt(p)' \cap {x})
  /\ gone \subseteq gone' /\ gone' \subseteq gone \cup TextsAt(p)
  /\ gone' \cap TextsAt(p)' \subseteq gone
  /\ TextsAt(p) \subseteq TextsAt(p)' \cup gone' \cup crossed \cup cut
  /\ cut' = cut
  /\ crossed' = (IF Crossers(a, p) = {} THEN crossed ELSE crossed \cup xs)
  /\ TextsAt(p)' \subseteq TextsAt(p) \cup xs /\ gone' \subseteq gone \cup xs

LEMMA TextsChange ==
  ASSUME ShapeInv, ShapeInv', TextInv, NEW a \in Tasks, NEW p, NEW x, NEW xs, TextStep(a, p, x, xs)
  PROVE  TextInv'
<1>0. /\ a \in Acts /\ p \in Paths /\ Stays("care") /\ \A b \in Tasks \ {a} : Stays(b) /\ b \in Acts
      /\ 1 \in PendOf(act[a]) /\ act[a].ops \in Seq(Ops)
  <2>1. a \in Acts /\ \A b \in Tasks : b \in Acts
    BY ActsFacts
  <2>2. Stays("care") /\ \A b \in Tasks \ {a} : Stays(b)
    BY <2>1, ActsFacts DEF TextStep, Moves
  <2> QED  BY <2>1, <2>2 DEF TextStep, PendOf, PendPcs, ShapeInv, TypesInv, ActRec
<1>1. /\ x \notin gone /\ \A q \in Paths : x \notin TextsAt(q)
      /\ act["care"].pc \in Writing => \A c \in act["care"].seen : x \notin TextsOf(c)
      /\ \A b \in Tasks : \A j \in PendOf(act[b]) : act[b].ops[j].text = x => a = b /\ 1 = j
  BY <1>0 DEF TextStep, TextInv, PendInv
<1>2. crossed \subseteq crossed'
  BY DEF TextStep
<1>3. Kept'
  BY <1>0, <1>2 DEF TextInv, Kept, TextStep
<1>4. NotBack'
  BY <1>0, <1>1, <1>2 DEF TextInv, NotBack, TextStep, Apart
<1>5. Apart'
  BY <1>0, <1>1 DEF TextInv, Apart, TextStep
<1>6. \A b \in Tasks : \A i \in PendOf(act'[b]) : i \in PendOf(act[b]) /\ act'[b].ops[i] = act[b].ops[i] /\ (b = a => i # 1)
  BY <1>0 DEF TextStep, PendPcs, PendOf, Stays, Copies
<1>7. act'["care"].pc = act["care"].pc /\ act'["care"].seen = act["care"].seen /\ act'["care"].path = act["care"].path /\ act'["care"].to = act["care"].to
  BY <1>0 DEF Stays, Copies
<1>8. PendInv'
  <2>1. ASSUME NEW b \in Tasks, NEW i \in PendOf(act'[b])
        PROVE  /\ act'[b].ops[i].text \notin gone'
               /\ \A q \in Paths : act'[b].ops[i].text \notin TextsAt(q)'
               /\ act'["care"].pc \in Writing => \A c \in act'["care"].seen : act'[b].ops[i].text \notin TextsOf(c)
               /\ \A d \in Tasks : \A j \in PendOf(act'[d]) : act'[d].ops[j].text = act'[b].ops[i].text => b = d /\ i = j
    <3>1. PICK t : t = act'[b].ops[i].text
      OBVIOUS
    <3>2. i \in PendOf(act[b]) /\ act[b].ops[i].text = t /\ (b = a => i # 1)
      BY <1>6, <2>1, <3>1
    <3>3. /\ t \notin gone /\ \A q \in Paths : t \notin TextsAt(q)
          /\ act["care"].pc \in Writing => \A c \in act["care"].seen : t \notin TextsOf(c)
          /\ \A d \in Tasks : \A j \in PendOf(act[d]) : act[d].ops[j].text = t => b = d /\ i = j
      BY <3>2 DEF TextInv, PendInv
    <3>4. t # x
      BY <1>1, <3>2
    <3>5. t \notin gone' /\ \A q \in Paths : t \notin TextsAt(q)'
      BY <1>0, <3>3, <3>4 DEF TextStep
    <3>6. \A d \in Tasks : \A j \in PendOf(act'[d]) : act'[d].ops[j].text = t => b = d /\ i = j
      BY <1>6, <3>3
    <3> QED  BY <1>7, <3>1, <3>3, <3>5, <3>6
  <2> QED  BY <2>1 DEF PendInv
<1>9. CareTexts'
  <2>1. ASSUME act'["care"].pc \in Writing, NEW p0 \in act'["care"].path, NEW c \in act'["care"].seen
        PROVE  /\ TextsAt(p0)' \subseteq TextsOf(c) \cup crossed'
               /\ TextsOf(c) \subseteq TextsAt(p0)' \cup crossed' \cup cut'
               /\ TextsOf(c) \cap gone' \subseteq crossed'
               /\ \A q \in Paths \ {p0} : TextsAt(q)' \cap TextsOf(c) = {}
    <3>1. /\ TextsAt(p0) \subseteq TextsOf(c) \cup crossed
          /\ TextsOf(c) \subseteq TextsAt(p0) \cup crossed \cup cut
          /\ TextsOf(c) \cap gone \subseteq crossed
          /\ \A q \in Paths \ {p0} : TextsAt(q) \cap TextsOf(c) = {}
      BY <1>7, <2>1 DEF TextInv, CareTexts
    <3>2. x \notin TextsOf(c)
      BY <1>1, <1>7, <2>1
    <3>3. CASE p0 = p
      BY <1>7, <2>1, <3>3, ActsFacts, <3>1, <1>2 DEF Crossers, Aims, Doing, Writing, TextStep
    <3>4. CASE p0 # p
      BY <3>4, <1>0, <3>1, <1>2, <3>2 DEF TextStep
    <3> QED  BY <3>3, <3>4
  <2> QED  BY <2>1 DEF CareTexts
<1>10. ASSUME NEW b \in Acts \ {a}, NEW q \in Paths, q \in Aims(b), TextsAt(q) \subseteq crossed \cup cut
       PROVE  TextsAt(q)' \subseteq crossed' \cup cut'
  BY <1>10, <1>2 DEF Crossers, TextStep
<1>11. AimTexts'
  <2>1. ASSUME NEW b \in Tasks, act'[b].pc = "naming", NEW q \in act'[b].path
        PROVE  TextsAt(q)' \subseteq crossed' \cup cut'
    <3>1. b # a
      BY <2>1 DEF TextStep
    <3>2. act[b].pc = "naming" /\ q \in act[b].path
      BY <1>0, <2>1, <3>1 DEF Stays, Copies
    <3>3. q \in Paths /\ q \in Aims(b)
      BY <1>0, <3>1, <3>2, ActPaths DEF Aims, Doing
    <3>4. TextsAt(q) \subseteq crossed \cup cut
      BY <3>2 DEF TextInv, AimTexts
    <3> QED  BY <1>0, <1>10, <3>1, <3>3, <3>4
  <2>2. ASSUME act'["care"].pc = "renaming", NEW q \in act'["care"].to
        PROVE  TextsAt(q)' \subseteq crossed' \cup cut'
    BY <1>7, <2>2, ActPaths, ActsFacts, <1>10 DEF Aims, Doing, TextInv, AimTexts
  <2> QED  BY <2>1, <2>2 DEF AimTexts
<1> QED  BY <1>3, <1>4, <1>5, <1>8, <1>9, <1>11 DEF TextInv

\* A promotion writes the texts it has read.
LEMMA TextsWritten ==
  ASSUME ShapeInv, ShapeInv', TextInv, NEW p \in Paths, NEW c,
         act["care"].pc \in Writing, act["care"].path = {p}, act["care"].seen = {c},
         TextsAt(p)' = TextsOf(c), \A q : q # p => TextsAt(q)' = TextsAt(q),
         written' = written, gone' = gone, cut' = cut, crossed' = crossed,
         Moves("care"), act'["care"].pc \notin Writing,
         act'["care"].pc = "renaming" => \A q \in act'["care"].to : q # p /\ TextsAt(q) = {}
  PROVE  TextInv'
<1>1. /\ TextsAt(p) \subseteq TextsOf(c) \cup crossed
      /\ TextsOf(c) \subseteq TextsAt(p) \cup crossed \cup cut
      /\ TextsOf(c) \cap gone \subseteq crossed
      /\ \A q \in Paths \ {p} : TextsAt(q) \cap TextsOf(c) = {}
  BY DEF TextInv, CareTexts
<1>2. Kept' /\ NotBack' /\ Apart'
  BY <1>1 DEF TextInv, Kept, NotBack, Apart
<1>3. \A b \in Tasks : b \in Acts /\ Stays(b)
  BY ActsFacts DEF Moves
<1>4. \A b \in Tasks : act'[b].ops = act[b].ops /\ act'[b].pc = act[b].pc /\ act'[b].path = act[b].path
                       /\ PendOf(act'[b]) = PendOf(act[b])
  BY <1>3 DEF Stays, Copies, PendOf
<1>5. PendInv'
  BY <1>4 DEF TextInv, PendInv
<1>6. CareTexts'
  BY DEF CareTexts
<1>7. AimTexts'
  BY <1>4, <1>1 DEF TextInv, AimTexts
<1> QED  BY <1>2, <1>5, <1>6, <1>7 DEF TextInv

\* A promotion moves a note to a name that was free when it was chosen.
LEMMA TextsMoved ==
  ASSUME ShapeInv, ShapeInv', TextInv, NEW p \in Paths, NEW q \in Paths, p # q,
         act["care"].pc = "renaming", act["care"].to = {q},
         TextsAt(p)' = {}, TextsAt(q)' = TextsAt(p), \A r : r # p /\ r # q => TextsAt(r)' = TextsAt(r),
         written' = written, gone' = gone, cut' = cut,
         crossed' = (IF Crossers("care", q) = {} THEN crossed ELSE crossed \cup TextsAt(p)),
         Moves("care"), act'["care"].pc \in {"idle", "visiting"}
  PROVE  TextInv'
<1>1. TextsAt(q) \subseteq crossed \cup cut
  BY DEF TextInv, AimTexts
<1>2. crossed \subseteq crossed'
  OBVIOUS
<1>3. Kept' /\ NotBack' /\ Apart'
  BY <1>1, <1>2 DEF TextInv, Kept, NotBack, Apart
<1>4. \A b \in Tasks : b \in Acts /\ Stays(b)
  BY ActsFacts DEF Moves
<1>5. \A b \in Tasks : act'[b].ops = act[b].ops /\ act'[b].pc = act[b].pc /\ act'[b].path = act[b].path
                       /\ PendOf(act'[b]) = PendOf(act[b])
  BY <1>4 DEF Stays, Copies, PendOf
<1>6. PendInv'
  BY <1>5 DEF TextInv, PendInv, Writing
<1>7. CareTexts'
  BY DEF CareTexts, Writing
<1>8. AimTexts'
  BY <1>5, <1>4, ActsFacts, <1>2 DEF TextInv, AimTexts, Crossers, Aims, Doing
<1> QED  BY <1>3, <1>6, <1>7, <1>8 DEF TextInv

\* A step of a task that neither changes a note nor is about to.
Quietly(a) == /\ FilesStay
              /\ Rests(a) \/ (Moves(a) /\ act'[a].ops = act[a].ops /\ act'[a].pc \notin PendPcs)

LEMMA EndsQuietly ==
  ASSUME NEW a, FilesStay, Ends(a)
  PROVE  Quietly(a)
BY DEF Ends, Quietly, Turns, PendPcs

LEMMA SubscriberQuiet ==
  ASSUME ShapeInv, NEW a \in Tasks, Subscribers(a)
  PROVE  Quietly(a)
<1>0. AllStay => FilesStay
  BY DEF AllStay
<1>a. GraphStep => FilesStay
  BY DEF GraphStep
<1>1. CASE ReadForIndex(a) \/ ReadForVector(a)
  BY <1>0, <1>1, ReadFacts DEF Steps, Turns, Quietly, PendPcs
<1>2. CASE IndexNote(a)
  BY <1>2, IndexNoteFacts DEF Steps, Turns, Quietly, PendPcs
<1>3. CASE StoreVector(a) \/ EmbedFails(a)
  BY <1>3, EmbedFacts DEF Steps, Turns, Quietly, PendPcs
<1>4. CASE ReadForGraph(a)
  BY <1>0, <1>4, ReadForGraphFacts, EndsQuietly DEF Turns, Quietly, PendPcs
<1>5. CASE Unstate(a)
  BY <1>a, <1>5, UnstateFacts DEF Steps, Turns, Quietly, PendPcs
<1>6. CASE State(a)
  BY <1>a, <1>6, StateFacts DEF Steps, Turns, Quietly, PendPcs
<1>7. CASE Relate(a)
  BY <1>a, <1>7, RelateFacts, EndsQuietly DEF Steps, Turns, Quietly, PendPcs
<1>8. CASE Commit(a)
  BY <1>a, <1>8, CommitFacts, EndsQuietly
<1>9. CASE Unlist(a)
  BY <1>9, UnlistFacts DEF Steps, Turns, Quietly, PendPcs
<1>10. CASE Unembed(a)
  BY <1>10, UnembedFacts DEF Steps, Turns, Quietly, PendPcs
<1>11. CASE Withdraw(a)
  BY <1>a, <1>11, WithdrawFacts, EndsQuietly
<1> QED  BY <1>1, <1>2, <1>3, <1>4, <1>5, <1>6, <1>7, <1>8, <1>9, <1>10, <1>11 DEF Subscribers

LEMMA ScanQuiet ==
  ASSUME ShapeInv, NEW a \in Tasks \cup {"reindex"}, ReadToScan(a) \/ Scan(a) \/ ScanEnds(a)
  PROVE  FilesStay /\ Moves(a) /\ (a \in Tasks => Quietly(a))
BY ReadToScanFacts, ScanFacts, ScanEndsFacts, IdleFacts DEF AllStay, Turns, Quietly, PendPcs, Steps

LEMMA TextsQuiet ==
  ASSUME ShapeInv, ShapeInv', TextInv, NEW a \in Tasks, Quietly(a)
  PROVE  TextInv'
BY PendKept, ActsFacts, TextsStay, TextsShrink DEF Quietly, Rests, Rested, PendPcs, Moves, FilesStay

\* The same of a job other than the promotion.
LEMMA TextsJob ==
  ASSUME ShapeInv, ShapeInv', TextInv, NEW a \in Jobs, Moves(a), FilesStay,
         \/ a # "care"
         \/ act'["care"].pc \notin Writing \cup {"renaming"}
         \/ /\ act'["care"].pc # "renaming"
            /\ \A p \in act'["care"].path : p \in DOMAIN files /\ act'["care"].seen = {files[p]}
  PROVE  TextInv'
<1>1. PendMaps
  BY PendJob
<1>2. \A b \in Tasks : Stays(b)
  BY ActsFacts, TasksAssumption DEF Moves
<1>3. files' = files /\ written' = written /\ gone' = gone /\ cut' = cut /\ crossed' = crossed
  BY DEF FilesStay
<1>4. \A q : TextsAt(q)' = TextsAt(q)
  BY <1>3, TextsStay
<1>5. a # "care" => Stays("care")
  BY ActsFacts DEF Moves
<1>6. ASSUME \A p \in act'["care"].path : p \in DOMAIN files /\ act'["care"].seen = {files[p]}
      PROVE  \A p \in act'["care"].path : p \in Paths /\ \A c \in act'["care"].seen : TextsOf(c) = TextsAt(p)'
  BY <1>4, <1>6, TextsAtFacts, FileFacts DEF ShapeInv
<1> QED  BY <1>1, <1>2, <1>3, <1>4, <1>5, <1>6, TextsShrink

LEMMA TextsWriter ==
  ASSUME ShapeInv, ShapeInv', TextInv, NEW a \in Tasks, Writer(a)
  PROVE  TextInv'
<1>0. a \in Acts /\ act[a].pc # "idle" => 1 \in DOMAIN act[a].ops /\ Op(a) = act[a].ops[1]
  BY OpFacts
<1>a. AllStay => FilesStay
  BY DEF AllStay
<1>b. a \in Acts
  BY ActsFacts
<1>c. \A q : TextsAt(q) \in SUBSET Texts
  BY TextsAtFacts DEF ShapeInv
<1>1. CASE Choose(a)
  <2>1. PICK p \in Paths : p \notin DOMAIN files /\ Turns(a, "naming", {p}, act[a].seen, act[a].todo, act[a].to)
    BY <1>1, ChooseFacts
  <2>2. FilesStay /\ act[a].pc \in {"waiting", "ready"}
    BY <1>1, <1>a, ChooseFacts
  <2>3. Moves(a) /\ act'[a].path = {p} /\ act'[a].ops = act[a].ops
    BY <2>1 DEF Turns
  <2>4. PendMaps
    BY <2>2, <2>3, PendKept DEF PendPcs
  <2>5. Stays("care") /\ \A b \in Tasks \ {a} : Stays(b)
    BY <2>3, ActsFacts DEF Moves
  <2>6. \A q : TextsAt(q)' = TextsAt(q)
    BY <2>2, TextsStay DEF FilesStay
  <2>7. TextsAt(p) = {}
    BY <2>1, TextsAtFacts DEF ShapeInv
  <2>8. \A b \in Tasks : act'[b].pc = "naming" => Stays(b) \/ \A q \in act'[b].path : TextsAt(q)' = {}
    BY <2>3, <2>5, <2>6, <2>7
  <2>9. written' = written /\ gone' = gone /\ cut' = cut /\ crossed' = crossed
    BY <2>2 DEF FilesStay
  <2> QED  BY <2>4, <2>5, <2>6, <2>8, <2>9, TextsShrink
<1>2. CASE Create(a)
  <2>1. PICK p, x, n : Created(a, p, x, n)
    BY <1>2, CreateFacts
  <2>2. act[a].pc = "naming" /\ act[a].path = {p} /\ x = act[a].ops[1].text /\ 1 \in DOMAIN act[a].ops /\ p \in Paths
    BY <1>0, <1>b, <2>1 DEF Created
  <2>3. TextsAt(p)' = {x} /\ \A q : q # p => TextsAt(q)' = TextsAt(q)
    BY <2>1, TextsPut DEF Created
  <2>4. TextsAt(p) \subseteq crossed \cup cut
    BY <2>2 DEF TextInv, AimTexts
  <2>5. /\ written' = written \cup {x} /\ gone' = gone /\ cut' = cut
        /\ crossed' = IF Crossers(a, p) = {} THEN crossed ELSE crossed \cup {x}
        /\ Moves(a) /\ act'[a].pc = "listing" /\ act'[a].ops = act[a].ops
    BY <2>1 DEF Created, Changes, Crosses, Steps, Turns
  <2>6. x \notin gone
    BY <2>2 DEF PendOf, PendPcs, TextInv, PendInv
  <2>7. TextStep(a, p, x, {x})
    BY <2>2, <2>3, <2>4, <2>5, <2>6 DEF TextStep
  <2> QED  BY <2>7, TextsChange
<1>3. CASE Find(a)
  <2>1. FilesStay /\ act[a].pc \in {"waiting", "ready"}
    BY <1>3, <1>a, FindFacts
  <2>2. CASE Rests(a)
    BY <2>1, <2>2, TextsQuiet DEF Quietly
  <2>3. ASSUME NEW p, NEW c, Turns(a, "applying", {p}, {c}, act[a].todo, act[a].to)
        PROVE  TextInv'
    BY <2>3, <2>1, PendKept, ActsFacts, TextsStay, TextsShrink DEF Turns, PendPcs, Moves, FilesStay
  <2> QED  BY <1>3, <2>2, <2>3, FindFacts
<1>4. ASSUME NEW p, Applies(a, p)
      PROVE  /\ p \in Paths /\ act[a].path = {p} /\ 1 \in DOMAIN act[a].ops /\ Op(a) = act[a].ops[1]
             /\ Op(a).text \notin gone /\ Op(a).text \notin TextsAt(p)
  BY <1>4, <1>0, <1>b DEF Applies, PendOf, PendPcs, TextInv, PendInv
<1>5. CASE Replace(a)
  <2>1. PICK p, x, n : Replaced(a, p, x, n)
    BY <1>5, ReplaceFacts
  <2>2. /\ Applies(a, p) /\ x = Op(a).text /\ act[a].pc = "applying"
        /\ written' = written \cup {x} /\ gone' = gone \cup TextsAt(p) /\ cut' = cut
        /\ crossed' = IF Crossers(a, p) = {} THEN crossed ELSE crossed \cup ({x} \cup TextsAt(p))
        /\ Moves(a) /\ act'[a].pc = "listing" /\ act'[a].ops = act[a].ops
    BY <2>1 DEF Replaced, Applies, Changes, Crosses, Steps, Turns
  <2>3. TextsAt(p)' = {x} /\ \A q : q # p => TextsAt(q)' = TextsAt(q)
    BY <2>1, TextsPut DEF Replaced
  <2>4. TextStep(a, p, x, {x} \cup TextsAt(p))
    BY <1>4, <2>2, <2>3 DEF TextStep
  <2> QED  BY <2>4, TextsChange
<1>6. CASE AppendText(a)
  <2>1. PICK p, x, n : Extended(a, p, x, n)
    BY <1>6, AppendFacts
  <2>2. /\ Applies(a, p) /\ x = Op(a).text /\ act[a].pc = "applying"
        /\ written' = written \cup {x} /\ gone' = gone /\ cut' = cut
        /\ crossed' = IF Crossers(a, p) = {} THEN crossed ELSE crossed \cup {x}
        /\ Moves(a) /\ act'[a].pc = "listing" /\ act'[a].ops = act[a].ops
    BY <2>1 DEF Extended, Applies, Changes, Crosses, Steps, Turns
  <2>3. TextsAt(p)' = TextsAt(p) \cup {x} /\ \A q : q # p => TextsAt(q)' = TextsAt(q)
    BY <2>1, TextsPut DEF Extended
  <2>4. TextStep(a, p, x, {x})
    BY <1>4, <2>2, <2>3 DEF TextStep
  <2> QED  BY <2>4, TextsChange
<1>7. CASE Delete(a)
  <2>1. ASSUME NEW p, Removed(a, p) PROVE TextInv'
    <3>1. /\ Applies(a, p) /\ act[a].pc = "applying"
          /\ written' = written /\ gone' = gone \cup TextsAt(p) /\ cut' = cut
          /\ crossed' = IF Crossers(a, p) = {} THEN crossed ELSE crossed \cup TextsAt(p)
          /\ Moves(a) /\ act'[a].pc = "unlisting" /\ act'[a].ops = act[a].ops
      BY <2>1 DEF Removed, Applies, Changes, Crosses, Steps, Turns
    <3>2. TextsAt(p)' = {} /\ \A q : q # p => TextsAt(q)' = TextsAt(q)
      BY <2>1, TextsDrop DEF Removed
    <3>3. TextStep(a, p, Op(a).text, TextsAt(p))
      BY <1>4, <3>1, <3>2 DEF TextStep
    <3> QED  BY <3>3, TextsChange
  <2>2. CASE AllStay /\ Rests(a)
    BY <1>a, <2>2, TextsQuiet DEF Quietly
  <2> QED  BY <1>7, <2>1, <2>2, DeleteFacts
<1>8. CASE Stub(a)
  <2>1. PICK e, n : Stubbed(a, e, n)
    BY <1>8, StubFacts
  <2>2. /\ written' = written /\ gone' = gone /\ cut' = cut \cup (TextsAt(e) \ TextsOf(n)) /\ crossed' = crossed
        /\ TextsOf(n) \subseteq TextsAt(e)
    BY <2>1 DEF Stubbed, Crosses
  <2>3. TextsAt(e)' = TextsOf(n) /\ \A q : q # e => TextsAt(q)' = TextsAt(q)
    BY <2>1, TextsPut DEF Stubbed
  <2>4. act'[a].pc # "naming" /\ Moves(a) /\ PendMaps
    BY PendKept, <2>1 DEF Rests, Rested, Turns, PendPcs, Stubbed
  <2>5. Stays("care") /\ \A b \in Tasks : act'[b].pc = "naming" => Stays(b)
    BY <2>4, ActsFacts DEF Moves
  <2>6. \A q \in Paths : TextsAt(q)' \subseteq TextsAt(q) /\ TextsAt(q) \subseteq TextsAt(q)' \cup cut'
    BY <2>2, <2>3
  <2> QED  BY <2>2, <2>4, <2>5, <2>6, TextsShrink
<1> QED  BY <1>1, <1>2, <1>3, <1>5, <1>6, <1>7, <1>8 DEF Writer

LEMMA TextsCare ==
  ASSUME ShapeInv, ShapeInv', TextInv, Care
  PROVE  TextInv'
<1>0. AllStay => FilesStay
  BY DEF AllStay
<1>a. "care" \in Jobs
  BY DEF Jobs
<1>b. Wanders => Moves("care") /\ act'["care"].pc \notin Writing \cup {"renaming"} /\ act'["care"].pc \in {"idle", "visiting"}
  BY DEF Wanders, Writing
<1>1. ASSUME FilesStay, Wanders PROVE TextInv'
  BY <1>a, <1>b, <1>1, TextsJob
<1>2. CASE StartCare
  BY <1>0, <1>1, <1>2, StartCareFacts
<1>3. CASE PromotionFails
  BY <1>0, <1>1, <1>3, PromotionFailsFacts
<1>4. CASE Visit
  BY <1>0, <1>4, <1>a, VisitFacts, TextsJob, <1>1 DEF Picked, Writing
<1>5. CASE ReadStatus \/ ReadField
  BY <1>5, CareReadFacts, <1>0, <1>a, TextsJob DEF Turns
<1>6. CASE WriteStatus
  <2>1. PICK p, c, n : StatusWritten(p, c, n)
    BY <1>6, WriteStatusFacts
  <2>2. /\ p \in Paths /\ act["care"].path = {p} /\ act["care"].seen = {c} /\ act["care"].pc \in Writing
        /\ Moves("care") /\ act'["care"].pc \notin Writing \cup {"renaming"}
        /\ written' = written /\ gone' = gone /\ cut' = cut /\ crossed' = crossed /\ astray' = astray
    BY <2>1 DEF StatusWritten, Processes, Steps, Turns, Writing
  <2>3. CASE files' = files
    BY <1>a, <2>2, <2>3, TextsJob DEF FilesStay
  <2>4. CASE files' = Put(files, p, n) /\ TextsOf(n) = TextsOf(c)
    BY <2>4, TextsPut, <2>2, TextsWritten
  <2> QED  BY <2>1, <2>3, <2>4 DEF StatusWritten
<1>7. CASE WriteField
  <2>1. PICK p, c, n, goal : FieldWritten(p, c, n, goal)
    BY <1>7, WriteFieldFacts
  <2>2. /\ p \in Paths /\ act["care"].path = {p} /\ act["care"].seen = {c} /\ act["care"].pc \in Writing
        /\ written' = written /\ gone' = gone /\ cut' = cut /\ crossed' = crossed
        /\ files' = Put(files, p, n) /\ TextsOf(n) = TextsOf(c)
    BY <2>1 DEF FieldWritten, Processes, Writing
  <2>3. TextsAt(p)' = TextsOf(c) /\ \A q : q # p => TextsAt(q)' = TextsAt(q)
    BY <2>2, TextsPut
  <2>4. CASE Wanders
    BY <1>b, <2>2, <2>3, <2>4, TextsWritten
  <2>5. ASSUME NEW q \in Paths, q \notin DOMAIN files, Dir(q) # Dir(p),
               Turns("care", "renaming", {p}, {c}, act["care"].todo, {q})
        PROVE  TextInv'
    BY <2>5, TextsAtFacts, <2>2, <2>3, TextsWritten DEF ShapeInv, Turns, Writing
  <2> QED  BY <2>1, <2>4, <2>5 DEF FieldWritten
<1>8. CASE Rename
  BY <1>8, RenameFacts, TextsMove, <1>b, TextsMoved DEF Renamed
<1> QED  BY <1>2, <1>3, <1>4, <1>5, <1>6, <1>7, <1>8 DEF Care

LEMMA TextsCrash ==
  ASSUME ShapeInv, ShapeInv', TextInv, Crash
  PROVE  TextInv'
<1>1. Crashed
  BY CrashFacts
<1>2. PendMaps
  <2>1. ASSUME NEW b \in Tasks
        PROVE  \A i \in PendOf(act'[b]) : i \in Nat /\ i + 0 \in PendOf(act[b]) /\ act'[b].ops[i] = act[b].ops[i + 0]
    <3>1. CASE act[b].pc = "waiting"
      BY <1>1, <3>1, ActsFacts DEF Crashed, ShapeInv, TypesInv, ActRec, PendOf
    <3>2. CASE act[b].pc # "waiting"
      BY <1>1, <3>2, IdleFacts DEF Crashed, PendOf
    <3> QED  BY <3>1, <3>2
  <2> QED  BY <2>1 DEF PendMaps
<1>3. act'["care"].pc = "idle"
  BY <1>1, IdleFacts DEF Crashed
<1>4. \A a \in Tasks : act'[a].pc # "naming"
  BY <1>1, IdleFacts DEF Crashed
<1>5. files' = files /\ written' = written /\ gone' = gone /\ cut' = cut /\ crossed' = crossed
  BY <1>1 DEF Crashed
<1>6. \A q : TextsAt(q)' = TextsAt(q)
  BY <1>5, TextsStay
<1> QED  BY <1>2, <1>3, <1>4, <1>5, <1>6, TextsShrink DEF Writing

\* Nothing happens to the notes and the activities.
LEMMA TextsSame ==
  ASSUME TextInv, files' = files, act' = act, written' = written, gone' = gone, cut' = cut, crossed' = crossed
  PROVE  TextInv'
<1>1. \A q : TextsAt(q)' = TextsAt(q)
  BY TextsStay
<1>2. Kept' /\ NotBack' /\ Apart'
  BY <1>1 DEF TextInv, Kept, NotBack, Apart
<1>3. PendInv'
  BY <1>1 DEF TextInv, PendInv
<1>4. CareTexts'
  BY <1>1 DEF TextInv, CareTexts
<1>5. AimTexts'
  BY <1>1 DEF TextInv, AimTexts
<1> QED  BY <1>2, <1>3, <1>4, <1>5 DEF TextInv

LEMMA TextsNext ==
  ASSUME ShapeInv, ShapeInv', OldFound, TextInv, GardenNext
  PROVE  TextInv'
<1>0. AllStay => FilesStay
  BY DEF AllStay
<1>1. CASE Care
  BY <1>1, TextsCare
<1>2. CASE EdgeLife
  BY <1>2, EdgeLifeFacts, TextsJob DEF EdgeStep, Jobs
<1>3. CASE MonthsPass
  BY <1>3, MonthsPassFacts, TextsSame DEF FilesStay
<1>4. CASE Crash
  BY <1>4, TextsCrash
<1>5. CASE ReadToRebuild \/ RebuildNote \/ RebuildFails \/ RebuildEnds
  <2>1. Moves("rebuild")
    BY <1>5, RebuildMoves
  <2>2. FilesStay
    BY <1>0, <1>5, ReadToRebuildFacts, RebuildNoteFacts, RebuildFailsFacts, RebuildEndsFacts DEF RebuiltOne, RebuildFailed
  <2> QED  BY <2>1, <2>2, TextsJob DEF Jobs
<1>6. ASSUME NEW a \in Tasks \cup {"reindex"}, ReadToScan(a) \/ Scan(a) \/ ScanEnds(a)
      PROVE  TextInv'
  BY <1>6, ScanQuiet, TextsQuiet, TextsJob DEF Jobs
<1>7. ASSUME NEW a \in Tasks, Writer(a)
      PROVE  TextInv'
  BY <1>7, TextsWriter
<1>8. ASSUME NEW a \in Tasks, Subscribers(a)
      PROVE  TextInv'
  BY <1>8, SubscriberQuiet, TextsQuiet
<1> QED  BY <1>1, <1>2, <1>3, <1>4, <1>5, <1>6, <1>7, <1>8 DEF GardenNext, Start

-----------------------------------------------------------------------------
LEMMA TextsFirst ==
  ASSUME GardenInit, ShapeInv
  PROVE  TextInv
<1>1. PICK f \in FirstNotes : files = f
  BY DEF GardenInit
<1>2. load \in Workloads
  BY DEF GardenInit
<1>3. written = UNION {TextsOf(files[p]) : p \in DOMAIN files} /\ gone = {} /\ cut = {} /\ crossed = {}
  BY DEF GardenInit
<1>4. /\ DOMAIN f \subseteq Paths
      /\ \A p \in DOMAIN f :
           /\ \A q \in DOMAIN f : TextsOf(f[p]) \cap TextsOf(f[q]) # {} => p = q
           /\ \A w \in Workloads : \A a \in Tasks : \A i \in DOMAIN w.asks[a] : w.asks[a][i].text \notin TextsOf(f[p])
  BY <1>1, FirstNotesAssumption
<1>5. \A q : TextsAt(q) = IF q \in DOMAIN files THEN TextsOf(files[q]) ELSE {}
  BY DEF TextsAt, NotesAt
<1>6. \A a \in Tasks : act[a] = IF load.asks[a] # <<>> THEN [Idle EXCEPT !.pc = "waiting", !.ops = load.asks[a]] ELSE Idle
  BY ActsFacts DEF GardenInit
<1>7. act["care"] = Idle
  BY ActsFacts, TasksAssumption DEF GardenInit, Jobs
<1>8. \A a \in Tasks : act[a].pc # "naming" /\ \A i \in PendOf(act[a]) : i \in DOMAIN load.asks[a] /\ act[a].ops[i] = load.asks[a][i]
  BY <1>6, IdleFacts DEF Idle, PendOf
<1>9. Kept
  BY <1>1, <1>3, <1>4, <1>5 DEF Kept
<1>10. NotBack
  BY <1>3 DEF NotBack
<1>11. Apart
  BY <1>1, <1>4, <1>5 DEF Apart
<1>12. PendInv
  <2>1. ASSUME NEW a \in Tasks, NEW i \in PendOf(act[a])
        PROVE  /\ act[a].ops[i].text \notin gone
               /\ \A p \in Paths : act[a].ops[i].text \notin TextsAt(p)
               /\ act["care"].pc \notin Writing
               /\ \A b \in Tasks : \A j \in PendOf(act[b]) : act[b].ops[j].text = act[a].ops[i].text => a = b /\ i = j
    <3>1. i \in DOMAIN load.asks[a] /\ act[a].ops[i].text = load.asks[a][i].text
      BY <1>8
    <3>2. \A p \in DOMAIN f : act[a].ops[i].text \notin TextsOf(f[p])
      BY <1>2, <1>4, <3>1
    <3>3. ASSUME NEW b \in Tasks, NEW j \in PendOf(act[b]), act[b].ops[j].text = act[a].ops[i].text
          PROVE  a = b /\ i = j
      BY <1>8, <3>1, <3>3, WorkloadsAssumption, <1>2
    <3> QED  BY <1>1, <1>3, <1>5, <1>7, <3>2, <3>3, IdleFacts DEF Writing
  <2> QED  BY <2>1 DEF PendInv
<1>13. CareTexts
  BY <1>7, IdleFacts DEF CareTexts, Writing
<1>14. AimTexts
  BY <1>7, <1>8, IdleFacts DEF AimTexts
<1> QED  BY <1>9, <1>10, <1>11, <1>12, <1>13, <1>14 DEF TextInv

LEMMA TextsSafe ==
  ASSUME ShapeInv, TextInv
  PROVE  TextsKept /\ GoneStaysGone
<1>1. DOMAIN files \subseteq Paths
  BY FileFacts DEF ShapeInv
<1>2. \A q : TextsAt(q) = IF q \in DOMAIN files THEN TextsOf(files[q]) ELSE {}
  BY DEF TextsAt, NotesAt
<1>3. \A x : x \in Present <=> \E p \in Paths : x \in TextsAt(p)
  BY <1>1, <1>2 DEF Present
<1> QED  BY <1>3 DEF TextInv, Kept, NotBack, TextsKept, GoneStaysGone

-----------------------------------------------------------------------------
\* Folders and what the frontmatter says of them.

Moving(p) == act["care"].pc = "renaming" /\ p \in act["care"].path
AtHome(p, c) == p \in astray \/ InItsFolder(p, c) \/ Moving(p)
\* A note lies where it says, or is on its way there; and so will one that a request has read.
HomeInv == \A p \in DOMAIN files : AtHome(p, files[p])
ReplaceInv == \A a \in Tasks : act[a].pc = "applying" => \A p \in act[a].path : \A c \in act[a].seen : AtHome(p, c)
\* A promotion takes a note with a status for what its folder says.
StillWas(p, c) == c.status # "none" => act["care"].was = Dir(p)
WasInv ==
  act["care"].pc \in Promoting \ {"renaming"} => \A p \in act["care"].path \ astray : Dir(p) \in Folders =>
    /\ p \in DOMAIN files => StillWas(p, files[p])
    /\ act["care"].pc \in Writing => \A c \in act["care"].seen : InItsFolder(p, c) /\ StillWas(p, c)
MoveInv ==
  act["care"].pc = "renaming" => \A p \in act["care"].path :
    /\ p \notin DOMAIN files => p \in astray
    /\ \A q \in act["care"].to \ astray : p \in DOMAIN files /\ InItsFolder(q, files[p])
FolderInv == HomeInv /\ ReplaceInv /\ WasInv /\ MoveInv

LEMMA FolderQuiet ==
  ASSUME FolderInv, NEW a \in Acts, a # "care", Moves(a), FilesStay, a \in Tasks => act'[a].pc # "applying"
  PROVE  FolderInv'
<1>1. Stays("care") /\ \A b \in Tasks : act'[b].pc = "applying" => Stays(b)
  BY ActsFacts DEF Moves
<1>2. files' = files /\ astray' = astray
  BY DEF FilesStay
<1>3. \A p : Moving(p)' <=> Moving(p)
  BY <1>1 DEF Moving, Stays, Copies
<1>4. HomeInv'
  BY <1>2, <1>3 DEF FolderInv, HomeInv, AtHome
<1>5. ReplaceInv'
  BY <1>1, <1>2, <1>3 DEF FolderInv, ReplaceInv, Stays, Copies, AtHome
<1>6. WasInv'
  BY <1>1, <1>2 DEF FolderInv, WasInv, StillWas, Stays, Copies
<1>7. MoveInv'
  BY <1>1, <1>2 DEF FolderInv, MoveInv, Stays, Copies
<1> QED  BY <1>4, <1>5, <1>6, <1>7 DEF FolderInv

\* A task changes note p.
LEMMA FolderChange ==
  ASSUME FolderInv, NEW a \in Tasks, NEW p, NEW xs, Moves(a), act'[a].pc # "applying", Crosses(a, p, xs),
         p \in DOMAIN files' => AtHome(p, files'[p]),
         DOMAIN files' \ {p} = DOMAIN files \ {p}, \A q \in DOMAIN files \ {p} : files'[q] = files[q]
  PROVE  FolderInv'
<1>1. Stays("care") /\ \A b \in Tasks : act'[b].pc = "applying" => Stays(b)
  BY ActsFacts DEF Moves
<1>2. astray \subseteq astray' /\ (Strays(p) => p \in astray' /\ act["care"].to \subseteq astray')
  BY DEF Crosses
<1>3. \A q : Moving(q)' <=> Moving(q)
  BY <1>1 DEF Moving, Stays, Copies
<1>4. \A q, c : AtHome(q, c) => (q \in astray' \/ InItsFolder(q, c) \/ Moving(q)')
  BY <1>2, <1>3 DEF AtHome
<1>5. HomeInv'
  BY <1>4 DEF FolderInv, HomeInv, AtHome
<1>6. ReplaceInv'
  BY <1>1, <1>4 DEF FolderInv, ReplaceInv, Stays, Copies, AtHome
<1>7. WasInv'
  <2>1. ASSUME act["care"].pc \in Promoting \ {"renaming"}, NEW q \in act["care"].path \ astray', Dir(q) \in Folders
        PROVE  /\ q \in DOMAIN files' => StillWas(q, files'[q])
               /\ act["care"].pc \in Writing => \A c \in act["care"].seen : InItsFolder(q, c) /\ StillWas(q, c)
    BY <1>2, <2>1 DEF FolderInv, WasInv, Strays, Doing, StillWas
  <2> QED  BY <1>1, <2>1 DEF WasInv, StillWas, Stays, Copies
<1>8. MoveInv'
  <2>1. ASSUME act["care"].pc = "renaming", NEW q \in act["care"].path
        PROVE  /\ q \notin DOMAIN files' => q \in astray'
               /\ \A r \in act["care"].to \ astray' : q \in DOMAIN files' /\ InItsFolder(r, files'[q])
    BY <2>1, <1>2 DEF Strays, Aims, Doing, FolderInv, MoveInv
  <2> QED  BY <1>1, <2>1 DEF MoveInv, Stays, Copies
<1> QED  BY <1>5, <1>6, <1>7, <1>8 DEF FolderInv

LEMMA FolderWriter ==
  ASSUME ShapeInv, FolderInv, NEW a \in Tasks, Writer(a)
  PROVE  FolderInv'
<1>0. a \in Acts /\ a # "care"
  BY ActsFacts
<1>a. AllStay => FilesStay
  BY DEF AllStay
<1>b. ASSUME NEW p, NEW n, NEW xs, files' = Put(files, p, n), Moves(a), act'[a].pc # "applying",
             Crosses(a, p, xs), AtHome(p, n)
      PROVE  FolderInv'
  BY <1>b, FolderChange DEF Put
<1>c. \A p, c, n : AtHome(p, c) /\ n.status = c.status /\ n.maturity = c.maturity => AtHome(p, n)
  BY DEF AtHome, InItsFolder
<1>d. \A p, n : n.status = "none" => AtHome(p, n)
  BY DEF AtHome, InItsFolder
<1>1. CASE Choose(a)
  BY <1>1, ChooseFacts, <1>0, <1>a, FolderQuiet DEF Turns
<1>2. CASE Create(a)
  <2>1. PICK p, x, n : Created(a, p, x, n)
    BY <1>2, CreateFacts
  <2> QED  BY <1>b, <2>1 DEF Created, Changes, Steps, Turns, AtHome
<1>3. CASE Find(a)
  <2>1. FilesStay
    BY <1>3, <1>a, FindFacts
  <2>2. CASE Rests(a)
    BY <1>0, <2>1, <2>2, FolderQuiet DEF Rests, Rested
  <2>3. ASSUME NEW p \in DOMAIN files, NEW c \in {files[p], Blank}, Turns(a, "applying", {p}, {c}, act[a].todo, act[a].to)
        PROVE  FolderInv'
    <3>1. AtHome(p, c)
      BY <1>d, <2>3 DEF FolderInv, HomeInv, Blank
    <3>2. Moves(a) /\ act'[a].path = {p} /\ act'[a].seen = {c}
      BY <2>3 DEF Turns
    <3>3. Stays("care") /\ \A b \in Tasks \ {a} : Stays(b)
      BY <1>0, <3>2, ActsFacts DEF Moves
    <3>4. files' = files /\ astray' = astray
      BY <2>1 DEF FilesStay
    <3>5. \A q : Moving(q)' <=> Moving(q)
      BY <3>3 DEF Moving, Stays, Copies
    <3>6. HomeInv'
      BY <3>4, <3>5 DEF FolderInv, HomeInv, AtHome
    <3>7. ReplaceInv'
      BY <3>1, <3>2, <3>3, <3>4, <3>5 DEF FolderInv, ReplaceInv, Stays, Copies, AtHome
    <3>8. WasInv'
      BY <3>3, <3>4 DEF FolderInv, WasInv, StillWas, Stays, Copies
    <3>9. MoveInv'
      BY <3>3, <3>4 DEF FolderInv, MoveInv, Stays, Copies
    <3> QED  BY <3>6, <3>7, <3>8, <3>9 DEF FolderInv
  <2> QED  BY <1>3, <2>2, <2>3, FindFacts
<1>4. CASE Replace(a)
  <2>1. PICK p, x, n : Replaced(a, p, x, n)
    BY <1>4, ReplaceFacts
  <2>2. AtHome(p, Seen(a))
    BY <2>1 DEF Replaced, Applies, FolderInv, ReplaceInv
  <2>3. AtHome(p, n)
    BY <1>c, <2>1, <2>2 DEF Replaced
  <2> QED  BY <1>b, <2>1, <2>3 DEF Replaced, Changes, Steps, Turns
<1>5. CASE AppendText(a)
  <2>1. PICK p, x, n : Extended(a, p, x, n)
    BY <1>5, AppendFacts
  <2>2. AtHome(p, Before(p))
    BY <1>d DEF Before, Blank, FolderInv, HomeInv
  <2>3. AtHome(p, n)
    BY <1>c, <2>1, <2>2 DEF Extended
  <2> QED  BY <1>b, <2>1, <2>3 DEF Extended, Changes, Steps, Turns
<1>6. CASE Delete(a)
  <2>1. ASSUME NEW p, Removed(a, p) PROVE FolderInv'
    <3>1. DOMAIN files' = DOMAIN files \ {p} /\ \A q \in DOMAIN files \ {p} : files'[q] = files[q]
      BY <2>1, DropFacts DEF Removed
    <3>2. Moves(a) /\ act'[a].pc # "applying" /\ Crosses(a, p, TextsAt(p))
      BY <2>1 DEF Removed, Changes, Steps, Turns
    <3> QED  BY <3>1, <3>2, FolderChange
  <2>2. CASE AllStay /\ Rests(a)
    BY <1>0, <1>a, <2>2, FolderQuiet DEF Rests, Rested
  <2> QED  BY <1>6, <2>1, <2>2, DeleteFacts
<1>7. CASE Stub(a)
  <2>1. PICK e, n : Stubbed(a, e, n)
    BY <1>7, StubFacts
  <2>2. AtHome(e, n)
    BY <1>c, <1>d, <2>1 DEF Stubbed, FolderInv, HomeInv
  <2>3. Moves(a) /\ act'[a].pc # "applying"
    BY <2>1 DEF Stubbed, Rests, Rested, Turns
  <2> QED  BY <1>b, <2>1, <2>2, <2>3 DEF Stubbed
<1> QED  BY <1>1, <1>2, <1>3, <1>4, <1>5, <1>6, <1>7 DEF Writer

\* A step of the promotion in which no note moves, before or after.
LEMMA FolderStill ==
  ASSUME FolderInv, Moves("care"), act["care"].pc # "renaming", act'["care"].pc # "renaming",
         astray' = astray,
         \A p \in DOMAIN files' : p \in astray \/ InItsFolder(p, files'[p]),
         WasInv'
  PROVE  FolderInv'
<1>1. \A b \in Tasks : Stays(b)
  BY ActsFacts DEF Moves
<1>2. HomeInv'
  BY DEF HomeInv, AtHome
<1>3. ReplaceInv'
  BY <1>1 DEF FolderInv, ReplaceInv, AtHome, Moving, Stays, Copies
<1>4. MoveInv'
  BY DEF MoveInv
<1> QED  BY <1>2, <1>3, <1>4 DEF FolderInv

LEMMA FolderCare ==
  ASSUME ShapeInv, FolderInv, Care
  PROVE  FolderInv'
<1>0. AllStay => files' = files /\ astray' = astray
  BY DEF AllStay, FilesStay
<1>a. act["care"].pc # "renaming" => \A p \in DOMAIN files : p \in astray \/ InItsFolder(p, files[p])
  BY DEF FolderInv, HomeInv, AtHome, Moving
<1>b. Wanders => Moves("care") /\ act'["care"].pc \notin Promoting /\ act'["care"].pc # "renaming"
  BY DEF Wanders, Promoting
<1>c. Wanders => WasInv'
  BY <1>b DEF WasInv
<1>1. CASE StartCare
  <2>1. act["care"].pc # "renaming"
    BY <1>1, IdleFacts DEF StartCare
  <2> QED  BY <1>0, <1>1, <1>a, <1>b, <1>c, <2>1, StartCareFacts, FolderStill
<1>2. CASE Visit
  <2>0. act["care"].pc = "visiting" /\ AllStay
    BY <1>2, VisitFacts
  <2>1. CASE Wanders
    BY <1>0, <1>a, <1>b, <1>c, <2>0, <2>1, FolderStill
  <2>2. ASSUME NEW p, NEW goal, NEW was, Picked(p, goal, was) PROVE FolderInv'
    <3>1. /\ Moves("care") /\ act'["care"].pc = "status" /\ act'["care"].path = {p} /\ act'["care"].was = Matured(files[p])
          /\ p \in DOMAIN files
      BY <2>2 DEF Picked
    <3>2. ASSUME p \notin astray, Dir(p) \in Folders, files[p].status # "none"
          PROVE  Matured(files[p]) = Dir(p)
      BY <1>a, <2>0, <3>1, <3>2 DEF InItsFolder, Folders, Maturities, Matured
    <3>3. WasInv'
      BY <1>0, <2>0, <3>1, <3>2 DEF WasInv, StillWas, Writing
    <3> QED  BY <1>0, <1>a, <2>0, <3>1, <3>3, FolderStill
  <2> QED  BY <1>2, <2>1, <2>2, VisitFacts
<1>3. CASE ReadStatus \/ ReadField
  BY <1>3, CareReadFacts, <1>0, <1>a, FolderStill DEF Turns, FolderInv, WasInv, Promoting, StillWas
<1>4. ASSUME act["care"].pc \in Writing, NEW p, act["care"].path = {p}, NEW c, act["care"].seen = {c}
      PROVE  p \notin astray /\ Dir(p) \in Folders =>
               StillWas(p, c) /\ InItsFolder(p, c) /\ (p \in DOMAIN files => StillWas(p, files[p]))
  BY <1>4 DEF FolderInv, WasInv, Writing, Promoting
<1>5. CASE WriteStatus
  <2>1. PICK p, c, n : StatusWritten(p, c, n)
    BY <1>5, WriteStatusFacts
  <2>2. /\ act["care"].path = {p} /\ act["care"].seen = {c} /\ act["care"].pc = "statusWrite" /\ act["care"].pc \in Writing
        /\ Moves("care") /\ act'["care"].pc = "field" /\ act'["care"].path = {p} /\ act'["care"].was = act["care"].was
        /\ astray' = astray
    BY <2>1 DEF StatusWritten, Processes, Steps, Turns, Writing
  <2>3. p \notin astray /\ Dir(p) \in Folders =>
          StillWas(p, c) /\ InItsFolder(p, c) /\ (p \in DOMAIN files => StillWas(p, files[p]))
    BY <1>4, <2>2
  <2>4. CASE files' = files
    BY <2>2, <2>3, <2>4, <1>a, FolderStill DEF WasInv, StillWas, Writing
  <2>5. CASE files' = Put(files, p, n) /\ c.status # "none" /\ n.maturity = c.maturity
    BY <2>5, <2>3, <2>2, <1>a, FolderStill DEF Put, InItsFolder, WasInv, StillWas, Writing
  <2> QED  BY <2>1, <2>4, <2>5 DEF StatusWritten
<1>6. CASE WriteField
  <2>1. PICK p, c, n, goal : FieldWritten(p, c, n, goal)
    BY <1>6, WriteFieldFacts
  <2>2. /\ act["care"].path = {p} /\ act["care"].seen = {c} /\ act["care"].pc = "fieldWrite" /\ act["care"].pc \in Writing
        /\ astray' = astray /\ files' = Put(files, p, n) /\ n.maturity = goal /\ n.status = c.status
    BY <2>1 DEF FieldWritten, Processes, Writing
  <2>3. p \notin astray /\ Dir(p) \in Folders => StillWas(p, c)
    BY <1>4, <2>2
  <2>4. DOMAIN files' = DOMAIN files \cup {p} /\ files'[p] = n /\ \A q \in DOMAIN files \ {p} : files'[q] = files[q]
    BY <2>2 DEF Put
  <2>5. CASE (goal = act["care"].was \/ goal = Dir(p)) /\ Wanders
    <3>1. p \in astray \/ InItsFolder(p, n)
      BY <2>2, <2>3, <2>5 DEF InItsFolder, StillWas
    <3> QED  BY <1>a, <1>b, <1>c, <2>2, <2>4, <2>5, <3>1, FolderStill
  <2>6. ASSUME NEW q, Dir(q) = goal, Turns("care", "renaming", {p}, {c}, act["care"].todo, {q})
        PROVE  FolderInv'
    <3>1. Moves("care") /\ act'["care"].pc = "renaming" /\ act'["care"].path = {p} /\ act'["care"].to = {q}
      BY <2>6 DEF Turns
    <3>2. \A b \in Tasks : Stays(b)
      BY <3>1, ActsFacts DEF Moves
    <3>3. HomeInv'
      BY <1>a, <2>2, <2>4, <3>1 DEF HomeInv, AtHome, Moving
    <3>4. ReplaceInv'
      BY <2>2, <3>2 DEF FolderInv, ReplaceInv, AtHome, Moving, Stays, Copies
    <3>5. WasInv'
      BY <3>1 DEF WasInv
    <3>6. MoveInv'
      BY <2>2, <2>4, <2>6, <3>1 DEF MoveInv, InItsFolder
    <3> QED  BY <3>3, <3>4, <3>5, <3>6 DEF FolderInv
  <2> QED  BY <2>1, <2>5, <2>6 DEF FieldWritten
<1>7. CASE Rename
  <2>1. PICK p, q : Renamed(p, q)
    BY <1>7, RenameFacts
  <2>2. /\ act["care"].pc = "renaming" /\ act["care"].path = {p} /\ act["care"].to = {q} /\ p \in DOMAIN files /\ p # q
        /\ files' = Put(Drop(files, {p}), q, files[p])
        /\ astray' = (IF Others("care", p, {"applying"}) = {} THEN astray ELSE astray \cup {p})
        /\ Wanders
    BY <2>1 DEF Renamed
  <2>3. PICK d : d = Drop(files, {p})
    OBVIOUS
  <2>4. DOMAIN d = DOMAIN files \ {p} /\ \A r \in DOMAIN files \ {p} : d[r] = files[r]
    BY <2>3, DropFacts
  <2>5. files' = Put(d, q, files[p])
    BY <2>2, <2>3
  <2>6. DOMAIN files' = (DOMAIN files \ {p}) \cup {q} /\ files'[q] = files[p]
        /\ \A r \in DOMAIN files \ {p} : r # q => files'[r] = files[r]
    BY <2>4, <2>5 DEF Put
  <2>7. astray \subseteq astray'
    BY <2>2
  <2>8. HomeInv'
    BY <2>2, <2>6, <2>7 DEF FolderInv, MoveInv, HomeInv, AtHome, Moving
  <2>9. ReplaceInv'
    <3>1. ASSUME NEW b \in Tasks, act'[b].pc = "applying", NEW r \in act'[b].path, NEW c \in act'[b].seen
          PROVE  r \in astray' \/ InItsFolder(r, c)
      <4>1. Stays(b) /\ b \in Acts /\ b # "care"
        BY <2>2, ActsFacts DEF Wanders, Moves
      <4>2. act[b].pc = "applying" /\ r \in act[b].path /\ c \in act[b].seen
        BY <3>1, <4>1 DEF Stays, Copies
      <4>3. CASE r = p
        BY <4>1, <4>2, <4>3, <2>2 DEF Others, Doing
      <4>4. CASE r # p
        BY <2>2, <2>7, <4>2, <4>4 DEF FolderInv, ReplaceInv, AtHome, Moving
      <4> QED  BY <4>3, <4>4
    <3> QED  BY <3>1 DEF ReplaceInv, AtHome
  <2>10. WasInv' /\ MoveInv'
    BY <1>b, <1>c, <2>2 DEF MoveInv
  <2> QED  BY <2>8, <2>9, <2>10 DEF FolderInv
<1>8. CASE PromotionFails
  <2>1. AllStay /\ Wanders /\ act["care"].path \cap DOMAIN files = {}
    BY <1>8, PromotionFailsFacts DEF PromotionFails, CareFails
  <2>2. \A p : Moving(p) => p \notin DOMAIN files /\ p \in astray
    BY <2>1 DEF Moving, FolderInv, MoveInv
  <2>3. HomeInv'
    BY <1>0, <2>1, <2>2 DEF FolderInv, HomeInv, AtHome
  <2>4. ReplaceInv'
    <3>1. ASSUME NEW b \in Tasks, act'[b].pc = "applying", NEW r \in act'[b].path, NEW c \in act'[b].seen
          PROVE  r \in astray \/ InItsFolder(r, c)
      <4>1. Stays(b)
        BY <2>1, ActsFacts DEF Wanders, Moves
      <4> QED  BY <2>2, <3>1, <4>1 DEF FolderInv, ReplaceInv, AtHome, Stays, Copies
    <3> QED  BY <1>0, <2>1, <3>1 DEF ReplaceInv, AtHome
  <2>5. WasInv' /\ MoveInv'
    BY <1>b, <1>c, <2>1 DEF MoveInv
  <2> QED  BY <2>3, <2>4, <2>5 DEF FolderInv
<1> QED  BY <1>1, <1>2, <1>3, <1>5, <1>6, <1>7, <1>8 DEF Care

LEMMA FolderCrash ==
  ASSUME ShapeInv, FolderInv, Crash
  PROVE  FolderInv'
<1>1. /\ files' = files /\ astray' = astray \cup act["care"].path /\ act'["care"].pc = "idle"
      /\ \A a \in Tasks : act'[a].pc # "applying"
  BY CrashFacts, IdleFacts DEF Crashed
<1>2. HomeInv'
  BY <1>1 DEF FolderInv, HomeInv, AtHome, Moving
<1>3. ReplaceInv' /\ WasInv' /\ MoveInv'
  BY <1>1 DEF ReplaceInv, WasInv, MoveInv, Promoting
<1> QED  BY <1>2, <1>3 DEF FolderInv

LEMMA FolderSame ==
  ASSUME FolderInv, files' = files, act' = act, astray' = astray
  PROVE  FolderInv'
BY DEF FolderInv, HomeInv, ReplaceInv, WasInv, MoveInv, AtHome, Moving, StillWas

LEMMA FolderNext ==
  ASSUME ShapeInv, OldFound, FolderInv, GardenNext
  PROVE  FolderInv'
<1>0. AllStay => FilesStay
  BY DEF AllStay
<1>1. CASE Care
  BY <1>1, FolderCare
<1>2. CASE EdgeLife
  BY <1>2, EdgeLifeFacts, ActsFacts, FolderQuiet DEF EdgeStep
<1>3. CASE MonthsPass
  BY <1>3, MonthsPassFacts, FolderSame DEF FilesStay
<1>4. CASE Crash
  BY <1>4, FolderCrash
<1>5. CASE ReadToRebuild \/ RebuildNote \/ RebuildFails \/ RebuildEnds
  <2>1. Moves("rebuild")
    BY <1>5, RebuildMoves
  <2>2. FilesStay
    BY <1>0, <1>5, ReadToRebuildFacts, RebuildNoteFacts, RebuildFailsFacts, RebuildEndsFacts DEF RebuiltOne, RebuildFailed
  <2> QED  BY <2>1, <2>2, ActsFacts, FolderQuiet
<1>6. ASSUME NEW a \in Tasks \cup {"reindex"}, ReadToScan(a) \/ Scan(a) \/ ScanEnds(a)
      PROVE  FolderInv'
  BY <1>6, ScanQuiet, ActsFacts, FolderQuiet DEF Quietly, Rests, Rested, PendPcs
<1>7. ASSUME NEW a \in Tasks, Writer(a)
      PROVE  FolderInv'
  BY <1>7, FolderWriter
<1>8. ASSUME NEW a \in Tasks, Subscribers(a)
      PROVE  FolderInv'
  BY <1>8, SubscriberQuiet, ActsFacts, FolderQuiet DEF Quietly, Rests, Rested, PendPcs
<1> QED  BY <1>1, <1>2, <1>3, <1>4, <1>5, <1>6, <1>7, <1>8 DEF GardenNext, Start

LEMMA FolderFirst ==
  ASSUME GardenInit
  PROVE  FolderInv
<1>1. files \in FirstNotes /\ act["care"] = Idle /\ \A a \in Tasks : act[a].pc # "applying"
  BY ActsFacts, TasksAssumption DEF GardenInit, Idle, Jobs
<1>2. HomeInv
  BY <1>1, FirstNotesAssumption DEF HomeInv, AtHome
<1>3. ReplaceInv /\ WasInv /\ MoveInv
  BY <1>1, IdleFacts DEF ReplaceInv, WasInv, MoveInv, Promoting
<1> QED  BY <1>2, <1>3 DEF FolderInv

LEMMA FolderSafe ==
  ASSUME FolderInv
  PROVE  FolderFollows
BY ActsFacts DEF FolderInv, HomeInv, AtHome, Moving, FolderFollows, Quiet

\* The vault keeps its texts and its folders.
VaultInv == ShapeInv /\ OldFound /\ LockInv /\ TextInv /\ FolderInv

LEMMA VaultFirst ==
  GardenInit => VaultInv
BY ShapeFirst, TextsFirst, FolderFirst DEF VaultInv

LEMMA VaultNext ==
  ASSUME VaultInv, [GardenNext]_vars
  PROVE  VaultInv'
<1>1. CASE GardenNext
  BY <1>1, ShapeStep, OldNext, LockNext, TextsNext, FolderNext DEF VaultInv
<1>2. CASE UNCHANGED vars
  BY <1>2, TextsSame, FolderSame, ShapeStutter DEF vars, VaultInv, history
<1> QED  BY <1>1, <1>2

\* For any vault, any requests, and any order of their steps with the promotion, a crash and
\* the rest: what was accepted is there until it is replaced or deleted, and then stays away;
\* and a note with a status comes to rest in the folder its frontmatter names.
THEOREM VaultHolds == Spec => []VaultSafe
<1>1. VaultInv => VaultSafe
  BY TextsSafe, FolderSafe DEF VaultInv, VaultSafe
<1> QED  BY <1>1, VaultFirst, VaultNext, PTL DEF Spec

-----------------------------------------------------------------------------
\* Who has read a note, and who has deleted one.

IndexReads == {"indexing", "scanning"}
BusyPcs == IndexPcs \cup VectorPcs \cup GraphPcs \cup Untold

\* What b has read is what is there, and what it has deleted is not, but for paths in ps.
Fresh(ps, b, readers, deleters) ==
  \A p \in act[b].path \ ps :
    /\ act[b].pc \in readers => p \in DOMAIN files /\ act[b].seen = {files[p]}
    /\ act[b].pc \in deleters => p \notin DOMAIN files
FreshAt(b) ==
  /\ Fresh(indexOff, b, IndexReads, {"unlisting"})
  /\ Fresh(vectorsOff, b, {"embedding"}, {"unlisting", "unembedding"})
  /\ Fresh(graphOff, b, GraphPcs, Untold)
FreshInv == \A b \in Acts : FreshAt(b)

\* No note changes but those at C.
OnlyAt(C) == \A q : q \notin C => /\ (q \in DOMAIN files' <=> q \in DOMAIN files)
                                 /\ (q \in DOMAIN files => files'[q] = files[q])
\* What an activity that does not move has read or deleted goes stale with the notes at C only.
Warned(a, C, ps, qs, pcs) == \A b \in Acts \ {a} : act[b].pc \in pcs =>
                               \A q \in act[b].path : q \in C \/ q \in ps => q \in qs
Warns(a, C) == /\ Warned(a, C, indexOff, indexOff', IndexPcs)
               /\ Warned(a, C, vectorsOff, vectorsOff', VectorPcs)
               /\ Warned(a, C, graphOff, graphOff', GraphPcs \cup Untold)

LEMMA FreshOthers ==
  ASSUME FreshInv, NEW a \in Acts, NEW C, Moves(a), OnlyAt(C), Warns(a, C), NEW b \in Acts, b # a
  PROVE  FreshAt(b)'
<1>1. Stays(b)
  BY DEF Moves
<1>2. PICK r : r = act[b]
  OBVIOUS
<1>3. act'[b].pc = r.pc /\ act'[b].path = r.path /\ act'[b].seen = r.seen
  BY <1>1, <1>2 DEF Stays, Copies
<1>4. /\ r.pc \in IndexPcs => \A q \in r.path : q \in C \/ q \in indexOff => q \in indexOff'
      /\ r.pc \in VectorPcs => \A q \in r.path : q \in C \/ q \in vectorsOff => q \in vectorsOff'
      /\ r.pc \in GraphPcs \cup Untold => \A q \in r.path : q \in C \/ q \in graphOff => q \in graphOff'
  BY <1>2 DEF Warns, Warned
<1>5. FreshAt(b)
  BY DEF FreshInv
<1>6. Fresh(indexOff, b, IndexReads, {"unlisting"})'
  BY <1>2, <1>3, <1>4, <1>5 DEF FreshAt, Fresh, OnlyAt, IndexReads, IndexPcs
<1>7. Fresh(vectorsOff, b, {"embedding"}, {"unlisting", "unembedding"})'
  BY <1>2, <1>3, <1>4, <1>5 DEF FreshAt, Fresh, OnlyAt, VectorPcs
<1>8. Fresh(graphOff, b, GraphPcs, Untold)'
  BY <1>2, <1>3, <1>4, <1>5 DEF FreshAt, Fresh, OnlyAt, GraphPcs, Untold
<1> QED  BY <1>6, <1>7, <1>8 DEF FreshAt

\* What the activity that moves has read or deleted.
LEMMA FreshFree ==
  ASSUME NEW a, act'[a].pc \notin BusyPcs
  PROVE  FreshAt(a)'
BY DEF FreshAt, Fresh, BusyPcs, IndexPcs, VectorPcs, GraphPcs, Untold, IndexReads

LEMMA FreshRead ==
  ASSUME NEW a, NEW p \in DOMAIN files, files' = files, act'[a].path = {p}, act'[a].seen = {files[p]},
         act'[a].pc \notin Untold
  PROVE  FreshAt(a)'
BY DEF FreshAt, Fresh, Untold

LEMMA FreshGone ==
  ASSUME NEW a, NEW p, p \notin DOMAIN files', act'[a].path = {p}, act'[a].pc \in Untold
  PROVE  FreshAt(a)'
BY DEF FreshAt, Fresh, Untold, IndexReads, GraphPcs

LEMMA FreshOn ==
  ASSUME NEW a, FreshAt(a), files' = files, act'[a].path = act[a].path, act'[a].seen = act[a].seen,
         indexOff \subseteq indexOff', vectorsOff \subseteq vectorsOff', graphOff \subseteq graphOff',
         \/ act[a].pc \in GraphPcs /\ act'[a].pc \in {"stating", "relating", "committing"}
         \/ act[a].pc = "unlisting" /\ act'[a].pc = "unembedding"
         \/ act[a].pc = "unembedding" /\ act'[a].pc = "removing"
  PROVE  FreshAt(a)'
BY DEF FreshAt, Fresh, IndexReads, GraphPcs, Untold

\* Nothing changes, and nothing is forgotten.
LEMMA FreshStay ==
  ASSUME FreshInv, NEW a \in Acts, Moves(a), files' = files,
         indexOff \subseteq indexOff', vectorsOff \subseteq vectorsOff', graphOff \subseteq graphOff',
         FreshAt(a)'
  PROVE  FreshInv'
<1>1. OnlyAt({}) /\ Warns(a, {})
  BY DEF OnlyAt, Warns, Warned
<1> QED  BY <1>1, FreshOthers DEF FreshInv

\* A note changes, with an event or without.
LEMMA FreshTold ==
  ASSUME FreshInv, NEW a \in Acts, NEW p, Moves(a), OnlyAt({p}), Tells(a, p), FreshAt(a)'
  PROVE  FreshInv'
<1>1. Warned(a, {p}, indexOff, indexOff', IndexPcs)
  BY DEF Warned, Tells, Marked, Others, Doing
<1>2. Warned(a, {p}, vectorsOff, vectorsOff', VectorPcs)
  BY DEF Warned, Tells, Marked, Others, Doing
<1>3. Warned(a, {p}, graphOff, graphOff', GraphPcs \cup Untold)
  BY DEF Warned, Tells, Marked, Others, Doing
<1> QED  BY <1>1, <1>2, <1>3, FreshOthers DEF Warns, FreshInv

LEMMA FreshSilent ==
  ASSUME FreshInv, NEW a \in Acts, NEW C, Moves(a), OnlyAt(C), Silently(C), FreshAt(a)'
  PROVE  FreshInv'
BY FreshOthers DEF Warns, Warned, Silently, FreshInv

LEMMA OnlyPut ==
  ASSUME NEW p, NEW n, files' = Put(files, p, n)
  PROVE  OnlyAt({p}) /\ DOMAIN files' = DOMAIN files \cup {p} /\ files'[p] = n
BY DEF Put, OnlyAt

LEMMA OnlyDrop ==
  ASSUME NEW p, files' = Drop(files, {p})
  PROVE  OnlyAt({p}) /\ DOMAIN files' = DOMAIN files \ {p}
<1>1. DOMAIN files' = DOMAIN files \ {p} /\ \A q \in DOMAIN files \ {p} : files'[q] = files[q]
  BY DropFacts
<1> QED  BY <1>1 DEF OnlyAt

LEMMA OnlyMove ==
  ASSUME NEW p \in DOMAIN files, NEW q, p # q, files' = Put(Drop(files, {p}), q, files[p])
  PROVE  OnlyAt({p, q}) /\ DOMAIN files' = (DOMAIN files \ {p}) \cup {q}
<1>1. PICK d : d = Drop(files, {p})
  OBVIOUS
<1>2. DOMAIN d = DOMAIN files \ {p} /\ \A r \in DOMAIN files \ {p} : d[r] = files[r]
  BY <1>1, DropFacts
<1>3. files' = Put(d, q, files[p])
  BY <1>1
<1> QED  BY <1>2, <1>3 DEF Put, OnlyAt

LEMMA FreshQuiet ==
  ASSUME FreshInv, NEW a \in Acts, Moves(a), AllStay \/ (files' = files /\ UNCHANGED off), FreshAt(a)'
  PROVE  FreshInv'
BY FreshStay DEF AllStay, FilesStay, StoresStay, IndexStays, VectorsStay, GraphStays, off

LEMMA FreshWriter ==
  ASSUME ShapeInv, FreshInv, NEW a \in Tasks, Writer(a)
  PROVE  FreshInv'
<1>0. a \in Acts
  BY ActsFacts
<1>a. act'[a].pc \in {"idle", "ready", "naming", "applying", "listing", "stubbing"} => FreshAt(a)'
  BY FreshFree DEF BusyPcs, IndexPcs, VectorPcs, GraphPcs, Untold
<1>b. Rests(a) => Moves(a) /\ act'[a].pc \in {"idle", "ready"}
  BY DEF Rests, Rested
<1>1. CASE Choose(a)
  BY <1>1, ChooseFacts, <1>0, <1>a, FreshQuiet DEF Turns
<1>2. CASE Create(a)
  <2>1. PICK p, x, n : Created(a, p, x, n)
    BY <1>2, CreateFacts
  <2>2. files' = Put(files, p, n) /\ Tells(a, p) /\ Moves(a) /\ act'[a].pc = "listing"
    BY <2>1 DEF Created, Changes, Steps, Turns
  <2> QED  BY <1>0, <1>a, <2>2, OnlyPut, FreshTold
<1>3. CASE Find(a)
  BY <1>3, <1>b, FindFacts, <1>0, <1>a, FreshQuiet DEF Turns
<1>4. CASE Replace(a)
  BY <1>4, ReplaceFacts, <1>0, <1>a, OnlyPut, FreshTold DEF Replaced, Changes, Steps, Turns
<1>5. CASE AppendText(a)
  BY <1>5, AppendFacts, <1>0, <1>a, OnlyPut, FreshTold DEF Extended, Changes, Steps, Turns
<1>6. CASE Delete(a)
  <2>1. ASSUME NEW p, Removed(a, p) PROVE FreshInv'
    BY <2>1, OnlyDrop, FreshGone, <1>0, FreshTold DEF Removed, Applies, Changes, Steps, Turns, Untold
  <2>2. CASE AllStay /\ Rests(a)
    BY <1>0, <1>a, <1>b, <2>2, FreshQuiet
  <2> QED  BY <1>6, <2>1, <2>2, DeleteFacts
<1>7. CASE Stub(a)
  <2>1. PICK e, n : Stubbed(a, e, n)
    BY <1>7, StubFacts
  <2>2. files' = Put(files, e, n) /\ Silently({e}) /\ Moves(a) /\ act'[a].pc \in {"idle", "ready", "stubbing"}
    BY <1>b, <2>1 DEF Stubbed, Turns
  <2> QED  BY <1>0, <1>a, <2>2, OnlyPut, FreshSilent
<1> QED  BY <1>1, <1>2, <1>3, <1>4, <1>5, <1>6, <1>7 DEF Writer

LEMMA FreshSubscribers ==
  ASSUME ShapeInv, FreshInv, NEW a \in Tasks, Subscribers(a)
  PROVE  FreshInv'
<1>0. a \in Acts /\ FreshAt(a)
  BY ActsFacts DEF FreshInv
<1>a. act'[a].pc \in {"idle", "ready", "stubbing", "toEmbed", "toGraph", "scan"} => FreshAt(a)'
  BY FreshFree DEF BusyPcs, IndexPcs, VectorPcs, GraphPcs, Untold
<1>b. Ends(a) => Moves(a) /\ act'[a].pc \in {"idle", "ready", "stubbing"}
  BY EndsMoves
<1>c. FilesStay /\ VectorsStay /\ GraphStays /\ indexOff' = indexOff => files' = files /\ UNCHANGED off
  BY DEF FilesStay, VectorsStay, GraphStays, off
<1>d. GraphStep => files' = files /\ UNCHANGED off
  BY DEF GraphStep, FilesStay, IndexStays, VectorsStay, off
<1>e. AllStay => files' = files
  BY DEF AllStay, FilesStay
<1>f. ASSUME NEW p, NEW c, NEW pc, Processes(a, p, c, pc) PROVE act[a].pc = pc
  BY <1>f DEF Processes
<1>g. files' = files /\ UNCHANGED off /\ act'[a].path = act[a].path /\ act'[a].seen = act[a].seen /\ act[a].pc \in GraphPcs
        /\ act'[a].pc \in {"stating", "relating", "committing"} => FreshAt(a)'
  BY <1>0, FreshOn DEF off
<1>1. CASE ReadForIndex(a) \/ ReadForVector(a)
  <2>1. /\ AllStay /\ Moves(a)
        /\ \/ act'[a].pc \in {"toEmbed", "toGraph"}
           \/ /\ At(a) \in DOMAIN files /\ act'[a].path = {At(a)} /\ act'[a].seen = {files[At(a)]}
              /\ act'[a].pc \in {"indexing", "embedding"}
    BY <1>1, ReadFacts DEF Steps, Turns
  <2>2. FreshAt(a)'
    BY <1>a, <1>e, <2>1, FreshRead DEF Untold
  <2> QED  BY <1>0, <2>1, <2>2, FreshQuiet
<1>2. CASE IndexNote(a)
  BY <1>2, <1>c, IndexNoteFacts, <1>0, <1>a, FreshQuiet DEF Steps, Turns
<1>3. CASE StoreVector(a) \/ EmbedFails(a)
  BY <1>3, EmbedFacts, <1>0, <1>a, FreshStay DEF FilesStay, IndexStays, GraphStays, Steps, Turns
<1>4. CASE ReadForGraph(a)
  <2>1. /\ AllStay
        /\ \/ Ends(a)
           \/ /\ Moves(a) /\ At(a) \in DOMAIN files /\ act'[a].path = {At(a)} /\ act'[a].seen = {files[At(a)]}
              /\ act'[a].pc = "extracting"
    BY <1>4, ReadForGraphFacts DEF Turns
  <2>2. FreshAt(a)'
    BY <1>a, <1>b, <1>e, <2>1, FreshRead DEF Untold
  <2> QED  BY <1>0, <1>b, <2>1, <2>2, FreshQuiet
<1>5. CASE Unstate(a)
  <2>1. PICK p, c : Processes(a, p, c, "extracting") /\ GraphStep /\ Steps(a, "stating")
    BY <1>5, UnstateFacts
  <2>2. act[a].pc \in GraphPcs
    BY <1>f, <2>1 DEF GraphPcs
  <2>3. FreshAt(a)'
    BY <1>d, <1>g, <2>1, <2>2 DEF Steps, Turns
  <2> QED  BY <1>0, <1>d, <2>1, <2>3, FreshQuiet DEF Steps, Turns
<1>6. CASE State(a)
  <2>1. PICK p, c : Processes(a, p, c, "stating") /\ GraphStep /\ Steps(a, "relating")
    BY <1>6, StateFacts
  <2>2. act[a].pc \in GraphPcs
    BY <1>f, <2>1 DEF GraphPcs
  <2>3. FreshAt(a)'
    BY <1>d, <1>g, <2>1, <2>2 DEF Steps, Turns
  <2> QED  BY <1>0, <1>d, <2>1, <2>3, FreshQuiet DEF Steps, Turns
<1>7. CASE Relate(a)
  <2>1. PICK p, c : Processes(a, p, c, "relating") /\ GraphStep /\ (Steps(a, "committing") \/ Ends(a))
    BY <1>7, RelateFacts
  <2>2. act[a].pc \in GraphPcs
    BY <1>f, <2>1 DEF GraphPcs
  <2>3. FreshAt(a)'
    BY <1>a, <1>b, <1>d, <1>g, <2>1, <2>2 DEF Steps, Turns
  <2> QED  BY <1>0, <1>b, <1>d, <2>1, <2>3, FreshQuiet DEF Steps, Turns
<1>8. CASE Commit(a)
  <2>1. GraphStep /\ Ends(a)
    BY <1>8, CommitFacts
  <2> QED  BY <1>0, <1>a, <1>b, <1>d, <2>1, FreshQuiet
<1>9. CASE Unlist(a)
  <2>1. PICK p : Clears(a, p, "unlisting") /\ FilesStay /\ VectorsStay /\ GraphStays /\ indexOff' = indexOff /\ Steps(a, "unembedding")
    BY <1>9, UnlistFacts
  <2>2. files' = files /\ UNCHANGED off
    BY <1>c, <2>1
  <2>3. FreshAt(a)'
    BY <1>0, <2>1, <2>2, FreshOn DEF Clears, Steps, Turns, off
  <2> QED  BY <1>0, <2>1, <2>2, <2>3, FreshQuiet DEF Steps, Turns
<1>10. CASE Unembed(a)
  <2>1. PICK p : Clears(a, p, "unembedding") /\ FilesStay /\ IndexStays /\ GraphStays /\ vectorsOff' = vectorsOff /\ Steps(a, "removing")
    BY <1>10, UnembedFacts
  <2>2. files' = files /\ UNCHANGED off
    BY <2>1 DEF FilesStay, IndexStays, GraphStays, off
  <2>3. FreshAt(a)'
    BY <1>0, <2>1, <2>2, FreshOn DEF Clears, Steps, Turns, off
  <2> QED  BY <1>0, <2>1, <2>2, <2>3, FreshQuiet DEF Steps, Turns
<1>11. CASE Withdraw(a)
  <2>1. GraphStep /\ Ends(a)
    BY <1>11, WithdrawFacts
  <2> QED  BY <1>0, <1>a, <1>b, <1>d, <2>1, FreshQuiet
<1> QED  BY <1>1, <1>2, <1>3, <1>4, <1>5, <1>6, <1>7, <1>8, <1>9, <1>10, <1>11 DEF Subscribers

LEMMA FreshScan ==
  ASSUME ShapeInv, FreshInv, NEW a \in Tasks \cup {"reindex"}, ReadToScan(a) \/ Scan(a) \/ ScanEnds(a)
  PROVE  FreshInv'
<1>0. a \in Acts
  BY ActsFacts
<1>a. act'[a].pc \in {"idle", "toEmbed", "scan"} => FreshAt(a)'
  BY FreshFree DEF BusyPcs, IndexPcs, VectorPcs, GraphPcs, Untold
<1>c. FilesStay /\ VectorsStay /\ GraphStays /\ indexOff' = indexOff => files' = files /\ UNCHANGED off
  BY DEF FilesStay, VectorsStay, GraphStays, off
<1>1. CASE ReadToScan(a)
  BY <1>1, ReadToScanFacts, <1>a, FreshRead, <1>0, FreshQuiet DEF Turns, Untold, AllStay, FilesStay
<1>2. CASE Scan(a)
  BY <1>2, <1>c, ScanFacts, <1>0, <1>a, FreshQuiet DEF Steps, Turns
<1>3. CASE ScanEnds(a)
  <2>1. files' = files /\ UNCHANGED off /\ Moves(a) /\ act'[a].pc \in {"idle", "toEmbed", "scan"}
    BY <1>3, <1>c, ScanEndsFacts, IdleFacts DEF Turns
  <2> QED  BY <1>0, <1>a, <2>1, FreshQuiet
<1> QED  BY <1>1, <1>2, <1>3

LEMMA FreshCare ==
  ASSUME ShapeInv, FreshInv, Care
  PROVE  FreshInv'
<1>0. "care" \in Acts /\ Moves("care")
  BY ActsFacts, CareMoves
<1>1. FreshAt("care")'
  <2>1. ShapeInv'
    BY ShapeCare
  <2>2. act'["care"].pc \in {"idle", "visiting"} \cup Promoting
    BY <1>0, <2>1 DEF ShapeInv, FitsInv, Fits
  <2> QED  BY <2>2, FreshFree DEF Promoting, BusyPcs, IndexPcs, VectorPcs, GraphPcs, Untold
<1>2. CASE StartCare \/ Visit \/ PromotionFails
  <2>1. AllStay
    BY <1>2, StartCareFacts, VisitFacts, PromotionFailsFacts
  <2> QED  BY <1>0, <1>1, <2>1, FreshQuiet
<1>3. CASE ReadStatus \/ ReadField
  BY <1>3, CareReadFacts, <1>0, <1>1, FreshQuiet
<1>4. CASE WriteStatus
  <2>1. PICK p, c, n : StatusWritten(p, c, n)
    BY <1>4, WriteStatusFacts
  <2>2. CASE files' = files /\ UNCHANGED off
    BY <1>0, <1>1, <2>2, FreshQuiet
  <2>3. CASE files' = Put(files, p, n) /\ Silently({p})
    BY <1>0, <1>1, <2>3, OnlyPut, FreshSilent
  <2> QED  BY <2>1, <2>2, <2>3 DEF StatusWritten, off
<1>5. CASE WriteField
  <2>1. PICK p, c, n, goal : FieldWritten(p, c, n, goal)
    BY <1>5, WriteFieldFacts
  <2>2. files' = Put(files, p, n) /\ Silently({p})
    BY <2>1 DEF FieldWritten
  <2> QED  BY <1>0, <1>1, <2>2, OnlyPut, FreshSilent
<1>6. CASE Rename
  BY <1>6, RenameFacts, <1>0, <1>1, OnlyMove, FreshSilent DEF Renamed
<1> QED  BY <1>2, <1>3, <1>4, <1>5, <1>6 DEF Care

LEMMA FreshRebuild ==
  ASSUME ShapeInv, FreshInv, ReadToRebuild \/ RebuildNote \/ RebuildFails \/ RebuildEnds
  PROVE  FreshInv'
<1>0. "rebuild" \in Acts /\ Moves("rebuild")
  BY ActsFacts, RebuildMoves
<1>a. act'["rebuild"].pc \in {"idle", "rebuild"} => FreshAt("rebuild")'
  BY FreshFree DEF BusyPcs, IndexPcs, VectorPcs, GraphPcs, Untold
<1>1. CASE ReadToRebuild
  BY <1>1, ReadToRebuildFacts, <1>a, FreshRead, <1>0, FreshQuiet DEF Turns, Untold, AllStay, FilesStay
<1>2. CASE RebuildNote
  <2>1. PICK p, c, g : RebuiltOne(p, c, g)
    BY <1>2, RebuildNoteFacts
  <2>2. /\ files' = files /\ indexOff' = indexOff /\ vectorsOff' = vectorsOff /\ act'["rebuild"].pc = "rebuild"
        /\ graphOff' = graphOff \/ (graphOff' = graphOff \ {p} /\ Others("rebuild", p, GraphPcs \cup Untold) = {})
    BY <2>1 DEF RebuiltOne, FilesStay, IndexStays, VectorsStay, Turns
  <2>3. Warns("rebuild", {})
    BY <2>2 DEF Warned, Others, Doing, Warns
  <2>4. OnlyAt({})
    BY <2>2 DEF OnlyAt
  <2> QED  BY <1>0, <1>a, <2>2, <2>3, <2>4, FreshOthers DEF FreshInv
<1>3. CASE RebuildFails
  BY <1>3, RebuildFailsFacts, <1>0, <1>a, FreshStay DEF RebuildFailed, FilesStay, IndexStays, VectorsStay
<1>4. CASE RebuildEnds
  BY <1>4, RebuildEndsFacts, IdleFacts, <1>0, <1>a, FreshQuiet
<1> QED  BY <1>1, <1>2, <1>3, <1>4

LEMMA FreshCrash ==
  ASSUME ShapeInv, Crash
  PROVE  FreshInv'
<1>1. ASSUME NEW a \in Acts PROVE act'[a].pc \in {"idle", "waiting", "scan", "rebuild"}
  BY CrashFacts, IdleFacts DEF Crashed, Acts, Jobs
<1> QED  BY <1>1, FreshFree DEF FreshInv, BusyPcs, IndexPcs, VectorPcs, GraphPcs, Untold

LEMMA FreshSame ==
  ASSUME FreshInv, files' = files, act' = act, UNCHANGED off
  PROVE  FreshInv'
BY DEF FreshInv, FreshAt, Fresh, off

LEMMA FreshNext ==
  ASSUME ShapeInv, OldFound, FreshInv, GardenNext
  PROVE  FreshInv'
<1>1. CASE EdgeLife
  <2>1. EdgeStep
    BY <1>1, EdgeLifeFacts
  <2>2. files' = files /\ UNCHANGED off /\ Moves("edges") /\ act'["edges"].pc \notin BusyPcs
    BY <2>1 DEF EdgeStep, FilesStay, IndexStays, VectorsStay, off, BusyPcs, IndexPcs, VectorPcs, GraphPcs, Untold
  <2> QED  BY <2>2, ActsFacts, FreshFree, FreshQuiet
<1>2. CASE MonthsPass
  BY <1>2, MonthsPassFacts, FreshSame DEF FilesStay, IndexStays, VectorsStay, off
<1> QED  BY <1>1, <1>2, FreshCare, FreshCrash, FreshRebuild, FreshScan, FreshWriter, FreshSubscribers DEF GardenNext, Start

LEMMA FreshFirst ==
  ASSUME GardenInit
  PROVE  FreshInv
<1>1. ASSUME NEW a \in Acts PROVE act[a].pc \in {"idle", "waiting"}
  BY IdleFacts DEF GardenInit, Idle
<1> QED  BY <1>1 DEF FreshInv, FreshAt, Fresh, IndexReads, GraphPcs, Untold

-----------------------------------------------------------------------------
\* The index.

Scans == {"scan", "scanning"}
IndexWork == {"listing", "indexing", "unlisting"} \cup Scans

\* b is going to read p for the index; or to take it from the index.
IndexOwes(b, p) ==
  \/ b \in Tasks /\ act[b].pc \in {"listing", "indexing"} /\ p \in act[b].path
  \/ act[b].pc = "scanning" /\ p \in act[b].path
  \/ act[b].pc \in Scans /\ p \in act[b].todo
Unlists(b, p) == act[b].pc = "unlisting" /\ p \in act[b].path

\* The start has read the seeds, nobody has loaded the rest, so it will.
SecondPass ==
  /\ ~loaded /\ act["reindex"].pc \in Scans /\ ~act["reindex"].again
  /\ \A b \in Tasks : act[b].pc \notin Scans

Indexed(p) == p \in DOMAIN index /\ index[p] = files[p]
IndexOwed(p) == (\E b \in Acts : IndexOwes(b, p)) \/ (SecondPass /\ Dir(p) # "seed")
IndexAt(p) == IF p \in DOMAIN files THEN Indexed(p) \/ IndexOwed(p)
              ELSE p \notin DOMAIN index \/ \E b \in Acts : Unlists(b, p)
IndexInv == \A p \in Paths \ indexOff : IndexAt(p)

LEMMA IndexFrame ==
  ASSUME NEW a \in Acts, Moves(a), NEW p, IndexAt(p),
         p \in DOMAIN files' <=> p \in DOMAIN files, p \in DOMAIN files => files'[p] = files[p],
         p \in DOMAIN index' <=> p \in DOMAIN index, p \in DOMAIN index => index'[p] = index[p],
         p \notin DOMAIN files /\ Unlists(a, p) => Unlists(a, p)',
         p \in DOMAIN files /\ IndexOwes(a, p) => Indexed(p)' \/ IndexOwed(p)',
         p \in DOMAIN files /\ SecondPass /\ Dir(p) # "seed" => Indexed(p)' \/ IndexOwed(p)'
  PROVE  IndexAt(p)'
<1>1. ASSUME NEW b \in Acts, b # a PROVE (IndexOwes(b, p) => IndexOwes(b, p)') /\ (Unlists(b, p) => Unlists(b, p)')
  BY <1>1 DEF Moves, Stays, Copies, IndexOwes, Unlists
<1>2. CASE p \in DOMAIN files
  BY <1>2, <1>1 DEF Indexed, IndexAt, IndexOwed
<1>3. CASE p \notin DOMAIN files
  BY <1>1, <1>3 DEF IndexAt
<1> QED  BY <1>2, <1>3

LEMMA SecondStays ==
  ASSUME NEW a \in Acts, Moves(a), loaded' = loaded,
         a \in Tasks /\ act'[a].pc \in Scans => act[a].pc \in Scans,
         a = "reindex" => act'[a].pc \in Scans /\ act'[a].again = act[a].again
  PROVE  SecondPass => SecondPass'
BY ActsFacts DEF SecondPass, Moves, Stays, Copies

\* Nobody who does anything for the index takes a step, and notes change at C only.
LEMMA IndexChange ==
  ASSUME IndexInv, NEW a \in Acts, NEW C, Moves(a), OnlyAt(C), index' = index, loaded' = loaded,
         indexOff \subseteq indexOff', a # "reindex", act[a].pc \notin IndexWork, act'[a].pc \notin Scans,
         \A p \in C : p \in indexOff' \/ IndexAt(p)'
  PROVE  IndexInv'
<1>1. SecondPass => SecondPass'
  BY SecondStays
<1>2. ASSUME NEW p \in Paths \ indexOff', p \notin C PROVE IndexAt(p)'
  <2>1. IndexAt(p)
    BY <1>2 DEF IndexInv
  <2>2. ~Unlists(a, p) /\ ~IndexOwes(a, p)
    BY DEF Unlists, IndexOwes, IndexWork, Scans
  <2>3. /\ p \in DOMAIN files' <=> p \in DOMAIN files
        /\ p \in DOMAIN files => files'[p] = files[p]
    BY <1>2 DEF OnlyAt
  <2>4. SecondPass /\ Dir(p) # "seed" => IndexOwed(p)'
    BY <1>1 DEF IndexOwed
  <2> QED  BY <2>1, <2>2, <2>3, <2>4, IndexFrame
<1> QED  BY <1>2 DEF IndexInv

LEMMA IndexQuiet ==
  ASSUME IndexInv, NEW a \in Acts, Moves(a), files' = files, index' = index, loaded' = loaded,
         indexOff' = indexOff, a # "reindex", act[a].pc \notin IndexWork, act'[a].pc \notin Scans
  PROVE  IndexInv'
BY IndexChange DEF OnlyAt

\* A step of one who does something for the index.
LEMMA IndexStep ==
  ASSUME IndexInv, NEW a \in Acts, Moves(a), files' = files, indexOff' = indexOff, NEW p,
         \A q : q # p => (q \in DOMAIN index' <=> q \in DOMAIN index) /\ (q \in DOMAIN index => index'[q] = index[q]),
         p \notin indexOff => IndexAt(p)',
         \A q \in Paths \ indexOff : q # p =>
           /\ q \notin DOMAIN files /\ Unlists(a, q) => Unlists(a, q)'
           /\ q \in DOMAIN files /\ IndexOwes(a, q) => IndexOwed(q)'
           /\ q \in DOMAIN files /\ SecondPass /\ Dir(q) # "seed" => IndexOwed(q)'
  PROVE  IndexInv'
BY IndexFrame DEF IndexInv

LEMMA IndexKeep ==
  ASSUME IndexInv, NEW a \in Acts, Moves(a), files' = files, index' = index, indexOff' = indexOff,
         \A q \in Paths \ indexOff :
           /\ q \notin DOMAIN files /\ Unlists(a, q) => Unlists(a, q)'
           /\ q \in DOMAIN files /\ IndexOwes(a, q) => IndexOwed(q)'
           /\ q \in DOMAIN files /\ SecondPass /\ Dir(q) # "seed" => IndexOwed(q)'
  PROVE  IndexInv'
BY IndexFrame DEF IndexInv

LEMMA IndexWriter ==
  ASSUME ShapeInv, IndexInv, NEW a \in Tasks, Writer(a)
  PROVE  IndexInv'
<1>0. a \in Acts /\ a # "reindex"
  BY ActsFacts
<1>a. Rests(a) => Moves(a) /\ act'[a].pc \in {"idle", "ready"}
  BY DEF Rests, Rested
<1>b. AllStay => files' = files /\ index' = index /\ loaded' = loaded /\ indexOff' = indexOff
  BY DEF AllStay, FilesStay, StoresStay, IndexStays
<1>c. ASSUME AllStay, Moves(a), act[a].pc \in {"waiting", "ready", "applying"},
             act'[a].pc \in {"idle", "ready", "naming", "applying"}
      PROVE  IndexInv'
  BY <1>0, <1>b, <1>c, IndexQuiet DEF IndexWork, Scans
<1>d. ASSUME NEW p, NEW n, files' = Put(files, p, n), index' = index, loaded' = loaded, Tells(a, p),
             Moves(a), act[a].pc \in {"naming", "applying"}, act'[a].pc = "listing", act'[a].path = {p}
      PROVE  IndexInv'
  <2>0. files' = Put(files, p, n)
    BY <1>d
  <2>1. OnlyAt({p}) /\ p \in DOMAIN files'
    BY <2>0, OnlyPut
  <2>2. IndexOwes(a, p)'
    BY <1>d DEF IndexOwes
  <2>3. IndexAt(p)'
    BY <1>0, <2>1, <2>2 DEF IndexAt, IndexOwed
  <2>4. indexOff \subseteq indexOff'
    BY <1>d DEF Tells, Marked
  <2> QED  BY <1>0, <1>d, <2>1, <2>3, <2>4, IndexChange DEF IndexWork, Scans
<1>1. CASE Choose(a)
  BY <1>1, ChooseFacts, <1>c DEF Turns
<1>2. CASE Create(a)
  <2>1. PICK p, x, n : Created(a, p, x, n)
    BY <1>2, CreateFacts
  <2> QED  BY <1>d, <2>1 DEF Created, Changes, Steps, Turns
<1>3. CASE Find(a)
  BY <1>3, <1>a, FindFacts, <1>c DEF Turns
<1>4. CASE Replace(a)
  <2>1. PICK p, x, n : Replaced(a, p, x, n)
    BY <1>4, ReplaceFacts
  <2> QED  BY <1>d, <2>1 DEF Replaced, Applies, Changes, Steps, Turns
<1>5. CASE AppendText(a)
  <2>1. PICK p, x, n : Extended(a, p, x, n)
    BY <1>5, AppendFacts
  <2> QED  BY <1>d, <2>1 DEF Extended, Applies, Changes, Steps, Turns
<1>6. CASE Delete(a)
  <2>1. ASSUME NEW p, Removed(a, p) PROVE IndexInv'
    <3>1. /\ files' = Drop(files, {p}) /\ Tells(a, p) /\ Moves(a) /\ act[a].pc = "applying"
          /\ act'[a].pc = "unlisting" /\ act'[a].path = {p} /\ index' = index /\ loaded' = loaded
      BY <2>1 DEF Removed, Applies, Changes, Steps, Turns
    <3>2. OnlyAt({p}) /\ p \notin DOMAIN files'
      BY <3>1, OnlyDrop
    <3>3. IndexAt(p)'
      BY <1>0, <3>1, <3>2 DEF IndexAt, Unlists
    <3>4. indexOff \subseteq indexOff'
      BY <3>1 DEF Tells, Marked
    <3> QED  BY <1>0, <3>1, <3>2, <3>3, <3>4, IndexChange DEF IndexWork, Scans
  <2>2. CASE act[a].pc = "applying" /\ AllStay /\ Rests(a)
    BY <1>a, <1>c, <2>2
  <2> QED  BY <1>6, <2>1, <2>2, DeleteFacts
<1>7. CASE Stub(a)
  <2>1. PICK e, n : Stubbed(a, e, n)
    BY <1>7, StubFacts
  <2>2. /\ files' = Put(files, e, n) /\ Silently({e}) /\ Moves(a) /\ act'[a].pc \in {"idle", "ready", "stubbing"}
        /\ index' = index /\ loaded' = loaded /\ act[a].pc = "stubbing"
    BY <1>a, <2>1 DEF Stubbed, Turns
  <2> QED  BY <1>0, <2>2, OnlyPut, IndexChange DEF IndexWork, Scans, Silently
<1> QED  BY <1>1, <1>2, <1>3, <1>4, <1>5, <1>6, <1>7 DEF Writer

LEMMA IndexSubscribers ==
  ASSUME ShapeInv, FreshInv, IndexInv, NEW a \in Tasks, Subscribers(a)
  PROVE  IndexInv'
<1>0. a \in Acts /\ a # "reindex" /\ FreshAt(a)
  BY ActsFacts DEF FreshInv
<1>a. Ends(a) => Moves(a) /\ act'[a].pc \in {"idle", "ready", "stubbing"}
  BY EndsMoves
<1>b. AllStay => files' = files /\ index' = index /\ loaded' = loaded /\ indexOff' = indexOff
  BY DEF AllStay, FilesStay, StoresStay, IndexStays
<1>c. GraphStep \/ (FilesStay /\ IndexStays) => files' = files /\ index' = index /\ loaded' = loaded /\ indexOff' = indexOff
  BY DEF GraphStep, FilesStay, IndexStays
<1>d. ASSUME files' = files, index' = index, loaded' = loaded, indexOff' = indexOff, Moves(a),
             act[a].pc \notin IndexWork, act'[a].pc \notin Scans
      PROVE  IndexInv'
  BY <1>0, <1>d, IndexQuiet
<1>1. CASE ReadForIndex(a)
  <2>1. PICK p : p = At(a)
    OBVIOUS
  <2>2. /\ AllStay /\ Moves(a) /\ act[a].pc = "listing" /\ act[a].path = {p} /\ act'[a].path = {p}
        /\ \/ p \in DOMAIN files /\ act'[a].pc = "indexing"
           \/ p \notin DOMAIN files /\ act'[a].pc = "toEmbed"
    BY <1>1, <2>1, ReadFacts DEF ReadForIndex, Doing, Steps, Turns
  <2>3. SecondPass => SecondPass'
    BY <1>0, <1>b, <2>2, SecondStays DEF Scans
  <2>4. \A q : ~Unlists(a, q) /\ (q \in DOMAIN files /\ IndexOwes(a, q) => IndexOwes(a, q)')
    BY <2>2 DEF Unlists, IndexOwes, Scans
  <2> QED  BY <1>0, <1>b, <2>2, <2>3, <2>4, IndexKeep DEF IndexOwed
<1>2. CASE IndexNote(a)
  <2>1. PICK p, c : /\ Processes(a, p, c, "indexing") /\ FilesStay
                    /\ index' = Put(index, p, c) /\ indexOff' = indexOff /\ loaded' = loaded
                    /\ \/ loaded /\ Steps(a, "toEmbed")
                       \/ ~loaded /\ Turns(a, "scan", {p}, {c}, Scanned, {p})
    BY <1>2, IndexNoteFacts
  <2>2. /\ files' = files /\ Moves(a) /\ act[a].pc = "indexing" /\ act[a].path = {p} /\ act[a].seen = {c}
        /\ ~loaded => act'[a].pc = "scan" /\ act'[a].todo = Scanned
    BY <2>1 DEF FilesStay, Processes, Steps, Turns
  <2>3. p \in DOMAIN index' /\ index'[p] = c /\ \A q : q # p => (q \in DOMAIN index' <=> q \in DOMAIN index) /\ (q \in DOMAIN index => index'[q] = index[q])
    BY <2>1 DEF Put
  <2>4. p \notin indexOff => p \in DOMAIN files /\ files[p] = c
    BY <1>0, <2>2 DEF FreshAt, Fresh, IndexReads
  <2>5. p \notin indexOff => IndexAt(p)'
    BY <2>2, <2>3, <2>4 DEF IndexAt, Indexed
  <2>6. ASSUME NEW q \in Paths \ indexOff, q # p
        PROVE  /\ ~Unlists(a, q) /\ ~IndexOwes(a, q)
               /\ q \in DOMAIN files /\ SecondPass /\ Dir(q) # "seed" => IndexOwed(q)'
    BY <2>2, <2>6, <1>0 DEF Unlists, IndexOwes, Scans, SecondPass, Scanned, IndexOwed
  <2> QED  BY <1>0, <2>1, <2>2, <2>3, <2>5, <2>6, IndexStep
<1>3. CASE ReadForVector(a)
  BY <1>3, ReadFacts, <1>b, <1>d DEF ReadForVector, Doing, Steps, Turns, IndexWork, Scans
<1>4. CASE StoreVector(a) \/ EmbedFails(a)
  BY <1>4, EmbedFacts, <1>c, <1>d DEF Processes, Steps, Turns, IndexWork, Scans
<1>5. CASE ReadForGraph(a)
  BY <1>5, <1>a, ReadForGraphFacts, <1>b, <1>d DEF Turns, IndexWork, Scans
<1>6. CASE Unstate(a) \/ State(a)
  <2>1. GraphStep /\ Moves(a) /\ act[a].pc \in {"extracting", "stating"} /\ act'[a].pc \in {"stating", "relating"}
    BY <1>6, UnstateFacts, StateFacts DEF Processes, Steps, Turns
  <2> QED  BY <1>c, <1>d, <2>1 DEF IndexWork, Scans
<1>7. CASE Relate(a) \/ Commit(a)
  <2>1. GraphStep /\ act[a].pc \in {"relating", "committing"} /\ (Steps(a, "committing") \/ Ends(a))
    BY <1>7, RelateFacts, CommitFacts DEF Processes
  <2>2. Moves(a) /\ act'[a].pc \in {"committing", "idle", "ready", "stubbing"}
    BY <1>a, <2>1 DEF Steps, Turns
  <2> QED  BY <1>c, <1>d, <2>1, <2>2 DEF IndexWork, Scans
<1>8. CASE Unlist(a)
  <2>1. PICK p : /\ Clears(a, p, "unlisting") /\ FilesStay /\ index' = Drop(index, {p}) /\ loaded' = loaded /\ indexOff' = indexOff
                 /\ Steps(a, "unembedding")
    BY <1>8, UnlistFacts
  <2>2. /\ files' = files /\ Moves(a) /\ act[a].pc = "unlisting" /\ act[a].path = {p} /\ act'[a].pc = "unembedding"
    BY <2>1 DEF FilesStay, Clears, Steps, Turns
  <2>3. DOMAIN index' = DOMAIN index \ {p} /\ \A q \in DOMAIN index \ {p} : index'[q] = index[q]
    BY <2>1, DropFacts
  <2>4. p \notin indexOff => p \notin DOMAIN files
    BY <1>0, <2>2 DEF FreshAt, Fresh
  <2>5. p \notin indexOff => IndexAt(p)'
    BY <2>2, <2>3, <2>4 DEF IndexAt
  <2>6. SecondPass => SecondPass'
    BY <1>0, <2>1, <2>2, SecondStays DEF Scans
  <2>7. \A q : q # p => ~Unlists(a, q) /\ ~IndexOwes(a, q)
    BY <2>2 DEF Unlists, IndexOwes, Scans
  <2> QED  BY <1>0, <2>1, <2>2, <2>3, <2>5, <2>6, <2>7, IndexStep DEF IndexOwed
<1>9. CASE Unembed(a)
  BY <1>9, UnembedFacts, <1>c, <1>d DEF Clears, Steps, Turns, IndexWork, Scans
<1>10. CASE Withdraw(a)
  BY <1>10, WithdrawFacts, <1>a, <1>c, <1>d DEF Clears, IndexWork, Scans
<1> QED  BY <1>1, <1>2, <1>3, <1>4, <1>5, <1>6, <1>7, <1>8, <1>9, <1>10 DEF Subscribers

LEMMA IndexScan ==
  ASSUME ShapeInv, FreshInv, IndexInv, NEW a \in Tasks \cup {"reindex"}, ReadToScan(a) \/ Scan(a) \/ ScanEnds(a)
  PROVE  IndexInv'
<1>0. a \in Acts /\ FreshAt(a)
  BY ActsFacts DEF FreshInv
<1>a. a \in Tasks /\ act[a].pc \in Scans => ~SecondPass
  BY DEF SecondPass
<1>1. CASE ReadToScan(a)
  <2>1. AllStay /\ act[a].pc = "scan"
    BY <1>1, ReadToScanFacts
  <2>2. files' = files /\ index' = index /\ loaded' = loaded /\ indexOff' = indexOff
    BY <2>1 DEF AllStay, FilesStay, StoresStay, IndexStays
  <2>3. PICK p : \/ p \in DOMAIN files /\ Turns(a, "scanning", {p}, {files[p]}, act[a].todo \ {p}, act[a].to)
                 \/ p \notin DOMAIN files /\ Turns(a, "scan", act[a].path, act[a].seen, act[a].todo \ {p}, act[a].to)
    BY <1>1, ReadToScanFacts
  <2>4. Moves(a) /\ act'[a].pc \in Scans /\ act'[a].again = act[a].again
    BY <2>3 DEF Turns, Scans
  <2>5. SecondPass => SecondPass'
    BY <1>0, <2>1, <2>2, <2>4, SecondStays DEF Scans
  <2>6. \A q : ~Unlists(a, q) /\ (q \in DOMAIN files /\ IndexOwes(a, q) => IndexOwes(a, q)')
    BY <2>1, <2>3 DEF Unlists, IndexOwes, Scans, Turns
  <2> QED  BY <1>0, <2>2, <2>4, <2>5, <2>6, IndexKeep DEF IndexOwed
<1>2. CASE Scan(a)
  <2>1. PICK p, c : /\ Processes(a, p, c, "scanning") /\ FilesStay
                    /\ index' = Put(index, p, c) /\ loaded' = loaded /\ indexOff' = indexOff /\ Steps(a, "scan")
    BY <1>2, ScanFacts
  <2>2. /\ files' = files /\ Moves(a) /\ act[a].pc = "scanning" /\ act[a].path = {p} /\ act[a].seen = {c}
        /\ act'[a].pc = "scan" /\ act'[a].todo = act[a].todo /\ act'[a].again = act[a].again
    BY <2>1 DEF FilesStay, Processes, Steps, Turns
  <2>3. p \in DOMAIN index' /\ index'[p] = c /\ \A q : q # p => (q \in DOMAIN index' <=> q \in DOMAIN index) /\ (q \in DOMAIN index => index'[q] = index[q])
    BY <2>1 DEF Put
  <2>4. p \notin indexOff => p \in DOMAIN files /\ files[p] = c
    BY <1>0, <2>2 DEF FreshAt, Fresh, IndexReads
  <2>5. p \notin indexOff => IndexAt(p)'
    BY <2>2, <2>3, <2>4 DEF IndexAt, Indexed
  <2>6. SecondPass => SecondPass'
    BY <1>0, <2>1, <2>2, SecondStays DEF Scans
  <2>7. \A q : q # p => ~Unlists(a, q) /\ (IndexOwes(a, q) => IndexOwes(a, q)')
    BY <2>2 DEF Unlists, IndexOwes, Scans
  <2> QED  BY <1>0, <2>1, <2>2, <2>3, <2>5, <2>6, <2>7, IndexStep DEF IndexOwed
<1>3. CASE ScanEnds(a)
  <2>1. /\ act[a].pc = "scan" /\ act[a].todo = {} /\ files' = files /\ index' = index /\ indexOff' = indexOff
    BY <1>3, ScanEndsFacts DEF FilesStay
  <2>2. \A q : ~Unlists(a, q) /\ ~IndexOwes(a, q)
    BY <2>1 DEF Unlists, IndexOwes, Scans
  <2>3. Moves(a)
    BY <1>3, ScanMoves
  <2>4. ASSUME NEW q \in DOMAIN files, SecondPass, Dir(q) # "seed" PROVE IndexOwed(q)'
    BY <1>a, <2>1, <2>4, <1>3, ScanEndsFacts, <1>0 DEF Scans, SecondPass, IndexOwes, Scanned, IndexOwed
  <2> QED  BY <1>0, <2>1, <2>2, <2>3, <2>4, IndexKeep
<1> QED  BY <1>1, <1>2, <1>3

LEMMA IndexCare ==
  ASSUME ShapeInv, IndexInv, Care
  PROVE  IndexInv'
<1>0. "care" \in Acts /\ Moves("care")
  BY ActsFacts, CareMoves
<1>1. act["care"].pc \notin IndexWork /\ act'["care"].pc \notin Scans
  BY ShapeCare, <1>0 DEF ShapeInv, FitsInv, Fits, Promoting, IndexWork, Scans
<1>a. AllStay => IndexInv'
  BY <1>0, <1>1, IndexQuiet DEF AllStay, FilesStay, StoresStay, IndexStays
<1>b. ASSUME NEW C, OnlyAt(C), Silently(C), index' = index, loaded' = loaded PROVE IndexInv'
  BY <1>0, <1>1, <1>b, IndexChange DEF Silently
<1>2. CASE StartCare \/ Visit \/ PromotionFails
  BY <1>2, <1>a, StartCareFacts, VisitFacts, PromotionFailsFacts
<1>3. CASE ReadStatus \/ ReadField
  BY <1>3, <1>a, CareReadFacts
<1>4. CASE WriteStatus
  <2>1. PICK p, c, n : StatusWritten(p, c, n)
    BY <1>4, WriteStatusFacts
  <2>2. index' = index /\ loaded' = loaded
    BY <2>1 DEF StatusWritten
  <2>3. CASE files' = files /\ indexOff' = indexOff
    BY <1>0, <1>1, <2>2, <2>3, IndexQuiet
  <2>4. CASE files' = Put(files, p, n) /\ Silently({p})
    BY <1>b, <2>2, <2>4, OnlyPut
  <2> QED  BY <2>1, <2>3, <2>4 DEF StatusWritten
<1>5. CASE WriteField
  <2>1. PICK p, c, n, goal : FieldWritten(p, c, n, goal)
    BY <1>5, WriteFieldFacts
  <2>2. files' = Put(files, p, n) /\ Silently({p}) /\ index' = index /\ loaded' = loaded
    BY <2>1 DEF FieldWritten
  <2> QED  BY <1>b, <2>2, OnlyPut
<1>6. CASE Rename
  BY <1>6, RenameFacts, <1>b, OnlyMove DEF Renamed
<1> QED  BY <1>2, <1>3, <1>4, <1>5, <1>6 DEF Care

LEMMA IndexCrash ==
  ASSUME ShapeInv, Crash
  PROVE  IndexInv'
BY CrashFacts, IdleFacts DEF Crashed, SecondPass, Scans, IndexInv, IndexAt, IndexOwed

LEMMA IndexSame ==
  ASSUME IndexInv, files' = files, act' = act, index' = index, loaded' = loaded, indexOff' = indexOff
  PROVE  IndexInv'
BY DEF IndexInv, IndexAt, Indexed, IndexOwed, IndexOwes, Unlists, SecondPass

LEMMA IndexNext ==
  ASSUME ShapeInv, OldFound, FreshInv, IndexInv, GardenNext
  PROVE  IndexInv'
<1>0. \A a \in {"edges", "rebuild"} : a \in Acts /\ a # "reindex"
  BY ActsFacts
<1>1. CASE EdgeLife
  <2>1. EdgeStep
    BY <1>1, EdgeLifeFacts
  <2>2. /\ files' = files /\ index' = index /\ loaded' = loaded /\ indexOff' = indexOff /\ Moves("edges")
        /\ act'["edges"].pc \notin Scans
    BY <2>1 DEF EdgeStep, FilesStay, IndexStays, Scans
  <2>3. act["edges"].pc \notin IndexWork
    BY <1>0 DEF ShapeInv, FitsInv, Fits, IndexWork, Scans
  <2> QED  BY <1>0, <2>2, <2>3, IndexQuiet
<1>2. CASE MonthsPass
  BY <1>2, MonthsPassFacts, IndexSame DEF FilesStay, IndexStays
<1>3. CASE ReadToRebuild \/ RebuildNote \/ RebuildFails \/ RebuildEnds
  <2>1. files' = files /\ index' = index /\ loaded' = loaded /\ indexOff' = indexOff
    BY <1>3, ReadToRebuildFacts, RebuildNoteFacts, RebuildFailsFacts, RebuildEndsFacts
       DEF RebuiltOne, RebuildFailed, AllStay, StoresStay, FilesStay, IndexStays
  <2>2. ShapeInv' /\ Moves("rebuild")
    BY <1>3, ShapeRebuild, RebuildMoves
  <2>3. act["rebuild"].pc \notin IndexWork /\ act'["rebuild"].pc \notin Scans
    BY <1>0, <2>2 DEF ShapeInv, FitsInv, Fits, IndexWork, Scans
  <2> QED  BY <1>0, <2>1, <2>2, <2>3, IndexQuiet
<1> QED  BY <1>1, <1>2, <1>3, IndexCare, IndexCrash, IndexScan, IndexWriter, IndexSubscribers DEF GardenNext, Start

LEMMA IndexFirst ==
  ASSUME GardenInit
  PROVE  IndexInv
BY DEF GardenInit, IndexInv, IndexAt, Indexed

LEMMA IndexSafe ==
  ASSUME IndexInv, Quiet
  PROVE  IndexAgrees
<1>1. \A b \in Acts : act[b].pc = "idle"
  BY DEF Quiet
<1>2. \A p : ~IndexOwed(p) /\ \A b \in Acts : ~Unlists(b, p)
  BY <1>1, ActsFacts DEF IndexOwed, IndexOwes, Unlists, SecondPass, Scans
<1> QED  BY <1>2 DEF IndexInv, IndexAt, Indexed, IndexAgrees

-----------------------------------------------------------------------------
\* The vectors.

ToEmbed == {"listing", "indexing", "toEmbed", "embedding"}
Unembeds == {"unlisting", "unembedding"}
VectorWork == ToEmbed \cup Unembeds \cup Scans

VectorOwes(b, p) ==
  /\ b \in Tasks
  /\ \/ act[b].pc \in ToEmbed /\ p \in act[b].path
     \/ act[b].pc \in Scans /\ p \in act[b].to
Forgoes(b, p) == b \in Tasks /\ act[b].pc \in Unembeds /\ p \in act[b].path

Row(p) == <<p, "abs">>
Embedded(p) == Row(p) \in DOMAIN vectors /\ vectors[Row(p)] = files[p]
VectorAt(p) == IF p \in DOMAIN files THEN Embedded(p) \/ \E b \in Tasks : VectorOwes(b, p)
               ELSE Row(p) \notin DOMAIN vectors \/ \E b \in Tasks : Forgoes(b, p)
VectorInv == \A p \in Paths \ vectorsOff : VectorAt(p)

LEMMA VectorStep ==
  ASSUME VectorInv, NEW a \in Acts, NEW C, Moves(a), OnlyAt(C), vectorsOff \subseteq vectorsOff',
         \A q : q \notin C => /\ (Row(q) \in DOMAIN vectors' <=> Row(q) \in DOMAIN vectors)
                              /\ (Row(q) \in DOMAIN vectors => vectors'[Row(q)] = vectors[Row(q)]),
         \A p \in C : p \in vectorsOff' \/ VectorAt(p)',
         \A q : q \notin C => /\ (q \notin DOMAIN files /\ Forgoes(a, q) => Forgoes(a, q)')
                              /\ (q \in DOMAIN files /\ VectorOwes(a, q) => VectorOwes(a, q)')
  PROVE  VectorInv'
<1>1. ASSUME NEW p \in Paths \ vectorsOff', p \notin C PROVE VectorAt(p)'
  <2>1. VectorAt(p)
    BY <1>1 DEF VectorInv
  <2>2. ASSUME NEW b \in Tasks, b # a PROVE (VectorOwes(b, p) => VectorOwes(b, p)') /\ (Forgoes(b, p) => Forgoes(b, p)')
    BY <2>2, ActsFacts DEF Moves, Stays, Copies, VectorOwes, Forgoes
  <2>3. CASE p \in DOMAIN files
    BY <1>1, <2>3, <2>2, <2>1 DEF OnlyAt, Embedded, VectorAt, Row
  <2>4. CASE p \notin DOMAIN files
    BY <1>1, <2>4, <2>2, <2>1 DEF OnlyAt, VectorAt, Row
  <2> QED  BY <2>3, <2>4
<1> QED  BY <1>1 DEF VectorInv

\* Nobody who does anything for the vectors takes a step, and notes change at C only.
LEMMA VectorChange ==
  ASSUME VectorInv, NEW a \in Acts, NEW C, Moves(a), OnlyAt(C), vectorsOff \subseteq vectorsOff',
         vectors' = vectors, a \in Tasks => act[a].pc \notin VectorWork,
         \A p \in C : p \in vectorsOff' \/ VectorAt(p)'
  PROVE  VectorInv'
BY VectorStep DEF Forgoes, VectorOwes, VectorWork

LEMMA VectorQuiet ==
  ASSUME VectorInv, NEW a \in Acts, Moves(a), files' = files, vectors' = vectors, vectorsOff' = vectorsOff,
         a \in Tasks => act[a].pc \notin VectorWork
  PROVE  VectorInv'
BY VectorChange DEF OnlyAt

\* Who does something for the vectors goes on.
LEMMA VectorOn ==
  ASSUME VectorInv, NEW a \in Acts, Moves(a), files' = files, vectors' = vectors, vectorsOff' = vectorsOff,
         \A q : /\ (q \notin DOMAIN files /\ Forgoes(a, q) => Forgoes(a, q)')
                /\ (q \in DOMAIN files /\ VectorOwes(a, q) => VectorOwes(a, q)')
  PROVE  VectorInv'
BY VectorStep DEF OnlyAt

LEMMA VectorWriter ==
  ASSUME ShapeInv, VectorInv, NEW a \in Tasks, Writer(a)
  PROVE  VectorInv'
<1>0. a \in Acts
  BY ActsFacts
<1>a. Rests(a) => Moves(a)
  BY DEF Rests
<1>b. AllStay => files' = files /\ vectors' = vectors /\ vectorsOff' = vectorsOff
  BY DEF AllStay, FilesStay, StoresStay, VectorsStay
<1>c. ASSUME AllStay, Moves(a), act[a].pc \in {"waiting", "ready", "applying"}
      PROVE  VectorInv'
  BY <1>0, <1>b, <1>c, VectorQuiet DEF VectorWork, ToEmbed, Unembeds, Scans
<1>d. ASSUME NEW p, NEW n, files' = Put(files, p, n), vectors' = vectors, Tells(a, p),
             Moves(a), act[a].pc \in {"naming", "applying"}, act'[a].pc = "listing", act'[a].path = {p}
      PROVE  VectorInv'
  <2>0. files' = Put(files, p, n)
    BY <1>d
  <2>1. OnlyAt({p}) /\ p \in DOMAIN files'
    BY <2>0, OnlyPut
  <2>2. VectorOwes(a, p)'
    BY <1>d DEF VectorOwes, ToEmbed
  <2>3. VectorAt(p)'
    BY <2>1, <2>2 DEF VectorAt
  <2>4. vectorsOff \subseteq vectorsOff'
    BY <1>d DEF Tells, Marked
  <2> QED  BY <1>0, <1>d, <2>1, <2>3, <2>4, VectorChange DEF VectorWork, ToEmbed, Unembeds, Scans
<1>1. CASE Choose(a)
  BY <1>1, ChooseFacts, <1>c DEF Turns
<1>2. CASE Create(a)
  <2>1. PICK p, x, n : Created(a, p, x, n)
    BY <1>2, CreateFacts
  <2> QED  BY <1>d, <2>1 DEF Created, Changes, Steps, Turns
<1>3. CASE Find(a)
  BY <1>3, <1>a, FindFacts, <1>c DEF Turns
<1>4. CASE Replace(a)
  <2>1. PICK p, x, n : Replaced(a, p, x, n)
    BY <1>4, ReplaceFacts
  <2> QED  BY <1>d, <2>1 DEF Replaced, Applies, Changes, Steps, Turns
<1>5. CASE AppendText(a)
  <2>1. PICK p, x, n : Extended(a, p, x, n)
    BY <1>5, AppendFacts
  <2> QED  BY <1>d, <2>1 DEF Extended, Applies, Changes, Steps, Turns
<1>6. CASE Delete(a)
  <2>1. ASSUME NEW p, Removed(a, p) PROVE VectorInv'
    <3>1. /\ files' = Drop(files, {p}) /\ Tells(a, p) /\ Moves(a) /\ act[a].pc = "applying"
          /\ act'[a].pc = "unlisting" /\ act'[a].path = {p} /\ vectors' = vectors
      BY <2>1 DEF Removed, Applies, Changes, Steps, Turns
    <3>2. OnlyAt({p}) /\ p \notin DOMAIN files'
      BY <3>1, OnlyDrop
    <3>3. VectorAt(p)'
      BY <1>0, <3>1, <3>2 DEF VectorAt, Forgoes, Unembeds
    <3>4. vectorsOff \subseteq vectorsOff'
      BY <3>1 DEF Tells, Marked
    <3> QED  BY <1>0, <3>1, <3>2, <3>3, <3>4, VectorChange DEF VectorWork, ToEmbed, Unembeds, Scans
  <2>2. CASE act[a].pc = "applying" /\ AllStay /\ Rests(a)
    BY <1>a, <1>c, <2>2
  <2> QED  BY <1>6, <2>1, <2>2, DeleteFacts
<1>7. CASE Stub(a)
  <2>1. PICK e, n : Stubbed(a, e, n)
    BY <1>7, StubFacts
  <2>2. /\ files' = Put(files, e, n) /\ Silently({e}) /\ Moves(a) /\ vectors' = vectors /\ act[a].pc = "stubbing"
    BY <1>a, <2>1 DEF Stubbed, Turns
  <2> QED  BY <1>0, <2>2, OnlyPut, VectorChange DEF VectorWork, ToEmbed, Unembeds, Scans, Silently
<1> QED  BY <1>1, <1>2, <1>3, <1>4, <1>5, <1>6, <1>7 DEF Writer

LEMMA VectorSubscribers ==
  ASSUME ShapeInv, FreshInv, VectorInv, NEW a \in Tasks, Subscribers(a)
  PROVE  VectorInv'
<1>0. a \in Acts /\ FreshAt(a)
  BY ActsFacts DEF FreshInv
<1>a. Ends(a) => Moves(a)
  BY EndsMoves
<1>b. AllStay \/ GraphStep \/ (FilesStay /\ VectorsStay) => files' = files /\ vectors' = vectors /\ vectorsOff' = vectorsOff
  BY DEF AllStay, GraphStep, FilesStay, StoresStay, VectorsStay
<1>d. ASSUME files' = files, vectors' = vectors, vectorsOff' = vectorsOff, Moves(a), act[a].pc \notin VectorWork
      PROVE  VectorInv'
  BY <1>0, <1>d, VectorQuiet
<1>1. CASE ReadForIndex(a) \/ ReadForVector(a)
  <2>1. PICK p : p = At(a)
    OBVIOUS
  <2>2. /\ AllStay /\ Moves(a) /\ act[a].path = {p} /\ act'[a].path = {p} /\ act[a].pc \in {"listing", "toEmbed"}
        /\ act'[a].pc \in {"indexing", "toEmbed", "embedding"} \/ p \notin DOMAIN files
    BY <1>1, <2>1, ReadFacts DEF Steps, Turns
  <2>3. \A q : ~Forgoes(a, q) /\ (q \in DOMAIN files /\ VectorOwes(a, q) => VectorOwes(a, q)')
    BY <2>2 DEF Forgoes, VectorOwes, ToEmbed, Unembeds, Scans
  <2> QED  BY <1>0, <1>b, <2>2, <2>3, VectorOn
<1>2. CASE IndexNote(a)
  <2>1. PICK p, c : /\ Processes(a, p, c, "indexing") /\ FilesStay /\ VectorsStay
                    /\ Steps(a, "toEmbed") \/ Turns(a, "scan", {p}, {c}, Scanned, {p})
    BY <1>2, IndexNoteFacts
  <2>2. \A q : ~Forgoes(a, q) /\ (VectorOwes(a, q) => VectorOwes(a, q)')
    BY <2>1 DEF Forgoes, VectorOwes, ToEmbed, Unembeds, Scans, Processes, Steps, Turns
  <2> QED  BY <1>0, <1>b, <2>1, <2>2, VectorOn DEF Steps, Turns
<1>3. CASE StoreVector(a) \/ EmbedFails(a)
  <2>1. PICK p, c : /\ Processes(a, p, c, "embedding") /\ FilesStay /\ Steps(a, "toGraph")
                    /\ \/ vectors' = Put(vectors, <<p, "abs">>, c) /\ vectorsOff' = vectorsOff
                       \/ vectors' = vectors /\ vectorsOff' = vectorsOff \cup {p}
    BY <1>3, EmbedFacts
  <2>2. files' = files /\ Moves(a) /\ act[a].pc = "embedding" /\ act[a].path = {p} /\ act[a].seen = {c}
    BY <2>1 DEF FilesStay, Processes, Steps, Turns
  <2>3. OnlyAt({p}) /\ vectorsOff \subseteq vectorsOff'
    BY <2>1, <2>2 DEF OnlyAt
  <2>4. \A q : q # p => /\ (Row(q) \in DOMAIN vectors' <=> Row(q) \in DOMAIN vectors)
                        /\ (Row(q) \in DOMAIN vectors => vectors'[Row(q)] = vectors[Row(q)])
    BY <2>1 DEF Put, Row
  <2>5. p \notin vectorsOff => p \in DOMAIN files /\ files[p] = c
    BY <1>0, <2>2 DEF FreshAt, Fresh
  <2>6. p \in vectorsOff' \/ VectorAt(p)'
    BY <2>2, <2>5, <2>1 DEF Put, Row, VectorAt, Embedded
  <2>7. \A q : q # p => ~Forgoes(a, q) /\ ~VectorOwes(a, q)
    BY <2>2 DEF Forgoes, VectorOwes, ToEmbed, Unembeds, Scans
  <2> QED  BY <1>0, <2>2, <2>3, <2>4, <2>6, <2>7, VectorStep
<1>4. CASE ReadForGraph(a)
  BY <1>4, <1>a, ReadForGraphFacts, <1>b, <1>d DEF Turns, VectorWork, ToEmbed, Unembeds, Scans
<1>5. CASE Unstate(a) \/ State(a)
  <2>1. GraphStep /\ Moves(a) /\ act[a].pc \in {"extracting", "stating"}
    BY <1>5, UnstateFacts, StateFacts DEF Processes, Steps, Turns
  <2> QED  BY <1>b, <1>d, <2>1 DEF VectorWork, ToEmbed, Unembeds, Scans
<1>6. CASE Relate(a) \/ Commit(a)
  <2>1. GraphStep /\ act[a].pc \in {"relating", "committing"} /\ (Steps(a, "committing") \/ Ends(a))
    BY <1>6, RelateFacts, CommitFacts DEF Processes
  <2> QED  BY <1>a, <1>b, <1>d, <2>1 DEF VectorWork, ToEmbed, Unembeds, Scans, Steps, Turns
<1>7. CASE Unlist(a)
  <2>1. PICK p : Clears(a, p, "unlisting") /\ FilesStay /\ VectorsStay /\ Steps(a, "unembedding")
    BY <1>7, UnlistFacts
  <2>2. \A q : ~VectorOwes(a, q) /\ (Forgoes(a, q) => Forgoes(a, q)')
    BY <2>1 DEF Forgoes, VectorOwes, ToEmbed, Unembeds, Scans, Clears, Steps, Turns
  <2> QED  BY <1>0, <1>b, <2>1, <2>2, VectorOn DEF Steps, Turns
<1>8. CASE Unembed(a)
  <2>1. PICK p : /\ Clears(a, p, "unembedding") /\ FilesStay
                 /\ vectors' = Drop(vectors, {<<p, "abs">>}) /\ vectorsOff' = vectorsOff /\ Steps(a, "removing")
    BY <1>8, UnembedFacts
  <2>2. files' = files /\ Moves(a) /\ act[a].pc = "unembedding" /\ act[a].path = {p}
    BY <2>1 DEF FilesStay, Clears, Steps, Turns
  <2>3. DOMAIN vectors' = DOMAIN vectors \ {Row(p)} /\ \A k \in DOMAIN vectors \ {Row(p)} : vectors'[k] = vectors[k]
    BY <2>1, DropFacts DEF Row
  <2>4. \A q : q # p => Row(q) # Row(p)
    BY DEF Row
  <2>5. p \notin vectorsOff => p \notin DOMAIN files
    BY <1>0, <2>2 DEF FreshAt, Fresh
  <2>6. p \in vectorsOff' \/ VectorAt(p)'
    BY <2>1, <2>2, <2>3, <2>5 DEF VectorAt, Row
  <2>7. \A q : q # p => ~Forgoes(a, q) /\ ~VectorOwes(a, q)
    BY <2>2 DEF Forgoes, VectorOwes, ToEmbed, Unembeds, Scans
  <2>8. OnlyAt({p}) /\ vectorsOff \subseteq vectorsOff'
    BY <2>1, <2>2 DEF OnlyAt
  <2> QED  BY <1>0, <2>2, <2>3, <2>4, <2>6, <2>7, <2>8, VectorStep
<1>9. CASE Withdraw(a)
  BY <1>9, WithdrawFacts, <1>a, <1>b, <1>d DEF Clears, VectorWork, ToEmbed, Unembeds, Scans
<1> QED  BY <1>1, <1>2, <1>3, <1>4, <1>5, <1>6, <1>7, <1>8, <1>9 DEF Subscribers

LEMMA VectorScan ==
  ASSUME ShapeInv, VectorInv, NEW a \in Tasks \cup {"reindex"}, ReadToScan(a) \/ Scan(a) \/ ScanEnds(a)
  PROVE  VectorInv'
<1>0. a \in Acts /\ Moves(a)
  BY ScanMoves
<1>1. files' = files /\ vectors' = vectors /\ vectorsOff' = vectorsOff
  BY ReadToScanFacts, ScanFacts, ScanEndsFacts DEF AllStay, FilesStay, StoresStay, VectorsStay
<1>2. act[a].pc \in Scans
  BY ReadToScanFacts, ScanFacts, ScanEndsFacts DEF Processes, Scans
<1>3. a \in Tasks => \/ act'[a].pc \in Scans /\ act'[a].to = act[a].to
                     \/ act'[a].pc = "toEmbed" /\ act'[a].path = act[a].to
  BY ReadToScanFacts, ScanFacts, ScanEndsFacts DEF Turns, Scans, Steps
<1>4. \A q : ~Forgoes(a, q) /\ (VectorOwes(a, q) => VectorOwes(a, q)')
  BY <1>2, <1>3 DEF Forgoes, VectorOwes, Scans, ToEmbed, Unembeds
<1> QED  BY <1>0, <1>1, <1>4, VectorOn

LEMMA VectorCare ==
  ASSUME ShapeInv, VectorInv, Care
  PROVE  VectorInv'
<1>0. "care" \in Acts /\ Moves("care") /\ "care" \notin Tasks
  BY ActsFacts, CareMoves
<1>a. AllStay => VectorInv'
  BY <1>0, VectorQuiet DEF AllStay, FilesStay, StoresStay, VectorsStay
<1>b. ASSUME NEW C, OnlyAt(C), Silently(C), vectors' = vectors PROVE VectorInv'
  BY <1>0, <1>b, VectorChange DEF Silently
<1>2. CASE StartCare \/ Visit \/ PromotionFails
  BY <1>2, <1>a, StartCareFacts, VisitFacts, PromotionFailsFacts
<1>3. CASE ReadStatus \/ ReadField
  BY <1>3, <1>a, CareReadFacts
<1>4. CASE WriteStatus
  <2>1. PICK p, c, n : StatusWritten(p, c, n)
    BY <1>4, WriteStatusFacts
  <2>2. CASE files' = files /\ vectors' = vectors /\ vectorsOff' = vectorsOff
    BY <1>0, <2>2, VectorQuiet
  <2>3. CASE files' = Put(files, p, n) /\ vectors' = Put(vectors, <<p, "rel">>, n) /\ Silently({p})
    BY <2>3, OnlyPut, <1>0, VectorStep DEF Row, Put, Silently, Forgoes, VectorOwes
  <2> QED  BY <2>1, <2>2, <2>3 DEF StatusWritten
<1>5. CASE WriteField
  <2>1. PICK p, c, n, goal : FieldWritten(p, c, n, goal)
    BY <1>5, WriteFieldFacts
  <2>2. files' = Put(files, p, n) /\ Silently({p}) /\ vectors' = vectors
    BY <2>1 DEF FieldWritten
  <2> QED  BY <1>b, <2>2, OnlyPut
<1>6. CASE Rename
  BY <1>6, RenameFacts, <1>b, OnlyMove DEF Renamed
<1> QED  BY <1>2, <1>3, <1>4, <1>5, <1>6 DEF Care

LEMMA VectorCrash ==
  ASSUME ShapeInv, VectorInv, Crash
  PROVE  VectorInv'
<1>1. files' = files /\ vectors' = vectors /\ vectorsOff' = vectorsOff \cup InFlight
  BY CrashFacts DEF Crashed
<1>2. ASSUME NEW p \in Paths \ vectorsOff' PROVE VectorAt(p)'
  <2>1. VectorAt(p) /\ p \notin InFlight
    BY <1>1, <1>2 DEF VectorInv
  <2>2. \A b \in Tasks : ~VectorOwes(b, p) /\ ~Forgoes(b, p)
    BY <2>1 DEF InFlight, VectorOwes, Forgoes
  <2> QED  BY <1>1, <2>1, <2>2 DEF VectorAt, Embedded, Row
<1> QED  BY <1>2 DEF VectorInv

LEMMA VectorSame ==
  ASSUME VectorInv, files' = files, act' = act, vectors' = vectors, vectorsOff' = vectorsOff
  PROVE  VectorInv'
BY DEF VectorInv, VectorAt, Embedded, Row, VectorOwes, Forgoes

LEMMA VectorNext ==
  ASSUME ShapeInv, OldFound, FreshInv, VectorInv, GardenNext
  PROVE  VectorInv'
<1>0. \A a \in {"edges", "rebuild"} : a \in Acts /\ a \notin Tasks
  BY ActsFacts
<1>1. CASE EdgeLife
  BY <1>1, EdgeLifeFacts, <1>0, VectorQuiet DEF EdgeStep, FilesStay, VectorsStay
<1>2. CASE MonthsPass
  BY <1>2, MonthsPassFacts, VectorSame DEF FilesStay, VectorsStay
<1>3. CASE ReadToRebuild \/ RebuildNote \/ RebuildFails \/ RebuildEnds
  <2>1. files' = files /\ vectors' = vectors /\ vectorsOff' = vectorsOff
    BY <1>3, ReadToRebuildFacts, RebuildNoteFacts, RebuildFailsFacts, RebuildEndsFacts
       DEF RebuiltOne, RebuildFailed, AllStay, StoresStay, FilesStay, VectorsStay
  <2> QED  BY <1>0, <1>3, <2>1, RebuildMoves, VectorQuiet
<1> QED  BY <1>1, <1>2, <1>3, VectorCare, VectorCrash, VectorScan, VectorWriter, VectorSubscribers DEF GardenNext, Start

LEMMA VectorFirst ==
  ASSUME GardenInit
  PROVE  VectorInv
BY DEF GardenInit, Row, VectorInv, VectorAt, Embedded

LEMMA VectorSafe ==
  ASSUME VectorInv, Quiet
  PROVE  VectorsAgree
<1>1. \A b \in Acts : act[b].pc = "idle"
  BY DEF Quiet
<1>2. \A p : \A b \in Tasks : ~VectorOwes(b, p) /\ ~Forgoes(b, p)
  BY <1>1, ActsFacts DEF VectorOwes, Forgoes, ToEmbed, Unembeds, Scans
<1> QED  BY <1>2 DEF VectorInv, VectorAt, Embedded, Row, VectorsAgree

-----------------------------------------------------------------------------
\* The rows of the graph, what is committed and what is not; who is going to write relationships
\* has identifiers of entities that exist.

Resolved(b) == act[b].pc = "relating" => act[b].names \subseteq DOMAIN graph.ents
RowsInv == Sound(graph) /\ Sound(saved) /\ graph.hashes = saved.hashes /\ \A b \in Acts : Resolved(b)

LEMMA RowsStep ==
  ASSUME RowsInv, NEW a \in Acts, Moves(a), Sound(graph'), Sound(saved'), graph'.hashes = saved'.hashes,
         Resolved(a)',
         \/ NamesStay(Acts \ {a}) /\ DOMAIN graph.ents \subseteq DOMAIN graph'.ents
         \/ \E g : Forgotten(g, Acts \ {a}) /\ DOMAIN g.ents \subseteq DOMAIN graph'.ents
  PROVE  RowsInv'
<1>1. ASSUME NEW b \in Acts, b # a, act'[b].pc = "relating" PROVE act'[b].names \subseteq DOMAIN graph'.ents
  <2>1. act[b].pc = "relating" /\ act[b].names \subseteq DOMAIN graph.ents
    BY <1>1 DEF Moves, Stays, Copies, RowsInv, Resolved
  <2>2. CASE NamesStay(Acts \ {a}) /\ DOMAIN graph.ents \subseteq DOMAIN graph'.ents
    BY <1>1, <2>1, <2>2 DEF NamesStay
  <2>3. ASSUME NEW g, Forgotten(g, Acts \ {a}), DOMAIN g.ents \subseteq DOMAIN graph'.ents
        PROVE  act'[b].names \subseteq DOMAIN graph'.ents
    BY <1>1, <2>1, <2>3 DEF Forgotten, Left, GraphPcs
  <2> QED  BY <2>2, <2>3
<1>2. \A b \in Acts : Resolved(b)'
  BY <1>1 DEF Resolved
<1> QED  BY <1>2 DEF RowsInv

\* The graph stays, and who takes the step does not begin to write relationships.
LEMMA RowsQuiet ==
  ASSUME RowsInv, NEW a \in Acts, Moves(a), graph' = graph, saved' = saved, act'[a].pc # "relating", NamesStay(Acts \ {a})
  PROVE  RowsInv'
BY RowsStep DEF Resolved, RowsInv

WriterPcs == {"idle", "ready", "naming", "applying", "listing", "unlisting", "stubbing"}
LEMMA WriterGraph ==
  ASSUME ShapeInv, NEW a \in Tasks, Writer(a)
  PROVE  graph' = graph /\ saved' = saved /\ act'[a].pc \in WriterPcs
<1>a. Rests(a) => act'[a].pc \in {"idle", "ready"}
  BY DEF Rests, Rested
<1>b. AllStay => graph' = graph /\ saved' = saved
  BY DEF AllStay, StoresStay, GraphStays
<1>1. CASE Choose(a)
  BY <1>1, <1>b, ChooseFacts DEF Turns, WriterPcs
<1>2. CASE Create(a)
  BY <1>2, CreateFacts DEF Created, Changes, Steps, Turns, WriterPcs
<1>3. CASE Find(a)
  BY <1>3, <1>a, <1>b, FindFacts DEF Turns, WriterPcs
<1>4. CASE Replace(a)
  BY <1>4, ReplaceFacts DEF Replaced, Changes, Steps, Turns, WriterPcs
<1>5. CASE AppendText(a)
  BY <1>5, AppendFacts DEF Extended, Changes, Steps, Turns, WriterPcs
<1>6. CASE Delete(a)
  BY <1>6, <1>a, <1>b, DeleteFacts DEF Removed, Changes, Steps, Turns, WriterPcs
<1>7. CASE Stub(a)
  BY <1>7, <1>a, StubFacts DEF Stubbed, Turns, WriterPcs
<1> QED  BY <1>1, <1>2, <1>3, <1>4, <1>5, <1>6, <1>7 DEF Writer

\* A subscriber that does not touch the graph.
OtherPcs == {"idle", "ready", "stubbing", "indexing", "toEmbed", "embedding", "toGraph", "extracting", "scan",
             "unembedding", "removing"}
LEMMA SubscriberGraph ==
  ASSUME ShapeInv, NEW a \in Tasks,
         \/ ReadForIndex(a) \/ IndexNote(a) \/ ReadForVector(a) \/ StoreVector(a) \/ EmbedFails(a)
         \/ ReadForGraph(a) \/ Unlist(a) \/ Unembed(a)
  PROVE  /\ Moves(a) /\ NamesStay(Acts \ {a}) /\ files' = files /\ graph' = graph /\ saved' = saved /\ graphOff' = graphOff
         /\ act'[a].pc \in OtherPcs
<1>a. AllStay => files' = files /\ graph' = graph /\ saved' = saved /\ graphOff' = graphOff
  BY DEF AllStay, FilesStay, StoresStay, GraphStays
<1>b. FilesStay /\ GraphStays => files' = files /\ graph' = graph /\ saved' = saved /\ graphOff' = graphOff
  BY DEF FilesStay, GraphStays
<1>c. NamesStay(Acts) => NamesStay(Acts \ {a})
  BY DEF NamesStay
<1>1. CASE ReadForIndex(a) \/ ReadForVector(a)
  BY <1>1, <1>a, <1>c, ReadFacts DEF Steps, Turns, OtherPcs
<1>2. CASE IndexNote(a)
  BY <1>2, <1>b, <1>c, IndexNoteFacts DEF Steps, Turns, OtherPcs
<1>3. CASE StoreVector(a) \/ EmbedFails(a)
  BY <1>3, <1>b, <1>c, EmbedFacts DEF Steps, Turns, OtherPcs
<1>4. CASE ReadForGraph(a)
  BY EndsMoves, <1>4, <1>a, ReadForGraphFacts DEF OtherPcs, Turns
<1>5. CASE Unlist(a) \/ Unembed(a)
  BY <1>5, <1>b, <1>c, UnlistFacts, UnembedFacts DEF Steps, Turns, OtherPcs
<1> QED  BY <1>1, <1>2, <1>3, <1>4, <1>5

LEMMA SiftedRows ==
  ASSUME NEW g, NEW h, Sifted(g, h)
  PROVE  DOMAIN h.ents = DOMAIN g.ents /\ h.hashes = g.hashes /\ (Sound(g) => Sound(h))
BY SoundSame DEF Sifted, SameRows

LEMMA NamesLess ==
  ASSUME NEW s, NEW a, NamesStay(s)
  PROVE  NamesStay(s \ {a})
BY DEF NamesStay

LEMMA GraphRows ==
  ASSUME ShapeInv
  PROVE  graph \in Rows /\ saved \in Rows
BY DEF ShapeInv, TypesInv

LEMMA RowsSubscribers ==
  ASSUME ShapeInv, RowsInv, NEW a \in Tasks, Subscribers(a)
  PROVE  RowsInv'
<1>0. a \in Acts /\ Moves(a)
  BY ActsFacts, SubscriberMoves
<1>a. /\ graph \in Rows /\ saved \in Rows /\ Sound(graph) /\ Sound(saved) /\ graph.hashes = saved.hashes
      /\ act[a].pc = "relating" => act[a].names \subseteq DOMAIN graph.ents
  BY <1>0, GraphRows DEF RowsInv, Resolved
<1>1. CASE \/ ReadForIndex(a) \/ IndexNote(a) \/ ReadForVector(a) \/ StoreVector(a) \/ EmbedFails(a)
           \/ ReadForGraph(a) \/ Unlist(a) \/ Unembed(a)
  BY <1>0, <1>1, SubscriberGraph, RowsQuiet DEF OtherPcs
<1>2. CASE Unstate(a)
  <2>1. PICK p, c, g : /\ Processes(a, p, c, "extracting") /\ g = DeleteSource(graph, p) /\ graph' = g /\ saved' = g
                       /\ Steps(a, "stating") /\ Forgotten(g, Acts)
    BY <1>2, UnstateFacts
  <2>2. p \in Paths /\ act'[a].pc = "stating" /\ Forgotten(g, Acts \ {a})
    BY <2>1 DEF Processes, Steps, Turns, Forgotten
  <2>3. Sound(g)
    BY <1>a, <2>1, <2>2, SoundDeleteSource
  <2>4. Resolved(a)'
    BY <2>2 DEF Resolved
  <2> QED  BY <1>0, <2>1, <2>2, <2>3, <2>4, RowsStep
<1>3. CASE State(a)
  <2>1. PICK p, c, ns : /\ Processes(a, p, c, "stating") /\ ns \in SUBSET Names
                        /\ graph' = UpsertEntities(graph, p, ns) /\ saved' = saved
                        /\ act'[a].names = ns /\ NamesStay(Acts \ {a})
    BY <1>3, StateFacts
  <2>2. p \in Paths
    BY <2>1 DEF Processes
  <2>3. Sound(graph')
    BY <1>a, <2>1, <2>2, SoundUpsertEntities
  <2>4. DOMAIN graph'.ents = DOMAIN graph.ents \cup ns /\ graph'.hashes = graph.hashes
    <3>1. Upserted(graph, graph', p, ns)
      BY <1>a, <2>1, <2>2, UpsertEntitiesFacts
    <3> QED  BY <3>1 DEF Upserted
  <2>5. Resolved(a)'
    BY <2>1, <2>4 DEF Resolved
  <2> QED  BY <1>0, <1>a, <2>1, <2>3, <2>4, <2>5, RowsStep
<1>4. CASE Relate(a)
  <2>1. PICK p, c, es : /\ Processes(a, p, c, "relating") /\ NamesStay(Acts \ {a})
                        /\ es \in SUBSET EdgesBy(p, c) /\ graph' = UpsertEdges(graph, es) /\ saved' = saved
                        /\ \A e \in es : {e.from, e.to} \subseteq act[a].names
                        /\ Steps(a, "committing") \/ Ends(a)
    BY <1>4, RelateFacts
  <2>2. p \in Paths /\ c \in Notes /\ act[a].pc = "relating"
    BY <2>1 DEF Processes
  <2>3. es \in SUBSET Edges /\ \A e \in es : {e.from, e.to} \subseteq DOMAIN graph.ents /\ (e.rel = "states" => e.strong)
    BY <1>a, <2>1, <2>2, LinkFacts, EdgesByFacts
  <2>4. Sound(graph')
    BY <1>a, <2>1, <2>3, SoundUpsertEdges
  <2>5. graph'.ents = graph.ents /\ graph'.hashes = graph.hashes
    BY <1>a, <2>1, <2>3, UpsertEdgesFacts
  <2>6. Resolved(a)'
    BY <2>1, EndsMoves DEF Resolved, Steps, Turns
  <2> QED  BY <1>0, <1>a, <2>1, <2>4, <2>5, <2>6, RowsStep
<1>5. CASE Commit(a)
  <2>1. PICK p, c, g : /\ Processes(a, p, c, "committing") /\ NamesStay(Acts \ {a})
                       /\ g \in {graph, Confirm(graph, p)} /\ graph' = g /\ saved' = g /\ Ends(a)
    BY <1>5, CommitFacts
  <2>2. p \in Paths
    BY <2>1 DEF Processes
  <2>3. Sound(g) /\ DOMAIN g.ents = DOMAIN graph.ents
    <3>1. SameRows(graph, Confirm(graph, p)) /\ Confirm(graph, p).edges = graph.edges
      BY <1>a, <2>2, ConfirmFacts
    <3>2. Sound(Confirm(graph, p))
      BY <1>a, <3>1, SoundSame
    <3> QED  BY <1>a, <2>1, <3>1, <3>2 DEF SameRows
  <2>4. Resolved(a)'
    BY <2>1, EndsMoves DEF Resolved
  <2> QED  BY <1>0, <2>1, <2>3, <2>4, RowsStep
<1>6. CASE Withdraw(a)
  <2>1. PICK p, g : /\ Clears(a, p, "removing") /\ g = DeleteSource(graph, p) /\ graph' = g /\ saved' = g
                    /\ Ends(a) /\ Forgotten(g, Acts \ {a})
    BY <1>6, WithdrawFacts
  <2>2. p \in Paths
    BY <2>1 DEF Clears
  <2>3. Sound(g)
    BY <1>a, <2>1, <2>2, SoundDeleteSource
  <2>4. Resolved(a)'
    BY <2>1, EndsMoves DEF Resolved
  <2> QED  BY <1>0, <2>1, <2>3, <2>4, RowsStep
<1> QED  BY <1>1, <1>2, <1>3, <1>4, <1>5, <1>6 DEF Subscribers

LEMMA CareGraph ==
  ASSUME ShapeInv, Care
  PROVE  /\ Moves("care") /\ NamesStay(Acts \ {"care"}) /\ graph' = graph /\ saved' = saved /\ act'["care"].pc # "relating"
<1>1. Moves("care") /\ ShapeInv'
  BY CareMoves, ShapeCare
<1>2. act'["care"].pc # "relating"
  BY <1>1, ActsFacts DEF ShapeInv, FitsInv, Fits, Promoting
<1>3. NamesStay(Acts) => NamesStay(Acts \ {"care"})
  BY NamesLess
<1>4. NamesStay(Acts \ {"care"}) /\ graph' = graph /\ saved' = saved
  <2>a. AllStay => graph' = graph /\ saved' = saved
    BY DEF AllStay, StoresStay, GraphStays
  <2>1. CASE StartCare \/ Visit \/ PromotionFails
    BY <2>1, <2>a, StartCareFacts, VisitFacts, PromotionFailsFacts DEF Wanders, Picked
  <2>2. CASE ReadStatus \/ ReadField
    BY <1>3, <2>2, <2>a, CareReadFacts
  <2>3. CASE WriteStatus
    BY <1>3, <2>3, WriteStatusFacts DEF StatusWritten
  <2>4. CASE WriteField
    <3>1. PICK p, c, n, goal : FieldWritten(p, c, n, goal)
      BY <2>4, WriteFieldFacts
    <3>2. Wanders \/ NamesStay(Acts)
      BY <3>1 DEF FieldWritten
    <3> QED  BY <1>3, <3>1, <3>2 DEF FieldWritten, Wanders
  <2>5. CASE Rename
    BY <2>5, RenameFacts DEF Renamed, Wanders
  <2> QED  BY <2>1, <2>2, <2>3, <2>4, <2>5 DEF Care
<1> QED  BY <1>1, <1>2, <1>4

LEMMA ScanGraph ==
  ASSUME ShapeInv, NEW a \in Tasks \cup {"reindex"}, ReadToScan(a) \/ Scan(a) \/ ScanEnds(a)
  PROVE  /\ Moves(a) /\ NamesStay(Acts \ {a}) /\ files' = files /\ graph' = graph /\ saved' = saved /\ graphOff' = graphOff
         /\ act'[a].pc \in {"idle", "scan", "scanning", "toEmbed"}
BY ScanMoves, NamesLess, ReadToScanFacts, ScanFacts, ScanEndsFacts, IdleFacts DEF AllStay, FilesStay,
   StoresStay, GraphStays, Turns, Steps

LEMMA RowsRebuild ==
  ASSUME ShapeInv, RowsInv, ReadToRebuild \/ RebuildNote \/ RebuildFails \/ RebuildEnds
  PROVE  RowsInv'
<1>0. "rebuild" \in Acts /\ Moves("rebuild")
  BY ActsFacts, RebuildMoves
<1>1. graph \in Rows /\ saved \in Rows /\ Sound(graph) /\ Sound(saved) /\ graph.hashes = saved.hashes
  BY GraphRows DEF RowsInv
<1>2. act'["rebuild"].pc # "relating"
  BY <1>0, ShapeRebuild DEF ShapeInv, FitsInv, Fits
<1>a. AllStay => graph' = graph /\ saved' = saved
  BY DEF AllStay, StoresStay, GraphStays
<1>3. CASE ReadToRebuild \/ RebuildEnds
  BY <1>0, <1>2, <1>3, <1>a, ReadToRebuildFacts, RebuildEndsFacts, NamesLess, RowsQuiet
<1>4. CASE RebuildNote
  <2>1. PICK p, c, g : RebuiltOne(p, c, g)
    BY <1>4, RebuildNoteFacts
  <2>2. /\ p \in Paths /\ c \in Notes /\ g = Rebuilt(graph, p, c) /\ graph' = g /\ saved' = g
        /\ Forgotten(DeleteSource(graph, p), Acts \ {"rebuild"})
    BY <2>1 DEF RebuiltOne, Processes
  <2>3. Sound(g) /\ DOMAIN DeleteSource(graph, p).ents \subseteq DOMAIN g.ents
    BY <1>1, <2>2, RebuiltFacts
  <2>4. Resolved("rebuild")'
    BY <1>2 DEF Resolved
  <2> QED  BY <1>0, <2>2, <2>3, <2>4, RowsStep
<1>5. CASE RebuildFails
  BY <1>5, RebuildFailsFacts, <1>2, <1>0, <1>1, RowsStep DEF RebuildFailed, Resolved
<1> QED  BY <1>3, <1>4, <1>5

LEMMA RowsNext ==
  ASSUME ShapeInv, OldFound, RowsInv, GardenNext
  PROVE  RowsInv'
<1>1. graph \in Rows /\ saved \in Rows /\ Sound(graph) /\ Sound(saved) /\ graph.hashes = saved.hashes
  BY GraphRows DEF RowsInv
<1>2. CASE EdgeLife
  <2>1. EdgeStep
    BY <1>2, EdgeLifeFacts
  <2>2. "edges" \in Acts /\ Moves("edges") /\ NamesStay(Acts \ {"edges"}) /\ act'["edges"].pc # "relating"
    BY <2>1, ActsFacts DEF EdgeStep
  <2>3. CASE graph' = graph /\ saved' = saved
    BY <2>2, <2>3, RowsQuiet
  <2>4. CASE Sifted(graph, graph') /\ saved' = graph'
    BY <1>1, <2>4, SiftedRows, <2>2, RowsStep DEF Resolved
  <2> QED  BY <2>1, <2>3, <2>4 DEF EdgeStep
<1>3. CASE MonthsPass
  BY <1>3, MonthsPassFacts, <1>1, SiftedRows DEF RowsInv, Resolved
<1>4. CASE Care
  BY <1>4, ActsFacts, CareGraph, RowsQuiet
<1>5. CASE Crash
  BY <1>5, CrashFacts, IdleFacts, <1>1 DEF Crashed, Acts, Jobs, RowsInv, Resolved
<1>6. ASSUME NEW a \in Tasks \cup {"reindex"}, ReadToScan(a) \/ Scan(a) \/ ScanEnds(a) PROVE RowsInv'
  BY <1>6, ActsFacts, ScanGraph, RowsQuiet
<1>7. ASSUME NEW a \in Tasks, Writer(a) PROVE RowsInv'
  BY <1>7, ActsFacts, WriterNames, WriterMoves, WriterGraph, RowsQuiet DEF ShapeInv, WriterPcs
<1> QED  BY <1>2, <1>3, <1>4, <1>5, <1>6, <1>7, RowsRebuild, RowsSubscribers DEF GardenNext, Start

LEMMA RowsFirst ==
  ASSUME GardenInit
  PROVE  RowsInv
BY FirstVault, FirstGraphFacts, FirstActs, IdleFacts DEF GardenInit, Acts, RowsInv, Resolved

LEMMA RowsSame ==
  ASSUME RowsInv, act' = act, graph' = graph, saved' = saved
  PROVE  RowsInv'
BY DEF RowsInv, Resolved

LEMMA RowsSafe ==
  ASSUME ShapeInv, RowsInv
  PROVE  EdgesHold /\ EntitiesOwned
<1>1. Sound(graph) /\ Sound(saved)
  BY DEF RowsInv
<1>2. EdgesHold
  BY <1>1 DEF Sound, EdgesFit, StatesStrong, EdgesHold
<1>3. \A n \in DOMAIN graph.ents : graph.ents[n].src \in Paths
  BY GraphRows, RowsFacts DEF Ents
<1>4. EntitiesOwned
  BY <1>1, <1>3 DEF Sound, Owned, EntitiesOwned
<1> QED  BY <1>2, <1>4

-----------------------------------------------------------------------------
\* What the graph says of the notes.

ToState == {"listing", "indexing", "toEmbed", "embedding", "toGraph", "extracting"}
GraphOwes(b, p) ==
  \/ b \in Tasks /\ act[b].pc \in ToState /\ p \in act[b].path
  \/ b \in Tasks /\ act[b].pc \in Scans /\ p \in act[b].to
  \/ b = "rebuild" /\ act[b].pc \in {"rebuild", "rebuilding"} /\ p \in act[b].todo
  \/ b = "rebuild" /\ act[b].pc = "rebuilding" /\ p \in act[b].path
OnIt(b, p, pc) == b \in Tasks /\ act[b].pc = pc /\ p \in act[b].path
Relating(b, p, c) == OnIt(b, p, "relating") /\ StatedBy(p, c) \subseteq act[b].names
Withdraws(b, p) == b \in Tasks /\ act[b].pc \in Untold /\ p \in act[b].path

\* Both say what a note says, or somebody is going to see to it.
GraphSaid(p, c) ==
  \/ SaysOf(graph, p, c)
  \/ \E b \in Acts : GraphOwes(b, p)
  \/ Part(graph, p, c) /\ \E b \in Acts : OnIt(b, p, "stating")
  \/ Half(graph, p, c) /\ \E b \in Acts : Relating(b, p, c)
SavedSaid(p, c) ==
  \/ SaysOf(saved, p, c)
  \/ \E b \in Acts : GraphOwes(b, p)
  \/ Part(saved, p, c) /\ \E b \in Acts : OnIt(b, p, "stating")
  \/ \E b \in Acts : Relating(b, p, c) \/ OnIt(b, p, "committing")

\* A hash is known of what both say, and not of anything else than what is being stated.
HashSaid(p) == p \in DOMAIN graph.hashes => /\ SaysOf(graph, p, graph.hashes[p])
                                            /\ SaysOf(saved, p, graph.hashes[p])
HashNew(p, c) == p \in DOMAIN graph.hashes =>
                   \/ graph.hashes[p] = c
                   \/ \A b \in Acts, pc \in {"stating", "relating", "committing"} : ~OnIt(b, p, pc)
NothingSaid(p) == (SaysNothing(graph, p) /\ SaysNothing(saved, p)) \/ \E b \in Acts : Withdraws(b, p)
SaidAt(p) ==
  /\ HashSaid(p)
  /\ IF p \in DOMAIN files THEN GraphSaid(p, files[p]) /\ SavedSaid(p, files[p]) /\ HashNew(p, files[p])
     ELSE NothingSaid(p)
SaidInv == \A p \in Paths \ graphOff : SaidAt(p)

LEMMA OthersSay ==
  ASSUME NEW a \in Acts, Moves(a), NEW b \in Acts, b # a, NEW p
  PROVE  /\ GraphOwes(b, p) <=> GraphOwes(b, p)'
         /\ \A pc : OnIt(b, p, pc) <=> OnIt(b, p, pc)'
         /\ Withdraws(b, p) <=> Withdraws(b, p)'
BY DEF Moves, Stays, Copies, GraphOwes, OnIt, Withdraws

\* The commit of the graph: what is committed is as good.
LEMMA CommittedSays ==
  ASSUME saved' = graph', NEW p, NEW c, GraphSaid(p, c)'
  PROVE  SavedSaid(p, c)'
BY DEF GraphSaid, SavedSaid

LEMMA KeepsSelf == ASSUME NEW g, NEW q PROVE Keeps(g, g, q)
BY AlikeFacts DEF Keeps, AllAlike

\* What the others' step does to the names of those that write relationships of p: nothing, or it
\* leaves those of the entities that are left.
Steady(a, p) ==
  \/ NamesStay(Acts \ {a}) /\ (saved' = graph' \/ Keeps(saved, saved', p))
  \/ saved' = graph' /\ \E k : Forgotten(k, Acts \ {a}) /\ Keeps(graph, k, p)
Uninvolved(a, p) ==
  /\ ~OnIt(a, p, "stating") /\ ~OnIt(a, p, "relating")
  /\ OnIt(a, p, "committing") => saved' = graph'
  /\ \A pc \in {"stating", "relating", "committing"} : ~OnIt(a, p, pc)'
HashStays(p) == p \in DOMAIN graph'.hashes => p \in DOMAIN graph.hashes /\ graph'.hashes[p] = graph.hashes[p]

LEMMA RelatingStays ==
  ASSUME NEW a \in Acts, Moves(a), NEW b \in Acts, b # a, NEW p \in Paths, NEW c \in Notes, Relating(b, p, c),
         \/ NamesStay(Acts \ {a})
         \/ \E k : Forgotten(k, Acts \ {a}) /\ Half(k, p, c)
  PROVE  Relating(b, p, c)'
<1>1. OnIt(b, p, "relating")'
  BY OthersSay DEF Relating
<1>2. CASE NamesStay(Acts \ {a})
  BY <1>1, <1>2 DEF NamesStay, Relating
<1>3. ASSUME NEW k, Forgotten(k, Acts \ {a}), Half(k, p, c) PROVE Relating(b, p, c)'
  BY <1>3, <1>1 DEF Forgotten, Left, Relating, OnIt, GraphPcs, Half
<1> QED  BY <1>2, <1>3

LEMMA SaidFrame ==
  ASSUME ShapeInv, NEW a \in Acts, Moves(a), NEW p \in Paths, SaidAt(p),
         p \in DOMAIN files' <=> p \in DOMAIN files, p \in DOMAIN files => files'[p] = files[p],
         Keeps(graph, graph', p), HashStays(p), Steady(a, p), Uninvolved(a, p),
         p \in DOMAIN files /\ GraphOwes(a, p) =>
            \/ GraphOwes(a, p)'
            \/ SaysOf(graph', p, files[p]) /\ SaysOf(saved', p, files[p]),
         p \notin DOMAIN files /\ Withdraws(a, p) => Withdraws(a, p)'
  PROVE  SaidAt(p)'
<1>a. graph \in Rows /\ saved \in Rows
  BY GraphRows
<1>b. saved' = graph' \/ Keeps(saved, saved', p)
  BY DEF Steady
<1>1. HashSaid(p)'
  <2>1. ASSUME p \in DOMAIN graph'.hashes PROVE SaysOf(graph', p, graph'.hashes[p]) /\ SaysOf(saved', p, graph'.hashes[p])
    BY <1>a, <2>1, RowsFacts, KeepsFacts, <1>b DEF HashStays, SaidAt, HashSaid
  <2>2. PICK h : p \in DOMAIN graph'.hashes => h = graph'.hashes[p]
    OBVIOUS
  <2> QED  BY <2>1 DEF HashSaid, SaysOf, Says, StatedBy, EdgesBy, LinksOf, Stated, StatedEdges, Edge, StatedIn, RowsOf, AllAlike, TextsOf
<1>2. ASSUME NEW c \in Notes, p \in DOMAIN files, c = files[p] PROVE GraphSaid(p, c)' /\ SavedSaid(p, c)' /\ HashNew(p, c)'
  <2>0. GraphSaid(p, c) /\ SavedSaid(p, c) /\ HashNew(p, c)
    BY <1>2 DEF SaidAt
  <2>a. /\ SaysOf(graph, p, c) => SaysOf(graph', p, c)
        /\ Part(graph, p, c) => Part(graph', p, c)
        /\ Half(graph, p, c) => Half(graph', p, c)
    BY KeepsFacts
  <2>b. ASSUME NEW b \in Acts, OnIt(b, p, "stating") PROVE OnIt(b, p, "stating")'
    BY <2>b, OthersSay DEF Uninvolved
  <2>c. ASSUME NEW b \in Acts, GraphOwes(b, p)
        PROVE  (\E d \in Acts : GraphOwes(d, p)') \/ (SaysOf(graph', p, c) /\ SaysOf(saved', p, c))
    BY <1>2, <2>c, OthersSay
  <2>d. ASSUME NEW b \in Acts, Relating(b, p, c) PROVE b # a
    BY <2>d DEF Relating, Uninvolved
  <2>1. GraphSaid(p, c)'
    <3>1. CASE SaysOf(graph, p, c)
      BY <2>a, <3>1 DEF GraphSaid, SaysOf, StatedBy, EdgesBy, LinksOf
    <3>2. CASE \E b \in Acts : GraphOwes(b, p)
      BY <2>c, <3>2 DEF GraphSaid
    <3>3. CASE Part(graph, p, c) /\ \E b \in Acts : OnIt(b, p, "stating")
      BY <2>a, <2>b, <3>3 DEF GraphSaid
    <3>4. ASSUME Half(graph, p, c), NEW b \in Acts, Relating(b, p, c) PROVE GraphSaid(p, c)'
      BY <3>4, KeepsFacts, <2>d, RelatingStays, <2>a DEF Steady, GraphSaid
    <3> QED  BY <2>0, <3>1, <3>2, <3>3, <3>4 DEF GraphSaid
  <2>2. SavedSaid(p, c)'
    <3>1. CASE saved' = graph'
      BY <2>1, <3>1, CommittedSays
    <3>2. CASE saved' # graph'
      <4>0. NamesStay(Acts \ {a}) /\ Keeps(saved, saved', p) /\ ~OnIt(a, p, "committing")
        BY <3>2 DEF Steady, Uninvolved
      <4>a. /\ SaysOf(saved, p, c) => SaysOf(saved', p, c)
            /\ Part(saved, p, c) => Part(saved', p, c)
        BY <4>0, KeepsFacts
      <4>1. CASE SaysOf(saved, p, c)
        BY <4>a, <4>1 DEF SavedSaid
      <4>2. CASE \E b \in Acts : GraphOwes(b, p)
        BY <2>c, <4>2 DEF SavedSaid
      <4>3. CASE Part(saved, p, c) /\ \E b \in Acts : OnIt(b, p, "stating")
        BY <2>b, <4>a, <4>3 DEF SavedSaid
      <4>4. ASSUME NEW b \in Acts, Relating(b, p, c) PROVE SavedSaid(p, c)'
        BY <2>d, <4>0, <4>4, RelatingStays DEF SavedSaid
      <4>5. ASSUME NEW b \in Acts, OnIt(b, p, "committing") PROVE SavedSaid(p, c)'
        BY <4>0, <4>5, OthersSay DEF SavedSaid
      <4> QED  BY <2>0, <4>1, <4>2, <4>3, <4>4, <4>5 DEF SavedSaid
    <3> QED  BY <3>1, <3>2
  <2>3. HashNew(p, c)'
    BY <2>0, OthersSay DEF HashNew, HashStays, Uninvolved
  <2> QED  BY <2>1, <2>2, <2>3
<1>3. CASE p \in DOMAIN files
  BY <1>3, FileFacts, <1>2, <1>1 DEF ShapeInv, SaidAt
<1>4. CASE p \notin DOMAIN files
  BY <1>4, BlankFacts, KeepsFacts, <1>b, OthersSay, <1>1 DEF SaidAt, NothingSaid
<1> QED  BY <1>3, <1>4

OwedStays(a, q) ==
  /\ q \in DOMAIN files /\ GraphOwes(a, q) =>
       GraphOwes(a, q)' \/ (SaysOf(graph', q, files[q]) /\ SaysOf(saved', q, files[q]))
  /\ q \notin DOMAIN files /\ Withdraws(a, q) => Withdraws(a, q)'
Framed(a, q) ==
  q \notin graphOff /\ Keeps(graph, graph', q) /\ HashStays(q) /\ Steady(a, q) /\ Uninvolved(a, q) /\ OwedStays(a, q)

LEMMA SaidStep ==
  ASSUME ShapeInv, SaidInv, NEW a \in Acts, NEW C, Moves(a), OnlyAt(C),
         \A q \in Paths \ graphOff' : q \notin C => Framed(a, q),
         \A p \in C : p \in graphOff' \/ SaidAt(p)'
  PROVE  SaidInv'
BY SaidFrame DEF SaidInv, Framed, OnlyAt, OwedStays

InGraph == {"stating", "relating", "committing"}

\* The graph stays; nobody who has something to do with it takes the step.
LEMMA SaidChange ==
  ASSUME ShapeInv, SaidInv, NEW a \in Acts, NEW C, Moves(a), OnlyAt(C), NamesStay(Acts \ {a}),
         graph' = graph, saved' = saved, graphOff \subseteq graphOff',
         a \in Tasks => act[a].pc \notin InGraph /\ act'[a].pc \notin InGraph,
         \A q : q \notin C => OwedStays(a, q),
         \A p \in C : p \in graphOff' \/ SaidAt(p)'
  PROVE  SaidInv'
BY KeepsSelf, SaidStep DEF HashStays, Steady, Uninvolved, OnIt, InGraph, Framed

LEMMA SaidQuiet ==
  ASSUME ShapeInv, SaidInv, NEW a \in Acts, Moves(a), files' = files, NamesStay(Acts \ {a}),
         graph' = graph, saved' = saved, graphOff' = graphOff,
         a \in Tasks => act[a].pc \notin InGraph /\ act'[a].pc \notin InGraph,
         \A q : OwedStays(a, q)
  PROVE  SaidInv'
BY SaidChange DEF OnlyAt

\* Idle tasks, those that are at their own operation, and those at something else.
LEMMA OwesNothing ==
  ASSUME NEW a, a \notin Tasks \cup {"rebuild"} \/ (a \in Tasks /\ act[a].pc \in {"waiting", "ready", "naming", "applying", "stubbing"})
  PROVE  \A q : OwedStays(a, q)
BY ActsFacts DEF GraphOwes, Withdraws, ToState, Scans, Untold, OwedStays

LEMMA HashSame ==
  ASSUME graph' = graph, saved' = saved, NEW p, HashSaid(p)
  PROVE  HashSaid(p)'
BY DEF HashSaid, SaysOf, Says, StatedBy, EdgesBy, LinksOf, Stated, StatedEdges, Edge, StatedIn, RowsOf, AllAlike, TextsOf

LEMMA ToldFacts ==
  ASSUME NEW a, NEW p, Tells(a, p), p \notin graphOff'
  PROVE  p \notin graphOff /\ \A b \in Acts \ {a} : act[b].pc \in GraphPcs \cup Untold => p \notin act[b].path
BY DEF Tells, Marked, Others, Doing

LEMMA SaidWriter ==
  ASSUME ShapeInv, SaidInv, NEW a \in Tasks, Writer(a)
  PROVE  SaidInv'
<1>0. a \in Acts /\ TypesInv
  BY ActsFacts DEF ShapeInv
<1>a. Moves(a) /\ NamesStay(Acts \ {a}) /\ graph' = graph /\ saved' = saved /\ act'[a].pc \notin InGraph
  BY <1>0, WriterMoves, WriterNames, WriterGraph DEF WriterPcs, InGraph
<1>b. AllStay => files' = files /\ graphOff' = graphOff
  BY DEF AllStay, FilesStay, StoresStay, GraphStays
<1>c. ASSUME AllStay, act[a].pc \in {"waiting", "ready", "applying"} PROVE SaidInv'
  BY <1>0, <1>a, <1>b, <1>c, OwesNothing, SaidQuiet DEF InGraph
<1>d. ASSUME NEW p \in Paths, NEW C, C = {p}, OnlyAt(C), p \in graphOff' \/ SaidAt(p)', graphOff \subseteq graphOff',
             act[a].pc \in {"naming", "applying", "stubbing"}
      PROVE  SaidInv'
  BY <1>0, <1>a, <1>d, OwesNothing, SaidChange DEF InGraph
<1>e. ASSUME NEW p \in Paths, NEW n, files' = Put(files, p, n), Tells(a, p),
             act[a].pc \in {"naming", "applying"}, act'[a].pc = "listing", act'[a].path = {p}
      PROVE  SaidInv'
  <2>0. files' = Put(files, p, n)
    BY <1>e
  <2>1. OnlyAt({p}) /\ p \in DOMAIN files' /\ files'[p] = n
    BY <2>0, OnlyPut
  <2>2. ASSUME p \notin graphOff' PROVE SaidAt(p)'
    <3>1. p \notin graphOff /\ \A b \in Acts \ {a} : act[b].pc \in GraphPcs => p \notin act[b].path
      BY <1>e, <2>2, ToldFacts
    <3>2. HashSaid(p)'
      BY <1>a, <1>e, <3>1, HashSame DEF SaidInv, SaidAt
    <3>3. GraphOwes(a, p)'
      BY <1>e DEF GraphOwes, ToState
    <3>4. GraphSaid(p, n)' /\ SavedSaid(p, n)'
      BY <1>0, <3>3 DEF GraphSaid, SavedSaid
    <3>5. ASSUME NEW b \in Acts, NEW pc \in InGraph PROVE ~OnIt(b, p, pc)'
      BY <1>e, <3>5, <3>1, <1>0, <1>a, OthersSay DEF OnIt, InGraph, GraphPcs
    <3>6. HashNew(p, n)'
      BY <3>5 DEF HashNew, InGraph
    <3> QED  BY <2>1, <3>2, <3>4, <3>6 DEF SaidAt
  <2>3. graphOff \subseteq graphOff'
    BY <1>e DEF Tells, Marked
  <2> QED  BY <1>d, <1>e, <2>1, <2>2, <2>3
<1>1. CASE Choose(a)
  BY <1>1, <1>c, ChooseFacts
<1>2. CASE Create(a)
  <2>1. PICK p, x, n : Created(a, p, x, n)
    BY <1>2, CreateFacts
  <2> QED  BY <1>e, <2>1 DEF Created, Changes, Steps, Turns
<1>3. CASE Find(a)
  BY <1>3, <1>c, FindFacts
<1>4. CASE Replace(a)
  <2>1. PICK p, x, n : Replaced(a, p, x, n)
    BY <1>4, ReplaceFacts
  <2> QED  BY <1>e, <2>1 DEF Replaced, Applies, Changes, Steps, Turns
<1>5. CASE AppendText(a)
  <2>1. PICK p, x, n : Extended(a, p, x, n)
    BY <1>5, AppendFacts
  <2> QED  BY <1>e, <2>1 DEF Extended, Applies, Changes, Steps, Turns
<1>6. CASE Delete(a)
  <2>1. ASSUME NEW p, Removed(a, p) PROVE SaidInv'
    <3>1. /\ files' = Drop(files, {p}) /\ Tells(a, p) /\ act[a].pc = "applying" /\ p \in Paths
          /\ act'[a].pc = "unlisting" /\ act'[a].path = {p}
      BY <2>1 DEF Removed, Applies, Changes, Steps, Turns
    <3>2. OnlyAt({p}) /\ p \notin DOMAIN files'
      BY <3>1, OnlyDrop
    <3>3. ASSUME p \notin graphOff' PROVE SaidAt(p)'
      <4>1. p \notin graphOff
        BY <3>1, <3>3, ToldFacts
      <4>2. HashSaid(p)'
        BY <1>a, <3>1, <4>1, HashSame DEF SaidInv, SaidAt
      <4>3. Withdraws(a, p)'
        BY <3>1 DEF Withdraws, Untold
      <4>4. NothingSaid(p)'
        BY <1>0, <4>3 DEF NothingSaid
      <4> QED  BY <3>2, <4>2, <4>4 DEF SaidAt
    <3>4. graphOff \subseteq graphOff'
      BY <3>1 DEF Tells, Marked
    <3> QED  BY <1>d, <3>1, <3>2, <3>3, <3>4
  <2>2. CASE act[a].pc = "applying" /\ AllStay /\ Rests(a)
    BY <1>c, <2>2
  <2> QED  BY <1>6, <2>1, <2>2, DeleteFacts
<1>7. CASE Stub(a)
  <2>1. PICK e, n : Stubbed(a, e, n)
    BY <1>7, StubFacts
  <2>2. files' = Put(files, e, n) /\ Silently({e}) /\ act[a].pc = "stubbing" /\ e \in Paths
    BY <2>1 DEF Stubbed
  <2> QED  BY <1>d, <2>2, OnlyPut DEF Silently
<1> QED  BY <1>1, <1>2, <1>3, <1>4, <1>5, <1>6, <1>7 DEF Writer

\* Who works at one path is not involved in what is said of others.
LEMMA Elsewhere ==
  ASSUME NEW a \in Tasks, NEW p, NEW q, q # p, act[a].path = {p}, act[a].pc \notin Scans,
         act'[a].path = {p} \/ act'[a].pc \notin InGraph
  PROVE  Uninvolved(a, q) /\ OwedStays(a, q)
BY ActsFacts DEF GraphOwes, Withdraws, OnIt, InGraph, Uninvolved, OwedStays

LEMMA SaidOthers ==
  ASSUME ShapeInv, SaidInv, NEW a \in Tasks,
         \/ ReadForIndex(a) \/ IndexNote(a) \/ ReadForVector(a) \/ StoreVector(a) \/ EmbedFails(a)
         \/ ReadForGraph(a) \/ Unlist(a) \/ Unembed(a)
  PROVE  SaidInv'
<1>0. a \in Acts /\ a # "rebuild"
  BY ActsFacts
<1>1. /\ Moves(a) /\ NamesStay(Acts \ {a}) /\ files' = files /\ graph' = graph /\ saved' = saved /\ graphOff' = graphOff
      /\ act'[a].pc \in OtherPcs
  BY SubscriberGraph
<1>2. act'[a].pc \notin InGraph
  BY <1>1 DEF OtherPcs, InGraph
<1>3. act[a].pc \notin InGraph /\ \A q : OwedStays(a, q)
  <2>1. CASE ReadForIndex(a) \/ ReadForVector(a)
    <3>1. /\ act[a].pc \in {"listing", "toEmbed"} /\ act'[a].path = act[a].path
          /\ act'[a].pc \in {"indexing", "toEmbed", "embedding", "toGraph"}
      BY <2>1, ReadFacts DEF Steps, Turns
    <3>2. \A q : ~Withdraws(a, q) /\ (GraphOwes(a, q) => GraphOwes(a, q)')
      BY <1>0, <3>1 DEF Withdraws, GraphOwes, Untold, ToState, Scans
    <3> QED  BY <3>1, <3>2 DEF OwedStays, InGraph
  <2>2. CASE IndexNote(a)
    <3>1. PICK p, c : Processes(a, p, c, "indexing") /\ (Steps(a, "toEmbed") \/ Turns(a, "scan", {p}, {c}, Scanned, {p}))
      BY <2>2, IndexNoteFacts
    <3>2. /\ act[a].pc = "indexing" /\ act[a].path = {p}
          /\ \/ act'[a].pc = "toEmbed" /\ act'[a].path = {p}
             \/ act'[a].pc = "scan" /\ act'[a].to = {p}
      BY <3>1 DEF Processes, Steps, Turns
    <3>3. \A q : ~Withdraws(a, q) /\ (GraphOwes(a, q) => GraphOwes(a, q)')
      BY <1>0, <3>2 DEF Withdraws, GraphOwes, Untold, ToState, Scans
    <3> QED  BY <3>2, <3>3 DEF OwedStays, InGraph
  <2>3. CASE StoreVector(a) \/ EmbedFails(a)
    <3>1. act[a].pc = "embedding" /\ act'[a].path = act[a].path /\ act'[a].pc = "toGraph"
      BY <2>3, EmbedFacts DEF Processes, Steps, Turns
    <3>2. \A q : ~Withdraws(a, q) /\ (GraphOwes(a, q) => GraphOwes(a, q)')
      BY <1>0, <3>1 DEF Withdraws, GraphOwes, Untold, ToState, Scans
    <3> QED  BY <3>1, <3>2 DEF OwedStays, InGraph
  <2>4. CASE ReadForGraph(a)
    <3>1. PICK p : p = At(a)
      OBVIOUS
    <3>2. /\ act[a].pc = "toGraph" /\ act[a].path = {p}
          /\ p \notin DOMAIN files \/ (act'[a].pc = "extracting" /\ act'[a].path = {p})
      BY <2>4, <3>1, ReadForGraphFacts DEF Turns
    <3>3. \A q : ~Withdraws(a, q) /\ (q \in DOMAIN files /\ GraphOwes(a, q) => GraphOwes(a, q)')
      BY <1>0, <3>2 DEF Withdraws, GraphOwes, Untold, ToState, Scans
    <3> QED  BY <3>2, <3>3 DEF OwedStays, InGraph
  <2>5. CASE Unlist(a) \/ Unembed(a)
    <3>1. act[a].pc \in {"unlisting", "unembedding"} /\ act'[a].path = act[a].path /\ act'[a].pc \in {"unembedding", "removing"}
      BY <2>5, UnlistFacts, UnembedFacts DEF Clears, Steps, Turns
    <3>2. \A q : ~GraphOwes(a, q) /\ (Withdraws(a, q) => Withdraws(a, q)')
      BY <1>0, <3>1 DEF Withdraws, GraphOwes, Untold, ToState, Scans
    <3> QED  BY <3>1, <3>2 DEF OwedStays, InGraph
  <2> QED  BY <2>1, <2>2, <2>3, <2>4, <2>5
<1> QED  BY <1>0, <1>1, <1>2, <1>3, SaidQuiet

LEMMA SaidUnstate ==
  ASSUME ShapeInv, FreshInv, SaidInv, NEW a \in Tasks, Unstate(a) \/ Withdraw(a)
  PROVE  SaidInv'
<1>0. a \in Acts /\ FreshAt(a) /\ Moves(a) /\ graph \in Rows
  BY ActsFacts, GraphRows, SubscriberMoves DEF FreshInv, Subscribers
<1>1. PICK p, g :
        /\ p \in Paths /\ act[a].path = {p} /\ g = DeleteSource(graph, p) /\ graph' = g /\ saved' = g
        /\ files' = files /\ graphOff' = graphOff /\ Forgotten(g, Acts \ {a})
        /\ \/ /\ act[a].pc = "extracting" /\ act'[a].pc = "stating" /\ act'[a].path = {p}
              /\ \E c \in Notes : act[a].seen = {c}
           \/ act[a].pc = "removing" /\ act'[a].pc \notin InGraph
  <2>1. CASE Unstate(a)
    BY <2>1, UnstateFacts DEF GraphStep, FilesStay, Forgotten, Processes, Steps, Turns
  <2>2. CASE Withdraw(a)
    BY <2>2, WithdrawFacts, EndsMoves DEF GraphStep, FilesStay, Clears, InGraph
  <2> QED  BY <2>1, <2>2
<1>2. SaysNothing(g, p) /\ p \notin DOMAIN g.hashes /\ \A q \in DOMAIN g.hashes : q \in DOMAIN graph.hashes /\ g.hashes[q] = graph.hashes[q]
  BY <1>0, <1>1, DeletedNothing
<1>3. ASSUME NEW q \in Paths \ graphOff', q # p PROVE Framed(a, q)
  BY <1>0, <1>1, <1>3, KeepsDeleteSource, <1>2, Elsewhere DEF Steady, HashStays, Scans, Framed
<1>4. ASSUME p \notin graphOff' PROVE SaidAt(p)'
  <2>1. HashSaid(p)'
    BY <1>1, <1>2 DEF HashSaid
  <2>2. CASE act[a].pc = "removing"
    <3>1. p \notin DOMAIN files'
      BY <1>0, <1>1, <1>4, <2>2 DEF FreshAt, Fresh, Untold
    <3>2. NothingSaid(p)'
      BY <1>1, <1>2 DEF NothingSaid, SaysNothing, StatedIn, RowsOf
    <3> QED  BY <2>1, <3>1, <3>2 DEF SaidAt
  <2>3. ASSUME NEW c \in Notes, act[a].seen = {c}, act[a].pc = "extracting", act'[a].pc = "stating", act'[a].path = {p}
        PROVE  SaidAt(p)'
    <3>1. p \in DOMAIN files' /\ files'[p] = c
      BY <1>0, <1>1, <1>4, <2>3 DEF FreshAt, Fresh, GraphPcs
    <3>2. Part(g, p, c)
      BY <1>2, SaysStronger
    <3>3. OnIt(a, p, "stating")'
      BY <2>3 DEF OnIt
    <3>4. GraphSaid(p, c)'
      BY <1>0, <1>1, <3>2, <3>3 DEF GraphSaid
    <3>5. SavedSaid(p, c)'
      BY <1>1, <3>4, CommittedSays
    <3>6. HashNew(p, c)'
      BY <1>1, <1>2 DEF HashNew
    <3> QED  BY <2>1, <3>1, <3>4, <3>5, <3>6 DEF SaidAt
  <2> QED  BY <1>1, <2>2, <2>3
<1>5. OnlyAt({p})
  BY <1>1 DEF OnlyAt
<1> QED  BY <1>0, <1>3, <1>4, <1>5, SaidStep

\* Who states or relates a note that has not been marked works from what the note is.
LEMMA WorksFrom ==
  ASSUME ShapeInv, FreshInv, SaidInv, NEW a \in Tasks, NEW p, NEW c, NEW pc \in InGraph, Processes(a, p, c, pc), p \notin graphOff
  PROVE  /\ p \in DOMAIN files /\ files[p] = c /\ OnIt(a, p, pc)
         /\ GraphSaid(p, c) /\ SavedSaid(p, c) /\ HashSaid(p)
         /\ p \in DOMAIN graph.hashes => graph.hashes[p] = c
<1>1. a \in Acts /\ FreshAt(a) /\ p \in Paths /\ act[a].path = {p} /\ act[a].seen = {c} /\ act[a].pc = pc /\ pc \in GraphPcs
  BY ActsFacts DEF FreshInv, Processes, InGraph, GraphPcs
<1>2. p \in DOMAIN files /\ act[a].seen = {files[p]}
  BY <1>1 DEF FreshAt, Fresh
<1>3. files[p] = c /\ OnIt(a, p, pc)
  BY <1>1, <1>2 DEF OnIt
<1>4. SaidAt(p)
  BY <1>1 DEF SaidInv
<1> QED  BY <1>1, <1>2, <1>3, <1>4 DEF SaidAt, HashNew, InGraph

LEMMA SaidState ==
  ASSUME ShapeInv, FreshInv, SaidInv, NEW a \in Tasks, State(a)
  PROVE  SaidInv'
<1>0. a \in Acts /\ Moves(a) /\ graph \in Rows
  BY ActsFacts, GraphRows, SubscriberMoves DEF Subscribers
<1>1. PICK p, c, ns :
        /\ Processes(a, p, c, "stating") /\ GraphStep
        /\ ns = StatedBy(p, c) /\ ns \in SUBSET Names /\ graph' = UpsertEntities(graph, p, ns) /\ saved' = saved
        /\ Steps(a, "relating") /\ act'[a].names = ns /\ NamesStay(Acts \ {a})
  BY StateFacts
<1>2. /\ p \in Paths /\ c \in Notes /\ act[a].path = {p} /\ act[a].pc = "stating" /\ act'[a].pc = "relating" /\ act'[a].path = {p}
      /\ files' = files /\ graphOff' = graphOff
  BY <1>1 DEF Processes, Steps, Turns, GraphStep, FilesStay
<1>3. graph'.hashes = graph.hashes
  <2>1. Upserted(graph, graph', p, ns)
    BY <1>0, <1>1, <1>2, UpsertEntitiesFacts
  <2> QED  BY <2>1 DEF Upserted
<1>4. ASSUME NEW q \in Paths \ graphOff', q # p PROVE Framed(a, q)
  <2>1. Keeps(graph, graph', q) /\ Keeps(saved, saved', q)
    BY <1>0, <1>1, <1>2, <1>4, KeepsUpsertEntities, KeepsSelf
  <2>2. HashStays(q) /\ Steady(a, q)
    BY <1>1, <1>3, <2>1 DEF HashStays, Steady
  <2>3. Uninvolved(a, q) /\ OwedStays(a, q)
    BY <1>2, <1>4, Elsewhere DEF Scans
  <2> QED  BY <1>2, <1>4, <2>1, <2>2, <2>3 DEF Framed
<1>5. ASSUME p \notin graphOff' PROVE SaidAt(p)'
  <2>1. /\ p \in DOMAIN files /\ files[p] = c /\ GraphSaid(p, c) /\ HashSaid(p)
        /\ p \in DOMAIN graph.hashes => graph.hashes[p] = c
    BY <1>1, <1>2, <1>5, WorksFrom DEF InGraph
  <2>2. Relating(a, p, c)'
    BY <1>2, <1>1 DEF OnIt, Relating
  <2>3. Part(graph, p, c) => Half(graph', p, c)
    BY <1>0, <1>1, <1>2, StatedHalf
  <2>4. SaysOf(graph, p, c) => SaysOf(graph', p, c)
    BY <1>0, <1>1, <1>2, StatedHalf
  <2>5. GraphSaid(p, c)'
    <3>1. CASE \E b \in Acts : GraphOwes(b, p)
      BY <1>2, ActsFacts, <1>0, <3>1, OthersSay DEF GraphOwes, ToState, Scans, GraphSaid
    <3>2. CASE SaysOf(graph, p, c)
      BY <2>4, <3>2 DEF GraphSaid
    <3>3. CASE Part(graph, p, c) \/ Half(graph, p, c)
      BY <2>3, <3>3, SaysStronger, <1>0, <2>2 DEF GraphSaid
    <3> QED  BY <2>1, <3>1, <3>2, <3>3 DEF GraphSaid
  <2>6. SavedSaid(p, c)'
    BY <1>0, <2>2 DEF SavedSaid
  <2>7. p \in DOMAIN graph'.hashes => graph'.hashes[p] = c /\ SaysOf(graph', p, c) /\ SaysOf(saved', p, c)
    BY <1>1, <1>3, <2>1, <2>4 DEF HashSaid
  <2>8. HashSaid(p)' /\ HashNew(p, c)'
    BY <2>7 DEF HashSaid, HashNew
  <2> QED  BY <1>2, <2>1, <2>5, <2>6, <2>8 DEF SaidAt
<1>6. OnlyAt({p})
  BY <1>2 DEF OnlyAt
<1> QED  BY <1>0, <1>4, <1>5, <1>6, SaidStep

LEMMA SaidRelate ==
  ASSUME ShapeInv, FreshInv, SaidInv, NEW a \in Tasks, Relate(a)
  PROVE  SaidInv'
<1>0. a \in Acts /\ Moves(a) /\ graph \in Rows
  BY ActsFacts, GraphRows, SubscriberMoves DEF Subscribers
<1>1. PICK p, c, es :
        /\ Processes(a, p, c, "relating") /\ GraphStep /\ NamesStay(Acts \ {a})
        /\ es \in SUBSET EdgesBy(p, c) /\ graph' = UpsertEdges(graph, es) /\ saved' = saved
        /\ \/ es = EdgesBy(p, c) /\ Steps(a, "committing")
           \/ ~(\A e \in EdgesBy(p, c) : {e.from, e.to} \subseteq act[a].names) /\ Ends(a)
  BY RelateFacts
<1>2. /\ p \in Paths /\ c \in Notes /\ act[a].path = {p} /\ act[a].pc = "relating" /\ files' = files /\ graphOff' = graphOff
      /\ \/ act'[a].pc = "committing" /\ act'[a].path = {p} /\ es = EdgesBy(p, c)
         \/ act'[a].pc \notin InGraph /\ ~Relating(a, p, c)
  <2>1. ASSUME Ends(a), ~(\A e \in EdgesBy(p, c) : {e.from, e.to} \subseteq act[a].names), p \in Paths, c \in Notes
        PROVE  act'[a].pc \notin InGraph /\ ~Relating(a, p, c)
    BY <2>1, EndsMoves, EdgesByFacts DEF InGraph, Relating
  <2> QED  BY <1>1, <2>1 DEF Processes, Steps, Turns, GraphStep, FilesStay
<1>3. es \in SUBSET Edges /\ \A e \in es : e.src = p
  BY <1>1, <1>2, LinkFacts, EdgesByFacts
<1>4. graph'.hashes = graph.hashes
  BY <1>0, <1>1, <1>3, UpsertEdgesFacts
<1>5. ASSUME NEW q \in Paths \ graphOff', q # p PROVE Framed(a, q)
  <2>1. Keeps(graph, graph', q) /\ Keeps(saved, saved', q)
    BY <1>0, <1>1, <1>2, <1>3, <1>5, KeepsUpsertEdges, KeepsSelf
  <2>2. HashStays(q) /\ Steady(a, q)
    BY <1>1, <1>4, <2>1 DEF HashStays, Steady
  <2>3. Uninvolved(a, q) /\ OwedStays(a, q)
    BY <1>2, <1>5, Elsewhere DEF Scans
  <2> QED  BY <1>2, <1>5, <2>1, <2>2, <2>3 DEF Framed
<1>6. ASSUME p \notin graphOff' PROVE SaidAt(p)'
  <2>1. /\ p \in DOMAIN files /\ files[p] = c /\ GraphSaid(p, c) /\ SavedSaid(p, c) /\ HashSaid(p)
        /\ p \in DOMAIN graph.hashes => graph.hashes[p] = c
    BY <1>1, <1>2, <1>6, WorksFrom DEF InGraph
  <2>2. /\ es = EdgesBy(p, c) /\ Half(graph, p, c) => SaysOf(graph', p, c)
        /\ Part(graph, p, c) => Part(graph', p, c)
        /\ Half(graph, p, c) => Half(graph', p, c)
        /\ SaysOf(graph, p, c) => SaysOf(graph', p, c)
    BY <1>0, <1>1, <1>2, RelatedAll
  <2>3. ASSUME NEW b \in Acts, GraphOwes(b, p) PROVE GraphOwes(b, p)'
    BY <1>2, <2>3, ActsFacts, <1>0, OthersSay DEF GraphOwes, ToState, Scans
  <2>4. ASSUME NEW b \in Acts, NEW pc \in {"stating", "committing"}, OnIt(b, p, pc) PROVE OnIt(b, p, pc)'
    <3>1. b # a
      BY <1>2, <2>4 DEF OnIt
    <3> QED  BY <1>0, <2>4, <3>1, OthersSay
  <2>5. ASSUME NEW b \in Acts, Relating(b, p, c)
        PROVE  Relating(b, p, c)' \/ (es = EdgesBy(p, c) /\ OnIt(a, p, "committing")')
    BY <1>2, <2>5, <1>0, <1>1, RelatingStays DEF OnIt
  <2>6. GraphSaid(p, c)'
    BY <2>3, <2>2, <2>4, <2>5, <2>1 DEF GraphSaid
  <2>7. SavedSaid(p, c)'
    BY <2>3, <1>1, <2>4, <1>0, <2>5, <2>1 DEF SavedSaid
  <2>8. p \in DOMAIN graph'.hashes => graph'.hashes[p] = c /\ SaysOf(graph', p, c) /\ SaysOf(saved', p, c)
    BY <1>1, <1>4, <2>1, <2>2 DEF HashSaid
  <2>9. HashSaid(p)' /\ HashNew(p, c)'
    BY <2>8 DEF HashSaid, HashNew
  <2> QED  BY <1>2, <2>1, <2>6, <2>7, <2>9 DEF SaidAt
<1>7. OnlyAt({p})
  BY <1>2 DEF OnlyAt
<1> QED  BY <1>0, <1>5, <1>6, <1>7, SaidStep

LEMMA SaidCommit ==
  ASSUME ShapeInv, SaidInv, NEW a \in Tasks, Commit(a)
  PROVE  SaidInv'
<1>0. a \in Acts /\ Moves(a) /\ graph \in Rows
  BY ActsFacts, GraphRows, SubscriberMoves DEF Subscribers
<1>1. PICK p, c, g : /\ Processes(a, p, c, "committing") /\ GraphStep /\ NamesStay(Acts \ {a})
                     /\ g \in {graph, Confirm(graph, p)} /\ graph' = g /\ saved' = g /\ Ends(a)
  BY CommitFacts
<1>2. /\ p \in Paths /\ act[a].pc = "committing" /\ act'[a].pc \notin InGraph /\ files' = files /\ graphOff' = graphOff
  BY <1>1, EndsMoves DEF Processes, GraphStep, FilesStay, InGraph
<1>3. (\A q : Keeps(graph, g, q)) /\ g.hashes = graph.hashes
  <2>1. SameRows(graph, Confirm(graph, p))
    BY <1>0, <1>2, ConfirmFacts
  <2>2. Confirm(graph, p).hashes = graph.hashes /\ \A q : Keeps(graph, Confirm(graph, p), q)
    BY <2>1, KeepsSame DEF SameRows
  <2> QED  BY <1>1, <2>2, KeepsSelf
<1>4. ASSUME NEW q \in Paths \ graphOff' PROVE Framed(a, q)
  <2>1. HashStays(q) /\ Steady(a, q)
    BY <1>1, <1>3 DEF HashStays, Steady
  <2>2. Uninvolved(a, q)
    BY <1>1, <1>2 DEF Uninvolved, OnIt, InGraph
  <2>3. ~GraphOwes(a, q) /\ ~Withdraws(a, q)
    BY <1>2, ActsFacts DEF GraphOwes, Withdraws, ToState, Scans, Untold
  <2> QED  BY <1>1, <1>2, <1>3, <1>4, <2>1, <2>2, <2>3 DEF Framed, OwedStays
<1>5. OnlyAt({})
  BY <1>2 DEF OnlyAt
<1> QED  BY <1>0, <1>4, <1>5, SaidStep

LEMMA SaidSubscribers ==
  ASSUME ShapeInv, FreshInv, SaidInv, NEW a \in Tasks, Subscribers(a)
  PROVE  SaidInv'
BY SaidOthers, SaidUnstate, SaidState, SaidRelate, SaidCommit DEF Subscribers

LEMMA SaidCare ==
  ASSUME ShapeInv, SaidInv, Care
  PROVE  SaidInv'
<1>0. "care" \in Acts /\ "care" \notin Tasks /\ "care" # "rebuild"
  BY ActsFacts
<1>1. Moves("care") /\ NamesStay(Acts \ {"care"}) /\ graph' = graph /\ saved' = saved
  BY CareGraph
<1>2. \A q : OwedStays("care", q)
  BY <1>0, OwesNothing
<1>a. AllStay => SaidInv'
  BY <1>0, <1>1, <1>2, SaidQuiet DEF AllStay, FilesStay, StoresStay, GraphStays
<1>b. ASSUME NEW C, OnlyAt(C), Silently(C) PROVE SaidInv'
  BY <1>0, <1>1, <1>2, <1>b, SaidChange DEF Silently
<1>3. CASE StartCare \/ Visit \/ PromotionFails
  BY <1>3, <1>a, StartCareFacts, VisitFacts, PromotionFailsFacts
<1>4. CASE ReadStatus \/ ReadField
  BY <1>4, <1>a, CareReadFacts
<1>5. CASE WriteStatus
  <2>1. PICK p, c, n : StatusWritten(p, c, n)
    BY <1>5, WriteStatusFacts
  <2>2. CASE files' = files /\ graphOff' = graphOff
    BY <1>0, <1>1, <1>2, <2>2, SaidQuiet
  <2>3. CASE files' = Put(files, p, n) /\ Silently({p})
    BY <1>b, <2>3, OnlyPut
  <2> QED  BY <2>1, <2>2, <2>3 DEF StatusWritten
<1>6. CASE WriteField
  BY <1>6, WriteFieldFacts, <1>b, OnlyPut DEF FieldWritten
<1>7. CASE Rename
  BY <1>7, RenameFacts, <1>b, OnlyMove DEF Renamed
<1> QED  BY <1>3, <1>4, <1>5, <1>6, <1>7 DEF Care

LEMMA SaidScan ==
  ASSUME ShapeInv, SaidInv, NEW a \in Tasks \cup {"reindex"}, ReadToScan(a) \/ Scan(a) \/ ScanEnds(a)
  PROVE  SaidInv'
<1>0. a \in Acts /\ a # "rebuild"
  BY ActsFacts
<1>1. /\ Moves(a) /\ NamesStay(Acts \ {a}) /\ files' = files /\ graph' = graph /\ saved' = saved /\ graphOff' = graphOff
      /\ act'[a].pc \notin InGraph
  BY ScanGraph DEF InGraph
<1>2. act[a].pc \in Scans
  BY ReadToScanFacts, ScanFacts, ScanEndsFacts DEF Processes, Scans
<1>3. a \in Tasks => \/ act'[a].pc \in Scans /\ act'[a].to = act[a].to
                     \/ act'[a].pc = "toEmbed" /\ act'[a].path = act[a].to
  <2>1. CASE ReadToScan(a)
    BY <2>1, ReadToScanFacts DEF Turns, Scans
  <2>2. CASE Scan(a)
    BY <2>2, ScanFacts DEF Steps, Turns, Scans
  <2>3. CASE ScanEnds(a)
    BY <2>3, ScanEndsFacts DEF Turns, Scans
  <2> QED  BY <2>1, <2>2, <2>3
<1>4. \A q : ~Withdraws(a, q) /\ (GraphOwes(a, q) => GraphOwes(a, q)')
  BY <1>0, <1>2, <1>3 DEF Withdraws, GraphOwes, Scans, ToState, Untold
<1>5. act[a].pc \notin InGraph /\ \A q : OwedStays(a, q)
  BY <1>2, <1>4 DEF OwedStays, InGraph, Scans
<1> QED  BY <1>0, <1>1, <1>5, SaidQuiet

LEMMA SaidEdges ==
  ASSUME ShapeInv, OldFound, SaidInv, EdgeLife
  PROVE  SaidInv'
<1>1. EdgeStep
  BY EdgeLifeFacts
<1>2. /\ "edges" \in Acts /\ "edges" \notin Tasks \cup {"rebuild"} /\ Moves("edges") /\ NamesStay(Acts \ {"edges"})
      /\ files' = files /\ graphOff' = graphOff
  BY <1>1, ActsFacts DEF EdgeStep, FilesStay
<1>3. \A q : OwedStays("edges", q)
  BY <1>2, OwesNothing
<1>4. CASE graph' = graph /\ saved' = saved
  BY <1>2, <1>3, <1>4, SaidQuiet
<1>5. CASE Sifted(graph, graph') /\ saved' = graph'
  <2>1. (\A q : Keeps(graph, graph', q)) /\ graph'.hashes = graph.hashes
    BY <1>5, KeepsSame, SiftedRows DEF Sifted
  <2>2. ASSUME NEW q \in Paths \ graphOff' PROVE Framed("edges", q)
    BY <1>2, <1>5, <2>1, <1>3, <2>2 DEF HashStays, Steady, Uninvolved, OnIt, Framed
  <2>3. OnlyAt({})
    BY <1>2 DEF OnlyAt
  <2> QED  BY <1>2, <2>2, <2>3, SaidStep
<1> QED  BY <1>1, <1>4, <1>5 DEF EdgeStep

LEMMA SaidMonths ==
  ASSUME ShapeInv, SaidInv, MonthsPass
  PROVE  SaidInv'
<1>1. files' = files /\ act' = act /\ graphOff' = graphOff /\ Sifted(graph, graph') /\ Sifted(saved, saved')
  BY MonthsPassFacts DEF FilesStay
<1>2. "care" \in Acts /\ "care" \notin Tasks \cup {"rebuild"} /\ Moves("care") /\ NamesStay(Acts \ {"care"})
  BY <1>1, ActsFacts DEF ShapeInv, TypesInv, Moves, Stays, Copies, NamesStay
<1>3. (\A q : Keeps(graph, graph', q) /\ Keeps(saved, saved', q)) /\ graph'.hashes = graph.hashes
  BY <1>1, KeepsSame, SiftedRows DEF Sifted
<1>4. ASSUME NEW q \in Paths \ graphOff' PROVE Framed("care", q)
  BY <1>2, <1>3, OwesNothing, <1>1, <1>4 DEF HashStays, Steady, Uninvolved, OnIt, Framed
<1>5. OnlyAt({})
  BY <1>1 DEF OnlyAt
<1> QED  BY <1>2, <1>4, <1>5, SaidStep

LEMMA SaidCrash ==
  ASSUME ShapeInv, RowsInv, SaidInv, Crash
  PROVE  SaidInv'
<1>1. Crashed
  BY CrashFacts
<1>2. /\ files' = files /\ graph' = saved /\ saved' = saved /\ graphOff' = graphOff \cup Vanishing
      /\ \A b \in Tasks : act'[b].pc \in {"idle", "waiting"}
  BY <1>1, IdleFacts DEF Crashed
<1>3. "rebuild" \in Acts /\ act'["rebuild"].pc = "rebuild" /\ act'["rebuild"].todo = DOMAIN files
  BY <1>1, ActsFacts DEF Crashed
<1>4. ASSUME NEW p \in Paths \ graphOff' PROVE SaidAt(p)'
  <2>1. SaidAt(p) /\ p \notin Vanishing /\ graph.hashes = saved.hashes
    BY <1>2, <1>4 DEF SaidInv, RowsInv
  <2>2. p \in DOMAIN graph'.hashes => SaysOf(graph', p, graph'.hashes[p]) /\ SaysOf(saved', p, graph'.hashes[p])
    BY <1>2, <2>1 DEF SaidAt, HashSaid
  <2>3. HashSaid(p)'
    BY <2>2 DEF HashSaid
  <2>4. CASE p \in DOMAIN files
    <3>1. PICK c \in Notes : c = files[p]
      BY <2>4, FileFacts DEF ShapeInv
    <3>2. GraphOwes("rebuild", p)'
      BY <1>3, <2>4 DEF GraphOwes
    <3>3. GraphSaid(p, c)' /\ SavedSaid(p, c)'
      BY <1>3, <3>2 DEF GraphSaid, SavedSaid
    <3>4. HashNew(p, c)'
      BY <1>2 DEF HashNew, OnIt
    <3>5. p \in DOMAIN files' /\ files'[p] = c
      BY <1>2, <2>4, <3>1
    <3> QED  BY <2>3, <3>3, <3>4, <3>5 DEF SaidAt
  <2>5. CASE p \notin DOMAIN files
    BY <2>1, <2>5, <1>2, <2>3 DEF Withdraws, Vanishing, Doing, SaidAt, NothingSaid
  <2> QED  BY <2>4, <2>5
<1> QED  BY <1>4 DEF SaidInv

LEMMA SaidRebuild ==
  ASSUME ShapeInv, FreshInv, RowsInv, SaidInv, ReadToRebuild \/ RebuildNote \/ RebuildFails \/ RebuildEnds
  PROVE  SaidInv'
<1> DEFINE a == "rebuild"
<1>0. a \in Acts /\ a \notin Tasks /\ Moves(a) /\ graph \in Rows /\ FreshAt(a) /\ graph.hashes = saved.hashes
  BY ActsFacts, RebuildMoves, GraphRows DEF FreshInv, RowsInv
<1>a. \A q : ~Withdraws(a, q) /\ ~Withdraws(a, q)' /\ \A pc : ~OnIt(a, q, pc) /\ ~OnIt(a, q, pc)'
  BY <1>0 DEF Withdraws, OnIt
<1>b. \A q : Uninvolved(a, q)
  BY <1>a DEF Uninvolved
<1>1. CASE ReadToRebuild
  <2>1. act[a].pc = "rebuild" /\ files' = files /\ graph' = graph /\ saved' = saved /\ graphOff' = graphOff /\ NamesStay(Acts \ {a})
    BY <1>1, ReadToRebuildFacts, NamesLess DEF AllStay, FilesStay, StoresStay, GraphStays
  <2>2. PICK p \in Paths :
          \/ /\ p \notin DOMAIN files \/ (p \in DOMAIN graph.hashes /\ graph.hashes[p] = files[p])
             /\ act'[a].pc = "rebuild" /\ act'[a].todo = act[a].todo \ {p}
          \/ act'[a].pc = "rebuilding" /\ act'[a].path = {p} /\ act'[a].todo = act[a].todo \ {p}
    BY <1>1, ReadToRebuildFacts DEF Turns
  <2>3. ASSUME NEW q \in Paths \ graphOff' PROVE Framed(a, q)
    <3>1. SaidAt(q)
      BY <2>1, <2>3 DEF SaidInv
    <3>2. OwedStays(a, q)
      BY <1>0, <2>1, <2>2, <3>1, <1>a DEF GraphOwes, SaidAt, HashSaid, OwedStays
    <3>3. Keeps(graph, graph', q) /\ HashStays(q) /\ Steady(a, q)
      BY <2>1, KeepsSelf DEF HashStays, Steady
    <3> QED  BY <1>b, <2>1, <2>3, <3>2, <3>3 DEF Framed
  <2>4. OnlyAt({})
    BY <2>1 DEF OnlyAt
  <2> QED  BY <1>0, <2>3, <2>4, SaidStep
<1>2. CASE RebuildNote
  <2>1. PICK p, c, g : RebuiltOne(p, c, g)
    BY <1>2, RebuildNoteFacts
  <2>2. /\ p \in Paths /\ c \in Notes /\ act[a].pc = "rebuilding" /\ act[a].path = {p} /\ act[a].seen = {c}
        /\ files' = files /\ g = Rebuilt(graph, p, c) /\ graph' = g /\ saved' = g
        /\ graphOff' = graphOff \/ ({c} = NotesAt(p) /\ graphOff' = graphOff \ {p})
        /\ act'[a].pc = "rebuild" /\ act'[a].todo = act[a].todo
        /\ Forgotten(DeleteSource(graph, p), Acts \ {a})
    BY <2>1 DEF RebuiltOne, Processes, FilesStay, Turns
  <2>3. /\ SaysOf(g, p, c) /\ p \in DOMAIN g.hashes /\ g.hashes[p] = c
        /\ \A q \in DOMAIN g.hashes : q # p => q \in DOMAIN graph.hashes /\ g.hashes[q] = graph.hashes[q]
        /\ \A q \in Paths : q # p => Keeps(graph, g, q)
    BY <1>0, <2>2, RebuiltFacts
  <2>4. ASSUME NEW q \in Paths \ graphOff', q # p PROVE Framed(a, q)
    <3>1. Keeps(graph, DeleteSource(graph, p), q)
      BY <1>0, <2>2, <2>4, KeepsDeleteSource
    <3>2. Keeps(graph, graph', q) /\ Steady(a, q)
      BY <2>2, <2>3, <2>4, <3>1 DEF Steady
    <3>3. HashStays(q)
      BY <2>2, <2>3, <2>4 DEF HashStays
    <3>4. GraphOwes(a, q) => GraphOwes(a, q)'
      BY <1>0, <2>2, <2>4 DEF GraphOwes
    <3>5. OwedStays(a, q)
      BY <1>a, <3>4 DEF OwedStays
    <3> QED  BY <1>b, <2>2, <2>4, <3>2, <3>3, <3>5 DEF Framed
  <2>5. ASSUME p \notin graphOff' PROVE SaidAt(p)'
    <3>1. p \in DOMAIN files' /\ files'[p] = c
      BY <1>0, <2>2, <2>5 DEF FreshAt, Fresh, GraphPcs, NotesAt
    <3>2. SaysOf(graph', p, c) /\ SaysOf(saved', p, c) /\ p \in DOMAIN graph'.hashes /\ graph'.hashes[p] = c
      BY <2>2, <2>3
    <3>3. HashSaid(p)' /\ HashNew(p, c)'
      BY <3>2 DEF HashSaid, HashNew
    <3>4. GraphSaid(p, c)' /\ SavedSaid(p, c)'
      BY <3>2 DEF GraphSaid, SavedSaid
    <3> QED  BY <3>1, <3>3, <3>4 DEF SaidAt
  <2>6. OnlyAt({p})
    BY <2>2 DEF OnlyAt
  <2> QED  BY <1>0, <2>4, <2>5, <2>6, SaidStep
<1>3. CASE RebuildFails
  <2>1. /\ files' = files /\ graph' = saved /\ saved' = saved
        /\ \/ graphOff' = graphOff \cup Hurt \cup DOMAIN files
           \/ act'[a].pc = "rebuild" /\ act'[a].todo = DOMAIN files /\ graphOff' = graphOff \cup Hurt
    BY <1>3, RebuildFailsFacts DEF RebuildFailed, FilesStay
  <2>2. ASSUME NEW p \in Paths \ graphOff' PROVE SaidAt(p)'
    <3>1. SaidAt(p) /\ p \notin Hurt
      BY <2>1, <2>2 DEF SaidInv
    <3>2. p \in DOMAIN graph'.hashes => SaysOf(graph', p, graph'.hashes[p]) /\ SaysOf(saved', p, graph'.hashes[p])
      BY <1>0, <2>1, <3>1 DEF SaidAt, HashSaid
    <3>3. HashSaid(p)'
      BY <3>2 DEF HashSaid
    <3>4. CASE p \in DOMAIN files
      <4>1. PICK c \in Notes : c = files[p]
        BY <3>4, FileFacts DEF ShapeInv
      <4>2. GraphOwes(a, p)'
        BY <2>1, <2>2, <3>4 DEF GraphOwes
      <4>3. GraphSaid(p, c)' /\ SavedSaid(p, c)'
        BY <1>0, <4>2 DEF GraphSaid, SavedSaid
      <4>4. HashNew(p, c)'
        <5>1. HashNew(p, c)
          BY <3>1, <3>4, <4>1 DEF SaidAt
        <5>2. \A b \in Acts : \A pc : OnIt(b, p, pc)' => OnIt(b, p, pc)
          BY <1>0, <1>a, OthersSay
        <5> QED  BY <1>0, <2>1, <5>1, <5>2 DEF HashNew
      <4>5. p \in DOMAIN files' /\ files'[p] = c
        BY <2>1, <3>4, <4>1
      <4> QED  BY <3>3, <4>3, <4>4, <4>5 DEF SaidAt
    <3>5. CASE p \notin DOMAIN files
      <4>1. NothingSaid(p)
        BY <3>1, <3>5 DEF SaidAt
      <4>2. \A b \in Acts : Withdraws(b, p) => Withdraws(b, p)'
        BY <1>0, <1>a, OthersSay
      <4>3. NothingSaid(p)'
        BY <2>1, <4>1, <4>2 DEF NothingSaid
      <4> QED  BY <2>1, <3>3, <3>5, <4>3 DEF SaidAt
    <3> QED  BY <3>4, <3>5
  <2> QED  BY <2>2 DEF SaidInv
<1>4. CASE RebuildEnds
  BY <1>4, RebuildEndsFacts, <1>0, <1>a, SaidQuiet DEF AllStay, FilesStay, StoresStay, GraphStays,
     GraphOwes, OwedStays
<1> QED  BY <1>1, <1>2, <1>3, <1>4

LEMMA SaidNext ==
  ASSUME ShapeInv, OldFound, FreshInv, RowsInv, SaidInv, GardenNext
  PROVE  SaidInv'
BY SaidCare, SaidEdges, SaidMonths, SaidCrash, SaidRebuild, SaidScan, SaidWriter, SaidSubscribers DEF GardenNext, Start

LEMMA SaidFirst ==
  ASSUME GardenInit
  PROVE  SaidInv
<1>1. PICK g : g = FirstGraph(files)
  OBVIOUS
<1>2. graph = g /\ saved = g
  BY <1>1 DEF GardenInit
<1>3. /\ g.hashes = files
      /\ \A p \in DOMAIN files : SaysOf(g, p, files[p])
      /\ \A p \in Paths \ DOMAIN files : SaysNothing(g, p)
  BY <1>1, FirstVault, FirstGraphFacts
<1>4. ASSUME NEW p \in Paths PROVE SaidAt(p)
  BY <1>2, <1>3 DEF SaidAt, HashSaid, HashNew, GraphSaid, SavedSaid, NothingSaid
<1> QED  BY <1>4 DEF SaidInv

LEMMA SaidSame ==
  ASSUME ShapeInv, SaidInv, files' = files, act' = act, graph' = graph, saved' = saved, graphOff' = graphOff
  PROVE  SaidInv'
BY ActsFacts, OwesNothing, SaidQuiet DEF ShapeInv, TypesInv, Moves, Stays, Copies, NamesStay

LEMMA SaidSafe ==
  ASSUME SaidInv, Quiet
  PROVE  GraphAgrees
<1>1. \A b \in Acts : act[b].pc = "idle"
  BY DEF Quiet
<1>2. \A p : \A b \in Acts : ~GraphOwes(b, p) /\ ~Withdraws(b, p) /\ \A pc \in InGraph : ~OnIt(b, p, pc)
  BY <1>1 DEF GraphOwes, Withdraws, OnIt, InGraph, ToState, Scans, Untold
<1>3. ASSUME NEW p \in Paths \ graphOff, p \in DOMAIN files PROVE SaysOf(graph, p, files[p])
  BY <1>2, <1>3 DEF SaidInv, SaidAt, GraphSaid, Relating, InGraph
<1>4. ASSUME NEW p \in Paths \ graphOff, p \notin DOMAIN files PROVE SaysNothing(graph, p)
  BY <1>2, <1>4 DEF SaidInv, SaidAt, NothingSaid
<1> QED  BY <1>3, <1>4 DEF GraphAgrees, SaysOf

-----------------------------------------------------------------------------
DerivedInv == ShapeInv /\ OldFound /\ LockInv /\ FreshInv /\ IndexInv /\ VectorInv /\ RowsInv /\ SaidInv

LEMMA DerivedFirst ==
  ASSUME GardenInit
  PROVE  DerivedInv
BY ShapeFirst, FreshFirst, IndexFirst, VectorFirst, RowsFirst, SaidFirst DEF DerivedInv

LEMMA DerivedNext ==
  ASSUME DerivedInv, [GardenNext]_vars
  PROVE  DerivedInv'
<1>1. ShapeInv /\ OldFound /\ LockInv /\ FreshInv /\ IndexInv /\ VectorInv /\ RowsInv /\ SaidInv
  BY DEF DerivedInv
<1>2. CASE GardenNext
  <2>1. ShapeInv' /\ OldFound' /\ LockInv'
    BY <1>1, <1>2, ShapeStep, OldNext, LockNext
  <2>2. FreshInv' /\ IndexInv' /\ VectorInv'
    BY <1>1, <1>2, FreshNext, IndexNext, VectorNext
  <2>3. RowsInv' /\ SaidInv'
    BY <1>1, <1>2, RowsNext, SaidNext
  <2> QED  BY <2>1, <2>2, <2>3 DEF DerivedInv
<1>3. CASE UNCHANGED vars
  <2>1. /\ files' = files /\ act' = act /\ index' = index /\ loaded' = loaded /\ vectors' = vectors
        /\ graph' = graph /\ saved' = saved
        /\ indexOff' = indexOff /\ vectorsOff' = vectorsOff /\ graphOff' = graphOff
    BY <1>3 DEF vars, stores, graphVars, off
  <2>2. ShapeInv' /\ OldFound' /\ LockInv'
    BY <1>1, <1>3, ShapeStutter
  <2>3. FreshInv' /\ IndexInv' /\ VectorInv'
    BY <1>1, <2>1, FreshSame, IndexSame, VectorSame DEF off
  <2>4. RowsInv' /\ SaidInv'
    BY <1>1, <2>1, RowsSame, SaidSame
  <2> QED  BY <2>2, <2>3, <2>4 DEF DerivedInv
<1> QED  BY <1>2, <1>3

\* When everything has come to rest, index, vectors and graph say of each note what the note says,
\* unless it was changed without an event they understand or while an earlier version of it was being
\* processed; and at any time no relationship lacks an entity.
THEOREM DerivedHolds == Spec => []DerivedAgree
<1>1. DerivedInv => DerivedAgree
  BY RowsSafe, IndexSafe, VectorSafe, SaidSafe DEF DerivedInv, DerivedAgree
<1> QED  BY <1>1, DerivedFirst, DerivedNext, PTL DEF Spec

=============================================================================
