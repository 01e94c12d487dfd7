------------------------------- MODULE Graph -------------------------------
(***************************************************************************)
(* The knowledge graph, bsage/garden/graph_store.py: the rows of its       *)
(* database as a value, and what each write does to them.  graph is what   *)
(* the one connection sees, saved what was committed last.  Maturity       *)
(* (maturity.py) counts in it, the edge lifecycle (edge_lifecycle.py)      *)
(* changes its edges.                                                      *)
(***************************************************************************)
EXTENDS Integers, FiniteSets, Sequences, Functions

CONSTANTS Paths,       \* vault-relative paths of notes
          Names,       \* names of entities
          OwnName,     \* the name a path gives to its note
          Contents,    \* what a note may hold
          MinEdges, MinSources, MinEvergreen, \* thresholds of the maturity
          MinMentions  \* promotion_min_mentions of the edge lifecycle

ASSUME OwnNameAssumption == OwnName \in [Paths -> Names]
ASSUME ThresholdAssumption == {MinEdges, MinSources, MinEvergreen, MinMentions} \subseteq Nat

VARIABLES graph, saved
graphVars == <<graph, saved>>

Statuses == {"none", "seed", "seedling", "budding", "evergreen"}
Rels == {"states", "references"}

\* Rows: an entity with its source_path and whether it was updated lately, provenance,
\* relationships, source hashes.  Two more fields are history: bereft, the entities whose
\* source was deleted while another note still stated them; lent, the notes one of whose
\* relationships was skipped because the row of another note said the same.
EmptyGraph == [ents |-> [n \in {} |-> {}], prov |-> {}, edges |-> {},
               hashes |-> [p \in {} |-> {}], bereft |-> {}, lent |-> {}]

Edges == [from: Names, to: Names, rel: Rels, src: Paths, strong: BOOLEAN, old: BOOLEAN]

IsGraph(g) ==
  /\ DOMAIN g.ents \subseteq Names /\ \A n \in DOMAIN g.ents : g.ents[n] \in [src: Paths, old: BOOLEAN]
  /\ g.prov \subseteq Names \X Paths /\ g.edges \subseteq Edges
  /\ DOMAIN g.hashes \subseteq Paths /\ \A p \in DOMAIN g.hashes : g.hashes[p] \in Contents
  /\ g.bereft \subseteq Names /\ g.lent \subseteq Paths

Put(f, x, v) == [y \in DOMAIN f \cup {x} |-> IF y = x THEN v ELSE f[y]]
Drop(f, s) == Restrict(f, DOMAIN f \ s)

-----------------------------------------------------------------------------
\* Writes.

\* _upsert_entity_locked: a row is found by its name; the last note to state an entity
\* becomes its source, every note is recorded as provenance.
UpsertEntities(g, p, names) ==
  [g EXCEPT !.ents = [n \in DOMAIN @ \cup names |->
                        IF n \in names THEN [src |-> p, old |-> FALSE] ELSE @[n]],
            !.prov = @ \cup (names \X {p}),
            !.bereft = @ \ names]

Alike(e, f) == e.from = f.from /\ e.to = f.to /\ e.rel = f.rel

\* _upsert_relationship_locked: a duplicate is skipped, whichever note it came from.
UpsertEdges(g, es) ==
  [g EXCEPT !.edges = @ \cup {e \in es : ~\E f \in g.edges : Alike(e, f)},
            !.lent = @ \cup {e.src : e \in {x \in es : \E f \in g.edges : Alike(x, f) /\ f.src # x.src}}]

UnownedMutant(g, prov, p) == {n \in DOMAIN g.ents : g.ents[n].src = p}
Unowned(g, prov, p) ==
  {n \in DOMAIN g.ents : g.ents[n].src = p /\ ~\E q \in Paths : <<n, q>> \in prov}

\* _delete_by_source_locked: an entity goes if this note was its last source and its only
\* provenance; its relationships go with it.
DeleteSource(g, p) ==
  LET prov == {s \in g.prov : s[2] # p}
      gone == Unowned(g, prov, p)
  IN [ents |-> Drop(g.ents, gone),
      prov |-> prov,
      edges |-> {e \in g.edges : e.src # p /\ {e.from, e.to} \cap gone = {}},
      hashes |-> Drop(g.hashes, {p}),
      bereft |-> (g.bereft \ gone)
                  \cup {n \in DOMAIN g.ents \ gone : g.ents[n].src = p},
      lent |-> g.lent \ {p}]

\* extract_from_note: the note itself; what its frontmatter states, strongly; what its
\* body links to and the frontmatter does not state, weakly.
Edge(p, n, strong) == [from |-> OwnName[p], to |-> n, src |-> p, strong |-> strong, old |-> FALSE,
                       rel |-> IF strong THEN "states" ELSE "references"]
Stated(p, strong, weak) == {OwnName[p]} \cup strong \cup weak
StatedEdges(p, strong, weak) == {Edge(p, n, TRUE) : n \in strong}
                                \cup {Edge(p, n, FALSE) : n \in weak \ strong}

\* confirm_entities_by_source.
Confirm(g, p) == [g EXCEPT !.ents = [n \in DOMAIN @ |->
                                       IF @[n].src = p THEN [@[n] EXCEPT !.old = FALSE] ELSE @[n]]]

\* _rebuild_one: one operation of the queue.
RebuildOne(g, p, c, strong, weak) ==
  LET stated == UpsertEdges(UpsertEntities(DeleteSource(g, p), p, Stated(p, strong, weak)),
                            StatedEdges(p, strong, weak))
  IN [stated EXCEPT !.hashes = Put(@, p, c)]

\* Months pass.
Aged(g) == [g EXCEPT !.ents = [n \in DOMAIN @ |-> [@[n] EXCEPT !.old = TRUE]],
                     !.edges = {[e EXCEPT !.old = TRUE] : e \in @}]

\* What the graph says of a note: what it states, a row of its own for each of its
\* relationships but those that were lent, and no other row; or nothing.
StatedIn(g, p) == {s[1] : s \in {r \in g.prov : r[2] = p}}
RowsOf(g, p) == {e \in g.edges : e.src = p}
AllAlike(es, fs) == \A e \in es : \E f \in fs : Alike(e, f)
Says(g, p, names, es) ==
  /\ StatedIn(g, p) = names /\ names \subseteq DOMAIN g.ents
  /\ AllAlike(RowsOf(g, p), es)
  /\ p \notin g.lent => AllAlike(es, RowsOf(g, p))
SaysNothing(g, p) == StatedIn(g, p) = {} /\ RowsOf(g, p) = {}

Writes(g) == graph' = g /\ UNCHANGED saved
Commits(g) == graph' = g /\ saved' = g
RollsBack == graph' = saved /\ UNCHANGED saved

-----------------------------------------------------------------------------
\* The edge lifecycle.

\* find_promotion_candidates: targets that enough notes mention weakly.
PromotionCandidates(g) ==
  {n \in Names : Cardinality({e.src : e \in {f \in g.edges : f.to = n /\ ~f.strong}}) >= MinMentions}

\* promote_edges: every weak edge to such a target.
PromoteEdges(g, targets) ==
  [g EXCEPT !.edges = {IF e.to \in targets THEN [e EXCEPT !.strong = TRUE] ELSE e : e \in @}]

\* find_demotion_candidates: strong and created long ago, whatever still states it.
DemotionCandidates(g) == {e \in g.edges : e.strong /\ e.old}

DemoteEdges(g, es) == [g EXCEPT !.edges = {IF e \in es THEN [e EXCEPT !.strong = FALSE] ELSE e : e \in @}]

-----------------------------------------------------------------------------
\* Maturity.

Mine(g, p) == {n \in DOMAIN g.ents : g.ents[n].src = p}

\* count_relationships_for_entity, count_distinct_sources: a note's path finds the entities
\* that it was the last to state; no entity is named like a path.
EdgeCount(g, p) == Cardinality({e \in g.edges : {e.from, e.to} \cap Mine(g, p) # {}})
SourceCount(g, p) == Cardinality({q \in Paths : \E n \in Mine(g, p) : <<n, q>> \in g.prov})

\* get_entity_updated_at: any of them, in no order.
MayBeStable(g, p) == \E n \in Mine(g, p) : g.ents[n].old

Normalized(status) == IF status = "none" THEN "seed" ELSE status

\* evaluate: the statuses a note may be given; {} is no change.
Demotion(g, p, status) ==
  IF status = "evergreen" /\ EdgeCount(g, p) < MinEvergreen THEN {"budding"}
  ELSE IF status = "budding" /\ SourceCount(g, p) < MinSources THEN {"seedling"}
  ELSE IF status = "seedling" /\ EdgeCount(g, p) < MinEdges THEN {"seed"}
  ELSE {}

Promotion(g, p, status) ==
  IF status = "seed" /\ EdgeCount(g, p) >= MinEdges THEN {"seedling"}
  ELSE IF status = "seedling" /\ SourceCount(g, p) >= MinSources THEN {"budding"}
  ELSE IF status = "budding" /\ MayBeStable(g, p) /\ EdgeCount(g, p) >= MinEvergreen THEN {"evergreen"}
  ELSE {}

Evaluate(g, p, status) ==
  IF Demotion(g, p, Normalized(status)) # {} THEN Demotion(g, p, Normalized(status))
  ELSE Promotion(g, p, Normalized(status))

=============================================================================
