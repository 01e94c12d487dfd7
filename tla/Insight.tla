------------------------------ MODULE Insight -------------------------------
(***************************************************************************)
(* What is read from the knowledge graph, bsage/garden: the context of a   *)
(* topic (graph_retriever.py, over the traversals of graph_store.py), the  *)
(* snapshot (graph_store.py, gateway/routes.py) with what analytics.py and *)
(* community.py find in it, the fused search over that snapshot and the    *)
(* database (hybrid_search.py), and merges of entities (dedup.py).         *)
(*                                                                         *)
(* Every query is a statement of its own, with an await; between two of    *)
(* them a note may be written, deleted or rebuilt.  What a write does is   *)
(* Graph's.  Scores are in percent.                                        *)
(***************************************************************************)
EXTENDS Graph, Lists, SequencesExt, FiniteSetsExt

CONSTANTS Terms,        \* what one may search for
          Matches,      \* the names that contain a term
          NameOrder,    \* the order of names
          Topics,       \* the requests: records of Topic
          Writings,     \* what a note may say: records of Writing
          NoteSize, LineSize,
          Limit,        \* how many results a fused search gives
          Visible,      \* the notes that the caller of the gateway may see
          Vaults,       \* bound: how it begins, see InsightInit
          NoPath, NoContent

\* The whole query first, then its words of three letters or more.
Topic == [terms: Seq(Terms), hops: Nat, top: Nat, chars: Nat]
Writing == [path: Paths, strong: SUBSET Names, weak: SUBSET Names]

ASSUME InsightAssumption ==
  /\ Matches \in [Terms -> SUBSET Names] /\ NameOrder \in [Names -> Nat] /\ IsInjective(NameOrder)
  /\ Writings \subseteq Writing /\ NoContent \in Contents /\ NoPath \notin Paths
  /\ IsFiniteSet(Names) /\ IsFiniteSet(Paths) /\ Topics \subseteq Topic
  /\ {NoteSize, LineSize, Limit} \subseteq Nat /\ \A v \in Vaults : v.notes \in Seq(Writing)

VARIABLES
  onDisk,      \* the notes there are
  topic,       \* the retrieval of a context
  shot,        \* to_networkx_snapshot under way
  cache,       \* _nx_cache: the last snapshot
  view,        \* what the gateway made of it for its caller
  fusion,      \* a fused search, or a merge of two entities
  stirred,     \* history: per reader, whether what it reads changed since it began
  budget       \* bound: the writes and the reads that are left

insightVars == <<graphVars, onDisk, topic, shot, cache, view, fusion, stirred, budget>>
Readers == {"topic", "shot", "fusion"}

\* matched and rest: the entities found and those still to visit, with their sources;
\* frontier and next: this level of a traversal and the one below; found: what it met,
\* with depth and source; scores: of paths; lines: of the header; left: the paths to read.
NoTopic == [at |-> "none", terms |-> <<>>, matched |-> <<>>, rest |-> <<>>, frontier |-> {},
            next |-> {}, depth |-> 0, found |-> {}, scores |-> [p \in {} |-> 0], lines |-> 1,
            left |-> <<>>, total |-> 0, given |-> <<>>, want |-> {}]
NoGraph == [nodes |-> [n \in {} |-> NoPath], edges |-> {}]
NoFusion == [at |-> "none", term |-> {}, cached |-> <<>>, seeds |-> <<>>, lists |-> <<>>,
             from |-> {}, to |-> {}, edges |-> {}]

Rebuilt(g, w) == RebuildOne(g, w.path, NoContent, w.strong, w.weak)

\* The graph after these notes were read one after the other.
Built(notes) ==
  LET g[i \in 0..Len(notes)] == IF i = 0 THEN EmptyGraph ELSE Rebuilt(g[i - 1], notes[i])
  IN g[Len(notes)]

InsightInit ==
  /\ \E v \in Vaults :
       /\ graph = Built(v.notes)
       /\ onDisk = {v.notes[i].path : i \in DOMAIN v.notes}
       /\ budget = [writes |-> v.writes, topics |-> v.topics, shots |-> v.shots, fusions |-> v.fusions]
  /\ saved = graph
  /\ topic = NoTopic /\ shot = [at |-> "none", nodes |-> NoGraph.nodes]
  /\ cache = NoGraph /\ view = NoGraph /\ fusion = NoFusion
  /\ stirred = [r \in Readers |-> FALSE]

Spends(what) == budget[what] > 0 /\ budget' = [budget EXCEPT ![what] = @ - 1]
Quietly == UNCHANGED <<graphVars, onDisk, stirred>>
Fresh(r) == stirred' = [stirred EXCEPT ![r] = FALSE]

-----------------------------------------------------------------------------
\* Queries: each is one statement.

FirstOnes(s, n) == SubSeq(s, 1, IF n < Len(s) THEN n ELSE Len(s))
ByName(names) ==
  CHOOSE r \in SetToSeqs(names) : \A i, j \in DOMAIN r : i < j => NameOrder[r[i]] < NameOrder[r[j]]

\* All the ways to list a set by score, the highest first.
Rankings(s, score) == {r \in SetToSeqs(s) : \A i, j \in DOMAIN r : i < j => score[r[i]] >= score[r[j]]}

\* search_entities
SearchEntities(term, limit) == FirstOnes(ByName(Matches[term] \cap DOMAIN graph.ents), limit)

\* query_neighbors: its two halves, outgoing and incoming.
Outgoing(n) == {e \in graph.edges : e.from = n}
Incoming(n) == {e \in graph.edges : e.to = n}
Neighbors1(n) == {e.to : e \in Outgoing(n)} \cup {e.from : e \in Incoming(n)}
Source(n) == graph.ents[n].src

\* A path keeps the best score that it was given; adds are paths with scores.
Scored(scores, adds) ==
  [p \in DOMAIN scores \cup {a[1] : a \in adds} |->
     Max({a[2] : a \in {b \in adds : b[1] = p}} \cup (IF p \in DOMAIN scores THEN {scores[p]} ELSE {}))]

\* _score: of a stated or a mentioned edge, of something some hops away, and of the entity
\* itself.
EdgeScore(e) == IF e.strong THEN 50 ELSE 8
HopScore(depth) == 50 \div depth
OwnScore == 1000

-----------------------------------------------------------------------------
\* GraphRetriever.retrieve

Retrieve(t) ==
  /\ topic.at \in {"none", "done"} /\ Spends("topics")
  /\ topic' = [NoTopic EXCEPT !.at = "match", !.terms = t.terms, !.want = {t}]
  /\ Fresh("topic") /\ UNCHANGED <<graphVars, onDisk, shot, cache, view, fusion>>

Want1 == CHOOSE t \in topic.want : TRUE
Steps1(t) == topic' = t /\ UNCHANGED <<shot, cache, view, fusion, budget>> /\ Quietly
MatchLimit == 3

\* _match_entities
MatchEntities ==
  /\ topic.at = "match" /\ topic.terms # <<>> /\ Len(topic.matched) < MatchLimit
  /\ LET found == SearchEntities(Head(topic.terms), MatchLimit)
         new == Filter(found, Names \ {topic.matched[i].of : i \in DOMAIN topic.matched})
         all == topic.matched \o [i \in DOMAIN new |-> [of |-> new[i], src |-> Source(new[i])]]
     IN Steps1([topic EXCEPT !.terms = Tail(@), !.matched = FirstOnes(all, MatchLimit)])

Matched ==
  /\ topic.at = "match" /\ (topic.terms = <<>> \/ Len(topic.matched) >= MatchLimit)
  /\ Steps1(IF topic.matched = <<>> THEN [topic EXCEPT !.at = "done"]
            ELSE [topic EXCEPT !.at = "near", !.rest = topic.matched])

\* The lines of an entity's edges, and the scores of its neighbours' sources.
Near1 ==
  /\ topic.at = "near"
  /\ LET n == Head(topic.rest).of
         out == Outgoing(n)
         inc == Incoming(n)
         near == {<<Source(e.to), EdgeScore(e)>> : e \in out} \cup {<<Source(e.from), EdgeScore(e)>> : e \in inc}
     IN Steps1([topic EXCEPT !.at = "hops", !.frontier = {n}, !.next = {}, !.depth = 1, !.found = {},
                             !.lines = @ + 1 + Cardinality(out) + Cardinality(inc),
                             !.scores = Scored(@, near)])

\* multi_hop_query: the neighbours of one entity of the frontier.
Met == {f.of : f \in topic.found} \cup {Head(topic.rest).of}
Hop ==
  /\ topic.at = "hops" /\ topic.frontier # {} /\ topic.depth <= Want1.hops
  /\ \E n \in topic.frontier :
       LET new == Neighbors1(n) \ Met
       IN Steps1([topic EXCEPT !.frontier = @ \ {n}, !.next = @ \cup new,
                               !.found = @ \cup {[of |-> m, depth |-> topic.depth, src |-> Source(m)] : m \in new}])

Descend ==
  /\ topic.at = "hops" /\ topic.frontier = {} /\ topic.next # {} /\ topic.depth <= Want1.hops
  /\ Steps1([topic EXCEPT !.frontier = topic.next, !.next = {}, !.depth = @ + 1])

\* Its answer is scored, and the entity's own source, highest of all.
Hopped ==
  /\ topic.at = "hops"
  /\ topic.depth > Want1.hops \/ (topic.frontier = {} /\ topic.next = {})
  /\ LET hops == {<<f.src, HopScore(f.depth)>> : f \in topic.found}
     IN Steps1([topic EXCEPT !.at = IF Len(topic.rest) = 1 THEN "rank" ELSE "near",
                             !.rest = Tail(@), !.frontier = {}, !.next = {}, !.found = {}, !.depth = 0,
                             !.scores = Scored(@, hops \cup {<<Head(topic.rest).src, OwnScore>>})])

\* The best paths; equal ones in any order.
Rank1 ==
  /\ topic.at = "rank"
  /\ \E order \in Rankings(DOMAIN topic.scores, topic.scores) :
       Steps1([topic EXCEPT !.at = "read", !.left = FirstOnes(order, Want1.top),
                            !.total = LineSize * (topic.lines + 1)])

Fits(size) == IF size < Want1.chars - topic.total THEN size ELSE Want1.chars - topic.total

\* The next note; one that is not there is left out.
Read1 ==
  /\ topic.at = "read"
  /\ Steps1(IF topic.left = <<>> \/ topic.total >= Want1.chars THEN [topic EXCEPT !.at = "done", !.left = <<>>]
            ELSE IF Head(topic.left) \notin onDisk THEN [topic EXCEPT !.left = Tail(@)]
            ELSE [topic EXCEPT !.left = Tail(@), !.given = Append(@, Head(topic.left)),
                               !.total = @ + Fits(NoteSize)])

-----------------------------------------------------------------------------
\* to_networkx_snapshot, and the gateway's.

Snapshot ==
  /\ shot.at = "none" /\ Spends("shots")
  /\ shot' = [at |-> "edges", nodes |-> [n \in DOMAIN graph.ents |-> Source(n)]]
  /\ Fresh("shot") /\ UNCHANGED <<graphVars, onDisk, topic, cache, view, fusion>>

\* Edges bring nodes without attributes for ends that the first statement did not see.
SnapshotEdges ==
  /\ shot.at = "edges" /\ shot' = [shot EXCEPT !.at = "scan"]
  /\ LET ends == UNION {{e.from, e.to} : e \in graph.edges}
     IN cache' = [nodes |-> [n \in DOMAIN shot.nodes \cup ends |->
                               IF n \in DOMAIN shot.nodes THEN shot.nodes[n] ELSE NoPath],
                  edges |-> graph.edges]
  /\ stirred' = [stirred EXCEPT !["fusion"] = @ \/ fusion.at \in {"hops", "done"}]
  /\ UNCHANGED <<graphVars, onDisk, topic, view, fusion, budget>>

Without(g, names) == [nodes |-> Drop(g.nodes, names),
                      edges |-> {e \in g.edges : {e.from, e.to} \cap names = {}}]
Degree(g, n) == Cardinality({e \in g.edges : e.from = n}) + Cardinality({e \in g.edges : e.to = n})

\* _tenant_graph_snapshot: without the nodes of notes that the caller's scan does not find,
\* then without those that have neither note nor edge left.
TenantSnapshot ==
  /\ shot.at = "scan" /\ shot' = [at |-> "none", nodes |-> NoGraph.nodes]
  /\ \E all \in BOOLEAN :
       LET hidden == {n \in DOMAIN cache.nodes : cache.nodes[n] \notin (onDisk \cap Visible) \cup {NoPath}}
           shown == Without(cache, hidden)
           alone == {n \in DOMAIN shown.nodes : shown.nodes[n] = NoPath /\ Degree(shown, n) = 0}
       IN view' = IF all THEN cache ELSE Without(shown, alone)
  /\ UNCHANGED <<topic, cache, fusion, budget>> /\ Quietly

\* compute_graph_stats, find_knowledge_gaps, find_god_nodes, over the components of a library:
\* what is within so many steps of a node.
Linked(g, n) == (UNION {{e.from, e.to} : e \in {f \in g.edges : n \in {f.from, f.to}}}) \ {n}
Balls(near, n, k) ==
  LET ball[i \in 0..k] == IF i = 0 THEN {n} ELSE ball[i - 1] \cup UNION {near[m] : m \in ball[i - 1]} IN ball
Component(g, n) ==
  LET k == Cardinality(DOMAIN g.nodes) IN Balls([m \in DOMAIN g.nodes |-> Linked(g, m)], n, k)[k]
Components(g) == {Component(g, n) : n \in DOMAIN g.nodes}
OfDegree(g, d) == {n \in DOMAIN g.nodes : Degree(g, n) = d}
Small(g) == {c \in Components(g) : 2 <= Cardinality(c) /\ Cardinality(c) < 3}
GodNodes(g, top, min) ==
  {FirstOnes(r, top) : r \in Rankings({n \in DOMAIN g.nodes : Degree(g, n) >= min},
                                     [n \in DOMAIN g.nodes |-> Degree(g, n)])}

\* _pagerank_pure, on the graph without its parallel edges, some rounds of it.
Rounds == 4
Mass == 100000
PageRank(g) ==
  LET nodes == DOMAIN g.nodes
      arcs == {<<e.from, e.to>> : e \in g.edges}
      out(n) == Cardinality({a \in arcs : a[1] = n})
      rank[r \in 0..Rounds] ==
        IF r = 0 THEN [n \in nodes |-> Mass \div Cardinality(nodes)]
        ELSE [n \in nodes |-> (15 * Mass) \div (100 * Cardinality(nodes))
                + SumFunction([m \in {k \in nodes : <<k, n>> \in arcs} |->
                                 (85 * rank[r - 1][m]) \div (100 * out(m))])]
  IN rank[Rounds]

\* compute_centrality
Centrality(g, top) == {FirstOnes(r, top) : r \in Rankings(DOMAIN g.nodes, PageRank(g))}

\* _compute_cohesion, in percent, of the simple graph: a loop is an edge of it.
Cohesion(g, members) ==
  LET within == {{e.from, e.to} : e \in {f \in g.edges : {f.from, f.to} \subseteq members}}
      n == Cardinality(members)
  IN IF n < 2 THEN 100 ELSE (100 * Cardinality(within)) \div ((n * (n - 1)) \div 2)

\* detect_communities: what a library may find, two members or more of one component.
Communities(g) ==
  {c \in SUBSET DOMAIN g.nodes : Cardinality(c) >= 2 /\ \E d \in Components(g) : c \subseteq d}

\* The gateway shows the notes of its members.
Shown(g, c) == {g.nodes[n] : n \in c} \ {NoPath}

-----------------------------------------------------------------------------
\* hybrid_search: three searches side by side, on the last snapshot and on the database.

Named(g) == {n \in DOMAIN g.nodes : g.nodes[n] # NoPath}

\* _bm25_search, at once; _graph_search begins.
Fuse(term) ==
  /\ fusion.at \in {"none", "done"} /\ Spends("fusions")
  /\ fusion' = [NoFusion EXCEPT !.at = "hops", !.term = {term},
                                !.cached = FirstOnes(ByName(Named(cache) \cap Matches[term]), 2 * Limit),
                                !.seeds = SearchEntities(term, 3)]
  /\ Fresh("fusion") /\ UNCHANGED <<graphVars, onDisk, topic, shot, cache, view>>

Fuses1(f) == fusion' = f /\ UNCHANGED <<topic, shot, cache, view, budget>> /\ Quietly

\* _graph_search ends, with the neighbours of its seeds in any order; _vector_search after
\* its await; each may raise, and counts for nothing.
GraphAndVector ==
  /\ fusion.at = "hops"
  /\ LET hops == (UNION {Neighbors1(n) : n \in ToSet(fusion.seeds)}) \ ToSet(fusion.seeds)
         far == {<<>>} \cup {FirstOnes(fusion.seeds \o r, 2 * Limit) : r \in SetToSeqs(hops)}
         near == {<<>>, FirstOnes(Reverse(ByName(Named(cache))), 2 * Limit)}
     IN \E f \in far, n \in near : Fuses1([fusion EXCEPT !.at = "done", !.lists = <<fusion.cached, f, n>>])

\* The fused scores: the sum of 1 / (60 + rank), of a unit that tells all ranks apart.
PlaceIn(list, n) == SelectInSeq(list, LAMBDA m : m = n)
Unit == (61 + 2 * Limit) * (61 + 2 * Limit)
Points(list, n) == IF PlaceIn(list, n) = 0 THEN 0 ELSE Unit \div (60 + PlaceIn(list, n))
RRFMutant(lists, n) == PlaceIn(lists[1], n) + PlaceIn(lists[2], n) + PlaceIn(lists[3], n)
RRF(lists, n) == Points(lists[1], n) + Points(lists[2], n) + Points(lists[3], n)
Candidates(lists) == UNION {ToSet(lists[i]) : i \in DOMAIN lists}
Fused(lists) ==
  {FirstOnes(r, Limit) : r \in Rankings(Candidates(lists), [n \in Candidates(lists) |-> RRF(lists, n)])}

-----------------------------------------------------------------------------
\* Duplicates of an entity.

Held(n) == [of |-> n, src |-> Source(n)]

\* find_semantic_duplicates: a search for the first words of its name.
FindDuplicates(n, term) ==
  /\ fusion.at \in {"none", "done"} /\ Spends("fusions")
  /\ n \in DOMAIN graph.ents \cap Matches[term]
  /\ fusion' = [NoFusion EXCEPT !.at = "check", !.to = {Held(n)},
                                !.from = {Held(m) : m \in ToSet(SearchEntities(term, 5)) \ {n}}]
  /\ Fresh("fusion") /\ UNCHANGED <<graphVars, onDisk, topic, shot, cache, view>>

\* llm_check_duplicate: none of them, or the one that is merged, is the same thing.
CheckDuplicates ==
  /\ fusion.at = "check"
  /\ \E same \in {{}} \cup {{r} : r \in fusion.from} :
       Fuses1(IF same = {} THEN NoFusion ELSE [fusion EXCEPT !.at = "merge", !.from = same])

\* merge_duplicate begins, with the edges the duplicate has now.
MergeDuplicate ==
  /\ fusion.at = "merge"
  /\ LET d == (CHOOSE r \in fusion.from : TRUE).of
     IN Fuses1([fusion EXCEPT !.at = "move", !.edges = Outgoing(d) \cup Incoming(d)])

Kept1 == CHOOSE r \in fusion.to : TRUE
Dropped1 == CHOOSE r \in fusion.from : TRUE
Moved1(e) == [e EXCEPT !.from = IF @ = Dropped1.of THEN Kept1.of ELSE @,
                       !.to = IF @ = Dropped1.of THEN Kept1.of ELSE @]

\* upsert_relationship of the edge at its new ends: one like it is there, or the insert
\* fails, for the row that has its id still is; if a write took that, the insert brings it
\* back, given its ends.
MoveEdge ==
  /\ fusion.at = "move" /\ fusion.edges # {}
  /\ \E e \in fusion.edges :
       LET moved == Moved1(e)
           alike == \E f \in graph.edges : Alike(f, moved)
       IN \/ alike /\ Fuses1([fusion EXCEPT !.edges = @ \ {e}])
          \/ /\ ~alike /\ (e \in graph.edges \/ ~({moved.from, moved.to} \subseteq DOMAIN graph.ents))
             /\ Fuses1([NoFusion EXCEPT !.at = "raised"])
          \/ /\ ~alike /\ e \notin graph.edges /\ {moved.from, moved.to} \subseteq DOMAIN graph.ents
             /\ fusion' = [fusion EXCEPT !.edges = @ \ {e}]
             /\ Writes(UpsertEdges(graph, {moved}))
             /\ stirred' = [r \in Readers |-> stirred[r] \/ r # "fusion"]
             /\ UNCHANGED <<onDisk, topic, shot, cache, view, budget>>

\* The alias is written, and the duplicate's note leaves the graph.
WriteAlias ==
  /\ fusion.at = "move" /\ fusion.edges = {}
  /\ fusion' = [fusion EXCEPT !.at = "drop"]
  /\ Writes(UpsertEntities(graph, Kept1.src, {Kept1.of}))
  /\ stirred' = [r \in Readers |-> stirred[r] \/ r # "fusion"]
  /\ UNCHANGED <<onDisk, topic, shot, cache, view, budget>>

DropDuplicate ==
  /\ fusion.at = "drop" /\ fusion' = [fusion EXCEPT !.at = "merged"]
  /\ Commits(DeleteSource(graph, Dropped1.src))
  /\ stirred' = [r \in Readers |-> stirred[r] \/ r # "fusion"]
  /\ UNCHANGED <<onDisk, topic, shot, cache, view, budget>>

MergeEnds ==
  /\ fusion.at \in {"raised", "merged"} /\ Fuses1(NoFusion)

-----------------------------------------------------------------------------
\* Meanwhile: a note is written or vanishes.

WriteNote(w) ==
  /\ Spends("writes") /\ onDisk' = onDisk \cup {w.path}
  /\ Commits(Rebuilt(graph, w))
  /\ stirred' = [r \in Readers |-> TRUE]
  /\ UNCHANGED <<topic, shot, cache, view, fusion>>

DeleteNote(p) ==
  /\ Spends("writes") /\ p \in onDisk /\ onDisk' = onDisk \ {p}
  /\ stirred' = [r \in Readers |-> TRUE]
  /\ UNCHANGED <<graphVars, topic, shot, cache, view, fusion>>

ForgetNote(p) ==
  /\ p \notin onDisk /\ p \in {Source(n) : n \in DOMAIN graph.ents}
  /\ Commits(DeleteSource(graph, p))
  /\ stirred' = [r \in Readers |-> TRUE]
  /\ UNCHANGED <<onDisk, topic, shot, cache, view, fusion, budget>>

InsightNext ==
  \/ \E t \in Topics : Retrieve(t)
  \/ MatchEntities \/ Matched \/ Near1 \/ Hop \/ Descend \/ Hopped \/ Rank1 \/ Read1
  \/ Snapshot \/ SnapshotEdges \/ TenantSnapshot
  \/ \E term \in Terms : Fuse(term)
  \/ GraphAndVector
  \/ \E n \in Names, term \in Terms : FindDuplicates(n, term)
  \/ CheckDuplicates \/ MergeDuplicate \/ MoveEdge \/ WriteAlias \/ DropDuplicate \/ MergeEnds
  \/ \E w \in Writings : WriteNote(w)
  \/ \E p \in Paths : DeleteNote(p) \/ ForgetNote(p)

-----------------------------------------------------------------------------
\* Properties.

\* Per name that can be reached from m, the length of the shortest way.
Distance(g, m) ==
  LET k == Cardinality(Names)
      ball == Balls([n \in Names |-> Linked(g, n)], m, k)
  IN [n \in ball[k] |-> Min({i \in 0..k : n \in ball[i]})]

\* If the graph kept still, a traversal found everything as near as it should, at its
\* distance; and what is read first is the best there is for what was matched: the sources
\* of the entities, then of those one hop away, then of the others within reach.  No note is
\* read twice, nor more of it than there is room for, whatever the graph did.
ContextRight ==
  LET near(m) == Distance(graph, m)
      reached(p) == UNION {{<<m, n>> : n \in {k \in DOMAIN near(m) : graph.ents[k].src = p /\ near(m)[k] <= Want1.hops}} :
                             m \in {topic.matched[i].of : i \in DOMAIN topic.matched}}
      best(p) == Max({0} \cup {IF near(w[1])[w[2]] = 0 THEN 1000 ELSE 50 \div near(w[1])[w[2]] : w \in reached(p)})
  IN /\ topic.at = "hops" /\ ~stirred["topic"] =>
          LET here == near(Head(topic.rest).of) IN
          /\ \A f \in topic.found : f.of \in DOMAIN here /\ here[f.of] = f.depth
          /\ topic.frontier = {} => {f.of : f \in topic.found} = {n \in DOMAIN here : here[n] \in 1..topic.depth}
     /\ topic.at = "read" /\ ~stirred["topic"] /\ Want1.hops > 0 =>
          /\ \A p \in ToSet(topic.left), q \in Paths \ (ToSet(topic.left) \cup ToSet(topic.given)) :
               q \in onDisk \cap DOMAIN topic.scores => best(p) >= best(q)
          /\ \A p \in Paths : reached(p) # {} <=> p \in DOMAIN topic.scores
     /\ IsInjective(topic.given \o topic.left)
     /\ topic.given # <<>> => topic.total <= Want1.chars

\* A snapshot of a graph that kept still is that graph, and has no node without a note; one
\* that did not has at least no edge without both its ends, and no community of a caller that
\* has a tenant shows a note of another one.
Mirrors(g) == g.edges = graph.edges /\ DOMAIN g.nodes = DOMAIN graph.ents
SnapshotRight ==
  /\ shot.at = "scan" /\ ~stirred["shot"] => Mirrors(cache) /\ Named(cache) = DOMAIN cache.nodes
  /\ \A g \in {cache, view} : \A e \in g.edges : {e.from, e.to} \subseteq DOMAIN g.nodes
  /\ shot.at # "scan" => view = cache \/ \A c \in Communities(view) : Shown(view, c) \subseteq Visible

\* What is read off a view fits together: ends add up to the degrees; what no edge touches is
\* a component of its own; what has one edge is at its end; a pair nobody else is linked to
\* is a small component; the hubs are the best connected; no community is denser than
\* complete unless a note links to itself; and whoever has all the predecessors of one of the
\* most central is among them, or ranks the same.
AnalyticsRight ==
  LET loops == {e \in view.edges : e.from = e.to}
      nodes == DOMAIN view.nodes
      preds(n) == {e.from : e \in {f \in view.edges : f.to = n}}
      rank == PageRank(view)
  IN nodes # {} =>
     /\ SumFunction([n \in nodes |-> Degree(view, n)]) = 2 * Cardinality(view.edges)
     /\ \A n \in OfDegree(view, 0) : Component(view, n) = {n}
     /\ \A n \in OfDegree(view, 1) : Cardinality(Linked(view, n)) = 1
     /\ UNION Components(view) = nodes
     /\ \A c, d \in Components(view) : c = d \/ c \cap d = {}
     /\ \A m, n \in nodes : Linked(view, m) = {n} /\ Linked(view, n) = {m} => {m, n} \in Small(view)
     /\ loops = {} => \A c \in Communities(view) : Cohesion(view, c) <= 100
     /\ \A central \in Centrality(view, 2) : \A m \in ToSet(central), n \in nodes \ ToSet(central) :
          preds(m) \subseteq preds(n) => rank[m] = rank[n]
     /\ \A hubs \in GodNodes(view, 2, 2) : \A i \in DOMAIN hubs, n \in nodes :
          Degree(view, n) > Degree(view, hubs[i]) => n \in ToSet(SubSeq(hubs, 1, i))

\* A fused search names an entity once, and none before another, or instead of another, that
\* every method that found either ranks higher.
FusionRight ==
  fusion.at = "done" /\ fusion.lists # <<>> =>
    LET lists == fusion.lists
        place(k, n) == IF PlaceIn(lists[k], n) = 0 THEN 2 * Limit + 1 ELSE PlaceIn(lists[k], n)
    IN \A all \in Fused(lists) :
         /\ IsInjective(all)
         /\ \A i \in DOMAIN all : \A n \in Candidates(lists) \ ToSet(SubSeq(all, 1, i)) :
              \E k \in DOMAIN lists : place(k, all[i]) <= place(k, n)
         /\ ~stirred["fusion"] /\ Mirrors(cache) => ToSet(all) \subseteq DOMAIN graph.ents

\* A merge leaves the duplicate only if another note states it, and takes the entity that
\* stays with it only if they had the same source.
MergeRight ==
  fusion.at = "merged" /\ ~stirred["fusion"] =>
    /\ Dropped1.of \in DOMAIN graph.ents => \E p \in Paths : <<Dropped1.of, p>> \in graph.prov
    /\ Kept1.of \notin DOMAIN graph.ents => Kept1.src = Dropped1.src

InsightSound == ContextRight /\ SnapshotRight /\ AnalyticsRight /\ FusionRight /\ MergeRight
=============================================================================
