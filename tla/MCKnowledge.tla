---------------------------- MODULE MCKnowledge -----------------------------
(***************************************************************************)
(* What is made of the notes: Curation, Retrieval, Compile and Insight on  *)
(* small vaults; and the vault's upkeep: Flatten and Watcher.  One of them *)
(* at a time.                                                              *)
(***************************************************************************)
EXTENDS Curation, Retrieval, Compile, Insight, Flatten, Watcher

CONSTANTS ca, cb, cc, cx, g1, g2,           \* Curation
          t1, t2, t3, f1, f2,           \* Retrieval
          k1, k2, wa, wb, wc, wd,          \* Compile
          pa, pb, pc, na, nb, nc, nd, s1, s2,   \* Insight
          ideas, people, young, old, xs, ta, tb, tc, idea, person, peopl   \* Flatten

\* Curation: ca and cb are alike by their letters, ca and cc by their embeddings.
TheRank == [i \in {ca, cb, cc} |-> IF i = ca THEN 0 ELSE IF i = cb THEN 1 ELSE 2]
AB == {{ca, cb}}
AC == {{ca, cc}}
TheRulings == {[pair |-> {ca, cb}, base |-> 88, fades |-> TRUE],
               [pair |-> {ca, cc}, base |-> 80, fades |-> FALSE]}
Policy(name, priority, from, until, hard) ==
  [kind |-> "merge-auto-apply", name |-> name, priority |-> priority, from |-> from,
   until |-> until, scoped |-> FALSE, hard |-> hard, review |-> 0]
TheProfiles == {Policy("strict", 100, 0, 1, 70), Policy("default", 50, 1, 2, 90)}
M(k, s) == [canonical |-> k, merge |-> s]
Drafted(ms) ==
  [q \in {<<m.canonical, 0, 1>> : m \in ms} |->
     LET m == CHOOSE m \in ms : m.canonical = q[1]
     IN [canonical |-> m.canonical, merge |-> m.merge, status |-> "draft"]]
From(ms, generates, edits) ==
  [concepts |-> {ca, cb, cc}, tagged |-> [n \in {cx} |-> {cb}], profiles |-> {},
   drafts |-> Drafted(ms), generates |-> generates, edits |-> edits]
\* Two generators; one, and a draft; three merges that form a ring.
TheBeginnings == {From({}, 0, 0), From({}, 2, 1), From({M(ca, {cb})}, 1, 2),
                  From({M(ca, {cb}), M(cc, {ca}), M(cb, {cc})}, 0, 4)}
Generic == Permutations({g1, g2})

\* Retrieval: the second note is garbled, the third the newest.
TheOrder == [t \in {t1, t2, t3} |-> IF t = t1 THEN 1 ELSE IF t = t2 THEN 2 ELSE 3]
TheLength == [t \in {t1, t2, t3} |-> IF t = t2 THEN 5 ELSE 3]
TheLibrary == {[t \in {t1, t2, t3} |-> Nowhere],
               [t \in {t1, t2, t3} |-> IF t = t3 THEN f2 ELSE f1],
               [t \in {t1, t2, t3} |-> IF t = t2 THEN Nowhere ELSE f1],
               [t \in {t1, t2, t3} |-> f1]}
TheWants == [by: {"agent", "skill", "chat", "search", "knowledge"},
             dirs: {<<f1, f2>>, <<f2, f2>>}, chars: {7, 40}, top: {2, 3}]

\* Compile: an import of three chunks alone, one without a service, two side by side.
E(do, tags) == [do |-> do, target |-> do # "create", complete |-> TRUE, odd |-> FALSE,
                tags |-> tags, entities |-> <<"n", "m", "n">>, mentions |-> {"n"}]
P(plan) == [shape |-> "array", plan |-> plan]
Long == {P(<<E("create", <<wa, wb, wa>>), [E("append", <<>>) EXCEPT !.target = FALSE],
             E("update", <<>>)>>),
         P(<<[E("create", <<wb>>) EXCEPT !.odd = TRUE]>>),
         [shape |-> "torn", plan |-> <<E("update", <<>>)>>]}
Short == {P(<<E("create", <<wd, wa, wb, wa, wc>>)>>)}
Items(sizes, wired, says) ==
  [items |-> sizes, local |-> TRUE, served |-> wired, says |-> says, listed |-> 0, wired |-> wired]
None == Items(<<>>, FALSE, 0)
By(i, j) == [k \in {k1, k2} |-> IF k = k1 THEN i ELSE j]
Meanings == {[w \in {wa, wb, wc, wd} |-> Unknown],
             [w \in {wa, wb, wc, wd} |-> IF w = wc THEN Barred ELSE IF w = wd THEN wd ELSE wa],
             [w \in {wa, wb, wc, wd} |-> IF w = wc THEN Unknown ELSE w]}
TheOrders ==
  [imports: {By(Items(<<2, 9, 3, 1>>, TRUE, 7), None), By(None, Items(<<2, 2, 3, 1>>, FALSE, 0))},
   answers: {Long}, means: Meanings, merges: {0}]
  \cup [imports: {By(Items(<<1>>, TRUE, 7), Items(<<1>>, TRUE, 7))}, answers: {Short},
        means: Meanings, merges: {1}]
  \cup [imports: {By(None, None)}, answers: {{}}, means: {[w \in {wa, wb, wc, wd} |-> Unknown]},
        merges: {0}]

\* Insight: a chain of notes, and two notes that mention the same thing.
TheOwn == [p \in {pa, pb, pc} |-> IF p = pa THEN na ELSE IF p = pb THEN nb ELSE nc]
TheMatches == [t \in {s1, s2} |-> IF t = s1 THEN {na, nd} ELSE {nb, nd}]
TheNames == [n \in {na, nb, nc, nd} |-> IF n = na THEN 1 ELSE IF n = nb THEN 2 ELSE IF n = nc THEN 3 ELSE 4]
W(p, strong, weak) == [path |-> p, strong |-> strong, weak |-> weak]
Chain == <<W(pa, {nb}, {}), W(pb, {nc}, {}), W(pc, {nd}, {})>>
Web == <<W(pa, {nb}, {nd}), W(pb, {nb}, {nd}), W(pc, {}, {})>>
V(ns, writes, topics, shots, fusions) ==
  [notes |-> ns, writes |-> writes, topics |-> topics, shots |-> shots, fusions |-> fusions]
TheVaults == {V(<<>>, 0, 0, 0, 0)}
             \cup UNION {{V(n, 1, 1, 0, 0), V(n, 1, 0, 1, 1), V(n, 2, 0, 0, 1)} : n \in {Chain, Web}}
TheTopics == [terms: {<<s1, s2>>}, hops: {1, 2}, top: {2}, chars: {17}]
             \cup [terms: {<<s2>>}, hops: {2}, top: {2}, chars: {17}]
TheWritings == {W(pa, {}, {nd}), W(pb, {na, nd}, {})}

\* Flatten: two notes of one name in folders by kind; and one beside them that is bare.
TheKindOf == [f \in {ideas, people} |-> IF f = ideas THEN idea ELSE peopl]
N(text, kind, stage, tags) == Note(text, kind, stage, tags, Unsaid, FALSE)
TheNotes == [p \in {<<ideas, xs, 0>>, <<people, xs, 0>>} |->
    IF p[1] = ideas THEN N(ta, idea, Unsaid, {}) ELSE N(tb, person, old, {idea})]
TheOthers == [p \in {<<ideas, xs, 0>>, <<people, xs, 0>>, <<young, xs, 0>>} |->
    IF p[1] = ideas THEN N(ta, Unsaid, Unsaid, {idea}) ELSE IF p[1] = people THEN N(tb, person, young, {})
    ELSE Note(tc, Unsaid, young, {}, Unsaid, TRUE)]
TheVaults0 == {[notes |-> TheNotes, rooted |-> FALSE], [notes |-> TheOthers, rooted |-> TRUE]}

VARIABLE part     \* which of them

Init ==
  /\ part \in {"curation", "retrieval", "compile", "insight", "flatten", "watcher"}
  /\ CurationInit /\ RetrievalInit /\ CompileInit /\ InsightInit /\ FlattenInit /\ WatcherInit
  /\ part = "curation" <=> left.generates + left.edits > 0
  /\ part = "retrieval" <=> place # [t \in Texts |-> Nowhere]
  /\ part = "compile" <=> order.imports # By(None, None)
  /\ part = "insight" <=> onDisk # {}
  /\ part # "flatten" => rooted
  /\ part # "watcher" => installed

CurationPart == /\ part = "curation" /\ CurationNext
                /\ UNCHANGED <<part, retrievalVars, compileVars, insightVars, flattenVars, watcherVars>>
RetrievalPart == /\ part = "retrieval" /\ RetrievalNext
                 /\ UNCHANGED <<part, curationVars, compileVars, insightVars, flattenVars, watcherVars>>
CompilePart == /\ part = "compile" /\ CompileNext
               /\ UNCHANGED <<part, curationVars, retrievalVars, insightVars, flattenVars, watcherVars>>
InsightPart == /\ part = "insight" /\ InsightNext
               /\ UNCHANGED <<part, curationVars, retrievalVars, compileVars, flattenVars, watcherVars>>
FlattenPart == /\ part = "flatten" /\ FlattenNext
               /\ UNCHANGED <<part, curationVars, retrievalVars, compileVars, insightVars, watcherVars>>
WatcherPart == /\ part = "watcher" /\ WatcherNext
               /\ UNCHANGED <<part, curationVars, retrievalVars, compileVars, insightVars, flattenVars>>

Next == \/ CurationPart \/ RetrievalPart \/ CompilePart \/ InsightPart \/ FlattenPart \/ WatcherPart

Spec == Init /\ [][Next]_<<part, curationVars, retrievalVars, compileVars, insightVars, flattenVars, watcherVars>>

\* The vault's upkeep: a migration of its folders that is interrupted, begun again and
\* reverted loses no text, and the index follows what others do to its files (FlattenSound
\* and WatcherSound say it in full).
UpkeepSound == FlattenSound /\ WatcherSound
=============================================================================
