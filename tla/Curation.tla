------------------------------ MODULE Curation ------------------------------
(***************************************************************************)
(* How merges are proposed, bsage/garden/canonicalization: the proposers   *)
(* (proposals.py) that cluster similar concepts while cannot-link          *)
(* decisions (decisions.py) fade and policies (policies.py) come and go,   *)
(* the validator's hard block and the scorer (scoring.py) that read them,  *)
(* and the linter (lint.py) that reads what merges leave behind.           *)
(*                                                                         *)
(* A generator writes an action draft and then a proposal per cluster,     *)
(* with awaits in between, and no lock.  An apply is one step here:        *)
(* ConceptActions takes it apart.                                          *)
(***************************************************************************)
EXTENDS Integers, FiniteSets, Sequences, SequencesExt

CONSTANTS Ids,          \* concept ids
          Rank,         \* their order by length, then by letters
          Similar,      \* the pairs whose n-grams reach the threshold
          Near,         \* the pairs whose embeddings do
          Pages,        \* garden notes
          Rulings,      \* cannot-link decisions: the records of Ruling
          PolicyNames,  \* the names that policy notes may have, "default" among them
          Profiles,     \* policy notes: the records of Profile
          Generators,   \* the requests that generate proposals
          Beginnings,   \* the vaults to begin with: concepts, tagged, profiles and drafts, and
                        \* how many generates and edits may follow
          DepthLimit,   \* _REDIRECT_DEPTH_LIMIT
          MaxDay,       \* bound
          Nothing

Ruling == [pair: SUBSET Ids, base: 0..100, fades: BOOLEAN]
Kinds == {"merge-auto-apply", "decision-maturity"}
Profile == [kind: Kinds, name: PolicyNames, priority: Nat, from: Nat, until: Nat, scoped: BOOLEAN,
            hard: 0..100, review: 0..100]
Draft == [canonical: Ids, merge: SUBSET Ids,
          status: {"draft", "pending_approval", "applied", "blocked", "rejected"}]

ASSUME CurationAssumption ==
  /\ Rank \in [Ids -> Nat] /\ IsInjective(Rank)
  /\ Similar \cup Near \subseteq {e \in SUBSET Ids : Cardinality(e) = 2}
  /\ Rulings \subseteq Ruling /\ Profiles \subseteq Profile
  /\ IsFiniteSet(Ids) /\ IsFiniteSet(Pages) /\ IsFiniteSet(Rulings) /\ Nothing \notin Ids
  /\ "default" \in PolicyNames /\ DepthLimit \in Nat \ {0} /\ MaxDay \in Nat
  /\ \A b \in Beginnings :
       /\ b.concepts \subseteq Ids /\ b.tagged \in [Pages -> SUBSET Ids] /\ b.profiles \subseteq Profile
       /\ IsFiniteSet(DOMAIN b.drafts) /\ b.drafts \in [DOMAIN b.drafts -> Draft]

VARIABLES
  concepts,    \* the active concepts
  alias,       \* their aliases, all of them old ids
  tomb,        \* the tombstones: where a merged concept went
  tagged,      \* per garden note, its tags
  ruled,       \* per decision, the day it was confirmed
  profiles,    \* the policy notes there are
  drafts,      \* the merge-concepts actions, by path
  proposals,   \* the merge-concepts proposals, by path
  gen,         \* per generator, the generate() under way
  day,
  undisturbed, \* history: the generators nothing has interfered with
  raced,       \* history: two generators ran at once
  again,       \* history: concepts that were created although they had been merged
  left         \* bound: the generates and the edits that are left

shelf == <<concepts, alias, tomb, tagged, ruled, profiles, again>>
curationVars == <<shelf, drafts, proposals, gen, day, undisturbed, raced, left>>

-----------------------------------------------------------------------------
\* Decisions and policies.

\* f applied n times.
Iterated(f, n, x) ==
  LET g[i \in 0..n] == IF i = 0 THEN x ELSE f[g[i - 1]]
  IN g[n]

\* decay_factor: a half for every half-life, here a day.
Decayed(base, days) == Iterated([s \in 0..100 |-> s \div 2], days, base)

\* effective_strength: nothing unless the decision is active.
Strength(r) ==
  IF ruled[r] = Nothing THEN 0
  ELSE IF r.fades THEN Decayed(r.base, day - ruled[r]) ELSE r.base

\* _find: a decision is about exactly this pair.
CannotLink(a, b) == {r \in Rulings : ruled[r] # Nothing /\ r.pair = {a, b}}
MaxStrength(a, b) == Max({0} \cup {Strength(r) : r \in CannotLink(a, b)})

\* select, for the empty scope: the notes that are valid today; the highest priority wins.
Matching(kind) ==
  {p \in profiles : p.kind = kind /\ p.from <= day /\ day < p.until /\ ~p.scoped}

\* A tie raises PolicyConflictError, which both callers take for no policy.
Selected(kind) ==
  LET tops == {p \in Matching(kind) : \A q \in Matching(kind) : q.priority <= p.priority}
  IN IF Cardinality(tops) = 1 THEN tops ELSE {}

\* The default notes: valid from now on, for every scope.
Defaults ==
  [kind: Kinds, name: {"default"}, priority: {100}, from: {day}, until: {MaxDay + 1},
   scoped: {FALSE}, hard: {85}, review: {60}]

\* bootstrap_defaults: those that are not there.
Booted(ps) == ps \cup {p \in Defaults : ~\E q \in ps : q.kind = p.kind /\ q.name = p.name}

HardBlock ==
  LET ps == Selected("merge-auto-apply") IN IF ps = {} THEN 85 ELSE (CHOOSE p \in ps : TRUE).hard
Review ==
  LET ps == Selected("decision-maturity") IN IF ps = {} THEN 60 ELSE (CHOOSE p \in ps : TRUE).review

\* The service's cannot-link hard block of a merge.
HardBlocked(m) == \E c \in m.merge : MaxStrength(m.canonical, c) >= HardBlock

\* score: the decisions it warns of.  Its other reason, too many affected paths, never
\* arises before an apply, which is what sets them.
Risks(m) ==
  {r \in UNION {CannotLink(m.canonical, c) : c \in m.merge} :
     Review <= Strength(r) /\ Strength(r) < HardBlock}

-----------------------------------------------------------------------------
\* Clusters.

\* _UnionFind.union, by what find returns for each: one side's is the other's from now on.
Union(leader, e) ==
  LET a == CHOOSE x \in e : TRUE
      b == CHOOSE x \in e \ {a} : TRUE
  IN [c \in Ids |-> IF leader[c] = leader[a] THEN leader[b] ELSE leader[c]]

\* find, after the union of every pair.
Leaders(edges, all) ==
  LET pairs == SetToSeq({e \in edges : e \subseteq all})
      f[i \in 0..Len(pairs)] == IF i = 0 THEN [c \in Ids |-> c] ELSE Union(f[i - 1], pairs[i])
  IN f[Len(pairs)]

\* groups, of more than one.
Groups(edges, all) ==
  LET leader == Leaders(edges, all)
  IN {g \in {{d \in all : leader[d] = leader[c]} : c \in all} : Cardinality(g) > 1}

\* What the groups should be: everything that edges reach, the least that is closed.
Closed(edges, s, all) == \A e \in edges : e \subseteq all /\ e \cap s # {} => e \subseteq s
Reach(edges, all, c) == {d \in all : \A s \in SUBSET all : c \in s /\ Closed(edges, s, all) => d \in s}

ApartMutant(g) == \E a \in g, b \in {d \in g : \A c \in g : Rank[c] <= Rank[d]} : a # b /\ MaxStrength(a, b) >= 85

\* _filter_by_cannot_link: any pair will do, at a threshold no policy changes.
Apart(g) == \E a, b \in g : a # b /\ MaxStrength(a, b) >= 85

\* _pick_canonical: the most used, then the longest, then the last one.
PickCanonical(g, usage) ==
  CHOOSE c \in g : \A d \in g \ {c} :
    usage[d] < usage[c] \/ (usage[d] = usage[c] /\ Rank[d] < Rank[c])

\* _garden_tag_frequency, from the index reader or, without one, from the notes.
Usage(all) == [c \in all |-> Cardinality({n \in Pages : c \in tagged[n]})]

-----------------------------------------------------------------------------
\* Notes.

Merge(canonical, cluster) == [canonical |-> canonical, merge |-> cluster \ {canonical}]
AskedFor(m) == [canonical |-> m.canonical, merge |-> m.merge]

\* with_collision_suffix: the first free path of a second, here a day, and a slug.
FreePath(taken, slug) ==
  LET path(n) == <<slug, day, n>>
  IN path(CHOOSE n \in 1..(Cardinality(taken) + 1) :
            path(n) \notin taken /\ \A k \in 1..(n - 1) : path(k) \in taken)

Open == {"draft", "pending_approval"}

Undecided == {p \in DOMAIN proposals : proposals[p].status = "pending"}
OpenDraft(p) == drafts[proposals[p].draft].status \in Open

\* _existing_pending_merge_signatures
Signatures == {AskedFor(drafts[proposals[p].draft]) : p \in {q \in Undecided : OpenDraft(q)}}

\* from: the concepts there were; edges: their pairs; seen: the signatures there are; of: the
\* cluster in hand; to: the path it writes next; wrote: its drafts.
Quiet0 == [at |-> "idle", balanced |-> FALSE, from |-> {}, edges |-> {}, clusters |-> {},
           usage |-> <<>>, seen |-> {}, of |-> {}, draft |-> Nothing, to |-> Nothing, wrote |-> {}]

CurationInit ==
  /\ day = 0
  /\ \E b \in Beginnings : /\ concepts = b.concepts /\ tagged = b.tagged
                           /\ profiles = Booted(b.profiles) /\ drafts = b.drafts
                           /\ left = [generates |-> b.generates, edits |-> b.edits]
  /\ alias = [c \in Ids |-> {}] /\ again = {}
  /\ tomb = [c \in Ids |-> Nothing] /\ ruled = [r \in Rulings |-> Nothing]
  /\ proposals = <<>>
  /\ gen = [g \in Generators |-> Quiet0]
  /\ undisturbed = {} /\ raced = FALSE

-----------------------------------------------------------------------------
\* generate().

Busy == {g \in Generators : gen[g].at # "idle"}
Is(g, place) == gen[g].at = place
Turn1(g, rec) == gen' = [gen EXCEPT ![g] = rec]
Looks == UNCHANGED <<shelf, drafts, proposals, day, raced, left, undisturbed>>
Changes(who) == undisturbed' = undisturbed \cap who

\* The concepts of the index; there is nothing to do with less than two.
Generate(g, balanced) ==
  /\ Is(g, "idle") /\ left.generates > 0
  /\ Cardinality(concepts) >= 2
  /\ Turn1(g, [Quiet0 EXCEPT !.at = "embed", !.balanced = balanced, !.from = concepts,
                             !.edges = Similar])
  /\ raced' = (raced \/ Busy # {})
  /\ undisturbed' = undisturbed \cup {g}
  /\ left' = [left EXCEPT !.generates = @ - 1]
  /\ UNCHANGED <<shelf, drafts, proposals, day>>

\* _collect_clusters: the balanced strategy adds the embedder's pairs, or none if it raised
\* or gave too few vectors, and then drops the clusters that a decision keeps apart.
Collect(g) ==
  /\ Is(g, "embed")
  /\ \E near \in (IF gen[g].balanced THEN {Near, {}} ELSE {{}}) :
       LET edges == gen[g].edges \cup near
           all == Groups(edges, gen[g].from)
           kept == IF gen[g].balanced THEN {c \in all : ~Apart(c)} ELSE all
       IN Turn1(g, [gen[g] EXCEPT !.at = "count", !.edges = edges, !.clusters = kept])
  /\ Looks

CountTags(g) ==
  /\ Is(g, "count")
  /\ Turn1(g, [gen[g] EXCEPT !.at = "look", !.usage = Usage(gen[g].from)])
  /\ Looks

LookUp(g) ==
  /\ Is(g, "look")
  /\ Turn1(g, [gen[g] EXCEPT !.at = "next", !.seen = Signatures])
  /\ Looks

Canonical(g) == PickCanonical(gen[g].of, gen[g].usage)

\* The next cluster that is not proposed yet.
NextCluster(g) ==
  /\ Is(g, "next")
  /\ \/ /\ gen[g].clusters = {}
        /\ Turn1(g, [gen[g] EXCEPT !.at = "done"])
     \/ \E c \in gen[g].clusters :
          LET rest == [gen[g] EXCEPT !.clusters = @ \ {c}, !.of = c]
              known == Merge(PickCanonical(c, gen[g].usage), c) \in gen[g].seen
          IN Turn1(g, IF known THEN rest ELSE [rest EXCEPT !.at = "verify"])
  /\ Looks

\* The verifier is asked about each pair; whether it answers, raises or says no is evidence
\* in the proposal and stops nothing.  Then the draft's path is chosen.
Verify(g) ==
  /\ Is(g, "verify")
  /\ Turn1(g, [gen[g] EXCEPT !.at = "draft", !.to = FreePath(DOMAIN drafts, Canonical(g))])
  /\ Looks

\* _create_merge_action_draft; then the path of the proposal is chosen.
WriteDraft(g) ==
  /\ Is(g, "draft")
  /\ LET m == Merge(Canonical(g), gen[g].of)
         draft == [canonical |-> m.canonical, merge |-> m.merge, status |-> "draft"]
     IN drafts' = [p \in DOMAIN drafts \cup {gen[g].to} |-> IF p = gen[g].to THEN draft ELSE drafts[p]]
  /\ Turn1(g, [gen[g] EXCEPT !.at = "propose", !.draft = gen[g].to,
                             !.wrote = @ \cup {gen[g].to},
                             !.to = FreePath(DOMAIN proposals, Canonical(g))])
  /\ Changes({g})
  /\ UNCHANGED <<shelf, proposals, day, raced, left>>

WriteProposal1(g) ==
  /\ Is(g, "propose")
  /\ LET new == [draft |-> gen[g].draft, status |-> "pending", of |-> gen[g].of]
     IN proposals' = [p \in DOMAIN proposals \cup {gen[g].to} |-> IF p = gen[g].to THEN new ELSE proposals[p]]
  /\ Turn1(g, [gen[g] EXCEPT !.at = "next", !.seen = @ \cup {Merge(Canonical(g), gen[g].of)}])
  /\ Changes({g})
  /\ UNCHANGED <<shelf, drafts, day, raced, left>>

Answer(g) == Is(g, "done") /\ Turn1(g, Quiet0) /\ Looks

-----------------------------------------------------------------------------
\* What people do meanwhile, through the service or in the vault; each is one step.

Edit == left.edits > 0 /\ left' = [left EXCEPT !.edits = @ - 1] /\ Changes({})
Editing == Edit /\ UNCHANGED <<gen, raced>>

\* apply_action of a merge: others must go into the canonical one, all of them active, and no
\* decision forbid it.
Valid(m) == /\ m.merge # {} /\ m.canonical \notin m.merge
            /\ {m.canonical} \cup m.merge \subseteq concepts /\ ~HardBlocked(m)

\* The concepts that go leave their ids, and their aliases, to the canonical one.
Inherits(m) ==
  alias' = [c \in Ids |-> IF c \in m.merge THEN {}
                         ELSE IF c = m.canonical THEN alias[c] \cup m.merge \cup UNION {alias[d] : d \in m.merge}
                         ELSE alias[c]]

Merges(m) ==
  /\ concepts' = concepts \ m.merge /\ Inherits(m)
  /\ tomb' = [c \in Ids |-> IF c \in m.merge THEN m.canonical ELSE tomb[c]]
  /\ tagged' = [n \in Pages |-> {IF t \in m.merge THEN m.canonical ELSE t : t \in tagged[n]}]

\* Whoever applies a draft; accept_proposal concludes its proposal if that worked.
ApplyMerge(d, accepted) ==
  /\ drafts[d].status \notin {"applied", "rejected"}
  /\ \/ /\ Valid(drafts[d]) /\ Merges(drafts[d])
        /\ drafts' = [drafts EXCEPT ![d].status = "applied"]
        /\ proposals' = [p \in DOMAIN proposals |->
             IF p \in accepted THEN [proposals[p] EXCEPT !.status = "accepted"] ELSE proposals[p]]
     \/ /\ ~Valid(drafts[d])
        /\ drafts' = [drafts EXCEPT ![d].status = "blocked"]
        /\ UNCHANGED <<concepts, alias, tomb, tagged, proposals>>
  /\ UNCHANGED <<ruled, profiles, again, day>>

Accepts(p) == p \in Undecided /\ ApplyMerge(proposals[p].draft, {p}) /\ Editing
Applies(d) == ApplyMerge(d, {}) /\ Editing

\* In safe mode an apply waits for approval; a draft, or a proposal, may be rejected.
Holds(d, status) ==
  /\ drafts[d].status = "draft"
  /\ drafts' = [drafts EXCEPT ![d].status = status]
  /\ Editing /\ UNCHANGED <<shelf, proposals, day>>

RejectsProposal(p) ==
  /\ p \in Undecided
  /\ proposals' = [proposals EXCEPT ![p].status = "rejected"]
  /\ Editing /\ UNCHANGED <<shelf, drafts, day>>

\* create-decision, create-concept, and edits of tags and of policy notes.
Rules(r) ==
  /\ ruled[r] = Nothing /\ ruled' = [ruled EXCEPT ![r] = day]
  /\ Editing /\ UNCHANGED <<concepts, alias, tomb, tagged, profiles, again, drafts, proposals, day>>

Creates(c) ==
  /\ c \notin concepts /\ concepts' = concepts \cup {c}
  /\ again' = again \cup ({c} \cap {d \in Ids : tomb[d] # Nothing})
  /\ Editing /\ UNCHANGED <<alias, tomb, tagged, ruled, profiles, drafts, proposals, day>>

Tags(n, c) ==
  /\ tagged' = [tagged EXCEPT ![n] = {c}] /\ tagged' # tagged
  /\ Editing /\ UNCHANGED <<concepts, alias, tomb, ruled, profiles, again, drafts, proposals, day>>

Publishes(p) ==
  /\ p \notin profiles
  /\ profiles' = {p} \cup {q \in profiles : q.kind # p.kind \/ q.name # p.name}
  /\ Editing /\ UNCHANGED <<concepts, alias, tomb, tagged, ruled, again, drafts, proposals, day>>

TimePasses ==
  /\ day < MaxDay /\ day' = day + 1 /\ Changes({})
  /\ UNCHANGED <<shelf, drafts, proposals, gen, raced, left>>

\* The process dies in the middle of a generate: what it wrote stays.
Dies ==
  /\ Busy # {} /\ gen' = [g \in Generators |-> Quiet0] /\ Edit
  /\ profiles' = Booted(profiles)
  /\ UNCHANGED <<concepts, alias, tomb, tagged, ruled, again, drafts, proposals, day, raced>>

CurationNext ==
  \/ \E g \in Generators : \/ \E b \in BOOLEAN : Generate(g, b)
                           \/ Collect(g) \/ CountTags(g) \/ LookUp(g) \/ NextCluster(g)
                           \/ Verify(g) \/ WriteDraft(g) \/ WriteProposal1(g) \/ Answer(g)
  \/ \E p \in DOMAIN proposals : Accepts(p) \/ RejectsProposal(p)
  \/ \E d \in DOMAIN drafts : Applies(d) \/ Holds(d, "pending_approval") \/ Holds(d, "rejected")
  \/ \E r \in Rulings : Rules(r)
  \/ \E c \in Ids : Creates(c) \/ \E n \in Pages : Tags(n, c)
  \/ \E p \in Profiles : Publishes(p)
  \/ TimePasses \/ Dies

-----------------------------------------------------------------------------
\* The resolver and the linter.

\* Where the tombstones lead from c, up to the first of some ends, if that is among the ids
\* both follow.
Ending(c, ends) ==
  LET next == [d \in Ids \cup {Nothing} |-> IF d = Nothing \/ d \in ends THEN d ELSE tomb[d]]
  IN {Iterated(next, DepthLimit - 1, c)} \cap ends

Aliased(t) == {c \in concepts : t \in alias[c]}

\* resolve: an active concept, an alias, then a tombstone.
Resolved(t) ==
  IF t \in concepts THEN {t}
  ELSE IF Aliased(t) # {} THEN Aliased(t)
  ELSE IF tomb[t] # Nothing THEN Ending(tomb[t], concepts) ELSE {}

\* find_orphan_tags, with _redirects_to_active
OrphanTags ==
  {t \in UNION {tagged[n] : n \in Pages} :
     t \notin concepts \cup UNION {alias[c] : c \in concepts} /\ Ending(t, concepts) = {}}

\* find_alias_collisions
AliasCollisions == {a \in Ids : Cardinality(Aliased(a)) > 1}

\* find_redirect_anomalies: a chain that ends nowhere, is too long, or meets the id it began
\* with, even one that is active again.
RedirectAnomalies == {c \in Ids : tomb[c] # Nothing /\ Ending(tomb[c], concepts \ {c}) = {}}

-----------------------------------------------------------------------------
\* Properties.

Cluster(m) == {m.canonical} \cup m.merge
Waiting(p) ==
  p \in Undecided /\ drafts[proposals[p].draft].status \notin {"applied", "blocked", "rejected"}

\* Without generators that overlapped no merge is proposed twice, and every proposal has a
\* draft of its own that says what its cluster was, whatever died or was decided between.
ProposedOnce ==
  ~raced => \A p, q \in DOMAIN proposals :
    /\ Cluster(drafts[proposals[p].draft]) = proposals[p].of
    /\ p # q => proposals[p].draft # proposals[q].draft
    /\ p # q /\ Waiting(p) /\ Waiting(q) =>
         AskedFor(drafts[proposals[p].draft]) # AskedFor(drafts[proposals[q].draft])

\* A generate nothing interfered with leaves no group of similar concepts without an open
\* proposal to merge it, but those a decision keeps apart; and, if the policy's threshold is
\* not below the proposer's own, it wrote nothing that the service would block.
Generated ==
  \A g \in undisturbed : Is(g, "done") =>
    /\ \A c \in gen[g].from :
         LET group == Reach(gen[g].edges, gen[g].from, c) IN
         group # {c} /\ ~(gen[g].balanced /\ Apart(group)) =>
           \E p \in DOMAIN proposals : Waiting(p) /\ Cluster(drafts[proposals[p].draft]) = group
    /\ gen[g].balanced /\ HardBlock >= 85 => \A d \in gen[g].wrote : Valid(drafts[d])

\* What the scorer does not warn of and the validator lets pass, no decision of review
\* strength speaks against, whatever policies say or contradict each other.
Warned ==
  \A d \in DOMAIN drafts : \A c \in drafts[d].merge :
    \A r \in CannotLink(drafts[d].canonical, c) :
      Strength(r) >= Review => r \in Risks(drafts[d]) \/ HardBlocked(drafts[d])

\* The linter calls those tags orphans that the resolver has no answer for, although it looks
\* one tombstone less far.  It finds no collision unless a concept was created again after
\* its merge, and no broken redirect unless that or more were merged than it follows.
LintAgrees ==
  /\ OrphanTags = {t \in UNION {tagged[n] : n \in Pages} : Resolved(t) = {}}
  /\ again = {} => AliasCollisions = {}
  /\ again = {} /\ Cardinality({c \in Ids : tomb[c] # Nothing}) <= DepthLimit => RedirectAnomalies = {}

CurationSound == ProposedOnce /\ Generated /\ Warned /\ LintAgrees
=============================================================================
