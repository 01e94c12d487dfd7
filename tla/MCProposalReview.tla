-------------------------- MODULE MCProposalReview --------------------------
(* Values for the constants of ConceptActions and ProposalReview. *)
EXTENDS ProposalReview, TLC

CONSTANTS c1, c2, c3, c4, nx, ny, n1, d1, d2, a1, a2, a3, p1, r1, r2

Merge(target, sources) == [kind |-> "merge", target |-> target, sources |-> sources]
Retag(n, remove, add) == [kind |-> "retag", note |-> n, remove |-> remove, add |-> add]
Create(c, aliases) == [kind |-> "create", target |-> c, aliases |-> aliases]
DecideOn(d, over) == [kind |-> "decide", decision |-> d, over |-> over]

Plan3(p, q, r) == [a \in {a1, a2, a3} |-> IF a = a1 THEN p ELSE IF a = a2 THEN q ELSE r]
ProposedPlan == Plan3(Merge(c1, <<c2>>), Create(c4, {ny}), Create(c3, {}))
OnePlan == {ProposedPlan}
SomePlans ==
  { \* two merges into one concept, and a retag
    Plan3(Merge(c1, <<c2>>), Merge(c1, <<c3>>), Retag(n1, {c2}, <<c3>>)),
    \* a chain of merges
    Plan3(Merge(c1, <<c2>>), Merge(c3, <<c1>>), DecideOn(d1, <<d2>>)),
    \* a proposal of a merge, a new concept, and one that was created before
    ProposedPlan,
    \* one merge of both, and a decision against it
    Plan3(Merge(c1, <<c2, c3>>), DecideOn(d1, <<>>), DecideOn(d2, <<d1>>)) }
TheTags == [n \in {n1} |-> {c2, c3}]
TheNames == [c \in {c1, c2, c3, c4} |-> IF c = c2 THEN {nx} ELSE {}]
Apart == [d \in {d1, d2} |-> IF d = d1 THEN {c1, c2} ELSE {c1, c3}]
Three == {c1, c2, c3}
TheDrafts == [p \in {p1} |-> <<a3, a1, a2>>]

\* The reviewers are alike.
Alike == Permutations({r1, r2})
=============================================================================
