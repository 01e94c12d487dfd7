----------------------------- MODULE ReviewProofs -----------------------------
(***************************************************************************)
(* Proofs about ConceptActions, ProposalReview and Curation: the types,    *)
(* that what is called done was done, that the index and the proposals'    *)
(* cache agree with the notes, that no concept is forgotten, that a        *)
(* forbidden merge stops, and that merges are proposed once and for every  *)
(* group, warned of, and linted as they are resolved.                      *)
(***************************************************************************)
EXTENDS ProposalReview, Curation, SequenceLemmas, FiniteSetTheorems, TLAPS

-----------------------------------------------------------------------------
\* The inductive invariant.

\* Where an apply is past its check, and nothing has failed.
Going == {"read", "write", "delete", "bury", "list", "retag", "set", "decide", "supersede",
          "record", "reload", "load"}

\* What the effect of an action has left of its parameters, place by place.
Placed(a) ==
  LET j == job[a]  p == plan[a] IN
  /\ j.at = "check" => ToSet(j.todo) \subseteq ToSet(Checks(a))
  /\ j.at \in Going /\ p.kind = "merge" => Sources(a) # {} /\ p.target \notin Sources(a)
  /\ j.at = "read" => p.kind = "merge" /\ j.todo # <<>> /\ ToSet(j.todo) \subseteq ToSet(Checks(a))
  /\ j.at = "write" => \/ p.kind = "create" /\ j.todo = <<>> /\ j.got = p.aliases
                       \/ p.kind = "merge" /\ j.todo = p.sources
  /\ j.at \in {"delete", "bury"} => p.kind = "merge" /\ j.todo # <<>> /\ ToSet(j.todo) \subseteq Sources(a)
  /\ j.at = "list" => p.kind = "merge"
  /\ j.at \in {"retag", "set"} => /\ p.kind \in {"merge", "retag"} /\ j.todo # <<>>
                                  /\ ToSet(j.todo) \subseteq Notes
  /\ j.at = "set" => j.got \subseteq Concepts
  /\ j.at = "decide" => p.kind = "decide" /\ j.todo = p.over
  /\ j.at = "supersede" => p.kind = "decide" /\ j.todo # <<>> /\ ToSet(j.todo) \subseteq ToSet(p.over)
  /\ j.at \in {"reload", "load"} => j.reload \subseteq Affected(a)
  /\ j.at = "load" => Len(j.todo) = 1 /\ Head(j.todo) \in j.reload
  /\ status[a] = "applied" => j.at \in {"idle", "reload", "load"}
  /\ j.at \in {"reload", "load"} => status[a] = "applied"

\* Nobody runs beside another one unseen.
Solo == overlapped = {} => \A a, b \in Running : a = b
SoloDecider ==
  OneDecides => \A a, b \in Running : plan[a].kind = "decide" /\ plan[b].kind = "decide" => a = b

\* The paths whose entries in the index may be behind because of an apply.
Pending(a) ==
  IF job[a].at \in {"idle", "check", "block"} THEN {}
  ELSE IF job[a].at \in {"reload", "load"} THEN job[a].reload ELSE Affected(a)

Same(x) ==
  /\ x[1] = "active" => /\ x[2] \in index.active <=> x[2] \in vault.active
                        /\ index.aliases[x[2]] = vault.aliases[x[2]]
  /\ x[1] = "merged" => index.tomb[x[2]] = vault.tomb[x[2]]
  /\ x[1] = "decided" => index.decided[x[2]] = vault.decided[x[2]]

\* An entry that is behind is one that an apply under way is going to reload.
ShelvesAgree ==
  overlapped = {} /\ ~cut => \A x \in Items : Same(x) \/ \E b \in Actions : x \in Pending(b)

\* A path is read into the index after it was dropped from it.
Dropped ==
  overlapped = {} =>
    \A a \in Actions : job[a].at = "load" /\ Head(job[a].todo)[1] = "active" =>
      Head(job[a].todo)[2] \notin index.active

\* The decisions a create-decision has passed are superseded, unless it made one of them.
Superseded(a, d) == d = plan[a].decision \/ vault.decided[d] = "superseded"
OverIsOver ==
  OneDecides =>
    \A a \in Actions : plan[a].kind = "decide" =>
      /\ job[a].at \in {"record", "reload", "load"} => \A d \in ToSet(plan[a].over) : Superseded(a, d)
      /\ job[a].at = "supersede" =>
           \A d \in ToSet(plan[a].over) \ ToSet(job[a].todo) : Superseded(a, d)

\* A decision whose entry is behind is not in force, or is being made.
BehindBy(b, d) ==
  plan[b].kind = "decide" /\ <<"decided", d>> \in Pending(b) /\ Superseded(b, d)
DecisionsAgree ==
  ~cut /\ OneDecides =>
    \A d \in Decisions :
      index.decided[d] = vault.decided[d] \/ \E b \in Actions : BehindBy(b, d)

\* What the merges of the plan remove.
Removed == UNION {Sources(a) : a \in {b \in Actions : plan[b].kind = "merge"}}

\* A concept that was merged away: buried.
Gone(c) == c \notin vault.active /\ vault.tomb[c] # None

\* What leads to an active concept without a tombstone.
Straight(n) == IF n \in vault.active THEN {n} ELSE AliasHits(vault, n)
Meets(t, c) == Straight(t) \cap Straight(c) # {}

\* The note still says c, and will when the merge a has rewritten its tags.
SaysUnder(a, n, c) ==
  \E t \in tags[n] :
    /\ Meets(t, c)
    /\ t \in Sources(a) => c \in vault.aliases[plan[a].target] /\ c \notin vault.active \ Sources(a)

\* What an apply that is alone knows of the vault.
CalmJob(a) ==
  LET at == job[a].at  todo == job[a].todo  p == plan[a]  S == Sources(a) IN
  /\ at = "check" => \A c \in ToSet(Checks(a)) \ ToSet(todo) : Passes(a, c)
  /\ at = "write" /\ p.kind = "create" => p.target \notin vault.active
  /\ at \in {"read", "write"} /\ p.kind = "merge" => S \cup {p.target} \subseteq vault.active
  /\ at = "read" => \A c \in ToSet(Checks(a)) \ ToSet(todo) : NewAliases(a, c) \subseteq job[a].got
  /\ at = "write" /\ p.kind = "merge" =>
       \A c \in S \cup {p.target} : NewAliases(a, c) \subseteq job[a].got
  /\ at \in {"delete", "bury", "list", "retag", "set"} /\ p.kind = "merge" =>
       /\ p.target \in vault.active
       /\ \A c \in S : NewAliases(a, c) \subseteq vault.aliases[p.target]
  /\ at \in {"delete", "bury"} => \A c \in S \ ToSet(todo) : Gone(c)
  /\ at = "bury" => Head(todo) \notin vault.active
  /\ at \in {"list", "retag", "set", "record"} /\ p.kind = "merge" => \A c \in S : Gone(c)
  /\ at \in {"retag", "set"} /\ p.kind = "merge" => \A n \in Notes \ ToSet(todo) : tags[n] \cap S = {}
  /\ at = "record" /\ p.kind = "merge" => \A n \in Notes : tags[n] \cap S = {}
  /\ at \in {"retag", "set"} /\ p.kind = "retag" => ToSet(p.add) \subseteq vault.active
  /\ at = "set" => job[a].got = Retagged(a, tags[Head(todo)])
  /\ at \in {"delete", "bury", "list", "retag", "set"} /\ p.kind = "merge" /\ ~Renewed =>
       \A n \in Notes : \A c \in meant[n] : SaysUnder(a, n, c)

\* Every id that was ever active, and every alias, is still there or an alias of what is.
Led == \A n \in ever : Straight(n) # {}

TagsKnown ==
  /\ vault.active \subseteq ever
  /\ \A n \in Notes : tags[n] \cup meant[n] \subseteq ever \cap (vault.active \cup Removed)

\* The sources of a merge that was applied are buried, and no note has their tags.
Earned ==
  \A a \in Actions : status[a] = "applied" /\ plan[a].kind = "merge" =>
    \A c \in Sources(a) : Gone(c) /\ \A n \in Notes : c \notin tags[n]

Said == \A n \in Notes : \A c \in meant[n] : \E t \in tags[n] : Meets(t, c)

Kept == /\ Led /\ TagsKnown
        /\ ~Renewed => Earned /\ Said

CalmInv == Calm => Kept /\ \A a \in Actions : CalmJob(a)

\* Two applies that run beside each other have overlapped.
Beside == \A a, b \in Running : a # b => a \in overlapped

Merging(a, places) == plan[a].kind = "merge" /\ job[a].at \in places

\* The ids that ever were a concept's, and the ones of them that are buried: a concept that was
\* deleted a moment ago has no tombstone of that yet.
Known == ever \cap Concepts
Unburied == {c \in Concepts : \E a \in Actions : job[a].at = "bury" /\ Head(job[a].todo) = c}
Buried == Known \ (vault.active \cup Unburied)

\* A merge finds the concept it merges into, from its first read to its last tag.
IntoActive(a) ==
  LET k == plan[a].target IN
  /\ Merging(a, {"read"}) => job[a].todo = Checks(a) \/ k \in vault.active
  /\ Merging(a, {"read", "write"}) => job[a].got \subseteq ever
  /\ Merging(a, {"write", "delete", "bury", "list", "retag", "set"}) => k \in vault.active

\* The tombstones lead out of every set of buried concepts.
Rooted ==
  /\ vault.active \subseteq ever /\ \A c \in Concepts : vault.aliases[c] \subseteq ever
  /\ \A c \in Buried : vault.tomb[c] \in Known
  /\ \A Z \in SUBSET Buried : Z # {} => \E c \in Z : vault.tomb[c] \notin Z
RootedInv == MergesAside => Rooted /\ \A a \in Actions : IntoActive(a)

\* The alias y of x is one of an id that x took over, or is about to take over by a merge.
Heads(h, y, x) ==
  \/ h[y] = x
  \/ \E b \in Actions : Merging(b, {"delete", "bury"}) /\ plan[b].target = x /\ h[y] \in ToSet(job[b].todo)

HeirJob(h, a) ==
  LET k == plan[a].target  S == Sources(a)  todo == job[a].todo  got == job[a].got IN
  /\ Merging(a, {"read"}) => S \ ToSet(todo) \subseteq vault.active
  /\ Merging(a, {"write"}) => S \subseteq vault.active
  /\ Merging(a, {"read", "write"}) => \A y \in got \cap Concepts : Heads(h, y, k) \/ h[y] \in S
  /\ Merging(a, {"delete", "bury"}) => \A s \in S : s \in ToSet(todo) \cap vault.active \/ h[s] = k
  /\ Merging(a, {"bury"}) => h[Head(todo)] = k
  /\ Merging(a, {"list", "retag", "set"}) => \A s \in S : h[s] = k
  /\ Merging(a, {"set"}) => got \subseteq Known /\ \A c \in meant[Head(todo)] : \E t \in got : h[t] = h[c]
  /\ plan[a].kind = "retag" /\ job[a].at = "check" => ToSet(plan[a].add) \ ToSet(todo) \subseteq vault.active
  /\ plan[a].kind = "retag" /\ job[a].at \in {"retag", "set"} => ToSet(plan[a].add) \subseteq vault.active
  /\ plan[a].kind = "retag" /\ job[a].at = "set" => got = Retagged(a, tags[Head(todo)])

\* h gives every id the active concept that took it over.
Heirs(h) ==
  /\ \A c \in vault.active : h[c] = c
  /\ \A c \in Known : h[c] \in vault.active
  /\ \A c \in Buried : h[vault.tomb[c]] = h[c]
  /\ \A x \in vault.active : \A y \in vault.aliases[x] \cap Concepts : Heads(h, y, x)
HeirsMeant(h) == \A n \in Notes : \A c \in meant[n] : \E t \in tags[n] : h[t] = h[c]

AllKnown ==
  /\ Known \subseteq vault.active \cup Removed
  /\ \A n \in Notes : tags[n] \cup meant[n] \subseteq Known
HeirsInv ==
  /\ AllKnown
  /\ \E h \in [Concepts -> Concepts] : Heirs(h) /\ HeirsMeant(h) /\ \A a \in Actions : HeirJob(h, a)

\* Only what SideBySideKeepsMeaning supposes is asked of merges side by side.
HeirsKept == MergesAside /\ OneEach /\ ~Renewed => HeirsInv
SideInv == Beside /\ RootedInv /\ HeirsKept

ConceptInv ==
  /\ TypeOK
  /\ \A a \in Actions : Placed(a)
  /\ Solo /\ SoloDecider
  /\ ShelvesAgree /\ Dropped /\ OverIsOver /\ DecisionsAgree
  /\ CalmInv /\ SideInv

\* What a reviewer has left to apply, and what of an accepted proposal was applied.
Reviewing(r) ==
  LET v == review[r] IN
  /\ v.at # "idle" => v.of \in Proposals
  /\ v.at = "wait" => v.left # <<>> /\ Head(v.left) \in Running
  /\ v.at \in {"write", "reload"} => v.left = <<>>
  /\ v.at # "idle" /\ v.verdict = "accepted" =>
       \A a \in ToSet(Drafts[v.of]) \ ToSet(v.left) : status[a] = "applied"

\* An entry that differs from its note is one a review is about to reload.
CachesCatchUp ==
  ~cut => \A p \in Proposals :
            \/ cached[p] = proposal[p]
            \/ \E r \in Reviewers : review[r].at \in {"write", "reload"} /\ review[r].of = p

ReviewInv ==
  /\ ConceptInv /\ ReviewTypeOK
  /\ \A r \in Reviewers : Reviewing(r)
  /\ AcceptedIsApplied /\ CachesCatchUp

-----------------------------------------------------------------------------
\* Lemmas about the data.

LEMMA ToSetLemma ==
  ASSUME NEW S, NEW s \in Seq(S)
  PROVE  /\ \A x : x \in ToSet(s) <=> \E i \in 1..Len(s) : x = s[i]
         /\ Len(s) \in Nat /\ \A i \in 1..Len(s) : s[i] \in S
BY DEF ToSet

\* What a loop does with a sequence: its head is handled, its tail is left.
LEMMA HeadTail ==
  ASSUME NEW S, NEW s \in Seq(S), s # <<>>
  PROVE  /\ Head(s) \in S /\ Tail(s) \in Seq(S)
         /\ ToSet(s) = {Head(s)} \cup ToSet(Tail(s))
<1>1. Len(s) \in Nat \ {0} /\ Head(s) = s[1] /\ s[1] \in S
  OBVIOUS
<1>2. /\ Tail(s) \in Seq(S) /\ Len(Tail(s)) = Len(s) - 1
      /\ \A i \in 1..(Len(s) - 1) : Tail(s)[i] = s[i + 1]
  OBVIOUS
<1>3. \A x : x \in ToSet(s) <=> \E i \in 1..Len(s) : x = s[i]
  BY ToSetLemma
<1> DEFINE t == Tail(s)
<1>8. \A x : x \in ToSet(t) <=> \E i \in 1..Len(t) : x = t[i]
  BY <1>2, ToSetLemma
<1>4. ASSUME NEW x \in ToSet(Tail(s))
      PROVE  x \in ToSet(s)
  BY <1>2, <1>8, <1>1, <1>3
<1>5. ASSUME NEW x \in ToSet(s), x # s[1]
      PROVE  x \in ToSet(Tail(s))
  <2>1. PICK i \in 1..Len(s) : x = s[i]
    BY <1>3
  <2>2. i - 1 \in 1..(Len(s) - 1) /\ Tail(s)[i - 1] = s[i]
    BY <1>1, <1>2, <1>5, <2>1
  <2>3. QED
    BY <1>2, <1>8, <2>1, <2>2
<1>6. s[1] \in ToSet(s)
  BY <1>1, <1>3
<1>7. QED
  BY <1>1, <1>2, <1>4, <1>5, <1>6

\* The members of a sequence are of its type; an empty one has none.
LEMMA Members ==
  ASSUME NEW S, NEW s \in Seq(S)
  PROVE  ToSet(s) \subseteq S /\ (s = <<>> <=> ToSet(s) = {})
<1>1. s # <<>> => s[1] \in ToSet(s)
  BY ToSetLemma
<1>2. s = <<>> => ToSet(s) = {}
  <2>1. s = <<>> => Len(s) = 0
    OBVIOUS
  <2>2. \A x : x \in ToSet(s) <=> \E i \in 1..Len(s) : x = s[i]
    BY ToSetLemma
  <2>3. s = <<>> => \A x : x \notin ToSet(s)
    BY <2>1, <2>2
  <2>4. QED
    BY <2>3
<1>3. QED
  BY <1>1, <1>2, ToSetLemma

LEMMA Singles ==
  ASSUME NEW S, NEW x \in S
  PROVE  <<x>> \in Seq(S) /\ ToSet(<<x>>) = {x} /\ Head(<<x>>) = x /\ <<x>> # <<>> /\ Tail(<<x>>) = <<>>
BY DEF ToSet

LEMMA Joined ==
  ASSUME NEW S, NEW x \in S, NEW s \in Seq(S)
  PROVE  <<x>> \o s \in Seq(S) /\ ToSet(<<x>> \o s) = {x} \cup ToSet(s) /\ <<x>> \o s # <<>>
<1> DEFINE t == <<x>> \o s
<1>1. t \in Seq(S) /\ t # <<>> /\ Head(t) = x /\ Tail(t) = s
  OBVIOUS
<1>2. QED
  BY <1>1, HeadTail

\* A type that is wider.
LEMMA Wider ==
  ASSUME NEW S, NEW T, S \subseteq T, NEW s \in Seq(S)
  PROVE  s \in Seq(T)
OBVIOUS

\* The garden's listing has every note.
LEMMA Listing ==
  /\ SetToSeq(Notes) \in Seq(Notes)
  /\ ToSet(SetToSeq(Notes)) = Notes
<1> DEFINE n == Cardinality(Notes)
           P(f) == f \in [1..n -> Notes] /\ IsInjective(f)
<1>1. n \in Nat /\ ExistsBijection(1..n, Notes)
  BY NotesAssumption, FS_CardinalityType
<1>2. PICK g \in Bijection(1..n, Notes) : TRUE
  BY <1>1 DEF ExistsBijection
<1>3. P(g)
  BY <1>2 DEF Bijection, Injection, Surjection, IsInjective
<1>4. SetToSeq(Notes) = CHOOSE f \in [1..n -> Notes] : IsInjective(f)
  BY DEF SetToSeq
<1>5. PICK f : f = SetToSeq(Notes) /\ P(f)
  BY <1>3, <1>4
<1>6. f \in Injection(1..n, Notes)
  BY <1>5 DEF Injection, IsInjective
<1>7. IsFiniteSet(1..n) /\ Cardinality(1..n) = n
  BY <1>1, FS_Interval
<1>8. f \in Surjection(1..n, Notes)
  BY <1>6, <1>7, NotesAssumption, FS_Injection
<1>9. f \in Seq(Notes) /\ DOMAIN f = 1..n
  BY <1>1, <1>5
<1>10. \A y \in Notes : \E i \in 1..n : f[i] = y
  BY <1>8 DEF Surjection
<1>11. ToSet(f) = Notes
  BY <1>5, <1>9, <1>10 DEF ToSet
<1>12. QED
  BY <1>5, <1>9, <1>11

\* What the plan asks for.
LEMMA PlanLemma ==
  ASSUME TypeOK, NEW a \in Actions
  PROVE  /\ plan[a].kind \in {"create", "merge", "retag", "decide"}
         /\ plan[a].kind = "create" =>
              plan[a].target \in Concepts /\ plan[a].aliases \subseteq Names
         /\ plan[a].kind = "merge" =>
              /\ plan[a].target \in Concepts /\ plan[a].sources \in Seq(Concepts)
              /\ Sources(a) \subseteq Concepts /\ (Sources(a) = {} <=> plan[a].sources = <<>>)
              /\ Checks(a) # <<>> /\ ToSet(Checks(a)) = Sources(a) \cup {plan[a].target}
         /\ plan[a].kind = "retag" =>
              /\ plan[a].note \in Notes /\ plan[a].remove \subseteq Concepts
              /\ plan[a].add \in Seq(Concepts) /\ ToSet(plan[a].add) \subseteq Concepts
              /\ Checks(a) = plan[a].add
         /\ plan[a].kind = "decide" =>
              /\ plan[a].decision \in Decisions /\ plan[a].over \in Seq(Decisions)
              /\ ToSet(plan[a].over) \subseteq Decisions
         /\ plan[a].kind # "decide" => Checks(a) \in Seq(Concepts)
         /\ plan[a].kind = "decide" => Checks(a) \in Seq(Decisions)
         /\ Affected(a) \subseteq Items
BY PlansAssumption, Singles, Members, Joined DEF TypeOK, Params, Checks, Affected, Items, Sources

\* The plan stays, and with it what is defined from it.
LEMMA PlanFrame ==
  ASSUME plan' = plan
  PROVE  /\ \A a : /\ Checks(a)' = Checks(a) /\ Sources(a)' = Sources(a)
                   /\ Affected(a)' = Affected(a)
         /\ Renewed' = Renewed /\ Removed' = Removed
BY DEF Checks, Sources, Affected, Renewed, Removed

\* A job, whatever it is.
LEMMA JobLemma ==
  ASSUME NEW place \in Places, NEW todo \in Seq(Concepts \cup Notes \cup Decisions \cup Items),
         NEW got \in SUBSET Aliases
  PROVE  /\ At(place, todo, got) \in Jobs
         /\ At(place, todo, got).at = place /\ At(place, todo, got).todo = todo
         /\ At(place, todo, got).got = got /\ At(place, todo, got).reload = {}
BY DEF At, Jobs

LEMMA PlaceNames ==
  /\ "idle" \in Places /\ "check" \in Places /\ "block" \in Places /\ "record" \in Places
  /\ "reload" \in Places /\ "load" \in Places /\ "fail" \in Places
  /\ \A e \in Effects : e \in Places
  /\ "read" \in Effects /\ "write" \in Effects /\ "delete" \in Effects /\ "bury" \in Effects
  /\ "list" \in Effects /\ "retag" \in Effects /\ "set" \in Effects /\ "decide" \in Effects
  /\ "supersede" \in Effects
BY DEF Places, Effects

-----------------------------------------------------------------------------
\* Types.

LEMMA InitType ==
  ASSUME Init
  PROVE  TypeOK
<1>9. <<>> \in Seq(Concepts \cup Notes \cup Decisions \cup Items) /\ "idle" \in Places
  BY DEF Places
<1>1. At("idle", <<>>, {}) \in Jobs
  BY <1>9, JobLemma
<1>2. plan \in Plans /\ tags \in [Notes -> SUBSET Concepts] /\ meant \in [Notes -> SUBSET Concepts]
  BY InitAssumption DEF Init
<1>3. vault \in Shelves /\ index \in Shelves
  BY InitAssumption DEF Aliases, Init, Shelves
<1>4. status \in [Actions -> {"draft", "applied", "blocked", "failed"}] /\ job \in [Actions -> Jobs]
  BY <1>1 DEF Init, Idle
<1>5. ever \subseteq Aliases /\ overlapped \subseteq Actions
  BY InitAssumption DEF Init, Aliases
<1>6. cut \in BOOLEAN /\ torn \in BOOLEAN
  BY DEF Init
<1>8. faults \in 0..MaxFaults
  BY FaultsAssumption DEF Init
<1>7. QED
  BY <1>2, <1>3, <1>4, <1>5, <1>6, <1>8 DEF TypeOK

\* What an apply's loop holds: the type of its parts, and of what is left after its head.
LEMMA LoopType ==
  ASSUME TypeOK, NEW a \in Actions
  PROVE  /\ job[a] \in Jobs /\ job[a].at \in Places
         /\ job[a].todo \in Seq(Concepts \cup Notes \cup Decisions \cup Items)
         /\ job[a].got \in SUBSET Aliases /\ job[a].reload \in SUBSET Items
         /\ job[a].todo # <<>> =>
              /\ Rest(a) \in Seq(Concepts \cup Notes \cup Decisions \cup Items)
              /\ Rest(a) # <<>> => ToSet(Rest(a)) # {}
              /\ ToSet(job[a].todo) = {Head(job[a].todo)} \cup ToSet(Rest(a))
<1>1. /\ job[a] \in Jobs /\ job[a].at \in Places
      /\ job[a].todo \in Seq(Concepts \cup Notes \cup Decisions \cup Items)
      /\ job[a].got \in SUBSET Aliases /\ job[a].reload \in SUBSET Items
  BY DEF TypeOK, Jobs
<1> DEFINE T == Concepts \cup Notes \cup Decisions \cup Items
<1>2. \A s \in Seq(T) : s # <<>> => /\ Tail(s) \in Seq(T)
                                    /\ ToSet(s) = {Head(s)} \cup ToSet(Tail(s))
  BY HeadTail
<1>3. \A s \in Seq(T) : s # <<>> => ToSet(s) # {}
  BY Members
<1> HIDE DEF T
<1>4. job[a].todo # <<>> => /\ Tail(job[a].todo) \in Seq(T)
                            /\ Tail(job[a].todo) # <<>> => ToSet(Tail(job[a].todo)) # {}
                            /\ ToSet(job[a].todo) = {Head(job[a].todo)} \cup ToSet(Tail(job[a].todo))
  BY <1>1, <1>2, <1>3 DEF T
<1>5. QED
  BY <1>1, <1>4 DEF Rest, T

\* A step of one apply: the others' jobs stay.
LEMMA GoesLemma ==
  ASSUME TypeOK, NEW a \in Actions, NEW j \in Jobs, Goes(a, j)
  PROVE  /\ job' \in [Actions -> Jobs] /\ job'[a] = j
         /\ \A b \in Actions : b # a => job'[b] = job[b]
BY DEF TypeOK, Goes

\* The next place of a loop, whatever is left.
LEMMA NextPlaces ==
  ASSUME NEW rest \in Seq(Concepts \cup Notes \cup Decisions \cup Items), NEW paths \in SUBSET Items
  PROVE  /\ ToRetag(rest) \in Jobs /\ ToSupersede(rest) \in Jobs /\ ToReload(paths) \in Jobs
         /\ rest = <<>> => ToRetag(rest).at = "record" /\ ToSupersede(rest).at = "record"
         /\ rest # <<>> => /\ ToRetag(rest).at = "retag" /\ ToRetag(rest).todo = rest
                           /\ ToSupersede(rest).at = "supersede" /\ ToSupersede(rest).todo = rest
         /\ paths = {} => ToReload(paths).at = "idle"
         /\ paths # {} => ToReload(paths).at = "reload" /\ ToReload(paths).reload = paths
<1>1. <<>> \in Seq(Concepts \cup Notes \cup Decisions \cup Items)
  OBVIOUS
<1>2. ToRetag(rest) \in Jobs /\ ToSupersede(rest) \in Jobs
  BY <1>1, JobLemma DEF ToRetag, ToSupersede, Places, Effects
<1>3. /\ rest = <<>> => ToRetag(rest).at = "record" /\ ToSupersede(rest).at = "record"
      /\ rest # <<>> => /\ ToRetag(rest).at = "retag" /\ ToRetag(rest).todo = rest
                        /\ ToSupersede(rest).at = "supersede" /\ ToSupersede(rest).todo = rest
  BY DEF ToRetag, ToSupersede, At
<1>4. At("idle", <<>>, {}) \in Jobs
  BY <1>1, JobLemma DEF Places
<1>5. [at |-> "reload", todo |-> <<>>, got |-> {}, reload |-> paths] \in Jobs
  BY <1>1 DEF Jobs, Places
<1>6. QED
  BY <1>2, <1>3, <1>4, <1>5 DEF ToReload, Idle, At

\* What a merge or a retag makes of a note's tags.
LEMMA RetaggedType ==
  ASSUME TypeOK, NEW a \in Actions, plan[a].kind \in {"merge", "retag"}, NEW ts \in SUBSET Concepts
  PROVE  Retagged(a, ts) \subseteq Concepts
BY PlanLemma DEF Retagged

\* A step that writes one note keeps the vault's type.
LEMMA VaultType ==
  ASSUME TypeOK
  PROVE  /\ vault.active \subseteq Concepts /\ vault.aliases \in [Concepts -> SUBSET Aliases]
         /\ vault.tomb \in [Concepts -> Concepts \cup {None}]
         /\ vault.decided \in [Decisions -> {"active", "superseded", None}]
         /\ \A c \in Concepts, got \in SUBSET Aliases :
              [vault EXCEPT !.active = @ \cup {c}, !.aliases[c] = got] \in Shelves
         /\ \A c \in Concepts : [vault EXCEPT !.active = @ \ {c}, !.aliases[c] = {}] \in Shelves
         /\ \A c, k \in Concepts : [vault EXCEPT !.tomb[c] = k] \in Shelves
         /\ \A d \in Decisions, s \in {"active", "superseded"} : [vault EXCEPT !.decided[d] = s] \in Shelves
BY DEF TypeOK, Shelves

LEMMA IndexType ==
  ASSUME TypeOK, NEW x \in Items
  PROVE  Popped(index, x) \in Shelves /\ Loaded(index, x) \in Shelves
BY DEF Items, TypeOK, Popped, Loaded, Shelves

\* What a torn write leaves is a vault.
LEMMA TornType ==
  ASSUME TypeOK, NEW a \in Actions, Placed(a), Torn(a)
  PROVE  /\ vault' \in Shelves /\ tags' \in [Notes -> SUBSET Concepts] /\ torn' \in BOOLEAN
         /\ (UNCHANGED notes /\ torn' = torn) \/ torn' = TRUE
<1>1. CASE UNCHANGED <<notes, torn>>
  BY <1>1 DEF notes, TypeOK
<1>2. CASE /\ Here(a, "write") /\ torn' = TRUE /\ UNCHANGED tags
           /\ vault' = [vault EXCEPT !.active = @ \cup {plan[a].target}, !.aliases[plan[a].target] = {}]
  BY <1>2, PlanLemma, VaultType DEF Placed, Here, TypeOK
<1>3. CASE /\ Here(a, "set") /\ torn' = TRUE /\ UNCHANGED vault
           /\ tags' = [tags EXCEPT ![Head(job[a].todo)] = {}]
  BY <1>3 DEF TypeOK
<1>4. QED
  BY <1>1, <1>2, <1>3 DEF Torn

\* The first item of what a job has left is in its todo, and what is left is shorter.
LEMMA LoopHead ==
  ASSUME TypeOK, NEW a \in Actions, job[a].todo # <<>>
  PROVE  /\ Head(job[a].todo) \in ToSet(job[a].todo)
         /\ ToSet(Rest(a)) \subseteq ToSet(job[a].todo)
         /\ ToSet(job[a].todo) = {Head(job[a].todo)} \cup ToSet(Rest(a))
         /\ Rest(a) \in Seq(Concepts \cup Notes \cup Decisions \cup Items)
         /\ Rest(a) # <<>> => ToSet(Rest(a)) # {}
         /\ Rest(a) = <<>> => ToSet(Rest(a)) = {}
<1>1. /\ Rest(a) \in Seq(Concepts \cup Notes \cup Decisions \cup Items)
      /\ ToSet(job[a].todo) = {Head(job[a].todo)} \cup ToSet(Rest(a))
  BY LoopType
<1>2. Rest(a) = <<>> <=> ToSet(Rest(a)) = {}
  BY <1>1, Members
<1>3. QED
  BY <1>1, <1>2

\* Where nothing of it changes, what a job has left stays well placed.
LEMMA PlacedFrame ==
  ASSUME plan' = plan, NEW b, Placed(b), job'[b] = job[b], status'[b] = status[b]
  PROVE  Placed(b)'
BY PlanFrame DEF Placed

\* What a step must show of the action that takes it.
LEMMA TypedStep ==
  ASSUME TypeOK, \A b \in Actions : Placed(b), NEW a \in Actions, NEW j \in Jobs, Goes(a, j),
         plan' = plan, \A b \in Actions : b # a => status'[b] = status[b], Placed(a)',
         vault' \in Shelves, index' \in Shelves, tags' \in [Notes -> SUBSET Concepts],
         meant' \in [Notes -> SUBSET Concepts],
         status' \in [Actions -> {"draft", "applied", "blocked", "failed"}],
         ever' \subseteq Aliases, overlapped' \subseteq Actions,
         cut' \in BOOLEAN, torn' \in BOOLEAN, faults' \in 0..MaxFaults
  PROVE  TypeOK' /\ \A b \in Actions : Placed(b)'
BY GoesLemma, PlacedFrame DEF TypeOK

LEMMA TypeApply ==
  ASSUME TypeOK, \A b \in Actions : Placed(b), NEW a \in Actions, Apply(a)
  PROVE  TypeOK' /\ \A b \in Actions : Placed(b)'
<1> DEFINE j == At("check", Checks(a), {})
<1>1. Checks(a) \in Seq(Concepts \cup Notes \cup Decisions \cup Items)
  BY PlanLemma, Wider
<1>2. j \in Jobs /\ j.at = "check" /\ j.todo = Checks(a) /\ j.got = {} /\ j.reload = {}
  BY <1>1, PlaceNames DEF At, Jobs
<1> HIDE DEF j
<1>3. Goes(a, j) /\ plan' = plan /\ status' = status /\ status[a] # "applied"
  BY DEF Apply, j
<1>4. job'[a] = j /\ Checks(a)' = Checks(a)
  BY <1>2, <1>3, GoesLemma, PlanFrame
<1>5. Placed(a)'
  BY <1>2, <1>3, <1>4 DEF Placed, Going
<1>6. overlapped' \subseteq Actions
  BY DEF Apply, TypeOK, Running
<1>7. QED
  BY <1>2, <1>3, <1>5, <1>6, TypedStep DEF Apply, TypeOK, notes, failures

LEMMA TypeCheck ==
  ASSUME TypeOK, \A b \in Actions : Placed(b), NEW a \in Actions, Check(a)
  PROVE  TypeOK' /\ \A b \in Actions : Placed(b)'
<1> USE DEF Here
<1>1. /\ plan' = plan /\ status' = status /\ status[a] # "applied" /\ job[a].at = "check"
      /\ vault' = vault /\ tags' = tags /\ index' = index /\ meant' = meant /\ ever' = ever
      /\ overlapped' = overlapped /\ cut' = cut /\ torn' = torn /\ faults' = faults
  BY DEF Check, Reads, notes, history, failures, Placed
<1>2. Sources(a)' = Sources(a) /\ Checks(a)' = Checks(a) /\ Affected(a)' = Affected(a)
  BY <1>1, PlanFrame
<1>3. <<>> \in Seq(Concepts \cup Notes \cup Decisions \cup Items)
  OBVIOUS
<1>4. SUFFICES ASSUME NEW j \in Jobs, Goes(a, j), Placed(a)'
               PROVE  TypeOK' /\ \A b \in Actions : Placed(b)'
  <2>0. ASSUME NEW j \in Jobs, Goes(a, j), job'[a] = j => Placed(a)'
        PROVE  TypeOK' /\ \A b \in Actions : Placed(b)'
    BY <2>0, GoesLemma, <1>4
  <2>1. CASE Goes(a, At("block", <<>>, {}))
    <3>1. At("block", <<>>, {}) \in Jobs /\ At("block", <<>>, {}).at = "block"
      BY <1>3, PlaceNames DEF At, Jobs
    <3>2. job'[a] = At("block", <<>>, {}) => Placed(a)'
      BY <3>1, <1>1 DEF Placed, Going
    <3>3. QED
      BY <2>0, <2>1, <3>1, <3>2
  <2>2. CASE job[a].todo # <<>> /\ Goes(a, At("check", Rest(a), {}))
    BY <2>2, LoopHead, PlaceNames, <1>1, <1>2, <2>0 DEF At, Jobs, Placed, Going
  <2>3. CASE Goes(a, Begins(a)) /\ ~Forbidden(a)
    <3>1. CASE plan[a].kind = "create"
      <4> DEFINE j == At("write", <<>>, plan[a].aliases)
      <4>1. Begins(a) = j
        BY <3>1 DEF Begins
      <4>2. plan[a].aliases \in SUBSET Aliases
        BY <3>1, PlanLemma DEF Aliases
      <4>3. j \in Jobs /\ j.at = "write" /\ j.todo = <<>> /\ j.got = plan[a].aliases
        BY <1>3, <4>2, PlaceNames DEF At, Jobs
      <4> HIDE DEF j
      <4>4. job'[a] = j => Placed(a)'
        BY <1>1, <3>1, <4>3 DEF Placed, Going
      <4>5. QED
        BY <2>0, <2>3, <4>1, <4>3, <4>4
    <3>2. CASE plan[a].kind = "merge"
      <4> DEFINE j == At("read", Checks(a), {})
      <4>1. Begins(a) = j
        BY <3>2 DEF Begins
      <4>2. Checks(a) \in Seq(Concepts \cup Notes \cup Decisions \cup Items) /\ Checks(a) # <<>>
        BY <3>2, PlanLemma, Wider
      <4>3. j \in Jobs /\ j.at = "read" /\ j.todo = Checks(a) /\ j.got = {}
        BY <4>2, PlaceNames DEF At, Jobs
      <4>4. Sources(a) # {} /\ plan[a].target \notin Sources(a)
        BY <2>3, <3>2 DEF Forbidden
      <4> HIDE DEF j
      <4>5. job'[a] = j => Placed(a)'
        BY <1>1, <1>2, <3>2, <4>2, <4>3, <4>4 DEF Placed, Going
      <4>6. QED
        BY <2>0, <2>3, <4>1, <4>3, <4>5
    <3>3. CASE plan[a].kind = "retag"
      <4> DEFINE j == At("retag", <<plan[a].note>>, {})
      <4>1. Begins(a) = j
        BY <3>3 DEF Begins
      <4>2. plan[a].note \in Notes
        BY <3>3, PlanLemma
      <4>3. <<plan[a].note>> \in Seq(Concepts \cup Notes \cup Decisions \cup Items)
        BY <4>2
      <4>4. <<plan[a].note>> # <<>> /\ ToSet(<<plan[a].note>>) = {plan[a].note}
        BY <4>2, Singles
      <4>5. j \in Jobs /\ j.at = "retag" /\ j.todo = <<plan[a].note>>
        BY <4>3, PlaceNames DEF At, Jobs
      <4> HIDE DEF j
      <4>6. job'[a] = j => Placed(a)'
        BY <1>1, <3>3, <4>2, <4>4, <4>5 DEF Placed, Going
      <4>7. QED
        BY <2>0, <2>3, <4>1, <4>5, <4>6
    <3>4. CASE plan[a].kind = "decide"
      <4> DEFINE j == At("decide", plan[a].over, {})
      <4>1. Begins(a) = j
        BY <3>4 DEF Begins
      <4>2. plan[a].over \in Seq(Concepts \cup Notes \cup Decisions \cup Items)
        BY <3>4, PlanLemma, Wider
      <4>3. j \in Jobs /\ j.at = "decide" /\ j.todo = plan[a].over
        BY <4>2, PlaceNames DEF At, Jobs
      <4> HIDE DEF j
      <4>4. job'[a] = j => Placed(a)'
        BY <1>1, <3>4, <4>3 DEF Placed, Going
      <4>5. QED
        BY <2>0, <2>3, <4>1, <4>3, <4>4
    <3>5. QED
      BY <3>1, <3>2, <3>3, <3>4, PlanLemma
  <2>4. QED
    BY <2>1, <2>2, <2>3 DEF Check
<1>5. QED
  BY <1>1, <1>4, TypedStep DEF TypeOK

LEMMA EmptyLoop == <<>> \in Seq(Concepts \cup Notes \cup Decisions \cup Items)
OBVIOUS

LEMMA EmptySetIsPaths == {} \in SUBSET Items
OBVIOUS

LEMMA RestPlaced ==
  ASSUME NEW a, job'[a].at = "idle"
  PROVE  Placed(a)'
BY DEF Placed, Going

LEMMA FailPlaced ==
  ASSUME NEW a, job'[a].at = "fail", status'[a] # "applied"
  PROVE  Placed(a)'
BY DEF Placed, Going

LEMMA IdleJob == Idle \in Jobs /\ Idle.at = "idle"
BY EmptyLoop, PlaceNames DEF Idle, At, Jobs

LEMMA TypeBlock ==
  ASSUME TypeOK, \A b \in Actions : Placed(b), NEW a \in Actions, Block(a)
  PROVE  TypeOK' /\ \A b \in Actions : Placed(b)'
BY IdleJob, GoesLemma, RestPlaced, TypedStep DEF Block, TypeOK, notes, history, failures

LEMMA TypeFail ==
  ASSUME TypeOK, \A b \in Actions : Placed(b), NEW a \in Actions, Fail(a)
  PROVE  TypeOK' /\ \A b \in Actions : Placed(b)'
BY IdleJob, GoesLemma, RestPlaced, TypedStep DEF Fail, TypeOK, notes, history

LEMMA TypeRead ==
  ASSUME TypeOK, \A b \in Actions : Placed(b), NEW a \in Actions, ReadConcept(a)
  PROVE  TypeOK' /\ \A b \in Actions : Placed(b)'
<1> DEFINE c == Head(job[a].todo)
           got == job[a].got \cup NewAliases(a, c)
<1>1. /\ plan' = plan /\ status' = status /\ job[a].at = "read"
      /\ vault' = vault /\ tags' = tags /\ index' = index /\ meant' = meant /\ ever' = ever
      /\ overlapped' = overlapped /\ cut' = cut /\ torn' = torn /\ faults' = faults
  BY DEF ReadConcept, Here, Reads, notes, history, failures
<1>2. Sources(a)' = Sources(a) /\ Checks(a)' = Checks(a) /\ Affected(a)' = Affected(a)
  BY <1>1, PlanFrame
<1>3. /\ plan[a].kind = "merge" /\ job[a].todo # <<>> /\ ToSet(job[a].todo) \subseteq ToSet(Checks(a))
      /\ status[a] # "applied" /\ Sources(a) # {} /\ plan[a].target \notin Sources(a)
  BY <1>1 DEF Placed, Going
<1>4. /\ c \in ToSet(Checks(a)) /\ ToSet(Rest(a)) \subseteq ToSet(Checks(a))
      /\ Rest(a) \in Seq(Concepts \cup Notes \cup Decisions \cup Items)
  BY <1>3, LoopHead
<1>5. c \in Concepts /\ NewAliases(a, c) \subseteq Aliases
  <2>1. c \in Concepts
    BY <1>3, <1>4, PlanLemma
  <2>2. QED
    BY <2>1, VaultType DEF NewAliases, Aliases
<1>6. got \in SUBSET Aliases
  BY <1>5, LoopType
<1> HIDE DEF got
<1>7. CASE Goes(a, At("fail", <<>>, {}))
  <2>1. At("fail", <<>>, {}) \in Jobs /\ At("fail", <<>>, {}).at = "fail"
    BY EmptyLoop, PlaceNames DEF At, Jobs
  <2>2. Placed(a)'
    BY <1>1, <1>3, <1>7, <2>1, GoesLemma, FailPlaced
  <2>3. QED
    BY <1>1, <1>7, <2>1, <2>2, TypedStep DEF TypeOK
<1>8. CASE Goes(a, At("write", plan[a].sources, got))
  <2> DEFINE j == At("write", plan[a].sources, got)
  <2>1. plan[a].sources \in Seq(Concepts \cup Notes \cup Decisions \cup Items)
    BY <1>3, PlanLemma, Wider
  <2>2. j \in Jobs /\ j.at = "write" /\ j.todo = plan[a].sources
    BY <1>6, <2>1, PlaceNames DEF At, Jobs
  <2> HIDE DEF j
  <2>3. job'[a] = j
    BY <1>8, <2>2, GoesLemma DEF j
  <2>4. Placed(a)'
    BY <1>1, <1>2, <1>3, <2>2, <2>3 DEF Placed, Going
  <2>5. QED
    BY <1>1, <1>8, <2>2, <2>4, TypedStep DEF TypeOK, j
<1>9. CASE Rest(a) # <<>> /\ Goes(a, At("read", Rest(a), got))
  <2> DEFINE j == At("read", Rest(a), got)
  <2>1. j \in Jobs /\ j.at = "read" /\ j.todo = Rest(a)
    BY <1>4, <1>6, PlaceNames DEF At, Jobs
  <2> HIDE DEF j
  <2>2. job'[a] = j
    BY <1>9, <2>1, GoesLemma DEF j
  <2>3. Placed(a)'
    BY <1>1, <1>2, <1>3, <1>4, <1>9, <2>1, <2>2 DEF Placed, Going
  <2>4. QED
    BY <1>1, <1>9, <2>1, <2>3, TypedStep DEF TypeOK, j
<1>10. QED
  BY <1>7, <1>8, <1>9 DEF ReadConcept, got

LEMMA TypeWrite ==
  ASSUME TypeOK, \A b \in Actions : Placed(b), NEW a \in Actions, WriteConcept(a)
  PROVE  TypeOK' /\ \A b \in Actions : Placed(b)'
<1>1. /\ plan' = plan /\ status' = status /\ job[a].at = "write"
      /\ tags' = tags /\ index' = index /\ meant' = meant
      /\ overlapped' = overlapped /\ cut' = cut /\ torn' = torn /\ faults' = faults
  BY DEF WriteConcept, Here, Puts, failures
<1>2. Sources(a)' = Sources(a) /\ Checks(a)' = Checks(a) /\ Affected(a)' = Affected(a)
  BY <1>1, PlanFrame
<1>3. /\ plan[a].kind \in {"create", "merge"} /\ status[a] # "applied"
      /\ plan[a].kind = "create" => job[a].todo = <<>>
      /\ plan[a].kind = "merge" => job[a].todo = plan[a].sources
      /\ plan[a].kind = "merge" => Sources(a) # {} /\ plan[a].target \notin Sources(a)
  BY <1>1 DEF Placed, Going
<1>4. plan[a].target \in Concepts /\ job[a].got \in SUBSET Aliases
  BY <1>3, PlanLemma, LoopType
<1>5. vault' \in Shelves
  BY <1>4, VaultType DEF WriteConcept
<1>6. ever' \subseteq Aliases
  BY <1>4 DEF WriteConcept, TypeOK, Aliases
<1>7. CASE job[a].todo = <<>>
  <2>1. plan[a].kind = "create"
    BY <1>3, <1>7, PlanLemma
  <2> DEFINE j == At("record", <<>>, {})
  <2>2. j \in Jobs /\ j.at = "record"
    BY EmptyLoop, PlaceNames DEF At, Jobs
  <2> HIDE DEF j
  <2>3. Goes(a, j)
    BY <1>7 DEF WriteConcept, j
  <2>4. Placed(a)'
    BY <1>1, <1>3, <2>1, <2>2, <2>3, GoesLemma DEF Placed, Going
  <2>5. QED
    BY <1>1, <1>5, <1>6, <2>2, <2>3, <2>4, TypedStep DEF TypeOK
<1>8. CASE job[a].todo # <<>>
  <2>1. plan[a].kind = "merge" /\ ToSet(job[a].todo) = Sources(a)
    BY <1>3, <1>8 DEF Sources
  <2> DEFINE j == At("delete", job[a].todo, {})
  <2>2. j \in Jobs /\ j.at = "delete" /\ j.todo = job[a].todo
    BY LoopType, PlaceNames DEF At, Jobs
  <2> HIDE DEF j
  <2>3. Goes(a, j)
    BY <1>8 DEF WriteConcept, j
  <2>4. Placed(a)'
    BY <1>1, <1>2, <1>3, <1>8, <2>1, <2>2, <2>3, GoesLemma DEF Placed, Going
  <2>5. QED
    BY <1>1, <1>5, <1>6, <2>2, <2>3, <2>4, TypedStep DEF TypeOK
<1>9. QED
  BY <1>7, <1>8

\* A merge removes its sources one by one.
LEMMA TypeDelete ==
  ASSUME TypeOK, \A b \in Actions : Placed(b), NEW a \in Actions, DeleteSource(a)
  PROVE  TypeOK' /\ \A b \in Actions : Placed(b)'
<1>1. /\ plan' = plan /\ status' = status /\ job[a].at = "delete"
      /\ tags' = tags /\ index' = index /\ meant' = meant /\ ever' = ever
      /\ overlapped' = overlapped /\ cut' = cut /\ torn' = torn /\ faults' = faults
  BY DEF DeleteSource, Here, Puts, failures
<1>2. Sources(a)' = Sources(a)
  BY <1>1, PlanFrame
<1>3. /\ plan[a].kind = "merge" /\ job[a].todo # <<>> /\ ToSet(job[a].todo) \subseteq Sources(a)
      /\ status[a] # "applied" /\ Sources(a) # {} /\ plan[a].target \notin Sources(a)
  BY <1>1 DEF Placed, Going
<1>4. Head(job[a].todo) \in Concepts
  BY <1>3, LoopHead, PlanLemma
<1>5. vault' \in Shelves
  BY <1>4, VaultType DEF DeleteSource
<1> DEFINE j == At("bury", job[a].todo, {})
<1>6. j \in Jobs /\ j.at = "bury" /\ j.todo = job[a].todo
  BY LoopType, PlaceNames DEF At, Jobs
<1> HIDE DEF j
<1>7. Goes(a, j)
  BY DEF DeleteSource, j
<1>8. Placed(a)'
  BY <1>1, <1>2, <1>3, <1>6, <1>7, GoesLemma DEF Placed, Going
<1>9. QED
  BY <1>1, <1>5, <1>6, <1>7, <1>8, TypedStep DEF TypeOK

LEMMA TypeBury ==
  ASSUME TypeOK, \A b \in Actions : Placed(b), NEW a \in Actions, Bury(a)
  PROVE  TypeOK' /\ \A b \in Actions : Placed(b)'
<1>1. /\ plan' = plan /\ status' = status /\ job[a].at = "bury"
      /\ tags' = tags /\ index' = index /\ meant' = meant /\ ever' = ever
      /\ overlapped' = overlapped /\ cut' = cut /\ torn' = torn /\ faults' = faults
  BY DEF Bury, Here, Puts, failures
<1>2. Sources(a)' = Sources(a)
  BY <1>1, PlanFrame
<1>3. /\ plan[a].kind = "merge" /\ job[a].todo # <<>> /\ ToSet(job[a].todo) \subseteq Sources(a)
      /\ status[a] # "applied" /\ Sources(a) # {} /\ plan[a].target \notin Sources(a)
  BY <1>1 DEF Placed, Going
<1>4. Head(job[a].todo) \in Concepts /\ plan[a].target \in Concepts
  BY <1>3, LoopHead, PlanLemma
<1>5. vault' \in Shelves
  BY <1>4, VaultType DEF Bury
<1>6. CASE Rest(a) = <<>>
  <2> DEFINE j == At("list", <<>>, {})
  <2>1. j \in Jobs /\ j.at = "list"
    BY EmptyLoop, PlaceNames DEF At, Jobs
  <2> HIDE DEF j
  <2>2. Goes(a, j)
    BY <1>6 DEF Bury, j
  <2>3. Placed(a)'
    BY <1>1, <1>2, <1>3, <2>1, <2>2, GoesLemma DEF Placed, Going
  <2>4. QED
    BY <1>1, <1>5, <2>1, <2>2, <2>3, TypedStep DEF TypeOK
<1>7. CASE Rest(a) # <<>>
  <2> DEFINE j == At("delete", Rest(a), {})
  <2>1. j \in Jobs /\ j.at = "delete" /\ j.todo = Rest(a)
    BY <1>3, LoopHead, PlaceNames DEF At, Jobs
  <2> HIDE DEF j
  <2>2. Goes(a, j)
    BY <1>7 DEF Bury, j
  <2>3. ToSet(Rest(a)) \subseteq Sources(a)
    BY <1>3, LoopHead
  <2>4. Placed(a)'
    BY <1>1, <1>2, <1>3, <1>7, <2>1, <2>2, <2>3, GoesLemma DEF Placed, Going
  <2>5. QED
    BY <1>1, <1>5, <2>1, <2>2, <2>4, TypedStep DEF TypeOK
<1>8. QED
  BY <1>6, <1>7

LEMMA TypeList ==
  ASSUME TypeOK, \A b \in Actions : Placed(b), NEW a \in Actions, ListGarden(a)
  PROVE  TypeOK' /\ \A b \in Actions : Placed(b)'
<1> DEFINE rest == SetToSeq(Notes)
           j == ToRetag(rest)
<1>1. /\ plan' = plan /\ status' = status /\ job[a].at = "list"
      /\ vault' = vault /\ tags' = tags /\ index' = index /\ meant' = meant /\ ever' = ever
      /\ overlapped' = overlapped /\ cut' = cut /\ torn' = torn /\ faults' = faults
  BY DEF ListGarden, Here, Reads, notes, history, failures
<1>2. Sources(a)' = Sources(a)
  BY <1>1, PlanFrame
<1>3. /\ plan[a].kind = "merge" /\ status[a] # "applied"
      /\ Sources(a) # {} /\ plan[a].target \notin Sources(a)
  BY <1>1 DEF Placed, Going
<1>4. rest \in Seq(Concepts \cup Notes \cup Decisions \cup Items) /\ ToSet(rest) = Notes
  BY Listing, Wider
<1>5. Goes(a, j)
  BY DEF ListGarden
<1> HIDE DEF rest
<1>6. /\ j \in Jobs
      /\ rest = <<>> => j.at = "record"
      /\ rest # <<>> => j.at = "retag" /\ j.todo = rest
  BY <1>4, NextPlaces, EmptySetIsPaths
<1> HIDE DEF j
<1>7. Placed(a)'
  BY <1>1, <1>2, <1>3, <1>4, <1>5, <1>6, GoesLemma DEF Placed, Going
<1>8. QED
  BY <1>1, <1>5, <1>6, <1>7, TypedStep DEF TypeOK

\* What is left of a loop over notes, or over decisions, when its head is done.
LEMMA LoopOn ==
  ASSUME TypeOK, NEW a \in Actions, job[a].todo # <<>>
  PROVE  /\ ToRetag(Rest(a)) \in Jobs /\ ToSupersede(Rest(a)) \in Jobs
         /\ Rest(a) = <<>> => ToRetag(Rest(a)).at = "record" /\ ToSupersede(Rest(a)).at = "record"
         /\ Rest(a) # <<>> => /\ ToRetag(Rest(a)).at = "retag" /\ ToRetag(Rest(a)).todo = Rest(a)
                              /\ ToSupersede(Rest(a)).at = "supersede"
                              /\ ToSupersede(Rest(a)).todo = Rest(a)
BY LoopHead, NextPlaces, EmptySetIsPaths

LEMMA TypeReadTags ==
  ASSUME TypeOK, \A b \in Actions : Placed(b), NEW a \in Actions, ReadTags(a)
  PROVE  TypeOK' /\ \A b \in Actions : Placed(b)'
<1> DEFINE ts == tags[Head(job[a].todo)]
<1>1. /\ plan' = plan /\ status' = status /\ job[a].at = "retag"
      /\ vault' = vault /\ tags' = tags /\ index' = index /\ meant' = meant /\ ever' = ever
      /\ overlapped' = overlapped /\ cut' = cut /\ torn' = torn /\ faults' = faults
  BY DEF ReadTags, Here, Reads, notes, history, failures
<1>2. Sources(a)' = Sources(a)
  BY <1>1, PlanFrame
<1>3. /\ plan[a].kind \in {"merge", "retag"} /\ status[a] # "applied"
      /\ job[a].todo # <<>> /\ ToSet(job[a].todo) \subseteq Notes
      /\ plan[a].kind = "merge" => Sources(a) # {} /\ plan[a].target \notin Sources(a)
  BY <1>1 DEF Placed, Going
<1>4. ts \in SUBSET Concepts
  BY <1>3, LoopHead DEF TypeOK
<1>5. Retagged(a, ts) \subseteq Concepts
  BY <1>3, <1>4, RetaggedType
<1> HIDE DEF ts
<1>6. CASE Goes(a, ToRetag(Rest(a)))
  <2> DEFINE j == ToRetag(Rest(a))
  <2>1. /\ j \in Jobs
        /\ Rest(a) = <<>> => j.at = "record"
        /\ Rest(a) # <<>> => j.at = "retag" /\ j.todo = Rest(a)
    BY <1>3, LoopOn
  <2> HIDE DEF j
  <2>2. ToSet(Rest(a)) \subseteq Notes
    BY <1>3, LoopHead
  <2>3. Placed(a)'
    BY <1>1, <1>2, <1>3, <1>6, <2>1, <2>2, GoesLemma DEF Placed, Going, j
  <2>4. QED
    BY <1>1, <1>6, <2>1, <2>3, TypedStep DEF TypeOK, j
<1>7. CASE Goes(a, At("set", job[a].todo, Retagged(a, ts)))
  <2> DEFINE j == At("set", job[a].todo, Retagged(a, ts))
  <2>1. j \in Jobs /\ j.at = "set" /\ j.todo = job[a].todo /\ j.got = Retagged(a, ts)
    BY <1>5, LoopType, PlaceNames DEF At, Jobs, Aliases
  <2> HIDE DEF j
  <2>2. job'[a] = j
    BY <1>7, <2>1, GoesLemma DEF j
  <2>3. Placed(a)'
    BY <1>1, <1>2, <1>3, <1>5, <2>1, <2>2 DEF Placed, Going
  <2>4. QED
    BY <1>1, <1>7, <2>1, <2>3, TypedStep DEF TypeOK, j
<1>8. QED
  BY <1>6, <1>7 DEF ReadTags, ts

LEMMA TypeSet ==
  ASSUME TypeOK, \A b \in Actions : Placed(b), NEW a \in Actions, SetTags(a)
  PROVE  TypeOK' /\ \A b \in Actions : Placed(b)'
<1> DEFINE n == Head(job[a].todo)
           j == ToRetag(Rest(a))
<1>1. /\ plan' = plan /\ status' = status /\ job[a].at = "set"
      /\ vault' = vault /\ index' = index /\ ever' = ever
      /\ overlapped' = overlapped /\ cut' = cut /\ torn' = torn /\ faults' = faults
  BY DEF SetTags, Here, Puts, failures
<1>2. Sources(a)' = Sources(a)
  BY <1>1, PlanFrame
<1>3. /\ plan[a].kind \in {"merge", "retag"} /\ status[a] # "applied"
      /\ job[a].todo # <<>> /\ ToSet(job[a].todo) \subseteq Notes /\ job[a].got \subseteq Concepts
      /\ plan[a].kind = "merge" => Sources(a) # {} /\ plan[a].target \notin Sources(a)
  BY <1>1 DEF Placed, Going
<1>4. n \in Notes
  BY <1>3, LoopHead
<1>5. tags' \in [Notes -> SUBSET Concepts]
  BY <1>3, <1>4 DEF SetTags, TypeOK
<1>6. meant' \in [Notes -> SUBSET Concepts]
  BY PlanLemma, <1>4, <1>3 DEF SetTags, TypeOK
<1>7. /\ j \in Jobs
      /\ Rest(a) = <<>> => j.at = "record"
      /\ Rest(a) # <<>> => j.at = "retag" /\ j.todo = Rest(a)
  BY <1>3, LoopOn
<1>8. Goes(a, j)
  BY DEF SetTags
<1> HIDE DEF j
<1>9. ToSet(Rest(a)) \subseteq Notes
  BY <1>3, LoopHead
<1>10. Placed(a)'
  BY <1>1, <1>2, <1>3, <1>7, <1>8, <1>9, GoesLemma DEF Placed, Going
<1>11. QED
  BY <1>1, <1>5, <1>6, <1>7, <1>8, <1>10, TypedStep DEF TypeOK

LEMMA TypeDecide ==
  ASSUME TypeOK, \A b \in Actions : Placed(b), NEW a \in Actions, Decide(a)
  PROVE  TypeOK' /\ \A b \in Actions : Placed(b)'
<1> DEFINE j == ToSupersede(job[a].todo)
<1>1. /\ plan' = plan /\ status' = status /\ job[a].at = "decide"
      /\ tags' = tags /\ index' = index /\ meant' = meant /\ ever' = ever
      /\ overlapped' = overlapped /\ cut' = cut /\ torn' = torn /\ faults' = faults
  BY DEF Decide, Here, Puts, failures
<1>2. plan[a].kind = "decide" /\ status[a] # "applied" /\ job[a].todo = plan[a].over
  BY <1>1 DEF Placed
<1>3. plan[a].decision \in Decisions
  BY <1>2, PlanLemma
<1>4. vault' \in Shelves
  BY <1>3, VaultType DEF Decide
<1>5. /\ j \in Jobs
      /\ job[a].todo = <<>> => j.at = "record"
      /\ job[a].todo # <<>> => j.at = "supersede" /\ j.todo = job[a].todo
  BY LoopType, NextPlaces, EmptySetIsPaths
<1>6. Goes(a, j)
  BY DEF Decide
<1> HIDE DEF j
<1>7. Placed(a)'
  BY <1>1, <1>2, <1>5, <1>6, GoesLemma DEF Placed, Going
<1>8. QED
  BY <1>1, <1>4, <1>5, <1>6, <1>7, TypedStep DEF TypeOK

LEMMA TypeSupersede ==
  ASSUME TypeOK, \A b \in Actions : Placed(b), NEW a \in Actions, Supersede(a)
  PROVE  TypeOK' /\ \A b \in Actions : Placed(b)'
<1> DEFINE j == ToSupersede(Rest(a))
<1>1. /\ plan' = plan /\ status' = status /\ job[a].at = "supersede"
      /\ tags' = tags /\ index' = index /\ meant' = meant /\ ever' = ever
      /\ overlapped' = overlapped /\ cut' = cut /\ torn' = torn /\ faults' = faults
  BY DEF Supersede, Here, Puts, failures
<1>2. /\ plan[a].kind = "decide" /\ status[a] # "applied" /\ job[a].todo # <<>>
      /\ ToSet(job[a].todo) \subseteq ToSet(plan[a].over)
  BY <1>1 DEF Placed
<1>3. Head(job[a].todo) \in Decisions /\ ToSet(Rest(a)) \subseteq ToSet(plan[a].over)
  BY <1>2, LoopHead, PlanLemma
<1>4. vault' \in Shelves
  BY <1>3, VaultType DEF Supersede
<1>5. /\ j \in Jobs
      /\ Rest(a) = <<>> => j.at = "record"
      /\ Rest(a) # <<>> => j.at = "supersede" /\ j.todo = Rest(a)
  BY <1>2, LoopOn
<1>6. Goes(a, j)
  BY DEF Supersede
<1> HIDE DEF j
<1>7. Placed(a)'
  BY <1>1, <1>2, <1>3, <1>5, <1>6, GoesLemma DEF Placed, Going
<1>8. QED
  BY <1>1, <1>4, <1>5, <1>6, <1>7, TypedStep DEF TypeOK

LEMMA TypeRecord ==
  ASSUME TypeOK, \A b \in Actions : Placed(b), NEW a \in Actions, Record(a)
  PROVE  TypeOK' /\ \A b \in Actions : Placed(b)'
<1> DEFINE j == ToReload(Affected(a))
<1>1. /\ plan' = plan /\ job[a].at = "record" /\ status' = [status EXCEPT ![a] = "applied"]
      /\ vault' = vault /\ tags' = tags /\ index' = index /\ meant' = meant /\ ever' = ever
      /\ overlapped' = overlapped /\ cut' = cut /\ torn' = torn /\ faults' = faults
  BY DEF Record, Here, notes, history, failures
<1>2. Sources(a)' = Sources(a) /\ Affected(a)' = Affected(a) /\ Affected(a) \in SUBSET Items
  BY <1>1, PlanFrame, PlanLemma
<1>3. plan[a].kind = "merge" => Sources(a) # {} /\ plan[a].target \notin Sources(a)
  BY <1>1 DEF Placed, Going
<1>4. /\ status' \in [Actions -> {"draft", "applied", "blocked", "failed"}] /\ status'[a] = "applied"
      /\ \A b \in Actions : b # a => status'[b] = status[b]
  BY <1>1 DEF TypeOK
<1>5. /\ j \in Jobs
      /\ Affected(a) = {} => j.at = "idle"
      /\ Affected(a) # {} => j.at = "reload" /\ j.reload = Affected(a)
  BY <1>2, EmptyLoop, NextPlaces
<1>6. Goes(a, j)
  BY DEF Record
<1> HIDE DEF j
<1>7. Placed(a)'
  BY <1>1, <1>2, <1>3, <1>4, <1>5, <1>6, GoesLemma DEF Placed, Going
<1>8. QED
  BY <1>1, <1>4, <1>5, <1>6, <1>7, TypedStep DEF TypeOK

\* A path is dropped: what it is goes into the job's todo.
LEMMA PopJob ==
  ASSUME TypeOK, NEW a \in Actions, NEW x \in Items
  PROVE  LET j == [job[a] EXCEPT !.at = "load", !.todo = <<x>>] IN
         /\ j \in Jobs /\ j.at = "load" /\ j.reload = job[a].reload
         /\ Len(j.todo) = 1 /\ Head(j.todo) = x
         /\ [job EXCEPT ![a].at = "load", ![a].todo = <<x>>] = [job EXCEPT ![a] = j]
<1> DEFINE j == [job[a] EXCEPT !.at = "load", !.todo = <<x>>]
<1>1. job[a] \in Jobs /\ job \in [Actions -> Jobs]
  BY DEF TypeOK
<1>2. <<x>> \in Seq(Concepts \cup Notes \cup Decisions \cup Items)
  OBVIOUS
<1>3. j \in Jobs /\ j.at = "load" /\ j.reload = job[a].reload /\ j.todo = <<x>>
  BY <1>1, <1>2, PlaceNames DEF Jobs
<1>4. Len(<<x>>) = 1 /\ Head(<<x>>) = x
  OBVIOUS
<1>5. [job EXCEPT ![a].at = "load", ![a].todo = <<x>>] = [job EXCEPT ![a] = j]
  BY <1>1
<1>6. QED
  BY <1>3, <1>4, <1>5

LEMMA TypePop ==
  ASSUME TypeOK, \A b \in Actions : Placed(b), NEW a \in Actions, Pop(a)
  PROVE  TypeOK' /\ \A b \in Actions : Placed(b)'
<1>1. /\ plan' = plan /\ status' = status /\ job[a].at = "reload"
      /\ vault' = vault /\ tags' = tags /\ meant' = meant /\ ever' = ever
      /\ overlapped' = overlapped /\ cut' = cut /\ torn' = torn /\ faults' = faults
  BY DEF Pop, Here, notes, history, failures
<1>2. Sources(a)' = Sources(a) /\ Affected(a)' = Affected(a)
  BY <1>1, PlanFrame
<1>3. /\ status[a] = "applied" /\ job[a].reload \subseteq Affected(a)
      /\ plan[a].kind = "merge" => Sources(a) # {} /\ plan[a].target \notin Sources(a)
  BY <1>1 DEF Placed, Going
<1>4. PICK x \in job[a].reload : /\ index' = Popped(index, x)
                                 /\ job' = [job EXCEPT ![a].at = "load", ![a].todo = <<x>>]
  BY DEF Pop, FirstPaths
<1>5. x \in Items
  BY LoopType
<1> DEFINE j == [job[a] EXCEPT !.at = "load", !.todo = <<x>>]
<1>6. /\ j \in Jobs /\ j.at = "load" /\ j.reload = job[a].reload
      /\ Len(j.todo) = 1 /\ Head(j.todo) = x
      /\ job' = [job EXCEPT ![a] = j]
  BY <1>4, <1>5, PopJob
<1> HIDE DEF j
<1>7. Goes(a, j)
  BY <1>6 DEF Goes
<1>8. Placed(a)'
  BY <1>1, <1>2, <1>3, <1>6, <1>7, GoesLemma DEF Placed, Going
<1>9. index' \in Shelves
  BY <1>4, <1>5, IndexType
<1>10. QED
  BY <1>1, <1>6, <1>7, <1>8, <1>9, TypedStep DEF TypeOK

LEMMA TypeLoad ==
  ASSUME TypeOK, \A b \in Actions : Placed(b), NEW a \in Actions, Load(a)
  PROVE  TypeOK' /\ \A b \in Actions : Placed(b)'
<1> DEFINE x == Head(job[a].todo)
           paths == job[a].reload \ {x}
           j == ToReload(paths)
<1>1. /\ plan' = plan /\ status' = status /\ job[a].at = "load"
      /\ vault' = vault /\ tags' = tags /\ meant' = meant /\ ever' = ever
      /\ overlapped' = overlapped /\ cut' = cut /\ torn' = torn /\ faults' = faults
  BY DEF Load, Here, notes, history, failures
<1>2. Sources(a)' = Sources(a) /\ Affected(a)' = Affected(a)
  BY <1>1, PlanFrame
<1>3. /\ status[a] = "applied" /\ job[a].reload \subseteq Affected(a) /\ x \in job[a].reload
      /\ plan[a].kind = "merge" => Sources(a) # {} /\ plan[a].target \notin Sources(a)
  BY <1>1 DEF Placed, Going
<1>4. x \in Items /\ paths \in SUBSET Items
  BY <1>3, LoopType
<1>5. index' = Loaded(index, x) /\ Goes(a, j)
  BY DEF Load
<1> HIDE DEF paths
<1>6. /\ j \in Jobs
      /\ paths = {} => j.at = "idle"
      /\ paths # {} => j.at = "reload" /\ j.reload = paths
  BY <1>4, EmptyLoop, NextPlaces
<1> HIDE DEF j
<1>7. Placed(a)'
  BY <1>1, <1>2, <1>3, <1>5, <1>6, GoesLemma DEF Placed, Going, paths
<1>8. index' \in Shelves
  BY <1>4, <1>5, IndexType
<1>9. QED
  BY <1>1, <1>5, <1>6, <1>7, <1>8, TypedStep DEF TypeOK

LEMMA TypeFails ==
  ASSUME TypeOK, \A b \in Actions : Placed(b), NEW a \in Actions, StorageFails(a)
  PROVE  TypeOK' /\ \A b \in Actions : Placed(b)'
<1>1. /\ plan' = plan /\ status' = status /\ index' = index /\ meant' = meant /\ ever' = ever
      /\ overlapped' = overlapped /\ cut' = TRUE /\ faults < MaxFaults /\ faults' = faults + 1
      /\ Torn(a)
  BY DEF StorageFails, Fault, history
<1>2. vault' \in Shelves /\ tags' \in [Notes -> SUBSET Concepts] /\ torn' \in BOOLEAN
  BY <1>1, TornType
<1>3. faults' \in 0..MaxFaults
  BY <1>1, FaultsAssumption DEF TypeOK
<1>4. CASE job[a].at \in Effects
  <2> DEFINE j == At("fail", <<>>, {})
  <2>1. j \in Jobs /\ j.at = "fail"
    BY EmptyLoop, PlaceNames DEF At, Jobs
  <2>2. status[a] # "applied"
    BY <1>4 DEF Placed, Effects
  <2>3. Goes(a, j)
    BY <1>4 DEF StorageFails
  <2> HIDE DEF j
  <2>4. Placed(a)'
    BY <1>1, <2>1, <2>2, <2>3, GoesLemma, FailPlaced
  <2>5. QED
    BY <1>1, <1>2, <1>3, <2>1, <2>3, <2>4, TypedStep DEF TypeOK
<1>5. CASE job[a].at \notin Effects
  <2>1. Goes(a, Idle)
    BY <1>5 DEF StorageFails
  <2>2. Placed(a)'
    BY <2>1, IdleJob, GoesLemma, RestPlaced
  <2>3. QED
    BY <1>1, <1>2, <1>3, <2>1, <2>2, IdleJob, TypedStep DEF TypeOK
<1>6. QED
  BY <1>4, <1>5

LEMMA TypeCrash ==
  ASSUME TypeOK, \A b \in Actions : Placed(b), Crash
  PROVE  TypeOK' /\ \A b \in Actions : Placed(b)'
<1>1. /\ plan' = plan /\ status' = status /\ meant' = meant /\ ever' = ever
      /\ overlapped' = overlapped /\ cut' = FALSE /\ faults < MaxFaults /\ faults' = faults + 1
      /\ index' = vault' /\ job' = [a \in Actions |-> Idle]
  BY DEF Crash, Fault, history
<1>2. PICK a \in Actions : Torn(a)
  BY DEF Crash, Running
<1>3. vault' \in Shelves /\ tags' \in [Notes -> SUBSET Concepts] /\ torn' \in BOOLEAN
  BY <1>2, TornType
<1>4. faults' \in 0..MaxFaults
  BY <1>1, FaultsAssumption DEF TypeOK
<1>5. TypeOK'
  BY <1>1, <1>3, <1>4, IdleJob DEF TypeOK
<1>6. \A b \in Actions : job'[b].at = "idle"
  BY <1>1, IdleJob
<1>7. QED
  BY <1>5, <1>6, RestPlaced

-----------------------------------------------------------------------------
\* What the steps do to the vault and to the index, field by field.

LEMMA WriteEffect ==
  ASSUME TypeOK, NEW a \in Actions, Placed(a), WriteConcept(a)
  PROVE  /\ plan[a].target \in Concepts /\ plan[a].kind \in {"create", "merge"}
         /\ vault'.active = vault.active \cup {plan[a].target}
         /\ vault'.aliases = [vault.aliases EXCEPT ![plan[a].target] = job[a].got]
         /\ vault'.tomb = vault.tomb /\ vault'.decided = vault.decided
BY PlanLemma DEF WriteConcept, Here, Placed, TypeOK, Shelves

LEMMA DeleteEffect ==
  ASSUME TypeOK, NEW a \in Actions, Placed(a), DeleteSource(a)
  PROVE  LET c == Head(job[a].todo) IN
         /\ plan[a].kind = "merge" /\ c \in Sources(a) /\ c \in Concepts
         /\ vault'.active = vault.active \ {c}
         /\ vault'.aliases = [vault.aliases EXCEPT ![c] = {}]
         /\ vault'.tomb = vault.tomb /\ vault'.decided = vault.decided
BY LoopHead, PlanLemma DEF DeleteSource, Here, Placed, TypeOK, Shelves

LEMMA BuryEffect ==
  ASSUME TypeOK, NEW a \in Actions, Placed(a), Bury(a)
  PROVE  LET c == Head(job[a].todo) IN
         /\ plan[a].kind = "merge" /\ c \in Sources(a) /\ c \in Concepts
         /\ plan[a].target \in Concepts
         /\ vault'.active = vault.active /\ vault'.aliases = vault.aliases
         /\ vault'.tomb = [vault.tomb EXCEPT ![c] = plan[a].target]
         /\ vault'.decided = vault.decided
BY LoopHead, PlanLemma DEF Bury, Here, Placed, TypeOK, Shelves

LEMMA DecideEffect ==
  ASSUME TypeOK, NEW a \in Actions, Placed(a), Decide(a)
  PROVE  /\ plan[a].kind = "decide" /\ plan[a].decision \in Decisions
         /\ vault'.active = vault.active /\ vault'.aliases = vault.aliases
         /\ vault'.tomb = vault.tomb
         /\ vault'.decided = [vault.decided EXCEPT ![plan[a].decision] = "active"]
BY PlanLemma DEF Decide, Here, Placed, TypeOK, Shelves

LEMMA SupersedeEffect ==
  ASSUME TypeOK, NEW a \in Actions, Placed(a), Supersede(a)
  PROVE  LET d == Head(job[a].todo) IN
         /\ plan[a].kind = "decide" /\ d \in ToSet(plan[a].over) /\ d \in Decisions
         /\ vault'.active = vault.active /\ vault'.aliases = vault.aliases
         /\ vault'.tomb = vault.tomb
         /\ vault'.decided = [vault.decided EXCEPT ![d] = "superseded"]
BY LoopHead, PlanLemma DEF Supersede, Here, Placed, TypeOK, Shelves

\* A path that is dropped from the index, or read into it, changes no other entry.
LEMMA PoppedEffect ==
  ASSUME TypeOK, NEW x \in Items
  PROVE  LET i == Popped(index, x) IN
         /\ x[1] = "active" =>
              /\ i.active = index.active \ {x[2]}
              /\ i.aliases = [index.aliases EXCEPT ![x[2]] = {}]
              /\ i.tomb = index.tomb /\ i.decided = index.decided
         /\ x[1] = "merged" =>
              /\ i.active = index.active /\ i.aliases = index.aliases /\ i.decided = index.decided
              /\ i.tomb = [index.tomb EXCEPT ![x[2]] = None]
         /\ x[1] = "decided" =>
              /\ i.active = index.active /\ i.aliases = index.aliases /\ i.tomb = index.tomb
              /\ i.decided = [index.decided EXCEPT ![x[2]] = None]
BY DEF TypeOK, Popped, Shelves

LEMMA LoadedEffect ==
  ASSUME TypeOK, NEW x \in Items
  PROVE  LET i == Loaded(index, x) IN
         /\ x[1] = "active" =>
              /\ i.active = index.active \cup ({x[2]} \cap vault.active)
              /\ i.aliases = [index.aliases EXCEPT ![x[2]] = vault.aliases[x[2]]]
              /\ i.tomb = index.tomb /\ i.decided = index.decided
         /\ x[1] = "merged" =>
              /\ i.active = index.active /\ i.aliases = index.aliases /\ i.decided = index.decided
              /\ i.tomb = [index.tomb EXCEPT ![x[2]] = vault.tomb[x[2]]]
         /\ x[1] = "decided" =>
              /\ i.active = index.active /\ i.aliases = index.aliases /\ i.tomb = index.tomb
              /\ i.decided = [index.decided EXCEPT ![x[2]] = vault.decided[x[2]]]
BY DEF TypeOK, Loaded, Shelves

\* The paths: two that agree in kind and name are one.
LEMMA ItemLemma ==
  /\ \A x \in Items : /\ x[1] \in {"active", "merged", "decided"}
                      /\ x[1] \in {"active", "merged"} => x[2] \in Concepts
                      /\ x[1] = "decided" => x[2] \in Decisions
                      /\ x = <<x[1], x[2]>>
  /\ \A c \in Concepts : <<"active", c>> \in Items /\ <<"merged", c>> \in Items
  /\ \A d \in Decisions : <<"decided", d>> \in Items
BY DEF Items

\* Where the paths of an action are.
LEMMA AffectedLemma ==
  ASSUME TypeOK, NEW a \in Actions
  PROVE  /\ plan[a].kind \in {"create", "merge"} => <<"active", plan[a].target>> \in Affected(a)
         /\ plan[a].kind = "merge" =>
              \A c \in Sources(a) : <<"active", c>> \in Affected(a) /\ <<"merged", c>> \in Affected(a)
         /\ plan[a].kind = "decide" =>
              /\ <<"decided", plan[a].decision>> \in Affected(a)
              /\ \A d \in ToSet(plan[a].over) : <<"decided", d>> \in Affected(a)
              /\ \A x \in Affected(a) : x[1] = "decided" /\ x[2] \in {plan[a].decision} \cup ToSet(plan[a].over)
         /\ plan[a].kind # "decide" => \A x \in Affected(a) : x[1] # "decided"
BY PlanLemma DEF Affected

LEMMA MergePaths ==
  ASSUME NEW a \in Actions, plan[a].kind = "merge"
  PROVE  \A k \in Sources(a) : <<"active", k>> \in Affected(a) /\ <<"merged", k>> \in Affected(a)
BY DEF Affected

-----------------------------------------------------------------------------
\* How the applies move.

LEMMA GoesTo ==
  ASSUME TypeOK, NEW a \in Actions, NEW j, Goes(a, j)
  PROVE  job'[a] = j /\ \A b \in Actions : b # a => job'[b] = job[b]
BY DEF TypeOK, Goes

\* What a step of one apply leaves alone.
LEMMA StepFrame ==
  ASSUME TypeOK, NEW a \in Actions, Step(a)
  PROVE  /\ plan' = plan /\ overlapped' = overlapped /\ torn' = torn /\ faults' = faults
         /\ ~cut' => ~cut
         /\ a \in Running
         /\ \A b \in Actions : b # a => job'[b] = job[b] /\ status'[b] = status[b]
<1> USE DEF Here, Running, Reads, Puts, history, failures
<1>1. CASE Check(a)
  BY <1>1, GoesTo DEF Check
<1>2. CASE Block(a)
  BY <1>2, GoesTo DEF Block, TypeOK
<1>3. CASE ReadConcept(a)
  BY <1>3, GoesTo DEF ReadConcept
<1>4. CASE WriteConcept(a)
  BY <1>4, GoesTo DEF WriteConcept
<1>5. CASE DeleteSource(a)
  BY <1>5, GoesTo DEF DeleteSource
<1>6. CASE Bury(a)
  BY <1>6, GoesTo DEF Bury
<1>7. CASE ListGarden(a)
  BY <1>7, GoesTo DEF ListGarden
<1>8. CASE ReadTags(a)
  BY <1>8, GoesTo DEF ReadTags
<1>9. CASE SetTags(a)
  BY <1>9, GoesTo DEF SetTags
<1>10. CASE Decide(a)
  BY <1>10, GoesTo DEF Decide
<1>11. CASE Supersede(a)
  BY <1>11, GoesTo DEF Supersede
<1>12. CASE Record(a)
  BY <1>12, GoesTo DEF Record, TypeOK
<1>13. CASE Pop(a)
  BY <1>13 DEF Pop, FirstPaths, TypeOK
<1>14. CASE Load(a)
  BY <1>14, GoesTo DEF Load
<1>15. CASE Fail(a)
  BY <1>15, GoesTo DEF Fail, TypeOK
<1>16. QED
  BY <1>1, <1>2, <1>3, <1>4, <1>5, <1>6, <1>7, <1>8, <1>9, <1>10, <1>11, <1>12, <1>13, <1>14,
     <1>15 DEF Step

\* The steps of an effect, which goes on until it is recorded or fails.
Effect(a) ==
  \/ ReadConcept(a) \/ WriteConcept(a) \/ DeleteSource(a) \/ Bury(a) \/ ListGarden(a) \/ ReadTags(a)
  \/ SetTags(a) \/ Decide(a) \/ Supersede(a)

LEMMA EffectGoesOn ==
  ASSUME TypeOK, NEW a \in Actions, Effect(a)
  PROVE  /\ job[a].at \in Effects /\ job'[a].at \in Effects \cup {"record", "fail"}
         /\ index' = index /\ cut' = cut /\ status' = status
<1> USE DEF Here, Effects, Reads, Puts, failures, At
<1>1. CASE ReadConcept(a)
  BY <1>1, GoesTo DEF ReadConcept
<1>2. CASE WriteConcept(a)
  BY <1>2, GoesTo DEF WriteConcept
<1>3. CASE DeleteSource(a)
  BY <1>3, GoesTo DEF DeleteSource
<1>4. CASE Bury(a)
  BY <1>4, GoesTo DEF Bury
<1>5. CASE ListGarden(a)
  BY <1>5, GoesTo DEF ListGarden, ToRetag
<1>6. CASE ReadTags(a)
  BY <1>6, GoesTo DEF ReadTags, ToRetag
<1>7. CASE SetTags(a)
  BY <1>7, GoesTo DEF SetTags, ToRetag
<1>8. CASE Decide(a)
  BY <1>8, GoesTo DEF Decide, ToSupersede
<1>9. CASE Supersede(a)
  BY <1>9, GoesTo DEF Supersede, ToSupersede
<1>10. QED
  BY <1>1, <1>2, <1>3, <1>4, <1>5, <1>6, <1>7, <1>8, <1>9 DEF Effect

\* Where a check leads to.
LEMMA CheckGoesOn ==
  ASSUME TypeOK, NEW a \in Actions, Check(a)
  PROVE  /\ job[a].at = "check" /\ job'[a].at \in {"check", "block", "write", "read", "retag", "decide"}
         /\ vault' = vault /\ index' = index /\ cut' = cut /\ status' = status
<1>1. Begins(a).at \in {"write", "read", "retag", "decide"}
  BY DEF Begins, At
<1>2. QED
  BY <1>1, GoesTo DEF Check, Here, Reads, notes, failures, At

\* The jobs of the last steps.
LEMMA RecordGoesOn ==
  ASSUME TypeOK, NEW a \in Actions, Record(a)
  PROVE  /\ job[a].at = "record" /\ vault' = vault /\ index' = index /\ cut' = cut
         /\ Affected(a) = {} => job'[a].at = "idle"
         /\ Affected(a) # {} => job'[a].at = "reload" /\ job'[a].reload = Affected(a)
BY GoesTo DEF Record, Here, notes, failures, ToReload, Idle, At

LEMMA PopGoesOn ==
  ASSUME TypeOK, NEW a \in Actions, Pop(a)
  PROVE  /\ job[a].at = "reload" /\ job'[a].at = "load" /\ job'[a].reload = job[a].reload
         /\ vault' = vault /\ cut' = cut /\ Head(job'[a].todo) \in job[a].reload
         /\ Head(job'[a].todo) \in Items /\ index' = Popped(index, Head(job'[a].todo))
<1>1. PICK x \in job[a].reload : /\ index' = Popped(index, x)
                                 /\ job' = [job EXCEPT ![a].at = "load", ![a].todo = <<x>>]
  BY DEF Pop, FirstPaths
<1>2. x \in Items
  BY LoopType
<1> DEFINE j == [job[a] EXCEPT !.at = "load", !.todo = <<x>>]
<1>3. j.at = "load" /\ j.reload = job[a].reload /\ Head(j.todo) = x /\ job' = [job EXCEPT ![a] = j]
  BY <1>1, <1>2, PopJob
<1> HIDE DEF j
<1>4. job'[a] = j
  BY <1>3 DEF TypeOK
<1>5. QED
  BY <1>1, <1>2, <1>3, <1>4 DEF Pop, Here, notes, failures

LEMMA LoadGoesOn ==
  ASSUME TypeOK, NEW a \in Actions, Placed(a), Load(a)
  PROVE  LET x == Head(job[a].todo)  paths == job[a].reload \ {x} IN
         /\ job[a].at = "load" /\ x \in job[a].reload /\ x \in Items
         /\ vault' = vault /\ cut' = cut /\ index' = Loaded(index, x)
         /\ paths = {} => job'[a].at = "idle"
         /\ paths # {} => job'[a].at = "reload" /\ job'[a].reload = paths
<1> DEFINE x == Head(job[a].todo)
           paths == job[a].reload \ {x}
<1>1. job[a].at = "load" /\ x \in job[a].reload
  BY DEF Load, Here, Placed
<1>2. x \in Items
  BY <1>1, LoopType
<1>3. job'[a] = ToReload(paths)
  BY GoesTo DEF Load
<1> HIDE DEF paths
<1>4. /\ paths = {} => ToReload(paths).at = "idle"
      /\ paths # {} => ToReload(paths).at = "reload" /\ ToReload(paths).reload = paths
  BY DEF ToReload, Idle, At
<1>5. QED
  BY <1>1, <1>2, <1>3, <1>4 DEF Load, Here, notes, failures, paths

\* What a torn write leaves of the tombstones and of the decisions.
LEMMA TornEffect ==
  ASSUME TypeOK, NEW a \in Actions, Placed(a), Torn(a)
  PROVE  vault'.tomb = vault.tomb /\ vault'.decided = vault.decided
BY DEF TypeOK, Shelves, Torn, notes

-----------------------------------------------------------------------------
\* Nobody runs beside another one unseen.

LEMMA SoloStep ==
  ASSUME plan' = plan, overlapped' = overlapped, Running' \subseteq Running, Solo, SoloDecider
  PROVE  Solo' /\ SoloDecider'
BY DEF Solo, SoloDecider, OneDecides

LEMMA SoloApply ==
  ASSUME TypeOK, NEW a \in Actions, Apply(a), Solo, SoloDecider
  PROVE  Solo' /\ SoloDecider'
BY GoesTo DEF Apply, Running, Solo, OneDecides, SoloDecider

LEMMA SoloStepOf ==
  ASSUME TypeOK, NEW a \in Actions, Step(a), Solo, SoloDecider
  PROVE  Solo' /\ SoloDecider'
BY StepFrame, SoloStep DEF Running

LEMMA SoloFails ==
  ASSUME TypeOK, NEW a \in Actions, StorageFails(a), Solo, SoloDecider
  PROVE  Solo' /\ SoloDecider'
BY GoesTo, SoloStep DEF StorageFails, Running, history

LEMMA SoloCrash ==
  ASSUME TypeOK, Crash, Solo, SoloDecider
  PROVE  Solo' /\ SoloDecider'
BY IdleJob, SoloStep DEF Crash, Running, history

-----------------------------------------------------------------------------
\* The index is behind only where an apply is going to reload it.

LEMMA PendingFrame ==
  ASSUME plan' = plan, NEW b, job'[b] = job[b]
  PROVE  Pending(b)' = Pending(b)
BY PlanFrame DEF Pending

LEMMA SameFrame ==
  ASSUME vault' = vault, index' = index
  PROVE  \A x \in Items : Same(x)' <=> Same(x)
BY DEF Same

\* What a step of one apply must show.
LEMMA ShelvesStep ==
  ASSUME ShelvesAgree, NEW a \in Actions, plan' = plan, overlapped' = {} => overlapped = {},
         ~cut' => ~cut, \A b \in Actions : b # a => job'[b] = job[b],
         \A x \in Items : Same(x) \/ x \in Pending(a) => Same(x)' \/ x \in Pending(a)'
  PROVE  ShelvesAgree'
BY PendingFrame DEF ShelvesAgree

LEMMA ShelvesApply ==
  ASSUME TypeOK, NEW a \in Actions, Apply(a), ShelvesAgree, Dropped
  PROVE  ShelvesAgree' /\ Dropped'
<1>1. /\ plan' = plan /\ vault' = vault /\ index' = index /\ cut' = cut
      /\ overlapped' = {} => overlapped = {}
      /\ job[a].at = "idle" /\ job'[a].at = "check"
      /\ \A b \in Actions : b # a => job'[b] = job[b]
  BY GoesTo DEF Apply, notes, failures, Running, At
<1>2. Pending(a) = {}
  BY <1>1 DEF Pending
<1>3. ShelvesAgree'
  BY <1>1, <1>2, SameFrame, ShelvesStep
<1>4. Dropped'
  BY <1>1 DEF Dropped
<1>5. QED
  BY <1>3, <1>4

\* What an effect changes, it is going to reload.
LEMMA SameEffect ==
  ASSUME TypeOK, NEW a \in Actions, Placed(a), Effect(a), NEW x \in Items, x \notin Affected(a), Same(x)
  PROVE  Same(x)'
<1>1. index' = index /\ index \in Shelves /\ vault \in Shelves
  BY EffectGoesOn DEF TypeOK
<1>2. CASE UNCHANGED vault
  BY <1>1, <1>2, SameFrame
<1>3. CASE WriteConcept(a)
  <2>1. x # <<"active", plan[a].target>>
    BY <1>3, WriteEffect, AffectedLemma
  <2>2. x[1] = "active" => x[2] # plan[a].target /\ x[2] \in Concepts
    BY <2>1, ItemLemma
  <2>3. /\ vault'.active = vault.active \cup {plan[a].target}
        /\ vault'.aliases = [vault.aliases EXCEPT ![plan[a].target] = job[a].got]
        /\ vault'.tomb = vault.tomb /\ vault'.decided = vault.decided
    BY <1>3, WriteEffect
  <2>4. QED
    BY <1>1, <2>2, <2>3 DEF Same, Shelves
<1>4. CASE DeleteSource(a)
  <2> DEFINE c == Head(job[a].todo)
  <2>0. plan[a].kind = "merge" /\ c \in Sources(a)
    BY <1>4, DeleteEffect
  <2>5. \A k \in Sources(a) : x # <<"active", k>>
    BY <2>0, MergePaths
  <2>1. x # <<"active", c>>
    BY <2>0, <2>5
  <2>2. x[1] = "active" => x[2] # c /\ x[2] \in Concepts
    BY <2>1, ItemLemma
  <2>3. /\ vault'.active = vault.active \ {c}
        /\ vault'.aliases = [vault.aliases EXCEPT ![c] = {}]
        /\ vault'.tomb = vault.tomb /\ vault'.decided = vault.decided
    BY <1>4, DeleteEffect
  <2> HIDE DEF c
  <2>4. QED
    BY <1>1, <2>2, <2>3 DEF Same, Shelves
<1>5. CASE Bury(a)
  <2> DEFINE c == Head(job[a].todo)
  <2>0. plan[a].kind = "merge" /\ c \in Sources(a)
    BY <1>5, BuryEffect
  <2>5. \A k \in Sources(a) : x # <<"merged", k>>
    BY <2>0, MergePaths
  <2>1. x # <<"merged", c>>
    BY <2>0, <2>5
  <2>2. x[1] = "merged" => x[2] # c /\ x[2] \in Concepts
    BY <2>1, ItemLemma
  <2>3. /\ vault'.active = vault.active /\ vault'.aliases = vault.aliases
        /\ vault'.tomb = [vault.tomb EXCEPT ![c] = plan[a].target]
        /\ vault'.decided = vault.decided
    BY <1>5, BuryEffect
  <2> HIDE DEF c
  <2>4. QED
    BY <1>1, <2>2, <2>3 DEF Same, Shelves
<1>6. CASE Decide(a)
  <2>1. x # <<"decided", plan[a].decision>>
    BY <1>6, DecideEffect, AffectedLemma
  <2>2. x[1] = "decided" => x[2] # plan[a].decision /\ x[2] \in Decisions
    BY <2>1, ItemLemma
  <2>3. QED
    BY <1>1, <1>6, <2>2, DecideEffect DEF Same, Shelves
<1>7. CASE Supersede(a)
  <2> DEFINE d == Head(job[a].todo)
  <2>1. x # <<"decided", d>>
    BY <1>7, SupersedeEffect, AffectedLemma
  <2>2. x[1] = "decided" => x[2] # d /\ x[2] \in Decisions
    BY <2>1, ItemLemma
  <2>3. /\ vault'.active = vault.active /\ vault'.aliases = vault.aliases
        /\ vault'.tomb = vault.tomb
        /\ vault'.decided = [vault.decided EXCEPT ![d] = "superseded"]
    BY <1>7, SupersedeEffect
  <2> HIDE DEF d
  <2>4. QED
    BY <1>1, <2>2, <2>3 DEF Same, Shelves
<1>8. ReadConcept(a) \/ ListGarden(a) \/ ReadTags(a) \/ SetTags(a) => UNCHANGED vault
  BY DEF ReadConcept, ListGarden, ReadTags, SetTags, Reads, notes
<1>9. QED
  BY <1>2, <1>3, <1>4, <1>5, <1>6, <1>7, <1>8 DEF Effect

LEMMA ShelvesEffect ==
  ASSUME TypeOK, NEW a \in Actions, Placed(a), Effect(a), ShelvesAgree, Dropped
  PROVE  ShelvesAgree' /\ Dropped'
BY StepFrame, EffectGoesOn, PlanFrame, SameEffect, ShelvesStep DEF Effect, Step, Effects, Pending, Dropped

LEMMA ShelvesCheck ==
  ASSUME TypeOK, NEW a \in Actions, Check(a) \/ Block(a) \/ Record(a), ShelvesAgree, Dropped
  PROVE  ShelvesAgree' /\ Dropped'
<1>1. /\ plan' = plan /\ overlapped' = overlapped /\ (~cut' => ~cut)
      /\ \A b \in Actions : b # a => job'[b] = job[b]
  BY StepFrame DEF Step
<1>2. vault' = vault /\ index' = index /\ job'[a].at # "load"
  BY CheckGoesOn, GoesTo, IdleJob, RecordGoesOn DEF Block, notes
<1>3. Pending(a) \subseteq Pending(a)'
  BY CheckGoesOn, RecordGoesOn DEF Block, Here, Pending
<1>4. ShelvesAgree'
  BY <1>1, <1>2, <1>3, SameFrame, ShelvesStep
<1>5. Dropped'
  BY <1>1, <1>2 DEF Dropped
<1>6. QED
  BY <1>4, <1>5

\* A path that is dropped stays to be reloaded.
LEMMA ShelvesPop ==
  ASSUME TypeOK, NEW a \in Actions, Pop(a), Solo, ShelvesAgree, Dropped
  PROVE  ShelvesAgree' /\ Dropped'
<1> DEFINE x == Head(job'[a].todo)
           i == Popped(index, x)
<1>1. /\ plan' = plan /\ overlapped' = overlapped /\ (~cut' => ~cut) /\ a \in Running
      /\ \A b \in Actions : b # a => job'[b] = job[b]
  BY StepFrame DEF Step
<1>2. /\ job[a].at = "reload" /\ job'[a].at = "load" /\ job'[a].reload = job[a].reload
      /\ vault' = vault /\ x \in job[a].reload /\ x \in Items /\ index' = i
  BY PopGoesOn
<1>3. index \in Shelves /\ vault \in Shelves
  BY DEF TypeOK
<1>4. Pending(a) = job[a].reload /\ Pending(a)' = job[a].reload
  BY <1>2 DEF Pending
<1>5. /\ x[1] = "active" =>
              /\ i.active = index.active \ {x[2]}
              /\ i.aliases = [index.aliases EXCEPT ![x[2]] = {}]
              /\ i.tomb = index.tomb /\ i.decided = index.decided
      /\ x[1] = "merged" =>
              /\ i.active = index.active /\ i.aliases = index.aliases /\ i.decided = index.decided
              /\ i.tomb = [index.tomb EXCEPT ![x[2]] = None]
      /\ x[1] = "decided" =>
              /\ i.active = index.active /\ i.aliases = index.aliases /\ i.tomb = index.tomb
              /\ i.decided = [index.decided EXCEPT ![x[2]] = None]
  BY <1>2, PoppedEffect
<1> HIDE DEF i
<1>6. ASSUME NEW y \in Items, y # x, Same(y)
      PROVE  Same(y)'
  BY <1>2, ItemLemma, <1>6, <1>3, <1>5 DEF Same, Shelves
<1>7. ShelvesAgree'
  BY <1>1, <1>2, <1>4, <1>6, ShelvesStep
<1>8. overlapped = {} => \A b \in Actions : b # a => job'[b].at = "idle"
  BY <1>1 DEF Solo, Running
<1>9. x[1] = "active" => x[2] \notin index'.active
  BY <1>2, <1>5
<1>10. Dropped'
  BY <1>1, <1>2, <1>8, <1>9 DEF Dropped
<1>11. QED
  BY <1>7, <1>10

\* A path that is read is as the note is.
LEMMA ShelvesLoad ==
  ASSUME TypeOK, NEW a \in Actions, Placed(a), Load(a), Solo, ShelvesAgree, Dropped
  PROVE  ShelvesAgree' /\ Dropped'
<1>0. PICK x : x = Head(job[a].todo)
  OBVIOUS
<1> DEFINE paths == job[a].reload \ {x}
           i == Loaded(index, x)
<1>1. /\ plan' = plan /\ overlapped' = overlapped /\ (~cut' => ~cut) /\ a \in Running
      /\ \A b \in Actions : b # a => job'[b] = job[b]
  BY StepFrame DEF Step
<1>2. /\ job[a].at = "load" /\ x \in job[a].reload /\ x \in Items
      /\ vault' = vault /\ cut' = cut /\ index' = i
      /\ paths = {} => job'[a].at = "idle"
      /\ paths # {} => job'[a].at = "reload" /\ job'[a].reload = paths
  BY <1>0, LoadGoesOn
<1>3. index \in Shelves /\ vault \in Shelves
  BY DEF TypeOK
<1> HIDE DEF paths
<1>4. Pending(a) = job[a].reload /\ Pending(a)' = paths
  BY <1>2 DEF Pending
<1>5. /\ x[1] = "active" =>
              /\ i.active = index.active \cup ({x[2]} \cap vault.active)
              /\ i.aliases = [index.aliases EXCEPT ![x[2]] = vault.aliases[x[2]]]
              /\ i.tomb = index.tomb /\ i.decided = index.decided
      /\ x[1] = "merged" =>
              /\ i.active = index.active /\ i.aliases = index.aliases /\ i.decided = index.decided
              /\ i.tomb = [index.tomb EXCEPT ![x[2]] = vault.tomb[x[2]]]
      /\ x[1] = "decided" =>
              /\ i.active = index.active /\ i.aliases = index.aliases /\ i.tomb = index.tomb
              /\ i.decided = [index.decided EXCEPT ![x[2]] = vault.decided[x[2]]]
  BY <1>2, LoadedEffect
<1>6. overlapped = {} /\ x[1] = "active" => x[2] \notin index.active
  BY <1>0, <1>2 DEF Dropped
<1>14. /\ x = <<x[1], x[2]>> /\ x[1] \in {"active", "merged", "decided"}
       /\ x[1] \in {"active", "merged"} => x[2] \in Concepts
       /\ x[1] = "decided" => x[2] \in Decisions
  BY <1>2, ItemLemma
<1> HIDE DEF i
<1>7. ASSUME overlapped = {}
      PROVE  Same(x)'
  BY <1>2, <1>3, <1>5, <1>6, <1>7, <1>14 DEF Same, Shelves
<1>8. ASSUME NEW y \in Items, y # x, Same(y)
      PROVE  Same(y)'
  BY ItemLemma, <1>8, <1>14, <1>2, <1>3, <1>5 DEF Same, Shelves
<1>9. overlapped = {} => \A y \in Items : Same(y) \/ y \in Pending(a) => Same(y)' \/ y \in Pending(a)'
  BY <1>4, <1>7, <1>8 DEF paths
<1>10. overlapped = {} => ShelvesAgree'
  BY <1>1, <1>9, ShelvesStep
<1>11. overlapped # {} => ShelvesAgree'
  BY <1>1 DEF ShelvesAgree
<1>12. Dropped'
  BY <1>2, <1>1 DEF Solo, Running, Dropped
<1>13. QED
  BY <1>10, <1>11, <1>12

\* A failure cuts the apply short; a restart reads the vault anew.
LEMMA ShelvesFail ==
  ASSUME TypeOK, NEW a \in Actions, Fail(a) \/ StorageFails(a), Dropped
  PROVE  ShelvesAgree' /\ Dropped'
BY GoesTo, IdleJob DEF Fail, StorageFails, history, At, ShelvesAgree, Dropped

LEMMA ShelvesCrash ==
  ASSUME TypeOK, Crash
  PROVE  ShelvesAgree' /\ Dropped'
BY IdleJob DEF Crash, Same, ShelvesAgree, Dropped

LEMMA ShelvesStepOf ==
  ASSUME TypeOK, NEW a \in Actions, Placed(a), Step(a), Solo, ShelvesAgree, Dropped
  PROVE  ShelvesAgree' /\ Dropped'
BY ShelvesCheck, ShelvesEffect, ShelvesPop, ShelvesLoad, ShelvesFail DEF Step, Effect

-----------------------------------------------------------------------------
\* The decisions that are in force.

\* The places where a create-decision has superseded some of what it supersedes.
Passed == {"record", "reload", "load", "supersede"}

LEMMA OverOthers ==
  ASSUME OverIsOver, plan' = plan, OneDecides' => OneDecides, vault'.decided = vault.decided,
         NEW a, \A b \in Actions : b # a => job'[b] = job[b],
         job'[a].at \notin Passed \/ plan[a].kind # "decide"
  PROVE  OverIsOver'
BY DEF Superseded, OverIsOver, Passed

LEMMA DecisionsStay ==
  ASSUME DecisionsAgree, plan' = plan, OneDecides' => OneDecides, ~cut' => ~cut,
         vault'.decided = vault.decided, index'.decided = index.decided,
         NEW a \in Actions, \A b \in Actions : b # a => job'[b] = job[b],
         Pending(a) \subseteq Pending(a)'
  PROVE  DecisionsAgree'
BY PendingFrame DEF Superseded, BehindBy, DecisionsAgree

LEMMA DecisionsApply ==
  ASSUME TypeOK, NEW a \in Actions, Apply(a), OverIsOver, DecisionsAgree
  PROVE  OverIsOver' /\ DecisionsAgree'
<1>1. /\ plan' = plan /\ vault' = vault /\ index' = index /\ cut' = cut
      /\ job[a].at = "idle" /\ job'[a].at = "check" /\ overlapped \subseteq overlapped'
      /\ \A b \in Actions : b # a => job'[b] = job[b]
  BY GoesTo DEF Apply, notes, failures, Running, At
<1>2. OneDecides' => OneDecides
  BY <1>1 DEF OneDecides
<1>3. Pending(a) = {}
  BY <1>1 DEF Pending
<1>4. job'[a].at \notin Passed
  BY <1>1 DEF Passed
<1>5. QED
  BY <1>1, <1>2, <1>3, <1>4, OverOthers, DecisionsStay

\* The steps that touch no decision.
LEMMA DecisionsEffect ==
  ASSUME TypeOK, NEW a \in Actions, Placed(a), Effect(a), ~Decide(a), ~Supersede(a),
         OverIsOver, DecisionsAgree
  PROVE  OverIsOver' /\ DecisionsAgree'
<1>1. /\ plan' = plan /\ overlapped' = overlapped /\ (~cut' => ~cut)
      /\ \A b \in Actions : b # a => job'[b] = job[b]
  BY StepFrame DEF Effect, Step
<1>2. index' = index /\ job[a].at \in Effects /\ job'[a].at \in Effects \cup {"record", "fail"}
  BY EffectGoesOn
<1>3. vault'.decided = vault.decided
  <2>1. ReadConcept(a) \/ ListGarden(a) \/ ReadTags(a) \/ SetTags(a) => UNCHANGED vault
    BY DEF ReadConcept, ListGarden, ReadTags, SetTags, Reads, notes
  <2>2. QED
    BY <2>1, WriteEffect, DeleteEffect, BuryEffect DEF Effect
<1>4. plan[a].kind # "decide"
  BY DEF Effect, ReadConcept, WriteConcept, DeleteSource, Bury, ListGarden, ReadTags, SetTags, Here,
         Placed
<1>5. OneDecides' => OneDecides
  BY <1>1 DEF OneDecides
<1>6. Pending(a) = Affected(a) /\ Pending(a)' = Affected(a)
  BY <1>1, <1>2, PlanFrame DEF Pending, Effects
<1>7. QED
  BY <1>1, <1>2, <1>3, <1>4, <1>5, <1>6, OverOthers, DecisionsStay

LEMMA DecisionsCheck ==
  ASSUME TypeOK, NEW a \in Actions, Check(a) \/ Block(a), OverIsOver, DecisionsAgree
  PROVE  OverIsOver' /\ DecisionsAgree'
<1>1. /\ plan' = plan /\ overlapped' = overlapped /\ (~cut' => ~cut)
      /\ \A b \in Actions : b # a => job'[b] = job[b]
  BY StepFrame DEF Step
<1>2. /\ vault' = vault /\ index' = index /\ job[a].at \in {"check", "block"}
      /\ job'[a].at \notin Passed
  BY CheckGoesOn, GoesTo, IdleJob DEF Block, Here, notes, Passed
<1>3. OneDecides' => OneDecides
  BY <1>1 DEF OneDecides
<1>4. Pending(a) = {}
  BY <1>2 DEF Pending
<1>5. QED
  BY <1>1, <1>2, <1>3, <1>4, OverOthers, DecisionsStay

LEMMA DecisionsRecord ==
  ASSUME TypeOK, NEW a \in Actions, Record(a), OverIsOver, DecisionsAgree
  PROVE  OverIsOver' /\ DecisionsAgree'
BY StepFrame, RecordGoesOn, DecisionsStay DEF Step, OneDecides, Pending, Superseded, OverIsOver

\* A decision is made, or superseded: nobody else decides meanwhile.
LEMMA DecisionsDecide ==
  ASSUME TypeOK, NEW a \in Actions, \A b \in Actions : Placed(b), Decide(a) \/ Supersede(a), SoloDecider,
         OverIsOver, DecisionsAgree
  PROVE  OverIsOver' /\ DecisionsAgree'
<1>1. /\ plan' = plan /\ overlapped' = overlapped /\ (~cut' => ~cut) /\ a \in Running
      /\ \A b \in Actions : b # a => job'[b] = job[b]
  BY StepFrame DEF Step
<1>2. index' = index /\ job[a].at \in Effects /\ job'[a].at \in Effects \cup {"record", "fail"}
  BY EffectGoesOn DEF Effect
<1>3. OneDecides' => OneDecides
  BY <1>1 DEF OneDecides
<1>4. Pending(a) = Affected(a) /\ Pending(a)' = Affected(a)
  BY <1>1, <1>2, PlanFrame DEF Pending, Effects
<1>5. PICK d, s : /\ plan[a].kind = "decide" /\ d \in {plan[a].decision} \cup ToSet(plan[a].over)
                  /\ d \in Decisions /\ vault'.decided = [vault.decided EXCEPT ![d] = s]
                  /\ d = plan[a].decision \/ s = "superseded"
                  /\ Decide(a) => job[a].todo = plan[a].over /\ d = plan[a].decision
                  /\ Supersede(a) => d = Head(job[a].todo) /\ s = "superseded"
  <2>1. CASE Decide(a)
    <3>1. /\ plan[a].kind = "decide" /\ plan[a].decision \in Decisions
          /\ vault'.decided = [vault.decided EXCEPT ![plan[a].decision] = "active"]
      BY <2>1, DecideEffect
    <3>2. job[a].todo = plan[a].over /\ job[a].at = "decide"
      BY <2>1 DEF Decide, Here, Placed
    <3>3. ~Supersede(a)
      BY <3>2 DEF Supersede, Here
    <3>4. QED
      BY <3>1, <3>2, <3>3
  <2>2. CASE Supersede(a)
    BY <2>2, SupersedeEffect DEF Decide, Supersede, Here
  <2>3. QED
    BY <2>1, <2>2
<1>6. vault.decided \in [Decisions -> {"active", "superseded", None}]
  BY DEF TypeOK, Shelves
<1>7. \A e \in Decisions : e # d => vault'.decided[e] = vault.decided[e]
  BY <1>5, <1>6
<1>8. \A e : Superseded(a, e) /\ e \in Decisions => Superseded(a, e)'
  BY <1>1, <1>5, <1>6 DEF Superseded
<1>9. ASSUME OneDecides, NEW b \in Actions, b # a, plan[b].kind = "decide"
      PROVE  job[b].at = "idle"
  BY <1>1, <1>5, <1>9 DEF SoloDecider, Running
<1>10. OverIsOver'
  <2>1. SUFFICES ASSUME OneDecides
                 PROVE  /\ job'[a].at \in {"record", "reload", "load"} =>
                             \A e \in ToSet(plan[a].over) : Superseded(a, e)'
                        /\ job'[a].at = "supersede" =>
                             \A e \in ToSet(plan[a].over) \ ToSet(job'[a].todo) : Superseded(a, e)'
    BY <1>1, <1>3, <1>9 DEF OverIsOver
  <2>2. ToSet(plan[a].over) \subseteq Decisions
    BY <1>5, PlanLemma
  <2>3. CASE Decide(a)
    BY <1>5, <2>3, GoesTo, PlanLemma, Members DEF Decide, ToSupersede, At
  <2>4. CASE Supersede(a)
    <3>1. job[a].at = "supersede" /\ job[a].todo # <<>> /\ job'[a] = ToSupersede(Rest(a))
      BY <2>4, GoesTo DEF Supersede, Here, Placed
    <3>2. \A e \in ToSet(plan[a].over) \ ToSet(job[a].todo) : Superseded(a, e)
      BY <1>5, <2>1, <3>1 DEF OverIsOver
    <3>3. /\ ToSet(job[a].todo) = {d} \cup ToSet(Rest(a))
          /\ Rest(a) = <<>> => ToSet(Rest(a)) = {}
      BY <1>5, <2>4, <3>1, LoopHead
    <3>4. Superseded(a, d)'
      BY <1>5, <1>6, <2>4 DEF Superseded
    <3>5. \A e \in ToSet(plan[a].over) \ ToSet(Rest(a)) : Superseded(a, e)'
      BY <1>8, <2>2, <3>2, <3>3, <3>4
    <3>6. CASE Rest(a) = <<>>
      BY <3>1, <3>6, <3>3, <3>5 DEF ToSupersede, At
    <3>7. CASE Rest(a) # <<>>
      BY <3>1, <3>7, <3>5 DEF ToSupersede, At
    <3>8. QED
      BY <3>6, <3>7
  <2>5. QED
    BY <2>3, <2>4
<1>11. DecisionsAgree'
  <2>1. SUFFICES ASSUME ~cut, OneDecides, NEW e \in Decisions
                 PROVE  \/ index'.decided[e] = vault'.decided[e]
                        \/ \E b \in Actions : BehindBy(b, e)'
    BY <1>1, <1>3 DEF DecisionsAgree
  <2>2. CASE e = d
    BY <1>5, <1>4, <1>1, <1>6, <2>2 DEF Affected, Superseded, BehindBy
  <2>3. CASE e # d
    <3>1. index.decided[e] = vault.decided[e] \/ \E b \in Actions : BehindBy(b, e)
      BY <2>1 DEF DecisionsAgree
    <3>2. CASE index.decided[e] = vault.decided[e]
      BY <1>2, <1>7, <2>3, <3>2
    <3>3. ASSUME NEW b \in Actions, BehindBy(b, e)
          PROVE  BehindBy(a, e)'
      <4>1. b = a
        BY <1>9, <2>1, <3>3 DEF BehindBy, Pending
      <4>2. Superseded(a, e)'
        BY <1>8, <3>3, <4>1 DEF BehindBy
      <4>3. QED
        BY <1>1, <1>4, <1>5, <3>3, <4>1, <4>2 DEF BehindBy
    <3>4. QED
      BY <3>1, <3>2, <3>3
  <2>4. QED
    BY <2>2, <2>3
<1>12. QED
  BY <1>10, <1>11

\* A path that is dropped from the index was superseded, or is of the decision that is made.
LEMMA DecisionsPop ==
  ASSUME TypeOK, NEW a \in Actions, Placed(a), Pop(a), OverIsOver, DecisionsAgree
  PROVE  OverIsOver' /\ DecisionsAgree'
<1>1. /\ plan' = plan /\ overlapped' = overlapped /\ (~cut' => ~cut)
      /\ \A b \in Actions : b # a => job'[b] = job[b]
  BY StepFrame DEF Step
<1>2. PICK x \in Items : /\ job[a].at = "reload" /\ job'[a].at = "load" /\ job'[a].reload = job[a].reload
                         /\ vault' = vault /\ x \in job[a].reload /\ index' = Popped(index, x)
  BY PopGoesOn
<1>3. OneDecides' => OneDecides
  BY <1>1 DEF OneDecides
<1>4. Pending(a) = job[a].reload /\ Pending(a)' = job[a].reload
  BY <1>2 DEF Pending
<1>5. \A b \in Actions : \A d : Superseded(b, d)' <=> Superseded(b, d)
  BY <1>1, <1>2 DEF Superseded
<1>6. OverIsOver'
  BY <1>1, <1>2, <1>3, <1>5 DEF OverIsOver
<1>7. \A b \in Actions : Pending(b)' = Pending(b)
  BY <1>1, <1>4, PendingFrame
<1>8. \A b \in Actions : \A d : BehindBy(b, d)' <=> BehindBy(b, d)
  BY <1>1, <1>5, <1>7 DEF BehindBy
<1>9. index.decided \in [Decisions -> {"active", "superseded", None}]
  BY DEF TypeOK, Shelves
<1>10. DecisionsAgree'
  <2>1. SUFFICES ASSUME ~cut, OneDecides, NEW d \in Decisions,
                        ~\E b \in Actions : BehindBy(b, d)
                 PROVE  index'.decided[d] = vault'.decided[d]
    BY <1>1, <1>3, <1>8 DEF DecisionsAgree
  <2>2. index.decided[d] = vault.decided[d]
    BY <2>1 DEF DecisionsAgree
  <2>3. x # <<"decided", d>>
    <3>1. SUFFICES ASSUME x = <<"decided", d>>
                   PROVE  FALSE
      OBVIOUS
    <3>2. x \in Affected(a) /\ x[1] = "decided" /\ x[2] = d
      BY <1>2, <3>1 DEF Placed
    <3>3. plan[a].kind = "decide" /\ d \in {plan[a].decision} \cup ToSet(plan[a].over)
      BY <3>2, AffectedLemma
    <3>4. Superseded(a, d)
      BY <1>2, <2>1, <3>3 DEF OverIsOver, Superseded
    <3>5. QED
      BY <1>2, <1>4, <2>1, <3>1, <3>3, <3>4 DEF BehindBy
  <2>4. x[1] = "decided" => x[2] # d /\ x[2] \in Decisions
    BY <2>3, ItemLemma
  <2>5. index'.decided[d] = index.decided[d]
    BY <1>2, <1>9, <2>4, PoppedEffect, ItemLemma
  <2>6. QED
    BY <1>2, <2>2, <2>5
<1>11. QED
  BY <1>6, <1>10

LEMMA DecisionsLoad ==
  ASSUME TypeOK, NEW a \in Actions, Placed(a), Load(a), OverIsOver, DecisionsAgree
  PROVE  OverIsOver' /\ DecisionsAgree'
<1>1. /\ plan' = plan /\ overlapped' = overlapped /\ (~cut' => ~cut)
      /\ \A b \in Actions : b # a => job'[b] = job[b]
  BY StepFrame DEF Step
<1>2. PICK x \in Items : /\ job[a].at = "load" /\ vault' = vault /\ index' = Loaded(index, x)
                         /\ job[a].reload \ {x} = {} => job'[a].at = "idle"
                         /\ job[a].reload \ {x} # {} => /\ job'[a].at = "reload"
                                                        /\ job'[a].reload = job[a].reload \ {x}
  BY LoadGoesOn
<1>3. OneDecides' => OneDecides
  BY <1>1 DEF OneDecides
<1>4. Pending(a) = job[a].reload /\ Pending(a)' = job[a].reload \ {x}
  BY <1>2 DEF Pending
<1>5. \A b \in Actions : \A d : Superseded(b, d)' <=> Superseded(b, d)
  BY <1>1, <1>2 DEF Superseded
<1>6. OverIsOver'
  BY <1>1, <1>2, <1>3, <1>5 DEF OverIsOver
<1>7. \A b \in Actions : b # a => Pending(b)' = Pending(b)
  BY <1>1, PendingFrame
<1>8. index.decided \in [Decisions -> {"active", "superseded", None}]
  BY DEF TypeOK, Shelves
<1>9. DecisionsAgree'
  <2>1. SUFFICES ASSUME ~cut, OneDecides, NEW d \in Decisions
                 PROVE  \/ index'.decided[d] = vault'.decided[d]
                        \/ \E b \in Actions : BehindBy(b, d)'
    BY <1>1, <1>3 DEF DecisionsAgree
  <2>2. CASE x = <<"decided", d>>
    BY <2>2, <1>2, LoadedEffect, <1>8
  <2>3. CASE x # <<"decided", d>>
    <3>1. x[1] = "decided" => x[2] # d /\ x[2] \in Decisions
      BY <2>3, ItemLemma
    <3>2. index'.decided[d] = index.decided[d]
      BY <1>2, <1>8, <3>1, LoadedEffect, ItemLemma
    <3>3. \A b \in Actions : BehindBy(b, d) => BehindBy(b, d)'
      BY <1>1, <1>4, <1>5, <1>7, <2>3 DEF BehindBy
    <3>4. QED
      BY <1>2, <2>1, <3>2, <3>3 DEF DecisionsAgree
  <2>4. QED
    BY <2>2, <2>3
<1>10. QED
  BY <1>6, <1>9

LEMMA DecisionsFail ==
  ASSUME TypeOK, NEW a \in Actions, Placed(a), Fail(a) \/ StorageFails(a), OverIsOver
  PROVE  OverIsOver' /\ DecisionsAgree'
<1>1. cut' = TRUE /\ plan' = plan /\ overlapped' = overlapped
  BY DEF Fail, StorageFails, history
<1>2. job'[a].at \notin Passed /\ \A b \in Actions : b # a => job'[b] = job[b]
  BY GoesTo, IdleJob DEF Fail, StorageFails, At, Passed
<1>3. vault'.decided = vault.decided
  BY TornEffect DEF Fail, StorageFails, notes
<1>4. OneDecides' => OneDecides
  BY <1>1 DEF OneDecides
<1>5. QED
  BY <1>1, <1>2, <1>3, <1>4, OverOthers DEF DecisionsAgree

LEMMA DecisionsCrash ==
  ASSUME TypeOK, Crash
  PROVE  OverIsOver' /\ DecisionsAgree'
BY IdleJob DEF Crash, OverIsOver, DecisionsAgree

LEMMA DecisionsStepOf ==
  ASSUME TypeOK, NEW a \in Actions, \A b \in Actions : Placed(b), Step(a), SoloDecider,
         OverIsOver, DecisionsAgree
  PROVE  OverIsOver' /\ DecisionsAgree'
<1>1. CASE Effect(a) /\ ~Decide(a) /\ ~Supersede(a)
  BY <1>1, DecisionsEffect
<1>2. QED
  BY <1>1, DecisionsCheck, DecisionsRecord, DecisionsDecide, DecisionsPop, DecisionsLoad,
     DecisionsFail DEF Step, Effect

\* A merge that begins is one that no decision in force forbids.
LEMMA ForbiddenStops ==
  ASSUME TypeOK, DecisionsAgree, NEW a \in Actions, Check(a), job'[a].at = "read", ~cut, OneDecides,
         NEW d \in Settled \cap InForce(vault)
  PROVE  ~\E c \in Sources(a) : Subjects[d] = {plan[a].target, c}
<1>1. job'[a] = Begins(a) /\ ~Forbidden(a)
  BY GoesTo DEF Check, At
<1>2. plan[a].kind = "merge"
  BY <1>1 DEF Begins, At
<1>3. d \in Decisions /\ vault.decided[d] = "active"
  BY DEF InForce
<1>4. ~\E b \in Actions : BehindBy(b, d)
  BY <1>3, NotesAssumption DEF BehindBy, Superseded, Settled, Pending
<1>5. index.decided[d] = "active"
  BY <1>3, <1>4 DEF DecisionsAgree
<1>6. QED
  BY <1>1, <1>2, <1>3, <1>5 DEF Forbidden, InForce

-----------------------------------------------------------------------------
\* The meaning of the vault, while no apply ran into another one.

LEMMA VaultFrame ==
  ASSUME plan' = plan, vault' = vault
  PROVE  /\ \A a, c : Passes(a, c)' = Passes(a, c) /\ NewAliases(a, c)' = NewAliases(a, c)
         /\ \A c : Gone(c)' = Gone(c)
         /\ \A n : Straight(n)' = Straight(n)
         /\ \A t, c : Meets(t, c)' = Meets(t, c)
         /\ \A a, ts : Retagged(a, ts)' = Retagged(a, ts)
<1>1. \A a : Sources(a)' = Sources(a)
  BY PlanFrame
<1>2. \A a, c : Passes(a, c)' = Passes(a, c) /\ NewAliases(a, c)' = NewAliases(a, c)
  BY DEF Passes, NewAliases
<1>3. \A n : Straight(n)' = Straight(n)
  BY DEF Straight, AliasHits
<1>4. \A a, ts : Retagged(a, ts)' = Retagged(a, ts)
  BY <1>1 DEF Retagged
<1>5. QED
  BY <1>2, <1>3, <1>4 DEF Gone, Meets

\* Where a concept leads to depends on what is active, and on the aliases.
LEMMA StraightFrame ==
  ASSUME vault'.active = vault.active, vault'.aliases = vault.aliases
  PROVE  /\ \A n : Straight(n)' = Straight(n)
         /\ \A t, c : Meets(t, c)' = Meets(t, c)
BY DEF AliasHits, Straight, Meets

LEMMA KeptFrame ==
  ASSUME Kept, plan' = plan, vault'.active = vault.active, vault'.aliases = vault.aliases,
         vault'.tomb = vault.tomb, tags' = tags, meant' = meant, ever' = ever,
         \A b \in Actions : status'[b] = "applied" => status[b] = "applied"
  PROVE  Kept'
BY PlanFrame, StraightFrame DEF Gone, Kept, Led, TagsKnown, Earned, Said

\* An apply that is not in the middle of its effect knows nothing.
LEMMA RestCalm ==
  ASSUME NEW b, job'[b].at \in {"idle", "block", "fail", "decide", "supersede", "reload", "load"}
  PROVE  CalmJob(b)'
BY DEF CalmJob

LEMMA DirectHit ==
  ASSUME NEW t, NEW c, Meets(t, c)
  PROVE  Resolve(vault, t) \cap Resolve(vault, c) # {}
BY DEF Meets, Straight, Resolve

LEMMA CalmApply ==
  ASSUME TypeOK, NEW a \in Actions, Apply(a), Kept
  PROVE  CalmJob(a)' /\ Kept'
BY GoesTo, PlanFrame, KeptFrame DEF Apply, notes, failures, At, CalmJob

LEMMA CalmCheck ==
  ASSUME TypeOK, NEW a \in Actions, Placed(a), Check(a), CalmJob(a), Kept
  PROVE  CalmJob(a)' /\ Kept'
<1>1. /\ plan' = plan /\ vault' = vault /\ tags' = tags /\ meant' = meant /\ ever' = ever
      /\ status' = status /\ job[a].at = "check"
  BY DEF Check, Here, Reads, notes, history
<1>2. Checks(a)' = Checks(a) /\ Sources(a)' = Sources(a)
  BY <1>1, PlanFrame
<1>3. \A c \in ToSet(Checks(a)) \ ToSet(job[a].todo) : Passes(a, c)
  BY <1>1 DEF CalmJob
<1>4. CASE job'[a] = At("block", <<>>, {})
  BY <1>4, RestCalm, <1>1, KeptFrame DEF At
<1>5. CASE job[a].todo # <<>> /\ Passes(a, Head(job[a].todo)) /\ job'[a] = At("check", Rest(a), {})
  <2>1. job'[a].at = "check" /\ job'[a].todo = Rest(a)
    BY <1>5 DEF At
  <2>2. ToSet(job[a].todo) = {Head(job[a].todo)} \cup ToSet(Rest(a))
    BY <1>5, LoopHead
  <2>3. \A c \in ToSet(Checks(a)) \ ToSet(Rest(a)) : Passes(a, c)
    BY <1>3, <1>5, <2>2
  <2>4. CalmJob(a)'
    BY <1>1, <1>2, <2>1, <2>3, VaultFrame DEF CalmJob
  <2>5. QED
    BY <1>1, <2>4, KeptFrame
<1>6. CASE job[a].todo = <<>> /\ job'[a] = Begins(a)
  <2>1. \A c \in ToSet(Checks(a)) : Passes(a, c)
    <3>1. ToSet(job[a].todo) = {}
      BY <1>6, EmptyLoop, Members
    <3>2. QED
      BY <1>3, <3>1
  <2>2. CASE plan[a].kind = "create"
    <3>1. job'[a].at = "write"
      BY <1>6, <2>2 DEF Begins, At
    <3>2. plan[a].target \in ToSet(Checks(a))
      BY <2>2, PlanLemma, Singles DEF Checks
    <3>3. plan[a].target \notin vault.active
      BY <2>1, <2>2, <3>2 DEF Passes
    <3>4. QED
      BY <1>1, <2>2, <3>1, <3>3, KeptFrame DEF CalmJob
  <2>3. CASE plan[a].kind = "merge"
    <3>1. job'[a].at = "read" /\ job'[a].todo = Checks(a)
      BY <1>6, <2>3 DEF Begins, At
    <3>2. ToSet(Checks(a)) = Sources(a) \cup {plan[a].target}
      BY <2>3, PlanLemma
    <3>3. Sources(a) \cup {plan[a].target} \subseteq vault.active
      BY <2>1, <2>3, <3>2 DEF Passes
    <3>4. CalmJob(a)'
      BY <1>1, <1>2, <2>3, <3>1, <3>3 DEF CalmJob
    <3>5. QED
      BY <1>1, <3>4, KeptFrame
  <2>4. CASE plan[a].kind = "retag"
    BY <1>6, <2>4, PlanLemma, <2>1, <1>1, KeptFrame DEF Begins, At, Passes, CalmJob
  <2>5. CASE plan[a].kind = "decide"
    BY <1>6, <2>5, <1>1, RestCalm, KeptFrame DEF Begins, At
  <2>6. QED
    BY <2>2, <2>3, <2>4, <2>5, PlanLemma
<1>7. QED
  BY <1>4, <1>5, <1>6, GoesTo DEF Check

LEMMA CalmRead ==
  ASSUME TypeOK, NEW a \in Actions, Placed(a), ReadConcept(a), CalmJob(a), Kept
  PROVE  CalmJob(a)' /\ Kept'
<1>0. PICK c : c = Head(job[a].todo)
  OBVIOUS
<1>1. /\ plan' = plan /\ vault' = vault /\ tags' = tags /\ meant' = meant /\ ever' = ever
      /\ status' = status /\ job[a].at = "read"
  BY DEF ReadConcept, Here, Reads, notes, history
<1>2. Checks(a)' = Checks(a) /\ Sources(a)' = Sources(a)
  BY <1>1, PlanFrame
<1>3. /\ plan[a].kind = "merge" /\ job[a].todo # <<>>
      /\ ToSet(Checks(a)) = Sources(a) \cup {plan[a].target}
  BY <1>1, PlanLemma DEF Placed
<1>4. /\ Sources(a) \cup {plan[a].target} \subseteq vault.active
      /\ \A k \in ToSet(Checks(a)) \ ToSet(job[a].todo) : NewAliases(a, k) \subseteq job[a].got
  BY <1>1, <1>3 DEF CalmJob
<1>5. PICK got : got = job[a].got \cup NewAliases(a, c)
  OBVIOUS
<1>6. /\ ToSet(job[a].todo) = {c} \cup ToSet(Rest(a))
      /\ Rest(a) = <<>> => ToSet(Rest(a)) = {}
  BY <1>0, <1>3, LoopHead
<1>7. \A k \in ToSet(Checks(a)) \ ToSet(Rest(a)) : NewAliases(a, k) \subseteq got
  BY <1>4, <1>5, <1>6
<1>8. CASE job'[a] = At("fail", <<>>, {})
  BY <1>1, <1>8, RestCalm, KeptFrame DEF At
<1>9. CASE Rest(a) = <<>> /\ job'[a] = At("write", plan[a].sources, got)
  <2>1. job'[a].at = "write" /\ job'[a].got = got
    BY <1>9 DEF At
  <2>2. \A k \in Sources(a) \cup {plan[a].target} : NewAliases(a, k) \subseteq got
    BY <1>3, <1>6, <1>7, <1>9
  <2>3. CalmJob(a)'
    BY <1>1, <1>2, <1>3, <1>4, <2>1, <2>2, VaultFrame DEF CalmJob
  <2>4. QED
    BY <1>1, <2>3, KeptFrame
<1>10. CASE job'[a] = At("read", Rest(a), got)
  <2>1. job'[a].at = "read" /\ job'[a].todo = Rest(a) /\ job'[a].got = got
    BY <1>10 DEF At
  <2>2. CalmJob(a)'
    BY <1>1, <1>2, <1>3, <1>4, <1>7, <2>1, VaultFrame DEF CalmJob
  <2>3. QED
    BY <1>1, <2>2, KeptFrame
<1>11. QED
  BY <1>0, <1>5, <1>8, <1>9, <1>10, GoesTo DEF ReadConcept

LEMMA CalmRest ==
  ASSUME TypeOK, NEW a \in Actions, Block(a) \/ Fail(a) \/ Pop(a) \/ Load(a), Placed(a), Kept
  PROVE  CalmJob(a)' /\ Kept'
<1>1. /\ plan' = plan /\ vault' = vault /\ tags' = tags /\ meant' = meant /\ ever' = ever
  BY DEF Block, Fail, Pop, Load, notes, history
<1>2. \A b \in Actions : status'[b] = "applied" => status[b] = "applied"
  BY DEF Block, Fail, Pop, Load, TypeOK
<1>3. job'[a].at \in {"idle", "reload", "load"}
  BY GoesTo, IdleJob, PopGoesOn, LoadGoesOn DEF Block, Fail
<1>4. QED
  BY <1>1, <1>2, <1>3, RestCalm, KeptFrame

LEMMA CalmDecide ==
  ASSUME TypeOK, NEW a \in Actions, Placed(a), Decide(a) \/ Supersede(a), Kept
  PROVE  CalmJob(a)' /\ Kept'
<1>1. /\ plan' = plan /\ tags' = tags /\ meant' = meant /\ ever' = ever /\ status' = status
  BY DEF Decide, Supersede, Puts
<1>2. /\ plan[a].kind = "decide"
      /\ vault'.active = vault.active /\ vault'.aliases = vault.aliases /\ vault'.tomb = vault.tomb
  BY DecideEffect, SupersedeEffect
<1>3. job'[a].at \in {"record", "supersede"}
  BY GoesTo DEF Decide, Supersede, ToSupersede, At
<1>4. CalmJob(a)'
  BY <1>1, <1>2, <1>3, RestCalm DEF CalmJob
<1>5. QED
  BY <1>1, <1>2, <1>4, KeptFrame

LEMMA CalmRecord ==
  ASSUME TypeOK, NEW a \in Actions, Placed(a), Record(a), CalmJob(a), Kept
  PROVE  CalmJob(a)' /\ Kept'
<1>1. /\ plan' = plan /\ vault' = vault /\ tags' = tags /\ meant' = meant /\ ever' = ever
      /\ job[a].at = "record"
      /\ \A b \in Actions : b # a => status'[b] = status[b]
  BY DEF Record, Here, notes, history, TypeOK
<1>2. job'[a].at \in {"idle", "reload"}
  BY RecordGoesOn
<1>3. CalmJob(a)'
  BY <1>2, RestCalm
<1>4. Renewed' = Renewed /\ Removed' = Removed /\ \A b : Sources(b)' = Sources(b)
  BY <1>1, PlanFrame
<1>5. (\A n : Straight(n)' = Straight(n)) /\ (\A t, c : Meets(t, c)' = Meets(t, c))
      /\ \A c : Gone(c)' = Gone(c)
  BY <1>1, VaultFrame
<1>6. plan[a].kind = "merge" => /\ \A c \in Sources(a) : Gone(c)
                                /\ \A n \in Notes : tags[n] \cap Sources(a) = {}
  BY <1>1 DEF CalmJob
<1>7. ~Renewed => Earned'
  BY <1>1, <1>4, <1>5, <1>6 DEF Kept, Earned
<1>8. Led' /\ TagsKnown' /\ (~Renewed => Said')
  BY <1>1, <1>4, <1>5 DEF Kept, Led, TagsKnown, Said
<1>9. QED
  BY <1>3, <1>4, <1>7, <1>8 DEF Kept

\* What only adds leaves everything found where it was found.
LEMMA Wide ==
  ASSUME NEW P, NEW Q, P \subseteq Q, P # {}
  PROVE  Q # {}
OBVIOUS

LEMMA MeetsGrow ==
  ASSUME NEW t, NEW c, Straight(t) \subseteq Straight(t)', Straight(c) \subseteq Straight(c)', Meets(t, c)
  PROVE  Meets(t, c)'
BY DEF Meets

\* A new concept: it was neither active nor, unless one is renewed, a source of a merge.
LEMMA CalmCreate ==
  ASSUME TypeOK, NEW a \in Actions, Placed(a), WriteConcept(a), plan[a].kind = "create", CalmJob(a), Kept
  PROVE  CalmJob(a)' /\ Kept'
<1>0. PICK k : k = plan[a].target
  OBVIOUS
<1>1. /\ plan' = plan /\ tags' = tags /\ meant' = meant /\ status' = status /\ job[a].at = "write"
      /\ ever' = ever \cup {k} \cup job[a].got
  BY <1>0 DEF WriteConcept, Here, Puts
<1>2. /\ k \in Concepts
      /\ vault'.active = vault.active \cup {k}
      /\ vault'.aliases = [vault.aliases EXCEPT ![k] = job[a].got]
      /\ vault'.tomb = vault.tomb
  BY <1>0, WriteEffect
<1>3. k \notin vault.active
  BY <1>0, <1>1 DEF CalmJob
<1>4. vault.active \subseteq Concepts /\ vault.aliases \in [Concepts -> SUBSET Aliases]
  BY VaultType
<1>5. Renewed' = Renewed /\ Removed' = Removed /\ \A b : Sources(b)' = Sources(b)
  BY <1>1, PlanFrame
<1>6. CalmJob(a)'
  BY <1>1, GoesTo DEF WriteConcept, At, Placed, CalmJob
<1>7. \A n : AliasHits(vault, n) \subseteq AliasHits(vault, n)'
  BY <1>2, <1>3, <1>4 DEF AliasHits
<1>8. \A n : n # k => Straight(n) \subseteq Straight(n)'
  BY <1>2, <1>7 DEF Straight
<1>9. Led'
  BY <1>2, <1>8, Wide, <1>4, <1>1 DEF Led, Straight, Kept, AliasHits
<1>10. TagsKnown'
  BY <1>1, <1>2, <1>5 DEF Kept, TagsKnown
<1>11. ~Renewed => k \notin Removed /\ \A b \in Actions : plan[b].kind = "merge" => k \notin Sources(b)
  BY <1>0 DEF Renewed, Removed
<1>12. ~Renewed => Earned'
  BY <1>1, <1>2, <1>5, <1>11 DEF Kept, Earned, Gone
<1>13. ~Renewed => Said'
  BY <1>1, <1>3, <1>11, <1>8, MeetsGrow DEF Said, Kept, TagsKnown
<1>14. QED
  BY <1>5, <1>6, <1>9, <1>10, <1>12, <1>13 DEF Kept

\* The merged concept takes over its sources' ids and aliases.
LEMMA CalmMerge ==
  ASSUME TypeOK, NEW a \in Actions, Placed(a), WriteConcept(a), plan[a].kind = "merge", CalmJob(a), Kept
  PROVE  CalmJob(a)' /\ Kept'
<1>0. PICK k, got : k = plan[a].target /\ got = job[a].got
  OBVIOUS
<1>1. /\ plan' = plan /\ tags' = tags /\ meant' = meant /\ status' = status /\ job[a].at = "write"
      /\ ever' = ever \cup {k} \cup got
  BY <1>0 DEF WriteConcept, Here, Puts
<1>2. /\ k \in Concepts
      /\ vault'.active = vault.active \cup {k}
      /\ vault'.aliases = [vault.aliases EXCEPT ![k] = got]
      /\ vault'.tomb = vault.tomb
  BY <1>0, WriteEffect
<1>3. /\ Sources(a) \cup {k} \subseteq vault.active
      /\ \A c \in Sources(a) \cup {k} : NewAliases(a, c) \subseteq got
  BY <1>0, <1>1 DEF CalmJob
<1>4. vault.active \subseteq Concepts /\ vault.aliases \in [Concepts -> SUBSET Aliases]
  BY VaultType
<1>5. Renewed' = Renewed /\ Removed' = Removed /\ \A b : Sources(b)' = Sources(b)
  BY <1>1, PlanFrame
<1>6. k \notin Sources(a) /\ Sources(a) # {} /\ job[a].todo = plan[a].sources
  BY <1>0, <1>1 DEF Placed, Going
<1>7. vault'.active = vault.active
  BY <1>2, <1>3
<1>8. vault.aliases[k] \subseteq got /\ \A c \in Sources(a) : vault.aliases[c] \cup {c} \subseteq got
  BY <1>0, <1>3, <1>6 DEF NewAliases
<1>9. \A n : AliasHits(vault, n) \subseteq AliasHits(vault, n)'
  BY <1>2, <1>4, <1>7, <1>8 DEF AliasHits
<1>10. \A n : Straight(n) \subseteq Straight(n)'
  BY <1>7, <1>9 DEF Straight
<1>11. Led'
  BY <1>2, <1>10, Wide, <1>4, <1>1 DEF Led, Straight, Kept, AliasHits
<1>12. TagsKnown'
  BY <1>1, <1>5, <1>7, <1>3 DEF Kept, TagsKnown
<1>13. ~Renewed => Earned'
  BY <1>1, <1>2, <1>5, <1>7 DEF Kept, Earned, Gone
<1>14. \A t, c : Meets(t, c) => Meets(t, c)'
  BY <1>10, MeetsGrow
<1>15. ~Renewed => Said'
  BY <1>1, <1>14 DEF Kept, Said
<1>16. job'[a].at = "delete" /\ job'[a].todo = plan[a].sources
  BY <1>6, PlanLemma, GoesTo DEF WriteConcept, At
<1>17. \A c \in Sources(a) : NewAliases(a, c)' \subseteq vault'.aliases[k]
  <2>1. SUFFICES ASSUME NEW c \in Sources(a)
                 PROVE  NewAliases(a, c)' \subseteq vault'.aliases[k]
    OBVIOUS
  <2>2. c # k /\ c \in Concepts
    BY <1>3, <1>4, <1>6
  <2>3. vault'.aliases[c] = vault.aliases[c] /\ vault'.aliases[k] = got
    BY <1>2, <1>4, <2>2
  <2>4. NewAliases(a, c)' = vault'.aliases[c] \cup {c}
    BY <1>0, <1>1, <2>2 DEF NewAliases
  <2>5. QED
    BY <1>8, <2>3, <2>4
<1>18. ASSUME ~Renewed, NEW n \in Notes, NEW c \in meant[n]
       PROVE  SaysUnder(a, n, c)'
  <2>1. PICK t \in tags[n] : Meets(t, c)
    BY <1>18 DEF Kept, Said
  <2>2. ASSUME t \in Sources(a)
        PROVE  c \in got /\ c \notin vault.active \ Sources(a)
    BY <1>3, <2>2, <2>1, <1>8 DEF Straight, Meets, AliasHits
  <2>3. vault'.aliases[plan[a].target] = got
    BY <1>0, <1>2, <1>4
  <2>4. QED
    BY <1>1, <1>5, <1>7, <1>14, <2>1, <2>2, <2>3 DEF SaysUnder
<1>19. CalmJob(a)'
  <2>1. ToSet(job'[a].todo) = Sources(a)
    BY <1>16 DEF Sources
  <2>2. k \in vault'.active
    BY <1>2
  <2>3. QED
    BY <1>0, <1>1, <1>5, <1>16, <1>17, <1>18, <2>1, <2>2 DEF CalmJob
<1>20. QED
  BY <1>5, <1>11, <1>12, <1>13, <1>15, <1>19 DEF Kept

\* Where a source is removed, the merged concept takes its place.
LEMMA CalmDelete ==
  ASSUME TypeOK, NEW a \in Actions, Placed(a), DeleteSource(a), CalmJob(a), Kept
  PROVE  CalmJob(a)' /\ Kept'
<1>0. PICK k, c : k = plan[a].target /\ c = Head(job[a].todo)
  OBVIOUS
<1>1. /\ plan' = plan /\ tags' = tags /\ meant' = meant /\ status' = status /\ job[a].at = "delete"
      /\ ever' = ever
  BY DEF DeleteSource, Here, Puts
<1>2. /\ plan[a].kind = "merge" /\ c \in Sources(a) /\ c \in Concepts
      /\ vault'.active = vault.active \ {c}
      /\ vault'.aliases = [vault.aliases EXCEPT ![c] = {}]
      /\ vault'.tomb = vault.tomb
  BY <1>0, DeleteEffect
<1>3. /\ k \in vault.active
      /\ \A s \in Sources(a) : NewAliases(a, s) \subseteq vault.aliases[k]
      /\ \A s \in Sources(a) \ ToSet(job[a].todo) : Gone(s)
      /\ ~Renewed => \A n \in Notes : \A m \in meant[n] : SaysUnder(a, n, m)
  BY <1>0, <1>1, <1>2 DEF CalmJob
<1>4. vault.active \subseteq Concepts /\ vault.aliases \in [Concepts -> SUBSET Aliases]
  BY VaultType
<1>5. Renewed' = Renewed /\ Removed' = Removed /\ \A b : Sources(b)' = Sources(b)
  BY <1>1, PlanFrame
<1>6. k \notin Sources(a) /\ k # c
  BY <1>0, <1>1, <1>2 DEF Placed, Going
<1>7. /\ vault'.aliases[k] = vault.aliases[k] /\ k \in vault'.active
      /\ \A s \in Concepts : s # c => vault'.aliases[s] = vault.aliases[s]
      /\ vault'.aliases[c] = {}
  BY <1>2, <1>3, <1>4, <1>6
<1>8. vault.aliases[c] \cup {c} \subseteq vault.aliases[k]
  BY <1>0, <1>2, <1>3, <1>6 DEF NewAliases
<1>9. \A n, s : s \in AliasHits(vault, n) /\ s # c => s \in AliasHits(vault, n)'
  BY <1>2, <1>4, <1>7 DEF AliasHits
<1>10. \A n : n \in vault.aliases[k] => k \in AliasHits(vault, n)'
  BY <1>7 DEF AliasHits
<1>11. \A n, s : s \in Straight(n) /\ s # c => s \in Straight(n)'
  BY <1>2, <1>9 DEF Straight
<1>12. \A n : c \in Straight(n) => k \in Straight(n)'
  BY <1>2, <1>8, <1>10 DEF Straight, AliasHits
<1>13. \A t, m : Meets(t, m) => Meets(t, m)'
  BY <1>11, <1>12 DEF Meets
<1>14. Led'
  BY <1>1, <1>11, <1>12 DEF Led, Kept
<1>15. TagsKnown'
  BY <1>2, <1>1, <1>5 DEF Removed, Kept, TagsKnown
<1>16. \A s : Gone(s) => Gone(s)'
  BY <1>2 DEF Gone
<1>17. ~Renewed => Earned'
  BY <1>1, <1>5, <1>16 DEF Kept, Earned
<1>18. ~Renewed => Said'
  BY <1>1, <1>13 DEF Kept, Said
<1>19. ASSUME ~Renewed, NEW n \in Notes, NEW m \in meant[n]
       PROVE  SaysUnder(a, n, m)'
  <2>1. PICK t \in tags[n] :
          /\ Meets(t, m)
          /\ t \in Sources(a) => m \in vault.aliases[plan[a].target] /\ m \notin vault.active \ Sources(a)
    BY <1>3, <1>19 DEF SaysUnder
  <2>2. t \in Sources(a) => m \in vault'.aliases[plan[a].target] /\ m \notin vault'.active \ Sources(a)
    BY <1>0, <1>2, <1>7, <2>1
  <2>3. QED
    BY <1>1, <1>5, <1>13, <2>1, <2>2 DEF SaysUnder
<1>20. \A s \in Sources(a) : NewAliases(a, s)' \subseteq vault'.aliases[k]
  <2>1. SUFFICES ASSUME NEW s \in Sources(a)
                 PROVE  NewAliases(a, s)' \subseteq vault'.aliases[k]
    OBVIOUS
  <2>2. s # k /\ s \in Concepts
    BY <1>2, <1>6, PlanLemma
  <2>3. NewAliases(a, s)' = vault'.aliases[s] \cup {s} /\ NewAliases(a, s) = vault.aliases[s] \cup {s}
    BY <1>0, <1>1, <2>2 DEF NewAliases
  <2>4. vault'.aliases[s] \subseteq vault.aliases[s]
    BY <1>7, <2>2
  <2>5. QED
    BY <1>3, <1>7, <2>3, <2>4
<1>21. job'[a].at = "bury" /\ job'[a].todo = job[a].todo
  BY GoesTo DEF DeleteSource, At
<1>22. c \notin vault'.active
  BY <1>2
<1>23. CalmJob(a)'
  BY <1>0, <1>1, <1>2, <1>3, <1>5, <1>7, <1>16, <1>19, <1>20, <1>21, <1>22 DEF CalmJob
<1>24. QED
  BY <1>5, <1>14, <1>15, <1>17, <1>18, <1>23 DEF Kept

LEMMA CalmBury ==
  ASSUME TypeOK, NEW a \in Actions, Placed(a), Bury(a), CalmJob(a), Kept
  PROVE  CalmJob(a)' /\ Kept'
<1>0. PICK k, c : k = plan[a].target /\ c = Head(job[a].todo)
  OBVIOUS
<1>1. /\ plan' = plan /\ tags' = tags /\ meant' = meant /\ status' = status /\ job[a].at = "bury"
      /\ ever' = ever
  BY DEF Bury, Here, Puts
<1>2. /\ plan[a].kind = "merge" /\ c \in Sources(a) /\ c \in Concepts /\ k \in Concepts
      /\ vault'.active = vault.active /\ vault'.aliases = vault.aliases
      /\ vault'.tomb = [vault.tomb EXCEPT ![c] = k]
  BY <1>0, BuryEffect
<1>3. /\ k \in vault.active /\ c \notin vault.active
      /\ \A s \in Sources(a) : NewAliases(a, s) \subseteq vault.aliases[k]
      /\ \A s \in Sources(a) \ ToSet(job[a].todo) : Gone(s)
      /\ ~Renewed => \A n \in Notes : \A m \in meant[n] : SaysUnder(a, n, m)
  BY <1>0, <1>1, <1>2 DEF CalmJob
<1>4. vault.tomb \in [Concepts -> Concepts \cup {None}] /\ k # None
  BY <1>2, VaultType, NotesAssumption
<1>5. Renewed' = Renewed /\ Removed' = Removed /\ \A b : Sources(b)' = Sources(b)
  BY <1>1, PlanFrame
<1>6. (\A n : Straight(n)' = Straight(n)) /\ \A t, m : Meets(t, m)' = Meets(t, m)
  BY <1>2, StraightFrame
<1>7. Gone(c)' /\ \A s \in Concepts : Gone(s) => Gone(s)'
  BY <1>2, <1>3, <1>4 DEF Gone
<1>8. Led' /\ TagsKnown' /\ (~Renewed => Said')
  BY <1>1, <1>2, <1>5, <1>6 DEF Kept, Led, TagsKnown, Said
<1>9. ~Renewed => Earned'
  BY <1>1, <1>5, PlanLemma, <1>7 DEF Earned, Kept
<1>10. \A s : NewAliases(a, s)' = NewAliases(a, s)
  BY <1>1, <1>2 DEF NewAliases
<1>11. \A n, m : SaysUnder(a, n, m) => SaysUnder(a, n, m)'
  BY <1>1, <1>2, <1>5, <1>6 DEF SaysUnder
<1>12. job[a].todo # <<>>
  BY <1>1 DEF Placed
<1>13. \A s \in Sources(a) \ ToSet(Rest(a)) : Gone(s)'
  <2>1. ToSet(job[a].todo) = {c} \cup ToSet(Rest(a))
    BY <1>0, <1>12, LoopHead
  <2>2. Sources(a) \subseteq Concepts
    BY <1>2, PlanLemma
  <2>3. QED
    BY <1>3, <1>7, <2>1, <2>2
<1>14. CASE Rest(a) = <<>>
  <2>1. job'[a].at = "list"
    BY <1>14, GoesTo DEF Bury, At
  <2>2. \A s \in Sources(a) : Gone(s)'
    BY <1>12, <1>13, <1>14, LoopHead
  <2>3. CalmJob(a)'
    BY <1>0, <1>1, <1>2, <1>3, <1>5, <1>10, <1>11, <2>1, <2>2 DEF CalmJob
  <2>4. QED
    BY <1>5, <1>8, <1>9, <2>3 DEF Kept
<1>15. CASE Rest(a) # <<>>
  <2>1. job'[a].at = "delete" /\ job'[a].todo = Rest(a)
    BY <1>15, GoesTo DEF Bury, At
  <2>2. CalmJob(a)'
    BY <1>0, <1>1, <1>2, <1>3, <1>5, <1>10, <1>11, <1>13, <2>1 DEF CalmJob
  <2>3. QED
    BY <1>5, <1>8, <1>9, <2>2 DEF Kept
<1>16. QED
  BY <1>14, <1>15

\* The notes that a merge has gone past have none of its sources.
LEMMA CalmList ==
  ASSUME TypeOK, NEW a \in Actions, Placed(a), ListGarden(a) \/ ReadTags(a), CalmJob(a), Kept
  PROVE  CalmJob(a)' /\ Kept'
<1>1. /\ plan' = plan /\ vault' = vault /\ tags' = tags /\ meant' = meant /\ ever' = ever
      /\ status' = status
  BY DEF ListGarden, ReadTags, Reads, notes, history
<1>2. Kept'
  BY <1>1, KeptFrame
<1>3. Renewed' = Renewed /\ \A b : Sources(b)' = Sources(b)
  BY <1>1, PlanFrame
<1>4. /\ \A c : NewAliases(a, c)' = NewAliases(a, c) /\ Gone(c)' = Gone(c)
      /\ \A ts : Retagged(a, ts)' = Retagged(a, ts)
  BY <1>1, VaultFrame
<1>5. \A n, m : SaysUnder(a, n, m)' = SaysUnder(a, n, m)
  BY <1>1, VaultFrame, <1>3 DEF SaysUnder
<1>6. ASSUME NEW rest \in Seq(Concepts \cup Notes \cup Decisions \cup Items), job'[a] = ToRetag(rest),
             plan[a].kind = "merge" => \A n \in Notes \ ToSet(rest) : tags[n] \cap Sources(a) = {},
             job[a].at \in {"list", "retag"}
      PROVE  CalmJob(a)'
  BY Members, <1>6, <1>1, <1>3, <1>4, <1>5 DEF ToRetag, At, CalmJob, Placed
<1>7. CASE ListGarden(a)
  BY <1>7, GoesTo, Listing, Wider, <1>2, <1>6 DEF ListGarden, Here
<1>8. CASE ReadTags(a)
  <2>1. PICK n : n = Head(job[a].todo)
    OBVIOUS
  <2>2. job[a].at = "retag" /\ job[a].todo # <<>>
    BY <1>8 DEF ReadTags, Here, Placed
  <2>3. ToSet(job[a].todo) = {n} \cup ToSet(Rest(a))
    BY <2>1, <2>2, LoopHead
  <2>4. CASE plan[a].kind = "merge" /\ tags[n] \cap Sources(a) = {} /\ job'[a] = ToRetag(Rest(a))
    BY <2>2, LoopHead, <2>4, <2>3, <1>2, <1>6 DEF CalmJob
  <2>5. CASE job'[a] = At("set", job[a].todo, Retagged(a, tags[n]))
    <3>1. job'[a].at = "set" /\ job'[a].todo = job[a].todo /\ job'[a].got = Retagged(a, tags[n])
      BY <2>5 DEF At
    <3>2. job'[a].got = Retagged(a, tags[Head(job[a].todo)])
      BY <2>1, <3>1
    <3>3. CalmJob(a)'
      BY <1>1, <1>3, <1>4, <1>5, <2>2, <3>1, <3>2 DEF CalmJob
    <3>4. QED
      BY <1>2, <3>3
  <2>6. QED
    BY <1>8, <2>1, <2>4, <2>5, GoesTo DEF ReadTags
<1>9. QED
  BY <1>7, <1>8

\* A merge rewrites the tags of a note: where a source was, the merged concept is.
LEMMA CalmRewrite ==
  ASSUME TypeOK, NEW a \in Actions, Placed(a), SetTags(a), plan[a].kind = "merge", CalmJob(a), Kept
  PROVE  CalmJob(a)' /\ Kept'
<1>0. PICK k, n : k = plan[a].target /\ n = Head(job[a].todo)
  OBVIOUS
<1> DEFINE S == Sources(a)
<1>1. /\ plan' = plan /\ vault' = vault /\ meant' = meant /\ status' = status /\ job[a].at = "set"
      /\ ever' = ever /\ tags' = [tags EXCEPT ![n] = job[a].got]
  BY <1>0 DEF SetTags, Here, Puts
<1>2. /\ k \in vault.active
      /\ \A s \in S : NewAliases(a, s) \subseteq vault.aliases[k]
      /\ \A s \in S : Gone(s)
      /\ \A m \in Notes \ ToSet(job[a].todo) : tags[m] \cap S = {}
      /\ job[a].got = Retagged(a, tags[n])
      /\ ~Renewed => \A m \in Notes : \A c \in meant[m] : SaysUnder(a, m, c)
  BY <1>0, <1>1 DEF CalmJob
<1>3. /\ k \notin S /\ job[a].todo # <<>> /\ ToSet(job[a].todo) \subseteq Notes
      /\ status[a] # "applied"
  BY <1>0, <1>1 DEF Placed, Going
<1>4. /\ n \in Notes /\ ToSet(job[a].todo) = {n} \cup ToSet(Rest(a))
      /\ Rest(a) = <<>> => ToSet(Rest(a)) = {}
  BY <1>0, <1>3, LoopHead
<1>5. /\ tags'[n] = {IF t \in S THEN k ELSE t : t \in tags[n]}
      /\ \A m \in Notes : m # n => tags'[m] = tags[m]
  BY <1>0, <1>1, <1>2, <1>4 DEF TypeOK, Retagged
<1>6. Renewed' = Renewed /\ Removed' = Removed /\ \A b : Sources(b)' = Sources(b)
  BY <1>1, PlanFrame
<1>7. /\ \A c : NewAliases(a, c)' = NewAliases(a, c) /\ Gone(c)' = Gone(c)
      /\ \A x : Straight(x)' = Straight(x)
      /\ \A t, c : Meets(t, c)' = Meets(t, c)
  BY <1>1, VaultFrame
<1>8. \A t \in tags'[n] : t = k \/ (t \in tags[n] /\ t \notin S)
  BY <1>5
<1>9. \A m \in Notes \ ToSet(Rest(a)) : tags'[m] \cap S = {}
  BY <1>2, <1>3, <1>4, <1>5, <1>8
<1>10. Led'
  BY <1>1, <1>7 DEF Kept, Led
<1>11. TagsKnown'
  BY <1>2, <1>5, <1>8, <1>1, <1>6 DEF Kept, TagsKnown
<1>12. ~Renewed => Earned'
  BY <1>1, <1>6, <1>7, <1>2, <1>5, <1>8 DEF Earned, Kept, Gone
<1>13. ASSUME ~Renewed, NEW m \in Notes, NEW c \in meant[m]
       PROVE  SaysUnder(a, m, c)'
  <2>1. PICK t \in tags[m] :
          /\ Meets(t, c)
          /\ t \in S => c \in vault.aliases[k] /\ c \notin vault.active \ S
    BY <1>0, <1>2, <1>13 DEF SaysUnder
  <2>2. CASE m # n \/ t \notin S
    <3>1. t \in tags'[m]
      BY <1>5, <2>2
    <3>2. QED
      BY <1>0, <1>1, <1>6, <1>7, <2>1, <3>1 DEF SaysUnder
  <2>3. CASE m = n /\ t \in S
    <3>1. k \in tags'[m]
      BY <1>5, <2>3
    <3>2. c \notin vault.active /\ c \in vault.aliases[k]
      BY <1>2, <2>1, <2>3 DEF Gone
    <3>3. k \in Straight(k) /\ k \in Straight(c)
      BY <1>2, <3>2 DEF Straight, AliasHits
    <3>4. Meets(k, c)
      BY <3>3 DEF Meets
    <3>5. QED
      BY <1>3, <1>6, <1>7, <3>1, <3>4 DEF SaysUnder
  <2>4. QED
    BY <2>2, <2>3
<1>14. ~Renewed => Said'
  BY <1>1, <1>13 DEF Said, SaysUnder
<1>15. job'[a] = ToRetag(Rest(a))
  BY GoesTo DEF SetTags
<1>16. CalmJob(a)'
  <2>1. CASE Rest(a) = <<>>
    <3>1. job'[a].at = "record"
      BY <1>15, <2>1 DEF ToRetag, At
    <3>2. \A m \in Notes : tags'[m] \cap S = {}
      BY <1>4, <1>9, <2>1
    <3>3. QED
      BY <1>1, <1>2, <1>6, <1>7, <3>1, <3>2 DEF CalmJob
  <2>2. CASE Rest(a) # <<>>
    <3>1. job'[a].at = "retag" /\ job'[a].todo = Rest(a)
      BY <1>15, <2>2 DEF ToRetag, At
    <3>2. QED
      BY <1>0, <1>1, <1>2, <1>6, <1>7, <1>9, <1>13, <3>1 DEF CalmJob
  <2>3. QED
    BY <2>1, <2>2
<1>17. QED
  BY <1>6, <1>10, <1>11, <1>12, <1>14, <1>16 DEF Kept

\* A retag changes what one note says, and what it is meant to say.
LEMMA CalmRetag ==
  ASSUME TypeOK, NEW a \in Actions, Placed(a), SetTags(a), plan[a].kind = "retag", CalmJob(a), Kept
  PROVE  CalmJob(a)' /\ Kept'
<1>0. PICK n, remove, add : /\ n = Head(job[a].todo) /\ remove = plan[a].remove
                            /\ add = ToSet(plan[a].add)
  OBVIOUS
<1>1. /\ plan' = plan /\ vault' = vault /\ status' = status /\ job[a].at = "set"
      /\ ever' = ever /\ tags' = [tags EXCEPT ![n] = job[a].got]
      /\ meant' = [meant EXCEPT ![n] = {c \in @ : ~StandsForSome(remove, c)} \cup add]
  BY <1>0 DEF SetTags, Here, Puts
<1>2. add \subseteq vault.active /\ job[a].got = Retagged(a, tags[n])
  BY <1>0, <1>1 DEF CalmJob
<1>3. job[a].todo # <<>> /\ ToSet(job[a].todo) \subseteq Notes /\ status[a] # "applied"
  BY <1>1 DEF Placed
<1>4. n \in Notes
  BY <1>0, <1>3, LoopHead
<1>5. /\ tags'[n] = (tags[n] \ remove) \cup add
      /\ \A m \in Notes : m # n => tags'[m] = tags[m]
      /\ meant'[n] = {c \in meant[n] : ~StandsForSome(remove, c)} \cup add
      /\ \A m \in Notes : m # n => meant'[m] = meant[m]
  BY <1>0, <1>1, <1>2, <1>4 DEF TypeOK, Retagged
<1>6. Renewed' = Renewed /\ Removed' = Removed /\ \A b : Sources(b)' = Sources(b)
  BY <1>1, PlanFrame
<1>7. /\ \A c : Gone(c)' = Gone(c)
      /\ \A x : Straight(x)' = Straight(x)
      /\ \A t, c : Meets(t, c)' = Meets(t, c)
  BY <1>1, VaultFrame
<1>8. Led'
  BY <1>1, <1>7 DEF Kept, Led
<1>9. TagsKnown'
  BY <1>2, <1>5, <1>1, <1>6 DEF Kept, TagsKnown
<1>10. ~Renewed => Earned'
  BY <1>1, <1>6, <1>7, <1>2, <1>5 DEF Earned, Kept, Gone
<1>11. ~Renewed => Said'
  <2>1. SUFFICES ASSUME ~Renewed, NEW m \in Notes, NEW c \in meant'[m]
                 PROVE  \E t \in tags'[m] : Meets(t, c)
    BY <1>7 DEF Said
  <2>2. CASE m # n
    BY <1>5, <2>1, <2>2 DEF Kept, Said
  <2>3. CASE m = n /\ c \in add
    BY <1>2, <1>5, <2>3 DEF Straight, Meets
  <2>4. CASE m = n /\ c \in meant[n] /\ ~StandsForSome(remove, c)
    BY <2>1, <2>4, DirectHit, <1>5 DEF Kept, Said, StandsForSome
  <2>5. QED
    BY <1>5, <2>1, <2>2, <2>3, <2>4
<1>12. CalmJob(a)'
  BY GoesTo, <1>0, <1>1, <1>2 DEF SetTags, ToRetag, At, CalmJob
<1>13. QED
  BY <1>6, <1>8, <1>9, <1>10, <1>11, <1>12 DEF Kept

LEMMA CalmStepOf ==
  ASSUME TypeOK, NEW a \in Actions, \A b \in Actions : Placed(b), Step(a), Solo, CalmInv
  PROVE  CalmInv'
<1>1. /\ overlapped' = overlapped /\ torn' = torn /\ a \in Running
      /\ \A b \in Actions : b # a => job'[b] = job[b]
  BY StepFrame
<1>2. SUFFICES ASSUME Calm
               PROVE  Kept' /\ \A b \in Actions : CalmJob(b)'
  BY <1>1 DEF CalmInv, Calm
<1>3. Kept /\ CalmJob(a) /\ Placed(a)
  BY <1>2 DEF CalmInv
<1>4. \A b \in Actions : b # a => job'[b].at = "idle"
  BY <1>1, <1>2 DEF Calm, Solo, Running
<1>5. \A b \in Actions : b # a => CalmJob(b)'
  BY <1>4, RestCalm
<1>6. CASE WriteConcept(a)
  BY <1>3, <1>6, WriteEffect, <1>5, CalmCreate, CalmMerge
<1>7. CASE SetTags(a)
  BY <1>3, <1>7, <1>5, CalmRewrite, CalmRetag DEF SetTags, Here, Placed
<1>8. CASE ReadConcept(a) \/ DeleteSource(a) \/ Bury(a) \/ ListGarden(a) \/ ReadTags(a)
  BY <1>3, <1>5, <1>8, CalmRead, CalmDelete, CalmBury, CalmList
<1>9. CASE Check(a) \/ Block(a) \/ Decide(a) \/ Supersede(a) \/ Record(a) \/ Pop(a) \/ Load(a) \/ Fail(a)
  BY <1>3, <1>5, <1>9, CalmCheck, CalmRest, CalmDecide, CalmRecord
<1>10. QED
  BY <1>6, <1>7, <1>8, <1>9 DEF Step

LEMMA CalmApplied ==
  ASSUME TypeOK, NEW a \in Actions, Apply(a), CalmInv
  PROVE  CalmInv'
BY GoesTo, RestCalm, CalmApply DEF Apply, failures, CalmInv, Calm, Running

\* A failure that left no empty note has changed nothing.
LEMMA CalmFails ==
  ASSUME TypeOK, NEW a \in Actions, StorageFails(a), Solo, CalmInv
  PROVE  CalmInv'
<1>1. /\ plan' = plan /\ status' = status /\ meant' = meant /\ ever' = ever /\ overlapped' = overlapped
      /\ a \in Running /\ Torn(a)
  BY DEF StorageFails, history
<1>2. SUFFICES ASSUME overlapped = {}, ~torn'
               PROVE  Kept' /\ \A b \in Actions : CalmJob(b)'
  BY <1>1 DEF CalmInv, Calm
<1>3. vault' = vault /\ tags' = tags /\ torn' = torn
  BY <1>1, <1>2 DEF Torn, notes
<1>4. Kept
  BY <1>2, <1>3 DEF CalmInv, Calm
<1>5. job'[a].at \in {"fail", "idle"} /\ \A b \in Actions : b # a => job'[b] = job[b]
  BY GoesTo, IdleJob DEF StorageFails, At
<1>6. \A b \in Actions : b # a => job'[b].at = "idle"
  BY <1>1, <1>2, <1>5 DEF Solo, Running
<1>7. \A b \in Actions : CalmJob(b)'
  BY <1>5, <1>6, RestCalm
<1>8. QED
  BY <1>1, <1>3, <1>4, <1>7, KeptFrame

LEMMA CalmCrash ==
  ASSUME TypeOK, Crash, CalmInv
  PROVE  CalmInv'
BY IdleJob, RestCalm, KeptFrame DEF Crash, history, CalmInv, Calm, Torn, notes

-----------------------------------------------------------------------------
\* Functions applied many times.

\* It stays in what the function stays in, and one more time is the function of it.
LEMMA IteratedFacts ==
  ASSUME NEW f, NEW S, \A s \in S : f[s] \in S, NEW x \in S, NEW n \in Nat
  PROVE  /\ Iterated(f, n, x) \in S /\ Iterated(f, 0, x) = x
         /\ Iterated(f, n + 1, x) = f[Iterated(f, n, x)]
<1> DEFINE G(k) == CHOOSE g : g = [i \in 0..k |-> IF i = 0 THEN x ELSE f[g[i - 1]]]
           T(k) == G(k) \in [0..k -> S] /\ G(k)[0] = x /\ \A i \in 1..k : G(k)[i] = f[G(k)[i - 1]]
<1>1. \A k \in Nat : T(k)
  <2> SUFFICES ASSUME NEW k \in Nat PROVE T(k)
    OBVIOUS
  <2> DEFINE step == [i \in 1..k |-> [s \in S |-> f[s]]]
             Body(g) == [i \in 0..k |-> IF i = 0 THEN x ELSE f[g[i - 1]]]
             g == CHOOSE g : g = Body(g)
  <2>1. step \in [1..k -> [S -> S]]
    OBVIOUS
  <2>2. PICK h : Recurs(h, k, S, x, step)
    BY <2>1, RecursFacts
  <2>3. h \in [0..k -> S] /\ h[0] = x /\ \A i \in 1..k : h[i] = step[i][h[i - 1]]
    BY <2>2 DEF Recurs
  <2>4. \A i \in 1..k : i - 1 \in 0..k /\ h[i - 1] \in S /\ h[i] = f[h[i - 1]]
    <3>1. \A i \in 1..k, s \in S : step[i][s] = f[s]
      OBVIOUS
    <3>2. \A i \in 1..k : i - 1 \in 0..k
      OBVIOUS
    <3> HIDE DEF step
    <3>3. QED
      BY <2>3, <3>1, <3>2
  <2>5. h = Body(h)
    BY <2>3, <2>4
  <2>6. g = Body(g)
    BY <2>5
  <2>7. g[0] = x /\ \A i \in 1..k : g[i] = f[g[i - 1]]
    <3> HIDE DEF g
    <3>1. \A i \in 0..k : g[i] = IF i = 0 THEN x ELSE f[g[i - 1]]
      BY <2>6
    <3>2. \A i \in 1..k : i \in 0..k /\ i # 0
      OBVIOUS
    <3>3. QED
      BY <3>1, <3>2
  <2>8. \A i \in 0..k : g[i] = h[i]
    <3> HIDE DEF g
    <3>1. h[0] = g[0]
      BY <2>3, <2>7
    <3>2. \A i \in 1..k : g[i - 1] = h[i - 1] => g[i] = h[i]
      BY <2>4, <2>7
    <3>3. QED
      BY <3>1, <3>2, AlikeByStep
  <2>9. g \in [0..k -> S]
    BY <2>6, <2>3, <2>8
  <2>10. QED
    BY <2>7, <2>9
<1>2. \A k \in Nat : Iterated(f, k, x) = G(k)[k]
  BY DEF Iterated
<1> HIDE DEF G
<1>3. Iterated(f, n, x) \in S
  BY <1>1, <1>2
<1>4. Iterated(f, 0, x) = x
  BY <1>1, <1>2
<1>5. G(n)[n] = G(n + 1)[n]
  <2>1. /\ G(n)[0] = G(n + 1)[0]
        /\ \A i \in 1..n : G(n)[i] = f[G(n)[i - 1]] /\ G(n + 1)[i] = f[G(n + 1)[i - 1]]
    BY <1>1
  <2>2. \A i \in 0..n : G(n + 1)[i] = G(n)[i]
    BY <2>1, n \in Nat, AlikeByStep
  <2>3. QED
    BY <2>2
<1>6. G(n + 1)[n + 1] = f[G(n + 1)[n]]
  BY <1>1
<1>7. QED
  BY <1>2, <1>3, <1>4, <1>5, <1>6

-----------------------------------------------------------------------------
\* What merges side by side leave of each other.

LEMMA AsideBefore ==
  ASSUME TypeOK, TypeOK', plan' = plan, overlapped \subseteq overlapped', faults' = 0 => faults = 0,
         \A c \in Concepts : vault'.tomb[c] = None => vault.tomb[c] = None
  PROVE  (MergesAside' => MergesAside) /\ (OneEach' => OneEach)
BY PlanFrame, NotesAssumption, FS_Subset, FS_CardinalityType, FaultsAssumption DEF MergesAside, OneEach

LEMMA BesideApply ==
  ASSUME TypeOK, NEW a \in Actions, Apply(a), Beside
  PROVE  Beside'
BY GoesTo DEF Apply, Running, Beside

LEMMA BesideStep ==
  ASSUME TypeOK, NEW a \in Actions, Step(a) \/ StorageFails(a), Beside
  PROVE  Beside'
BY StepFrame, GoesTo DEF Running, StorageFails, history, Beside

\* Of two that run, each is a merge, and none removes what the other one merges into.
LEMMA TwoRun ==
  ASSUME Beside, MergesAside, NEW a \in Running, NEW b \in Running, a # b
  PROVE  /\ plan[a].kind = "merge" /\ plan[b].kind = "merge"
         /\ plan[a].target \notin Sources(b) /\ plan[b].target \notin Sources(a)
         /\ OneEach => Sources(a) \cap Sources(b) = {}
BY DEF Beside, MergesAside, OneEach

\* What a step of a does that neither writes, nor deletes, nor buries.
LEMMA Still ==
  ASSUME TypeOK, NEW a \in Actions, Step(a), ~WriteConcept(a), ~DeleteSource(a), ~Bury(a)
  PROVE  /\ vault'.active = vault.active /\ vault'.aliases = vault.aliases
         /\ vault'.tomb = vault.tomb /\ ever' = ever
         /\ Unburied' = Unburied
<1>1. /\ vault'.active = vault.active /\ vault'.aliases = vault.aliases
      /\ vault'.tomb = vault.tomb /\ ever' = ever
  <2>1. CASE Decide(a) \/ Supersede(a)
    BY <2>1 DEF Decide, Supersede, TypeOK, Shelves
  <2>2. CASE ~Decide(a) /\ ~Supersede(a)
    BY <2>2 DEF Step, Check, Block, ReadConcept, ListGarden, ReadTags, SetTags, Record, Pop, Load,
                Fail, Reads, Puts, notes, history
  <2>3. QED
    BY <2>1, <2>2
<1>2. job[a].at # "bury" /\ job'[a].at # "bury"
  BY GoesTo, CheckGoesOn, RecordGoesOn, PopGoesOn, IdleJob
     DEF Step, Here, Block, ReadConcept, ListGarden, ReadTags, SetTags, Decide, Supersede, Load,
         Fail, ToRetag, ToSupersede, ToReload, At, Idle
<1>3. QED
  BY <1>1, <1>2, StepFrame DEF Unburied

\* The hypotheses on the merges hold before a step if they hold after it.
LEMMA AsideStep ==
  ASSUME TypeOK, TypeOK', NEW a \in Actions, Placed(a), Step(a)
  PROVE  (MergesAside' => MergesAside) /\ (OneEach' => OneEach) /\ Renewed' = Renewed
<1>1. plan' = plan /\ overlapped' = overlapped /\ faults' = faults
  BY StepFrame
<1>2. \A c \in Concepts : vault'.tomb[c] = None => vault.tomb[c] = None
  BY BuryEffect, VaultType, NotesAssumption, Still, WriteEffect, DeleteEffect
<1>3. QED
  BY <1>1, <1>2, AsideBefore, PlanFrame

\* No apply takes from another one the concept it merges into.
LEMMA TargetStays ==
  ASSUME TypeOK, NEW a \in Actions, Placed(a), Step(a), Beside, MergesAside, NEW b \in Actions,
         \A e \in Actions : Placed(e), job[b].at \in Going, plan[b].kind = "merge",
         plan[b].target \in vault.active
  PROVE  plan[b].target \in vault'.active
<1>1. CASE DeleteSource(a)
  <2>1. PICK c : c = Head(job[a].todo)
    OBVIOUS
  <2>2. c \in Sources(a) /\ vault'.active = vault.active \ {c}
    BY <1>1, <2>1, DeleteEffect
  <2>3. plan[b].target \notin Sources(a)
    BY <1>1, TwoRun DEF Placed, DeleteSource, Here, Running, Going
  <2>4. QED
    BY <2>2, <2>3
<1>2. CASE ~DeleteSource(a)
  BY <1>2, Still, WriteEffect, BuryEffect
<1>3. QED
  BY <1>1, <1>2

LEMMA IntoOthers ==
  ASSUME TypeOK, NEW a \in Actions, Step(a), Beside, MergesAside, \A e \in Actions : Placed(e),
         NEW b \in Actions, b # a, IntoActive(b), ever \subseteq ever'
  PROVE  IntoActive(b)'
BY StepFrame, PlanFrame, TargetStays DEF IntoActive, Merging, Going

LEMMA RootsFrame ==
  ASSUME Rooted, vault'.active = vault.active, vault'.aliases = vault.aliases,
         vault'.tomb = vault.tomb, ever' = ever, Unburied' = Unburied
  PROVE  Rooted'
BY DEF Known, Buried, Rooted

LEMMA RootsRead ==
  ASSUME TypeOK, NEW a \in Actions, Placed(a), ReadConcept(a), Rooted, IntoActive(a)
  PROVE  IntoActive(a)'
<1>0. PICK c : c = Head(job[a].todo)
  OBVIOUS
<1>1. /\ plan' = plan /\ vault' = vault /\ ever' = ever /\ job[a].at = "read"
      /\ plan[a].kind = "merge" /\ Checks(a)' = Checks(a)
  BY PlanFrame DEF ReadConcept, Here, Reads, Placed, notes, history
<1>2. PICK got : got = job[a].got \cup NewAliases(a, c)
  OBVIOUS
<1>3. CASE c \notin vault.active
  BY <1>0, <1>3, GoesTo DEF ReadConcept, IntoActive, Merging, At
<1>4. CASE c \in vault.active
  <2>1. /\ job'[a].at \in {"read", "write"} /\ job'[a].got = got
    BY <1>0, <1>2, <1>4, GoesTo DEF ReadConcept, At
  <2>2. plan[a].target \in vault.active
    BY <1>1, PlanLemma, <1>0, <1>4 DEF Checks, IntoActive, Merging
  <2>3. got \subseteq ever
    BY <1>4, VaultType, <1>1, <1>2 DEF Rooted, IntoActive, Merging, NewAliases
  <2>4. QED
    BY <1>1, <2>1, <2>2, <2>3 DEF IntoActive, Merging
<1>5. QED
  BY <1>3, <1>4

LEMMA RootsWrite ==
  ASSUME TypeOK, NEW a \in Actions, Placed(a), WriteConcept(a), Rooted, IntoActive(a), MergesAside
  PROVE  Rooted' /\ IntoActive(a)' /\ ever \subseteq ever'
<1>0. PICK k, got : k = plan[a].target /\ got = job[a].got
  OBVIOUS
<1>1. /\ plan' = plan /\ job[a].at = "write" /\ ever' = ever \cup {k} \cup got
      /\ plan[a].kind \in {"create", "merge"} /\ k \in Concepts
      /\ vault'.active = vault.active \cup {k}
      /\ vault'.aliases = [vault.aliases EXCEPT ![k] = got] /\ vault'.tomb = vault.tomb
  BY <1>0, WriteEffect DEF WriteConcept, Here, Puts
<1>2. job'[a].at \in {"record", "delete"}
  BY GoesTo DEF WriteConcept, At
<1>3. IntoActive(a)'
  BY <1>0, <1>1, <1>2 DEF IntoActive, Merging
<1>4. vault.aliases \in [Concepts -> SUBSET Aliases]
  BY VaultType
<1>5. vault'.active \subseteq ever' /\ \A c \in Concepts : vault'.aliases[c] \subseteq ever'
  BY <1>1, <1>4 DEF Rooted
<1>6. Unburied' = Unburied
  BY <1>1, <1>2, StepFrame DEF Unburied, Step
<1>7. Known' = Known \cup {k}
  BY <1>0, <1>1, PlanLemma DEF IntoActive, Merging, Known, Placed, MergesAside
<1>8. Buried' \subseteq Buried
  BY <1>1, <1>6, <1>7 DEF Buried
<1>9. Rooted'
  BY <1>1, <1>5, <1>7, <1>8 DEF Rooted
<1>10. QED
  BY <1>1, <1>3, <1>9

LEMMA RootsDelete ==
  ASSUME TypeOK, NEW a \in Actions, Placed(a), DeleteSource(a), Rooted, IntoActive(a)
  PROVE  Rooted' /\ IntoActive(a)' /\ ever' = ever
<1>0. PICK c : c = Head(job[a].todo)
  OBVIOUS
<1>1. /\ plan' = plan /\ job[a].at = "delete" /\ ever' = ever
  BY DEF DeleteSource, Here, Puts
<1>2. /\ plan[a].kind = "merge" /\ c \in Sources(a) /\ c \in Concepts
      /\ vault'.active = vault.active \ {c}
      /\ vault'.aliases = [vault.aliases EXCEPT ![c] = {}]
      /\ vault'.tomb = vault.tomb
  BY <1>0, DeleteEffect
<1>3. job'[a].at = "bury" /\ job'[a].todo = job[a].todo
  BY GoesTo DEF DeleteSource, At
<1>4. plan[a].target \in vault.active /\ plan[a].target \notin Sources(a)
  BY <1>1, <1>2 DEF IntoActive, Merging, Placed, Going
<1>5. IntoActive(a)'
  BY <1>1, <1>2, <1>3, <1>4 DEF IntoActive, Merging
<1>6. vault.aliases \in [Concepts -> SUBSET Aliases]
  BY VaultType
<1>7. vault'.active \subseteq ever' /\ \A d \in Concepts : vault'.aliases[d] \subseteq ever'
  BY <1>1, <1>2, <1>6 DEF Rooted
<1>8. Unburied \cup {c} \subseteq Unburied'
  BY <1>0, <1>1, <1>2, <1>3, StepFrame DEF Unburied, Step
<1>9. Known' = Known
  BY <1>1 DEF Known
<1>10. Buried' \subseteq Buried
  BY <1>2, <1>8, <1>9 DEF Buried
<1>11. Rooted'
  BY <1>2, <1>7, <1>9, <1>10 DEF Rooted
<1>12. QED
  BY <1>1, <1>5, <1>11

LEMMA RootsBury ==
  ASSUME TypeOK, NEW a \in Actions, Placed(a), Bury(a), Rooted, IntoActive(a)
  PROVE  Rooted' /\ IntoActive(a)' /\ ever' = ever
<1>0. PICK c, k : c = Head(job[a].todo) /\ k = plan[a].target
  OBVIOUS
<1>1. /\ plan' = plan /\ job[a].at = "bury" /\ ever' = ever
  BY DEF Bury, Here, Puts
<1>2. /\ plan[a].kind = "merge" /\ c \in Sources(a) /\ c \in Concepts /\ k \in Concepts
      /\ vault'.active = vault.active /\ vault'.aliases = vault.aliases
      /\ vault'.tomb = [vault.tomb EXCEPT ![c] = k]
  BY <1>0, BuryEffect
<1>3. job'[a].at \in {"list", "delete"}
  BY GoesTo DEF Bury, At
<1>4. k \in vault.active
  BY <1>0, <1>1, <1>2 DEF IntoActive, Merging
<1>5. IntoActive(a)'
  BY <1>0, <1>1, <1>2, <1>3, <1>4 DEF IntoActive, Merging
<1>6. vault.tomb \in [Concepts -> Concepts \cup {None}]
  BY VaultType
<1>7. Unburied \subseteq Unburied' \cup {c}
  BY <1>0, <1>1, <1>3, StepFrame DEF Unburied, Step
<1>8. Known' = Known /\ k \in Known
  BY <1>1, <1>2, <1>4 DEF Known, Rooted
<1>9. Buried' \subseteq Buried \cup {c} /\ k \notin Buried'
  BY <1>2, <1>4, <1>7, <1>8 DEF Buried
<1>10. \A d \in Buried' : vault'.tomb[d] \in Known'
  BY <1>2, <1>6, <1>8, <1>9 DEF Buried, Known, Rooted
<1>11. ASSUME NEW Z \in SUBSET Buried', Z # {}
       PROVE  \E d \in Z : vault'.tomb[d] \notin Z
  BY <1>2, <1>6, <1>9, <1>11 DEF Buried, Known, Rooted
<1>12. QED
  BY <1>1, <1>2, <1>5, <1>10, <1>11 DEF Rooted

LEMMA RootsStill ==
  ASSUME TypeOK, NEW a \in Actions, Placed(a), Step(a), ~WriteConcept(a), ~DeleteSource(a), ~Bury(a),
         ~ReadConcept(a), Rooted, IntoActive(a)
  PROVE  IntoActive(a)'
<1>1. /\ vault'.active = vault.active /\ ever' = ever /\ plan' = plan /\ Checks(a)' = Checks(a)
  BY Still, StepFrame, PlanFrame
<1>2. CASE Check(a)
  BY <1>2, GoesTo, CheckGoesOn, <1>1 DEF Check, Begins, At, IntoActive, Merging
<1>3. CASE ListGarden(a) \/ ReadTags(a) \/ SetTags(a)
  <2>1. job[a].at \in {"list", "retag", "set"} /\ job'[a].at \in {"record", "retag", "set"}
    BY <1>3, GoesTo DEF ListGarden, ReadTags, SetTags, Here, ToRetag, At
  <2>2. QED
    BY <1>1, <2>1 DEF IntoActive, Merging
<1>4. CASE Block(a) \/ Decide(a) \/ Supersede(a) \/ Record(a) \/ Pop(a) \/ Load(a) \/ Fail(a)
  <2>1. job'[a].at \in {"idle", "supersede", "record", "reload", "load"}
    BY <1>4, GoesTo, RecordGoesOn, PopGoesOn, IdleJob
       DEF Block, Decide, Supersede, Load, Fail, ToSupersede, ToReload, At, Idle
  <2>2. QED
    BY <2>1 DEF IntoActive, Merging
<1>5. QED
  BY <1>2, <1>3, <1>4 DEF Step

LEMMA RootedStepOf ==
  ASSUME TypeOK, TypeOK', NEW a \in Actions, \A e \in Actions : Placed(e), Step(a), Beside, RootedInv
  PROVE  RootedInv'
<1>1. SUFFICES ASSUME MergesAside
               PROVE  Rooted' /\ \A b \in Actions : IntoActive(b)'
  BY AsideStep DEF RootedInv
<1>2. Rooted /\ Placed(a) /\ \A b \in Actions : IntoActive(b)
  BY <1>1 DEF RootedInv
<1>3. Rooted' /\ IntoActive(a)' /\ ever \subseteq ever'
  <2>1. CASE WriteConcept(a) \/ DeleteSource(a) \/ Bury(a)
    BY <1>1, <1>2, <2>1, RootsWrite, RootsDelete, RootsBury
  <2>2. CASE ~(WriteConcept(a) \/ DeleteSource(a) \/ Bury(a))
    BY <1>2, <2>2, Still, RootsFrame, RootsRead, RootsStill
  <2>3. QED
    BY <2>1, <2>2
<1>4. QED
  BY <1>1, <1>2, <1>3, IntoOthers

-----------------------------------------------------------------------------
\* The walk along the tombstones.

LEMMA WalkIs ==
  ASSUME TypeOK, NEW c \in Concepts
  PROVE  \E f : /\ f[0] = c
                /\ \A n \in Nat : /\ f[n] \in Concepts \cup {None}
                                  /\ f[n + 1] = IF f[n] = None \/ f[n] \in vault.active THEN f[n]
                                                ELSE vault.tomb[f[n]]
                /\ RedirectChain(vault, c) = IF f[RedirectLimit] \in vault.active
                                             THEN f[RedirectLimit] ELSE None
<1> DEFINE Eq(f) == f = [n \in Nat |-> IF n = 0 THEN c
                                       ELSE IF f[n - 1] = None \/ f[n - 1] \in vault.active THEN f[n - 1]
                                       ELSE vault.tomb[f[n - 1]]]
           f == CHOOSE g : Eq(g)
<1>1. RedirectChain(vault, c) = IF f[RedirectLimit] \in vault.active THEN f[RedirectLimit] ELSE None
  BY DEF RedirectChain
<1>2. PICK S, hop : /\ S = Concepts \cup {None}
                    /\ hop = [d \in S |-> IF d = None \/ d \in vault.active THEN d ELSE vault.tomb[d]]
  OBVIOUS
<1>3. c \in S /\ \A d \in S : hop[d] \in S
  BY <1>2, VaultType
<1>4. \A n \in Nat : /\ Iterated(hop, n, c) \in S /\ Iterated(hop, 0, c) = c
                     /\ Iterated(hop, n + 1, c) = hop[Iterated(hop, n, c)]
  BY ONLY <1>3, IteratedFacts
<1>5. PICK w : w = [n \in Nat |-> Iterated(hop, n, c)]
  OBVIOUS
<1>6. /\ w \in [Nat -> S] /\ w[0] = c /\ \A n \in Nat : w[n + 1] = hop[w[n]]
  BY <1>4, <1>5
<1>7. \A n \in Nat \ {0} : n - 1 \in Nat /\ w[n] = hop[w[n - 1]] /\ w[n - 1] \in S
  BY <1>6
<1>8. Eq(w)
  BY <1>2, <1>6, <1>7
<1>9. Eq(f)
  BY <1>8
<1>10. PICK g : g = f /\ Eq(g)
  BY <1>9
<1> HIDE DEF f
<1>11. g[0] = c /\ \A n \in Nat : g[n + 1] = IF g[n] = None \/ g[n] \in vault.active THEN g[n]
                                            ELSE vault.tomb[g[n]]
  <2>1. ASSUME NEW n \in Nat
        PROVE  g[n + 1] = IF g[n] = None \/ g[n] \in vault.active THEN g[n] ELSE vault.tomb[g[n]]
    <3>1. n + 1 \in Nat /\ n + 1 # 0 /\ (n + 1) - 1 = n
      OBVIOUS
    <3>2. g[n + 1] = IF n + 1 = 0 THEN c
                     ELSE IF g[(n + 1) - 1] = None \/ g[(n + 1) - 1] \in vault.active THEN g[(n + 1) - 1]
                     ELSE vault.tomb[g[(n + 1) - 1]]
      BY <1>10, <3>1
    <3>3. QED
      BY <3>1, <3>2
  <2>2. QED
    BY <1>10, <2>1
<1>12. \A n \in Nat : g[n] \in S
  <2> DEFINE T == {n \in Nat : g[n] \in S}
  <2>1. 0 \in T
    BY <1>3, <1>11
  <2>2. ASSUME NEW n \in T
        PROVE  n + 1 \in T
    <3>1. n \in Nat /\ n + 1 \in Nat /\ g[n] \in S
      OBVIOUS
    <3>2. vault.tomb \in [Concepts -> Concepts \cup {None}]
      BY VaultType
    <3>3. g[n + 1] \in S
      BY <1>2, <1>11, <3>1, <3>2
    <3>4. QED
      BY <3>1, <3>3
  <2>3. T \in SUBSET Nat
    OBVIOUS
  <2> HIDE DEF T
  <2>4. T = Nat
    BY <2>1, <2>2, <2>3, NatInd
  <2>5. QED
    BY <2>4 DEF T
<1>13. QED
  BY <1>1, <1>2, <1>10, <1>11, <1>12

\* With nobody about to bury a concept, the walk from an id ends at an active concept, the one
\* that any map that agrees with the tombstones gives.
LEMMA WalkEnds ==
  ASSUME TypeOK, Rooted, MergesAside, Unburied = {}, NEW c \in Known
  PROVE  /\ RedirectChain(vault, c) \in vault.active
         /\ \A h : (\A d \in Known \ vault.active : h[vault.tomb[d]] = h[d])
                     => h[RedirectChain(vault, c)] = h[c]
<1>1. PICK f : /\ f[0] = c
               /\ \A n \in Nat : /\ f[n] \in Concepts \cup {None}
                                 /\ f[n + 1] = IF f[n] = None \/ f[n] \in vault.active THEN f[n]
                                               ELSE vault.tomb[f[n]]
               /\ RedirectChain(vault, c) = IF f[RedirectLimit] \in vault.active
                                            THEN f[RedirectLimit] ELSE None
  BY WalkIs DEF Known
<1>2. Buried = Known \ vault.active /\ None \notin Known /\ Known \subseteq Concepts
  BY NotesAssumption DEF Buried, Known
<1>3. \A n \in Nat : f[n] \in Known
  <2> DEFINE T == {n \in Nat : f[n] \in Known}
  <2>1. 0 \in T
    BY <1>1
  <2>2. ASSUME NEW n \in T
        PROVE  n + 1 \in T
    BY <1>1, <1>2 DEF Rooted
  <2>3. T \in SUBSET Nat
    OBVIOUS
  <2> HIDE DEF T
  <2>4. T = Nat
    BY <2>1, <2>2, <2>3, NatInd
  <2>5. QED
    BY <2>4 DEF T
<1>4. \A n \in Nat : f[n + 1] = IF f[n] \in vault.active THEN f[n] ELSE vault.tomb[f[n]]
  BY <1>1, <1>2, <1>3
<1>5. PICK L : L = RedirectLimit /\ L \in Nat
  BY FaultsAssumption
<1>6. f[L] \in vault.active
  <2>1. SUFFICES ASSUME f[L] \notin vault.active
                 PROVE  FALSE
    OBVIOUS
  <2>2. \A i \in 0..L : f[i] \notin vault.active
    <3> DEFINE T == {n \in Nat : n <= L => f[L - n] \notin vault.active}
    <3>1. 0 \in T
      BY <1>5, <2>1
    <3>2. ASSUME NEW n \in T
          PROVE  n + 1 \in T
      BY <1>5, <1>4
    <3>3. T \in SUBSET Nat
      OBVIOUS
    <3> HIDE DEF T
    <3>4. T = Nat
      BY <3>1, <3>2, <3>3, NatInd
    <3>5. SUFFICES ASSUME NEW i \in 0..L
                   PROVE  f[i] \notin vault.active
      OBVIOUS
    <3>6. L - i \in Nat /\ L - i <= L /\ L - (L - i) = i
      BY <1>5
    <3>7. QED
      BY <3>4, <3>6 DEF T
  <2> DEFINE T == {d \in Concepts : vault.tomb[d] # None}
             g == [i \in 0..L |-> f[i]]
  <2>3. \A i \in 0..L : f[i] \in Buried
    BY <1>2, <1>3, <1>5, <2>2
  <2>4. Buried \subseteq T
    BY <1>2 DEF Rooted
  <2>5. g \in [0..L -> T]
    BY <2>3, <2>4
  <2>6. IsFiniteSet(T) /\ IsFiniteSet(0..L) /\ Cardinality(0..L) = L + 1
    BY <1>5, NotesAssumption, FS_Subset, FS_Interval
  <2>7. Cardinality(T) \in Nat /\ Cardinality(T) < Cardinality(0..L)
    BY <1>5, <2>6, FS_CardinalityType DEF MergesAside
  <2>8. PICK p \in 0..L, q \in 0..L : p # q /\ g[p] = g[q]
    <3> HIDE DEF T, g
    <3>1. QED
      BY <2>5, <2>6, <2>7, FS_PigeonHole
  <2>9. PICK i \in 0..L, j \in 0..L : i < j /\ f[i] = f[j]
    BY <1>5, <2>8
  <2> DEFINE Z == {f[m] : m \in i..(j - 1)}
  <2>10. i \in i..(j - 1)
    BY <1>5, <2>9
  <2>11. \A m \in i..(j - 1) : /\ m \in 0..L /\ m \in Nat
                               /\ m + 1 = j \/ m + 1 \in i..(j - 1)
    BY <1>5, <2>9
  <2>12. Z \in SUBSET Buried /\ f[i] \in Z
    BY <2>3, <2>10, <2>11
  <2>13. PICK d \in Z : vault.tomb[d] \notin Z
    BY <2>12 DEF Rooted
  <2>14. PICK m \in i..(j - 1) : d = f[m]
    OBVIOUS
  <2>15. vault.tomb[d] = f[m + 1]
    BY <1>4, <2>2, <2>11, <2>14
  <2>16. f[m + 1] \in Z
    BY <2>9, <2>11, <2>12
  <2>17. QED
    BY <2>13, <2>15, <2>16
<1>7. ASSUME NEW h, \A d \in Known \ vault.active : h[vault.tomb[d]] = h[d]
      PROVE  h[f[L]] = h[c]
  <2> DEFINE T == {n \in Nat : h[f[n]] = h[c]}
  <2>1. 0 \in T
    BY <1>1
  <2>2. ASSUME NEW n \in T
        PROVE  n + 1 \in T
    BY <1>3, <1>4, <1>7
  <2>3. T \in SUBSET Nat
    OBVIOUS
  <2> HIDE DEF T
  <2>4. T = Nat
    BY <2>1, <2>2, <2>3, NatInd
  <2>5. QED
    BY <1>5, <2>4 DEF T
<1>8. QED
  BY <1>1, <1>5, <1>6, <1>7

\* Then every id is found.
LEMMA FoundById ==
  ASSUME TypeOK, Rooted, MergesAside, Unburied = {}, NEW c \in Known
  PROVE  Resolve(vault, c) # {}
BY WalkEnds, VaultType, NotesAssumption DEF Resolve, Known

-----------------------------------------------------------------------------
\* The heirs of the concepts.

\* An id stands for its heir, whatever aliases are left.
LEMMA StandsForHeir ==
  ASSUME TypeOK, Rooted, MergesAside, NEW h, Heirs(h), NEW c \in Known,
         \A b \in Actions : job[b].at \notin {"delete", "bury"}
  PROVE  Resolve(vault, c) = {h[c]} /\ h[c] \in vault.active
<1>1. Unburied = {} /\ Buried = Known \ vault.active
  BY DEF Unburied, Buried
<1>2. /\ RedirectChain(vault, c) \in vault.active
      /\ h[RedirectChain(vault, c)] = h[c]
  BY <1>1, WalkEnds DEF Heirs
<1>3. RedirectChain(vault, c) = h[c] /\ h[c] # None
  BY <1>2, VaultType, NotesAssumption DEF Heirs
<1>4. \A x \in AliasHits(vault, c) : h[c] = x
  BY DEF AliasHits, Heirs, Heads, Merging, Known
<1>5. c \in vault.active => h[c] = c
  BY DEF Heirs
<1>6. QED
  BY <1>2, <1>3, <1>4, <1>5 DEF Resolve, Known

\* Only merges run beside another apply.
LEMMA Alone ==
  ASSUME TypeOK, Beside, MergesAside, NEW a \in Running, NEW b \in Actions, b # a
  PROVE  \/ job[b].at = "idle"
         \/ /\ plan[b].kind = "merge" /\ plan[a].kind = "merge"
            /\ plan[a].target \notin Sources(b) /\ plan[b].target \notin Sources(a)
            /\ OneEach => Sources(a) \cap Sources(b) = {}
BY TwoRun DEF Running

LEMMA IdleHeir ==
  ASSUME NEW h, NEW b, job'[b].at \in {"idle", "block", "fail", "record", "reload", "load", "decide", "supersede"}
  PROVE  HeirJob(h, b)'
BY DEF HeirJob, Merging

\* What an apply knows stays true when another one neither deletes nor changes what is meant.
LEMMA HeirBeside ==
  ASSUME NEW h, NEW b, HeirJob(h, b), job'[b] = job[b], plan' = plan,
         plan[b].kind = "merge", vault.active \subseteq vault'.active, Known \subseteq Known', meant' = meant,
         \A y \in Known : \A x : Heads(h, y, x) => Heads(h, y, x)',
         Merging(b, {"read", "write"}) => job[b].got \cap Concepts \subseteq Known
  PROVE  HeirJob(h, b)'
BY PlanFrame DEF HeirJob, Merging

\* The loops of the others, and the one of a unless it deletes, go on to delete what they did.
LEMMA HeadsStay ==
  ASSUME TypeOK, NEW a \in Actions, Step(a), job[a].at \notin {"delete", "bury"}, NEW h, NEW y, NEW x,
         Heads(h, y, x)
  PROVE  Heads(h, y, x)'
BY StepFrame DEF Heads, Merging

\* What a step shows that neither deletes nor buries, and leaves the vault and the tags alone.
LEMMA HeirsFrame ==
  ASSUME TypeOK, NEW a \in Actions, Step(a), ~WriteConcept(a), ~DeleteSource(a), ~Bury(a),
         NEW h, Heirs(h)
  PROVE  Heirs(h)'
<1>1. /\ vault'.active = vault.active /\ vault'.aliases = vault.aliases
      /\ vault'.tomb = vault.tomb /\ Known' = Known /\ Buried' = Buried
  BY Still DEF Known, Buried
<1>2. job[a].at \notin {"delete", "bury"}
  BY DEF Step, Here, Check, Block, ReadConcept, ListGarden, ReadTags, SetTags, Decide, Supersede,
         Record, Pop, Load, Fail
<1>3. \A y, x : Heads(h, y, x) => Heads(h, y, x)'
  BY <1>2, HeadsStay
<1>4. QED
  BY <1>1, <1>3 DEF Heirs

LEMMA HeirRead ==
  ASSUME TypeOK, NEW a \in Actions, Placed(a), ReadConcept(a), Beside, MergesAside, Rooted,
         NEW h, Heirs(h), HeirJob(h, a), IntoActive(a)
  PROVE  HeirJob(h, a)'
<1>0. PICK c, k : c = Head(job[a].todo) /\ k = plan[a].target
  OBVIOUS
<1>1. /\ plan' = plan /\ vault' = vault /\ job[a].at = "read" /\ a \in Running
      /\ plan[a].kind = "merge" /\ Sources(a)' = Sources(a) /\ plan'[a].target = k
      /\ ToSet(job[a].todo) = {c} \cup ToSet(Rest(a))
      /\ Rest(a) = <<>> => ToSet(Rest(a)) = {}
      /\ c \in Sources(a) \cup {k}
  BY <1>0, PlanLemma, LoopHead, PlanFrame DEF ReadConcept, Here, Reads, notes, Placed, Running
<1>2. CASE c \notin vault.active
  BY <1>0, <1>2, GoesTo, IdleHeir DEF ReadConcept, At
<1>3. CASE c \in vault.active
  <2>1. PICK got : got = job[a].got \cup NewAliases(a, c)
    OBVIOUS
  <2>2. \/ job'[a].at = "write" /\ Rest(a) = <<>> /\ job'[a].got = got
        \/ job'[a].at = "read" /\ job'[a].todo = Rest(a) /\ job'[a].got = got
    BY <1>0, <1>3, <2>1, GoesTo DEF ReadConcept, At
  <2>3. Sources(a) \ ToSet(Rest(a)) \subseteq vault.active
    BY <1>1, <1>3 DEF HeirJob, Merging
  <2>4. ASSUME NEW y \in got \cap Concepts
        PROVE  Heads(h, y, k) \/ h[y] \in Sources(a)
    BY <1>0, <1>1, <2>4, <1>3, Alone, <2>1 DEF HeirJob, Merging, Heirs, Heads, NewAliases
  <2>5. \A y \in got \cap Concepts : Heads(h, y, k)' \/ h[y] \in Sources(a)
    BY <1>1, <2>4, HeadsStay DEF Step
  <2>6. QED
    BY <1>1, <2>2, <2>3, <2>5 DEF HeirJob, Merging
<1>4. QED
  BY <1>2, <1>3

LEMMA HeirCheck ==
  ASSUME TypeOK, NEW a \in Actions, Placed(a), Check(a), NEW h, HeirJob(h, a)
  PROVE  HeirJob(h, a)'
<1>1. /\ plan' = plan /\ vault' = vault /\ job[a].at = "check" /\ Sources(a)' = Sources(a)
  BY PlanFrame DEF Check, Here, Reads, notes
<1>2. CASE job'[a] = At("block", <<>>, {})
  BY <1>2, IdleHeir DEF At
<1>3. CASE job[a].todo = <<>> /\ job'[a] = Begins(a)
  BY <1>3, PlanLemma, <1>1 DEF ToSet, Begins, At, HeirJob, Merging
<1>4. CASE job[a].todo # <<>> /\ Passes(a, Head(job[a].todo)) /\ job'[a] = At("check", Rest(a), {})
  BY <1>4, LoopHead, <1>1 DEF At, Passes, HeirJob, Merging
<1>5. QED
  BY <1>2, <1>3, <1>4, GoesTo DEF Check

\* The first steps of a retag, and of a merge that goes on to the notes.
LEMMA HeirTags ==
  ASSUME TypeOK, NEW a \in Actions, Placed(a), ListGarden(a) \/ ReadTags(a), NEW h \in [Concepts -> Concepts],
         Heirs(h), HeirsMeant(h), AllKnown, Rooted, HeirJob(h, a), IntoActive(a)
  PROVE  HeirJob(h, a)'
<1>1. /\ plan' = plan /\ vault' = vault /\ tags' = tags /\ meant' = meant /\ ever' = ever
      /\ Sources(a)' = Sources(a)
  BY PlanFrame DEF ListGarden, ReadTags, Reads, notes, history
<1>2. Known' = Known
  BY <1>1 DEF Known
<1>3. CASE job'[a].at \in {"record", "retag"}
  BY <1>1, <1>3 DEF ListGarden, ReadTags, Here, HeirJob, Merging, Placed
<1>4. CASE ReadTags(a) /\ job'[a].at = "set"
  <2>1. PICK n : n = Head(job[a].todo)
    OBVIOUS
  <2>2. n \in Notes /\ job[a].at = "retag"
    BY <1>4, <2>1, LoopHead DEF ReadTags, Here, Placed
  <2>3. job'[a].todo = job[a].todo /\ job'[a].got = Retagged(a, tags[n])
    BY <1>4, <2>1, GoesTo DEF ReadTags, ToRetag, At
  <2>4. CASE plan[a].kind = "retag"
    BY <1>1, <2>4, <2>2, <2>1, <2>3 DEF Retagged, HeirJob, Merging
  <2>5. CASE plan[a].kind = "merge"
    <3>1. PICK k : k = plan[a].target
      OBVIOUS
    <3>2. (\A s \in Sources(a) : h[s] = k) /\ k \in vault.active
      BY <2>2, <2>5, <3>1 DEF HeirJob, IntoActive, Merging
    <3>3. job'[a].got = {IF t \in Sources(a) THEN k ELSE t : t \in tags[n]}
      BY <2>3, <2>5, <3>1 DEF Retagged
    <3>4. k \in Known /\ h[k] = k
      BY <3>2, VaultType DEF Rooted, Known, Heirs
    <3>5. job'[a].got \subseteq Known
      BY <2>2, <3>3, <3>4 DEF AllKnown
    <3>6. ASSUME NEW c \in meant[n]
          PROVE  \E t \in job'[a].got : h[t] = h[c]
      BY <2>2, <3>2, <3>3, <3>4 DEF HeirsMeant
    <3>7. QED
      BY <1>1, <1>2, <1>4, <2>1, <2>3, <2>5, <3>1, <3>2, <3>5, <3>6 DEF HeirJob, Merging
  <2>6. QED
    BY <2>2, <2>4, <2>5 DEF Placed
<1>5. QED
  BY <1>3, <1>4, GoesTo DEF ListGarden, ReadTags, ToRetag, At

LEMMA HeirRest ==
  ASSUME TypeOK, NEW a \in Actions, Placed(a), NEW h,
         Block(a) \/ Decide(a) \/ Supersede(a) \/ Record(a) \/ Pop(a) \/ Load(a) \/ Fail(a)
  PROVE  HeirJob(h, a)'
<1>1. job'[a].at \in {"idle", "supersede", "record", "reload", "load"}
  BY GoesTo, RecordGoesOn, PopGoesOn, IdleJob
     DEF Block, Decide, Supersede, Load, Fail, ToSupersede, ToReload, At, Idle
<1>2. QED
  BY <1>1, IdleHeir

\* The invariant after a step that leaves the heirs as they are.
LEMMA SameHeirs ==
  ASSUME TypeOK, NEW a \in Actions, Step(a), Beside, MergesAside, Rooted, \A e \in Actions : IntoActive(e),
         NEW h, \A e \in Actions : HeirJob(h, e), HeirJob(h, a)',
         vault.active \subseteq vault'.active, Known \subseteq Known', meant' = meant,
         \A y \in Known : \A x : Heads(h, y, x) => Heads(h, y, x)'
  PROVE  \A b \in Actions : HeirJob(h, b)'
BY StepFrame, IdleHeir, HeirBeside, Alone DEF IntoActive, Merging, Known

LEMMA HeirsStill ==
  ASSUME TypeOK, NEW a \in Actions, \A e \in Actions : Placed(e), Step(a), ~WriteConcept(a), ~DeleteSource(a),
         ~Bury(a), ~SetTags(a), Beside, MergesAside, Rooted, \A e \in Actions : IntoActive(e), HeirsInv
  PROVE  HeirsInv'
<1>1. PICK h \in [Concepts -> Concepts] : /\ Heirs(h) /\ HeirsMeant(h)
                                          /\ \A e \in Actions : HeirJob(h, e)
  BY DEF HeirsInv
<1>2. /\ vault'.active = vault.active /\ ever' = ever /\ plan' = plan /\ Heirs(h)'
  BY <1>1, Still, StepFrame, HeirsFrame
<1>3. tags' = tags /\ meant' = meant
  BY DEF Step, Check, Block, ReadConcept, ListGarden, ReadTags, Decide, Supersede, Record, Pop, Load,
         Fail, Reads, Puts, notes, history
<1>4. HeirJob(h, a)'
  BY <1>1, HeirRead, HeirCheck, HeirTags, HeirRest DEF Step, HeirsInv
<1>5. \A y \in Known : \A x : Heads(h, y, x) => Heads(h, y, x)'
  <2>1. job[a].at \notin {"delete", "bury"}
    BY DEF Step, Here, Check, Block, ReadConcept, ListGarden, ReadTags, SetTags, Decide, Supersede,
           Record, Pop, Load, Fail
  <2>2. QED
    BY <2>1, HeadsStay
<1>6. \A b \in Actions : HeirJob(h, b)'
  BY <1>1, <1>2, <1>3, <1>4, <1>5, SameHeirs DEF Known
<1>7. AllKnown' /\ HeirsMeant(h)'
  BY <1>1, <1>2, <1>3, PlanFrame DEF HeirsInv, AllKnown, HeirsMeant, Known
<1>8. QED
  BY <1>1, <1>2, <1>6, <1>7 DEF HeirsInv

LEMMA HeirsMerge ==
  ASSUME TypeOK, NEW a \in Actions, \A e \in Actions : Placed(e), WriteConcept(a), plan[a].kind = "merge",
         Beside, MergesAside, Rooted, \A e \in Actions : IntoActive(e), HeirsInv
  PROVE  HeirsInv'
<1>0. PICK k, got : k = plan[a].target /\ got = job[a].got
  OBVIOUS
<1>1. PICK h \in [Concepts -> Concepts] : /\ Heirs(h) /\ HeirsMeant(h)
                                          /\ \A e \in Actions : HeirJob(h, e)
  BY DEF HeirsInv
<1>2. /\ plan' = plan /\ job[a].at = "write" /\ ever' = ever \cup {k} \cup got /\ tags' = tags /\ meant' = meant
      /\ k \in Concepts /\ vault'.active = vault.active \cup {k}
      /\ vault'.aliases = [vault.aliases EXCEPT ![k] = got] /\ vault'.tomb = vault.tomb
      /\ Sources(a)' = Sources(a)
  BY <1>0, WriteEffect, PlanFrame DEF WriteConcept, Here, Puts
<1>3. k \in vault.active /\ got \subseteq ever /\ vault'.active = vault.active
  BY <1>0, <1>2 DEF IntoActive, Merging
<1>4. ever' = ever /\ Known' = Known
  BY <1>2, <1>3 DEF Rooted, Known
<1>5. job[a].todo = plan[a].sources /\ job[a].todo # <<>>
  BY <1>2, PlanLemma, Members DEF Placed, Going, Sources
<1>6. job'[a].at = "delete" /\ job'[a].todo = plan[a].sources
  BY <1>5, GoesTo DEF WriteConcept, At
<1>7. Step(a)
  BY DEF Step
<1>8. \A y, x : Heads(h, y, x) => Heads(h, y, x)'
  BY <1>2, <1>7, HeadsStay
<1>9. HeirJob(h, a)'
  BY <1>1, <1>2, <1>6, <1>3 DEF HeirJob, Merging, Sources
<1>10. \A b \in Actions : HeirJob(h, b)'
  BY <1>1, <1>2, <1>3, <1>4, <1>7, <1>8, <1>9, SameHeirs
<1>11. \A y \in got \cap Concepts : Heads(h, y, k)'
  <2>1. SUFFICES ASSUME NEW y \in got \cap Concepts, h[y] \in Sources(a)
                 PROVE  Heads(h, y, k)'
    BY <1>0, <1>1, <1>2, <1>8 DEF HeirJob, Merging
  <2>2. h[y] \in ToSet(job'[a].todo)
    BY <1>6, <2>1 DEF Sources
  <2>3. Merging(a, {"delete", "bury"})' /\ plan'[a].target = k
    BY <1>0, <1>2, <1>6 DEF Merging
  <2>4. QED
    BY <2>2, <2>3 DEF Heads
<1>12. Buried' = Buried
  BY <1>2, <1>6, <1>7, StepFrame, <1>3, <1>4 DEF Unburied, Buried
<1>13. Heirs(h)'
  <2>1. vault.aliases \in [Concepts -> SUBSET Aliases] /\ vault.active \subseteq Concepts
    BY VaultType
  <2>2. \A x \in vault'.active : \A y \in vault'.aliases[x] \cap Concepts : Heads(h, y, x)'
    BY <1>1, <1>2, <1>3, <1>8, <1>11, <2>1 DEF Heirs
  <2>3. QED
    BY <1>1, <1>2, <1>3, <1>4, <1>12, <2>2 DEF Heirs
<1>14. AllKnown' /\ HeirsMeant(h)'
  BY <1>1, <1>2, <1>3, <1>4, PlanFrame DEF HeirsInv, AllKnown, HeirsMeant
<1>15. QED
  BY <1>1, <1>10, <1>13, <1>14 DEF HeirsInv

\* A new concept is its own heir.
LEMMA HeirsCreate ==
  ASSUME TypeOK, NEW a \in Actions, \A e \in Actions : Placed(e), WriteConcept(a), plan[a].kind = "create",
         Beside, MergesAside, ~Renewed, Rooted, HeirsInv
  PROVE  HeirsInv'
<1>0. PICK k, got : k = plan[a].target /\ got = job[a].got
  OBVIOUS
<1>1. PICK h \in [Concepts -> Concepts] : Heirs(h) /\ HeirsMeant(h)
  BY DEF HeirsInv
<1>2. /\ plan' = plan /\ job[a].at = "write" /\ ever' = ever \cup {k} \cup got /\ tags' = tags /\ meant' = meant
      /\ k \in Concepts /\ vault'.active = vault.active \cup {k}
      /\ vault'.aliases = [vault.aliases EXCEPT ![k] = got] /\ vault'.tomb = vault.tomb
  BY <1>0, WriteEffect DEF WriteConcept, Here, Puts
<1>3. got \cap Concepts = {} /\ job[a].todo = <<>>
  BY <1>0, <1>2, PlanLemma DEF Placed, MergesAside
<1>4. job'[a].at = "record" /\ a \in Running
  BY <1>2, <1>3, GoesTo DEF WriteConcept, At, Running
<1>5. Known' = Known \cup {k}
  BY <1>2, <1>3 DEF Known
<1>6. k \in Known => k \in vault.active
  BY <1>0 DEF Renewed, Removed, HeirsInv, AllKnown
<1>7. PICK g : g = [h EXCEPT ![k] = k]
  OBVIOUS
<1>8. /\ g \in [Concepts -> Concepts] /\ g[k] = k
      /\ \A y \in Known : g[y] = h[y]
  BY <1>1, <1>2, <1>6, <1>7 DEF Known, Heirs
<1>9. \A b \in Actions : b # a => job[b].at = "idle" /\ job'[b].at = "idle"
  BY <1>4, Alone, StepFrame DEF Step
<1>10. \A b \in Actions : HeirJob(g, b)'
  BY <1>4, <1>9, IdleHeir
<1>11. Buried' \subseteq Buried
  BY <1>2, <1>4, <1>9, <1>5 DEF Unburied, Buried
<1>12. Heirs(g)'
  <2>1. /\ vault.aliases \in [Concepts -> SUBSET Aliases] /\ vault.active \subseteq Concepts
        /\ vault.active \subseteq Known
    BY VaultType DEF Rooted, Known
  <2>2. \A x \in vault'.active : \A y \in vault'.aliases[x] \cap Concepts : Heads(g, y, x)'
    BY <1>2, <1>3, <2>1, <1>1, <1>9, <1>8 DEF Heirs, Rooted, Known, Heads, Merging
  <2>3. \A c \in Buried : g[vault.tomb[c]] = g[c]
    BY <1>1, <1>8 DEF Heirs, Rooted, Buried
  <2>4. QED
    BY <1>1, <1>2, <1>5, <1>8, <1>11, <2>1, <2>2, <2>3 DEF Heirs
<1>13. HeirsMeant(g)'
  BY <1>1, <1>2, <1>8 DEF HeirsMeant, HeirsInv, AllKnown
<1>14. AllKnown'
  BY <1>2, <1>5, PlanFrame DEF HeirsInv, AllKnown
<1>15. QED
  BY <1>8, <1>10, <1>12, <1>13, <1>14 DEF HeirsInv

\* What a deletes goes to the concept it merges into.
LEMMA HeirsDelete ==
  ASSUME TypeOK, NEW a \in Actions, \A e \in Actions : Placed(e), DeleteSource(a),
         Beside, MergesAside, OneEach, Rooted, \A e \in Actions : IntoActive(e), HeirsInv
  PROVE  HeirsInv'
<1>0. PICK c, k : c = Head(job[a].todo) /\ k = plan[a].target
  OBVIOUS
<1>1. PICK h \in [Concepts -> Concepts] : /\ Heirs(h) /\ HeirsMeant(h)
                                          /\ \A e \in Actions : HeirJob(h, e)
  BY DEF HeirsInv
<1>2. /\ plan' = plan /\ job[a].at = "delete" /\ ever' = ever /\ tags' = tags /\ meant' = meant
      /\ plan[a].kind = "merge" /\ c \in Sources(a) /\ c \in Concepts
      /\ vault'.active = vault.active \ {c}
      /\ vault'.aliases = [vault.aliases EXCEPT ![c] = {}] /\ vault'.tomb = vault.tomb
      /\ Known' = Known /\ a \in Running /\ \A b : Sources(b)' = Sources(b)
  BY <1>0, DeleteEffect, PlanFrame DEF DeleteSource, Here, Puts, Known, Running
<1>3. job'[a].at = "bury" /\ job'[a].todo = job[a].todo /\ \A b \in Actions : b # a => job'[b] = job[b]
  BY GoesTo DEF DeleteSource, At
<1>4. k \in vault.active /\ k \notin Sources(a) /\ k # c /\ k \in Concepts
  BY <1>0, <1>2, VaultType DEF IntoActive, Merging, Placed, Going
<1>5. PICK g : g = [x \in Concepts |-> IF h[x] = c THEN k ELSE h[x]]
  OBVIOUS
<1>6. /\ g \in [Concepts -> Concepts]
      /\ \A x \in Concepts : g[x] = IF h[x] = c THEN k ELSE h[x]
  BY <1>1, <1>4, <1>5
<1>7. /\ Known \subseteq Concepts /\ vault.active \subseteq Known
      /\ vault.aliases \in [Concepts -> SUBSET Aliases]
  BY VaultType DEF Known, Rooted
<1>8. \A b \in Actions : b = a \/ job[b].at = "idle"
                         \/ /\ plan[b].kind = "merge" /\ c \notin Sources(b) /\ c # plan[b].target
                            /\ Sources(b) \subseteq Concepts
  BY <1>2, Alone, PlanLemma
<1>9. ASSUME NEW y \in Concepts, NEW x, x # c, Heads(h, y, x)
      PROVE  Heads(g, y, x)'
  BY <1>6, <1>9, <1>2, <1>3, <1>8, <1>0 DEF Heads, Merging, Placed
<1>10. Buried' \subseteq Buried
  BY <1>0, <1>2, <1>3 DEF Unburied, Buried
<1>11. Heirs(g)'
  <2>1. \A d \in vault'.active : g[d] = d
    BY <1>1, <1>2, <1>6, <1>7 DEF Heirs
  <2>2. \A d \in Known : g[d] \in vault'.active
    BY <1>1, <1>2, <1>4, <1>6, <1>7 DEF Heirs
  <2>3. \A d \in Buried : vault.tomb[d] \in Known /\ d \in Known /\ h[vault.tomb[d]] = h[d]
    BY <1>1 DEF Heirs, Rooted, Buried
  <2>4. \A d \in Buried : g[vault.tomb[d]] = g[d]
    BY <1>6, <1>7, <2>3
  <2>5. \A x \in vault'.active : \A y \in vault'.aliases[x] \cap Concepts : Heads(g, y, x)'
    BY <1>1, <1>2, <1>7, <1>9 DEF Heirs
  <2>6. QED
    BY <1>2, <1>10, <2>1, <2>2, <2>4, <2>5 DEF Heirs
<1>12. HeirJob(g, a)'
  <2>1. Sources(a) \subseteq Concepts /\ c \in vault.active => h[c] = c
    BY <1>1, <1>2, PlanLemma DEF Heirs
  <2>2. \A s \in Sources(a) : s \in ToSet(job[a].todo) \cap vault.active \/ h[s] = k
    BY <1>0, <1>1, <1>2 DEF HeirJob, Merging
  <2>3. \A s \in Sources(a) : s \in Concepts
    BY <1>2, PlanLemma
  <2>4. g[c] = k
    BY <1>2, <1>6, <2>1, <2>2, <2>3
  <2>5. \A s \in Sources(a) : s \in ToSet(job[a].todo) \cap vault'.active \/ g[s] = k
    BY <1>2, <1>4, <1>6, <2>2, <2>3, <2>4
  <2>6. QED
    BY <1>0, <1>2, <1>3, <2>4, <2>5 DEF HeirJob, Merging
<1>13. ASSUME NEW b \in Actions, b # a, plan[b].kind = "merge", c \notin Sources(b), c # plan[b].target,
              Sources(b) \subseteq Concepts
       PROVE  HeirJob(g, b)'
  <2>1. PICK j, S : j = plan[b].target /\ S = Sources(b)
    OBVIOUS
  <2>2. HeirJob(h, b) /\ job'[b] = job[b] /\ plan'[b] = plan[b] /\ Sources(b)' = S
    BY <1>1, <1>2, <1>3, <1>13, <2>1
  <2>3. \A s \in S : s \in vault.active => s \in vault'.active
    BY <1>2, <1>13, <2>1
  <2>4. \A s \in Concepts : h[s] = j => g[s] = j
    BY <1>6, <1>13, <2>1
  <2>5. \A y \in Concepts : Heads(h, y, j) => Heads(g, y, j)'
    BY <1>9, <1>13, <2>1
  <2>6. \A y \in Concepts : h[y] \in S => g[y] \in S
    BY <1>6, <1>13, <2>1
  <2>7. Merging(b, {"set"}) =>
          /\ job[b].got \subseteq Known
          /\ \A d \in meant[Head(job[b].todo)] : \E t \in job[b].got : g[t] = g[d]
    BY <2>2, LoopHead, <1>6, <1>7 DEF HeirJob, Merging, Placed, HeirsInv, AllKnown
  <2>8. Merging(b, {"bury"}) => Head(job[b].todo) \in Concepts /\ h[Head(job[b].todo)] = j
    BY <2>1, <2>2, <1>13, LoopHead DEF HeirJob, Merging, Placed
  <2>9. /\ Merging(b, {"read"}) => S \ ToSet(job[b].todo) \subseteq vault'.active
        /\ Merging(b, {"write"}) => S \subseteq vault'.active
        /\ Merging(b, {"delete", "bury"}) => \A s \in S : s \in ToSet(job[b].todo) \cap vault'.active \/ g[s] = j
        /\ Merging(b, {"list", "retag", "set"}) => \A s \in S : g[s] = j
    BY <1>13, <2>1, <2>2, <2>3, <2>4 DEF HeirJob
  <2>10. Merging(b, {"read", "write"}) =>
           \A y \in job[b].got \cap Concepts : Heads(g, y, j)' \/ g[y] \in S
    BY <2>1, <2>2, <2>5, <2>6 DEF HeirJob
  <2>11. \A places : Merging(b, places)' <=> Merging(b, places)
    BY <2>2 DEF Merging
  <2>12. plan'[b].kind = "merge" /\ plan'[b].target = j
    BY <1>13, <2>1, <2>2
  <2>13. QED
    BY <1>2, <2>2, <2>4, <2>7, <2>8, <2>9, <2>10, <2>11, <2>12 DEF HeirJob
<1>14. \A b \in Actions : HeirJob(g, b)'
  BY <1>3, <1>8, <1>12, <1>13, IdleHeir
<1>15. HeirsMeant(g)'
  BY <1>1, <1>2, <1>6, <1>7 DEF HeirsMeant, HeirsInv, AllKnown
<1>16. AllKnown'
  BY <1>2, PlanFrame DEF Removed, HeirsInv, AllKnown
<1>17. QED
  BY <1>6, <1>11, <1>14, <1>15, <1>16 DEF HeirsInv

LEMMA HeirsBury ==
  ASSUME TypeOK, NEW a \in Actions, \A e \in Actions : Placed(e), Bury(a),
         Beside, MergesAside, Rooted, \A e \in Actions : IntoActive(e), HeirsInv
  PROVE  HeirsInv'
<1>0. PICK c, k : c = Head(job[a].todo) /\ k = plan[a].target
  OBVIOUS
<1>1. PICK h \in [Concepts -> Concepts] : /\ Heirs(h) /\ HeirsMeant(h)
                                          /\ \A e \in Actions : HeirJob(h, e)
  BY DEF HeirsInv
<1>2. /\ plan' = plan /\ job[a].at = "bury" /\ ever' = ever /\ tags' = tags /\ meant' = meant
      /\ plan[a].kind = "merge" /\ c \in Sources(a) /\ c \in Concepts /\ k \in Concepts
      /\ vault'.active = vault.active /\ vault'.aliases = vault.aliases
      /\ vault'.tomb = [vault.tomb EXCEPT ![c] = k]
      /\ Known' = Known /\ Sources(a)' = Sources(a) /\ Step(a) /\ job[a].todo # <<>>
  BY <1>0, BuryEffect, PlanFrame DEF Bury, Here, Puts, Known, Step, Placed
<1>3. /\ \/ Rest(a) = <<>> /\ job'[a].at = "list"
         \/ Rest(a) # <<>> /\ job'[a].at = "delete" /\ job'[a].todo = Rest(a)
      /\ \A b \in Actions : b # a => job'[b] = job[b]
  BY GoesTo DEF Bury, At
<1>4. k \in vault.active /\ k # c /\ h[k] = k /\ h[c] = k
  BY <1>0, <1>1, <1>2 DEF IntoActive, Merging, Placed, Going, Heirs, HeirJob
<1>5. /\ ToSet(job[a].todo) = {c} \cup ToSet(Rest(a))
      /\ Rest(a) = <<>> => ToSet(Rest(a)) = {}
  BY <1>0, <1>2, LoopHead
<1>6. \A y \in Known : h[y] # c
  BY <1>1, <1>4 DEF Heirs
<1>7. ASSUME NEW y \in Known, NEW x, Heads(h, y, x)
      PROVE  Heads(h, y, x)'
  BY <1>5, <1>6, <1>2, <1>3, <1>7 DEF Heads, Merging
<1>8. HeirJob(h, a)'
  BY <1>0, <1>1, <1>2, <1>4, <1>5, <1>3 DEF HeirJob, Merging
<1>9. \A b \in Actions : HeirJob(h, b)'
  BY <1>1, <1>2, <1>7, <1>8, SameHeirs
<1>10. Heirs(h)'
  <2>1. Unburied \subseteq Unburied' \cup {c}
    BY <1>0, <1>3 DEF Unburied
  <2>2. Buried' \subseteq Buried \cup {c} /\ Buried' \subseteq Concepts
    BY <1>2, <2>1 DEF Buried, Known
  <2>3. vault.tomb \in [Concepts -> Concepts \cup {None}]
    BY VaultType
  <2>4. \A d \in Buried' : h[vault'.tomb[d]] = h[d]
    BY <1>1, <1>2, <1>4, <2>2, <2>3 DEF Heirs
  <2>5. \A x \in vault.active : x \in Concepts /\ \A y \in vault.aliases[x] \cap Concepts : y \in Known
    BY VaultType DEF Rooted, Known
  <2>6. \A x \in vault'.active : \A y \in vault'.aliases[x] \cap Concepts : Heads(h, y, x)'
    BY <1>1, <1>2, <1>7, <2>5 DEF Heirs
  <2>7. QED
    BY <1>1, <1>2, <2>4, <2>6 DEF Heirs
<1>11. AllKnown' /\ HeirsMeant(h)'
  BY <1>1, <1>2, PlanFrame DEF HeirsInv, AllKnown, HeirsMeant
<1>12. QED
  BY <1>1, <1>9, <1>10, <1>11 DEF HeirsInv

\* A merge writes tags of the same heirs.
LEMMA HeirsRewrite ==
  ASSUME TypeOK, NEW a \in Actions, \A e \in Actions : Placed(e), SetTags(a), plan[a].kind = "merge",
         Beside, MergesAside, Rooted, \A e \in Actions : IntoActive(e), HeirsInv
  PROVE  HeirsInv'
<1>0. PICK n : n = Head(job[a].todo)
  OBVIOUS
<1>1. PICK h \in [Concepts -> Concepts] : /\ Heirs(h) /\ HeirsMeant(h)
                                          /\ \A e \in Actions : HeirJob(h, e)
  BY DEF HeirsInv
<1>2. /\ plan' = plan /\ vault' = vault /\ job[a].at = "set" /\ ever' = ever /\ meant' = meant
      /\ tags' = [tags EXCEPT ![n] = job[a].got] /\ Sources(a)' = Sources(a) /\ Step(a)
      /\ Known' = Known /\ n \in Notes /\ tags \in [Notes -> SUBSET Concepts]
  BY <1>0, PlanFrame, LoopHead DEF SetTags, Here, Puts, Step, Known, Placed, TypeOK
<1>3. job[a].got \subseteq Known /\ \A c \in meant[n] : \E t \in job[a].got : h[t] = h[c]
  BY <1>0, <1>1, <1>2 DEF HeirJob, Merging
<1>4. HeirJob(h, a)'
  BY GoesTo, <1>1, <1>2 DEF SetTags, ToRetag, At, HeirJob, Merging
<1>5. Heirs(h)'
  BY <1>1, <1>2, HeirsFrame DEF WriteConcept, DeleteSource, Bury, Here
<1>6. \A b \in Actions : HeirJob(h, b)'
  BY <1>1, <1>2, <1>4, HeadsStay, SameHeirs
<1>7. HeirsMeant(h)' /\ AllKnown'
  BY <1>1, <1>2, <1>3, PlanFrame DEF HeirsMeant, AllKnown, HeirsInv
<1>8. QED
  BY <1>1, <1>5, <1>6, <1>7 DEF HeirsInv

\* A retag removes with a tag what it stands for.
LEMMA HeirsRetag ==
  ASSUME TypeOK, NEW a \in Actions, \A e \in Actions : Placed(e), SetTags(a), plan[a].kind = "retag",
         Beside, MergesAside, Rooted, HeirsInv
  PROVE  HeirsInv'
<1>0. PICK n, remove, add : /\ n = Head(job[a].todo) /\ remove = plan[a].remove
                            /\ add = ToSet(plan[a].add)
  OBVIOUS
<1>1. PICK h \in [Concepts -> Concepts] : /\ Heirs(h) /\ HeirsMeant(h)
                                          /\ \A e \in Actions : HeirJob(h, e)
  BY DEF HeirsInv
<1>2. /\ plan' = plan /\ vault' = vault /\ job[a].at = "set" /\ ever' = ever /\ Step(a) /\ a \in Running
      /\ Known' = Known /\ n \in Notes /\ tags' = [tags EXCEPT ![n] = job[a].got]
      /\ meant' = [meant EXCEPT ![n] = {c \in @ : ~StandsForSome(remove, c)} \cup add]
  BY <1>0, LoopHead DEF SetTags, Here, Puts, Step, Known, Placed, Running
<1>3. add \subseteq vault.active /\ job[a].got = (tags[n] \ remove) \cup add
  BY <1>0, <1>1, <1>2 DEF HeirJob, Retagged
<1>4. /\ tags'[n] = (tags[n] \ remove) \cup add
      /\ \A m \in Notes : m # n => tags'[m] = tags[m]
      /\ meant'[n] = {c \in meant[n] : ~StandsForSome(remove, c)} \cup add
      /\ \A m \in Notes : m # n => meant'[m] = meant[m]
  BY <1>2, <1>3 DEF TypeOK
<1>5. \A b \in Actions : b # a => job[b].at = "idle" /\ job'[b].at = "idle"
  BY <1>2, Alone, StepFrame
<1>6. job'[a].at \in {"record", "retag"}
  BY GoesTo DEF SetTags, ToRetag, At
<1>7. HeirJob(h, a)'
  BY <1>0, <1>2, <1>3, <1>6 DEF HeirJob, Merging
<1>8. \A b \in Actions : HeirJob(h, b)'
  BY <1>5, <1>7, IdleHeir
<1>9. add \subseteq Known
  BY <1>3, VaultType DEF Rooted, Known
<1>10. AllKnown'
  BY <1>2, <1>4, <1>9, PlanFrame DEF HeirsInv, AllKnown
<1>11. HeirsMeant(h)'
  <2>1. SUFFICES ASSUME NEW m \in Notes, NEW c \in meant'[m]
                 PROVE  \E t \in tags'[m] : h[t] = h[c]
    BY DEF HeirsMeant
  <2>2. CASE m # n
    BY <1>1, <1>4, <2>1, <2>2 DEF HeirsMeant
  <2>3. CASE m = n /\ c \in add
    BY <1>4, <2>3
  <2>4. CASE m = n /\ c \in meant[n] /\ ~StandsForSome(remove, c)
    <3>1. PICK t \in tags[n] : h[t] = h[c]
      BY <1>1, <1>2, <2>4 DEF HeirsMeant
    <3>2. t \in Known /\ c \in Known
      BY <1>2, <2>4, <3>1 DEF HeirsInv, AllKnown
    <3>3. \A b \in Actions : job[b].at \notin {"delete", "bury"}
      BY <1>2, <1>5
    <3>4. Resolve(vault, t) \cap Resolve(vault, c) # {}
      BY <1>1, <3>1, <3>2, <3>3, StandsForHeir
    <3>5. t \notin remove
      BY <2>4, <3>4 DEF StandsForSome
    <3>6. QED
      BY <1>4, <2>4, <3>1, <3>5
  <2>5. QED
    BY <1>4, <2>1, <2>2, <2>3, <2>4
<1>12. Heirs(h)'
  BY <1>1, <1>2, HeirsFrame DEF WriteConcept, DeleteSource, Bury, Here
<1>13. QED
  BY <1>1, <1>8, <1>10, <1>11, <1>12 DEF HeirsInv

LEMMA HeirsStepOf ==
  ASSUME TypeOK, TypeOK', NEW a \in Actions, \A e \in Actions : Placed(e), Step(a), Beside, RootedInv,
         HeirsKept
  PROVE  HeirsKept'
<1>1. SUFFICES ASSUME MergesAside, OneEach, ~Renewed
               PROVE  HeirsInv'
  BY AsideStep DEF HeirsKept
<1>2. Rooted /\ HeirsInv /\ \A e \in Actions : IntoActive(e)
  BY <1>1 DEF RootedInv, HeirsKept
<1>3. CASE WriteConcept(a)
  BY <1>1, <1>2, <1>3, WriteEffect, HeirsCreate, HeirsMerge
<1>4. CASE DeleteSource(a)
  BY <1>1, <1>2, <1>4, HeirsDelete
<1>5. CASE Bury(a)
  BY <1>1, <1>2, <1>5, HeirsBury
<1>6. CASE SetTags(a)
  BY <1>6, <1>1, <1>2, HeirsRewrite, HeirsRetag DEF SetTags, Here, Placed
<1>7. CASE ~(WriteConcept(a) \/ DeleteSource(a) \/ Bury(a) \/ SetTags(a))
  BY <1>1, <1>2, <1>7, HeirsStill
<1>8. QED
  BY <1>3, <1>4, <1>5, <1>6, <1>7

\* A step that leaves the vault and the notes alone, but may begin an apply.
LEMMA SideFrame ==
  ASSUME plan' = plan, vault' = vault, tags' = tags, meant' = meant, ever' = ever,
         \A b \in Actions : \/ job'[b] = job[b]
                            \/ job[b].at = "idle" /\ job'[b].at = "check" /\ job'[b].todo = Checks(b)
  PROVE  /\ Rooted => Rooted'
         /\ \A b \in Actions : IntoActive(b) => IntoActive(b)'
         /\ HeirsInv => HeirsInv'
<1>1. Removed' = Removed /\ \A b : Sources(b)' = Sources(b) /\ Checks(b)' = Checks(b)
  BY PlanFrame
<1>2. Known' = Known /\ Unburied' = Unburied /\ Buried' = Buried
  BY DEF Known, Unburied, Buried
<1>3. Rooted => Rooted'
  BY <1>2 DEF Rooted
<1>4. \A b \in Actions : IntoActive(b) => IntoActive(b)'
  BY <1>1 DEF IntoActive, Merging
<1>5. \A h, y, x : Heads(h, y, x)' <=> Heads(h, y, x)
  BY DEF Heads, Merging
<1>6. ASSUME NEW h, NEW b \in Actions, HeirJob(h, b)
      PROVE  HeirJob(h, b)'
  <2>1. CASE job'[b] = job[b]
    BY <1>1, <2>1, <1>5, <1>2, <1>6 DEF Retagged, HeirJob, Merging
  <2>2. CASE job'[b].at = "check" /\ job'[b].todo = Checks(b)
    BY <2>2 DEF Checks, HeirJob, Merging
  <2>3. QED
    BY <2>1, <2>2
<1>7. ASSUME NEW h, Heirs(h) /\ HeirsMeant(h)
      PROVE  Heirs(h)' /\ HeirsMeant(h)'
  BY <1>2, <1>5, <1>7 DEF Heirs, HeirsMeant
<1>8. AllKnown => AllKnown'
  BY <1>1, <1>2 DEF AllKnown
<1>9. HeirsInv => HeirsInv'
  BY <1>6, <1>7, <1>8 DEF HeirsInv
<1>10. QED
  BY <1>3, <1>4, <1>9

\* The invariant after such a step.
LEMMA SideFrames ==
  ASSUME TypeOK, TypeOK', RootedInv, HeirsKept, overlapped \subseteq overlapped', faults' = 0 => faults = 0,
         plan' = plan, vault' = vault, tags' = tags, meant' = meant, ever' = ever,
         \A b \in Actions : \/ job'[b] = job[b]
                            \/ job[b].at = "idle" /\ job'[b].at = "check" /\ job'[b].todo = Checks(b)
  PROVE  RootedInv' /\ HeirsKept'
BY AsideBefore, PlanFrame, SideFrame DEF RootedInv, HeirsKept

LEMMA SideStep ==
  ASSUME TypeOK, TypeOK', NEW a \in Actions, \A e \in Actions : Placed(e), Step(a), SideInv
  PROVE  SideInv'
BY BesideStep, RootedStepOf, HeirsStepOf DEF SideInv

LEMMA SideApply ==
  ASSUME TypeOK, TypeOK', NEW a \in Actions, Apply(a), SideInv
  PROVE  SideInv'
BY GoesTo, SideFrames, BesideApply DEF Apply, notes, failures, Running, At, SideInv

\* After a fault, nothing is asked.
LEMMA SideFails ==
  ASSUME TypeOK, NEW a \in Actions, StorageFails(a), SideInv
  PROVE  SideInv'
<1>1. faults' # 0
  BY DEF StorageFails, Fault, TypeOK
<1>2. QED
  BY <1>1, BesideStep DEF SideInv, RootedInv, HeirsKept, MergesAside

LEMMA SideCrash ==
  ASSUME TypeOK, Crash
  PROVE  SideInv'
<1>1. faults' # 0
  BY DEF Crash, Fault, TypeOK
<1>2. \A b \in Actions : job'[b].at = "idle"
  BY IdleJob DEF Crash
<1>3. QED
  BY <1>1, <1>2 DEF SideInv, Beside, Running, RootedInv, HeirsKept, MergesAside

LEMMA SideRests ==
  ASSUME TypeOK, TypeOK', SideInv, plan' = plan, vault' = vault, tags' = tags, meant' = meant, ever' = ever,
         job' = job, overlapped' = overlapped, faults' = 0 => faults = 0
  PROVE  SideInv'
BY SideFrames DEF SideInv, Beside, Running

\* At first every concept is its own heir.
LEMMA SideInit ==
  ASSUME Init, TypeOK
  PROVE  SideInv
<1>1. \A b \in Actions : job[b].at = "idle"
  BY IdleJob DEF Init
<1>2. /\ vault.active = InitActive /\ InitActive \subseteq Concepts
      /\ vault.aliases = [c \in Concepts |-> IF c \in InitActive THEN InitNames[c] ELSE {}]
      /\ tags = InitTags /\ meant = InitTags /\ InitTags \in [Notes -> SUBSET InitActive]
      /\ ever = InitActive \cup UNION {InitNames[c] : c \in InitActive}
      /\ InitNames \in [Concepts -> SUBSET Names]
  BY InitAssumption DEF Init
<1>3. Beside
  BY <1>1 DEF Beside, Running
<1>4. MergesAside => Known = InitActive
  BY <1>2 DEF MergesAside, Known
<1>5. MergesAside => Buried = {}
  BY <1>2, <1>4 DEF Buried
<1>6. vault.active \subseteq ever /\ \A c \in Concepts : vault.aliases[c] \subseteq ever
  BY <1>2
<1>7. RootedInv
  BY <1>1, <1>5, <1>6 DEF RootedInv, Rooted, IntoActive, Merging
<1>8. ASSUME MergesAside
      PROVE  HeirsInv
  <2>1. PICK h : h = [c \in Concepts |-> c]
    OBVIOUS
  <2>2. \A b \in Actions : HeirJob(h, b)
    BY <1>1 DEF HeirJob, Merging
  <2>3. \A x \in vault.active : vault.aliases[x] \cap Concepts = {}
    BY <1>2, <1>8 DEF MergesAside
  <2>4. Heirs(h)
    BY <1>2, <1>4, <1>5, <1>8, <2>1, <2>3 DEF Heirs
  <2>5. HeirsMeant(h)
    BY <1>2 DEF HeirsMeant
  <2>6. AllKnown
    BY <1>2, <1>4, <1>8 DEF AllKnown
  <2>7. QED
    BY <2>1, <2>2, <2>4, <2>5, <2>6 DEF HeirsInv
<1>9. QED
  BY <1>3, <1>7, <1>8 DEF SideInv, HeirsKept

LEMMA SideIsFound ==
  ASSUME TypeOK, SideInv
  PROVE  SideBySideKeepsMeaning
<1>1. SUFFICES ASSUME Quiet, MergesAside
               PROVE  /\ \A n \in ever \cap Concepts : Resolve(vault, n) # {}
                      /\ OneEach /\ ~Renewed => \A n \in Notes : \A c \in meant[n] : Says(n, c)
  BY DEF SideBySideKeepsMeaning
<1>2. Rooted /\ Unburied = {} /\ \A b \in Actions : job[b].at = "idle"
  BY <1>1 DEF SideInv, RootedInv, Unburied, Quiet, Running
<1>3. \A n \in ever \cap Concepts : Resolve(vault, n) # {}
  BY <1>1, <1>2, FoundById DEF Known
<1>4. ASSUME OneEach, ~Renewed, NEW n \in Notes, NEW c \in meant[n]
      PROVE  Says(n, c)
  BY <1>1, <1>4, <1>2, StandsForHeir DEF SideInv, HeirsKept, HeirsInv, HeirsMeant, AllKnown, Says
<1>5. QED
  BY <1>3, <1>4

-----------------------------------------------------------------------------
\* ConceptActions keeps its invariant.

\* An action that was applied stays so.
LEMMA AppliedStays ==
  ASSUME TypeOK, \A b \in Actions : Placed(b), NEW a \in Actions, Step(a)
  PROVE  \A b \in Actions : status[b] = "applied" => status'[b] = "applied"
<1>1. CASE Block(a) \/ Fail(a)
  BY <1>1, StepFrame DEF Block, Fail, Here, Placed
<1>2. CASE Record(a)
  BY <1>2 DEF Record, TypeOK
<1>3. CASE Check(a) \/ Pop(a) \/ Load(a)
  BY <1>3, CheckGoesOn DEF Pop, Load
<1>4. CASE Effect(a)
  BY <1>4, EffectGoesOn
<1>5. QED
  BY <1>1, <1>2, <1>3, <1>4 DEF Step, Effect

LEMMA TypeStepOf ==
  ASSUME TypeOK, \A b \in Actions : Placed(b), NEW a \in Actions, Step(a)
  PROVE  TypeOK' /\ \A b \in Actions : Placed(b)'
BY TypeCheck, TypeBlock, TypeRead, TypeWrite, TypeDelete, TypeBury, TypeList, TypeReadTags, TypeSet,
   TypeDecide, TypeSupersede, TypeRecord, TypePop, TypeLoad, TypeFail DEF Step

LEMMA InvStep ==
  ASSUME ConceptInv, NEW a \in Actions, Step(a)
  PROVE  ConceptInv'
<1>1. TypeOK' /\ SideInv'
  BY TypeStepOf, SideStep DEF ConceptInv
<1>2. QED
  BY <1>1, TypeStepOf, SoloStepOf, ShelvesStepOf, DecisionsStepOf, CalmStepOf DEF ConceptInv

LEMMA InvApply ==
  ASSUME ConceptInv, NEW a \in Actions, Apply(a)
  PROVE  ConceptInv'
<1>1. TypeOK' /\ SideInv'
  BY TypeApply, SideApply DEF ConceptInv
<1>2. QED
  BY <1>1, TypeApply, SoloApply, ShelvesApply, DecisionsApply, CalmApplied DEF ConceptInv

LEMMA InvFails ==
  ASSUME ConceptInv, NEW a \in Actions, StorageFails(a)
  PROVE  ConceptInv'
BY TypeFails, SoloFails, ShelvesFail, DecisionsFail, CalmFails, SideFails DEF ConceptInv

LEMMA InvCrash ==
  ASSUME ConceptInv, Crash
  PROVE  ConceptInv'
BY TypeCrash, SoloCrash, ShelvesCrash, DecisionsCrash, CalmCrash, SideCrash DEF ConceptInv

\* A step that is none of the applies'.
LEMMA InvFrame ==
  ASSUME ConceptInv, plan' = plan, vault' = vault, index' = index, tags' = tags, status' = status,
         job' = job, meant' = meant, ever' = ever, overlapped' = overlapped, torn' = torn,
         cut' \in BOOLEAN, ~cut' => ~cut, faults' \in 0..MaxFaults, faults' = 0 => faults = 0
  PROVE  ConceptInv'
<1>1. /\ TypeOK /\ \A b \in Actions : Placed(b)
      /\ Solo /\ SoloDecider /\ ShelvesAgree /\ Dropped /\ OverIsOver /\ DecisionsAgree /\ CalmInv
      /\ SideInv
  BY DEF ConceptInv
<1>2. TypeOK'
  BY <1>1 DEF TypeOK
<1>3. \A b \in Actions : Placed(b)'
  BY <1>1, PlacedFrame
<1>4. Solo' /\ SoloDecider'
  BY <1>1, SoloStep DEF Running
<1>5. ShelvesAgree'
  BY <1>1, SameFrame, PendingFrame DEF ShelvesAgree
<1>6. Dropped'
  BY <1>1 DEF Dropped
<1>7. \A b, d : Superseded(b, d)' <=> Superseded(b, d)
  BY DEF Superseded
<1>8. OverIsOver'
  BY <1>1, <1>7 DEF OverIsOver, OneDecides
<1>9. \A b, d : BehindBy(b, d)' <=> BehindBy(b, d)
  BY <1>7, PendingFrame DEF BehindBy
<1>10. DecisionsAgree'
  BY <1>1, <1>9 DEF DecisionsAgree, OneDecides
<1>11. CalmInv'
  <2>1. SUFFICES ASSUME Calm
                 PROVE  Kept' /\ \A b \in Actions : CalmJob(b)'
    BY DEF CalmInv, Calm
  <2>2. Kept /\ \A b \in Actions : CalmJob(b)
    BY <1>1, <2>1 DEF CalmInv
  <2>3. Kept'
    BY <2>2, KeptFrame
  <2>4. Renewed' = Renewed /\ \A b : Sources(b)' = Sources(b) /\ Checks(b)' = Checks(b)
    BY PlanFrame
  <2>5. /\ \A b, c : Passes(b, c)' = Passes(b, c) /\ NewAliases(b, c)' = NewAliases(b, c)
        /\ \A c : Gone(c)' = Gone(c)
        /\ \A t, c : Meets(t, c)' = Meets(t, c)
        /\ \A b, ts : Retagged(b, ts)' = Retagged(b, ts)
    BY VaultFrame
  <2>6. \A b, n, c : SaysUnder(b, n, c)' = SaysUnder(b, n, c)
    BY <2>4, <2>5 DEF SaysUnder
  <2>7. ASSUME NEW b \in Actions
        PROVE  CalmJob(b)'
    BY <2>2, <2>4, <2>5, <2>6 DEF Retagged, CalmJob
  <2>8. QED
    BY <2>3, <2>7
<1>12. SideInv'
  BY <1>1, <1>2, SideRests
<1>13. QED
  BY <1>2, <1>3, <1>4, <1>5, <1>6, <1>8, <1>10, <1>11, <1>12 DEF ConceptInv

LEMMA InvInit ==
  ASSUME Init
  PROVE  ConceptInv
<1>1. TypeOK
  BY InitType
<1>2. \A b \in Actions : job[b].at = "idle"
  BY IdleJob DEF Init
<1>3. \A b \in Actions : Placed(b)
  BY <1>2 DEF Placed, Going
<1>4. Solo /\ SoloDecider
  BY <1>2 DEF Solo, SoloDecider, Running
<1>5. index = vault /\ overlapped = {}
  BY DEF Init
<1>6. ShelvesAgree /\ Dropped /\ OverIsOver /\ DecisionsAgree
  BY <1>2, <1>5 DEF ShelvesAgree, Same, Dropped, OverIsOver, DecisionsAgree
<1>7. /\ vault.active = InitActive /\ InitActive \subseteq Concepts
      /\ \A c \in InitActive : vault.aliases[c] = InitNames[c]
      /\ tags = InitTags /\ meant = InitTags /\ InitTags \in [Notes -> SUBSET InitActive]
      /\ ever = InitActive \cup UNION {InitNames[c] : c \in InitActive}
  BY InitAssumption DEF Init
<1>8. Led
  BY <1>7 DEF Led, Straight, AliasHits
<1>9. TagsKnown
  BY <1>7 DEF TagsKnown
<1>10. Earned
  BY DEF Init, Earned
<1>11. Said
  BY <1>7 DEF Said, Meets, Straight
<1>12. \A b \in Actions : CalmJob(b)
  BY <1>2 DEF CalmJob
<1>13. SideInv
  BY <1>1, SideInit
<1>14. QED
  BY <1>1, <1>3, <1>4, <1>6, <1>8, <1>9, <1>10, <1>11, <1>12, <1>13 DEF ConceptInv, CalmInv, Kept

\* When no apply is under way, no entry is behind.
LEMMA IndexCaughtUp ==
  ASSUME ConceptInv
  PROVE  IndexAgrees
<1>1. SUFFICES ASSUME Quiet, overlapped = {}, ~cut
               PROVE  index = vault
  BY DEF IndexAgrees
<1>2. \A b \in Actions : Pending(b) = {}
  BY <1>1 DEF Quiet, Running, Pending
<1>3. \A x \in Items : Same(x)
  BY <1>1, <1>2 DEF ConceptInv, ShelvesAgree
<1>4. index \in Shelves /\ vault \in Shelves
  BY DEF ConceptInv, TypeOK
<1>5. ASSUME NEW c \in Concepts
      PROVE  /\ c \in index.active <=> c \in vault.active
             /\ index.aliases[c] = vault.aliases[c] /\ index.tomb[c] = vault.tomb[c]
  BY <1>3, ItemLemma DEF Same
<1>6. ASSUME NEW d \in Decisions
      PROVE  index.decided[d] = vault.decided[d]
  BY <1>3, ItemLemma DEF Same
<1>7. index.active = vault.active
  BY <1>4, <1>5 DEF Shelves
<1>8. index.aliases = vault.aliases /\ index.tomb = vault.tomb
  BY <1>4, <1>5 DEF Shelves
<1>9. index.decided = vault.decided
  BY <1>4, <1>6 DEF Shelves
<1>10. QED
  BY <1>4, <1>7, <1>8, <1>9 DEF Shelves

LEMMA DoneIsDone ==
  ASSUME ConceptInv
  PROVE  AppliedIsDone
BY DEF ConceptInv, CalmInv, Kept, Earned, AppliedIsDone, Calm, Gone

LEMMA LedIsFound ==
  ASSUME ConceptInv
  PROVE  CalmKeepsMeaning
<1>1. SUFFICES ASSUME Calm
               PROVE  /\ \A n \in ever : Resolve(vault, n) # {}
                      /\ ~Renewed => \A n \in Notes : \A c \in meant[n] : Says(n, c)
  BY DEF CalmKeepsMeaning
<1>2. Kept
  BY <1>1 DEF ConceptInv, CalmInv
<1>3. \A n \in ever : Resolve(vault, n) # {}
  BY <1>2 DEF Kept, Led, Straight, Resolve
<1>4. ASSUME ~Renewed, NEW n \in Notes, NEW c \in meant[n]
      PROVE  Says(n, c)
  BY <1>2, <1>4, DirectHit DEF Kept, Said, Says
<1>5. QED
  BY <1>3, <1>4

-----------------------------------------------------------------------------
\* The reviews.

\* The parts of the reviews' own state that a step of one reviewer must show.
LEMMA TurnLemma ==
  ASSUME ReviewTypeOK, NEW r \in Reviewers, NEW v \in Reviews, Turns(r, v)
  PROVE  /\ review' \in [Reviewers -> Reviews] /\ review'[r] = v
         /\ \A q \in Reviewers : q # r => review'[q] = review[q]
BY DEF ReviewTypeOK, Turns

LEMMA OffLemma == Off \in Reviews /\ Off.at = "idle"
BY DEF Off, Reviews, Verdicts

LEMMA WritingLemma ==
  ASSUME NEW p \in Proposals, NEW verdict \in Verdicts
  PROVE  /\ Writing(p, verdict) \in Reviews /\ Writing(p, verdict).at = "write"
         /\ Writing(p, verdict).of = p /\ Writing(p, verdict).left = <<>>
         /\ Writing(p, verdict).verdict = verdict
BY DEF Writing, Reviews

LEMMA DraftActions ==
  ASSUME NEW p \in Proposals
  PROVE  ToSet(Drafts[p]) \subseteq Actions /\ Drafts[p] \in Seq(Actions)
BY DraftsAssumption, Members

LEMMA AcceptedFrame ==
  ASSUME AcceptedIsApplied, proposal' = proposal,
         \A b \in Actions : status[b] = "applied" => status'[b] = "applied"
  PROVE  AcceptedIsApplied'
BY DraftActions DEF AcceptedIsApplied

\* What a step of a reviewer shows when no apply moves.
LEMMA OwnTurn ==
  ASSUME ReviewInv, NEW r \in Reviewers, NEW v \in Reviews, Turns(r, v), Reviewing(r)',
         job' = job, status' = status
  PROVE  \A q \in Reviewers : Reviewing(q)'
BY TurnLemma DEF ReviewInv, Running, Reviewing

LEMMA VarsFrame ==
  ASSUME ConceptInv, UNCHANGED vars
  PROVE  ConceptInv' /\ job' = job /\ status' = status /\ plan' = plan /\ cut' = cut
BY InvFrame DEF vars, notes, history, failures, ConceptInv, TypeOK

\* A step of one reviewer, while no apply moves.
LEMMA ReviewerStep ==
  ASSUME ReviewInv, NEW r \in Reviewers, NEW v \in Reviews, Turns(r, v), UNCHANGED vars,
         proposal' \in [Proposals -> Verdicts \cup {None}],
         cached' \in [Proposals -> Verdicts \cup {None}], reviews' \in 0..MaxReviews,
         Reviewing(r)', AcceptedIsApplied', CachesCatchUp'
  PROVE  ReviewInv'
BY VarsFrame, OwnTurn, TurnLemma DEF ReviewInv, ReviewTypeOK, ConceptInv

LEMMA ReviewParts ==
  ASSUME ReviewInv
  PROVE  /\ ConceptInv /\ ReviewTypeOK /\ AcceptedIsApplied /\ CachesCatchUp
         /\ proposal \in [Proposals -> Verdicts \cup {None}]
         /\ cached \in [Proposals -> Verdicts \cup {None}] /\ reviews \in 0..MaxReviews
         /\ \A r \in Reviewers : review[r] \in Reviews /\ Reviewing(r)
BY DEF ReviewInv, ReviewTypeOK

LEMMA OneMore ==
  ASSUME ReviewTypeOK, reviews < MaxReviews, reviews' = reviews + 1
  PROVE  reviews' \in 0..MaxReviews
BY ReviewsAssumption DEF ReviewTypeOK

LEMMA AcceptStep ==
  ASSUME ReviewInv, NEW r \in Reviewers, NEW p \in Proposals, Accept(r, p)
  PROVE  ReviewInv'
<1> DEFINE v == [at |-> "apply", of |-> p, left |-> Drafts[p], verdict |-> "accepted"]
<1>1. v \in Reviews /\ v.at = "apply" /\ v.of = p /\ v.left = Drafts[p]
  BY DraftActions DEF Reviews, Verdicts
<1>2. /\ Turns(r, v) /\ UNCHANGED vars /\ proposal' = proposal /\ cached' = cached
      /\ reviews < MaxReviews /\ reviews' = reviews + 1 /\ review[r].at = "idle"
  BY DEF Accept, Begins1
<1> HIDE DEF v
<1>3. review'[r] = v /\ \A q \in Reviewers : q # r => review'[q] = review[q]
  BY <1>1, <1>2, ReviewParts, TurnLemma
<1>4. cut' = cut /\ status' = status
  BY <1>2, ReviewParts, VarsFrame
<1>5. Reviewing(r)'
  BY <1>1, <1>3 DEF Reviewing
<1>6. AcceptedIsApplied'
  BY <1>2, <1>4, ReviewParts, AcceptedFrame
<1>7. CachesCatchUp'
  BY <1>2, <1>3, <1>4, ReviewParts DEF CachesCatchUp
<1>8. reviews' \in 0..MaxReviews
  BY <1>2, ReviewParts, OneMore
<1>9. QED
  BY <1>1, <1>2, <1>5, <1>6, <1>7, <1>8, ReviewParts, ReviewerStep

LEMMA RejectStep ==
  ASSUME ReviewInv, NEW r \in Reviewers, NEW p \in Proposals, Reject(r, p) \/ Expire(r, p)
  PROVE  ReviewInv'
<1>1. PICK v \in Reviews : /\ Turns(r, v) /\ v.at = "write" /\ v.of = p /\ v.left = <<>>
                           /\ v.verdict \in {"rejected", "expired"}
  BY WritingLemma DEF Reject, Expire, Verdicts
<1>2. /\ UNCHANGED vars /\ proposal' = proposal
      /\ cached' = cached \/ cached' = [cached EXCEPT ![p] = "expired"]
      /\ reviews < MaxReviews /\ reviews' = reviews + 1 /\ review[r].at = "idle"
  BY DEF Reject, Expire, Begins1
<1>3. review'[r] = v /\ \A q \in Reviewers : q # r => review'[q] = review[q]
  BY <1>1, ReviewParts, TurnLemma
<1>4. cut' = cut /\ status' = status
  BY <1>2, ReviewParts, VarsFrame
<1>5. Reviewing(r)'
  BY <1>1, <1>3 DEF Reviewing
<1>6. AcceptedIsApplied'
  BY <1>2, <1>4, ReviewParts, AcceptedFrame
<1>7. cached' \in [Proposals -> Verdicts \cup {None}] /\ \A o \in Proposals : o # p => cached'[o] = cached[o]
  BY <1>2, ReviewParts DEF Verdicts
<1>8. CachesCatchUp'
  BY <1>2, <1>4, <1>1, <1>3, ReviewParts, <1>7 DEF CachesCatchUp
<1>9. reviews' \in 0..MaxReviews
  BY <1>2, ReviewParts, OneMore
<1>10. QED
  BY <1>1, <1>2, <1>5, <1>6, <1>7, <1>8, <1>9, ReviewParts, ReviewerStep

\* Every draft that was applied comes off what the review has left.
LEMMA SkipStep ==
  ASSUME ReviewInv, NEW r \in Reviewers, review[r].at = "apply", review[r].left # <<>>,
         status[Head(review[r].left)] = "applied", Turns(r, [review[r] EXCEPT !.left = Tail(@)]),
         UNCHANGED vars, UNCHANGED <<proposal, cached, reviews>>
  PROVE  ReviewInv'
<1> DEFINE v == [review[r] EXCEPT !.left = Tail(@)]
<1>1. review[r] \in Reviews /\ Reviewing(r)
  BY ReviewParts
<1>2. /\ Head(review[r].left) \in Actions /\ Tail(review[r].left) \in Seq(Actions)
      /\ ToSet(review[r].left) = {Head(review[r].left)} \cup ToSet(Tail(review[r].left))
  BY <1>1, HeadTail DEF Reviews
<1>3. /\ v \in Reviews /\ v.at = "apply" /\ v.of = review[r].of /\ v.left = Tail(review[r].left)
      /\ v.verdict = review[r].verdict
  BY <1>1, <1>2 DEF Reviews
<1>4. Turns(r, v)
  OBVIOUS
<1> HIDE DEF v
<1>5. review'[r] = v /\ \A q \in Reviewers : q # r => review'[q] = review[q]
  BY <1>3, <1>4, ReviewParts, TurnLemma
<1>6. cut' = cut /\ status' = status
  BY ReviewParts, VarsFrame
<1>7. Reviewing(r)'
  BY <1>1, <1>2, <1>3, <1>5, <1>6 DEF Reviewing
<1>8. AcceptedIsApplied'
  BY <1>6, ReviewParts, AcceptedFrame
<1>9. CachesCatchUp'
  BY <1>5, <1>6, ReviewParts DEF CachesCatchUp
<1>10. QED
  BY <1>3, <1>4, <1>7, <1>8, <1>9, ReviewParts, ReviewerStep

LEMMA ConcludeStep ==
  ASSUME ReviewInv, NEW r \in Reviewers, Conclude(r)
  PROVE  ReviewInv'
<1>1. review[r] \in Reviews /\ Reviewing(r)
  BY ReviewParts
<1>2. /\ review[r].at = "apply" /\ review[r].left = <<>> /\ UNCHANGED vars
      /\ proposal' = proposal /\ cached' = cached /\ reviews' = reviews
  BY DEF Conclude
<1>3. review[r].of \in Proposals /\ review[r].verdict \in Verdicts
  BY <1>1, <1>2 DEF Reviewing, Reviews
<1>4. PICK v \in Reviews : /\ Turns(r, v) /\ v.at = "write" /\ v.of = review[r].of /\ v.left = <<>>
                           /\ v.verdict = review[r].verdict
  BY <1>3, WritingLemma DEF Conclude
<1>5. review'[r] = v /\ \A q \in Reviewers : q # r => review'[q] = review[q]
  BY <1>4, ReviewParts, TurnLemma
<1>6. cut' = cut /\ status' = status
  BY <1>2, ReviewParts, VarsFrame
<1>7. Reviewing(r)'
  BY <1>1, <1>2, <1>4, <1>5, <1>6 DEF Reviewing
<1>8. AcceptedIsApplied'
  BY <1>2, <1>6, ReviewParts, AcceptedFrame
<1>9. CachesCatchUp'
  BY <1>2, <1>5, <1>6, ReviewParts DEF CachesCatchUp
<1>10. QED
  BY <1>2, <1>4, <1>7, <1>8, <1>9, ReviewParts, ReviewerStep

\* The verdict is written: with "accepted", all drafts were applied.
LEMMA WriteStep ==
  ASSUME ReviewInv, NEW r \in Reviewers, WriteProposal(r)
  PROVE  ReviewInv'
<1>0. PICK p : p = review[r].of
  OBVIOUS
<1> DEFINE v == [review[r] EXCEPT !.at = "reload"]
<1>1. review[r] \in Reviews /\ Reviewing(r)
  BY ReviewParts
<1>2. /\ review[r].at = "write" /\ UNCHANGED vars /\ cached' = cached /\ reviews' = reviews
      /\ proposal' = [proposal EXCEPT ![p] = review[r].verdict] /\ Turns(r, v)
  BY <1>0 DEF WriteProposal
<1>3. p \in Proposals /\ review[r].verdict \in Verdicts /\ review[r].left = <<>>
  BY <1>0, <1>1, <1>2 DEF Reviewing, Reviews
<1>4. /\ v \in Reviews /\ v.at = "reload" /\ v.of = p /\ v.left = <<>> /\ v.verdict = review[r].verdict
  BY <1>0, <1>1, <1>3 DEF Reviews
<1> HIDE DEF v
<1>5. review'[r] = v /\ \A q \in Reviewers : q # r => review'[q] = review[q]
  BY <1>2, <1>4, ReviewParts, TurnLemma
<1>6. cut' = cut /\ status' = status
  BY <1>2, ReviewParts, VarsFrame
<1>7. Reviewing(r)'
  BY <1>0, <1>1, <1>2, <1>3, <1>4, <1>5, <1>6 DEF Reviewing
<1>8. /\ proposal' \in [Proposals -> Verdicts \cup {None}] /\ proposal'[p] = review[r].verdict
      /\ \A o \in Proposals : o # p => proposal'[o] = proposal[o]
  BY <1>2, <1>3, ReviewParts
<1>9. AcceptedIsApplied'
  <2>1. ToSet(review[r].left) = {}
    <3>1. <<>> \in Seq(Actions)
      OBVIOUS
    <3>2. QED
      BY <1>3, <3>1, Members
  <2>2. review[r].verdict = "accepted" => \A a \in ToSet(Drafts[p]) : status[a] = "applied"
    BY <1>0, <1>1, <1>2, <2>1 DEF Reviewing
  <2>3. QED
    BY <1>6, <1>8, <2>2, ReviewParts DEF AcceptedIsApplied
<1>10. CachesCatchUp'
  <2>1. SUFFICES ASSUME ~cut, NEW o \in Proposals
                 PROVE  \/ cached[o] = proposal'[o]
                        \/ \E q \in Reviewers : review'[q].at \in {"write", "reload"} /\ review'[q].of = o
    BY <1>2, <1>6 DEF CachesCatchUp
  <2>2. CASE o = p
    BY <1>4, <1>5, <2>2
  <2>3. CASE o # p
    BY <2>1, ReviewParts, <1>0, <1>5, <1>8, <2>3 DEF CachesCatchUp
  <2>4. QED
    BY <2>2, <2>3
<1>11. QED
  BY <1>2, <1>4, <1>7, <1>8, <1>9, <1>10, ReviewParts, ReviewerStep

LEMMA ReloadStep ==
  ASSUME ReviewInv, NEW r \in Reviewers, ReloadProposal(r)
  PROVE  ReviewInv'
BY ReviewParts, OffLemma, TurnLemma, VarsFrame, AcceptedFrame, ReviewerStep DEF ReloadProposal, Reviewing,
   CachesCatchUp

\* An apply is started: everybody who waits goes on waiting.
LEMMA StartStep ==
  ASSUME ReviewInv, NEW a \in Actions, Apply(a), UNCHANGED <<proposal, cached, reviews>>,
         review' \in [Reviewers -> Reviews],
         \A q \in Reviewers :
           \/ review'[q] = review[q]
           \/ /\ review[q].at = "apply" /\ review[q].left # <<>> /\ a = Head(review[q].left)
              /\ review'[q] = [review[q] EXCEPT !.at = "wait"]
  PROVE  ReviewInv'
<1>1. ConceptInv'
  BY ReviewParts, InvApply
<1>2. TypeOK
  BY ReviewParts DEF ConceptInv
<1>3. Running' = Running \cup {a} /\ status' = status /\ cut' = cut
  BY <1>2, GoesTo DEF Apply, Running, At, failures
<1>4. ASSUME NEW q \in Reviewers
      PROVE  Reviewing(q)' /\ (review[q].at \in {"write", "reload"} => review'[q] = review[q])
  <2>1. review[q] \in Reviews /\ Reviewing(q)
    BY ReviewParts
  <2>2. CASE review'[q] = review[q]
    BY <1>3, <2>1, <2>2 DEF Reviewing
  <2>3. CASE /\ review[q].at = "apply" /\ review[q].left # <<>> /\ a = Head(review[q].left)
             /\ review'[q] = [review[q] EXCEPT !.at = "wait"]
    BY <2>1, <2>3, <1>3 DEF Reviews, Reviewing
  <2>4. QED
    BY <2>2, <2>3
<1>5. ReviewTypeOK'
  BY <1>1, ReviewParts DEF ReviewTypeOK, ConceptInv
<1>6. AcceptedIsApplied'
  BY <1>3, ReviewParts, AcceptedFrame
<1>7. CachesCatchUp'
  BY <1>3, <1>4, ReviewParts DEF CachesCatchUp
<1>8. QED
  BY <1>1, <1>4, <1>5, <1>6, <1>7 DEF ReviewInv

LEMMA ApplyDraftStep ==
  ASSUME ReviewInv, NEW r \in Reviewers, ApplyDraft(r)
  PROVE  ReviewInv'
<1> DEFINE a == Head(review[r].left)
<1>1. /\ review[r].at = "apply" /\ review[r].left # <<>> /\ UNCHANGED <<proposal, cached, reviews>>
      /\ review[r] \in Reviews
  BY ReviewParts DEF ApplyDraft
<1>2. CASE /\ status[a] = "applied" /\ Turns(r, [review[r] EXCEPT !.left = Tail(@)])
           /\ UNCHANGED vars
  BY <1>1, <1>2, SkipStep
<1>3. CASE Apply(a) /\ Turns(r, [review[r] EXCEPT !.at = "wait"])
  <2>1. a \in Actions
    BY <1>1, HeadTail DEF Reviews
  <2>2. [review[r] EXCEPT !.at = "wait"] \in Reviews
    BY <1>1 DEF Reviews
  <2>3. /\ review' \in [Reviewers -> Reviews] /\ review'[r] = [review[r] EXCEPT !.at = "wait"]
        /\ \A q \in Reviewers : q # r => review'[q] = review[q]
    BY <1>3, <2>2, ReviewParts, TurnLemma
  <2> HIDE DEF a
  <2>4. \A q \in Reviewers :
           \/ review'[q] = review[q]
           \/ /\ review[q].at = "apply" /\ review[q].left # <<>> /\ a = Head(review[q].left)
              /\ review'[q] = [review[q] EXCEPT !.at = "wait"]
    BY <1>1, <2>3 DEF a
  <2>5. QED
    BY <1>1, <1>3, <2>1, <2>3, <2>4, StartStep
<1>4. QED
  BY <1>2, <1>3 DEF ApplyDraft

LEMMA DirectStep ==
  ASSUME ReviewInv, NEW a \in Actions, Direct(a)
  PROVE  ReviewInv'
BY StartStep DEF Direct, reviewVars, ReviewInv, ReviewTypeOK

\* An apply goes on: who waits for it is told when it ends.
LEMMA WorkedStep ==
  ASSUME ReviewInv, NEW a \in Actions, ConceptInv',
         \A b \in Actions : b # a => job'[b] = job[b],
         \A b \in Actions : status[b] = "applied" => status'[b] = "applied",
         ~cut' => ~cut, UNCHANGED <<proposal, cached, reviews>>,
         review' \in [Reviewers -> Reviews],
         \A q \in Reviewers :
           \/ review'[q] = review[q] /\ ~(WaitsFor(q, a) /\ job'[a].at = "idle")
           \/ WaitsFor(q, a) /\ (review'[q] = Off \/ review'[q] = Resumed(q, status'[a]))
  PROVE  ReviewInv'
<1>1. \A b \in Running : b # a \/ job'[a].at # "idle" => b \in Running'
  BY DEF Running
<1>2. ASSUME NEW q \in Reviewers
      PROVE  Reviewing(q)' /\ (review[q].at \in {"write", "reload"} => review'[q] = review[q])
  <2>1. review[q] \in Reviews /\ Reviewing(q)
    BY ReviewParts
  <2>2. \A p \in Proposals : ToSet(Drafts[p]) \subseteq Actions
    BY DraftActions
  <2>3. CASE review'[q] = review[q] /\ ~(WaitsFor(q, a) /\ job'[a].at = "idle")
    BY <1>1, <2>1, <2>3, <2>2 DEF Reviewing, WaitsFor
  <2>4. CASE WaitsFor(q, a) /\ review'[q] = Off
    BY <2>4, OffLemma DEF Reviewing, WaitsFor
  <2>5. CASE WaitsFor(q, a) /\ review'[q] = Resumed(q, status'[a])
    <3>1. /\ review[q].at = "wait" /\ Head(review[q].left) = a /\ review[q].left # <<>>
          /\ review[q].of \in Proposals
      BY <2>1, <2>5 DEF WaitsFor, Reviewing
    <3>2. ToSet(review[q].left) = {a} \cup ToSet(Tail(review[q].left))
      BY <2>1, <3>1, HeadTail DEF Reviews
    <3>3. /\ review'[q].at = "apply" /\ review'[q].of = review[q].of
          /\ review'[q].left = Tail(review[q].left)
          /\ review'[q].verdict = IF status'[a] = "applied" THEN review[q].verdict ELSE "pending"
      BY <2>1, <2>5 DEF Resumed, Reviews
    <3>4. review'[q].verdict = "accepted" => review[q].verdict = "accepted" /\ status'[a] = "applied"
      BY <3>3
    <3>5. QED
      BY <2>1, <2>2, <3>1, <3>2, <3>3, <3>4 DEF Reviewing
  <2>6. QED
    BY <2>3, <2>4, <2>5
<1>3. ReviewTypeOK'
  BY ReviewParts DEF ReviewTypeOK, ConceptInv
<1>4. AcceptedIsApplied'
  BY ReviewParts, AcceptedFrame
<1>5. CachesCatchUp'
  BY <1>2, ReviewParts DEF CachesCatchUp
<1>6. QED
  BY <1>2, <1>3, <1>4, <1>5 DEF ReviewInv

LEMMA ResumedType ==
  ASSUME ReviewInv, NEW q \in Reviewers, NEW a \in Actions, WaitsFor(q, a), NEW s
  PROVE  Resumed(q, s) \in Reviews
<1>1. review[q] \in Reviews /\ review[q].left # <<>>
  BY ReviewParts DEF Reviewing, WaitsFor
<1>2. Tail(review[q].left) \in Seq(Actions)
  BY <1>1, HeadTail DEF Reviews
<1>3. QED
  BY <1>1, <1>2 DEF Resumed, Reviews, Verdicts

LEMMA WorkStep ==
  ASSUME ReviewInv, NEW a \in Actions, Work(a)
  PROVE  ReviewInv'
<1>1. UNCHANGED <<proposal, cached, reviews>> /\ TypeOK /\ \A b \in Actions : Placed(b)
  BY ReviewParts DEF Work, ConceptInv
<1>2. CASE /\ Step(a)
           /\ review' = [r \in Reviewers |-> IF WaitsFor(r, a) /\ job'[a].at = "idle"
                                             THEN Resumed(r, status'[a]) ELSE review[r]]
  <2>1. ConceptInv'
    BY <1>2, ReviewParts, InvStep
  <2>2. /\ \A b \in Actions : b # a => job'[b] = job[b]
        /\ ~cut' => ~cut
    BY <1>1, <1>2, StepFrame
  <2>3. \A b \in Actions : status[b] = "applied" => status'[b] = "applied"
    BY <1>1, <1>2, AppliedStays
  <2>4. review' \in [Reviewers -> Reviews]
    BY <1>2, ReviewParts, ResumedType
  <2>5. \A q \in Reviewers :
           \/ review'[q] = review[q] /\ ~(WaitsFor(q, a) /\ job'[a].at = "idle")
           \/ WaitsFor(q, a) /\ (review'[q] = Off \/ review'[q] = Resumed(q, status'[a]))
    BY <1>2
  <2>6. QED
    BY <1>1, <2>1, <2>2, <2>3, <2>4, <2>5, WorkedStep
<1>3. CASE /\ StorageFails(a)
           /\ review' = [r \in Reviewers |-> IF WaitsFor(r, a) /\ job'[a].at = "idle"
                                             THEN Off ELSE review[r]]
  <2>1. ConceptInv'
    BY <1>3, ReviewParts, InvFails
  <2>2. /\ \A b \in Actions : b # a => job'[b] = job[b]
        /\ cut' = TRUE /\ status' = status
    BY <1>1, <1>3, GoesTo DEF StorageFails
  <2>3. review' \in [Reviewers -> Reviews]
    BY <1>3, ReviewParts, OffLemma
  <2>4. \A q \in Reviewers :
           \/ review'[q] = review[q] /\ ~(WaitsFor(q, a) /\ job'[a].at = "idle")
           \/ WaitsFor(q, a) /\ (review'[q] = Off \/ review'[q] = Resumed(q, status'[a]))
    BY <1>3
  <2>5. QED
    BY <1>1, <2>1, <2>2, <2>3, <2>4, WorkedStep
<1>4. QED
  BY <1>2, <1>3 DEF Work

LEMMA ReviewFailsStep ==
  ASSUME ReviewInv, NEW r \in Reviewers, ReviewFails(r)
  PROVE  ReviewInv'
<1>1. /\ plan' = plan /\ vault' = vault /\ index' = index /\ tags' = tags /\ status' = status
      /\ job' = job /\ meant' = meant /\ ever' = ever /\ overlapped' = overlapped /\ torn' = torn
      /\ cut' = TRUE /\ faults < MaxFaults /\ faults' = faults + 1
      /\ Turns(r, Off) /\ proposal' = proposal /\ cached' = cached /\ reviews' = reviews
  BY DEF ReviewFails, Fault, notes, history
<1>2. faults' \in 0..MaxFaults /\ faults' # 0
  BY <1>1, FaultsAssumption, ReviewParts DEF ConceptInv, TypeOK
<1>3. ConceptInv'
  BY <1>1, <1>2, ReviewParts, InvFrame
<1>4. /\ review' \in [Reviewers -> Reviews] /\ review'[r] = Off
      /\ \A q \in Reviewers : q # r => review'[q] = review[q]
  BY <1>1, OffLemma, ReviewParts, TurnLemma
<1>5. Reviewing(r)'
  BY <1>4, OffLemma DEF Reviewing
<1>6. \A q \in Reviewers : Reviewing(q)'
  BY <1>1, <1>5, OffLemma, OwnTurn
<1>7. ReviewTypeOK'
  BY <1>1, <1>3, <1>4, ReviewParts DEF ReviewTypeOK, ConceptInv
<1>8. AcceptedIsApplied'
  BY <1>1, ReviewParts, AcceptedFrame
<1>9. CachesCatchUp'
  BY <1>1 DEF CachesCatchUp
<1>10. QED
  BY <1>3, <1>6, <1>7, <1>8, <1>9 DEF ReviewInv

LEMMA RestartStep ==
  ASSUME ReviewInv, Restart
  PROVE  ReviewInv'
<1>1. /\ Crash /\ review' = [r \in Reviewers |-> Off] /\ cached' = proposal
      /\ proposal' = proposal /\ reviews' = reviews
  BY DEF Restart
<1>2. ConceptInv' /\ status' = status
  BY <1>1, ReviewParts, InvCrash DEF Crash
<1>3. review' \in [Reviewers -> Reviews] /\ \A q \in Reviewers : Reviewing(q)'
  BY <1>1, OffLemma DEF Reviewing
<1>4. ReviewTypeOK'
  BY <1>1, <1>2, <1>3, ReviewParts DEF ReviewTypeOK, ConceptInv
<1>5. AcceptedIsApplied'
  BY <1>1, <1>2, ReviewParts, AcceptedFrame
<1>6. CachesCatchUp'
  BY <1>1 DEF CachesCatchUp
<1>7. QED
  BY <1>2, <1>3, <1>4, <1>5, <1>6 DEF ReviewInv

LEMMA ReviewInitInv ==
  ASSUME ReviewInit
  PROVE  ReviewInv
<1>1. ConceptInv
  BY InvInit DEF ReviewInit
<1>2. \A r \in Reviewers : review[r] = Off
  BY DEF ReviewInit
<1>3. \A r \in Reviewers : Reviewing(r)
  BY <1>2, OffLemma DEF Reviewing
<1>4. ReviewTypeOK
  BY <1>1, OffLemma, ReviewsAssumption DEF ReviewInit, ReviewTypeOK, ConceptInv, Verdicts
<1>5. AcceptedIsApplied
  BY ReviewsAssumption DEF ReviewInit, AcceptedIsApplied
<1>6. CachesCatchUp
  BY DEF ReviewInit, CachesCatchUp
<1>7. QED
  BY <1>1, <1>3, <1>4, <1>5, <1>6 DEF ReviewInv

LEMMA ReviewNext ==
  ASSUME ReviewInv, [Next]_allVars
  PROVE  ReviewInv'
<1>1. CASE \E a \in Actions : Direct(a) \/ Work(a)
  BY <1>1, DirectStep, WorkStep
<1>2. ASSUME NEW r \in Reviewers,
             \/ \E p \in Proposals : Accept(r, p) \/ Reject(r, p) \/ Expire(r, p)
             \/ ApplyDraft(r) \/ Conclude(r) \/ WriteProposal(r) \/ ReloadProposal(r)
             \/ ReviewFails(r)
      PROVE  ReviewInv'
  BY <1>2, AcceptStep, RejectStep, ApplyDraftStep, ConcludeStep, WriteStep, ReloadStep,
     ReviewFailsStep
<1>3. CASE Restart
  BY <1>3, RestartStep
<1>4. CASE UNCHANGED allVars
  <2>1. /\ UNCHANGED vars /\ proposal' = proposal /\ cached' = cached /\ review' = review
        /\ reviews' = reviews
    BY <1>4 DEF allVars, reviewVars
  <2>2. ConceptInv' /\ job' = job /\ status' = status /\ cut' = cut
    BY <2>1, ReviewParts, VarsFrame
  <2>3. Running' = Running
    BY <2>2 DEF Running
  <2>4. \A q \in Reviewers : Reviewing(q)'
    BY <2>1, <2>2, <2>3, ReviewParts DEF Reviewing
  <2>5. ReviewTypeOK' /\ AcceptedIsApplied' /\ CachesCatchUp'
    BY <2>1, <2>2, ReviewParts DEF ReviewTypeOK, ConceptInv, AcceptedIsApplied, CachesCatchUp
  <2>6. QED
    BY <2>2, <2>4, <2>5 DEF ReviewInv
<1>5. QED
  BY <1>1, <1>2, <1>3, <1>4 DEF Next

-----------------------------------------------------------------------------
\* The theorems.

\* The invariant holds in every state of every run.
LEMMA InvHolds == Spec => []ReviewInv
<1>1. ReviewInit => ReviewInv
  BY ReviewInitInv
<1>2. ReviewInv /\ [Next]_allVars => ReviewInv'
  BY ReviewNext
<1>3. QED
  BY <1>1, <1>2, PTL DEF Spec

\* The variables of the actions and of the reviews keep their types.
THEOREM ReviewTypesHold == Spec => []ReviewTypeOK
<1>1. ReviewInv => ReviewTypeOK
  BY ReviewParts
<1>2. QED
  BY <1>1, InvHolds, PTL

\* What is called done was done: the sources of an applied merge are buried and on no note,
\* and every draft of an accepted proposal was applied.
THEOREM EndsHold == Spec => []EndsAreEarned
<1>1. ReviewInv => EndsAreEarned
  BY ReviewParts, DoneIsDone DEF EndsAreEarned
<1>2. QED
  BY <1>1, InvHolds, PTL

\* The index is the vault when no apply is under way, and the cached proposals are the
\* notes when nobody reviews.
THEOREM CachesHold == Spec => []CachesAgree
<1>1. ASSUME ReviewInv
      PROVE  CacheAgrees
  BY <1>1, ReviewParts DEF CacheAgrees, CachesCatchUp, ReviewTypeOK
<1>2. ReviewInv => CachesAgree
  BY <1>1, ReviewParts, IndexCaughtUp DEF CachesAgree
<1>3. QED
  BY <1>2, InvHolds, PTL

\* No concept is forgotten and every note says what it is meant to say: without overlapping
\* applies and torn writes at every step, and after merges that ran side by side.
THEOREM MeaningHolds == Spec => []MeaningKept
<1>1. ReviewInv => MeaningKept
  BY ReviewParts, LedIsFound, SideIsFound DEF MeaningKept, ConceptInv
<1>2. QED
  BY <1>1, InvHolds, PTL

\* A merge that a decision in force forbids ends at its check.
THEOREM ForbiddenHolds == Spec => ForbiddenMergesStop
<1> DEFINE A == \A a \in Actions : Here(a, "check") /\ job'[a].at = "read" /\ ~cut /\ OneDecides =>
                  ~\E d \in Settled \cap InForce(vault) :
                     \E c \in Sources(a) : Subjects[d] = {plan[a].target, c}
<1>1. ASSUME ReviewInv, [Next]_allVars
      PROVE  A
  <2>1. SUFFICES ASSUME NEW a \in Actions, Here(a, "check"), job'[a].at = "read", ~cut, OneDecides,
                        NEW d \in Settled \cap InForce(vault)
                 PROVE  ~\E c \in Sources(a) : Subjects[d] = {plan[a].target, c}
    OBVIOUS
  <2>2. TypeOK /\ DecisionsAgree /\ \A b \in Actions : Placed(b)
    BY <1>1, ReviewParts DEF ConceptInv
  <2>3. SUFFICES Check(a)
    BY <2>1, <2>2, ForbiddenStops
  <2>4. job'[a] # job[a] /\ a \in Running
    BY <2>1 DEF Here, Running
  <2>5. ~UNCHANGED vars
    BY <2>4 DEF vars
  <2>6. ASSUME NEW b \in Actions, Apply(b)
        PROVE  FALSE
    BY <2>2, <2>4, <2>6, GoesTo DEF Apply
  <2>7. ~Restart
    BY <2>1, IdleJob DEF Restart, Crash
  <2>8. ASSUME NEW r \in Reviewers, ReviewFails(r)
        PROVE  FALSE
    BY <2>4, <2>8 DEF ReviewFails
  <2>9. PICK b \in Actions : Step(b) \/ StorageFails(b)
    <3>1. CASE \E b \in Actions : Direct(b) \/ Work(b)
      BY <2>6, <3>1 DEF Direct, Work
    <3>2. ASSUME NEW r \in Reviewers,
                 \/ \E p \in Proposals : Accept(r, p) \/ Reject(r, p) \/ Expire(r, p)
                 \/ Conclude(r) \/ WriteProposal(r) \/ ReloadProposal(r)
          PROVE  FALSE
      BY <2>5, <3>2 DEF Accept, Reject, Expire, Conclude, WriteProposal, ReloadProposal
    <3>3. ASSUME NEW r \in Reviewers, ApplyDraft(r)
          PROVE  FALSE
      BY <1>1, <3>3, ReviewParts, HeadTail, <2>5, <2>6 DEF ApplyDraft, Reviews
    <3>4. ~UNCHANGED allVars
      BY <2>5 DEF allVars
    <3>5. QED
      BY <1>1, <2>7, <2>8, <3>1, <3>2, <3>3, <3>4 DEF Next
  <2>10. CASE StorageFails(b)
    BY <2>2, <2>4, <2>10, GoesTo, IdleJob, <2>1 DEF StorageFails, At
  <2>11. CASE Step(b)
    <3>1. b = a
      BY <2>2, <2>4, <2>11, StepFrame
    <3>2. ~Effect(a) /\ ~Record(a) /\ ~Pop(a) /\ ~Load(a) /\ ~Block(a) /\ ~Fail(a)
      BY <2>1 DEF Here, Effect, ReadConcept, WriteConcept, DeleteSource, Bury, ListGarden, ReadTags,
                  SetTags, Decide, Supersede, Record, Pop, Load, Block, Fail
    <3>3. QED
      BY <2>11, <3>1, <3>2 DEF Step, Effect
  <2>12. QED
    BY <2>9, <2>10, <2>11
<1>2. ReviewInv /\ [Next]_allVars => [A]_vars
  BY <1>1
<1>3. Spec => [][A]_vars
  BY <1>2, InvHolds, PTL DEF Spec
<1>4. QED
  BY <1>3 DEF ForbiddenMergesStop

-----------------------------------------------------------------------------
\* What holds of merges.

ConceptPairs == {e \in SUBSET Ids : Cardinality(e) = 2}
Bunches(s) == {k \in SUBSET s : Cardinality(k) > 1}
Stations == {"idle", "embed", "count", "look", "next", "verify", "draft", "propose", "done"}
Seeing == {"next", "verify", "draft", "propose", "done"}
Proposing == {"verify", "draft", "propose"}

ProposalOf(ds) == [draft: ds, status: {"pending", "accepted", "rejected"}, of: SUBSET Ids]

\* A generate() under way, by its place.
GoodGen(r) ==
  /\ DOMAIN r = DOMAIN Quiet0
  /\ r.at \in Stations /\ r.balanced \in BOOLEAN /\ r.from \subseteq Ids /\ r.edges \subseteq ConceptPairs
  /\ r.clusters \subseteq Bunches(r.from)
  /\ r.at \in {"look"} \cup Seeing => r.usage \in [r.from -> Nat]
  /\ r.at \in Proposing => r.of \in Bunches(r.from)

CurationTyped ==
  /\ concepts \subseteq Ids /\ alias \in [Ids -> SUBSET Ids] /\ tomb \in [Ids -> Ids \cup {Nothing}]
  /\ tagged \in [Pages -> SUBSET Ids] /\ again \subseteq Ids
  /\ day \in Nat /\ DOMAIN ruled = Rulings /\ \A r \in Rulings : ruled[r] = Nothing \/ ruled[r] \in 0..day
  /\ profiles \subseteq Profile
  /\ IsFiniteSet(DOMAIN drafts) /\ drafts \in [DOMAIN drafts -> Draft]
  /\ IsFiniteSet(DOMAIN proposals) /\ proposals \in [DOMAIN proposals -> ProposalOf(DOMAIN drafts)]
  /\ DOMAIN gen = Generators
  /\ \A g \in Generators : GoodGen(gen[g]) /\ (Is(g, "propose") => gen[g].draft \in DOMAIN drafts)

\* Tombstones.
Tombs == {c \in Ids : tomb[c] # Nothing}
Height(h) ==
  \A c \in Tombs : h[c] > 0 /\ (tomb[c] \in concepts \/ (tomb[c] \in Tombs /\ h[tomb[c]] < h[c]))
Chains ==
  /\ \A t \in Tombs : t \in concepts \/ Aliased(t) # {}
  /\ again = {} =>
       /\ \A c \in concepts : tomb[c] = Nothing
       /\ \A c, d \in Ids : c # d => alias[c] \cap alias[d] = {}
       /\ \A c \in Ids : alias[c] \subseteq Tombs
       /\ \E h \in [Ids -> 0..Cardinality(Tombs)] : Height(h)

\* What one generator at a time gives.
MergeFor(r) == Merge(PickCanonical(r.of, r.usage), r.of)
DraftOf(p) == drafts[proposals[p].draft]
Knows(r) == \A p \in DOMAIN proposals : Waiting(p) => AskedFor(DraftOf(p)) \in r.seen
Fresh(r) ==
  /\ r.at = "draft" => r.to \notin DOMAIN drafts
  /\ r.at = "propose" => /\ r.to \notin DOMAIN proposals /\ r.draft \in DOMAIN drafts
                         /\ AskedFor(drafts[r.draft]) = MergeFor(r)
Single ==
  \A p, q \in DOMAIN proposals :
    /\ Cluster(DraftOf(p)) = proposals[p].of
    /\ p # q => proposals[p].draft # proposals[q].draft
    /\ p # q /\ Waiting(p) /\ Waiting(q) => AskedFor(DraftOf(p)) # AskedFor(DraftOf(q))
Orderly(r) ==
  /\ Fresh(r)
  /\ r.at = "propose" => \A p \in DOMAIN proposals : proposals[p].draft # r.draft
  /\ r.at \in Seeing => Knows(r)
  /\ r.at \in Proposing => MergeFor(r) \notin r.seen
OneGenerates ==
  ~raced =>
    /\ Single
    /\ \A g, h \in Generators : ~Is(g, "idle") /\ ~Is(h, "idle") => g = h
    /\ \A g \in Generators : Orderly(gen[g])

\* What a generate nothing interfered with has.
Waits(k) == \E p \in DOMAIN proposals : Waiting(p) /\ Cluster(DraftOf(p)) = k
Handled(r, k) ==
  k \in r.clusters \/ (r.balanced /\ Apart(k)) \/ (r.at \in Proposing /\ r.of = k) \/ Waits(k)
Clean(r) ==
  /\ r.from = concepts
  /\ Fresh(r) /\ (r.at = "propose" => drafts[r.draft].status = "draft")
  /\ r.at \in Seeing => \A s \in r.seen : \E p \in DOMAIN proposals : Waiting(p) /\ AskedFor(DraftOf(p)) = s
  /\ r.at \notin {"embed"} => \A k \in Groups(r.edges, r.from) : Handled(r, k)
  /\ r.at = "done" => r.clusters = {}
  /\ r.at = "embed" => r.wrote = {} /\ r.clusters = {}
  /\ r.wrote \subseteq DOMAIN drafts
  /\ r.balanced =>
       /\ \A k \in r.clusters : ~Apart(k)
       /\ r.at \in Proposing => ~Apart(r.of)
       /\ \A d \in r.wrote : ~Apart(Cluster(drafts[d])) 
  /\ \A d \in r.wrote : /\ Cluster(drafts[d]) \in Bunches(concepts) /\ drafts[d].canonical \notin drafts[d].merge
Undisturbed == \A g \in undisturbed : g \in Generators /\ (~Is(g, "idle") => Clean(gen[g]))

CurationInv == CurationTyped /\ Chains /\ OneGenerates /\ Undisturbed

-----------------------------------------------------------------------------
\* Strengths.

\* There is a greatest of some numbers up to a bound.
LEMMA Greatest ==
  ASSUME NEW S, NEW n \in Nat, S \subseteq 0..n, S # {}
  PROVE  Max(S) \in S /\ \A s \in S : s <= Max(S)
<1> DEFINE T == {m \in Nat : \A s \in S : s > m \/ \E k \in S : k <= m /\ \A j \in S : j <= m => j <= k}
<1>1. 0 \in T
  OBVIOUS
<1>2. ASSUME NEW m \in T PROVE m + 1 \in T
  OBVIOUS
<1>3. n \in T
  BY <1>1, <1>2, NatInd
<1>4. \E k \in S : \A j \in S : j <= k
  <2>1. PICK s \in S : TRUE
    OBVIOUS
  <2>2. ~(s > n) /\ \A j \in S : j <= n
    OBVIOUS
  <2>3. \E k \in S : k <= n /\ \A j \in S : j <= n => j <= k
    BY <1>3, <2>1, <2>2
  <2>4. QED
    BY <2>2, <2>3
<1>5. \E k \in S : \A j \in S : k >= j
  BY <1>4
<1>6. QED
  BY <1>5 DEF Max

\* A strength is one of a hundred.
LEMMA Strengths ==
  ASSUME CurationTyped, NEW r \in Rulings
  PROVE  Strength(r) \in 0..100
<1>1. r.base \in 0..100
  BY CurationAssumption DEF Ruling
<1>2. ASSUME NEW days \in Nat PROVE Decayed(r.base, days) \in 0..100
  BY <1>1, IteratedFacts DEF Decayed
<1>3. CASE ruled[r] = Nothing
  BY <1>3 DEF Strength
<1>4. CASE ruled[r] # Nothing
  BY <1>4, <1>1, <1>2 DEF CurationTyped, Strength
<1>5. QED
  BY <1>3, <1>4

\* No decision of a pair is stronger than the greatest.
LEMMA Strongest ==
  ASSUME CurationTyped, NEW a, NEW b
  PROVE  MaxStrength(a, b) \in 0..100 /\ \A r \in CannotLink(a, b) : Strength(r) <= MaxStrength(a, b)
<1> DEFINE S == {0} \cup {Strength(r) : r \in CannotLink(a, b)}
<1>1. \A r \in CannotLink(a, b) : r \in Rulings
  BY DEF CannotLink
<1>2. S \subseteq 0..100 /\ S # {}
  BY <1>1, Strengths
<1>3. Max(S) \in S /\ \A s \in S : s <= Max(S)
  BY <1>2, Greatest
<1>4. QED
  BY <1>2, <1>3 DEF MaxStrength

\* The thresholds are numbers.
LEMMA Thresholds ==
  ASSUME CurationTyped
  PROVE  HardBlock \in 0..100 /\ Review \in 0..100
<1>1. \A kind : \A p \in Selected(kind) : p.hard \in 0..100 /\ p.review \in 0..100
  BY DEF CurationTyped, Selected, Matching, Profile
<1>2. QED
  BY <1>1 DEF HardBlock, Review

\* The scorer and the validator between them (Warned).
LEMMA WarnedHolds ==
  ASSUME CurationTyped
  PROVE  Warned
<1> SUFFICES ASSUME NEW d \in DOMAIN drafts, NEW c \in drafts[d].merge,
                    NEW r \in CannotLink(drafts[d].canonical, c), Strength(r) >= Review
             PROVE  r \in Risks(drafts[d]) \/ HardBlocked(drafts[d])
  BY DEF Warned
<1>1. Strength(r) \in 0..100 /\ HardBlock \in 0..100 /\ Review \in 0..100
  BY Strengths, Thresholds DEF CannotLink
<1>2. CASE Strength(r) < HardBlock
  BY <1>1, <1>2 DEF Risks
<1>3. CASE Strength(r) >= HardBlock
  BY Strongest, <1>1, <1>3 DEF HardBlocked
<1>4. QED
  BY <1>1, <1>2, <1>3

-----------------------------------------------------------------------------
\* Tombstones.

LEMMA ChainsBegin == CurationInit => Chains
<1> SUFFICES ASSUME CurationInit PROVE Chains
  OBVIOUS
<1>1. tomb = [c \in Ids |-> Nothing] /\ alias = [c \in Ids |-> {}] /\ concepts \subseteq Ids
  BY CurationAssumption DEF CurationInit
<1>2. Tombs = {}
  BY <1>1 DEF Tombs
<1>3. Cardinality(Tombs) = 0
  BY <1>2, FS_EmptySet
<1>4. [c \in Ids |-> 0] \in [Ids -> 0..Cardinality(Tombs)] /\ Height([c \in Ids |-> 0])
  BY <1>2, <1>3 DEF Height
<1>5. QED
  BY <1>1, <1>2, <1>4 DEF Chains

LEMMA ChainsStay == Chains /\ UNCHANGED <<concepts, alias, tomb, again>> => Chains'
BY DEF Chains, Height, Tombs, Aliased

\* A merge buries concepts that are none yet, and whoever was buried for them has one more
\* tombstone to pass.
LEMMA ChainsMerge ==
  ASSUME CurationTyped, Chains, NEW m \in Draft, Valid(m), Merges(m), again' = again
  PROVE  Chains'
<1> DEFINE n == Cardinality(Tombs)
           n2 == Cardinality(Tombs')
<1>1. /\ concepts \subseteq Ids /\ alias \in [Ids -> SUBSET Ids] /\ tomb \in [Ids -> Ids \cup {Nothing}]
      /\ m.canonical \in concepts /\ m.merge \subseteq concepts /\ m.merge # {} /\ m.canonical \notin m.merge
  BY DEF CurationTyped, Valid
<1>2. /\ concepts' = concepts \ m.merge
      /\ \A c \in Ids : tomb'[c] = IF c \in m.merge THEN m.canonical ELSE tomb[c]
      /\ \A c \in Ids : alias'[c] = IF c \in m.merge THEN {}
                                    ELSE IF c = m.canonical THEN alias[c] \cup m.merge \cup UNION {alias[d] : d \in m.merge}
                                    ELSE alias[c]
  BY DEF Merges, Inherits
<1>3. Tombs' = Tombs \cup m.merge
  BY <1>1, <1>2, CurationAssumption DEF Tombs
<1>4. ASSUME NEW t \in Tombs' PROVE t \in concepts' \/ Aliased(t)' # {}
  <2>1. CASE t \in m.merge
    BY <1>1, <1>2, <2>1 DEF Aliased
  <2>2. CASE t \in Tombs /\ t \in concepts /\ t \notin m.merge
    BY <1>2, <2>2
  <2>3. CASE t \in Tombs /\ t \notin concepts
    <3>1. PICK c \in concepts : t \in alias[c]
      BY <2>3 DEF Chains, Aliased
    <3>2. CASE c \in m.merge
      <4>1. m.canonical \in concepts' /\ t \in alias'[m.canonical]
        BY <1>1, <1>2, <3>1, <3>2
      <4>2. QED
        BY <4>1 DEF Aliased
    <3>3. CASE c \notin m.merge
      BY <1>1, <1>2, <3>1, <3>3 DEF Aliased
    <3>4. QED
      BY <3>2, <3>3
  <2>4. QED
    BY <1>3, <2>1, <2>2, <2>3
<1>5. ASSUME again = {}
      PROVE  /\ \A c \in concepts' : tomb'[c] = Nothing
             /\ \A c, d \in Ids : c # d => alias'[c] \cap alias'[d] = {}
             /\ \A c \in Ids : alias'[c] \subseteq Tombs'
             /\ \E h \in [Ids -> 0..n2] : Height(h)'
  <2>1. /\ \A c \in concepts : tomb[c] = Nothing
        /\ \A c, d \in Ids : c # d => alias[c] \cap alias[d] = {}
        /\ \A c \in Ids : alias[c] \subseteq Tombs
    BY <1>5 DEF Chains
  <2>2. PICK h \in [Ids -> 0..n] : Height(h)
    BY <1>5 DEF Chains
  <2>3. \A c \in concepts' : tomb'[c] = Nothing
    BY <1>1, <1>2, <2>1
  <2>4. Tombs \cap concepts = {}
    BY <2>1 DEF Tombs
  <2>5a. PICK U : U = UNION {alias[d] : d \in m.merge}
    OBVIOUS
  <2>5b. /\ U \subseteq Tombs /\ \A c \in Ids : c \notin m.merge => alias[c] \cap U = {}
    BY <1>1, <2>1, <2>5a
  <2>5c. \A c \in Ids : alias'[c] = IF c \in m.merge THEN {}
                                   ELSE IF c = m.canonical THEN alias[c] \cup m.merge \cup U ELSE alias[c]
    BY <1>2, <2>5a
  <2>5. \A c \in Ids : alias'[c] \subseteq Tombs'
    BY <1>3, <2>1, <2>5b, <2>5c
  <2>6. ASSUME NEW c \in Ids, NEW d \in Ids, c # d PROVE alias'[c] \cap alias'[d] = {}
    <3>1. \A e \in Ids : alias[e] \cap m.merge = {}
      BY <1>1, <2>1, <2>4
    <3>2. \A e \in Ids : e # m.canonical => alias'[m.canonical] \cap alias'[e] = {}
      <4>1. SUFFICES ASSUME NEW e \in Ids, e # m.canonical PROVE alias'[m.canonical] \cap alias'[e] = {}
        OBVIOUS
      <4>2. CASE e \in m.merge
        BY <2>5c, <4>2
      <4>3. CASE e \notin m.merge
        <5>1. m.canonical \in Ids /\ alias'[m.canonical] = alias[m.canonical] \cup m.merge \cup U
          BY <1>1, <2>5c
        <5>2. alias'[e] = alias[e] /\ alias[e] \cap U = {} /\ alias[e] \cap m.merge = {}
              /\ alias[m.canonical] \cap alias[e] = {}
          BY <2>1, <2>5b, <2>5c, <3>1, <4>1, <4>3, <5>1
        <5>3. QED
          BY <5>1, <5>2
      <4>4. QED
        BY <4>2, <4>3
    <3>3. CASE c = m.canonical
      BY <2>6, <3>2, <3>3
    <3>4. CASE d = m.canonical
      BY <2>6, <3>2, <3>4
    <3>5. CASE c # m.canonical /\ d # m.canonical
      BY <2>5c, <3>5, <2>1, <2>6
    <3>6. QED
      BY <3>3, <3>4, <3>5
  <2>7. n \in Nat /\ n2 \in Nat /\ n + 1 <= n2
    <3>1. IsFiniteSet(Tombs') /\ IsFiniteSet(Tombs) /\ IsFiniteSet(m.merge)
      BY <1>1, CurationAssumption, FS_Subset DEF Tombs
    <3>2. Tombs \subseteq Tombs' /\ Tombs # Tombs'
      BY <1>1, <1>3, <2>4
    <3>3. n \in Nat /\ n2 \in Nat /\ n <= n2 /\ (n = n2 => Tombs = Tombs')
      BY <3>1, <3>2, FS_Subset, FS_CardinalityType
    <3>4. QED
      BY <3>2, <3>3
  <2>7a. PICK up : up = [c \in Ids |-> IF c \in m.merge THEN 1 ELSE IF c \in Tombs THEN h[c] + 1 ELSE 0]
    OBVIOUS
  <2> HIDE DEF n, n2
  <2>8. \A c \in Ids : h[c] \in 0..n
    OBVIOUS
  <2>9. up \in [Ids -> 0..n2] /\ \A c \in Ids : up[c] = IF c \in m.merge THEN 1 ELSE IF c \in Tombs THEN h[c] + 1 ELSE 0
    BY <2>7, <2>7a, <2>8
  <2>10. ASSUME NEW c \in Tombs'
         PROVE  up[c] > 0 /\ (tomb'[c] \in concepts' \/ (tomb'[c] \in Tombs' /\ up[tomb'[c]] < up[c]))
    <3>1. CASE c \in m.merge
      BY <1>1, <1>2, <2>9, <3>1
    <3>2. CASE c \in Tombs /\ c \notin m.merge
      <4>1. /\ c \in Ids /\ tomb'[c] = tomb[c] /\ up[c] = h[c] + 1 /\ h[c] \in Nat
            /\ h[c] > 0 /\ (tomb[c] \in concepts \/ (tomb[c] \in Tombs /\ h[tomb[c]] < h[c]))
        BY <1>2, <2>2, <2>7, <2>8, <2>9, <3>2 DEF Height, Tombs
      <4>2. CASE tomb[c] \in m.merge
        BY <1>1, <1>3, <2>9, <4>2, <4>1
      <4>3. CASE tomb[c] \in concepts /\ tomb[c] \notin m.merge
        BY <1>2, <4>1, <4>3
      <4>4. CASE tomb[c] \in Tombs /\ h[tomb[c]] < h[c] /\ tomb[c] \notin m.merge
        BY <1>3, <2>7, <2>8, <2>9, <4>4, <4>1 DEF Tombs
      <4>5. QED
        BY <4>1, <4>2, <4>3, <4>4
    <3>3. QED
      BY <1>3, <3>1, <3>2
  <2>11. Height(up)'
    BY <2>10 DEF Height
  <2>12. QED
    BY <2>3, <2>5, <2>6, <2>9, <2>11
<1>6. QED
  BY <1>4, <1>5 DEF Chains

\* A new concept changes no tombstone; one with a tombstone is remembered in again.
LEMMA ChainsCreate ==
  ASSUME CurationTyped, Chains, NEW c \in Ids, Creates(c)
  PROVE  Chains'
BY DEF Creates, Tombs, Chains, Aliased, Height

\* The walk along the tombstones, one more at a time.
Hop(ends) == [d \in Ids \cup {Nothing} |-> IF d = Nothing \/ d \in ends THEN d ELSE tomb[d]]
LEMMA HopFacts ==
  ASSUME tomb \in [Ids -> Ids \cup {Nothing}], NEW ends, NEW c \in Ids \cup {Nothing}
  PROVE  /\ Iterated(Hop(ends), 0, c) = c
         /\ \A n \in Nat : /\ Iterated(Hop(ends), n, c) \in Ids \cup {Nothing}
                           /\ Iterated(Hop(ends), n + 1, c) = Hop(ends)[Iterated(Hop(ends), n, c)]
         /\ Ending(c, ends) = {Iterated(Hop(ends), DepthLimit - 1, c)} \cap ends
<1>1. \A d \in Ids \cup {Nothing} : Hop(ends)[d] \in Ids \cup {Nothing}
  BY DEF Hop
<1>2. Ending(c, ends) = {Iterated(Hop(ends), DepthLimit - 1, c)} \cap ends
  BY DEF Ending, Hop
<1>3. PICK f, S : f = Hop(ends) /\ S = Ids \cup {Nothing}
  OBVIOUS
<1>4. c \in S /\ \A d \in S : f[d] \in S
  BY <1>1, <1>3
<1>5. \A n \in Nat : /\ Iterated(f, n, c) \in S /\ Iterated(f, 0, c) = c
                     /\ Iterated(f, n + 1, c) = f[Iterated(f, n, c)]
  BY ONLY <1>4, IteratedFacts
<1>6. 0 \in Nat
  OBVIOUS
<1>7. QED
  BY <1>2, <1>3, <1>5, <1>6

\* Nobody is found from an id that is neither a concept nor buried.
LEMMA NoEnding ==
  ASSUME CurationTyped, NEW t \in Ids, t \notin concepts, tomb[t] = Nothing
  PROVE  Ending(t, concepts) = {}
<1>1. /\ tomb \in [Ids -> Ids \cup {Nothing}] /\ concepts \subseteq Ids /\ Nothing \notin concepts
  BY CurationAssumption DEF CurationTyped
<1> DEFINE w(n) == Iterated(Hop(concepts), n, t)
           T == {n \in Nat : w(n) \in {t, Nothing}}
<1>2. 0 \in T
  BY <1>1, HopFacts
<1>3. ASSUME NEW n \in T PROVE n + 1 \in T
  <2>1a. n \in Nat /\ w(n) \in {t, Nothing}
    OBVIOUS
  <2>1b. t \in Ids \cup {Nothing} /\ n \in Nat /\ n + 1 \in Nat
    BY <2>1a
  <2>1c. w(n + 1) = Hop(concepts)[w(n)]
    BY <1>1, <2>1b, HopFacts
  <2>1. w(n + 1) = Hop(concepts)[w(n)] /\ w(n) \in {t, Nothing} /\ n + 1 \in Nat
    BY <2>1a, <2>1b, <2>1c
  <2>2. Hop(concepts)[t] = Nothing /\ Hop(concepts)[Nothing] = Nothing
    BY DEF Hop
  <2> HIDE DEF w
  <2>3. QED
    BY <2>1, <2>2
<1>4. T \in SUBSET Nat
  OBVIOUS
<1>5. DepthLimit - 1 \in T
  <2> HIDE DEF T
  <2>1. T = Nat
    BY <1>2, <1>3, <1>4, NatInd
  <2>2. QED
    BY <2>1, CurationAssumption
<1>6. QED
  BY <1>1, <1>5, HopFacts

\* From a tombstone of one that was never created again the walk ends at a concept, if there
\* are not more tombstones than it may pass.
LEMMA EndsThere ==
  ASSUME CurationTyped, Chains, again = {}, Cardinality(Tombs) <= DepthLimit, NEW t \in Tombs
  PROVE  Ending(tomb[t], concepts) # {}
<1>1. /\ tomb \in [Ids -> Ids \cup {Nothing}] /\ concepts \subseteq Ids /\ Nothing \notin concepts
      /\ t \in Ids /\ tomb[t] # Nothing /\ Nothing \notin Tombs
  BY CurationAssumption DEF CurationTyped, Tombs
<1>2. PICK h \in [Ids -> 0..Cardinality(Tombs)] : Height(h)
  BY DEF Chains
<1>3. Cardinality(Tombs) \in Nat
  BY CurationAssumption, FS_Subset, FS_CardinalityType DEF Tombs
<1>4. \A c \in Tombs : /\ h[c] \in Nat /\ h[c] <= DepthLimit /\ h[c] > 0
                       /\ (tomb[c] \in concepts \/ (tomb[c] \in Tombs /\ h[tomb[c]] < h[c]))
  BY CurationAssumption, <1>2, <1>3 DEF Tombs, Height
<1>5. tomb[t] \in concepts \/ (tomb[t] \in Tombs /\ h[tomb[t]] <= DepthLimit - 1)
  BY CurationAssumption, <1>4
<1> DEFINE w(n) == Iterated(Hop(concepts), n, tomb[t])
           T == {n \in Nat : w(n) \in concepts \/ (w(n) \in Tombs /\ h[w(n)] + n <= DepthLimit - 1)}
<1>6. 0 \in T
  BY <1>1, HopFacts, <1>4, <1>5
<1>7. ASSUME NEW n \in T PROVE n + 1 \in T
  <2>1. w(n + 1) = Hop(concepts)[w(n)] /\ n \in Nat /\ n + 1 \in Nat
    BY <1>1, HopFacts
  <2>2. w(n) \in concepts \/ (w(n) \in Tombs /\ h[w(n)] + n <= DepthLimit - 1)
    OBVIOUS
  <2>3. PICK x, y : x = w(n) /\ y = w(n + 1)
    OBVIOUS
  <2>4. CASE x \in concepts
    BY <1>1, <2>4, <2>1, <2>3 DEF Hop
  <2>5. CASE x \notin concepts
    <3>1. x \in Tombs /\ x \in Ids /\ h[x] + n <= DepthLimit - 1
      BY <2>2, <2>3, <2>5 DEF Tombs
    <3>2. Hop(concepts)[x] = tomb[x]
      BY <1>1, <2>5, <3>1 DEF Hop
    <3>3. y = tomb[x]
      BY <2>1, <2>3, <3>2
    <3>4. y \in concepts \/ (y \in Tombs /\ h[y] \in Nat /\ h[x] \in Nat /\ h[y] < h[x])
      BY <1>4, <3>1, <3>3
    <3>5. DepthLimit \in Nat
      BY CurationAssumption
    <3>6. y \in concepts \/ (y \in Tombs /\ h[y] + (n + 1) <= DepthLimit - 1)
      BY <2>1, <3>1, <3>4, <3>5
    <3>7. QED
      BY <2>1, <2>3, <3>6
  <2>6. QED
    BY <2>4, <2>5
<1>8. T \in SUBSET Nat
  OBVIOUS
<1>9. DepthLimit - 1 \in T
  <2> HIDE DEF T
  <2>1. T = Nat
    BY <1>6, <1>7, <1>8, NatInd
  <2>2. QED
    BY <2>1, CurationAssumption
<1>10. w(DepthLimit - 1) \in concepts
  BY <1>9, <1>4
<1>11. QED
  BY <1>1, <1>10, HopFacts

\* The linter and the resolver (LintAgrees).
LEMMA LintHolds ==
  ASSUME CurationTyped, Chains
  PROVE  LintAgrees
<1>1. /\ concepts \subseteq Ids /\ alias \in [Ids -> SUBSET Ids] /\ tagged \in [Pages -> SUBSET Ids]
      /\ tomb \in [Ids -> Ids \cup {Nothing}]
  BY DEF CurationTyped
<1>2. ASSUME NEW t \in UNION {tagged[n] : n \in Pages}
      PROVE  (t \notin concepts \cup UNION {alias[c] : c \in concepts} /\ Ending(t, concepts) = {})
             <=> Resolved(t) = {}
  BY <1>1, NoEnding DEF Aliased, Resolved, Chains, Tombs
<1>3. OrphanTags = {t \in UNION {tagged[n] : n \in Pages} : Resolved(t) = {}}
  BY <1>2 DEF OrphanTags
<1>4. ASSUME again = {} PROVE AliasCollisions = {}
  <2>1. ASSUME NEW a \in Ids PROVE ~(Cardinality(Aliased(a)) > 1)
    <3>1. \A c, d \in Aliased(a) : c = d
      BY <1>1, <1>4 DEF Chains, Aliased
    <3>2. CASE Aliased(a) = {}
      BY <3>2, FS_EmptySet
    <3>3. CASE Aliased(a) # {}
      <4>1. PICK c : c \in Aliased(a)
        BY <3>3
      <4>2. Aliased(a) = {c}
        BY <3>1, <4>1
      <4>3. Cardinality({c}) = 1
        BY FS_Singleton
      <4>4. QED
        BY <4>2, <4>3
    <3>4. QED
      BY <3>2, <3>3
  <2>2. QED
    BY <2>1 DEF AliasCollisions
<1>5. ASSUME again = {}, Cardinality({c \in Ids : tomb[c] # Nothing}) <= DepthLimit
      PROVE  RedirectAnomalies = {}
  BY <1>5, EndsThere DEF Tombs, Chains, RedirectAnomalies
<1>6. QED
  BY <1>3, <1>4, <1>5 DEF LintAgrees

-----------------------------------------------------------------------------
\* Clusters.

\* A finite set's listing has all of it.
LEMMA Listed ==
  ASSUME NEW S, IsFiniteSet(S)
  PROVE  SetToSeq(S) \in Seq(S) /\ ToSet(SetToSeq(S)) = S
<1> DEFINE n == Cardinality(S)
           Injections1(f) == f \in [1..n -> S] /\ IsInjective(f)
<1>1. n \in Nat /\ ExistsBijection(1..n, S)
  BY FS_CardinalityType
<1>2. PICK g \in Bijection(1..n, S) : TRUE
  BY <1>1 DEF ExistsBijection
<1>3. Injections1(g)
  BY <1>2 DEF Bijection, Injection, Surjection, IsInjective
<1>4. SetToSeq(S) = CHOOSE f \in [1..n -> S] : IsInjective(f)
  BY DEF SetToSeq
<1>5. PICK f : f = SetToSeq(S) /\ Injections1(f)
  BY <1>3, <1>4
<1>6. f \in Injection(1..n, S)
  BY <1>5 DEF Injection, IsInjective
<1>7. IsFiniteSet(1..n) /\ Cardinality(1..n) = n
  BY <1>1, FS_Interval
<1>8. f \in Surjection(1..n, S)
  BY <1>6, <1>7, FS_Injection
<1>9. f \in Seq(S) /\ DOMAIN f = 1..n
  BY <1>1, <1>5
<1>10. \A y \in S : \E i \in 1..n : f[i] = y
  BY <1>8 DEF Surjection
<1>11. ToSet(f) = S
  BY <1>5, <1>9, <1>10 DEF ToSet
<1>12. QED
  BY <1>5, <1>9, <1>11

\* A pair has two elements.
LEMMA PairIs ==
  ASSUME NEW e \in ConceptPairs
  PROVE  LET a == CHOOSE x \in e : TRUE
             b == CHOOSE x \in e \ {a} : TRUE
         IN a \in Ids /\ b \in Ids /\ e = {a, b}
<1> DEFINE a == CHOOSE x \in e : TRUE
           b == CHOOSE x \in e \ {a} : TRUE
<1>1. e \subseteq Ids /\ Cardinality(e) = 2 /\ IsFiniteSet(e)
  BY CurationAssumption, FS_Subset DEF ConceptPairs
<1>2. a \in e
  BY <1>1, FS_EmptySet
<1> HIDE DEF a
<1>3. IsFiniteSet(e \ {a}) /\ Cardinality(e \ {a}) = 1
  BY <1>1, <1>2, FS_RemoveElement
<1>4. b \in e \ {a}
  BY <1>3, FS_EmptySet
<1> HIDE DEF b
<1>5. IsFiniteSet((e \ {a}) \ {b}) /\ Cardinality((e \ {a}) \ {b}) = 0
  <2>1. PICK S : S = e \ {a}
    OBVIOUS
  <2>2. IsFiniteSet(S) /\ Cardinality(S) = 1 /\ b \in S
    BY <1>3, <1>4, <2>1
  <2>3. IsFiniteSet(S \ {b}) /\ Cardinality(S \ {b}) = Cardinality(S) - 1
    BY <2>2, FS_RemoveElement
  <2>4. Cardinality(S \ {b}) = 0
    BY <2>2, <2>3
  <2>5. QED
    BY <2>1, <2>3, <2>4, Zenon
<1>6. (e \ {a}) \ {b} = {}
  BY <1>5, FS_EmptySet
<1>7. a \in Ids /\ b \in Ids /\ e = {a, b}
  BY <1>1, <1>2, <1>4, <1>6
<1>8. QED
  BY <1>7 DEF a, b

\* union: whoever one side led is led by the other's.
Unites(new, leader, a, b) ==
  /\ new \in [Ids -> Ids]
  /\ \A c \in Ids : new[c] = IF leader[c] = leader[a] THEN leader[b] ELSE leader[c]
LEMMA UnionIs ==
  ASSUME NEW leader \in [Ids -> Ids], NEW e \in ConceptPairs
  PROVE  \E a, b \in Ids : e = {a, b} /\ Unites(Union(leader, e), leader, a, b)
<1>1. PICK a, b : a = (CHOOSE x \in e : TRUE) /\ b = (CHOOSE x \in e \ {a} : TRUE)
  OBVIOUS
<1>2. a \in Ids /\ b \in Ids /\ e = {a, b}
  BY <1>1, PairIs
<1>3. Union(leader, e) = [c \in Ids |-> IF leader[c] = leader[a] THEN leader[b] ELSE leader[c]]
  BY <1>1 DEF Union
<1>4. Unites(Union(leader, e), leader, a, b)
  BY <1>2, <1>3 DEF Unites
<1>5. QED
  BY <1>2, <1>4

\* The unions one after another.
Leads(f, pairs) ==
  /\ f \in [0..Len(pairs) -> [Ids -> Ids]]
  /\ \A c \in Ids : f[0][c] = c
  /\ \A i \in 1..Len(pairs) : f[i] = Union(f[i - 1], pairs[i])
LEMMA LeadersIs ==
  ASSUME NEW edges, edges \subseteq ConceptPairs, NEW all, all \subseteq Ids
  PROVE  \E pairs \in Seq(ConceptPairs) : \E f :
           /\ ToSet(pairs) = {e \in edges : e \subseteq all}
           /\ Leads(f, pairs) /\ Leaders(edges, all) = f[Len(pairs)]
<1> DEFINE S == {e \in edges : e \subseteq all}
           pairs == SetToSeq(S)
           n == Len(pairs)
           Leaderships == [Ids -> Ids]
           first == [c \in Ids |-> c]
           step == [i \in 1..n |-> [w \in Leaderships |-> Union(w, pairs[i])]]
           Body(f) == [i \in 0..n |-> IF i = 0 THEN first ELSE Union(f[i - 1], pairs[i])]
           g == CHOOSE f : f = Body(f)
<1>1. IsFiniteSet(S)
  BY CurationAssumption, FS_SUBSET, FS_Subset DEF ConceptPairs
<1>2. pairs \in Seq(S) /\ ToSet(pairs) = S
  BY <1>1, Listed
<1>3. pairs \in Seq(ConceptPairs)
  BY <1>2
<1>4. n \in Nat /\ \A i \in 1..n : pairs[i] \in ConceptPairs
  <2> HIDE DEF pairs
  <2>1. QED
    BY <1>3
<1> HIDE DEF pairs, n, S
<1>5. \A i \in 1..n, w \in Leaderships : Union(w, pairs[i]) \in Leaderships
  BY <1>4, UnionIs DEF Unites
<1>6. step \in [1..n -> [Leaderships -> Leaderships]] /\ first \in Leaderships
  BY <1>5
<1>7. PICK f : f \in [0..n -> Leaderships] /\ f[0] = first /\ \A i \in 1..n : f[i] = step[i][f[i - 1]]
  <2> HIDE DEF Leaderships, step, first
  <2>1. \E f : Recurs(f, n, Leaderships, first, step)
    BY <1>4, <1>6, RecursFacts
  <2>2. QED
    BY <2>1 DEF Recurs
<1>8. \A i \in 1..n : i - 1 \in 0..n /\ f[i - 1] \in Leaderships /\ f[i] = Union(f[i - 1], pairs[i])
  <2>1. \A i \in 1..n, w \in Leaderships : step[i][w] = Union(w, pairs[i])
    OBVIOUS
  <2>2. \A i \in 1..n : i - 1 \in 0..n
    BY <1>4
  <2> HIDE DEF step, Leaderships
  <2>3. QED
    BY <1>7, <2>1, <2>2
<1>9. f = Body(f)
  BY <1>7, <1>4, <1>8
<1>10. g = Body(g)
  BY <1>9
<1>11. \A i \in 0..n : g[i] = f[i]
  <2> HIDE DEF g, Leaderships, first
  <2>1. \A i \in 0..n : g[i] = IF i = 0 THEN first ELSE Union(g[i - 1], pairs[i])
    BY <1>10
  <2>2. \A i \in 1..n : i \in 0..n /\ i # 0
    BY <1>4
  <2>3. g[0] = f[0] /\ \A i \in 1..n : g[i - 1] = f[i - 1] => g[i] = f[i]
    BY <1>4, <1>7, <1>8, <2>1, <2>2
  <2>4. QED
    BY <1>4, <2>3, AlikeByStep
<1>12. Leaders(edges, all) = g[n]
  BY DEF Leaders, S, pairs, n
<1>13. Leads(f, pairs) /\ Leaders(edges, all) = f[n]
  <2> HIDE DEF g
  <2>1. n \in 0..n
    BY <1>4
  <2>2. \A c \in Ids : f[0][c] = c
    BY <1>7
  <2>3. QED
    BY <1>7, <1>8, <1>11, <1>12, <2>1, <2>2 DEF Leads, n
<1>14. QED
  BY <1>2, <1>3, <1>13 DEF n, S

\* Those of a pair have one leader from then on.
LEMMA OneLeader ==
  ASSUME NEW pairs \in Seq(ConceptPairs), NEW f, Leads(f, pairs)
  PROVE  \A i \in 0..Len(pairs) : \A j \in 1..i : \A x, y \in pairs[j] : f[i][x] = f[i][y]
<1> DEFINE T == {i \in Nat : i <= Len(pairs) => \A j \in 1..i : \A x, y \in pairs[j] : f[i][x] = f[i][y]}
<1>1. 0 \in T
  OBVIOUS
<1>2. ASSUME NEW i \in T PROVE i + 1 \in T
  <2>1. SUFFICES ASSUME i + 1 <= Len(pairs), NEW j \in 1..(i + 1), NEW x \in pairs[j], NEW y \in pairs[j]
                 PROVE  f[i + 1][x] = f[i + 1][y]
    OBVIOUS
  <2>2. /\ i \in Nat /\ i + 1 \in 1..Len(pairs) /\ (i + 1) - 1 = i /\ j \in 1..Len(pairs)
        /\ i \in 0..Len(pairs) /\ i + 1 \in 0..Len(pairs) /\ (j \in 1..i \/ j = i + 1)
    BY <2>1
  <2>3. f[i] \in [Ids -> Ids] /\ pairs[i + 1] \in ConceptPairs /\ pairs[j] \in ConceptPairs
    BY <2>2 DEF Leads
  <2>3a. f[i + 1] = Union(f[i], pairs[i + 1])
    BY <2>2 DEF Leads
  <2>4. PICK a, b \in Ids : pairs[i + 1] = {a, b} /\ Unites(f[i + 1], f[i], a, b)
    BY <2>3, <2>3a, UnionIs
  <2>5. x \in Ids /\ y \in Ids
    BY <2>3 DEF ConceptPairs
  <2>6. CASE j = i + 1
    BY <2>4, <2>5, <2>6 DEF Unites
  <2>7. CASE j \in 1..i
    BY <2>1, <2>2, <2>7, <2>4, <2>5 DEF Unites
  <2>8. QED
    BY <2>2, <2>6, <2>7
<1>3. T \in SUBSET Nat
  OBVIOUS
<1>4. \A i \in 0..Len(pairs) : i \in T
  <2> HIDE DEF T
  <2>1. T = Nat
    BY <1>1, <1>2, <1>3, NatInd
  <2>2. QED
    BY <2>1
<1>5. QED
  BY <1>4

\* Those of one leader are in the same closed sets.
LEMMA OneLeaderOnly ==
  ASSUME NEW pairs \in Seq(ConceptPairs), NEW f, Leads(f, pairs),
         NEW s, \A i \in 1..Len(pairs) : pairs[i] \cap s # {} => pairs[i] \subseteq s
  PROVE  \A i \in 0..Len(pairs) : \A x, y \in Ids : f[i][x] = f[i][y] /\ x \in s => y \in s
<1> DEFINE T == {i \in Nat : i <= Len(pairs) => \A x, y \in Ids : f[i][x] = f[i][y] /\ x \in s => y \in s}
<1>1. 0 \in T
  BY DEF Leads
<1>2. ASSUME NEW i \in T PROVE i + 1 \in T
  <2>1. SUFFICES ASSUME i + 1 <= Len(pairs), NEW x \in Ids, NEW y \in Ids, f[i + 1][x] = f[i + 1][y], x \in s
                 PROVE  y \in s
    OBVIOUS
  <2>2. i \in Nat /\ i + 1 \in 1..Len(pairs) /\ (i + 1) - 1 = i /\ i \in 0..Len(pairs)
    BY <2>1
  <2>3. f[i] \in [Ids -> Ids] /\ pairs[i + 1] \in ConceptPairs /\ f[i + 1] = Union(f[i], pairs[i + 1])
    BY <2>2 DEF Leads
  <2>4. PICK a, b \in Ids : pairs[i + 1] = {a, b} /\ Unites(f[i + 1], f[i], a, b)
    BY <2>3, UnionIs
  <2>5. a \in s <=> b \in s
    BY <2>2, <2>4
  <2>6. \A u, v \in Ids : f[i][u] = f[i][v] /\ u \in s => v \in s
    BY <2>1, <2>2
  <2>7. PICK g, h : g = f[i] /\ h = f[i + 1]
    OBVIOUS
  <2>8. /\ \A u, v \in Ids : g[u] = g[v] /\ u \in s => v \in s
        /\ \A c \in Ids : h[c] = IF g[c] = g[a] THEN g[b] ELSE g[c]
    BY <2>4, <2>6, <2>7 DEF Unites
  <2>9. h[x] = h[y]
    BY <2>1, <2>7
  <2>10. CASE g[x] = g[a] /\ g[y] = g[a]
    BY <2>1, <2>8, <2>10
  <2>11. CASE g[x] = g[a] /\ g[y] # g[a]
    BY <2>1, <2>8, <2>9, <2>11, <2>5
  <2>12. CASE g[x] # g[a] /\ g[y] = g[a]
    BY <2>8, <2>9, <2>12, <2>1, <2>5
  <2>13. CASE g[x] # g[a] /\ g[y] # g[a]
    BY <2>1, <2>8, <2>9, <2>13
  <2>14. QED
    BY <2>10, <2>11, <2>12, <2>13
<1>3. T \in SUBSET Nat
  OBVIOUS
<1>4. \A i \in 0..Len(pairs) : i \in T
  <2> HIDE DEF T
  <2>1. T = Nat
    BY <1>1, <1>2, <1>3, NatInd
  <2>2. QED
    BY <2>1
<1>5. QED
  BY <1>4

\* Union-find groups what is connected.
LEMMA GroupsFacts ==
  ASSUME NEW edges, edges \subseteq ConceptPairs, NEW all, all \subseteq Ids
  PROVE  /\ Groups(edges, all) \subseteq Bunches(all)
         /\ \A c \in all : Reach(edges, all, c) # {c} => Reach(edges, all, c) \in Groups(edges, all)
<1> DEFINE leader == Leaders(edges, all)
           Class(c) == {d \in all : leader[d] = leader[c]}
<1>1a. PICK pairs \in Seq(ConceptPairs) : \E f : /\ ToSet(pairs) = {e \in edges : e \subseteq all}
                                           /\ Leads(f, pairs) /\ leader = f[Len(pairs)]
  BY LeadersIs
<1>1. PICK f : /\ ToSet(pairs) = {e \in edges : e \subseteq all}
               /\ Leads(f, pairs) /\ leader = f[Len(pairs)]
  BY <1>1a
<1>2. Len(pairs) \in 0..Len(pairs) /\ \A i \in 1..Len(pairs) : i \in 1..Len(pairs)
  OBVIOUS
<1>3. \A e \in edges : e \subseteq all => \E i \in 1..Len(pairs) : pairs[i] = e
  BY <1>1 DEF ToSet
<1>4. \A i \in 1..Len(pairs) : pairs[i] \in edges /\ pairs[i] \subseteq all
  BY <1>1 DEF ToSet
<1> HIDE DEF leader
<1>5. \A e \in edges : e \subseteq all => \A x, y \in e : leader[x] = leader[y]
  BY <1>1, <1>2, OneLeader, <1>3
<1>6. ASSUME NEW c \in all
      PROVE  Class(c) = Reach(edges, all, c) /\ c \in Class(c)
  <2>1. c \in Class(c) /\ Class(c) \in SUBSET all
    OBVIOUS
  <2>2. Closed(edges, Class(c), all)
    BY <1>5 DEF Closed
  <2>3. Reach(edges, all, c) \subseteq Class(c)
    BY <2>1, <2>2 DEF Reach
  <2>4. ASSUME NEW d \in Class(c), NEW s \in SUBSET all, c \in s, Closed(edges, s, all)
        PROVE  d \in s
    <3>1. \A i \in 1..Len(pairs) : pairs[i] \cap s # {} => pairs[i] \subseteq s
      BY <1>4, <2>4 DEF Closed
    <3>2. \A x, y \in Ids : leader[x] = leader[y] /\ x \in s => y \in s
      <4>1. Leads(f, pairs)
        BY <1>1
      <4>2. \A i \in 0..Len(pairs) : \A x, y \in Ids : f[i][x] = f[i][y] /\ x \in s => y \in s
        BY ONLY <3>1, <4>1, pairs \in Seq(ConceptPairs), OneLeaderOnly
      <4>3. \A x, y \in Ids : f[Len(pairs)][x] = f[Len(pairs)][y] /\ x \in s => y \in s
        BY ONLY <1>2, <4>2
      <4>4. QED
        BY <1>1, <4>3
    <3>3. c \in Ids /\ d \in Ids /\ leader[c] = leader[d]
      OBVIOUS
    <3>4. QED
      BY ONLY <2>4, <3>2, <3>3
  <2>5. Class(c) \subseteq Reach(edges, all, c)
    BY <2>4 DEF Reach
  <2>6. QED
    BY <2>1, <2>3, <2>5
<1>7. Groups(edges, all) = {g \in {Class(c) : c \in all} : Cardinality(g) > 1}
  BY DEF Groups, leader
<1> HIDE DEF Class
<1>8. \A c \in all : Class(c) \subseteq all
  BY DEF Class
<1>9. Groups(edges, all) \subseteq Bunches(all)
  BY <1>7, <1>8 DEF Bunches
<1>10. ASSUME NEW c \in all, Class(c) # {c}
       PROVE  Cardinality(Class(c)) > 1
  <2>1. PICK d \in Class(c) : d # c
    BY <1>6, <1>10
  <2>2. IsFiniteSet(Class(c))
    BY <1>8, CurationAssumption, FS_Subset
  <2>3. {c, d} \subseteq Class(c) /\ IsFiniteSet({c}) /\ Cardinality({c}) = 1
    BY <1>6, <2>1, FS_Singleton
  <2>4. Cardinality({c} \cup {d}) = 2
    <3>1. PICK S : S = {c}
      OBVIOUS
    <3>2. IsFiniteSet(S) /\ Cardinality(S) = 1 /\ d \notin S
      BY <2>1, <2>3, <3>1
    <3>3. Cardinality(S \cup {d}) = Cardinality(S) + 1
      BY <3>2, FS_AddElement
    <3>4. Cardinality(S \cup {d}) = 2
      BY <3>2, <3>3
    <3>5. QED
      BY <3>1, <3>4, Zenon
  <2>5. Cardinality({c} \cup {d}) <= Cardinality(Class(c)) /\ Cardinality(Class(c)) \in Nat
    BY <2>3, <2>2, FS_Subset, FS_CardinalityType
  <2>6. PICK n : n = Cardinality(Class(c))
    OBVIOUS
  <2>7. n \in Nat /\ 2 <= n
    BY <2>4, <2>5, <2>6, Zenon
  <2>8. n > 1
    BY <2>7
  <2>9. QED
    BY <2>6, <2>8, Zenon
<1>11. QED
  BY <1>6, <1>7, <1>9, <1>10

-----------------------------------------------------------------------------
\* The canonical concept of a cluster, and free paths.

Less(usage, d, c) == usage[d] < usage[c] \/ (usage[d] = usage[c] /\ Rank[d] < Rank[c])

\* There is always one that is used most, or ranks highest of those.
LEMMA PickIs ==
  ASSUME NEW all, all \subseteq Ids, NEW g \in Bunches(all), NEW usage \in [all -> Nat]
  PROVE  PickCanonical(g, usage) \in g
<1>1. g \subseteq all /\ g \subseteq Ids /\ IsFiniteSet(g) /\ g # {}
  BY CurationAssumption, FS_Subset, FS_EmptySet DEF Bunches
<1>2. PICK s : s \in Seq(g) /\ ToSet(s) = g
  BY <1>1, Listed
<1>3. /\ \A c \in g : usage[c] \in Nat /\ Rank[c] \in Nat
      /\ \A c, d \in g : Rank[c] = Rank[d] => c = d
  BY <1>1, CurationAssumption DEF IsInjective
<1>4. /\ \A c, d \in g : c = d \/ Less(usage, c, d) \/ Less(usage, d, c)
      /\ \A c, d, e \in g : Less(usage, c, d) /\ Less(usage, d, e) => Less(usage, c, e)
  BY <1>3 DEF Less
<1> DEFINE Tops(i, c) == \A k \in 1..i : s[k] = c \/ Less(usage, s[k], c)
           T == {i \in Nat : i + 1 <= Len(s) => \E c \in g : Tops(i + 1, c)}
<1>5. \A i \in 1..Len(s) : s[i] \in g
  BY <1>2
<1>6. 0 \in T
  BY <1>2, <1>5
<1>7. ASSUME NEW i \in T PROVE i + 1 \in T
  <2>1. SUFFICES ASSUME (i + 1) + 1 <= Len(s) PROVE \E c \in g : Tops((i + 1) + 1, c)
    OBVIOUS
  <2>2. i \in Nat /\ i + 1 <= Len(s) /\ (i + 1) + 1 \in 1..Len(s)
    BY <1>2, <2>1
  <2>3. PICK c \in g : Tops(i + 1, c)
    BY <2>2
  <2>4. PICK d : d = s[(i + 1) + 1]
    OBVIOUS
  <2>5. d \in g
    BY <1>5, <2>2, <2>4
  <2>6. \A k \in 1..((i + 1) + 1) : k \in 1..(i + 1) \/ k = (i + 1) + 1
    BY <2>2
  <2>7. \A k \in 1..(i + 1) : s[k] \in g
    BY <1>5, <2>2
  <2>8. CASE d = c \/ Less(usage, d, c)
    BY <2>3, <2>4, <2>6, <2>8
  <2>9. CASE Less(usage, c, d)
    <3>1. \A k \in 1..(i + 1) : s[k] = d \/ Less(usage, s[k], d)
      BY <1>4, <2>3, <2>5, <2>7, <2>9
    <3>2. Tops((i + 1) + 1, d)
      BY <2>4, <2>6, <3>1
    <3>3. QED
      BY <2>5, <3>2
  <2>10. QED
    BY <1>4, <2>5, <2>8, <2>9
<1>8. T = Nat
  BY <1>6, <1>7, NatInd
<1>9. \E c \in g : Tops(Len(s), c)
  <2>1. Len(s) # 0
    BY <1>1, <1>2 DEF ToSet
  <2>2. Len(s) - 1 \in Nat /\ (Len(s) - 1) + 1 = Len(s)
    BY <1>2, <2>1
  <2>3. Len(s) - 1 \in T
    BY <1>8, <2>2
  <2>4. QED
    BY <2>2, <2>3
<1>10. \E c \in g : \A d \in g \ {c} : Less(usage, d, c)
  <2>1. PICK c \in g : Tops(Len(s), c)
    BY <1>9
  <2>2. \A d \in g : \E k \in 1..Len(s) : s[k] = d
    BY <1>2 DEF ToSet
  <2>3. \A d \in g \ {c} : Less(usage, d, c)
    BY <2>1, <2>2
  <2>4. QED
    BY <2>3
<1>11. QED
  BY <1>10 DEF PickCanonical, Less

\* What is written for a cluster is of the cluster.
LEMMA MergeIs ==
  ASSUME NEW all, all \subseteq Ids, NEW g \in Bunches(all), NEW usage \in [all -> Nat]
  PROVE  LET m == Merge(PickCanonical(g, usage), g)
         IN /\ m.canonical \in Ids /\ m.merge \subseteq Ids /\ m.canonical \notin m.merge
            /\ Cluster(m) = g
BY PickIs DEF Bunches, Merge, Cluster

\* A path that is not taken: not all of one more than are taken can be.
LEMMA FreePathIs ==
  ASSUME NEW taken, IsFiniteSet(taken), NEW slug
  PROVE  FreePath(taken, slug) \notin taken
<1> DEFINE path(n) == <<slug, day, n>>
           m == Cardinality(taken) + 1
           FirstFree(n) == path(n) \notin taken /\ \A k \in 1..(n - 1) : path(k) \in taken
<1>1. m \in Nat /\ Cardinality(taken) \in Nat
  BY FS_CardinalityType
<1>2. \E n \in 1..m : path(n) \notin taken
  <2>1. SUFFICES ASSUME \A n \in 1..m : path(n) \in taken PROVE FALSE
    OBVIOUS
  <2>2. PICK f : f = [n \in 1..m |-> path(n)]
    OBVIOUS
  <2>3. f \in [1..m -> taken]
    BY <2>1, <2>2
  <2>4. \A x, y \in 1..m : f[x] = f[y] => x = y
    BY <2>2
  <2>5. IsFiniteSet(1..m) /\ Cardinality(1..m) = m
    BY <1>1, FS_Interval
  <2>6. Cardinality(taken) < Cardinality(1..m)
    BY <1>1, <2>5
  <2>7. \E x, y \in 1..m : x # y /\ f[x] = f[y]
    BY <2>3, <2>5, <2>6, FS_PigeonHole
  <2>8. QED
    BY <2>4, <2>7
<1> DEFINE T == {j \in Nat : (\A k \in 1..j : path(k) \in taken) \/ \E n \in 1..j : FirstFree(n)}
<1>3. 0 \in T
  OBVIOUS
<1>4. ASSUME NEW j \in T PROVE j + 1 \in T
  OBVIOUS
<1>5. T = Nat
  BY <1>3, <1>4, NatInd
<1>6. \E n \in 1..m : FirstFree(n)
  BY <1>1, <1>2, <1>5
<1>7. QED
  BY <1>6 DEF FreePath

-----------------------------------------------------------------------------
\* The steps of a generate(), field by field.

Fields == {"at", "balanced", "from", "edges", "clusters", "usage", "seen", "of", "draft", "to", "wrote"}

\* Two generates that agree but for the clusters, the place and what is named.
SameRequest(n, r, at) ==
  /\ DOMAIN n = Fields /\ n.at = at
  /\ n.balanced = r.balanced /\ n.from = r.from
Begun(n, balanced, from) ==
  /\ DOMAIN n = Fields /\ n.at = "embed" /\ n.balanced = balanced /\ n.from = from
  /\ n.edges = Similar /\ n.clusters = {} /\ n.wrote = {}
Collected(n, r, edges, clusters) ==
  /\ SameRequest(n, r, "count") /\ n.edges = edges /\ n.clusters = clusters
  /\ n.wrote = r.wrote
Counted(n, r, usage) ==
  /\ SameRequest(n, r, "look") /\ n.edges = r.edges /\ n.clusters = r.clusters
  /\ n.wrote = r.wrote /\ n.usage = usage
Looked(n, r, seen) ==
  /\ SameRequest(n, r, "next") /\ n.edges = r.edges /\ n.clusters = r.clusters
  /\ n.wrote = r.wrote /\ n.usage = r.usage /\ n.seen = seen
Finished(n, r) ==
  /\ SameRequest(n, r, "done") /\ n.edges = r.edges /\ n.clusters = r.clusters
  /\ n.wrote = r.wrote /\ n.usage = r.usage /\ n.seen = r.seen
TakenUp(n, r, c, at) ==
  /\ SameRequest(n, r, at) /\ n.edges = r.edges /\ n.clusters = r.clusters \ {c}
  /\ n.wrote = r.wrote /\ n.usage = r.usage /\ n.seen = r.seen /\ n.of = c
Verified(n, r, to) ==
  /\ SameRequest(n, r, "draft") /\ n.edges = r.edges /\ n.clusters = r.clusters
  /\ n.wrote = r.wrote /\ n.usage = r.usage /\ n.seen = r.seen /\ n.of = r.of /\ n.to = to
HasDraft(n, r, to) ==
  /\ SameRequest(n, r, "propose") /\ n.edges = r.edges /\ n.clusters = r.clusters
  /\ n.wrote = r.wrote \cup {r.to} /\ n.usage = r.usage /\ n.seen = r.seen /\ n.of = r.of
  /\ n.to = to /\ n.draft = r.to
Proposed(n, r, m) ==
  /\ SameRequest(n, r, "next") /\ n.edges = r.edges /\ n.clusters = r.clusters
  /\ n.wrote = r.wrote /\ n.usage = r.usage /\ n.seen = r.seen \cup {m}

LEMMA QuietFields ==
  /\ DOMAIN Quiet0 = Fields /\ Quiet0.at = "idle" /\ GoodGen(Quiet0)
BY DEF Quiet0, Fields, GoodGen, Stations, Seeing, Proposing

LEMMA GenerateFields ==
  ASSUME NEW b, NEW s, NEW n,
         n = [Quiet0 EXCEPT !.at = "embed", !.balanced = b, !.from = s, !.edges = Similar]
  PROVE  Begun(n, b, s)
BY DEF Quiet0, Fields, Begun

LEMMA FieldsThere ==
  ASSUME NEW r, DOMAIN r = Fields
  PROVE  /\ "at" \in DOMAIN r /\ "edges" \in DOMAIN r /\ "clusters" \in DOMAIN r /\ "usage" \in DOMAIN r
         /\ "seen" \in DOMAIN r /\ "of" \in DOMAIN r /\ "draft" \in DOMAIN r /\ "to" \in DOMAIN r
         /\ "wrote" \in DOMAIN r /\ "balanced" \in DOMAIN r /\ "from" \in DOMAIN r
BY DEF Fields

LEMMA CollectFields ==
  ASSUME NEW r, DOMAIN r = Fields, NEW e, NEW k, NEW n,
         n = [r EXCEPT !.at = "count", !.edges = e, !.clusters = k]
  PROVE  Collected(n, r, e, k)
BY FieldsThere DEF Collected, SameRequest

LEMMA CountFields ==
  ASSUME NEW r, DOMAIN r = Fields, NEW u, NEW n,
         n = [r EXCEPT !.at = "look", !.usage = u]
  PROVE  Counted(n, r, u)
BY FieldsThere DEF Counted, SameRequest

LEMMA LookUpFields ==
  ASSUME NEW r, DOMAIN r = Fields, NEW s, NEW n,
         n = [r EXCEPT !.at = "next", !.seen = s]
  PROVE  Looked(n, r, s)
BY FieldsThere DEF Looked, SameRequest

LEMMA FinishFields ==
  ASSUME NEW r, DOMAIN r = Fields, NEW n,
         n = [r EXCEPT !.at = "done"]
  PROVE  Finished(n, r)
BY FieldsThere DEF Finished, SameRequest

LEMMA KnownFields ==
  ASSUME NEW r, DOMAIN r = Fields, NEW c, NEW n,
         n = [r EXCEPT !.clusters = @ \ {c}, !.of = c]
  PROVE  TakenUp(n, r, c, r.at)
BY FieldsThere DEF TakenUp, SameRequest

LEMMA NewFields ==
  ASSUME NEW r, DOMAIN r = Fields, NEW c, NEW n,
         n = [[r EXCEPT !.clusters = @ \ {c}, !.of = c] EXCEPT !.at = "verify"]
  PROVE  TakenUp(n, r, c, "verify")
BY FieldsThere DEF TakenUp, SameRequest

LEMMA VerifyFields ==
  ASSUME NEW r, DOMAIN r = Fields, NEW to, NEW n,
         n = [r EXCEPT !.at = "draft", !.to = to]
  PROVE  Verified(n, r, to)
BY FieldsThere DEF Verified, SameRequest

LEMMA DraftFields ==
  ASSUME NEW r, DOMAIN r = Fields, NEW to, NEW n,
         n = [r EXCEPT !.at = "propose", !.draft = r.to, !.wrote = @ \cup {r.to}, !.to = to]
  PROVE  HasDraft(n, r, to)
BY FieldsThere DEF HasDraft, SameRequest

LEMMA ProposeFields ==
  ASSUME NEW r, DOMAIN r = Fields, NEW m, NEW n,
         n = [r EXCEPT !.at = "next", !.seen = @ \cup {m}]
  PROVE  Proposed(n, r, m)
BY FieldsThere DEF Proposed, SameRequest

-----------------------------------------------------------------------------
\* What each step does to its generate.

LEMMA TurnIs ==
  ASSUME CurationTyped, NEW g \in Generators, NEW n, Turn1(g, n)
  PROVE  /\ DOMAIN gen' = Generators /\ gen'[g] = n
         /\ \A h \in Generators : h # g => gen'[h] = gen[h]
BY DEF CurationTyped, Turn1

LEMMA GenFields == ASSUME CurationTyped, NEW g \in Generators PROVE DOMAIN gen[g] = Fields
BY QuietFields DEF CurationTyped, GoodGen

LEMMA GenerateIs ==
  ASSUME CurationTyped, NEW g \in Generators, NEW b \in BOOLEAN, Generate(g, b)
  PROVE  Begun(gen'[g], b, concepts)
BY TurnIs, GenerateFields DEF Generate

LEMMA CollectIs ==
  ASSUME CurationTyped, NEW g \in Generators, Collect(g)
  PROVE  \E near \in {Near, {}} :
           LET edges == gen[g].edges \cup near
               all == Groups(edges, gen[g].from)
           IN Collected(gen'[g], gen[g], edges, IF gen[g].balanced THEN {c \in all : ~Apart(c)} ELSE all)
BY GenFields, TurnIs, CollectFields DEF Collect

LEMMA CountIs ==
  ASSUME CurationTyped, NEW g \in Generators, CountTags(g)
  PROVE  Counted(gen'[g], gen[g], Usage(gen[g].from))
BY GenFields, TurnIs, CountFields DEF CountTags

LEMMA LookUpIs ==
  ASSUME CurationTyped, NEW g \in Generators, LookUp(g)
  PROVE  Looked(gen'[g], gen[g], Signatures)
BY GenFields, TurnIs, LookUpFields DEF LookUp

LEMMA NextClusterIs ==
  ASSUME CurationTyped, NEW g \in Generators, NextCluster(g)
  PROVE  \/ gen[g].clusters = {} /\ Finished(gen'[g], gen[g])
         \/ \E c \in gen[g].clusters :
              IF Merge(PickCanonical(c, gen[g].usage), c) \in gen[g].seen
              THEN TakenUp(gen'[g], gen[g], c, gen[g].at) ELSE TakenUp(gen'[g], gen[g], c, "verify")
<1>1. DOMAIN gen[g] = Fields
  BY GenFields
<1>2. CASE gen[g].clusters = {} /\ Turn1(g, [gen[g] EXCEPT !.at = "done"])
  BY <1>1, <1>2, TurnIs, FinishFields
<1>3. CASE \E c \in gen[g].clusters :
             LET rest == [gen[g] EXCEPT !.clusters = @ \ {c}, !.of = c]
                 known == Merge(PickCanonical(c, gen[g].usage), c) \in gen[g].seen
             IN Turn1(g, IF known THEN rest ELSE [rest EXCEPT !.at = "verify"])
  <2>1. PICK c \in gen[g].clusters :
             LET rest == [gen[g] EXCEPT !.clusters = @ \ {c}, !.of = c]
                 known == Merge(PickCanonical(c, gen[g].usage), c) \in gen[g].seen
             IN Turn1(g, IF known THEN rest ELSE [rest EXCEPT !.at = "verify"])
    BY <1>3
  <2>2. PICK known, rest, last :
          /\ rest = [gen[g] EXCEPT !.clusters = @ \ {c}, !.of = c] /\ last = [rest EXCEPT !.at = "verify"]
          /\ known = (Merge(PickCanonical(c, gen[g].usage), c) \in gen[g].seen)
    OBVIOUS
  <2>3. gen'[g] = IF known THEN rest ELSE last
    BY <2>1, <2>2, TurnIs
  <2>4. TakenUp(rest, gen[g], c, gen[g].at) /\ TakenUp(last, gen[g], c, "verify")
    BY <1>1, <2>2, KnownFields, NewFields
  <2>5. QED
    BY <2>2, <2>3, <2>4
<1>4. QED
  BY <1>2, <1>3 DEF NextCluster

LEMMA VerifyIs ==
  ASSUME CurationTyped, NEW g \in Generators, Verify(g)
  PROVE  Verified(gen'[g], gen[g], FreePath(DOMAIN drafts, Canonical(g)))
BY GenFields, TurnIs, VerifyFields DEF Verify

LEMMA WriteDraftIs ==
  ASSUME CurationTyped, NEW g \in Generators, WriteDraft(g)
  PROVE  HasDraft(gen'[g], gen[g], FreePath(DOMAIN proposals, Canonical(g)))
BY GenFields, TurnIs, DraftFields DEF WriteDraft

LEMMA WriteProposalIs ==
  ASSUME CurationTyped, NEW g \in Generators, WriteProposal1(g)
  PROVE  Proposed(gen'[g], gen[g], Merge(Canonical(g), gen[g].of))
BY GenFields, TurnIs, ProposeFields DEF WriteProposal1

-----------------------------------------------------------------------------
\* The types.

LEMMA BootedIs ==
  ASSUME NEW ps, ps \subseteq Profile, day \in Nat
  PROVE  Booted(ps) \subseteq Profile
<1>1. Defaults \subseteq Profile
  <2>1. SUFFICES ASSUME NEW p \in Defaults PROVE p \in Profile
    OBVIOUS
  <2>2. MaxDay + 1 \in Nat /\ 100 \in Nat /\ 85 \in 0..100 /\ 60 \in 0..100 /\ FALSE \in BOOLEAN
    BY CurationAssumption
  <2>3. "default" \in PolicyNames
    BY CurationAssumption
  <2>4. PICK k \in Kinds : p = [kind |-> k, name |-> "default", priority |-> 100, from |-> day,
                               until |-> MaxDay + 1, scoped |-> FALSE, hard |-> 85, review |-> 60]
    BY DEF Defaults
  <2>5. QED
    BY <2>2, <2>3, <2>4 DEF Profile
<1>2. QED
  BY <1>1 DEF Booted

LEMMA TypedBegins == CurationInit => CurationTyped
<1> SUFFICES ASSUME CurationInit PROVE CurationTyped
  OBVIOUS
<1>1. PICK b \in Beginnings : concepts = b.concepts /\ tagged = b.tagged /\ profiles = Booted(b.profiles) /\ drafts = b.drafts
  BY DEF CurationInit
<1>2. /\ b.concepts \subseteq Ids /\ b.tagged \in [Pages -> SUBSET Ids] /\ b.profiles \subseteq Profile
      /\ IsFiniteSet(DOMAIN b.drafts) /\ b.drafts \in [DOMAIN b.drafts -> Draft]
  BY CurationAssumption
<1>3. day \in Nat /\ day = 0
  BY DEF CurationInit
<1>4. profiles \subseteq Profile
  BY <1>1, <1>2, <1>3, BootedIs
<1>5. proposals = <<>> /\ IsFiniteSet(DOMAIN proposals) /\ proposals \in [DOMAIN proposals -> ProposalOf(DOMAIN drafts)]
  <2>1. proposals = <<>> /\ DOMAIN proposals = {}
    BY DEF CurationInit
  <2>2. QED
    BY <2>1, FS_EmptySet
<1>6. DOMAIN gen = Generators /\ \A g \in Generators : gen[g] = Quiet0
  BY DEF CurationInit
<1>7. \A g \in Generators : GoodGen(gen[g]) /\ ~Is(g, "propose")
  BY <1>6, QuietFields DEF Is
<1>8. /\ alias \in [Ids -> SUBSET Ids] /\ tomb \in [Ids -> Ids \cup {Nothing}] /\ again \subseteq Ids
      /\ DOMAIN ruled = Rulings /\ \A r \in Rulings : ruled[r] = Nothing
  BY DEF CurationInit
<1>9. QED
  BY <1>1, <1>2, <1>3, <1>4, <1>5, <1>6, <1>7, <1>8 DEF CurationTyped

\* What the catalogue of the concepts and the policies has to be.
ShelfTyped ==
  /\ concepts \subseteq Ids /\ alias \in [Ids -> SUBSET Ids] /\ tomb \in [Ids -> Ids \cup {Nothing}]
  /\ tagged \in [Pages -> SUBSET Ids] /\ again \subseteq Ids
  /\ day \in Nat /\ DOMAIN ruled = Rulings /\ \A r \in Rulings : ruled[r] = Nothing \/ ruled[r] \in 0..day
  /\ profiles \subseteq Profile

\* What no edit of the notes does: take one away, make it about something else, or open it again.
Shut == {"applied", "blocked", "rejected"}
NotesStay ==
  /\ DOMAIN drafts' = DOMAIN drafts /\ drafts' \in [DOMAIN drafts -> Draft]
  /\ \A d \in DOMAIN drafts : /\ drafts'[d].canonical = drafts[d].canonical
                              /\ drafts'[d].merge = drafts[d].merge
                              /\ drafts[d].status \in Shut => drafts'[d].status \in Shut
  /\ DOMAIN proposals' = DOMAIN proposals
  /\ proposals' \in [DOMAIN proposals -> ProposalOf(DOMAIN drafts)]
  /\ \A p \in DOMAIN proposals : /\ proposals'[p].draft = proposals[p].draft
                                 /\ proposals'[p].of = proposals[p].of
                                 /\ proposals'[p].status = "pending" => proposals[p].status = "pending"

LEMMA TypedStays ==
  ASSUME CurationTyped, ShelfTyped', NotesStay,
         \/ gen' = gen
         \/ DOMAIN gen' = Generators /\ \A g \in Generators : gen'[g] = Quiet0
  PROVE  CurationTyped'
BY QuietFields DEF CurationTyped, NotesStay, Is, GoodGen, ShelfTyped

LEMMA NotesUnchanged == ASSUME CurationTyped, UNCHANGED <<drafts, proposals>> PROVE NotesStay
BY DEF CurationTyped, NotesStay

LEMMA ShelfUnchanged == ASSUME CurationTyped, UNCHANGED <<shelf, day>> PROVE ShelfTyped'
BY DEF CurationTyped, ShelfTyped, shelf

\* A draft gets another status, or some proposals do.
LEMMA DraftStatus ==
  ASSUME CurationTyped, NEW d \in DOMAIN drafts,
         NEW s \in {"draft", "pending_approval", "applied", "blocked", "rejected"},
         drafts[d].status \in Shut => s \in Shut,
         drafts' = [drafts EXCEPT ![d].status = s]
  PROVE  /\ DOMAIN drafts' = DOMAIN drafts /\ drafts' \in [DOMAIN drafts -> Draft]
         /\ \A e \in DOMAIN drafts : /\ drafts'[e].canonical = drafts[e].canonical
                                     /\ drafts'[e].merge = drafts[e].merge
                                     /\ drafts[e].status \in Shut => drafts'[e].status \in Shut
         /\ drafts'[d].status = s
BY DEF CurationTyped, Draft

LEMMA ProposalStatus ==
  ASSUME CurationTyped, NEW s \in {"accepted", "rejected"}, NEW ps,
         proposals' = [p \in DOMAIN proposals |->
                         IF p \in ps THEN [proposals[p] EXCEPT !.status = s] ELSE proposals[p]]
  PROVE  /\ DOMAIN proposals' = DOMAIN proposals
         /\ proposals' \in [DOMAIN proposals -> ProposalOf(DOMAIN drafts)]
         /\ \A p \in DOMAIN proposals : /\ proposals'[p].draft = proposals[p].draft
                                        /\ proposals'[p].of = proposals[p].of
                                        /\ proposals'[p].status = "pending" => proposals[p].status = "pending"
BY DEF CurationTyped, ProposalOf

\* The edits, and the catalogue after each.
EditStep ==
  \/ \E p \in DOMAIN proposals : Accepts(p) \/ RejectsProposal(p)
  \/ \E d \in DOMAIN drafts : Applies(d) \/ Holds(d, "pending_approval") \/ Holds(d, "rejected")
  \/ \E r \in Rulings : Rules(r)
  \/ \E c \in Ids : Creates(c) \/ \E n \in Pages : Tags(n, c)
  \/ \E p \in Profiles : Publishes(p)

LEMMA ApplyIs ==
  ASSUME CurationTyped, NEW d \in DOMAIN drafts, NEW ps, ApplyMerge(d, ps)
  PROVE  NotesStay /\ ShelfTyped'
<1>0. drafts[d] \in Draft /\ drafts[d].status \notin {"applied", "rejected"}
  BY DEF ApplyMerge, CurationTyped
<1>1. CASE Valid(drafts[d]) /\ Merges(drafts[d])
           /\ drafts' = [drafts EXCEPT ![d].status = "applied"]
           /\ proposals' = [p \in DOMAIN proposals |->
                IF p \in ps THEN [proposals[p] EXCEPT !.status = "accepted"] ELSE proposals[p]]
  <2>1. NotesStay
    BY <1>1, DraftStatus, ProposalStatus DEF Shut, NotesStay
  <2>2. PICK m : m = drafts[d]
    OBVIOUS
  <2>3. m.canonical \in Ids /\ m.merge \subseteq Ids
    BY <1>0, <2>2 DEF Draft
  <2>4. concepts' \subseteq Ids /\ alias' \in [Ids -> SUBSET Ids]
    BY <1>1, <2>2, <2>3 DEF Merges, Inherits, CurationTyped
  <2>5. tomb' \in [Ids -> Ids \cup {Nothing}]
    BY <1>1, <2>2, <2>3 DEF Merges, CurationTyped
  <2>6. tagged' \in [Pages -> SUBSET Ids]
    BY <1>1, <2>2, <2>3 DEF Merges, CurationTyped
  <2>7. QED
    BY <2>1, <2>4, <2>5, <2>6 DEF ApplyMerge, CurationTyped, ShelfTyped
<1>2. CASE /\ drafts' = [drafts EXCEPT ![d].status = "blocked"]
           /\ UNCHANGED <<concepts, alias, tomb, tagged, proposals>>
  BY <1>2, DraftStatus DEF Shut, NotesStay, CurationTyped, ApplyMerge, ShelfTyped
<1>3. QED
  BY <1>1, <1>2 DEF ApplyMerge

LEMMA EditIs ==
  ASSUME CurationTyped, EditStep
  PROVE  NotesStay /\ ShelfTyped' /\ UNCHANGED <<gen, raced>> /\ undisturbed' = {}
<1>0. \A A : undisturbed \cap {} = {}
  OBVIOUS
<1>1. ASSUME NEW p \in DOMAIN proposals, Accepts(p)
      PROVE  NotesStay /\ ShelfTyped' /\ UNCHANGED <<gen, raced>> /\ undisturbed' = {}
  BY <1>1, ApplyIs DEF CurationTyped, ProposalOf, Accepts, Editing, Edit, Changes
<1>2. ASSUME NEW p \in DOMAIN proposals, RejectsProposal(p)
      PROVE  NotesStay /\ ShelfTyped' /\ UNCHANGED <<gen, raced>> /\ undisturbed' = {}
  <2>1. proposals' = [q \in DOMAIN proposals |->
                        IF q \in {p} THEN [proposals[q] EXCEPT !.status = "rejected"] ELSE proposals[q]]
    BY <1>2 DEF RejectsProposal
  <2>2. NotesStay
    BY <1>2, <2>1, ProposalStatus DEF RejectsProposal, NotesStay, CurationTyped
  <2>3. QED
    BY <1>2, <2>2, ShelfUnchanged DEF RejectsProposal, Editing, Edit, Changes
<1>3. ASSUME NEW d \in DOMAIN drafts, Applies(d)
      PROVE  NotesStay /\ ShelfTyped' /\ UNCHANGED <<gen, raced>> /\ undisturbed' = {}
  BY <1>3, ApplyIs DEF Applies, Editing, Edit, Changes
<1>4. ASSUME NEW d \in DOMAIN drafts, NEW s \in {"pending_approval", "rejected"}, Holds(d, s)
      PROVE  NotesStay /\ ShelfTyped' /\ UNCHANGED <<gen, raced>> /\ undisturbed' = {}
  <2>1. drafts[d].status \notin Shut /\ drafts' = [drafts EXCEPT ![d].status = s] /\ proposals' = proposals
    BY <1>4 DEF Holds, Shut
  <2>2. /\ DOMAIN drafts' = DOMAIN drafts /\ drafts' \in [DOMAIN drafts -> Draft]
        /\ \A e \in DOMAIN drafts : /\ drafts'[e].canonical = drafts[e].canonical
                                    /\ drafts'[e].merge = drafts[e].merge
                                    /\ drafts[e].status \in Shut => drafts'[e].status \in Shut
    BY <2>1, DraftStatus
  <2>3. NotesStay
    BY <2>1, <2>2 DEF NotesStay, CurationTyped
  <2>4. QED
    BY <1>4, <2>3, ShelfUnchanged DEF Holds, Editing, Edit, Changes
<1>5. ASSUME NEW r \in Rulings, Rules(r)
      PROVE  NotesStay /\ ShelfTyped' /\ UNCHANGED <<gen, raced>> /\ undisturbed' = {}
  BY <1>5, NotesUnchanged DEF Rules, Editing, Edit, Changes, CurationTyped, ShelfTyped
<1>6. ASSUME NEW c \in Ids, Creates(c)
      PROVE  NotesStay /\ ShelfTyped' /\ UNCHANGED <<gen, raced>> /\ undisturbed' = {}
  BY <1>6, NotesUnchanged DEF Creates, Editing, Edit, Changes, CurationTyped, ShelfTyped
<1>7. ASSUME NEW c \in Ids, NEW n \in Pages, Tags(n, c)
      PROVE  NotesStay /\ ShelfTyped' /\ UNCHANGED <<gen, raced>> /\ undisturbed' = {}
  BY <1>7, NotesUnchanged DEF Tags, Editing, Edit, Changes, CurationTyped, ShelfTyped
<1>8. ASSUME NEW p \in Profiles, Publishes(p)
      PROVE  NotesStay /\ ShelfTyped' /\ UNCHANGED <<gen, raced>> /\ undisturbed' = {}
  BY <1>8, NotesUnchanged, CurationAssumption DEF Publishes, Editing, Edit, Changes, CurationTyped, ShelfTyped
<1>9. QED
  BY <1>1, <1>2, <1>3, <1>4, <1>5, <1>6, <1>7, <1>8 DEF EditStep

-----------------------------------------------------------------------------
\* The types, through a generate().

LEMMA GoodSteps ==
  ASSUME NEW r, GoodGen(r), NEW n
  PROVE  /\ \A e, k : Collected(n, r, e, k) /\ e \subseteq ConceptPairs /\ k \subseteq Bunches(r.from) => GoodGen(n)
         /\ \A u \in [r.from -> Nat] : Counted(n, r, u) => GoodGen(n)
         /\ \A s : Looked(n, r, s) /\ r.at = "look" => GoodGen(n)
         /\ Finished(n, r) /\ r.at = "next" => GoodGen(n)
         /\ \A c \in r.clusters, p \in {"next", "verify"} : TakenUp(n, r, c, p) /\ r.at = "next" => GoodGen(n)
         /\ \A t : Verified(n, r, t) /\ r.at = "verify" => GoodGen(n)
         /\ \A t : HasDraft(n, r, t) /\ r.at = "draft" => GoodGen(n)
         /\ \A m : Proposed(n, r, m) /\ r.at = "propose" => GoodGen(n)
<1>1. DOMAIN Quiet0 = Fields
  BY QuietFields
<1>2. ASSUME NEW e, NEW k, Collected(n, r, e, k), e \subseteq ConceptPairs, k \subseteq Bunches(r.from) PROVE GoodGen(n)
  BY <1>1, <1>2 DEF GoodGen, Collected, SameRequest, Stations, Seeing, Proposing
<1>3. ASSUME NEW u \in [r.from -> Nat], Counted(n, r, u) PROVE GoodGen(n)
  BY <1>1, <1>3 DEF GoodGen, Counted, SameRequest, Stations, Seeing, Proposing
<1>4. ASSUME NEW s, Looked(n, r, s), r.at = "look" PROVE GoodGen(n)
  BY <1>1, <1>4 DEF GoodGen, Looked, SameRequest, Stations, Seeing, Proposing
<1>5. ASSUME Finished(n, r), r.at = "next" PROVE GoodGen(n)
  BY <1>1, <1>5 DEF GoodGen, Finished, SameRequest, Stations, Seeing, Proposing
<1>6. ASSUME NEW c \in r.clusters, NEW p \in {"next", "verify"}, TakenUp(n, r, c, p), r.at = "next" PROVE GoodGen(n)
  BY <1>1, <1>6 DEF GoodGen, TakenUp, SameRequest, Stations, Seeing, Proposing
<1>7. ASSUME NEW t, Verified(n, r, t), r.at = "verify" PROVE GoodGen(n)
  BY <1>1, <1>7 DEF GoodGen, Verified, SameRequest, Stations, Seeing, Proposing
<1>8. ASSUME NEW t, HasDraft(n, r, t), r.at = "draft" PROVE GoodGen(n)
  BY <1>1, <1>8 DEF GoodGen, HasDraft, SameRequest, Stations, Seeing, Proposing
<1>9. ASSUME NEW m, Proposed(n, r, m), r.at = "propose" PROVE GoodGen(n)
  BY <1>1, <1>9 DEF GoodGen, Proposed, SameRequest, Stations, Seeing, Proposing
<1>10. QED
  BY <1>2, <1>3, <1>4, <1>5, <1>6, <1>7, <1>8, <1>9

LEMMA UsageIs ==
  ASSUME NEW all
  PROVE  Usage(all) \in [all -> Nat]
BY CurationAssumption, FS_Subset, FS_CardinalityType DEF Usage

\* The pairs are pairs.
LEMMA EdgesIn == Similar \subseteq ConceptPairs /\ Near \subseteq ConceptPairs
BY CurationAssumption DEF ConceptPairs

LEMMA TypedTurn ==
  ASSUME CurationTyped, NEW g \in Generators, UNCHANGED <<shelf, day>>, UNCHANGED <<drafts, proposals>>,
         NEW n, Turn1(g, n), GoodGen(gen'[g]), gen'[g].at # "propose"
  PROVE  CurationTyped'
BY ShelfUnchanged, NotesUnchanged, TurnIs DEF CurationTyped, Is, ShelfTyped, NotesStay, GoodGen

\* The steps that only look.
LookStep(g) ==
  \/ Collect(g) \/ CountTags(g) \/ LookUp(g) \/ NextCluster(g) \/ Verify(g) \/ Answer(g)

LEMMA LookFrame ==
  ASSUME NEW g, LookStep(g)
  PROVE  Looks /\ \E n : Turn1(g, n)
<1>1. Looks
  BY DEF LookStep, Collect, CountTags, LookUp, NextCluster, Verify, Answer
<1>2. ASSUME Collect(g) PROVE \E n : Turn1(g, n)
  BY <1>2 DEF Collect
<1>3. ASSUME NextCluster(g) PROVE \E n : Turn1(g, n)
  BY <1>3 DEF NextCluster
<1>4. ASSUME CountTags(g) \/ LookUp(g) \/ Verify(g) \/ Answer(g) PROVE \E n : Turn1(g, n)
  BY <1>4 DEF CountTags, LookUp, Verify, Answer
<1>5. QED
  BY <1>1, <1>2, <1>3, <1>4 DEF LookStep

LEMMA LookTyped ==
  ASSUME CurationTyped, NEW g \in Generators, LookStep(g)
  PROVE  GoodGen(gen'[g]) /\ gen'[g].at # "propose"
<1>1. GoodGen(gen[g])
  BY DEF CurationTyped
<1>2. CASE Collect(g)
  <2>1. PICK near \in {Near, {}} :
           LET edges == gen[g].edges \cup near
               all == Groups(edges, gen[g].from)
           IN Collected(gen'[g], gen[g], edges, IF gen[g].balanced THEN {c \in all : ~Apart(c)} ELSE all)
    BY <1>2, CollectIs
  <2>2. PICK edges, all, kept : /\ edges = gen[g].edges \cup near /\ all = Groups(edges, gen[g].from)
                                /\ kept = IF gen[g].balanced THEN {c \in all : ~Apart(c)} ELSE all
    OBVIOUS
  <2>3. Collected(gen'[g], gen[g], edges, kept)
    BY <2>1, <2>2
  <2>4. edges \subseteq ConceptPairs
    BY <1>1, <2>2, EdgesIn DEF GoodGen
  <2>5. kept \subseteq Bunches(gen[g].from)
    BY <1>1, <2>2, <2>4, GroupsFacts DEF GoodGen
  <2>6. GoodGen(gen'[g])
    BY <1>1, <2>3, <2>4, <2>5, GoodSteps
  <2>7. QED
    BY <2>3, <2>6 DEF Collected, SameRequest
<1>3. CASE CountTags(g)
  BY <1>3, CountIs, <1>1, UsageIs, GoodSteps DEF Counted, SameRequest
<1>4. CASE LookUp(g)
  BY <1>4, LookUpIs, <1>1, GoodSteps DEF LookUp, Is, Looked, SameRequest
<1>5. CASE NextCluster(g)
  <2>1. gen[g].at = "next"
    BY <1>5 DEF NextCluster, Is
  <2>2. CASE Finished(gen'[g], gen[g])
    BY <1>1, <2>1, <2>2, GoodSteps DEF Finished, SameRequest
  <2>3. CASE \E c \in gen[g].clusters, p \in {"next", "verify"} : TakenUp(gen'[g], gen[g], c, p)
    BY <2>3, <1>1, <2>1, GoodSteps DEF TakenUp, SameRequest
  <2>4. QED
    BY <1>5, <2>1, <2>2, <2>3, NextClusterIs
<1>6. CASE Verify(g)
  BY <1>6, VerifyIs, <1>1, GoodSteps DEF Verify, Is, Verified, SameRequest
<1>7. CASE Answer(g)
  BY <1>7, TurnIs, QuietFields DEF Answer
<1>8. QED
  BY <1>2, <1>3, <1>4, <1>5, <1>6, <1>7 DEF LookStep

LEMMA TypedLook ==
  ASSUME CurationTyped, NEW g \in Generators, LookStep(g)
  PROVE  CurationTyped'
BY LookFrame, LookTyped, TypedTurn DEF Looks

LEMMA TypedGenerate ==
  ASSUME CurationTyped, NEW g \in Generators, NEW b \in BOOLEAN, Generate(g, b)
  PROVE  CurationTyped'
<1>1. Begun(gen'[g], b, concepts)
  BY GenerateIs
<1>2. GoodGen(gen'[g]) /\ gen'[g].at # "propose"
  BY <1>1, EdgesIn, QuietFields DEF Begun, GoodGen, CurationTyped, Stations, Seeing, Proposing
<1>3. QED
  BY <1>2, TypedTurn DEF Generate

\* What a draft and a proposal are when they are written.
LEMMA DraftWritten ==
  ASSUME CurationTyped, NEW g \in Generators, WriteDraft(g)
  PROVE  LET m == MergeFor(gen[g])
             to == gen[g].to
         IN /\ DOMAIN drafts' = DOMAIN drafts \cup {to}
            /\ drafts'[to] = [canonical |-> m.canonical, merge |-> m.merge, status |-> "draft"]
            /\ drafts'[to] \in Draft
            /\ m.canonical \notin m.merge /\ Cluster(m) = gen[g].of
            /\ \A d \in DOMAIN drafts : d # to => drafts'[d] = drafts[d]
            /\ drafts' \in [DOMAIN drafts' -> Draft]
<1>1. PICK m, to : m = MergeFor(gen[g]) /\ to = gen[g].to
  OBVIOUS
<1>2. m = Merge(Canonical(g), gen[g].of)
  BY <1>1 DEF MergeFor, Canonical
<1>3. /\ m.canonical \in Ids /\ m.merge \subseteq Ids /\ m.canonical \notin m.merge /\ Cluster(m) = gen[g].of
  <2>1. /\ gen[g].from \subseteq Ids /\ gen[g].of \in Bunches(gen[g].from) /\ gen[g].usage \in [gen[g].from -> Nat]
    BY DEF CurationTyped, GoodGen, WriteDraft, Is, Proposing, Seeing
  <2>2. QED
    BY <1>1, <2>1, MergeIs DEF MergeFor
<1>4. PICK draft : draft = [canonical |-> m.canonical, merge |-> m.merge, status |-> "draft"]
  OBVIOUS
<1>5. draft \in Draft
  BY <1>3, <1>4 DEF Draft
<1>6. drafts' = [p \in DOMAIN drafts \cup {to} |-> IF p = to THEN draft ELSE drafts[p]]
  BY <1>1, <1>2, <1>4 DEF WriteDraft
<1>7. /\ DOMAIN drafts' = DOMAIN drafts \cup {to} /\ drafts'[to] = draft
      /\ \A d \in DOMAIN drafts : d # to => drafts'[d] = drafts[d]
  BY <1>6
<1>8. drafts' \in [DOMAIN drafts' -> Draft]
  BY <1>5, <1>6 DEF CurationTyped
<1>9. QED
  BY <1>1, <1>3, <1>4, <1>5, <1>7, <1>8

LEMMA ProposalWritten ==
  ASSUME CurationTyped, NEW g \in Generators, WriteProposal1(g)
  PROVE  LET to == gen[g].to
             new == [draft |-> gen[g].draft, status |-> "pending", of |-> gen[g].of]
         IN /\ DOMAIN proposals' = DOMAIN proposals \cup {to}
            /\ proposals'[to] = new /\ new \in ProposalOf(DOMAIN drafts)
            /\ \A p \in DOMAIN proposals : p # to => proposals'[p] = proposals[p]
            /\ proposals' \in [DOMAIN proposals' -> ProposalOf(DOMAIN drafts)]
<1>1. PICK to, new : to = gen[g].to /\ new = [draft |-> gen[g].draft, status |-> "pending", of |-> gen[g].of]
  OBVIOUS
<1>2. gen[g].draft \in DOMAIN drafts /\ gen[g].of \subseteq Ids
  BY DEF CurationTyped, WriteProposal1, Is, GoodGen, Proposing, Bunches
<1>3. new \in ProposalOf(DOMAIN drafts)
  BY <1>1, <1>2 DEF ProposalOf
<1>4. proposals' = [p \in DOMAIN proposals \cup {to} |-> IF p = to THEN new ELSE proposals[p]]
  BY <1>1 DEF WriteProposal1
<1>5. /\ DOMAIN proposals' = DOMAIN proposals \cup {to} /\ proposals'[to] = new
      /\ \A p \in DOMAIN proposals : p # to => proposals'[p] = proposals[p]
  BY <1>4
<1>6. proposals' \in [DOMAIN proposals' -> ProposalOf(DOMAIN drafts)]
  BY <1>3, <1>4 DEF CurationTyped
<1>7. QED
  BY <1>1, <1>3, <1>5, <1>6

LEMMA TypedWriteDraft ==
  ASSUME CurationTyped, NEW g \in Generators, WriteDraft(g)
  PROVE  CurationTyped'
<1>1. /\ DOMAIN drafts' = DOMAIN drafts \cup {gen[g].to} /\ drafts' \in [DOMAIN drafts' -> Draft]
  BY DraftWritten
<1>2. IsFiniteSet(DOMAIN drafts')
  BY <1>1, FS_AddElement DEF CurationTyped
<1>3. proposals' = proposals /\ proposals \in [DOMAIN proposals -> ProposalOf(DOMAIN drafts')]
  BY <1>1 DEF CurationTyped, WriteDraft, ProposalOf
<1>4. ShelfTyped'
  BY ShelfUnchanged DEF WriteDraft
<1>5. HasDraft(gen'[g], gen[g], FreePath(DOMAIN proposals, Canonical(g)))
  BY WriteDraftIs
<1>6. DOMAIN gen' = Generators /\ \A h \in Generators : h # g => gen'[h] = gen[h]
  BY TurnIs DEF WriteDraft
<1>7. GoodGen(gen'[g])
  BY <1>5, GoodSteps DEF CurationTyped, WriteDraft, Is
<1>8. gen'[g].draft = gen[g].to
  BY <1>5 DEF HasDraft
<1>9. \A h \in Generators : GoodGen(gen'[h]) /\ (gen'[h].at = "propose" => gen'[h].draft \in DOMAIN drafts')
  BY <1>1, <1>6, <1>7, <1>8 DEF CurationTyped, Is
<1>10. QED
  BY <1>1, <1>2, <1>3, <1>4, <1>6, <1>9 DEF CurationTyped, ShelfTyped, Is, GoodGen

LEMMA TypedWriteProposal ==
  ASSUME CurationTyped, NEW g \in Generators, WriteProposal1(g)
  PROVE  CurationTyped'
<1>1. /\ DOMAIN proposals' = DOMAIN proposals \cup {gen[g].to}
      /\ proposals' \in [DOMAIN proposals' -> ProposalOf(DOMAIN drafts)]
  BY ProposalWritten
<1>2. IsFiniteSet(DOMAIN proposals')
  BY <1>1, FS_AddElement DEF CurationTyped
<1>3. drafts' = drafts
  BY DEF WriteProposal1
<1>4. ShelfTyped'
  BY ShelfUnchanged DEF WriteProposal1
<1>5. Proposed(gen'[g], gen[g], Merge(Canonical(g), gen[g].of))
  BY WriteProposalIs
<1>6. DOMAIN gen' = Generators /\ \A h \in Generators : h # g => gen'[h] = gen[h]
  BY TurnIs DEF WriteProposal1
<1>7. GoodGen(gen'[g]) /\ gen'[g].at # "propose"
  BY <1>5, GoodSteps DEF CurationTyped, WriteProposal1, Is, Proposed, SameRequest
<1>8. \A h \in Generators : GoodGen(gen'[h]) /\ (gen'[h].at = "propose" => gen'[h].draft \in DOMAIN drafts')
  BY <1>3, <1>6, <1>7 DEF CurationTyped, Is
<1>9. QED
  BY <1>1, <1>2, <1>3, <1>4, <1>6, <1>8 DEF CurationTyped, ShelfTyped, Is, GoodGen

LEMMA TypedEdit == ASSUME CurationTyped, EditStep PROVE CurationTyped'
BY EditIs, TypedStays

LEMMA TypedDies == ASSUME CurationTyped, Dies PROVE CurationTyped'
BY NotesUnchanged, BootedIs, TypedStays DEF Dies, CurationTyped, ShelfTyped

LEMMA TypedTime == ASSUME CurationTyped, TimePasses PROVE CurationTyped'
BY NotesUnchanged, TypedStays DEF TimePasses, CurationTyped, ShelfTyped, shelf

-----------------------------------------------------------------------------
\* Every step is one of these.

CurationStep ==
  \/ \E g \in Generators : \/ \E b \in BOOLEAN : Generate(g, b)
                           \/ LookStep(g) \/ WriteDraft(g) \/ WriteProposal1(g)
  \/ EditStep \/ TimePasses \/ Dies

LEMMA StepIs == CurationNext => CurationStep
BY DEF CurationNext, CurationStep, EditStep, LookStep

LEMMA TypedNext ==
  ASSUME CurationTyped, [CurationNext]_curationVars
  PROVE  CurationTyped'
<1>1. CASE UNCHANGED curationVars
  BY <1>1, ShelfUnchanged, NotesUnchanged, TypedStays DEF curationVars
<1>2. CASE CurationNext
  <2>1. CASE EditStep \/ TimePasses \/ Dies
    BY <2>1, TypedEdit, TypedTime, TypedDies
  <2>2. CASE \E g \in Generators : \/ \E b \in BOOLEAN : Generate(g, b)
                                   \/ LookStep(g) \/ WriteDraft(g) \/ WriteProposal1(g)
    BY <2>2, TypedGenerate, TypedLook, TypedWriteDraft, TypedWriteProposal
  <2>3. QED
    BY <1>2, <2>1, <2>2, StepIs DEF CurationStep
<1>3. QED
  BY <1>1, <1>2

-----------------------------------------------------------------------------
\* One generate() at a time proposes nothing twice.

LEMMA OneGeneratesIs ==
  ASSUME OneGenerates, ~raced
  PROVE  /\ Single /\ \A g \in Generators : Orderly(gen[g])
         /\ \A g, h \in Generators : ~Is(g, "idle") /\ ~Is(h, "idle") => g = h
BY DEF OneGenerates

\* Whoever is idle is in order.
LEMMA IdleIs == ASSUME NEW r, r.at \in {"idle", "embed", "count", "look"} PROVE Orderly(r)
BY DEF Orderly, Fresh, Seeing, Proposing

LEMMA SoloBegins == CurationInit => OneGenerates
BY QuietFields, IdleIs DEF CurationInit, OneGenerates, Single, Is

\* Whatever people do meanwhile.
LEMMA SoloStays ==
  ASSUME CurationTyped, OneGenerates, NotesStay, gen' = gen, raced' = raced
  PROVE  OneGenerates'
<1> SUFFICES ASSUME ~raced PROVE OneGenerates'
  BY DEF OneGenerates
<1>1. /\ Single /\ \A g \in Generators : Orderly(gen[g])
      /\ \A g, h \in Generators : ~Is(g, "idle") /\ ~Is(h, "idle") => g = h
  BY OneGeneratesIs
<1>2. DOMAIN drafts' = DOMAIN drafts /\ DOMAIN proposals' = DOMAIN proposals
  BY DEF NotesStay
<1>3. \A d \in DOMAIN drafts : /\ AskedFor(drafts'[d]) = AskedFor(drafts[d])
                               /\ Cluster(drafts'[d]) = Cluster(drafts[d])
  BY DEF NotesStay, AskedFor, Cluster
<1>4. \A p \in DOMAIN proposals :
        /\ proposals[p].draft \in DOMAIN drafts /\ proposals'[p].draft = proposals[p].draft
        /\ proposals'[p].of = proposals[p].of
  BY DEF NotesStay, CurationTyped, ProposalOf
<1>5. \A p \in DOMAIN proposals : /\ AskedFor(DraftOf(p))' = AskedFor(DraftOf(p))
                                  /\ Cluster(DraftOf(p))' = Cluster(DraftOf(p))
  BY <1>3, <1>4 DEF DraftOf, AskedFor, Cluster
<1>6. \A p \in DOMAIN proposals : Waiting(p)' => Waiting(p)
  BY <1>2, <1>4 DEF Waiting, Undecided, NotesStay, Shut
<1>7. Single'
  BY <1>1, <1>2, <1>4, <1>5, <1>6 DEF Single
<1>8. ASSUME NEW g \in Generators PROVE Orderly(gen[g])'
  <2>1. Orderly(gen[g]) /\ gen'[g] = gen[g]
    BY <1>1
  <2>2. PICK r : r = gen[g]
    OBVIOUS
  <2>3. Fresh(gen[g])'
    BY <2>1, <2>2, <1>3, <1>2 DEF Orderly, Fresh, MergeFor, AskedFor
  <2>4. gen'[g].at = "propose" => \A p \in DOMAIN proposals' : proposals'[p].draft # gen'[g].draft
    BY <1>2, <1>4, <2>1 DEF Orderly
  <2>5. gen'[g].at \in Seeing => Knows(gen[g])'
    BY <2>1, <1>2, <1>5, <1>6 DEF Orderly, Knows
  <2>6. gen'[g].at \in Proposing => MergeFor(gen[g])' \notin gen'[g].seen
    BY <2>1 DEF Orderly, MergeFor
  <2>7. QED
    BY <2>3, <2>4, <2>5, <2>6 DEF Orderly
<1>9. QED
  BY <1>1, <1>7, <1>8 DEF OneGenerates, Is

\* A step of one generate(), the others being idle.
LEMMA SoloTurn ==
  ASSUME OneGenerates, ~raced, NEW g \in Generators, gen[g].at # "idle",
         \A h \in Generators : h # g => gen'[h] = gen[h],
         Single', Orderly(gen[g])'
  PROVE  OneGenerates'
BY OneGeneratesIs, IdleIs DEF Is, Orderly, Fresh, Seeing, Proposing, OneGenerates

LEMMA OrderlyLook ==
  ASSUME CurationTyped, NEW g \in Generators, LookStep(g), Orderly(gen[g])
  PROVE  Orderly(gen'[g])
<1>1. CASE Collect(g)
  <2>1. gen'[g].at = "count"
    BY <1>1, CollectIs DEF Collected, SameRequest
  <2>2. QED
    BY <2>1, IdleIs
<1>2. CASE CountTags(g)
  BY <1>2, CountIs, IdleIs DEF Counted, SameRequest
<1>3. CASE LookUp(g)
  <2>1. gen'[g].at = "next" /\ gen'[g].seen = Signatures
    BY <1>3, LookUpIs DEF Looked, SameRequest
  <2>2. ASSUME NEW p \in DOMAIN proposals, Waiting(p) PROVE AskedFor(DraftOf(p)) \in Signatures
    <3>1. proposals[p].draft \in DOMAIN drafts /\ drafts[proposals[p].draft] \in Draft
      BY DEF CurationTyped, ProposalOf
    <3>2. OpenDraft(p) /\ p \in Undecided
      BY <2>2, <3>1 DEF Waiting, OpenDraft, Open, Draft
    <3>3. QED
      BY <3>2 DEF Signatures, DraftOf
  <2>3. QED
    BY <2>1, <2>2 DEF Orderly, Fresh, Knows, Proposing
<1>4. CASE NextCluster(g)
  <2>1. gen[g].at = "next" /\ Knows(gen[g])
    BY <1>4 DEF NextCluster, Is, Orderly, Seeing
  <2>2. CASE Finished(gen'[g], gen[g])
    BY <2>1, <2>2 DEF Finished, SameRequest, Orderly, Fresh, Knows, Proposing
  <2>3. ASSUME NEW c \in gen[g].clusters, TakenUp(gen'[g], gen[g], c, "next") PROVE Orderly(gen'[g])
    BY <2>1, <2>3 DEF TakenUp, SameRequest, Orderly, Fresh, Knows, Proposing
  <2>4. ASSUME NEW c \in gen[g].clusters, Merge(PickCanonical(c, gen[g].usage), c) \notin gen[g].seen,
               TakenUp(gen'[g], gen[g], c, "verify")
        PROVE  Orderly(gen'[g])
    <3>1. gen'[g].of = c /\ gen'[g].usage = gen[g].usage /\ gen'[g].seen = gen[g].seen /\ gen'[g].at = "verify"
      BY <2>4 DEF TakenUp, SameRequest
    <3>2. MergeFor(gen'[g]) \notin gen'[g].seen
      BY <2>4, <3>1 DEF MergeFor
    <3>3. QED
      BY <2>1, <3>1, <3>2 DEF Orderly, Fresh, Knows, Proposing
  <2>5. QED
    BY <1>4, <2>1, <2>2, <2>3, <2>4, NextClusterIs
<1>5. CASE Verify(g)
  <2>1. PICK to : to = FreePath(DOMAIN drafts, Canonical(g))
    OBVIOUS
  <2>2. to \notin DOMAIN drafts
    BY <2>1, FreePathIs DEF CurationTyped
  <2>3. Verified(gen'[g], gen[g], to) /\ gen[g].at = "verify"
    BY <1>5, <2>1, VerifyIs DEF Verify, Is
  <2>4. /\ gen'[g].at = "draft" /\ gen'[g].to = to /\ gen'[g].seen = gen[g].seen
        /\ gen'[g].of = gen[g].of /\ gen'[g].usage = gen[g].usage
    BY <2>3 DEF Verified, SameRequest
  <2>5. MergeFor(gen'[g]) = MergeFor(gen[g]) /\ Knows(gen[g]) /\ MergeFor(gen[g]) \notin gen[g].seen
    BY <2>3, <2>4 DEF MergeFor, Orderly, Seeing, Proposing
  <2>6. QED
    BY <2>2, <2>4, <2>5 DEF Orderly, Fresh, Knows
<1>6. CASE Answer(g)
  BY <1>6, TurnIs, QuietFields, IdleIs DEF Answer
<1>7. QED
  BY <1>1, <1>2, <1>3, <1>4, <1>5, <1>6 DEF LookStep

LEMMA SoloLook ==
  ASSUME CurationTyped, OneGenerates, NEW g \in Generators, LookStep(g)
  PROVE  OneGenerates'
<1>1. Looks
  BY LookFrame
<1>2. UNCHANGED <<drafts, proposals, raced>>
  BY <1>1 DEF Looks
<1> SUFFICES ASSUME ~raced PROVE OneGenerates'
  BY <1>2 DEF OneGenerates
<1>3. Single /\ Orderly(gen[g])
  BY OneGeneratesIs
<1>4. Orderly(gen'[g])
  BY <1>3, OrderlyLook
<1>5. Single' /\ Orderly(gen[g])'
  BY <1>2, <1>3, <1>4 DEF Single, DraftOf, Waiting, Undecided, Orderly, Fresh, Knows
<1>6. gen[g].at # "idle"
  BY DEF LookStep, Collect, CountTags, LookUp, NextCluster, Verify, Answer, Is
<1>7. \A h \in Generators : h # g => gen'[h] = gen[h]
  BY LookFrame, TurnIs
<1>8. QED
  BY <1>5, <1>6, <1>7, SoloTurn

LEMMA SoloGenerate ==
  ASSUME CurationTyped, OneGenerates, NEW g \in Generators, NEW b \in BOOLEAN, Generate(g, b)
  PROVE  OneGenerates'
<1> SUFFICES ASSUME ~raced' PROVE OneGenerates'
  BY DEF OneGenerates
<1>1. /\ ~raced /\ \A h \in Generators : gen[h].at = "idle"
      /\ UNCHANGED <<drafts, proposals>>
  BY DEF Generate, Busy
<1>2. \A h \in Generators : h # g => gen'[h] = gen[h]
  BY TurnIs DEF Generate
<1>3. gen'[g].at = "embed"
  BY GenerateIs DEF Begun
<1>4. \A h \in Generators : gen'[h].at \in {"idle", "embed"} /\ (h # g => gen'[h].at = "idle")
  BY <1>1, <1>2, <1>3
<1>5. \A h \in Generators : Orderly(gen[h])'
  BY <1>4 DEF Orderly, Fresh, Seeing, Proposing
<1>6. Single'
  BY <1>1, OneGeneratesIs DEF Single, DraftOf, Waiting, Undecided
<1>7. QED
  BY <1>4, <1>5, <1>6 DEF OneGenerates, Is

LEMMA SoloDies == ASSUME CurationTyped, OneGenerates, Dies PROVE OneGenerates'
<1>1. \A h \in Generators : gen'[h].at = "idle"
  BY QuietFields DEF Dies
<1>2. UNCHANGED <<drafts, proposals, raced>>
  BY DEF Dies
<1>3. \A h \in Generators : Orderly(gen[h])'
  BY <1>1 DEF Orderly, Fresh, Seeing, Proposing
<1>4. ~raced => Single'
  BY <1>2, OneGeneratesIs DEF Single, DraftOf, Waiting, Undecided
<1>5. QED
  BY <1>1, <1>2, <1>3, <1>4 DEF OneGenerates, Is

LEMMA SoloWriteDraft ==
  ASSUME CurationTyped, OneGenerates, NEW g \in Generators, WriteDraft(g)
  PROVE  OneGenerates'
<1>1. UNCHANGED <<proposals, raced>>
  BY DEF WriteDraft
<1> SUFFICES ASSUME ~raced PROVE OneGenerates'
  BY <1>1 DEF OneGenerates
<1>2. PICK r, to, m : r = gen[g] /\ to = gen[g].to /\ m = MergeFor(gen[g])
  OBVIOUS
<1>3. r.at = "draft" /\ Single /\ Orderly(r) /\ to \notin DOMAIN drafts
  BY <1>2, OneGeneratesIs DEF WriteDraft, Is, Orderly, Fresh
<1>4. /\ DOMAIN drafts' = DOMAIN drafts \cup {to}
      /\ drafts'[to] = [canonical |-> m.canonical, merge |-> m.merge, status |-> "draft"]
      /\ \A d \in DOMAIN drafts : d # to => drafts'[d] = drafts[d]
  BY <1>2, DraftWritten
<1>5. \A p \in DOMAIN proposals : proposals[p].draft \in DOMAIN drafts
  BY DEF CurationTyped, ProposalOf
<1>6. \A p \in DOMAIN proposals : /\ DraftOf(p)' = DraftOf(p) /\ proposals[p].draft # to
                                  /\ Waiting(p)' = Waiting(p)
  BY <1>1, <1>3, <1>4, <1>5 DEF DraftOf, Waiting, Undecided
<1>7. Single'
  BY <1>1, <1>3, <1>6 DEF Single
<1>8. PICK to2 : to2 = FreePath(DOMAIN proposals, Canonical(g))
  OBVIOUS
<1>9. to2 \notin DOMAIN proposals
  BY <1>8, FreePathIs DEF CurationTyped
<1>10. PICK n : n = gen'[g]
  OBVIOUS
<1>11. HasDraft(n, r, to2)
  BY <1>2, <1>8, <1>10, WriteDraftIs
<1>12. /\ n.at = "propose" /\ n.draft = to /\ n.to = to2 /\ n.seen = r.seen /\ n.of = r.of /\ n.usage = r.usage
  BY <1>2, <1>11 DEF HasDraft, SameRequest
<1>13. AskedFor(drafts'[to]) = m /\ MergeFor(n) = m
  BY <1>2, <1>12, <1>4 DEF MergeFor, Merge, AskedFor
<1>14. Fresh(gen[g])'
  BY <1>1, <1>4, <1>9, <1>10, <1>12, <1>13 DEF Fresh, MergeFor, AskedFor
<1>15. Knows(gen[g])' /\ MergeFor(gen[g])' \notin gen'[g].seen
  <2>1. Knows(r) /\ MergeFor(r) \notin r.seen
    BY <1>3 DEF Orderly, Seeing, Proposing
  <2>2. \A p \in DOMAIN proposals : Waiting(p) => AskedFor(DraftOf(p)) \in n.seen
    BY <1>12, <2>1 DEF Knows
  <2>3. Knows(gen[g])'
    BY <1>1, <1>6, <1>10, <2>2 DEF Knows, AskedFor
  <2>4. MergeFor(n) \notin n.seen
    BY <1>2, <1>12, <1>13, <2>1
  <2>5. QED
    BY <1>10, <2>3, <2>4 DEF MergeFor
<1>16. Orderly(gen[g])'
  BY <1>1, <1>6, <1>10, <1>12, <1>14, <1>15 DEF Orderly
<1>17. \A h \in Generators : h # g => gen'[h] = gen[h]
  BY TurnIs DEF WriteDraft
<1>18. QED
  BY <1>2, <1>3, <1>7, <1>16, <1>17, SoloTurn

LEMMA SoloWriteProposal ==
  ASSUME CurationTyped, OneGenerates, NEW g \in Generators, WriteProposal1(g)
  PROVE  OneGenerates'
<1>1. UNCHANGED <<drafts, raced>>
  BY DEF WriteProposal1
<1> SUFFICES ASSUME ~raced PROVE OneGenerates'
  BY <1>1 DEF OneGenerates
<1>2. PICK r, to, m : r = gen[g] /\ to = gen[g].to /\ m = MergeFor(gen[g])
  OBVIOUS
<1>3. /\ r.at = "propose" /\ Single /\ Orderly(r) /\ to \notin DOMAIN proposals
      /\ r.draft \in DOMAIN drafts /\ AskedFor(drafts[r.draft]) = m
      /\ \A p \in DOMAIN proposals : proposals[p].draft # r.draft
      /\ Knows(r) /\ m \notin r.seen
  BY <1>2, OneGeneratesIs DEF WriteProposal1, Is, Orderly, Fresh, Seeing, Proposing
<1>4. /\ DOMAIN proposals' = DOMAIN proposals \cup {to}
      /\ proposals'[to] = [draft |-> r.draft, status |-> "pending", of |-> r.of]
      /\ \A p \in DOMAIN proposals : proposals'[p] = proposals[p]
  BY <1>2, <1>3, ProposalWritten
<1>5. \A p \in DOMAIN proposals : /\ DraftOf(p)' = DraftOf(p) /\ Waiting(p)' = Waiting(p)
  BY <1>1, <1>4 DEF DraftOf, Waiting, Undecided
<1>6. DraftOf(to)' = drafts[r.draft] /\ proposals'[to].of = r.of /\ proposals'[to].draft = r.draft
  BY <1>1, <1>4 DEF DraftOf
<1>7. Cluster(drafts[r.draft]) = r.of
  <2>1. /\ r.from \subseteq Ids /\ r.of \in Bunches(r.from) /\ r.usage \in [r.from -> Nat]
    BY <1>2, <1>3 DEF CurationTyped, GoodGen, Proposing, Seeing
  <2>2. Cluster(m) = r.of
    BY <1>2, <2>1, MergeIs DEF MergeFor
  <2>3. drafts[r.draft].canonical = m.canonical /\ drafts[r.draft].merge = m.merge
    BY <1>3 DEF AskedFor
  <2>4. QED
    BY <2>2, <2>3 DEF Cluster
<1>8. \A p \in DOMAIN proposals : Waiting(p) => AskedFor(DraftOf(p)) \in r.seen
  BY <1>3 DEF Knows
<1>9. Single'
  BY <1>3, <1>4, <1>5, <1>6, <1>8, <1>7 DEF Single, Cluster, AskedFor
<1>10. PICK n : n = gen'[g]
  OBVIOUS
<1>11. Proposed(n, r, m)
  BY <1>2, <1>10, WriteProposalIs DEF MergeFor, Canonical
<1>12. n.at = "next" /\ n.seen = r.seen \cup {m}
  BY <1>11 DEF Proposed, SameRequest
<1>13. \A p \in DOMAIN proposals' : Waiting(p)' => AskedFor(DraftOf(p))' \in n.seen
  BY <1>3, <1>4, <1>5, <1>6, <1>8, <1>12 DEF AskedFor
<1>14. Orderly(gen[g])'
  BY <1>10, <1>12, <1>13 DEF Orderly, Fresh, Knows, Seeing, Proposing
<1>15. \A h \in Generators : h # g => gen'[h] = gen[h]
  BY TurnIs DEF WriteProposal1
<1>16. QED
  BY <1>2, <1>3, <1>9, <1>14, <1>15, SoloTurn

LEMMA SoloNext ==
  ASSUME CurationTyped, OneGenerates, [CurationNext]_curationVars
  PROVE  OneGenerates'
<1>1. CASE UNCHANGED curationVars
  BY <1>1, NotesUnchanged, SoloStays DEF curationVars
<1>2. CASE CurationNext
  <2>1. CASE EditStep
    BY <2>1, EditIs, SoloStays
  <2>2. CASE TimePasses
    BY <2>2, NotesUnchanged, SoloStays DEF TimePasses
  <2>3. CASE Dies
    BY <2>3, SoloDies
  <2>4. CASE \E g \in Generators : \/ \E b \in BOOLEAN : Generate(g, b)
                                   \/ LookStep(g) \/ WriteDraft(g) \/ WriteProposal1(g)
    BY <2>4, SoloGenerate, SoloLook, SoloWriteDraft, SoloWriteProposal
  <2>5. QED
    BY <1>2, <2>1, <2>2, <2>3, <2>4, StepIs DEF CurationStep
<1>3. QED
  BY <1>1, <1>2

-----------------------------------------------------------------------------
\* A generate() nothing interferes with leaves nothing out.

LEMMA ApartFrame ==
  ASSUME UNCHANGED <<ruled, day>>, NEW k
  PROVE  Apart(k)' <=> Apart(k)
BY DEF Strength, Decayed, Iterated, CannotLink, MaxStrength, Apart

\* What of a proposal a step leaves alone.
ProposalsStay ==
  /\ DOMAIN proposals \subseteq DOMAIN proposals'
  /\ \A p \in DOMAIN proposals : Waiting(p) => Waiting(p)' /\ DraftOf(p)' = DraftOf(p)

LEMMA WaitsStay ==
  ASSUME ProposalsStay, NEW k, Waits(k)
  PROVE  Waits(k)'
BY DEF Waits, ProposalsStay, Cluster

LEMMA CleanFrame ==
  ASSUME UNCHANGED <<concepts, drafts, proposals, ruled, day>>, NEW r, Clean(r)
  PROVE  Clean(r)'
<1>1. \A k : Apart(k)' <=> Apart(k)
  BY ApartFrame
<1>2. /\ \A p : (Waiting(p)' <=> Waiting(p)) /\ DraftOf(p)' = DraftOf(p)
      /\ DOMAIN proposals' = DOMAIN proposals
  BY DEF Waiting, Undecided, DraftOf
<1>3. \A k : Waits(k) => Waits(k)'
  BY <1>2, WaitsStay DEF ProposalsStay
<1>4. \A k : Handled(r, k) => Handled(r, k)'
  BY <1>1, <1>3 DEF Handled
<1>5. Fresh(r)'
  BY DEF Clean, Fresh, MergeFor, AskedFor
<1>6. r.at \in Seeing => \A s \in r.seen : \E p \in DOMAIN proposals' : Waiting(p)' /\ AskedFor(DraftOf(p))' = s
  BY <1>2 DEF Clean, AskedFor
<1>7. \A d \in DOMAIN drafts : Cluster(drafts[d])' = Cluster(drafts[d])
  BY DEF Cluster
<1>8. r.wrote \subseteq DOMAIN drafts
  BY DEF Clean
<1>9. r.balanced => \A d \in r.wrote : ~Apart(Cluster(drafts[d]))'
  <2>1. r.balanced => \A d \in r.wrote : ~Apart(Cluster(drafts[d]))
    BY DEF Clean
  <2>2. \A d : Apart(Cluster(drafts[d]))' <=> Apart(Cluster(drafts[d]))
    <3>1. ASSUME NEW d PROVE Apart(Cluster(drafts[d]))' <=> Apart(Cluster(drafts[d]))
      <4>1. PICK k : k = Cluster(drafts[d])
        OBVIOUS
      <4>2. Cluster(drafts[d])' = k
        BY <4>1 DEF Cluster
      <4>3. Apart(k)' <=> Apart(k)
        BY ApartFrame
      <4>4. QED
        BY <4>1, <4>2, <4>3 DEF Apart, MaxStrength
    <3>2. QED
      BY <3>1
  <2>3. QED
    BY <2>1, <2>2
<1>10. QED
  BY <1>1, <1>4, <1>5, <1>6, <1>7, <1>8, <1>9 DEF Clean, Bunches

\* The parts of Clean, one by one.
LEMMA CleanIs ==
  ASSUME NEW r, Clean(r)
  PROVE  /\ r.from = concepts /\ Fresh(r) /\ r.wrote \subseteq DOMAIN drafts
         /\ r.at \in Seeing => \A s \in r.seen : \E p \in DOMAIN proposals : Waiting(p) /\ AskedFor(DraftOf(p)) = s
         /\ r.at # "embed" => \A k \in Groups(r.edges, r.from) : Handled(r, k)
         /\ r.at = "embed" => r.wrote = {} /\ r.clusters = {}
         /\ r.balanced => /\ \A k \in r.clusters : ~Apart(k)
                          /\ r.at \in Proposing => ~Apart(r.of)
                          /\ \A d \in r.wrote : ~Apart(Cluster(drafts[d]))
         /\ \A d \in r.wrote : Cluster(drafts[d]) \in Bunches(concepts) /\ drafts[d].canonical \notin drafts[d].merge
         /\ r.at = "propose" => drafts[r.draft].status = "draft"
BY DEF Clean

\* Such a generate goes on with the same concepts and drafts.
LEMMA CleanGoesOn ==
  ASSUME NEW r, NEW n, Clean(r), n.balanced = r.balanced, n.from = r.from, n.wrote = r.wrote, Fresh(n),
         n.at \notin {"embed", "propose"},
         n.at \in Seeing => \A s \in n.seen : \E p \in DOMAIN proposals : Waiting(p) /\ AskedFor(DraftOf(p)) = s,
         \A k \in Groups(n.edges, n.from) : Handled(n, k),
         n.at = "done" => n.clusters = {},
         n.balanced => (\A k \in n.clusters : ~Apart(k)) /\ (n.at \in Proposing => ~Apart(n.of))
  PROVE  Clean(n)
BY CleanIs DEF Clean

LEMMA CleanLook ==
  ASSUME CurationTyped, NEW g \in Generators, LookStep(g), Clean(gen[g]), gen'[g].at # "idle"
  PROVE  Clean(gen'[g])
<1>1. PICK r, n : r = gen[g] /\ n = gen'[g]
  OBVIOUS
<1>2. Clean(r) /\ GoodGen(r)
  BY <1>1 DEF CurationTyped
<1>3. CASE Collect(g)
  <2>1. PICK near \in {Near, {}} :
           LET edges == r.edges \cup near
               all == Groups(edges, r.from)
           IN Collected(n, r, edges, IF r.balanced THEN {c \in all : ~Apart(c)} ELSE all)
    BY <1>1, <1>3, CollectIs
  <2>2. PICK edges, all, kept : /\ edges = r.edges \cup near /\ all = Groups(edges, r.from)
                                /\ kept = IF r.balanced THEN {c \in all : ~Apart(c)} ELSE all
    OBVIOUS
  <2>3. Collected(n, r, edges, kept)
    BY <2>1, <2>2
  <2>4. /\ n.at = "count" /\ n.balanced = r.balanced /\ n.from = r.from /\ n.edges = edges
        /\ n.clusters = kept /\ n.wrote = r.wrote
    BY <2>3 DEF Collected, SameRequest
  <2>5. \A k \in Groups(n.edges, n.from) : Handled(n, k)
    BY <2>2, <2>4 DEF Handled
  <2>6. n.balanced => \A k \in n.clusters : ~Apart(k)
    BY <2>2, <2>4
  <2>7. Fresh(n)
    BY <2>4 DEF Fresh
  <2>8. Clean(n)
    BY <1>2, <2>4, <2>5, <2>6, <2>7, CleanGoesOn DEF Seeing, Proposing
  <2>9. QED
    BY <1>1, <2>8
<1>4. CASE CountTags(g)
  <2>1. Counted(n, r, Usage(r.from)) /\ r.at = "count"
    BY <1>1, <1>4, CountIs DEF CountTags, Is
  <2>2. /\ n.at = "look" /\ n.balanced = r.balanced /\ n.from = r.from /\ n.edges = r.edges
        /\ n.clusters = r.clusters /\ n.wrote = r.wrote
    BY <2>1 DEF Counted, SameRequest
  <2>3. \A k \in Groups(n.edges, n.from) : Handled(n, k)
    BY <1>2, <2>1, CleanIs, <2>2 DEF Handled, Proposing
  <2>4. n.balanced => \A k \in n.clusters : ~Apart(k)
    BY <1>2, <2>2, CleanIs
  <2>5. Fresh(n)
    BY <2>2 DEF Fresh
  <2>6. Clean(n)
    BY <1>2, <2>2, <2>3, <2>4, <2>5, CleanGoesOn DEF Seeing, Proposing
  <2>7. QED
    BY <1>1, <2>6
<1>5. CASE LookUp(g)
  <2>1. Looked(n, r, Signatures) /\ r.at = "look"
    BY <1>1, <1>5, LookUpIs DEF LookUp, Is
  <2>2. /\ n.at = "next" /\ n.balanced = r.balanced /\ n.from = r.from /\ n.edges = r.edges
        /\ n.clusters = r.clusters /\ n.wrote = r.wrote /\ n.seen = Signatures
    BY <2>1 DEF Looked, SameRequest
  <2>3. \A k \in Groups(n.edges, n.from) : Handled(n, k)
    BY <1>2, <2>1, CleanIs, <2>2 DEF Handled, Proposing
  <2>4. n.balanced => \A k \in n.clusters : ~Apart(k)
    BY <1>2, <2>2, CleanIs
  <2>5. Fresh(n)
    BY <2>2 DEF Fresh
  <2>6. ASSUME NEW s \in n.seen PROVE \E p \in DOMAIN proposals : Waiting(p) /\ AskedFor(DraftOf(p)) = s
    BY <2>2 DEF Signatures, Undecided, Waiting, OpenDraft, Open, DraftOf
  <2>7. Clean(n)
    BY <1>2, <2>2, <2>3, <2>4, <2>5, <2>6, CleanGoesOn DEF Proposing
  <2>8. QED
    BY <1>1, <2>7
<1>6. CASE NextCluster(g)
  <2>1. r.at = "next"
    BY <1>1, <1>6 DEF NextCluster, Is
  <2>2. /\ \A k \in Groups(r.edges, r.from) : Handled(r, k)
        /\ \A s \in r.seen : \E p \in DOMAIN proposals : Waiting(p) /\ AskedFor(DraftOf(p)) = s
        /\ r.balanced => \A k \in r.clusters : ~Apart(k)
    BY <1>2, <2>1, CleanIs DEF Seeing
  <2>3. \A k \in Groups(r.edges, r.from) : k \in r.clusters \/ (r.balanced /\ Apart(k)) \/ Waits(k)
    BY <2>1, <2>2 DEF Handled, Proposing
  <2>4. CASE Finished(n, r) /\ r.clusters = {}
    BY <2>4, <2>3, <2>2, <1>2, CleanGoesOn, <1>1 DEF Finished, SameRequest, Handled, Fresh, Proposing
  <2>5. ASSUME NEW c \in r.clusters, Merge(PickCanonical(c, r.usage), c) \in r.seen, TakenUp(n, r, c, "next")
        PROVE  Clean(n)
    <3>1. /\ n.at = "next" /\ n.balanced = r.balanced /\ n.from = r.from /\ n.edges = r.edges
          /\ n.clusters = r.clusters \ {c} /\ n.wrote = r.wrote /\ n.seen = r.seen
      BY <2>5 DEF TakenUp, SameRequest
    <3>2. Waits(c)
      BY <2>2, <2>5, <1>2, <2>1, MergeIs DEF GoodGen, Seeing, AskedFor, Cluster, Waits
    <3>3. \A k \in Groups(n.edges, n.from) : Handled(n, k)
      BY <2>3, <3>1, <3>2 DEF Handled
    <3>4. Fresh(n) /\ (n.balanced => \A k \in n.clusters : ~Apart(k))
      BY <2>2, <3>1 DEF Fresh
    <3>5. QED
      BY <1>2, <2>2, <3>1, <3>3, <3>4, CleanGoesOn DEF Proposing
  <2>6. ASSUME NEW c \in r.clusters, TakenUp(n, r, c, "verify")
        PROVE  Clean(n)
    BY <2>6, <2>3, <2>2, <1>2, CleanGoesOn DEF TakenUp, SameRequest, Handled, Proposing, Fresh
  <2>7. QED
    BY <1>1, <1>6, <2>1, <2>4, <2>5, <2>6, NextClusterIs
<1>7. CASE Verify(g)
  <2>1. PICK to : to = FreePath(DOMAIN drafts, Canonical(g))
    OBVIOUS
  <2>2. to \notin DOMAIN drafts
    BY <2>1, FreePathIs DEF CurationTyped
  <2>3. Verified(n, r, to) /\ r.at = "verify"
    BY <1>1, <1>7, <2>1, VerifyIs DEF Verify, Is
  <2>4. /\ n.at = "draft" /\ n.balanced = r.balanced /\ n.from = r.from /\ n.edges = r.edges /\ n.to = to
        /\ n.clusters = r.clusters /\ n.wrote = r.wrote /\ n.seen = r.seen /\ n.of = r.of
    BY <2>3 DEF Verified, SameRequest
  <2>5. /\ \A k \in Groups(r.edges, r.from) : Handled(r, k)
        /\ \A s \in r.seen : \E p \in DOMAIN proposals : Waiting(p) /\ AskedFor(DraftOf(p)) = s
        /\ r.balanced => (\A k \in r.clusters : ~Apart(k)) /\ ~Apart(r.of)
    BY <1>2, <2>3, CleanIs DEF Seeing, Proposing
  <2>6. \A k \in Groups(n.edges, n.from) : Handled(n, k)
    BY <2>3, <2>4, <2>5 DEF Handled, Proposing
  <2>7. Fresh(n)
    BY <2>2, <2>4 DEF Fresh
  <2>8. Clean(n)
    BY <1>2, <2>4, <2>5, <2>6, <2>7, CleanGoesOn
  <2>9. QED
    BY <1>1, <2>8
<1>8. CASE Answer(g)
  BY <1>8, TurnIs, QuietFields DEF Answer
<1>9. QED
  BY <1>3, <1>4, <1>5, <1>6, <1>7, <1>8 DEF LookStep

LEMMA CleanWriteDraft ==
  ASSUME CurationTyped, NEW g \in Generators, WriteDraft(g), Clean(gen[g])
  PROVE  Clean(gen[g])'
<1>1. PICK r, n, m, to : r = gen[g] /\ n = gen'[g] /\ m = MergeFor(gen[g]) /\ to = gen[g].to
  OBVIOUS
<1>2. Clean(r) /\ GoodGen(r) /\ r.at = "draft" /\ UNCHANGED <<concepts, proposals, ruled, day>>
  BY <1>1 DEF CurationTyped, WriteDraft, Is, shelf
<1>3. /\ r.from = concepts /\ to \notin DOMAIN drafts /\ r.wrote \subseteq DOMAIN drafts
      /\ \A s \in r.seen : \E p \in DOMAIN proposals : Waiting(p) /\ AskedFor(DraftOf(p)) = s
      /\ \A k \in Groups(r.edges, r.from) : Handled(r, k)
      /\ r.balanced => /\ \A k \in r.clusters : ~Apart(k)
                       /\ ~Apart(r.of)
                       /\ \A d \in r.wrote : ~Apart(Cluster(drafts[d]))
      /\ \A d \in r.wrote : Cluster(drafts[d]) \in Bunches(concepts) /\ drafts[d].canonical \notin drafts[d].merge
  BY <1>1, <1>2, CleanIs DEF Fresh, Seeing, Proposing
<1>4. /\ DOMAIN drafts' = DOMAIN drafts \cup {to}
      /\ drafts'[to] = [canonical |-> m.canonical, merge |-> m.merge, status |-> "draft"]
      /\ m.canonical \notin m.merge /\ Cluster(m) = r.of
      /\ \A d \in DOMAIN drafts : d # to => drafts'[d] = drafts[d]
  BY <1>1, DraftWritten
<1>5. PICK to2 : to2 = FreePath(DOMAIN proposals, Canonical(g))
  OBVIOUS
<1>6. to2 \notin DOMAIN proposals
  BY <1>5, FreePathIs DEF CurationTyped
<1>7. HasDraft(n, r, to2)
  BY <1>1, <1>5, WriteDraftIs
<1>8. /\ n.at = "propose" /\ n.draft = to /\ n.to = to2 /\ n.seen = r.seen /\ n.of = r.of /\ n.usage = r.usage
      /\ n.balanced = r.balanced /\ n.from = r.from /\ n.edges = r.edges /\ n.clusters = r.clusters
      /\ n.wrote = r.wrote \cup {to}
  BY <1>1, <1>7 DEF HasDraft, SameRequest
<1>9. \A p \in DOMAIN proposals : DraftOf(p)' = DraftOf(p) /\ (Waiting(p)' <=> Waiting(p))
  BY <1>2, <1>3, <1>4 DEF CurationTyped, ProposalOf, DraftOf, Waiting, Undecided
<1>10. ProposalsStay
  BY <1>2, <1>9 DEF ProposalsStay
<1>11. \A k : Apart(k)' <=> Apart(k)
  BY <1>2, ApartFrame
<1>12. \A k \in Groups(n.edges, n.from) : Handled(n, k)'
  BY <1>3, <1>10, WaitsStay, <1>8, <1>11 DEF Handled, Proposing
<1>13. Cluster(drafts'[to]) = r.of /\ drafts'[to].canonical \notin drafts'[to].merge
  BY <1>4 DEF Cluster
<1>14. \A d \in r.wrote : drafts'[d] = drafts[d]
  BY <1>3, <1>4
<1>15. r.of \in Bunches(concepts')
  BY <1>2, <1>3 DEF GoodGen, Proposing
<1>16. \A d \in n.wrote : Cluster(drafts'[d]) \in Bunches(concepts') /\ drafts'[d].canonical \notin drafts'[d].merge
  BY <1>2, <1>3, <1>8, <1>13, <1>14, <1>15
<1>17. n.balanced => \A d \in n.wrote : ~Apart(Cluster(drafts[d]))'
  <2>1. ASSUME n.balanced, NEW d \in n.wrote PROVE ~Apart(Cluster(drafts'[d]))
    BY <1>3, <1>8, <1>13, <1>14, <2>1
  <2>2. ASSUME NEW d PROVE Apart(Cluster(drafts[d]))' <=> Apart(Cluster(drafts'[d]))
    BY <1>11 DEF Cluster, Apart, MaxStrength
  <2>3. QED
    BY <2>1, <2>2
<1>18. Fresh(n)'
  BY <1>1, <1>8, <1>4, <1>2, <1>6 DEF MergeFor, Merge, AskedFor, Fresh
<1>19. \A s \in n.seen : \E p \in DOMAIN proposals' : Waiting(p)' /\ AskedFor(DraftOf(p))' = s
  BY <1>9, <1>2, <1>3, <1>8 DEF AskedFor
<1>20. Clean(n)'
  <2>1. n.from = concepts' /\ n.wrote \subseteq DOMAIN drafts' /\ drafts'[n.draft].status = "draft"
    BY <1>2, <1>3, <1>4, <1>8
  <2>2. n.balanced => (\A k \in n.clusters : ~Apart(k)') /\ ~Apart(n.of)'
    BY <1>3, <1>8, <1>11
  <2>3. Groups(n.edges, n.from)' = Groups(n.edges, n.from)
    OBVIOUS
  <2>4. QED
    BY <1>8, <1>12, <1>16, <1>17, <1>18, <1>19, <2>1, <2>2, <2>3 DEF Clean, Cluster
<1>21. QED
  BY <1>1, <1>20

LEMMA CleanWriteProposal ==
  ASSUME CurationTyped, NEW g \in Generators, WriteProposal1(g), Clean(gen[g])
  PROVE  Clean(gen[g])'
<1>1. PICK r, n, m, to : r = gen[g] /\ n = gen'[g] /\ m = MergeFor(gen[g]) /\ to = gen[g].to
  OBVIOUS
<1>2. Clean(r) /\ GoodGen(r) /\ r.at = "propose" /\ UNCHANGED <<concepts, drafts, ruled, day>>
  BY <1>1 DEF CurationTyped, WriteProposal1, Is, shelf
<1>3. /\ r.from = concepts /\ to \notin DOMAIN proposals /\ r.wrote \subseteq DOMAIN drafts
      /\ r.draft \in DOMAIN drafts /\ AskedFor(drafts[r.draft]) = m /\ drafts[r.draft].status = "draft"
      /\ \A s \in r.seen : \E p \in DOMAIN proposals : Waiting(p) /\ AskedFor(DraftOf(p)) = s
      /\ \A k \in Groups(r.edges, r.from) : Handled(r, k)
      /\ r.balanced => /\ \A k \in r.clusters : ~Apart(k)
                       /\ \A d \in r.wrote : ~Apart(Cluster(drafts[d]))
      /\ \A d \in r.wrote : Cluster(drafts[d]) \in Bunches(concepts) /\ drafts[d].canonical \notin drafts[d].merge
  BY <1>1, <1>2, CleanIs DEF Fresh, Seeing, Proposing
<1>4. /\ DOMAIN proposals' = DOMAIN proposals \cup {to}
      /\ proposals'[to] = [draft |-> r.draft, status |-> "pending", of |-> r.of]
      /\ \A p \in DOMAIN proposals : proposals'[p] = proposals[p]
  BY <1>1, <1>3, ProposalWritten
<1>5. Proposed(n, r, m)
  BY <1>1, WriteProposalIs DEF MergeFor, Canonical
<1>6. /\ n.at = "next" /\ n.seen = r.seen \cup {m}
      /\ n.balanced = r.balanced /\ n.from = r.from /\ n.edges = r.edges /\ n.clusters = r.clusters
      /\ n.wrote = r.wrote
  BY <1>5 DEF Proposed, SameRequest
<1>7. \A p \in DOMAIN proposals : DraftOf(p)' = DraftOf(p) /\ (Waiting(p)' <=> Waiting(p))
  BY <1>2, <1>4 DEF DraftOf, Waiting, Undecided
<1>8. ProposalsStay
  BY <1>4, <1>7 DEF ProposalsStay
<1>9. to \in DOMAIN proposals' /\ Waiting(to)' /\ AskedFor(DraftOf(to))' = m /\ Cluster(DraftOf(to))' = r.of
  <2>1. DraftOf(to)' = drafts[r.draft] /\ drafts' = drafts /\ proposals'[to].status = "pending"
        /\ proposals'[to].draft = r.draft
    BY <1>2, <1>4 DEF DraftOf
  <2>2. AskedFor(DraftOf(to))' = m
    BY <1>3, <2>1 DEF AskedFor
  <2>3. Waiting(to)'
    BY <1>3, <1>4, <2>1 DEF Waiting, Undecided
  <2>4. Cluster(drafts[r.draft]) = r.of
    BY <1>2, <1>1, MergeIs, <1>3 DEF GoodGen, Proposing, Seeing, MergeFor, AskedFor, Cluster
  <2>5. Cluster(DraftOf(to))' = r.of
    BY <2>1, <2>4 DEF Cluster
  <2>6. QED
    BY <1>4, <2>2, <2>3, <2>5
<1>10. \A k : Apart(k)' <=> Apart(k)
  BY <1>2, ApartFrame
<1>11. \A k \in Groups(n.edges, n.from) : Handled(n, k)'
  BY <1>3, <1>8, WaitsStay, <1>9, <1>6, <1>10 DEF Handled, Waits, Proposing
<1>12. \A d \in n.wrote : /\ Cluster(drafts'[d]) \in Bunches(concepts')
                          /\ drafts'[d].canonical \notin drafts'[d].merge
  BY <1>2, <1>3, <1>6
<1>13. n.balanced => \A d \in n.wrote : ~Apart(Cluster(drafts[d]))'
  <2>1. ASSUME n.balanced, NEW d \in n.wrote PROVE ~Apart(Cluster(drafts'[d]))
    BY <1>2, <1>3, <1>6, <2>1
  <2>2. ASSUME NEW d PROVE Apart(Cluster(drafts[d]))' <=> Apart(Cluster(drafts'[d]))
    BY <1>10 DEF Cluster, Apart, MaxStrength
  <2>3. QED
    BY <2>1, <2>2
<1>14. \A s \in n.seen : \E p \in DOMAIN proposals' : Waiting(p)' /\ AskedFor(DraftOf(p))' = s
  BY <1>7, <1>3, <1>4, <1>6, <1>9 DEF AskedFor
<1>15. Clean(n)'
  <2>1. n.from = concepts' /\ n.wrote \subseteq DOMAIN drafts'
    BY <1>2, <1>3, <1>6
  <2>2. n.balanced => \A k \in n.clusters : ~Apart(k)'
    BY <1>3, <1>6, <1>10
  <2>3. Fresh(n)'
    BY <1>6 DEF Fresh
  <2>4. n.at \notin Proposing
    BY <1>6 DEF Proposing
  <2>5. QED
    BY <1>6, <1>11, <1>12, <1>13, <1>14, <2>1, <2>2, <2>3, <2>4 DEF Clean, Cluster
<1>16. QED
  BY <1>1, <1>15

LEMMA CleanGenerate ==
  ASSUME CurationTyped, NEW g \in Generators, NEW b \in BOOLEAN, Generate(g, b)
  PROVE  Clean(gen[g])'
<1>1. PICK n : n = gen'[g]
  OBVIOUS
<1>2. Begun(n, b, concepts) /\ concepts' = concepts
  BY <1>1, GenerateIs DEF Generate, shelf
<1>3. /\ n.at = "embed" /\ n.from = concepts' /\ n.clusters = {} /\ n.wrote = {}
  BY <1>2 DEF Begun
<1>4. Clean(n)'
  BY <1>3 DEF Clean, Fresh, Seeing, Proposing
<1>5. QED
  BY <1>1, <1>4

\* Nothing that a generate() reads has changed, and it has not moved.
LEMMA CleanRests ==
  ASSUME UNCHANGED <<concepts, drafts, proposals, ruled, day>>, NEW g, gen'[g] = gen[g], Clean(gen[g])
  PROVE  Clean(gen[g])'
BY CleanFrame

LEMMA UndisturbedBegins == CurationInit => Undisturbed
BY DEF CurationInit, Undisturbed

LEMMA UndisturbedNext ==
  ASSUME CurationTyped, Undisturbed, [CurationNext]_curationVars
  PROVE  Undisturbed'
<1>1. CASE UNCHANGED curationVars
  BY <1>1, CleanRests DEF curationVars, shelf, Undisturbed, Is
<1>2. CASE EditStep \/ TimePasses \/ Dies
  BY <1>2, EditIs DEF TimePasses, Dies, Edit, Changes, Undisturbed
<1>3. ASSUME NEW g \in Generators, NEW b \in BOOLEAN, Generate(g, b) PROVE Undisturbed'
  BY <1>3, TurnIs, CleanGenerate, CleanRests DEF Generate, shelf, Undisturbed, Is
<1>4. ASSUME NEW g \in Generators, LookStep(g) PROVE Undisturbed'
  <2>1. UNCHANGED <<concepts, drafts, proposals, ruled, day>> /\ undisturbed' = undisturbed
    BY <1>4, LookFrame DEF Looks, shelf
  <2>2. \A h \in Generators : h # g => gen'[h] = gen[h]
    BY <1>4, LookFrame, TurnIs
  <2>3. gen[g].at # "idle"
    BY <1>4 DEF LookStep, Collect, CountTags, LookUp, NextCluster, Verify, Answer, Is
  <2>4. ASSUME NEW h \in undisturbed' PROVE h \in Generators /\ (~Is(h, "idle")' => Clean(gen[h])')
    <3>1. h \in Generators /\ (gen[h].at # "idle" => Clean(gen[h]))
      BY <2>1 DEF Undisturbed, Is
    <3>2. CASE h = g /\ gen'[g].at # "idle"
      <4>1. PICK n : n = gen'[g]
        OBVIOUS
      <4>2. Clean(n)
        BY <1>4, <2>3, <3>1, <3>2, <4>1, CleanLook
      <4>3. Clean(n)'
        BY <2>1, <4>2, CleanFrame
      <4>4. QED
        BY <3>1, <3>2, <4>1, <4>3
    <3>3. CASE h # g
      BY <2>1, <2>2, <3>1, <3>3, CleanRests DEF Is
    <3>4. QED
      BY <3>1, <3>2, <3>3 DEF Is
  <2>5. QED
    BY <2>4 DEF Undisturbed
<1>5. ASSUME NEW g \in Generators, WriteDraft(g) \/ WriteProposal1(g) PROVE Undisturbed'
  BY <1>5, CleanWriteDraft, CleanWriteProposal DEF WriteDraft, WriteProposal1, Changes, Is, Undisturbed
<1>6. CASE CurationNext
  BY <1>2, <1>3, <1>4, <1>5, <1>6, StepIs DEF CurationStep
<1>7. QED
  BY <1>1, <1>6

-----------------------------------------------------------------------------
\* Chains, through every step.

LEMMA ChainsApply ==
  ASSUME CurationTyped, Chains, NEW d \in DOMAIN drafts, NEW ps, ApplyMerge(d, ps)
  PROVE  Chains'
BY ChainsMerge, ChainsStay DEF CurationTyped, ApplyMerge

LEMMA ChainsNext ==
  ASSUME CurationTyped, Chains, [CurationNext]_curationVars
  PROVE  Chains'
<1>1. CASE UNCHANGED <<concepts, alias, tomb, again>>
  BY <1>1, ChainsStay
<1>2. ASSUME NEW g \in Generators, \/ \E b \in BOOLEAN : Generate(g, b)
                                   \/ LookStep(g) \/ WriteDraft(g) \/ WriteProposal1(g)
      PROVE  UNCHANGED <<concepts, alias, tomb, again>>
  BY <1>2, LookFrame DEF Generate, Looks, WriteDraft, WriteProposal1, shelf
<1>3. CASE TimePasses \/ Dies
  BY <1>1, <1>3 DEF TimePasses, Dies, shelf
<1>4. ASSUME NEW p \in DOMAIN proposals, Accepts(p) \/ RejectsProposal(p) PROVE Chains'
  BY ChainsApply, <1>1, <1>4 DEF CurationTyped, ProposalOf, Accepts, RejectsProposal, shelf
<1>5. ASSUME NEW d \in DOMAIN drafts, Applies(d) \/ Holds(d, "pending_approval") \/ Holds(d, "rejected")
      PROVE  Chains'
  BY ChainsApply, <1>1, <1>5 DEF Applies, Holds, shelf
<1>6. ASSUME \/ \E r \in Rulings : Rules(r)
             \/ \E p \in Profiles : Publishes(p)
             \/ \E c \in Ids, n \in Pages : Tags(n, c)
      PROVE  Chains'
  BY <1>1, <1>6 DEF Rules, Publishes, Tags
<1>7. ASSUME NEW c \in Ids, Creates(c) PROVE Chains'
  BY <1>7, ChainsCreate
<1>8. CASE EditStep
  BY <1>4, <1>5, <1>6, <1>7, <1>8 DEF EditStep
<1>9. CASE UNCHANGED curationVars
  BY <1>1, <1>9 DEF curationVars, shelf
<1>10. CASE CurationNext
  BY <1>1, <1>2, <1>3, <1>8, <1>10, StepIs DEF CurationStep
<1>11. QED
  BY <1>9, <1>10

-----------------------------------------------------------------------------
\* What follows.

LEMMA GeneratedHolds ==
  ASSUME CurationTyped, Undisturbed
  PROVE  Generated
<1> SUFFICES ASSUME NEW g \in undisturbed, Is(g, "done")
             PROVE  /\ \A c \in gen[g].from :
                         LET group == Reach(gen[g].edges, gen[g].from, c) IN
                         group # {c} /\ ~(gen[g].balanced /\ Apart(group)) =>
                           \E p \in DOMAIN proposals : Waiting(p) /\ Cluster(drafts[proposals[p].draft]) = group
                    /\ gen[g].balanced /\ HardBlock >= 85 => \A d \in gen[g].wrote : Valid(drafts[d])
  BY DEF Generated
<1>1. PICK r : r = gen[g]
  OBVIOUS
<1>2. r.at = "done" /\ Clean(r) /\ GoodGen(r)
  BY <1>1 DEF Undisturbed, Is, CurationTyped
<1>3. /\ r.clusters = {} /\ \A k \in Groups(r.edges, r.from) : Handled(r, k)
      /\ r.balanced => \A d \in r.wrote : ~Apart(Cluster(drafts[d]))
      /\ \A d \in r.wrote : Cluster(drafts[d]) \in Bunches(concepts) /\ drafts[d].canonical \notin drafts[d].merge
      /\ r.wrote \subseteq DOMAIN drafts
  BY <1>2 DEF Clean
<1>4. ASSUME NEW c \in r.from, NEW group, group = Reach(r.edges, r.from, c), group # {c},
             ~(r.balanced /\ Apart(group))
      PROVE  \E p \in DOMAIN proposals : Waiting(p) /\ Cluster(drafts[proposals[p].draft]) = group
  BY <1>2, <1>4, GroupsFacts, <1>3 DEF GoodGen, Handled, Proposing, Waits, DraftOf
<1>5. ASSUME r.balanced, HardBlock >= 85, NEW d \in r.wrote PROVE Valid(drafts[d])
  <2>1. PICK m : m = drafts[d]
    OBVIOUS
  <2>2. /\ Cluster(m) \in Bunches(concepts) /\ m.canonical \notin m.merge /\ ~Apart(Cluster(m))
    BY <1>3, <1>5, <2>1
  <2>3. {m.canonical} \cup m.merge \subseteq concepts /\ Cardinality({m.canonical} \cup m.merge) > 1
    BY <2>2 DEF Bunches, Cluster
  <2>4. m.merge # {}
    <3>1. SUFFICES ASSUME m.merge = {} PROVE FALSE
      OBVIOUS
    <3>2. {m.canonical} \cup m.merge = {m.canonical}
      BY <3>1
    <3>3. Cardinality({m.canonical}) = 1
      BY FS_Singleton
    <3>4. QED
      BY <2>3, <3>2, <3>3
  <2>5. ASSUME NEW c \in m.merge PROVE ~(MaxStrength(m.canonical, c) >= HardBlock)
    BY <2>2, <2>5, Strongest, Thresholds, <1>5 DEF Apart, Cluster
  <2>6. QED
    BY <2>1, <2>2, <2>3, <2>4, <2>5 DEF Valid, HardBlocked
<1>6. QED
  BY <1>1, <1>4, <1>5

LEMMA OnceHolds == OneGenerates => ProposedOnce
BY DEF OneGenerates, Single, ProposedOnce, DraftOf

\* The specification of the merges that are proposed.
CurationSpec == CurationInit /\ [][CurationNext]_curationVars

\* Merges are proposed once and for every group, warned of, and linted as they are resolved,
\* whatever generators, people, deaths and days do between (CurationSound).
THEOREM CurationHolds == CurationSpec => []CurationSound
<1>1. CurationInit => CurationInv
  BY TypedBegins, ChainsBegin, SoloBegins, UndisturbedBegins DEF CurationInv
<1>2. CurationInv /\ [CurationNext]_curationVars => CurationInv'
  BY TypedNext, ChainsNext, SoloNext, UndisturbedNext DEF CurationInv
<1>3. CurationInv => CurationSound
  BY OnceHolds, GeneratedHolds, WarnedHolds, LintHolds DEF CurationInv, CurationSound
<1>4. QED
  BY <1>1, <1>2, <1>3, PTL DEF CurationSpec
==============================================================================
