--------------------------- MODULE ConceptActions ---------------------------
(***************************************************************************)
(* What the actions of CanonicalizationService do to the vault when they   *)
(* are applied, bsage/garden/canonicalization/service.py: create-concept,  *)
(* merge-concepts, retag-notes and create-decision, with the index that    *)
(* caches concepts, tombstones and decisions and the resolver that reads   *)
(* it.  ActionLifecycle models the statuses and the calls around them.     *)
(*                                                                         *)
(* An apply touches several notes, one await each, under a lock of its     *)
(* own action only: a step is what it does to one note.                    *)
(***************************************************************************)
EXTENDS Integers, Sequences, FiniteSets, SequencesExt

CONSTANTS Concepts,    \* the ids of concepts
          Names,       \* their other aliases
          Notes,       \* the garden notes
          Decisions,   \* cannot-link decisions
          Subjects,    \* per decision, the two concepts it keeps apart
          Actions,     \* the action notes
          Plans,       \* what the actions may ask for: functions from Actions to Params
          InitActive,  \* the concepts there are at first
          InitTags,    \* per note, its tags at first
          InitNames,   \* per concept, its aliases at first
          MaxFaults,   \* bound: storage errors and crashes
          RedirectLimit,  \* _REDIRECT_DEPTH_LIMIT
          None

\* Sources, new tags and superseded decisions are handled in their order.
Params ==
  [kind: {"create"}, target: Concepts, aliases: SUBSET Names]
  \cup [kind: {"merge"}, target: Concepts, sources: Seq(Concepts)]
  \cup [kind: {"retag"}, note: Notes, remove: SUBSET Concepts, add: Seq(Concepts)]
  \cup [kind: {"decide"}, decision: Decisions, over: Seq(Decisions)]

ASSUME PlansAssumption == \A p \in Plans : DOMAIN p = Actions /\ \A a \in Actions : p[a] \in Params
ASSUME InitAssumption == /\ InitTags \in [Notes -> SUBSET InitActive]
                         /\ InitNames \in [Concepts -> SUBSET Names]
                         /\ InitActive \subseteq Concepts
                         /\ Subjects \in [Decisions -> SUBSET Concepts]
ASSUME FaultsAssumption == MaxFaults \in Nat /\ RedirectLimit \in Nat
ASSUME NotesAssumption == IsFiniteSet(Notes) /\ IsFiniteSet(Concepts) /\ None \notin Concepts \cup {"active", "superseded"}

VARIABLES
  plan,        \* params of each action
  vault,       \* the notes: active concepts, aliases, tombstones, cannot-link decisions
  index,       \* what the index caches of them
  tags,        \* per garden note, its tags
  status,      \* per action, its status
  job,         \* per action, the apply that is under way
  meant,       \* history: per note, the concepts it is meant to have
  ever,        \* history: the ids and names that ever led to a concept
  overlapped,  \* history: the applies during which another one was under way
  cut,         \* history: an apply was cut short since the process started
  torn,        \* history: a write was cut short
  faults       \* faults so far

notes == <<vault, tags>>
history == <<meant, ever, overlapped>>
failures == <<cut, torn, faults>>
vars == <<plan, notes, index, status, job, history, failures>>

Aliases == Concepts \cup Names
Shelves == [active: SUBSET Concepts, aliases: [Concepts -> SUBSET Aliases],
            tomb: [Concepts -> Concepts \cup {None}], 
            decided: [Decisions -> {"active", "superseded", None}]]
Effects == {"read", "write", "delete", "bury", "list", "retag", "set", "decide", "supersede"}
Places == Effects \cup {"idle", "check", "block", "record", "reload", "load", "fail"}

\* The paths an index reloads.
Items == ({"active", "merged"} \X Concepts) \cup ({"decided"} \X Decisions)

\* todo: what its loop has left; got: what it read; reload: the paths to reload.
Jobs == [at: Places, todo: Seq(Concepts \cup Notes \cup Decisions \cup Items),
         got: SUBSET Aliases, reload: SUBSET Items]
At(place, todo, got) == [at |-> place, todo |-> todo, got |-> got, reload |-> {}]
Idle == At("idle", <<>>, {})

TypeOK ==
  /\ plan \in Plans
  /\ vault \in Shelves /\ index \in Shelves
  /\ tags \in [Notes -> SUBSET Concepts] /\ meant \in [Notes -> SUBSET Concepts]
  /\ status \in [Actions -> {"draft", "applied", "blocked", "failed"}]
  /\ job \in [Actions -> Jobs]
  /\ ever \subseteq Aliases /\ overlapped \subseteq Actions
  /\ cut \in BOOLEAN /\ torn \in BOOLEAN /\ faults \in 0..MaxFaults

Init ==
  /\ plan \in Plans
  /\ vault = [active |-> InitActive,
              aliases |-> [c \in Concepts |-> IF c \in InitActive THEN InitNames[c] ELSE {}],
              tomb |-> [c \in Concepts |-> None], decided |-> [d \in Decisions |-> None]]
  /\ index = vault
  /\ tags = InitTags /\ meant = InitTags
  /\ status = [a \in Actions |-> IF plan[a].kind = "create" /\ plan[a].target \in InitActive
                                 THEN "applied" ELSE "draft"]     \* what is there was created
  /\ job = [a \in Actions |-> Idle]
  /\ ever = InitActive \cup UNION {InitNames[c] : c \in InitActive}
  /\ overlapped = {} /\ cut = FALSE /\ torn = FALSE /\ faults = 0

-----------------------------------------------------------------------------
\* TagResolver, over what is on a shelf: the vault, or the index.

\* _follow_redirect_chain: the active concept that so many tombstones from c on lead to, or
\* None; a walk in a circle meets none either.
RedirectChain(s, c) ==
  LET f[n \in Nat] == IF n = 0 THEN c
                      ELSE IF f[n - 1] = None \/ f[n - 1] \in s.active THEN f[n - 1]
                      ELSE s.tomb[f[n - 1]]
      end == f[RedirectLimit]
  IN IF end \in s.active THEN end ELSE None

AliasHits(s, n) == {c \in s.active : n \in s.aliases[c]}

\* resolve: the concepts a tag may stand for: more than one if it is ambiguous, none if
\* it is blocked or a new candidate.
Resolve(s, n) ==
  IF n \in s.active THEN {n}
  ELSE IF AliasHits(s, n) # {} THEN AliasHits(s, n)
  ELSE IF n \in Concepts THEN {RedirectChain(s, n)} \ {None}
  ELSE {}

-----------------------------------------------------------------------------
\* The parts of an action.

Sources(a) == ToSet(plan[a].sources)

\* The notes its validation looks for, in order.
Checks(a) ==
  LET p == plan[a] IN
  IF p.kind = "create" THEN <<p.target>>
  ELSE IF p.kind = "merge" THEN <<p.target>> \o p.sources
  ELSE IF p.kind = "retag" THEN p.add ELSE p.over

\* create-concept wants a new concept, create-decision the notes of the decisions it
\* supersedes, the others active concepts.
Passes(a, c) ==
  IF plan[a].kind = "create" THEN c \notin vault.active
  ELSE IF plan[a].kind = "decide" THEN vault.decided[c] # None
  ELSE c \in vault.active

InForce(s) == {d \in Decisions : s.decided[d] = "active"}

\* The hard blocks of a merge: of nothing, of its canonical concept, or one that a
\* cannot-link decision of the index forbids.
Forbidden(a) ==
  /\ plan[a].kind = "merge"
  /\ \/ Sources(a) = {} \/ plan[a].target \in Sources(a)
     \/ \E c \in Sources(a) : {plan[a].target, c} \in {Subjects[d] : d \in InForce(index)}

\* _persist_effects: where the effect begins.
Begins(a) ==
  LET p == plan[a] IN
  IF p.kind = "create" THEN At("write", <<>>, p.aliases)
  ELSE IF p.kind = "merge" THEN At("read", Checks(a), {})
  ELSE IF p.kind = "retag" THEN At("retag", <<p.note>>, {})
  ELSE At("decide", p.over, {})

\* What a concept that was read adds to the aliases of the merged one.
NewAliases(a, c) == vault.aliases[c] \cup (IF c = plan[a].target THEN {} ELSE {c})

RetaggedMutant(a, ts) ==
  IF plan[a].kind = "merge" THEN ts \ Sources(a)
  ELSE (ts \ plan[a].remove) \cup ToSet(plan[a].add)

\* The tags a note gets.
Retagged(a, ts) ==
  IF plan[a].kind = "merge"
  THEN {IF t \in Sources(a) THEN plan[a].target ELSE t : t \in ts}
  ELSE (ts \ plan[a].remove) \cup ToSet(plan[a].add)

AffectedMutant(a) ==
  LET p == plan[a] IN
  IF p.kind = "create" THEN {<<"active", p.target>>}
  ELSE IF p.kind = "merge" THEN {<<"active", p.target>>} \cup ({"merged"} \X Sources(a))
  ELSE IF p.kind = "retag" THEN {} ELSE {"decided"} \X ToSet(p.over)

\* affected_paths: what the index reloads of it (garden paths are ignored).
Affected(a) ==
  LET p == plan[a] IN
  IF p.kind = "create" THEN {<<"active", p.target>>}
  ELSE IF p.kind = "merge" THEN {<<"active", p.target>>} \cup ({"active", "merged"} \X Sources(a))
  ELSE IF p.kind = "retag" THEN {} ELSE {"decided"} \X ({p.decision} \cup ToSet(p.over))

\* _reload_path drops what the index has of a path, then caches what it reads.
Popped(i, x) ==
  IF x[1] = "active" THEN [i EXCEPT !.active = @ \ {x[2]}, !.aliases[x[2]] = {}]
  ELSE IF x[1] = "merged" THEN [i EXCEPT !.tomb[x[2]] = None]
  ELSE [i EXCEPT !.decided[x[2]] = None]
Loaded(i, x) ==
  IF x[1] = "active" THEN [i EXCEPT !.active = @ \cup ({x[2]} \cap vault.active),
                                    !.aliases[x[2]] = vault.aliases[x[2]]]
  ELSE IF x[1] = "merged" THEN [i EXCEPT !.tomb[x[2]] = vault.tomb[x[2]]]
  ELSE [i EXCEPT !.decided[x[2]] = vault.decided[x[2]]]

-----------------------------------------------------------------------------
\* One apply.

Running == {a \in Actions : job[a].at # "idle"}
Goes(a, j) == job' = [job EXCEPT ![a] = j]
Rest(a) == Tail(job[a].todo)
Here(a, place) == job[a].at = place
Reads == UNCHANGED <<plan, notes, index, status, history, failures>>
Puts == UNCHANGED <<plan, index, status, overlapped, failures>>

\* _apply_locked: nothing to do for an action that was applied.
Apply(a) ==
  /\ a \notin Running /\ status[a] # "applied"
  /\ Goes(a, At("check", Checks(a), {}))
  /\ overlapped' = overlapped \cup (IF Running = {} THEN {} ELSE Running \cup {a})
  /\ UNCHANGED <<plan, notes, index, status, meant, ever, failures>>

\* _validate: one concept after the other, then the decisions of the index.
Check(a) ==
  /\ Here(a, "check")
  /\ LET block == At("block", <<>>, {}) IN
     \/ /\ job[a].todo = <<>>
        /\ Goes(a, IF Forbidden(a) THEN block ELSE Begins(a))
     \/ /\ job[a].todo # <<>>
        /\ Goes(a, IF Passes(a, Head(job[a].todo)) THEN At("check", Rest(a), {}) ELSE block)
  /\ Reads

\* _persist_blocked
Block(a) ==
  /\ Here(a, "block")
  /\ status' = [status EXCEPT ![a] = "blocked"]
  /\ Goes(a, Idle)
  /\ UNCHANGED <<plan, notes, index, history, failures>>

\* merge-concepts: the canonical concept and the sources are read before anything changes.
ReadConcept(a) ==
  /\ Here(a, "read")
  /\ LET c == Head(job[a].todo)
         got == job[a].got \cup NewAliases(a, c)
     IN Goes(a, IF c \notin vault.active THEN At("fail", <<>>, {})
                ELSE IF Rest(a) = <<>> THEN At("write", plan[a].sources, got)
                ELSE At("read", Rest(a), got))
  /\ Reads

\* write_concept, of the new concept or of the canonical one.
WriteConcept(a) ==
  /\ Here(a, "write")
  /\ vault' = [vault EXCEPT !.active = @ \cup {plan[a].target},
                            !.aliases[plan[a].target] = job[a].got]
  /\ ever' = ever \cup {plan[a].target} \cup job[a].got
  /\ Goes(a, IF job[a].todo = <<>> THEN At("record", <<>>, {})
             ELSE At("delete", job[a].todo, {}))
  /\ UNCHANGED <<tags, meant>> /\ Puts

DeleteSource(a) ==
  /\ Here(a, "delete")
  /\ LET c == Head(job[a].todo) IN
     vault' = [vault EXCEPT !.active = @ \ {c}, !.aliases[c] = {}]
  /\ Goes(a, At("bury", job[a].todo, {}))
  /\ UNCHANGED <<tags, meant, ever>> /\ Puts

\* write_tombstone
Bury(a) ==
  /\ Here(a, "bury")
  /\ vault' = [vault EXCEPT !.tomb[Head(job[a].todo)] = plan[a].target]
  /\ Goes(a, IF Rest(a) = <<>> THEN At("list", <<>>, {}) ELSE At("delete", Rest(a), {}))
  /\ UNCHANGED <<tags, meant, ever>> /\ Puts

\* The notes a loop has left; without any the effect is over.
ToRetag(rest) == IF rest = <<>> THEN At("record", <<>>, {}) ELSE At("retag", rest, {})

ListGarden(a) ==
  /\ Here(a, "list")
  /\ Goes(a, ToRetag(SetToSeq(Notes)))
  /\ Reads

\* read_garden_tags; a merge leaves a note alone that has none of its sources.
ReadTags(a) ==
  /\ Here(a, "retag")
  /\ LET ts == tags[Head(job[a].todo)] IN
     Goes(a, IF plan[a].kind = "merge" /\ ts \cap Sources(a) = {} THEN ToRetag(Rest(a))
             ELSE At("set", job[a].todo, Retagged(a, ts)))
  /\ Reads

\* A tag that is removed takes with it what it stands for.
StandsForSome(ts, c) == \E t \in ts : t = c \/ Resolve(vault, t) \cap Resolve(vault, c) # {}

SetTags(a) ==
  /\ Here(a, "set")
  /\ LET n == Head(job[a].todo) IN
     /\ tags' = [tags EXCEPT ![n] = job[a].got]
     /\ meant' = IF plan[a].kind = "merge" THEN meant
                 ELSE [meant EXCEPT ![n] = {c \in @ : ~StandsForSome(plan[a].remove, c)}
                                           \cup ToSet(plan[a].add)]
  /\ Goes(a, ToRetag(Rest(a)))
  /\ UNCHANGED <<vault, ever>> /\ Puts

\* create-decision: the new decision, then the ones it supersedes.
ToSupersede(rest) == IF rest = <<>> THEN At("record", <<>>, {}) ELSE At("supersede", rest, {})

Decide(a) ==
  /\ Here(a, "decide")
  /\ vault' = [vault EXCEPT !.decided[plan[a].decision] = "active"]
  /\ Goes(a, ToSupersede(job[a].todo))
  /\ UNCHANGED <<tags, meant, ever>> /\ Puts

Supersede(a) ==
  /\ Here(a, "supersede")
  /\ vault' = [vault EXCEPT !.decided[Head(job[a].todo)] = "superseded"]
  /\ Goes(a, ToSupersede(Rest(a)))
  /\ UNCHANGED <<tags, meant, ever>> /\ Puts

\* The paths that are left to reload; without any the apply returns.
ToReload(paths) ==
  IF paths = {} THEN Idle ELSE [at |-> "reload", todo |-> <<>>, got |-> {}, reload |-> paths]

\* The status is written when everything else was.
Record(a) ==
  /\ Here(a, "record")
  /\ status' = [status EXCEPT ![a] = "applied"]
  /\ Goes(a, ToReload(Affected(a)))
  /\ UNCHANGED <<plan, notes, index, history, failures>>

\* The paths are reloaded in their order: active notes before tombstones.
FirstPaths(paths) ==
  {x \in paths : x[1] = "merged" => \A y \in paths : y[1] = "merged"}

Pop(a) ==
  /\ Here(a, "reload")
  /\ \E x \in FirstPaths(job[a].reload) :
       /\ index' = Popped(index, x)
       /\ job' = [job EXCEPT ![a].at = "load", ![a].todo = <<x>>]
  /\ UNCHANGED <<plan, notes, status, history, failures>>

Load(a) ==
  /\ Here(a, "load")
  /\ LET x == Head(job[a].todo) IN
     /\ index' = Loaded(index, x)
     /\ Goes(a, ToReload(job[a].reload \ {x}))
  /\ UNCHANGED <<plan, notes, status, history, failures>>

\* _apply_locked, when its effect raised.
Fail(a) ==
  /\ Here(a, "fail")
  /\ status' = [status EXCEPT ![a] = "failed"]
  /\ Goes(a, Idle)
  /\ cut' = TRUE
  /\ UNCHANGED <<plan, notes, index, history, torn, faults>>

-----------------------------------------------------------------------------
\* Faults.

\* A write in place that is cut short leaves an empty note: no aliases, no tags.
Torn(a) ==
  \/ UNCHANGED <<notes, torn>>
  \/ /\ Here(a, "write") /\ torn' = TRUE /\ UNCHANGED tags
     /\ vault' = [vault EXCEPT !.active = @ \cup {plan[a].target}, !.aliases[plan[a].target] = {}]
  \/ /\ Here(a, "set") /\ torn' = TRUE /\ UNCHANGED vault
     /\ tags' = [tags EXCEPT ![Head(job[a].todo)] = {}]

Fault == faults < MaxFaults /\ faults' = faults + 1

\* A storage call raises: an effect fails, elsewhere the exception is the caller's.
StorageFails(a) ==
  /\ a \in Running /\ Fault /\ cut' = TRUE
  /\ Goes(a, IF job[a].at \in Effects THEN At("fail", <<>>, {}) ELSE Idle)
  /\ Torn(a)
  /\ UNCHANGED <<plan, index, status, history>>

\* The process dies and starts again: rebuild_from_vault.
Crash ==
  /\ Running # {} /\ Fault /\ cut' = FALSE
  /\ \E a \in Running : Torn(a)
  /\ index' = vault'
  /\ job' = [a \in Actions |-> Idle]
  /\ UNCHANGED <<plan, status, history>>

Step(a) ==
  \/ Check(a) \/ Block(a) \/ ReadConcept(a) \/ WriteConcept(a) \/ DeleteSource(a) \/ Bury(a)
  \/ ListGarden(a) \/ ReadTags(a) \/ SetTags(a) \/ Decide(a) \/ Supersede(a) \/ Record(a)
  \/ Pop(a) \/ Load(a) \/ Fail(a)

-----------------------------------------------------------------------------
\* Properties.

Quiet == Running = {}

\* No apply ran into another one, and no note was left empty.
Calm == overlapped = {} /\ ~torn

\* The applies that ran into each other were merges, none into a source of another one, and
\* nothing failed; the resolver can walk along all tombstones; no name is an id.
MergesAside ==
  /\ faults = 0 /\ Names \cap Concepts = {}
  /\ \A a \in overlapped : plan[a].kind = "merge"
  /\ \A a, b \in overlapped : plan[a].target \notin Sources(b)
  /\ Cardinality({c \in Concepts : vault.tomb[c] # None}) <= RedirectLimit

\* No two of them merged the same concept.
OneEach == \A a, b \in overlapped : a # b => Sources(a) \cap Sources(b) = {}

\* A create-concept brings back a concept that a merge removes: its id is another concept's.
Renewed ==
  \E a, b \in Actions : plan[a].kind = "create" /\ plan[b].kind = "merge" /\ plan[a].target \in Sources(b)

\* A concept a note is meant to have is what one of its tags stands for.
Says(n, c) == \E t \in tags[n] : Resolve(vault, t) \cap Resolve(vault, c) # {}

\* No concept is forgotten: an id that was ever active, and any other alias, leads to an
\* active concept of the vault at every step of a merge and after a crash in the middle of
\* it; and a note keeps its meaning, however far the merges have come.
CalmKeepsMeaning ==
  Calm => /\ \A n \in ever : Resolve(vault, n) # {}
          /\ ~Renewed => \A n \in Notes : \A c \in meant[n] : Says(n, c)

\* Merges that overlap side by side may lose aliases but, once they have ended, no id; and no
\* note's meaning, unless two of them merged one concept: then an alias that one of them
\* wrote, and another one's tags, may lead to different concepts.
SideBySideKeepsMeaning ==
  Quiet /\ MergesAside =>
    /\ \A n \in ever \cap Concepts : Resolve(vault, n) # {}
    /\ OneEach /\ ~Renewed => \A n \in Notes : \A c \in meant[n] : Says(n, c)

\* What the vault means is kept: its concepts can be found, and its notes still say them.
MeaningKept == CalmKeepsMeaning /\ SideBySideKeepsMeaning

\* The index is the vault whenever no apply is under way, if none ran into another one and
\* none was cut short: a failed apply does not reload the concepts it changed.
IndexAgrees == Quiet /\ overlapped = {} /\ ~cut => index = vault

\* The status comes last: an action is applied only when all of its effect is in the vault,
\* where it stays.
AppliedIsDone ==
  overlapped = {} /\ ~torn /\ ~Renewed =>
    \A a \in Actions : status[a] = "applied" /\ plan[a].kind = "merge" =>
      \A c \in Sources(a) : /\ c \notin vault.active /\ vault.tomb[c] # None
                            /\ \A n \in Notes : c \notin tags[n]

\* A merge that ends its check when a cannot-link decision has been applied, and is in
\* force, never changes a note; unless applies of decisions ran into each other (a reload
\* drops the other's decision for a moment), one was cut short, or one writes the same
\* decision anew.
Settled ==
  {d \in Decisions :
     /\ \E a \in Actions : plan[a].kind = "decide" /\ plan[a].decision = d /\ status[a] = "applied"
     /\ \A a \in Actions : plan[a].kind = "decide" /\ plan[a].decision = d => job[a].at = "idle"}
OneDecides ==
  \A a, b \in overlapped : plan[a].kind = "decide" /\ plan[b].kind = "decide" => a = b
ForbiddenMergesStop ==
  [][\A a \in Actions : Here(a, "check") /\ job'[a].at = "read" /\ ~cut /\ OneDecides =>
       ~\E d \in Settled \cap InForce(vault) :
          \E c \in Sources(a) : Subjects[d] = {plan[a].target, c}]_vars
=============================================================================
