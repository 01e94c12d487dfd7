------------------------------ MODULE Compile -------------------------------
(***************************************************************************)
(* What an ingestion makes of its seeds, bsage/garden/ingest_compiler.py:  *)
(* chunks within the budget of the model, a plan per chunk from whatever   *)
(* the model answers, the actions of the plan cleaned, their tags resolved *)
(* one await at a time, and a report, while other ingestions run and       *)
(* concepts are merged.  What a write does to the vault is Garden's.       *)
(***************************************************************************)
EXTENDS Integers, Sequences, FiniteSets, SequencesExt, Lists

CONSTANTS Compiles,     \* the ingestions that may run
          Orders,       \* bound: what is going to happen, the records of Order1
          Words,        \* tags
          KindWords,    \* those no note may have: kinds, or ill-formed
          Unknown, Barred,
          DefaultBudget, LocalCap, \* 5000 and 8000 characters
          Reserve, Marker,         \* what a cut item leaves free, 80, and what is put there
          MaxUpdates, MaxTags

\* The sizes of the items, and of the model: whether it is a local one, whether its server is
\* known, how many characters that server says it takes, and how many the registry does, 0 if
\* it does not say; wired: whether there is a service that resolves tags.
Import == [items: Seq(Nat), local: BOOLEAN, served: BOOLEAN, says: Nat, listed: Nat, wired: BOOLEAN]
\* An entry of a plan: complete is a dict with all the fields, odd one whose fields are of
\* types that nobody expects; mentions are the names its body links to.
Entry == [do: {"create", "update", "append", "other"}, target: BOOLEAN, complete: BOOLEAN,
          odd: BOOLEAN, tags: Seq(Words), entities: Seq(STRING), mentions: SUBSET STRING]
Text == [shape: {"array", "prose", "torn"}, plan: Seq(Entry)]
\* What each ingestion is given, none if it has no items; what the model may answer; what the
\* words mean to begin with; how many merges there may be.
Order1 == [imports: [Compiles -> Import], answers: SUBSET Text,
           means: [Words -> Words \cup {Unknown, Barred}], merges: Nat]

\* What a word means is a concept that means itself, and nothing else does.
ASSUME CompileAssumption ==
  /\ Unknown \notin Words /\ Barred \notin Words /\ Unknown # Barred
  /\ {DefaultBudget, LocalCap, Reserve, Marker, MaxUpdates, MaxTags} \subseteq Nat
  /\ KindWords \subseteq Words
  /\ Marker <= Reserve /\ Reserve < DefaultBudget /\ DefaultBudget <= LocalCap
  /\ Orders \subseteq Order1
  /\ \A o \in Orders, w \in Words : o.means[w] \in Words => o.means[o.means[w]] = o.means[w]

VARIABLES
  means,      \* the concept a word resolves to, itself if it is an active one
  batch,      \* per ingestion, where it is
  wrote,      \* the notes it wrote, in order
  tried,      \* history: per ingestion, the chunks the model was shown
  order       \* what is still going to happen

compileVars == <<means, batch, wrote, tried, order>>

-----------------------------------------------------------------------------
\* Chunks.

\* _probe_max_input_tokens: only the server of a local model is asked, and it may not answer.
Probed(import) == IF import.local /\ import.served THEN import.says ELSE import.listed

\* derive_batch_char_budget
Budget(import) ==
  LET takes == IF Probed(import) > DefaultBudget THEN Probed(import) ELSE DefaultBudget
  IN IF Probed(import) = 0 THEN DefaultBudget
     ELSE IF import.local /\ takes > LocalCap THEN LocalCap ELSE takes

\* _truncate_item
Truncated(size, budget) == IF size <= budget THEN size ELSE budget - Reserve + Marker

\* _chunk_batch: an item that does not fit opens the next chunk.
Packed(chunks, size, budget) ==
  IF chunks = <<>> THEN <<<<size>>>>
  ELSE IF Total(Last(chunks)) + size > budget THEN Append(chunks, <<size>>)
  ELSE Append(Front(chunks), Append(Last(chunks), size))
Chunked(items, budget) ==
  LET f[i \in 0..Len(items)] ==
        IF i = 0 THEN <<>> ELSE Packed(f[i - 1], Truncated(items[i], budget), budget)
  IN f[Len(items)]

-----------------------------------------------------------------------------
\* Plans.

\* _parse_plan: an array, in whatever text around it, or nothing.
Parsed(text) == IF text.shape = "array" THEN text.plan ELSE <<>>

\* _validate_action
Valid1(e) == e.complete /\ e.do # "other" /\ (e.do = "create" \/ e.target)

\* Every element where it comes first.
FirstOf(s) ==
  LET at == Filter([i \in DOMAIN s |-> i], {i \in DOMAIN s : \A j \in 1..(i - 1) : s[j] # s[i]})
  IN [i \in DOMAIN at |-> s[at[i]]]

\* _clean_tags
CleanTags(tags) ==
  LET fit == FirstOf(Filter(tags, Words \ KindWords))
  IN SubSeq(fit, 1, IF Len(fit) < MaxTags THEN Len(fit) ELSE MaxTags)

\* _clean_entities: those the body links to.
CleanEntities(entities, mentions) == FirstOf(Filter(entities, mentions))

-----------------------------------------------------------------------------
\* An ingestion.  plan: the entries left; raw: the tags of the first that are left to resolve;
\* kept: those that are resolved; crossed: a merge came since the first of them was;
\* lost: words it was refused; mine: what it wrote for this chunk; told: what it reports;
\* failed: the chunks that did.
Unbegun == [at |-> "idle", import |-> Unknown, budget |-> 0, left |-> <<>>, chunk |-> 0,
            plan |-> <<>>, raw |-> <<>>, kept |-> <<>>, crossed |-> FALSE, lost |-> {},
            mine |-> <<>>, told |-> <<>>, failed |-> {}]

CompileInit ==
  /\ order \in Orders /\ means = order.means /\ batch = [k \in Compiles |-> Unbegun]
  /\ wrote = <<>> /\ tried = [k \in Compiles |-> <<>>]

In(k, at) == batch[k].at = at
Batch(k, b) == batch' = [batch EXCEPT ![k] = b]
Entry1(k) == Head(batch[k].plan)

\* compile_batch
CompileBatch(k) ==
  /\ In(k, "idle") /\ order.imports[k].items # <<>>
  /\ LET import == order.imports[k] IN
     Batch(k, [Unbegun EXCEPT !.at = "related", !.import = import, !.budget = Budget(import),
                              !.left = Chunked(import.items, Budget(import)), !.chunk = 1])
  /\ UNCHANGED <<means, wrote, tried, order>>

\* A chunk that raises, wherever it is, reports nothing of what it wrote, and the next begins.
NextChunk(b) == [b EXCEPT !.at = IF Len(b.left) = 1 THEN "done" ELSE "related", !.left = Tail(@),
                          !.chunk = @ + 1, !.plan = <<>>, !.raw = <<>>, !.kept = <<>>,
                          !.crossed = FALSE, !.lost = {}, !.mine = <<>>]
Fails1(k) == Batch(k, NextChunk([batch[k] EXCEPT !.failed = @ \cup {batch[k].chunk}]))

\* _find_related
FindRelated(k) ==
  /\ In(k, "related")
  /\ \/ Batch(k, [batch[k] EXCEPT !.at = "plan"])
     \/ Fails1(k)
  /\ UNCHANGED <<means, wrote, tried, order>>

\* _plan_batch_updates: the model is asked, and raises or times out.
PlanFails(k) ==
  /\ In(k, "plan") /\ Fails1(k)
  /\ tried' = [tried EXCEPT ![k] = Append(@, Head(batch[k].left))]
  /\ UNCHANGED <<means, wrote, order>>

PlanBatchUpdates(k, text) ==
  /\ In(k, "plan")
  /\ LET plan == Parsed(text) IN
     Batch(k, [batch[k] EXCEPT !.at = "entry",
                               !.plan = SubSeq(plan, 1, IF Len(plan) < MaxUpdates THEN Len(plan) ELSE MaxUpdates)])
  /\ tried' = [tried EXCEPT ![k] = Append(@, Head(batch[k].left))]
  /\ UNCHANGED <<means, wrote, order>>

\* _execute_plan: its end, or an entry that is left out or whose tags are cleaned.
EndPlan(k) ==
  /\ In(k, "entry") /\ batch[k].plan = <<>>
  /\ Batch(k, NextChunk([batch[k] EXCEPT !.told = @ \o batch[k].mine]))
  /\ UNCHANGED <<means, wrote, tried, order>>

TakeEntry(k) ==
  /\ In(k, "entry") /\ batch[k].plan # <<>>
  /\ LET tags == CleanTags(Entry1(k).tags) IN
     Batch(k, IF ~Valid1(Entry1(k)) THEN [batch[k] EXCEPT !.plan = Tail(@)]
              ELSE IF batch[k].import.wired
              THEN [batch[k] EXCEPT !.at = "resolve", !.raw = tags, !.kept = <<>>,
                                    !.crossed = FALSE, !.lost = {}]
              ELSE [batch[k] EXCEPT !.at = "write", !.kept = tags])
  /\ UNCHANGED <<means, wrote, tried, order>>

KeepsMutant(k, c) == Append(batch[k].kept, c)

\* _canonicalize_tags: a concept two tags mean is kept once.
Keeps(k, c) == IF Contains(batch[k].kept, c) THEN batch[k].kept ELSE Append(batch[k].kept, c)

\* The service resolves a word, or makes it a concept; it refuses one that is ambiguous,
\* blocked or pending, and whatever goes wrong loses the tag and nothing else.
ResolveTag(k) ==
  /\ In(k, "resolve") /\ batch[k].raw # <<>>
  /\ LET w == Head(batch[k].raw)
         new == means[w] = Unknown
         concept == IF new THEN w ELSE means[w]
     IN \/ /\ means[w] # Barred
           /\ means' = [means EXCEPT ![w] = concept]
           /\ Batch(k, [batch[k] EXCEPT !.raw = Tail(@), !.kept = Keeps(k, concept)])
        \/ /\ Batch(k, [batch[k] EXCEPT !.raw = Tail(@), !.lost = @ \cup {w}])
           /\ UNCHANGED means
  /\ UNCHANGED <<wrote, tried, order>>

Resolved1(k) ==
  /\ In(k, "resolve") /\ batch[k].raw = <<>>
  /\ Batch(k, [batch[k] EXCEPT !.at = "write"])
  /\ UNCHANGED <<means, wrote, tried, order>>

\* The writer writes or refuses the entry; the stubs of its entities come behind the note,
\* and may raise what nobody expects, as the writer does of an odd entry.
WriteEntry(k) ==
  /\ In(k, "write")
  /\ LET e == Entry1(k)
         note == [by |-> k, chunk |-> batch[k].chunk, do |-> e.do, tags |-> batch[k].kept,
                  asked |-> ToSet(CleanTags(e.tags)) \ batch[k].lost, crossed |-> batch[k].crossed,
                  stubs |-> CleanEntities(e.entities, e.mentions), wired |-> batch[k].import.wired]
         next == [batch[k] EXCEPT !.at = "entry", !.plan = Tail(@)]
     IN \/ /\ ~e.odd /\ wrote' = Append(wrote, note)
           /\ \/ Batch(k, [next EXCEPT !.mine = Append(@, e.do)])
              \/ Fails1(k)
        \/ /\ ~e.odd /\ Batch(k, next) /\ UNCHANGED wrote
        \/ /\ e.odd /\ Fails1(k) /\ UNCHANGED wrote
  /\ UNCHANGED <<means, tried, order>>

\* merge-concepts of c into d, which rewrites the tags of the notes there are.
MergeConcepts(c, d) ==
  /\ order.merges > 0 /\ order' = [order EXCEPT !.merges = @ - 1]
  /\ c # d /\ means[c] = c /\ means[d] = d
  /\ means' = [w \in Words |-> IF means[w] = c THEN d ELSE means[w]]
  /\ wrote' = [i \in DOMAIN wrote |-> [wrote[i] EXCEPT
                 !.tags = FirstOf([j \in DOMAIN @ |-> IF @[j] = c THEN d ELSE @[j]])]]
  /\ batch' = [k \in Compiles |-> [batch[k] EXCEPT !.crossed = @ \/ batch[k].kept # <<>>]]
  /\ UNCHANGED tried

CompileNext ==
  \/ \E k \in Compiles :
       \/ CompileBatch(k)
       \/ FindRelated(k) \/ PlanFails(k) \/ \E text \in order.answers : PlanBatchUpdates(k, text)
       \/ EndPlan(k) \/ TakeEntry(k) \/ ResolveTag(k) \/ Resolved1(k) \/ WriteEntry(k)
  \/ \E c, d \in Words : MergeConcepts(c, d)

-----------------------------------------------------------------------------
\* Properties.

\* The ways to cut what comes in these sizes, by where the pieces end, that keep each piece
\* within the budget.
Cuts(sizes, budget) ==
  {ends \in SUBSET (1..Len(sizes)) :
     /\ Len(sizes) \in ends
     /\ \A d \in {0} \cup ends, e \in ends :
          d < e /\ (\A f \in ends : f <= d \/ e <= f) => Sums(sizes)[e] - Sums(sizes)[d] <= budget}

\* What the model is shown is every item once and in order, but for chunks whose search
\* failed; no chunk is over the budget, and no other way to cut the items needs fewer.
ShownOnce ==
  \A k \in Compiles : ~In(k, "idle") =>
    LET budget == batch[k].budget
        items == [i \in DOMAIN batch[k].import.items |-> Truncated(batch[k].import.items[i], budget)]
        chunks == Chunked(batch[k].import.items, budget)
    IN /\ FlattenSeq(chunks) = items
       /\ \A i \in DOMAIN chunks : Total(chunks[i]) <= budget
       /\ \A ends \in Cuts(items, budget) : Len(chunks) <= Cardinality(ends)
       /\ \E p \in [DOMAIN tried[k] -> DOMAIN chunks] :
            /\ \A i, j \in DOMAIN p : i < j => p[i] < p[j]
            /\ tried[k] = [i \in DOMAIN p |-> chunks[p[i]]]
            /\ \A c \in 1..(batch[k].chunk - 1) : c \in batch[k].failed \/ \E i \in DOMAIN p : p[i] = c

\* Who wrote each note, for which chunk, and how; and what of it an ingestion wrote for
\* chunks of a set.
Log(ns) == [i \in DOMAIN ns |-> <<ns[i].by, ns[i].chunk, ns[i].do>>]
Written(log, k, chunks) == Filter(log, {k} \X chunks \X {"create", "update", "append"})
Verbs(log) == [i \in DOMAIN log |-> log[i][3]]

\* What an ingestion reports it wrote, and in that order; what it wrote and does not report
\* belongs to a chunk that failed; a chunk writes no more notes than it may, and makes a stub
\* of each name once.
ReportsTrue ==
  /\ \A k \in Compiles : In(k, "done") =>
       /\ batch[k].told = Verbs(Written(Log(wrote), k, (1..batch[k].chunk) \ batch[k].failed))
       /\ \A c \in 1..batch[k].chunk : Len(Written(Log(wrote), k, {c})) <= MaxUpdates
  /\ \A i \in DOMAIN wrote : IsInjective(wrote[i].stubs)

\* The tags of a note mean active concepts, and each another one, unless a merge came while
\* they were being resolved; and whatever the service did not refuse is still meant by one.
TagsMean ==
  \A i \in DOMAIN wrote : wrote[i].wired =>
    LET tags == wrote[i].tags IN
    /\ \A j \in DOMAIN tags : means[tags[j]] \in Words /\ means[means[tags[j]]] = means[tags[j]]
    /\ ~wrote[i].crossed => IsInjective(tags) /\ \A j \in DOMAIN tags : means[tags[j]] = tags[j]
    /\ \A w \in wrote[i].asked : \E j \in DOMAIN tags : means[tags[j]] = means[w]
    /\ Len(tags) <= MaxTags

CompileSound == ShownOnce /\ ReportsTrue /\ TagsMean
=============================================================================
