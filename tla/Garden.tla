------------------------------- MODULE Garden -------------------------------
(***************************************************************************)
(* The vault's notes and what is derived from them: the writer,            *)
(* bsage/garden/writer_core.py; the ingest compiler, ingest_compiler.py;   *)
(* the subscribers that an event of the writer runs in the writer's own    *)
(* coroutine, index_subscriber.py, vector_subscriber.py and                *)
(* graph_subscriber.py; the note index, file_index_reader.py, which lives  *)
(* in memory; the vector store; the nightly maintenance, maintenance.py;   *)
(* and the start, which reads everything again while requests come in.     *)
(*                                                                         *)
(* An activity is a request, an ingestion, a maintenance job or one of the *)
(* two background tasks of the start; between two of its steps, which are  *)
(* its awaits, any other may run.                                          *)
(***************************************************************************)
EXTENDS Graph

CONSTANTS Tasks,      \* requests and ingestions
          Dirs,       \* seeds, the folders of the maturity, entities
          Titles, Texts,
          MaxDup,     \* bound: numbers that deduplicate a name
          Links,      \* per text, the titles it links to
          Relates,       \* per text, the names that the frontmatter of a note created from it relates it to
          FirstNotes, \* what the vault holds at first
          Workloads   \* bound: what is going to happen, see Loads

Maturities == {"seedling", "budding", "evergreen"}
Notes == [status: Statuses, maturity: Statuses, states: SUBSET Names, auto: BOOLEAN,
          mentions: SUBSET Paths, body: SUBSET Texts, shown: SUBSET Paths, tail: SUBSET Texts]
Ops == [do: {"create", "update", "replace", "append", "delete"}, path: Paths, text: Texts, stubs: BOOLEAN]
Jobs == {"care", "edges", "reindex", "rebuild"}
Acts == Tasks \cup Jobs
\* What each task is asked for: a request one operation, an ingestion the actions of its plan,
\* with the stubs they imply; how many runs of the maintenance, months, crashes, and failures
\* of the embedder or of a write to the graph there may be.
Loads == [asks: [Tasks -> Seq(Ops)], care: Nat, edges: Nat, ages: Nat, crashes: Nat, faults: Nat]

ASSUME DirsAssumption == {"seeds", "entities", "seed"} \cup Maturities \subseteq Dirs
ASSUME PathsAssumption == MaxDup \in Nat /\ Paths = Dirs \X Titles \X (0..MaxDup)
ASSUME NamesAssumption == \A p \in Paths : OwnName[p] = <<p[2], p[3]>>
ASSUME ContentsAssumption == Contents = Notes
ASSUME LinksAssumption == Links \in [Texts -> SUBSET Titles] /\ Relates \in [Texts -> SUBSET Names]
ASSUME TasksAssumption == Tasks \cap Jobs = {}
\* A new note goes to the seeds or into the folder of its maturity; a text stands for one
\* thing that somebody wrote.
ASSUME WorkloadsAssumption ==
  /\ Workloads \subseteq Loads
  /\ \A w \in Workloads : \A a \in Tasks : \A i \in DOMAIN w.asks[a] :
       /\ w.asks[a][i].do = "create" => w.asks[a][i].path[1] \in {"seeds"} \cup Maturities
       /\ \A b \in Tasks : \A j \in DOMAIN w.asks[b] : w.asks[a][i].text = w.asks[b][j].text => a = b /\ i = j

VARIABLES
  files,                          \* the vault: path -> note
  index, loaded,                  \* _entries, _loaded of FileIndexReader
  vectors,                        \* rows of the vector store
  act,                            \* what each activity is doing
  load,                           \* what is still to happen
  written, gone, cut, crossed,    \* history of texts: accepted; deleted or replaced; cut off
                                  \* a stub; in a note a promotion was rewriting
  astray,                         \* history: notes whose promotion was crossed or interrupted
  indexOff, vectorsOff, graphOff  \* history: paths changed without an event that is understood,
                                  \* or while their last change was being processed

stores == <<index, loaded, vectors>>
history == <<written, gone, cut, crossed, astray>>
off == <<indexOff, vectorsOff, graphOff>>
vars == <<files, stores, graphVars, act, load, history, off>>

\* seen is the note it has read, names and found what it has learnt from the graph, todo
\* the paths it still has to visit, goal, was and to are of a promotion; again is set in
\* the second pass of a background task.
Idle == [pc |-> "idle", ops |-> <<>>, path |-> {}, seen |-> {}, names |-> {}, found |-> {},
         todo |-> {}, goal |-> "none", was |-> "none", to |-> {}, again |-> FALSE]

Doing(a, pcs) == act[a].pc \in pcs
At(a) == CHOOSE p \in act[a].path : TRUE
Seen(a) == CHOOSE c \in act[a].seen : TRUE
Op(a) == Head(act[a].ops)
Becomes(a, r) == act' = [act EXCEPT ![a] = r]
Goes(a, pc) == Becomes(a, [act[a] EXCEPT !.pc = pc])
Reads(a, pc) == Becomes(a, [act[a] EXCEPT !.pc = pc, !.seen = {files[At(a)]}])

-----------------------------------------------------------------------------
\* Notes.

Dir(p) == p[1]
Blank == [status |-> "none", maturity |-> "none", states |-> {}, auto |-> FALSE,
          mentions |-> {}, body |-> {}, shown |-> {}, tail |-> {}]
TextsOf(c) == c.body \cup c.tail
\* A note with a status lies in the folder that its frontmatter names.
Folders == Maturities \cup {"seed"}
InItsFolder(p, c) == Dir(p) \in Folders /\ c.status # "none" => c.maturity = Dir(p)

\* The vault at first, as the writer leaves it.
ASSUME FirstNotesAssumption ==
  \A f \in FirstNotes :
    /\ DOMAIN f \subseteq Paths /\ f \in [DOMAIN f -> Notes]
    /\ \A p \in DOMAIN f :
         /\ InItsFolder(p, f[p])
         /\ \A q \in DOMAIN f : TextsOf(f[p]) \cap TextsOf(f[q]) # {} => p = q
         /\ \A w \in Workloads : \A a \in Tasks : \A i \in DOMAIN w.asks[a] : w.asks[a][i].text \notin TextsOf(f[p])

\* The maturity field, or what _maturity_from_status makes of the status.
Matured(c) == IF c.maturity # "none" THEN c.maturity
              ELSE IF c.status \in {"none", "seed"} THEN "seedling" ELSE c.status

\* _resolve_folder puts a new note into the folder of its maturity.
NewNote(p, x) == [Blank EXCEPT !.status = IF Dir(p) = "seeds" THEN "none" ELSE "seed",
                               !.maturity = IF Dir(p) = "seeds" THEN "none" ELSE Dir(p),
                               !.states = Relates[x], !.body = {x}]

\* update_note: the frontmatter that was read, a new body.
Rewritten(c, x) == [c EXCEPT !.body = {x}, !.shown = {}, !.tail = {}]

\* append_to_note: at the end, which is behind the list of mentions if there is one.
Appended(c, x) == IF c.shown = {} THEN [c EXCEPT !.body = @ \cup {x}] ELSE [c EXCEPT !.tail = @ \cup {x}]

\* _create_entity_stub, _update_entity_stub_mentions: the list is rewritten to the end of
\* an automatic stub, or added to a body that has none.
NewStub(p) == [Blank EXCEPT !.maturity = "seedling", !.auto = TRUE, !.mentions = {p}, !.shown = {p}]
Mentioned(c, p) ==
  IF p \in c.mentions THEN c
  ELSE IF ~c.auto THEN [c EXCEPT !.mentions = @ \cup {p}]
  ELSE [c EXCEPT !.mentions = @ \cup {p}, !.shown = c.mentions \cup {p},
                 !.tail = IF c.shown = {} THEN @ ELSE {}]

LinksOf(c) == {<<t, 0>> : t \in UNION {Links[x] : x \in TextsOf(c)}} \cup {OwnName[q] : q \in c.shown}
StatedBy(p, c) == Stated(p, c.states, LinksOf(c))
EdgesBy(p, c) == StatedEdges(p, c.states, LinksOf(c))
Rebuilt(g, p, c) == RebuildOne(g, p, c, c.states, LinksOf(c))

\* The name, or the first free number after it.
Numbered(p, k) == <<p[1], p[2], k>>
FreeMutant(p) == {p}
Free(p) == IF p \notin DOMAIN files THEN {p}
           ELSE {Numbered(p, k) : k \in {i \in 1..MaxDup :
                   /\ Numbered(p, i) \notin DOMAIN files
                   /\ \A j \in 1..(i - 1) : Numbered(p, j) \in DOMAIN files}}

\* _garden_lock and _seed_lock.
Naming(a, seed) == Doing(a, {"naming"}) /\ (Dir(At(a)) = "seeds") = seed
GardenLockFreeMutant == ~\E a \in Acts : Naming(a, FALSE)
GardenLockFree == ~\E a \in Acts : Naming(a, FALSE) \/ Doing(a, {"fieldWrite"})
SeedLockFree == ~\E a \in Acts : Naming(a, TRUE)

\* Who is processing an earlier change of p: has read the note and not stored what follows
\* from it, or has deleted it and not told.
Others(a, p, pcs) == {b \in Acts \ {a} : Doing(b, pcs) /\ p \in act[b].path}
IndexPcs == {"indexing", "scanning", "unlisting"}
VectorPcs == {"embedding", "unlisting", "unembedding"}
GraphPcs == {"extracting", "stating", "relating", "committing", "rebuilding"}
Untold == {"unlisting", "unembedding", "removing"}

\* The history of a change to p by a: with an event that is understood, or without.
Marked(ps, p, others) == IF others = {} THEN ps ELSE ps \cup {p}
Tells(a, p) == /\ indexOff' = Marked(indexOff, p, Others(a, p, IndexPcs))
               /\ vectorsOff' = Marked(vectorsOff, p, Others(a, p, VectorPcs))
               /\ graphOff' = Marked(graphOff, p, Others(a, p, GraphPcs \cup Untold))
Silently(ps) == /\ indexOff' = indexOff \cup ps
                /\ vectorsOff' = vectorsOff \cup ps
                /\ graphOff' = graphOff \cup ps

\* Who is going to write to p what it made of p before: a promotion between its read and
\* its write, or a promotion or a creation that found p free.
Aims(b) == IF Doing(b, {"statusWrite", "fieldWrite", "naming", "renaming"}) THEN act[b].path \cup act[b].to ELSE {}
Crossers(a, p) == {b \in Acts \ {a} : p \in Aims(b)}
\* A promotion is crossed by a change of the note it aims at, and by one that gives a
\* status to a note it has seen without.
Promoting == {"status", "statusWrite", "field", "fieldWrite", "renaming"}
Strays(p) ==
  \/ p \in Aims("care")
  \/ /\ Doing("care", Promoting) /\ p \in act["care"].path
     /\ p \in DOMAIN files' /\ files'[p].status # "none"
     /\ p \in DOMAIN files => files[p].status = "none"
Crosses(a, p, xs) ==
  /\ crossed' = IF Crossers(a, p) = {} THEN crossed ELSE crossed \cup xs
  /\ astray' = IF Strays(p) THEN astray \cup {p} \cup act["care"].to ELSE astray

\* What a rebuild leaves of a vault: a row has one of the notes that state it as its source.
FirstGraph(f) ==
  LET named == UNION {StatedBy(p, f[p]) : p \in DOMAIN f}
      es == UNION {EdgesBy(p, f[p]) : p \in DOMAIN f}
      rows == {CHOOSE e \in es : Alike(e, x) : x \in es}
  IN [ents |-> [n \in named |-> [src |-> CHOOSE p \in DOMAIN f : n \in StatedBy(p, f[p]), old |-> FALSE]],
      prov |-> UNION {StatedBy(p, f[p]) \X {p} : p \in DOMAIN f},
      edges |-> rows, hashes |-> f, bereft |-> {},
      lent |-> {p \in DOMAIN f : ~(EdgesBy(p, f[p]) \subseteq rows)}]

GardenInit ==
  /\ files \in FirstNotes
  /\ index = files /\ loaded = (DOMAIN files # {})
  /\ vectors = [k \in {<<p, "abs">> : p \in DOMAIN files} |-> files[k[1]]]
  /\ graph = FirstGraph(files)
  /\ saved = graph
  /\ load \in Workloads
  /\ act = [a \in Acts |-> IF a \in Tasks /\ load.asks[a] # <<>>
                           THEN [Idle EXCEPT !.pc = "waiting", !.ops = load.asks[a]] ELSE Idle]
  /\ written = UNION {TextsOf(files[p]) : p \in DOMAIN files}
  /\ gone = {} /\ cut = {} /\ crossed = {} /\ astray = {}
  /\ indexOff = {} /\ vectorsOff = {} /\ graphOff = {}

-----------------------------------------------------------------------------
\* The operations of the writer.

\* The next operation of the request or plan, if there is one.
NextOp(a) == IF Len(act[a].ops) = 1 THEN Idle
             ELSE [Idle EXCEPT !.pc = "ready", !.ops = Tail(act[a].ops)]
Turn(a, kinds) == Doing(a, {"waiting", "ready"}) /\ Op(a).do \in kinds

\* write_seed and write_garden choose a free name under their lock,
Choose(a) ==
  /\ Turn(a, {"create"})
  /\ IF Dir(Op(a).path) = "seeds" THEN SeedLockFree ELSE GardenLockFree
  /\ \E p \in Free(Op(a).path) : Becomes(a, [act[a] EXCEPT !.pc = "naming", !.path = {p}])
  /\ UNCHANGED <<files, stores, graphVars, load, history, off>>

\* and hold it until the note is written.
Create(a) ==
  /\ Doing(a, {"naming"})
  /\ files' = Put(files, At(a), NewNote(At(a), Op(a).text))
  /\ written' = written \cup {Op(a).text}
  /\ Goes(a, "listing")
  /\ Tells(a, At(a)) /\ Crosses(a, At(a), {Op(a).text})
  /\ UNCHANGED <<stores, graphVars, load, gone, cut>>

\* update_note, append_to_note and delete_note: the note must be there,
Find(a) ==
  /\ Turn(a, {"update", "replace", "append", "delete"})
  /\ LET p == Op(a).path
     IN Becomes(a, IF p \notin DOMAIN files THEN NextOp(a)
                   ELSE [act[a] EXCEPT !.pc = "applying", !.path = {p},
                           !.seen = {IF Op(a).do = "update" THEN files[p] ELSE Blank}])
  /\ UNCHANGED <<files, stores, graphVars, load, history, off>>

NotesAt(p) == IF p \in DOMAIN files THEN {files[p]} ELSE {}
TextsAt(p) == UNION {TextsOf(c) : c \in NotesAt(p)}

\* but it is written, or removed, in a thread, and may be gone by then.
Replace(a) ==
  /\ Doing(a, {"applying"}) /\ Op(a).do \in {"update", "replace"}
  /\ files' = Put(files, At(a), Rewritten(Seen(a), Op(a).text))
  /\ written' = written \cup {Op(a).text}
  /\ gone' = gone \cup TextsAt(At(a))
  /\ Goes(a, "listing")
  /\ Tells(a, At(a)) /\ Crosses(a, At(a), {Op(a).text} \cup TextsAt(At(a)))
  /\ UNCHANGED <<stores, graphVars, load, cut>>

AppendText(a) ==
  /\ Doing(a, {"applying"}) /\ Op(a).do = "append"
  /\ files' = Put(files, At(a), Appended(IF At(a) \in DOMAIN files THEN files[At(a)] ELSE Blank, Op(a).text))
  /\ written' = written \cup {Op(a).text}
  /\ Goes(a, "listing")
  /\ Tells(a, At(a)) /\ Crosses(a, At(a), {Op(a).text})
  /\ UNCHANGED <<stores, graphVars, load, gone, cut>>

Delete(a) ==
  /\ Doing(a, {"applying"}) /\ Op(a).do = "delete"
  /\ IF At(a) \in DOMAIN files
     THEN /\ files' = Drop(files, {At(a)})
          /\ gone' = gone \cup TextsAt(At(a))
          /\ Goes(a, "unlisting")
          /\ Tells(a, At(a)) /\ Crosses(a, At(a), TextsAt(At(a)))
          /\ UNCHANGED <<stores, graphVars, load, written, cut>>
     ELSE Becomes(a, NextOp(a)) /\ UNCHANGED <<files, stores, graphVars, load, history, off>>

-----------------------------------------------------------------------------
\* What the event of a write does, one subscriber after the other, in the writer's coroutine.

\* _resolve_categories: what a full load lists.
Scanned == {p \in DOMAIN files : Dir(p) # "seed"}

\* IndexSubscriber reads the note
ReadForIndex(a) ==
  /\ Doing(a, {"listing"})
  /\ IF At(a) \in DOMAIN files THEN Reads(a, "indexing") ELSE Goes(a, "toEmbed")
  /\ UNCHANGED <<files, stores, graphVars, load, history, off>>

\* and stores its summary; the first to write an index file loads the vault first.
IndexNote(a) ==
  /\ Doing(a, {"indexing"})
  /\ index' = Put(index, At(a), Seen(a))
  /\ IF loaded THEN Goes(a, "toEmbed")
     ELSE Becomes(a, [act[a] EXCEPT !.pc = "scan", !.todo = Scanned, !.to = {At(a)}])
  /\ UNCHANGED <<files, loaded, vectors, graphVars, load, history, off>>

\* VectorSubscriber reads it again
ReadForVector(a) ==
  /\ Doing(a, {"toEmbed"})
  /\ IF At(a) \in DOMAIN files THEN Reads(a, "embedding") ELSE Goes(a, "toGraph")
  /\ UNCHANGED <<files, stores, graphVars, load, history, off>>

\* and stores its embedding, unless the embedder fails.
StoreVector(a) ==
  /\ Doing(a, {"embedding"})
  /\ vectors' = Put(vectors, <<At(a), "abs">>, Seen(a))
  /\ Goes(a, "toGraph")
  /\ UNCHANGED <<files, index, loaded, graphVars, load, history, off>>

EmbedFails(a) ==
  /\ Doing(a, {"embedding"}) /\ load.faults > 0
  /\ load' = [load EXCEPT !.faults = @ - 1]
  /\ vectorsOff' = vectorsOff \cup {At(a)}
  /\ Goes(a, "toGraph")
  /\ UNCHANGED <<files, stores, graphVars, history, indexOff, graphOff>>

\* What follows the subscribers: the stubs of an ingested note, the next operation.
Finished(a) ==
  LET stubs == IF Op(a).stubs THEN {<<"entities", t, 0>> : t \in Links[Op(a).text]} ELSE {}
  IN IF stubs = {} THEN NextOp(a) ELSE [act[a] EXCEPT !.pc = "stubbing", !.todo = stubs]

\* Names whose rows are gone: an identifier that was resolved before is of no use.
Forgets(g) == [b \in Acts |-> [act[b] EXCEPT !.names = IF Doing(b, GraphPcs) THEN @ \cap DOMAIN g.ents ELSE @]]

\* GraphSubscriber reads it once more, and deletes what the note stated before;
ReadForGraph(a) ==
  /\ Doing(a, {"toGraph"})
  /\ IF At(a) \in DOMAIN files THEN Reads(a, "extracting") ELSE Becomes(a, Finished(a))
  /\ UNCHANGED <<files, stores, graphVars, load, history, off>>

Unstate(a) ==
  /\ Doing(a, {"extracting"})
  /\ Commits(DeleteSource(graph, At(a)))
  /\ act' = [Forgets(DeleteSource(graph, At(a))) EXCEPT ![a].pc = "stating"]
  /\ UNCHANGED <<files, stores, load, history, off>>

\* its entities are written without a commit, their identifiers remembered;
State(a) ==
  /\ Doing(a, {"stating"})
  /\ Writes(UpsertEntities(graph, At(a), StatedBy(At(a), Seen(a))))
  /\ Becomes(a, [act[a] EXCEPT !.pc = "relating", !.names = StatedBy(At(a), Seen(a))])
  /\ UNCHANGED <<files, stores, load, history, off>>

\* then its relationships; one whose entity has been deleted violates a foreign key,
\* which the subscriber does not catch and the event bus logs.
Relate(a) ==
  /\ Doing(a, {"relating"})
  /\ LET es == EdgesBy(At(a), Seen(a))
         fit == {e \in es : {e.from, e.to} \subseteq act[a].names}
     IN IF fit = es THEN Writes(UpsertEdges(graph, es)) /\ Goes(a, "committing")
        ELSE \E some \in SUBSET fit : Writes(UpsertEdges(graph, some)) /\ Becomes(a, Finished(a))
  /\ UNCHANGED <<files, stores, load, history, off>>

Commit(a) ==
  /\ Doing(a, {"committing"})
  /\ Commits(IF Op(a).do = "create" THEN graph ELSE Confirm(graph, At(a)))
  /\ Becomes(a, Finished(a))
  /\ UNCHANGED <<files, stores, load, history, off>>

\* The event of a deletion.
Unlist(a) ==
  /\ Doing(a, {"unlisting"})
  /\ index' = Drop(index, {At(a)})
  /\ Goes(a, "unembedding")
  /\ UNCHANGED <<files, loaded, vectors, graphVars, load, history, off>>

Unembed(a) ==
  /\ Doing(a, {"unembedding"})
  /\ vectors' = Drop(vectors, {<<At(a), "abs">>})
  /\ Goes(a, "removing")
  /\ UNCHANGED <<files, index, loaded, graphVars, load, history, off>>

Withdraw(a) ==
  /\ Doing(a, {"removing"})
  /\ Commits(DeleteSource(graph, At(a)))
  /\ act' = [Forgets(DeleteSource(graph, At(a))) EXCEPT ![a] = Finished(a)]
  /\ UNCHANGED <<files, stores, load, history, off>>

\* ensure_entity_stub: reads and writes without an await, under the garden lock, without
\* an event.
Stub(a) ==
  /\ Doing(a, {"stubbing"}) /\ GardenLockFree
  /\ \E e \in act[a].todo :
       LET note == IF e \in DOMAIN files THEN Mentioned(files[e], At(a)) ELSE NewStub(At(a))
           lost == TextsAt(e) \ TextsOf(note)
       IN /\ files' = Put(files, e, note)
          /\ cut' = cut \cup lost
          /\ Becomes(a, IF act[a].todo = {e} THEN NextOp(a) ELSE [act[a] EXCEPT !.todo = @ \ {e}])
          /\ Silently({e}) /\ Crosses(a, e, {})
  /\ UNCHANGED <<stores, graphVars, load, written, gone>>

-----------------------------------------------------------------------------
\* The nightly promotion of notes, promote_maturity: it writes without an event that the
\* index and the graph understand, and ends at the first note that is missing.

Cares(pc) == Doing("care", {pc})
CareFails == act["care"].path \cap DOMAIN files = {} /\ Becomes("care", Idle)
             /\ UNCHANGED <<files, stores, graphVars, load, history, off>>
Visits(r) == [Idle EXCEPT !.pc = IF r = {} THEN "idle" ELSE "visiting", !.todo = r]
NextNote == Visits(act["care"].todo)

StartCare ==
  /\ act["care"] = Idle /\ load.care > 0
  /\ load' = [load EXCEPT !.care = @ - 1]
  /\ Becomes("care", Visits({p \in DOMAIN files : Dir(p) # "seeds"}))
  /\ UNCHANGED <<files, stores, graphVars, history, off>>

\* It reads a note and evaluates it; the listing is sorted, here in any order.
Visit ==
  /\ Cares("visiting")
  /\ \E p \in act["care"].todo :
       IF p \notin DOMAIN files THEN Becomes("care", Idle)
       ELSE LET rest == act["care"].todo \ {p}
                goals == Evaluate(graph, p, files[p].status)
            IN \/ goals = {} /\ Becomes("care", Visits(rest))
               \/ \E s \in goals : Becomes("care", [Idle EXCEPT !.pc = "status", !.path = {p}, !.todo = rest,
                                                !.goal = s, !.was = Matured(files[p])])
  /\ UNCHANGED <<files, stores, graphVars, load, history, off>>

ReadStatus == Cares("status") /\ At("care") \in DOMAIN files /\ Reads("care", "statusWrite")
              /\ UNCHANGED <<files, stores, graphVars, load, history, off>>

\* update_frontmatter_status: nothing to replace, nothing written; its event has a relative
\* path, which only the vector store makes something of.
WriteStatus ==
  /\ Cares("statusWrite")
  /\ LET p == At("care")  note == [Seen("care") EXCEPT !.status = act["care"].goal]
     IN IF Seen("care").status \in {"none", act["care"].goal}
        THEN UNCHANGED <<files, vectors, off>>
        ELSE files' = Put(files, p, note) /\ vectors' = Put(vectors, <<p, "rel">>, note) /\ Silently({p})
  /\ Goes("care", "field")
  /\ UNCHANGED <<index, loaded, graphVars, load, history>>

\* _set_frontmatter_field: under the garden lock.
ReadField == Cares("field") /\ GardenLockFree /\ At("care") \in DOMAIN files /\ Reads("care", "fieldWrite")
             /\ UNCHANGED <<files, stores, graphVars, load, history, off>>

WriteField ==
  /\ Cares("fieldWrite")
  /\ LET p == At("care")
         goal == act["care"].goal
     IN /\ files' = Put(files, p, [Seen("care") EXCEPT !.maturity = goal])
        /\ Silently({p})
        /\ IF goal = act["care"].was \/ goal = Dir(p) THEN Becomes("care", NextNote)
           ELSE \E q \in Free(<<goal, p[2], p[3]>>) :
                  Becomes("care", [act["care"] EXCEPT !.pc = "renaming", !.to = {q}])
  /\ UNCHANGED <<stores, graphVars, load, history>>

\* The new name was free when it was chosen; the old one is left without an event, and a
\* request that has found the note there is going to write it there.
Rename ==
  /\ Cares("renaming") /\ At("care") \in DOMAIN files
  /\ LET p == At("care")
     IN /\ \E q \in act["care"].to :
             /\ files' = Put(Drop(files, {p}), q, files[p]) /\ Silently({p, q})
             /\ crossed' = IF Crossers("care", q) = {} THEN crossed ELSE crossed \cup TextsAt(p)
        /\ astray' = IF Others("care", p, {"applying"}) = {} THEN astray ELSE astray \cup {p}
  /\ Becomes("care", NextNote)
  /\ UNCHANGED <<stores, graphVars, load, written, gone, cut>>

PromotionFails == Doing("care", {"status", "field", "renaming"}) /\ CareFails

Care == \/ StartCare \/ Visit \/ ReadStatus \/ WriteStatus \/ ReadField \/ WriteField
        \/ Rename \/ PromotionFails

-----------------------------------------------------------------------------
\* The edge lifecycle: the candidates of a promotion, their edges, then those of a demotion.

FindPromotions ==
  /\ act["edges"] = Idle /\ load.edges > 0
  /\ load' = [load EXCEPT !.edges = @ - 1]
  /\ Becomes("edges", [Idle EXCEPT !.pc = "promoting", !.names = PromotionCandidates(graph)])
  /\ UNCHANGED <<files, stores, graphVars, history, off>>

\* execute_batch commits if a row has changed.
Batch(g) == IF g.edges = graph.edges THEN UNCHANGED graphVars ELSE Commits(g)

PromoteBatch ==
  /\ Doing("edges", {"promoting"})
  /\ Batch(PromoteEdges(graph, act["edges"].names))
  /\ Goes("edges", "sifting")
  /\ UNCHANGED <<files, stores, load, history, off>>

FindDemotions ==
  /\ Doing("edges", {"sifting"})
  /\ Becomes("edges", [Idle EXCEPT !.pc = "demoting", !.found = DemotionCandidates(graph)])
  /\ UNCHANGED <<files, stores, graphVars, load, history, off>>

DemoteBatch ==
  /\ Doing("edges", {"demoting"})
  /\ Batch(DemoteEdges(graph, act["edges"].found))
  /\ Becomes("edges", Idle)
  /\ UNCHANGED <<files, stores, load, history, off>>

EdgeLife == FindPromotions \/ PromoteBatch \/ FindDemotions \/ DemoteBatch

MonthsPass ==
  /\ load.ages > 0
  /\ load' = [load EXCEPT !.ages = @ - 1]
  /\ graph' = Aged(graph) /\ saved' = Aged(saved)
  /\ UNCHANGED <<files, stores, act, history, off>>

-----------------------------------------------------------------------------
\* A crash, and the two tasks that the next start leaves to run in the background.

InFlight == UNION {act[a].path \cup act[a].to : a \in Tasks}
Vanishing == UNION {act[a].path : a \in {b \in Tasks : Doing(b, Untold)}}

Crash ==
  /\ load.crashes > 0
  /\ load' = [load EXCEPT !.crashes = @ - 1]
  /\ graph' = saved /\ index' = [p \in {} |-> Blank] /\ loaded' = FALSE
  /\ act' = [a \in Acts |->
       CASE a \in Tasks -> IF Doing(a, {"waiting"}) THEN act[a] ELSE Idle
         [] a = "reindex" -> [Idle EXCEPT !.pc = "scan", !.todo = {p \in DOMAIN files : Dir(p) = "seeds"}]
         [] a = "rebuild" -> [Idle EXCEPT !.pc = "rebuild", !.todo = DOMAIN files]
         [] OTHER -> Idle]
  /\ indexOff' = {p \in DOMAIN files : Dir(p) = "seed"}
  /\ vectorsOff' = vectorsOff \cup InFlight
  /\ graphOff' = graphOff \cup Vanishing
  /\ astray' = astray \cup act["care"].path
  /\ UNCHANGED <<files, vectors, saved, written, gone, cut, crossed>>

\* _scan_category: reads a note, if it is still there, and stores its summary.
ReadToScan(a) ==
  /\ Doing(a, {"scan"})
  /\ \E p \in act[a].todo :
       Becomes(a, IF p \in DOMAIN files
                  THEN [act[a] EXCEPT !.pc = "scanning", !.path = {p}, !.seen = {files[p]}, !.todo = @ \ {p}]
                  ELSE [act[a] EXCEPT !.todo = @ \ {p}])
  /\ UNCHANGED <<files, stores, graphVars, load, history, off>>

Scan(a) ==
  /\ Doing(a, {"scanning"})
  /\ index' = Put(index, At(a), Seen(a))
  /\ Goes(a, "scan")
  /\ UNCHANGED <<files, loaded, vectors, graphVars, load, history, off>>

\* _ensure_loaded: after the seeds, and after the first note indexed, everything else,
\* unless somebody has done it; a vault without notes stays to be loaded.
ScanEnds(a) ==
  /\ Doing(a, {"scan"}) /\ act[a].todo = {}
  /\ \/ /\ a \in Tasks
        /\ loaded' = (DOMAIN index # {})
        /\ Becomes(a, [act[a] EXCEPT !.pc = "toEmbed", !.path = act[a].to, !.to = {}])
     \/ /\ a \notin Tasks /\ (act[a].again \/ loaded)
        /\ loaded' = (DOMAIN index # {})
        /\ Becomes(a, Idle)
     \/ /\ a \notin Tasks /\ ~act[a].again /\ ~loaded
        /\ Becomes(a, [act[a] EXCEPT !.todo = Scanned, !.again = TRUE])
        /\ UNCHANGED loaded
  /\ UNCHANGED <<files, index, vectors, graphVars, load, history, off>>

\* rebuild_from_vault: a note whose hash is known is skipped,
ReadToRebuild ==
  /\ Doing("rebuild", {"rebuild"})
  /\ \E p \in act["rebuild"].todo :
       /\ LET rest == [act["rebuild"] EXCEPT !.todo = @ \ {p}]
              same == p \in DOMAIN graph.hashes /\ graph.hashes[p] = files[p]
          IN Becomes("rebuild", IF p \notin DOMAIN files \/ same THEN rest
                                ELSE [rest EXCEPT !.pc = "rebuilding", !.path = {p}, !.seen = {files[p]}])
  /\ UNCHANGED <<files, stores, graphVars, load, history, off>>

\* any other is one operation of the queue,
RebuildNote ==
  /\ Doing("rebuild", {"rebuilding"})
  /\ LET g == Rebuilt(graph, At("rebuild"), Seen("rebuild"))
     IN /\ Commits(g)
        /\ act' = [Forgets(DeleteSource(graph, At("rebuild"))) EXCEPT !["rebuild"].pc = "rebuild", !["rebuild"].path = {}]
  /\ graphOff' = IF Others("rebuild", At("rebuild"), GraphPcs \cup Untold) = {} /\ act["rebuild"].seen = NotesAt(At("rebuild"))
                 THEN graphOff \ act["rebuild"].path ELSE graphOff
  /\ UNCHANGED <<files, stores, load, history, indexOff, vectorsOff>>

\* which, when it fails, rolls back what the connection holds, its own or not; the rebuild
\* begins again, once.
RebuildFails ==
  /\ Doing("rebuild", {"rebuilding"}) /\ load.faults > 0
  /\ load' = [load EXCEPT !.faults = @ - 1]
  /\ RollsBack
  /\ LET again == act["rebuild"].again
         hurt == UNION {act[b].path : b \in {c \in Acts : Doing(c, {"relating", "committing"})}}
     IN /\ act' = [Forgets(saved) EXCEPT !["rebuild"] =
                     IF again THEN Idle ELSE [Idle EXCEPT !.pc = "rebuild", !.todo = DOMAIN files, !.again = TRUE]]
        /\ graphOff' = graphOff \cup hurt \cup IF again THEN DOMAIN files ELSE {}
  /\ UNCHANGED <<files, stores, history, indexOff, vectorsOff>>

RebuildEnds == Doing("rebuild", {"rebuild"}) /\ act["rebuild"].todo = {} /\ Becomes("rebuild", Idle)
               /\ UNCHANGED <<files, stores, graphVars, load, history, off>>

Start == \/ Crash \/ RebuildEnds \/ ReadToRebuild \/ RebuildNote \/ RebuildFails
         \/ \E a \in Tasks \cup {"reindex"} : ReadToScan(a) \/ Scan(a) \/ ScanEnds(a)

Writer(a) == Choose(a) \/ Create(a) \/ Find(a) \/ Replace(a) \/ AppendText(a) \/ Delete(a) \/ Stub(a)
Subscribers(a) ==
  \/ ReadForIndex(a) \/ IndexNote(a) \/ ReadForVector(a) \/ StoreVector(a) \/ EmbedFails(a)
  \/ ReadForGraph(a) \/ Unstate(a) \/ State(a) \/ Relate(a) \/ Commit(a)
  \/ Unlist(a) \/ Unembed(a) \/ Withdraw(a)

GardenNext == Care \/ EdgeLife \/ MonthsPass \/ Start \/ \E a \in Tasks : Writer(a) \/ Subscribers(a)
Spec == GardenInit /\ [][GardenNext]_vars

-----------------------------------------------------------------------------
\* Properties.

Pcs == {"idle", "waiting", "ready", "naming", "applying", "listing", "indexing", "toEmbed", "embedding",
        "toGraph", "extracting", "stating", "relating", "committing", "unlisting", "unembedding",
        "removing", "stubbing", "visiting", "status", "statusWrite", "field", "fieldWrite", "renaming",
        "promoting", "sifting", "demoting", "scan", "scanning", "rebuild", "rebuilding"}

IsAct(r) == /\ r.pc \in Pcs /\ r.ops \in Seq(Ops) /\ r.path \subseteq Paths /\ r.seen \subseteq Notes
            /\ r.names \subseteq Names /\ r.found \subseteq Edges /\ r.todo \subseteq Paths
            /\ r.goal \in Statuses /\ r.was \in Statuses /\ r.to \subseteq Paths /\ r.again \in BOOLEAN

\* Types, and that a lock is held once: the state of the writer, its subscribers, the
\* maintenance and the start.
GardenTypeOK ==
  /\ DOMAIN files \cup DOMAIN index \subseteq Paths
  /\ \A p \in DOMAIN files : files[p] \in Notes
  /\ \A p \in DOMAIN index : index[p] \in Notes
  /\ loaded \in BOOLEAN
  /\ DOMAIN vectors \subseteq Paths \X {"abs", "rel"} /\ \A k \in DOMAIN vectors : vectors[k] \in Notes
  /\ IsGraph(graph) /\ IsGraph(saved)
  /\ DOMAIN act = Acts /\ \A a \in Acts : IsAct(act[a])
  /\ UNION {written, gone, cut, crossed} \subseteq Texts
  /\ UNION {astray, indexOff, vectorsOff, graphOff} \subseteq Paths
  /\ Cardinality({a \in Acts : Naming(a, FALSE) \/ Doing(a, {"fieldWrite"})}) <= 1

Present == UNION {TextsOf(files[p]) : p \in DOMAIN files}
Quiet == \A a \in Acts : act[a].pc = "idle"

\* What a writer was told is written stays in the vault until it is replaced or deleted,
\* but for two cases: a promotion or a creation was at that moment between its look at the
\* note and its write; or it was appended behind the mentions of an automatic stub.
TextsKept == written \subseteq UNION {Present, gone, crossed, cut}

\* What was deleted or replaced does not come back, but in the same case.
GoneStaysGone == Present \cap gone \subseteq crossed

\* A promotion leaves no note that has a status in a folder its frontmatter contradicts,
\* unless it was interrupted or another write crossed it.
FolderFollows ==
  Quiet => \A p \in DOMAIN files \ astray : InItsFolder(p, files[p])

\* The vault's own safety.
VaultSafe == TextsKept /\ GoneStaysGone /\ FolderFollows

IndexAgrees ==
  \A p \in Paths \ indexOff : IF p \in DOMAIN files THEN p \in DOMAIN index /\ index[p] = files[p]
                              ELSE p \notin DOMAIN index

VectorsAgree ==
  \A p \in Paths \ vectorsOff :
    LET k == <<p, "abs">>
    IN IF p \in DOMAIN files THEN k \in DOMAIN vectors /\ vectors[k] = files[p] ELSE k \notin DOMAIN vectors

\* Notes may state the same relationship, which has one row.
GraphAgrees ==
  \A p \in Paths \ graphOff :
    IF p \in DOMAIN files THEN Says(graph, p, StatedBy(p, files[p]), EdgesBy(p, files[p]))
    ELSE SaysNothing(graph, p)

\* An entity nobody states is left only where delete_by_source leaves it: its source went
\* while another note still stated it.
EntitiesOwned == \A n \in DOMAIN graph.ents : (\E q \in Paths : <<n, q>> \in graph.prov) \/ n \in graph.bereft

\* No relationship without both its entities, in what is committed and in what is not; one
\* that a frontmatter states is strong until months have passed.
EdgesHold ==
  /\ \A g \in {graph, saved} : \A e \in g.edges : {e.from, e.to} \subseteq DOMAIN g.ents
  /\ \A e \in graph.edges : e.rel = "states" /\ ~e.old => e.strong

\* When everything has come to rest, index, vectors and graph say of each note what the
\* note says, unless it was changed without an event they understand, or while an earlier
\* version of it was being processed; a restart makes the index and the graph agree again.
DerivedAgree == EdgesHold /\ (Quiet => IndexAgrees /\ VectorsAgree /\ GraphAgrees /\ EntitiesOwned)

=============================================================================
