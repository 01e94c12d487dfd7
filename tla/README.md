# Formal models of BSage

BSage is a personal agent that keeps its knowledge in an Obsidian vault. The server is
one Python process on one asyncio event loop: plugins, schedules, HTTP and MCP requests
are coroutines that share the vault's files, several SQLite databases and a few in-memory
caches. Files are read and written through `asyncio.to_thread`, so every storage call is a
point where other coroutines run, and a note is overwritten in place, so a write that
fails may leave it empty. What can go wrong is therefore rarely a wrong line and often
two right coroutines in an order nobody tested. These modules are about that.

Paths below are relative to `src/bsage/`. `PROJECT.json` maps every definition to the lines
it models; `tlc -config X.cfg M` repeats a run and `tlapm M.tla` a proof.

## 1. Inventory

| component | code | state | operations | hard behaviour |
|---|---|---|---|---|
| SQLite write queue | `garden/write_queue.py` | bounded queue, writer task, `_stopping`, `_closed` | start, stop, submit, try_submit, drain, supervise | backpressure, cancellation, a writer that dies, stop against submit |
| Mutation lock | `garden/canonicalization/lock.py` | registry of counted holders | acquire, release, guard | cancellation before and after the wake-up, dropping a holder |
| Canonicalization actions | `garden/canonicalization/service.py`, `store.py`, `paths.py`, `models.py` | action notes, concept notes, tombstones, garden tags | draft, apply, approve, reject, expire, ingest, proposals | whole-note rewrites, effect and status written apart, locks per action |
| Canonicalization index, resolver | `index.py`, `index_subscriber.py`, `resolver.py` | caches of notes | invalidate, rebuild, resolve | reloads that overlap, a reload's window without the entry |
| Proposals, decisions, policies, scoring | `proposals.py`, `decisions.py`, `policies.py`, `scoring.py` | notes | generate, select, score | generators that overlap, decisions that fade, policies that conflict |
| Watcher, lint | `watcher.py`, `lint.py` | observer thread, events | start, stop, dispatch | what happens while it is off, overlapping reloads |
| Audit outbox and relay | `garden/audit_outbox.py` | table with retries and dead letters | insert, select, send, mark | crash between send and mark, batches that fail as a whole |
| WebSocket approvals | `interface/ws_interface.py`, `gateway/ws.py`, `core/safe_mode.py` | futures per request | request, respond, time out | late and double answers, lost clients |
| Event bus | `core/events.py`, the subscribers | list of subscribers | emit | subscribers run inside the emitting call |
| Scheduler, plugin runner | `core/scheduler.py`, `core/plugin_runner.py`, loaders, `danger_analyzer.py` | registries, jobs, polling tasks, verdicts | scan, register, poll, run | a hot load during a run or a write |
| Agent loop | `core/agent_loop*.py`, `core/llm.py`, `chat_bridge.py` | the frames of a request | tool calls, routing, chat | calls that chat again, a registry that changes, failures after effects |
| Graph store | `garden/graph_store.py` | entities, relationships, provenance, hashes | upsert, delete by source, rebuild | one connection for all transactions |
| Edge lifecycle, maturity | `garden/edge_lifecycle.py`, `maturity.py`, `core/maintenance.py` | strength of edges, folders of notes | promote, demote, move | nightly jobs beside the writers |
| Vector store, retrieval | `garden/vector_store.py`, `retriever.py`, `graph_retriever.py`, `hybrid_search.py` | embeddings, note index | upsert, search, build a context | listing first and reading later, four different fallbacks |
| Writer, ingest | `garden/writer_core.py`, `ingest_compiler.py` | notes | write, update, append, delete, compile | read-modify-write over awaits, a plan that fails midway |
| Vault, storage, sync | `garden/storage.py`, `vault.py`, `sync.py` | files, output backends | read, write, list, notify | writes in place, backends that change during a notification |
| Dedup, analytics, community, migrations | `garden/*.py` | snapshot of the graph, the vault's folders | merge entities, report, migrate, revert | a snapshot in two statements, an interrupted migration |
| Gateway, MCP, CLI, demo | `gateway/`, `mcp/`, `cli/`, `demo/` | the application's registries, rate limits | HTTP and tool glue | parts that must agree after each change |
| Configuration, credentials | `core/runtime_config.py`, `credential_store.py` | flags, files, keys | update, persist, rotate | Safe Mode changes between two steps; rotation beside users |

How they interact. `GraphStore` and `VectorStore` each own a write queue and stop it before
they close their connection. The canonicalization service holds a mutation lock per action
path while it rewrites that action; it writes notes through the storage, reloads the
index itself, and emits events whose subscriber reloads the index again, awaited inside
the emitting call. Every write of a garden note emits an event in the same way, whose subscribers
bring the note index, the vectors and the graph up to date, and notifies the outputs through the
sync manager. Ingest resolves tags through the index and drafts and applies actions
through the service. The scheduler, the routes and the LLM's tool calls all run entries through
the same Safe Mode gate, which asks a human over WebSockets. Safe Mode is a flag of the runtime
configuration that the service and the gate read when they act.

What makes the components correct:

* write queue: one write at a time, each at most once, none for a caller that was already
  answered, one truthful answer; nothing runs after `stop()`; callers and `stop()` return;
* lock: mutual exclusion per path, no lost wake-up, no leak;
* actions: a final status stays, an effect belongs to the action that claims it, evidence
  that was added is not lost by another rewrite, approval is fresh; a merge leaves no tag,
  alias or tombstone that means nothing, and none that a decision forbids;
* index: what the vault holds is what is cached, or will be soon;
* outbox: at least once, a dead letter only after the retries, every row settled in the end;
* approvals: one answer, the first to this very request; nothing dangerous runs without one;
* registries: scheduler, agent, sync manager and configuration agree on every entry;
* agent: every call is told, what was done is logged, events say how a run ended;
* garden: no accepted text is lost, no deleted one returns, and index, vectors and graph say
  in the end what the notes say;
* retrieval and insight: budgets are kept, nothing twice, nothing nearer passed over;
* migration: no text is lost however often it is interrupted, and a revert restores.

## 2. Modules

```
WriteService  <== WriteQueue <-- MCWriteQueue, SerialProofs    (SequenceLemmas)
Mutex         <== MutationLock <-- MCMutationLock, SerialProofs
     ^------------ ActionLifecycle <-- MCActionLifecycle, ActionLifecycleProofs
ConceptActions <-- ProposalReview <-- MCProposalReview, ReviewProofs
AtLeastOnce   <== AuditOutbox <-- MCAuditOutbox, SerialProofs
ApprovalGate  <== Approvals <--+-- Host <--+-- MCHost <-- HostProofs  (SequenceLemmas)
                     Registry <-+          |
     Agent, RateLimit, Credentials, Danger-+
     (Lists: what the first two, and Insight, need of lists)
Graph <--+-- Garden <-- MCGarden, GardenProofs
         +-- Insight --------------------------+-- MCKnowledge <-- KnowledgeProofs
     Curation, Retrieval, Compile, Flatten, Watcher                  (SequenceLemmas)
     Curation <-- ReviewProofs      Insight <-- InsightProofs
     (<== implements, <-- is extended by; ActionLifecycle instantiates Mutex)
```

A step is what one coroutine does between two suspensions of the event loop. A definition
`...Mutant` is a bug the code could have had: a property is worth its run only if some such
bug violates it, and `PROJECT.json` says which one does. The variables of a history (`gone`,
`crossed`, `raced`, ...; in `Graph` the fields `bereft` and `lent`) change nothing; they name the
situations in which a promise cannot be kept, so that a property can say exactly which these are.

### WriteQueue

`queue` is the `asyncio.Queue`, `putters` the callers suspended in its `put`, `woken` those
that `get_nowait` has woken and the loop has not run yet. That a woken putter has to look
at the queue again is what makes the order of `submit`, `stop` and the drain interesting.
`writer` is the task: idle in `get`, running a write in the loop or in the drain, died (its
done-callback is scheduled), gone, or exited. `call` is where each caller is and then what it
was told, `effect` what the database saw.

| action | code |
|---|---|
| `Start` | `start`; a queue object is started once, as `GraphStore` and `VectorStore` do |
| `Submit`, `TrySubmit`, `CancelCall`, `ResumePut` | `submit`, `try_submit`, a cancelled caller, `Queue.put` after its wake-up |
| `TakeNext`, `OpReturns`, `OpRaises` | `_writer_loop`, `_drain_remaining`, `_run_one` up to the next suspension (`Advance`) |
| `WriterDies`, `OnWriterDone` | `CancelledError` in the task, the supervisor with `_fail_pending_ops` |
| `StopCall`, `StopJoins`, `CancelStop` | `stop`, twice and cancelled |

`WriteService` says what the callers may rely on, without queue, putters or supervisor, and
`ImplementsService` that the queue is an implementation of it: the refinement maps a caller
suspended in `put` or on its future to "open".

### MutationLock

`registry`, `users`, `locked`, `line` and `owner` are the fields of the registry, the holders
and their `asyncio.Lock`; `future` the state of a waiter's future; `mine` the local
variable `holder`, which may outlive the registry entry. The registry lock guards blocks
that never suspend, so each is one step. `Mutex` is the promise.

### ActionLifecycle

One kind of action, create-concept, in full: it is the kind that ingest creates and
applies by itself and the one every status, lock and cache rule applies to. `note` and
`concept` are the vault, `index` and `known` the two caches, `past` the actions whose
`expires_at` has passed, `inside` the sections of the lock (actions of `Mutex`, which
`MutationLock` implements), `call` the local variables of each call: the
entry it read, the reloads it has to do, what the current reload has read. `cut` is a
history variable: the actions one of whose operations was cut short by a failure or a crash;
properties that cannot survive that say so by naming it.

| action | code |
|---|---|
| `CallCreate`, `List`, `WriteDraft` | `create_action_draft`: list, choose a name, write, without the lock |
| `CallIngest` | `resolve_and_canonicalize`: a draft that is then applied, or evidence for a pending one |
| `CallOn`, `CallExpire`, `Enter` | apply, approve, reject; the sweep over a snapshot of the index; `guard` |
| `Check` | `approve_action` reads the note before `_apply_locked` reads it again |
| `BeginApply`, `Reject`, `Expire`, `AppendEvidence` | the read under the lock and what it decides |
| `Block`, `AskApproval`, `BeginEffect` | validation and Safe Mode |
| `Effect`, `Write` | the concept note, then the action note, written whole |
| `Pop`, `Set`, `Done` | `_reload_path` for each path, the service's own reloads and then the events' |
| `EffectFails`, `StorageFails`, `Crash` | a storage call that raises, with or without an emptied file; a restart, which rebuilds the index |
| `Toggle`, `Age` | Safe Mode, time |

A read is merged with the step before it where no other step of the same call lies
between: a later read would see what a later reload sees. A note that lost its text reads
as a draft without parameters and with an expiry in the distant past: `read_action` fills in
exactly these defaults.

### ConceptActions, ProposalReview

What an apply does to the vault, one note at a time: `vault` holds the active concepts, their
aliases, the tombstones and the cannot-link decisions, `index` the same as cached, `tags` those of
the garden notes, `job` the apply that is under way for each action; the histories `ever` and `meant`
are the names that led to a concept once and the concepts each note is to have. `Apply`, `Check`, `Block` are
the beginning of `_apply_locked`; `ReadConcept`, `WriteConcept`, `DeleteSource`, `Bury`,
`ListGarden`, `ReadTags`, `SetTags` a merge and a retag; `Decide`, `Supersede` a decision; `Record`,
`Pop`, `Load` the status and the reloads. `StorageFails` and `Crash` may come between any two.
`ProposalReview` adds the reviewers: `Accept` applies the drafts of a proposal one after the other
while anybody (`Direct`) applies them too; `Reject` and `Expire` write the same note, and no lock
is held over `Conclude`, `WriteProposal`, `ReloadProposal`.

### AuditOutbox

The table's rows are sets (`delivered`, `dead`, `due`) and functions (`id`, `retries`) of events;
`at`, `batch`, `retryable` are the locals of the relay's loop. `Select`, `Send`, `SendRefused`, `Mark`,
`RecordFailure`, `IterationFails`, `Wake` are the loop from await to await; `Open`, `StopRelay`, `Close`
the gateway's order of start and stop, with a stop that may cut a send or a mark; `Insert` and `Drop`
are `safe_emit`. `AtLeastOnce` is the promise.

### Approvals, Registry, Host

`Approvals` is the round trip of one request: the connections in order, whom it has yet to be
sent to, its future in `_pending`, and what its caller was told; clients connect, leave, break and
answer at any time (`Around`). It implements `ApprovalGate`. `Registry` is who knows which entry:
the loaders, the verdicts, the agent's registry, the scheduler's jobs, the sync manager's backends
and output skills, the configuration, its file and the enabled entries. `Refresh` of `Host` is a hot
load; `RefreshRaises` one that a malformed schedule breaks off half-way. `Host` puts the two together:
tasks come from a poll, a schedule, a webhook, a tool call or a route, refresh the registry, pass the
gate, run, log, write a seed, and notify the outputs; each `at` of a task is a suspension.

### Agent

A request is a stack of frames (`talk`, `call`, `run`, `chat`, `route`), for a plugin may chat and a
chat calls plugins. `Completion` and `Told` are the rounds of `LiteLLMClient.chat`; `CallStarts`,
`CallGate`, `CallRan`, `CallLog` one `_handle_tool_call`; `RunStarts` to `PluginEnds` and `Gather`,
`Respond`, `ApplyOutput` a plugin and a skill; `Chat...` the chat; `Refine`, `Collect1`, `Route...` the
routing of input. `Reloads1` and `SwitchSafe` change the registry and Safe Mode between any two.
`last` is what the frame above came back with; the properties are about it.

### RateLimit, Credentials, Danger

Small services the rest leans on. `RateLimit`: the times of each client in the last window, the
cleanup, the cap. `Credentials`: a file per service, its key, the rotation's `turn` through the files,
restarts with other keys. `Danger`: the verdicts in memory and on disk, the analyses that wait for
the model, edits and deaths meanwhile.

### Graph, Garden

`Graph` is the value of the knowledge database (entities, relationships, provenance, hashes) and the
effect of each statement on it; `graph` is what the one connection sees, `saved` what was committed.
`Garden` is everything that happens to a note: `files` is the vault, `index`, `vectors` and `graph`
are derived from it, `act` is what each activity is doing.

| action | code |
|---|---|
| `Choose`, `Create`, `Find`, `Replace`, `AppendText`, `Delete`, `Stub` | `writer_core.py`, `ingest_compiler.py`: choose a free name under the lock, or read, change and write |
| `ReadForIndex`, `IndexNote`, `ReadForVector`, `StoreVector`, `EmbedFails`, `ReadForGraph`, `Unstate`, `State`, `Relate`, `Commit` | the three subscribers, in this order, inside the write's own coroutine |
| `Unlist`, `Unembed`, `Withdraw` | the same for a delete |
| `StartCare`, `Visit`, `ReadStatus`, `WriteStatus`, `ReadField`, `WriteField`, `Rename` | the nightly maturity job of `maintenance.py` |
| `FindPromotions`, `PromoteBatch`, `FindDemotions`, `DemoteBatch`, `MonthsPass` | the edge lifecycle |
| `Crash`, `ReadToScan`, `Scan`, `ScanEnds`, `ReadToRebuild`, `RebuildNote`, `RebuildFails` | a restart, and the start that reads everything again |

Abstractions: a listing is one step; one embedding is one step; the entities a note states are
written in one step; the graph at first has a row for everything the notes state, whichever of them
was read first (`FirstGraph`). Torn files are `ActionLifecycle`'s and `ConceptActions`' matter.

`FirstNotesAssumption` is the vault as the writer leaves it: a note with a status lies in its folder.
A note written by hand, with the legacy `status: seed` and no `maturity` in `garden/budding`, would not:
`promote_maturity` compares its target with the maturity that the status stands for
(`writer_core.py:554`, `:601`), finds them equal and never moves the note.

### Curation, Retrieval, Compile, Insight

`Curation`: generators cluster similar concepts and write a draft and a proposal per cluster, while
decisions fade with the days, policies come and go, drafts are applied, tags and concepts edited; the
validator's hard block, the scorer's risks and the linter's findings are operators over that state, the last
two with the limit of tombstones that they follow (`DepthLimit`, the code's 16).
`Retrieval`: one request at a time, that lists first and reads later, while notes move between
folders and vanish and the index follows; the ways to fall back are the code's four. `Compile`: the
chunks of an import, a plan per chunk from whatever the model answers, its actions cleaned and its tags
resolved one await at a time, and the report. `Insight`: the readers of the graph, each query a
statement of its own: the context of a topic, the snapshot and what is computed from it, the fused
search, the merge of two entities. Scores are in percent; the fused ones are in a unit that tells every two
places apart (`Unit`). Where the code sorts by a score, every order that the scores allow is a choice (`Rankings`),
and so is the order in which neighbours come.

### Flatten, Watcher

`Flatten`: the plan of the migration to folders by maturity, its moves by a write and an unlink, its
revert, interruptions between any two, and a person who puts notes anywhere. `Watcher`: the file
system's events, the observer's thread that hands them to the event loop, the subscriber and the
reload with its four steps; the operator switches the watcher on and off.

## 3. Runs

| run | bounds | shows |
|---|---|---|
| `write_queue` | 3 writes, 2 stops, queue of 1, one death | the refinement of `WriteService`, `QuietAfterStop`, and that writes are answered, callers let in and stops return |
| `write_queue_hang` | the same without a death | `CallersReturn` is violated |
| `mutation_lock` | 4 tasks, 2 paths, 4 holders | `RegistryExact`, `ImplementsMutex`, `EveryoneEnters` |
| `action_lifecycle` | 2 coroutines, 1 concept, 3 calls, 1 failure, a draft from before; 1.3 million states | `EffectOwned`, `ConceptsKnown`, `FinalStays`, `EvidenceKept` |
| `approval_stale` | 2 calls, no failure | `ApprovalIsFresh` is violated |
| `index_stale` | 2 calls, no failure | `IndexFresh` is violated |
| `draft_overwrite` | 2 calls, no failure, both in one second | `FinalStays` is violated |
| `audit_outbox` | 3 events, batches of 2, 2 retries, 1 fault; 0.4 million states | `OutcomesHold`, `SettledForEver`, the refinement of `AtLeastOnce`, `EveryRowSettled` |
| `proposal_review` | 4 concepts, 2 names, 1 note, 3 actions of four plans, 1 proposal, 2 reviewers, 2 reviews, 1 fault, walks of 2 tombstones; 1.3 million states | `MeaningKept`, `EndsAreEarned`, `CachesAgree`, `ForbiddenMergesStop` |
| `host` | see below; 0.5 million states | `GateHolds`, `OutputsReached`, `RegistryAgrees`, the refinement of `ApprovalGate`, `AgentSound`, `ServicesSound` |
| `garden` | 2 activities with the nightly jobs and the start, 2 titles, 2 copies of a name | `VaultSafe`, `DerivedAgree` |
| `knowledge` | see below; 1 million states | `CurationSound`, `RetrievalSound`, `CompileSound`, `InsightSound`, `UpkeepSound` |

Each run of more than one module also has one type invariant. `host` and `knowledge` check
several modules that share no state, one at a time (`part` says which): their states add up
instead of multiplying, and each property is about its part only.

The bounds. A queue of one with one write running leaves a caller waiting for room; two stops give
a second sentinel behind the first. Four tasks on one path give an owner, a woken waiter, a
cancelled one and one that arrives; the second path shows that holders are not mixed up. In
`ActionLifecycle` two coroutines at a time and three calls let an operation meet every other at every
await, with one more that finds what they left; `MaxSuffix` 1 is enough where seconds differ. Three
events are a full batch and one that waits behind it. Three actions are a merge, a second one that
shares a concept with it or a decision that forbids it, and a create. The plans are lists of what can
meet, for all combinations would only add pairs that do not touch each other.

`host`: one change of the registry (`MaxOps` 1, from a bundle of entries that comes in at once), 2
tasks, 2 starts, 1 client, 2 requests; an input, a dangerous and an output plugin, an output skill and
schedules good and malformed. Agent: three entries (a dangerous tool with a schema, a skill that
writes, a plugin without a schema that chats), 2 rounds, 8 frames, one change. RateLimit: 3
callers, 2 requests a window, 1 client kept. Credentials: 2 services, 2 keys, 3 restarts. Danger:
1 plugin with 3 codes, 2 edits, 1 death. `knowledge`: Curation has 3 concepts, alike in two ways,
2 generators, 2 rulings, 2 policies, 1 day, a depth limit of 1; Retrieval 3 notes in 2 folders, 2 moves, all
three notes in the index's table (`Newest` 3), answers of at most 2 or 3 notes and 7 or 40 characters; Compile 2 ingestions
side by side or one of three chunks; Insight 3 notes, 4 entities, 2 writes, fused
searches of 2 results; Flatten names numbered up
to 5 (the code's 999), one touch, 4 migrations, reverts and interruptions, after which a name may have six
notes, so a number is always left; Watcher 2 paths of the index, one beside them and one outside, 3
changes, 2 switches. `garden`: `MinEdges`, `MinSources`, `MinEvergreen` and `MinMentions` are the
thresholds 1 and 2 instead of the configured ones, a vault with two notes and an empty one, workloads of
up to three operations: among them a note created where a promotion moves another one, one that is
replaced, deleted and created again while a promotion visits it, and two that state the same
relationship. `Max...` constants only bound how often; no guard of the code depends on them
but `MaxRounds`, `MaxRetries`, `MaxCallers` and `MaxUpdates`, which the code has too, and larger.

The deadlock check is off where the system may stop: all writes are done, the bounds are used up.
`mutation_lock` and the runs of `ActionLifecycle` check it.

Fairness. The event loop runs every task that is ready: weak fairness of a woken putter, the
writer's step, a scheduled done-callback, a `stop()` whose task has ended, a lock waiter
whose future is done, the relay's loop. A section ends (`Release` is fair) because the service does
finitely many storage calls inside it; a SQLite statement ends; a back-off's time passes; the gateway is
brought up again (`Open`), and closes what it stopped. Nothing makes a caller call, a
writer die or a task be cancelled. `EveryoneEnters` needs no strong fairness because the
line is first in, first out. `EveryRowSettled` needs none because faults are finite and every refusal
counts; with a collector that neither answers nor refuses the send's own time-out is the refusal.

What the violations show (`PROJECT.json` "findings" quotes the lines):

1. `write_queue_hang`. A `submit()` that waits for room when `stop()` is called can be woken
   by the drain and put its item into the queue of a writer that has ended. The caller waits
   for ever. The docstring says that `stop()` loses no write and that callers do not hang.
   `StopReturns` has an exception for the same reason: when such an item fills the queue of an
   exited writer, a second `stop()` waits in `put` for ever, although `write_queue.py:140` calls it
   safe to call twice.
2. `approval_stale`. `approve_action` never looks at `expires_at`; its docstring says that
   approval reruns freshness and fails with `expired`.
3. `index_stale`. The drafting call reloads the index without the lock, twice; the reload
   that began before a rejection may cache after it. The index then lists a rejected or
   applied action as pending until something touches it again.
4. `draft_overwrite`. A draft's name is chosen from a listing and written later without the
   lock: two calls of one second choose the same name, and one overwrites the other's
   note, even after it was applied. This is the only way: `FinalStays` is checked, and
   proved, when no two calls draft in the same second.

What the exceptions in the properties say. A property that holds has every case in which
it would not in its own text; these are behaviours of the code that a reader should know of.

* Garden. A promotion reads, writes two fields and renames over several awaits: an update in
  between is lost or recreates a twin (`crossed`, `astray`). The name it moves a note to is
  chosen without the lock of the creations: one that chose the same free name writes over it, or is
  written over. The maturity that it
  compares its target with was read before: a note without a status that is deleted and created
  again with one meanwhile stays in the wrong folder. A relationship that two notes state has one
  row, which goes when the first of them is deleted, though the other still states it (`lent`). A
  rename emits no event the index understands, so promoted notes vanish from index and graph until
  a restart (`indexOff`, `graphOff`) and may then be demoted again. A rollback on the shared connection loses other
  coroutines' uncommitted rows; a rebuild never removes sources that vanished; text appended to
  an automatic stub is dropped by the next mention (`cut`).
* Merges. Crossed merges delete each other's canonical concept (`overlapped`); a failed apply does
  not reload the concepts it changed (`cut`). Two merges of one concept that overlap may leave it an alias of
  the one and its notes with the tag of the other (`OneEach`). A merge that follows more merges
  than the resolver follows tombstones can make an old id unknown, once its aliases are lost.
* Curation. Generators that overlap propose one merge twice or write over one draft (`raced`);
  the hard block looks at pairs of canonical and source only, and a decision does not follow a merge;
  policies that conflict make both callers fall back to 0.85; a crash leaves a draft without a
  proposal; a concept created again after its merge is reported as a redirect cycle. So is a chain of
  more than 16 merges, although nothing is wrong with it: the linter (`lint.py:139`) counts the tombstones
  it follows from one earlier than the resolver. That the two still agree about tags is only because
  the ids that were merged stay aliases of the concept that is left.
* Agent. A deferred approval raises outside the `try` of a tool call (`agent_loop.py:288`) and ends
  the whole conversation after earlier calls took effect; the LLM may call what it was not offered;
  entries without a schema are never routed to once any entry has one, although the docstring at
  `agent_loop.py:318` says they fall back to text; a log that fails after the work tells the LLM
  "error"; a plugin whose result is no dictionary emits a start and no end.
* Chat. `gateway/chat.py:117` and `gateway/mcp_tools.py:372` call `ingest_compiler.compile`, which does not
  exist: a chat with a compiler fails after it saved its transcript. `gateway/mcp_tools.py:249` calls
  `GraphStore.snapshot`, which does not exist either.
* Registry. A malformed schedule breaks a hot load off half-way (`broken`), a listing hides entries
  from later scans (`listed`), an entry removed and found again is registered twice (`again`),
  PATCH of the disabled entries rebuilds nothing (`behind`), the MCP tool does not apply the chores'
  switches (`unapplied`).
* Credentials. A rotation's read and write lose a store in between, or bring back what was deleted
  (`crossed`). RateLimit: the cap is enforced at cleanups only, and who is forgotten starts afresh.
* Watcher. A start does not scan, a stop drops what is under way, a move reports only its
  destination and only when its source was watched, two overlapping reloads may leave the older
  content (`astray`).
* Retrieval. A folder asked for twice or within another one gives its notes twice; the index's
  table and the chat's last text are not cut; a skill's own fallback takes the oldest notes and fails on one
  that is not UTF-8.
* Compile. The service that `gateway/dependencies.py:346` builds has no canonicalization, so tags are
  resolved only where a caller passes one; a chunk that raises reports nothing of what it wrote;
  two ingestions that meet the same new word: the second loses the tag (`crossed`).
* Insight. A snapshot taken in two statements has nodes without attributes; a merge never moves an
  edge of a note and removes both entities when they had the same source; loops make a community's
  cohesion exceed 1. hybrid search, dedup and query by neighbours have no caller in production.
* Flatten. Without backup and marks a note comes back to the vault's root; a revert overwrites what a
  person put in the old place (`lost`); an interruption leaves two copies, and the next run numbers the
  second.

## 4. Proofs

| module | theorem | for every |
|---|---|---|
| `SerialProofs` | `Inductive`, `TypeCorrect`, `Quiet`, `Implements` | set of writes and stops, queue size, number of deaths |
| | `LockInductive`, `LockTypeCorrect`, `RegistryIsExact`, `LockImplements` | finite set of tasks, set of paths, set of holders as large as the tasks |
| `ActionLifecycleProofs` | `ShapeInvariant`, `TypeCorrect`, `Resolved` (`ConceptsKnown`) | set of concepts, calls, seconds and old drafts, bound |
| | `SafetyInvariant`, `FinalForEver` (`FinalStays`), `EvidenceStays` (`EvidenceKept`), `Owned` (`EffectOwned`) | the same, if `SecondsDiffer` |
| `ReviewProofs` | `ReviewTypesHold`, `EndsHold` (`EndsAreEarned`), `CachesHold` (`CachesAgree`), `MeaningHolds` (`MeaningKept`), `ForbiddenHolds` (`ForbiddenMergesStop`) | set of names, actions of any plans, decisions, proposals and reviewers, finite sets of concepts and notes, number of reviews and faults, limit of the walk |
| `SerialProofs` | `OutboxInductive`, `RelayHolds` (`RelayInvariant`), `OutcomesForEver` (`OutcomesHold`), `Settled` (`SettledForEver`), `OutboxImplements` (`ImplementsAtLeastOnce`) | finite set of events, batch size, number of retries and of faults |
| `HostProofs` | `Inductive`, `Gated` (`GateHolds`), `Agreed` (`RegistryAgrees`), `Reached` (`OutputsReached`), `Implements` (`ImplementsGate`), `HostTypesHold` | finite set of entries with any metadata, set of clients, requests and tasks, bound |
| | `AgentHolds` (`AgentSound`) | crew, answers of the LLM, number of rounds and depth of chats |
| | `ServicesHold` (`ServicesSound`) | set of callers, limit and window; finite set of services and set of keys; set of plugins and codes |
| `GardenProofs` | `GardenTypesHold`, `VaultHolds` (`VaultSafe`), `DerivedHolds` (`DerivedAgree`) | set of titles, folders and texts, number of copies, set of tasks, workload, first vault, thresholds |
| `ReviewProofs` | `CurationHolds` (`CurationSound`) | finite set of concepts, notes and decisions, similarities, policies, first vaults, set of generators, depth limit, number of days |
| `KnowledgeProofs` | `CompileHolds` (`CompileSound`) | imports of any items, models and sizes, answers, words and what they mean, merges meanwhile |
| `InsightProofs` | `InsightHolds` (`InsightSound`) | finite set of paths and of names, words and what they match, requests, notes and vaults, sizes, number of results |
| `KnowledgeProofs` | `RetrievalHolds` (`RetrievalSound`) | set of notes and folders, requests, lengths, order, budgets, number of moves |
| | `UpkeepHolds` (`UpkeepSound`) | first vault, folders, names, number of touches and interruptions, if `NumbersLast`; set of paths, number of changes and switches |

`SequenceLemmas` has what several of them need about `Append`, `SubSeq`, `RemoveAt`, `ToSet`, `Filter`
and injective sequences. The library's induction takes an operator as a parameter, which the provers
cannot instantiate; what these lemmas need of it is stated with a set instead (`NatInd`, `SeqInd`:
a set that has the first number, or the empty sequence, and with each the next, has all), for
which a set comprehension can be given.

*Write queue.* `IInv` adds to the types: a queued write is waiting or cancelled, unexecuted,
and in the queue once (`QueueInv`); whoever is in `woken \o putters` is suspended there and
there once (`LineInv`); exactly the write the writer holds is running, and its caller has not
been answered (`EffectInv`); a queue that is closed has no live writer and one without a
writer task is closed (`StopInv`). `QuietAfterStop` and the refinement need all four: the
step of the abstract service that a writer step implements exists only because the next
queued write is unexecuted and its caller waits.

*Lock.* `LockInv` says that a holder's count is the number of tasks that refer to it, that
they all use the path it is registered under (`RegistryInv`), that it is locked exactly while
its owner is inside (`OwnerInv`), and that its line is who waits for it, with at most the head
woken, and only while the lock is free (`LockLineInv`). The last part is why a late waiter
cannot overtake into an occupied section, and the count is why `release` never drops a holder
that somebody is about to use.

*Actions.* `ShapeInv` says what the local variables of a call hold at each place, and
with `ConceptsKnown` that a reload which is still due is in somebody's `todo`; it is inductive
without any assumption on the seconds. `IInv` adds what makes whole-note rewrites safe:
a call between the entry and the exit of a section is there alone (`Alone`); what it is going
to write is based on the note as it still is, and that note is not final (`Fresh`); the path a
draft will be written to is still free (`Named`, which is where `SecondsDiffer` is needed and
the only place); "applied" is written only when the concept is there (`Created`). The proof
does each step once, as `Moves`: what a step of one call may do to the lock, the notes and the
concepts. `MovesKeep` is then the whole argument about the other calls, and the action
properties follow from `Moves` and `IInv`. `SecondsDiffer` cannot be dropped: the run
`draft_overwrite` is the counterexample.

*Reviews.* `ReviewInv` of `ReviewProofs`. `Placed` says where an apply is in its work and what it holds
there. The index (`CachesAgree`): an entry that differs from the vault is one that an apply under way
will still reload (`ShelvesAgree`, with `Pending`), a path that is being loaded was dropped before (`Dropped`);
the same with the proposals' entries and the reviews (`CachesCatchUp`), and with the decisions, where an
entry that is behind is not in force (`OverIsOver`, `DecisionsAgree`), from which `ForbiddenMergesStop`
follows at the step that ends a check. The meaning: as long as no apply ran into another one and no
note was torn, what is in `Kept`: every name that ever led to a concept is one or is an alias of one (`Led`),
tags are known names (`TagsKnown`), an applied merge's sources are buried and no tag has them (`Earned`),
and each note says what it is meant to (`Said`). `CalmJob` is what a merge in the middle has
achieved of it: for example, before it has rewritten a note's tags, they mean the same as sources and as
aliases of the target (`SaysUnder`). For merges that overlap, aliases are no help, as one merge may write over those
of another; ids are found along the tombstones. `SideInv`: a merge's target stays active while it runs (`IntoActive`), so
that every buried id has a tombstone and out of each set of buried ids one tombstone leads (`Rooted`): no walk goes
in a circle, and one that is as long as there are tombstones ends at an active concept (`WalkEnds`, by the
pigeonhole principle). For the notes, `Heirs` says that there is a map that gives each id the concept that took it over, which
agrees with every tombstone and, but for what merges under way are about to delete (`Heads`), with every alias;
and each note has for each concept it is meant to have a tag with the same heir (`HeirsMeant`). A deletion is the
step that changes the map; `HeirJob` is what each merge under way must know to survive it. The attempt
found that the property was false beyond the run's bounds (two merges of one concept, a concept that
is created again, a name that is an id), and that the walk had no limit in the model, where `resolver.py:17` has
one: `RedirectLimit`. A proposal is accepted by a review that knows that each of its
drafts but those it has left was applied (`Reviewing`), and applied is a status that stays.

*Outbox.* `OutboxInv` is `RelayInvariant /\ OutcomesHold`, which the run checks as they stand. The batch
that the relay holds between two awaits is pending in the table (`BatchPending`), because nobody
but the relay settles a row; what it is about to mark was received, what it gives up at once was
refused; a row that is not dead has a retry left (`RetriesLeft`), so a failure never counts past
the limit. A send or a mark that is cut short did all, some or none of its work
(`SendCut`, `MarkCut`); `CutKeeps` and `CutRefines` treat it once for a crash, a stop and an error. In the
refinement an outbox step is one of `AtLeastOnce` for a set of events, or a stutter.

*Registry.* `HostProofs` begins with what each step of `Registry` keeps and puts it into the behaviours.
`RegistryInv` says that every dangerous plugin that the agent has is in the danger map, because a
refresh merges what it found and its verdicts in one step, also when it raises afterwards; that an
output is in one of the two lists, and there once (`Called`): the first refresh that finds an entry
appends it, and only one that finds it again could repeat it; that what a loader has registered or
judged the agent has, or a listing hid it; and that the settings and their file keep their shape (`ConfigInv`).

*Host.* `AnswerInv`: while a request's caller waits, its future holds what was said of it and nothing
else, and a request that is over has no future, so a late or second answer finds nothing to set;
`ApprovalRefines` is the refinement from this part alone. `TaskInv`: a task asks about and runs only
what the agent has, and if it runs after the gate, the gate was right (`Fit`, `Right`). What one task does
leaves the others fit because the agent loses nothing before a restart and what was told stays told
(`FitStays`); a restart ends every task. `ReachInv`: what a write has still to call is ahead of its
index, in a list that only grows (`Reach`, `StepGrows`), and what an input has still to deal with
is in its hands or ahead of it. The run has two tasks and two requests; the theorems have any number.
`TypesInv` adds what the types need, such as that who has to send a request has somebody to send it to.

*Agent.* `StackInv`: each frame is one its kind can be in (`Goes1`) and waits for one like the next inner one
(`Waits1`), what comes back comes from one for which the innermost frame was waiting. With it what
a frame records is a matter of the frame alone: `EndInv` says of the frame that ended last what
`AgentSound` promises. `ReportInv` counts: a run that finished and is not among its routing's results is
one of at most one (`Due`), and there the frames above the routing are about to say so.

*Services.* `RateInv`: what is kept of a client is exactly the later part of when it was let through
since it was forgotten, so counting it is counting those (`Filter`'s lemmas). `CredentialsInv`: what a
rotation holds was stored last, or its service was overtaken; what it has passed is under the new key.
`DangerInv`: a verdict in the cache, in the file or on its way fits the code it is about.

*Garden.* Four groups of invariants, each proved with one lemma per kind of action.
`ShapeInv`, `LockInv`, `OldFound`: types, what an activity holds at each place, one holder of the
garden lock. `TextInv` and `FolderInv` for `VaultSafe`: a text that is to be written is nowhere yet
(`PendInv`) and no two notes share one (`Apart`); what a promotion writes back has the texts that the
note has, and a name that is about to be taken is free, or `crossed` says so (`CareTexts`, `AimTexts`);
a note is in its folder, or the promotion under way will move it there (`HomeInv`, `MoveInv`).
`FreshInv`: what a subscriber has read of a note, or was told of a deletion, is still so, or the note is
marked (`indexOff`, `vectorsOff`, `graphOff`). From it follow the three for `DerivedAgree`, which all say
that the store agrees with a note or somebody owes it: `IndexInv` (a subscriber, or a scan that has
not come to it), `VectorInv`, and for the graph `SaidInv`. The graph is the hard one, because it has
rows of many notes, two states (before and after a commit) and hashes by which a rebuild skips notes:
`GraphSaid` and `SavedSaid` go along the subscriber's steps, from a note of which nothing is right to one whose
entities are (`Part`, `Half`) to one of which all is, `HashSaid` says that a hash is kept only of what both
states say, and `RowsInv` that rows fit each other and that `relating` uses identifiers which exist, which
is why a delete meanwhile makes the others forget them (`Forgets`). A proof attempt found three things that
the model had wrong and TLC's bounds had hidden; they are in the exceptions below the runs: a promotion and
a creation that take the same name, a status that a promotion reads stale, and the row that two notes share.

*Migration.* `FlattenInv` of `KnowledgeProofs`, whose parts TLC found true in `knowledge` before they were
proved. What a migration has left to do is what a plan of the notes as they are now would be
(`MovesPlanned`): each move goes to a place of its own that is free unless a person took it meanwhile,
and every note by its kind that can be read is in it. Likewise for a revert (`ReturnsPlanned`). A revert
writes where a note says it was, whatever is there, so it must be shown that nothing else is: all notes
that are or were at a place have one text, unless a person put one there (`OneTextAPlace`). Interruptions
leave copies, but copies only. From these follow that texts are lost only where a person had put a note
(`TextsKept`), that two copies are the two ends of the move at hand (`OneCopy`), and that without
interruptions and additions each note is at home, says where home is, or cannot (`AtHome`). The theorem
has a hypothesis, `NumbersLast`: when a migration begins, each name has a number left for every note
that will have it. `_plan_one` tries the numbers to 999 and then keeps the place that is taken, and
the note that is there would be overwritten; TLC finds `NumbersLast` true in the run, and false there with
numbers up to 4. `FlattenAssumption` says that a first vault is one before any migration: no note states
where it was, each has a text of its own, none lies in the vault's root. That moves are planned in any
order is a recursive function over that order (`Planned`); `PlannedFacts` says what it returns, by an induction over its
length (`NatInd`).

*Watcher.* `WatcherInv`: an event in the observer's queue tells of each path that it changed, or the path is
`astray` (`Truthful`); a path that is not is reloaded once at a time (`AloneAt`), and what that reload has read
is what the disk has, unless there is other news of the path (`InHand`). The assumption is that the index
keeps no path outside of the folders that are watched.

*Curation.* `CurationInv` of `ReviewProofs`. `OneGenerates`: as long as generators did not overlap, the one
under way knows what every open proposal asks for (`Knows`), what it is about to write is not among it, and its
paths are free; so nothing is proposed twice and no draft is written over. `Undisturbed`: of a generator nothing
interfered with, each group is still ahead of it, in its hands, kept apart by a decision, or proposed
(`Handled`). That the union of pairs gives the groups that `Reach` defines, the least closed sets, is an induction
along the pairs (`GroupsFacts`). `Chains`: every tombstone is an alias of an active concept, and if no concept
was created again, no two share an alias and tombstones lead downhill (`Height`), from which follows how far a chain of
so many tombstones goes; with the resolver's and the linter's different limits this is `LintAgrees`. The attempt
found that the model had no limit at all, where the code follows 16 tombstones and the linter one less
than the resolver; it has `DepthLimit` now.

*Compile.* `CompileInv`. Chunks are filled greedily, and no other way to cut the items needs fewer: where the first
chunks of any other way end, greedy ones end no earlier, an induction over the chunks. `Shows`: what the model was
shown are chunks before the one at hand, in order, all but failed ones. `Reports`: what is told and what is still
to be told together are the log's entries for chunks that did not fail (`Filter`'s lemmas); what was
written for a chunk and what is left of its plan are within the limit. `Resolves`, `NoteFits`: the tags so far stand
for what has been resolved of what was asked (`TagsFit`), and a merge keeps that because it takes every word to
one that means itself.

*Retrieval.* `RetrievalInv`: what is given, and what is left to read, lists each text once, newest first in
each folder, within the budget, and finds something if there is something (`InBudget`, `Once`,
`NewestFirst`, `Finds`), each kept by each way a request can go on (`RequestGoes`); `Follow` says what the index
lists of notes that did not move. The attempt found that `NewestIsThere` and `Answered` were false beyond the
bounds of the run at the time: they compared the answer with the index as it is when the request ends, and the index
may catch up after the list was read. They speak of the index at the beginning now (`had`).

*Insight.* `InsightProofs` begins with what its operators compute, each by an induction over what they are folds of:
a finite set has its rankings (`SetToSeqs` is not empty), scores are sums, the points of a fused search tell
places apart (`Unit`), and `Balls` reaches in as many rounds as there are nodes everything that can be reached, so
that components partition the nodes and each distance is that of a shortest way. The invariant has two halves.
`KeptInv`, for what waits on the database: the rows of the graph fit each other at every await (`Whole`),
what a snapshot, a fused search or a merge has read is what the graph still says or its reader is `stirred`, and
what the gateway's caller sees is the cache or what of it he may see. `TopicInv`, for the context: while nobody
stirred the graph, a traversal has found exactly what is nearer than its depth, each at its distance
(`Traversed`); every score is that of something a match reaches (`Backed`), and no note within reach of the matches
that are done has less than its shortest way is worth (`Covered`); what is left to read comes before what is not
(`BestFirst`). At the end `Backed` and `Covered` meet in "the score is the best one", which the run checks by
computing it. The attempt changed the model in several places where the bounds had hidden that it said too much:
ties in a sort were broken by one fixed order; a fused search was not `stirred` when the cache was replaced between
its parts; a traversal was compared with distances of at most as many steps as there are names, whatever the request's
`hops`; and an entity more than fifty steps away has a score that rounds to 0 and is in the context all the same.

Assumptions: `SizeAssumption`, `DeathAssumption`, `KindAssumption` of `WriteQueue`,
`HolderAssumption` and `NothingAssumption` of `MutationLock`, `OldAssumption`, `BoundsAssumption` and
`NamesAssumption` of `ActionLifecycle`, `PlansAssumption`, `InitAssumption`, `FaultsAssumption` and
`NotesAssumption` of `ConceptActions`, `DraftsAssumption` and `ReviewsAssumption` of `ProposalReview`,
`SizesAssumption`, `FaultsAssumption` and `EventsAssumption` of `AuditOutbox`, `EntriesAssumption`, `InputsAssumption`, and those on
types and bounds of `Registry`, `Host`, `Agent`, `RateLimit`, `Credentials` and `Danger`,
`FlattenAssumption` of `Flatten`, `WatcherAssumption` of `Watcher`, `CurationAssumption`, `RetrievalAssumption`,
`CompileAssumption` and `InsightAssumption`. They say that the queue
has room for an item, that the bounds are numbers, that the sets of events, entries, notes, concepts, decisions and
services are finite, that what is installed or set are entries, and that the model values differ.
Those of `Garden` and `Graph` say more: a path is a folder, a title and a number; a new note goes to the seeds or
into a folder of maturity; every text is one thing that somebody wrote, which is what makes "lost" and
"came back" mean something; and the first vault is one the writer leaves (`FirstNotesAssumption`, above).
`CurationAssumption` says that concepts are ordered (`_pick_canonical` compares lengths and then letters), that
similarity is about pairs, that a default policy has a name and the depth limit is not zero; `CompileAssumption` that what a
cut item leaves free has room for the marker that is put there and is less than a budget (80 of at least 5000
characters in the code), and that what a word resolves to resolves to itself. TLC evaluates all of them in every run.
`SecondsDiffer` and `NumbersLast` are hypotheses of the theorems that need them, not assumptions of a module.

Only model-checked:

* the liveness properties (`QueuedIsAnswered`, `BackpressureEnds`, `StopReturns`, `EveryoneEnters`,
  `EveryRowSettled`), because fairness and `ENABLED` are out of the prover's reach.

The four violated properties have their counterexamples instead.

## 5. Not modelled

* External edits of the vault (Obsidian, git), except as the watcher's input.
* A read that overlaps a write of the same file and sees half of it. The lock covers the
  action's readers in the service; an emptied file is modelled where a write fails.
* A task cancelled while its write runs in a thread; see the hazards.
* The content of notes beyond what a property tells apart; similarities and embeddings, which are
  given; the LLM's choices, which are nondeterministic.
* Actions that create or change a policy, deprecated concepts.
* `accept_proposal` and `reject_proposal` are modelled although only the canonicalization service's
  own tests call them; nothing under `gateway/` or `mcp/` does.
* Code without a caller: `vault_backend.py`, `confidence.py`, `contradiction.py`, `conflict.py`,
  `review_queue.py`, `update_frontmatter_related`, `write_catalog`.
* Routes and tools that only read or format, authentication, the CLI, the demo, the importers, prompts,
  `vault_linter.py`, `ontology.py`, `llm_extractor.py`, `multimodal.py`: a request, an answer, no state that
  another one shares.

Seen while reading and not covered by a run: `mcp/admin_tools.py:373-379` calls
`apply_action`, `approve_action` and `reject_action` without their keyword argument `actor`;
`core/scheduler.py:245` never backs off, because `_on_input_trigger` swallows what the poll
raises; `index.py:94` calls expired and failed actions terminal, and `apply_action` applies
them; the proposer's threshold is 0.85 whatever the policy says; the docstring of `delete_by_source`
promises the removal of entities that its SQL keeps; notes under `garden/seed` are never scanned into
the index.

## 6. Plan

1. `ConceptActions` with policies, and with a thread pool beside the event loop, for cancelled
   writes that land late.
2. `Garden` with torn files and a listing of several steps.
