--------------------------- MODULE ActionLifecycle ---------------------------
(***************************************************************************)
(* The life of a create-concept action in CanonicalizationService,         *)
(* bsage/garden/canonicalization/service.py: its note in the vault, the    *)
(* concept note it creates, the index that caches both, and the calls      *)
(* that read, rewrite and reload them.                                     *)
(*                                                                         *)
(* Every storage call is an await: a step is what a call does between two  *)
(* of them.  The per-action lock is Mutex, which MutationLock implements.  *)
(***************************************************************************)
EXTENDS Integers, Sequences, FiniteSets

CONSTANTS Calls,        \* the coroutines that use the service at the same time
          Concepts,     \* normalized tags, the ids of concepts
          Second,       \* per call: the second its drafts are named after
          Old,          \* the drafts that an earlier process left
          MaxSuffix,    \* bound: drafts of one concept in one second
          MaxCalls,     \* bound: calls of the service
          MaxFails,     \* bound: storage calls that raise, and crashes
          None          \* no note, no path

Seconds == {Second[t] : t \in Calls}

\* actions/create-concept/<second>-<concept>[-<suffix>].md
Paths == Concepts \X Seconds \X (1..MaxSuffix)
ConceptOf(p) == p[1]

ASSUME OldAssumption == Old \subseteq Paths
ASSUME BoundsAssumption == MaxSuffix \in Nat \ {0} /\ MaxCalls \in Nat /\ MaxFails \in Nat

\* Definitions named ...Mutant are bugs this code could have had: the run of a property
\* replaces the definition below by its mutant and must see the property violated.

Pending == {"draft", "pending_approval"}

Statuses == Pending \cup {"applied", "rejected", "blocked", "failed", "expired"}

\* A note as read_action gives it.  A note whose text was lost is not whole: its status
\* reads as "draft", its parameters and its evidence as empty.
Entries == [status: Statuses, evidence: SUBSET Calls, whole: BOOLEAN]
Draft == [status |-> "draft", evidence |-> {}, whole |-> TRUE]
Blank == [status |-> "draft", evidence |-> {}, whole |-> FALSE]

ASSUME NamesAssumption ==
  /\ Concepts \cap Paths = {}
  /\ None \notin Calls \cup Concepts \cup Paths \cup Entries

VARIABLES
  note,        \* the vault: per path, the action's note or None
  concept,     \* the vault: per concept, the action that wrote its active note, or None
  index,       \* _actions of the index: per path, the entry it caches or None
  known,       \* _concepts of the index
  past,        \* the actions whose expires_at has passed
  safe,        \* Safe Mode
  inside,      \* the lock: per path, who is inside its section
  call,        \* per call: its local variables
  cut,         \* history: the actions one of whose operations was cut short
  fails,       \* failures so far
  begun        \* calls so far

vars == <<note, concept, index, known, past, safe, inside, call, cut, fails, begun>>

Lock == INSTANCE Mutex WITH Tasks <- Calls

Ops == {"ingest", "create", "apply", "approve", "reject", "expire", "append"}
Places == {"list", "draft", "lock", "check", "read", "validate", "effect", "write",
           "pop", "set"}

Idle == [op |-> "none", at |-> "idle", path |-> None, entry |-> None,
         todo |-> <<>>, got |-> None, sweep |-> {}]

Starting(op, place, p) == [Idle EXCEPT !.op = op, !.at = place, !.path = p]

\* A sweep that is at p and has the rest to do.
Sweeping(p, rest) == [Starting("expire", "lock", p) EXCEPT !.sweep = rest]

Locals == [op: Ops \cup {"none"}, at: Places \cup {"idle"}, path: Paths \cup {None},
           entry: Entries \cup {None}, todo: Seq(Paths \cup Concepts),
           got: Entries \cup {None}, sweep: SUBSET Paths]

TypeOK ==
  /\ note \in [Paths -> Entries \cup {None}]
  /\ concept \in [Concepts -> Paths \cup {None}]
  /\ index \in [Paths -> Entries \cup {None}]
  /\ known \in SUBSET Concepts
  /\ past \in SUBSET Paths
  /\ safe \in BOOLEAN
  /\ inside \in [Paths -> SUBSET Calls]
  /\ call \in [Calls -> Locals]
  /\ cut \in SUBSET Paths
  /\ fails \in 0..MaxFails /\ begun \in 0..MaxCalls

\* The process starts in a vault with drafts of an earlier one, and indexes it.
Init ==
  /\ note = [p \in Paths |-> IF p \in Old THEN Draft ELSE None]
  /\ concept = [c \in Concepts |-> None]
  /\ index = note
  /\ known = {} /\ past = {} /\ safe \in BOOLEAN
  /\ Lock!MInit
  /\ call = [t \in Calls |-> Idle]
  /\ cut = {} /\ fails = 0 /\ begun = 0

-----------------------------------------------------------------------------
\* Helpers.

\* What every step of a call changes: the call itself and little else.
vault == <<note, concept>>
cache == <<index, known>>
world == <<past, safe, cut, fails, begun>>

Goes(t, place) == call' = [call EXCEPT ![t].at = place]

\* The call leaves the section of its path; a sweep goes on to its next action.
Leaves(t) ==
  /\ Lock!Leave(t, call[t].path)
  /\ \/ call[t].sweep = {} /\ call' = [call EXCEPT ![t] = Idle]
     \/ \E p \in call[t].sweep :
          call' = [call EXCEPT ![t] = Sweeping(p, call[t].sweep \ {p})]

\* The call will write its copy of the entry, changed to e.
Writes(t, e) == call' = [call EXCEPT ![t].at = "write", ![t].entry = e]

Free(c, s, n) == note[<<c, s, n>>] = None

CollisionSuffixMutant(c, s) ==
  {n \in 1..(MaxSuffix + 1) : \A m \in 1..(n - 1) : ~Free(c, s, m)}

\* with_collision_suffix: the first suffix that the listing does not have.
CollisionSuffix(c, s) ==
  {n \in 1..MaxSuffix : Free(c, s, n) /\ \A m \in 1..(n - 1) : ~Free(c, s, m)}

\* find_pending_concept_draft: the drafts of c in the index.
PendingDrafts(c) ==
  {p \in Paths : /\ index[p] # None /\ ConceptOf(p) = c
                 /\ index[p].whole /\ index[p].status \in Pending}

-----------------------------------------------------------------------------
\* Calls.

Begin(t, fields) ==
  /\ call[t] = Idle
  /\ call' = [call EXCEPT ![t] = fields]
  /\ begun < MaxCalls /\ begun' = begun + 1
  /\ UNCHANGED <<vault, cache, past, safe, cut, fails, inside>>

\* create_action_draft, by REST or MCP.
CallCreate(t, c) ==
  /\ CollisionSuffix(c, Second[t]) # {}      \* bound: a name is left
  /\ Begin(t, Starting("create", "list", <<c, Second[t], 1>>))

\* resolve_and_canonicalize of a tag that is not a concept: it adds to the evidence of
\* the pending draft, or drafts one and applies it.
CallIngest(t, c) ==
  /\ c \notin known
  /\ \/ \E p \in PendingDrafts(c) : Begin(t, Starting("append", "lock", p))
     \/ /\ PendingDrafts(c) = {}
        /\ CollisionSuffix(c, Second[t]) # {}
        /\ Begin(t, Starting("ingest", "list", <<c, Second[t], 1>>))

\* apply_action, approve_action and reject_action of an action that was listed.
CallOn(t, op, p) ==
  /\ op \in {"apply", "approve", "reject"}
  /\ index[p] # None
  /\ Begin(t, Starting(op, "lock", p))

\* expire_stale: the actions that are pending and past expires_at, in the index.
CallExpire(t) ==
  LET stale == {p \in past : index[p] # None /\ index[p].status \in Pending} IN
  \E p \in stale : Begin(t, Sweeping(p, stale \ {p}))

-----------------------------------------------------------------------------
\* Drafting: no lock is held.

\* The directory is listed and the name chosen.
List(t) ==
  /\ call[t].at = "list"
  /\ \E n \in CollisionSuffix(call[t].path[1], call[t].path[2]) :
       call' = [call EXCEPT ![t].at = "draft",
                            ![t].path = <<call[t].path[1], call[t].path[2], n>>]
  /\ UNCHANGED <<vault, cache, world, inside>>

\* The draft is written; the service and then the event make the index reload it.
WriteDraft(t) ==
  LET p == call[t].path IN
  /\ call[t].at = "draft"
  /\ note' = [note EXCEPT ![p] = Draft]
  /\ past' = past \ {p}
  /\ call' = [call EXCEPT ![t].at = "pop", ![t].todo = <<p, p>>]
  /\ UNCHANGED <<concept, cache, safe, cut, fails, begun, inside>>

-----------------------------------------------------------------------------
\* Under the lock of the action.

EnterMutant(t) ==
  /\ call[t].at = "lock"
  /\ inside' = [inside EXCEPT ![call[t].path] = {t}]
  /\ Goes(t, IF call[t].op = "approve" THEN "check" ELSE "read")
  /\ UNCHANGED <<vault, cache, world>>

\* async with self._lock.guard(action_path).
Enter(t) ==
  /\ call[t].at = "lock"
  /\ Lock!Enter(t, call[t].path)
  /\ Goes(t, IF call[t].op = "approve" THEN "check" ELSE "read")
  /\ UNCHANGED <<vault, cache, world>>

RefusesMutant(op, status) ==
  IF op = "apply" \/ op = "approve" THEN status = "applied" ELSE status \notin Pending

RefusesLateMutant(op, status) ==
  IF op = "apply" \/ op = "approve" THEN status \in {"applied", "rejected"}
                                    ELSE status = "rejected"

\* The statuses the operation has nothing to do for.
Refuses(op, status) ==
  IF op = "apply" \/ op = "approve" THEN status \in {"applied", "rejected"}
                                    ELSE status \notin Pending

\* approve_action reads the note, and _apply_locked reads it again.
Check(t) ==
  LET e == note[call[t].path] IN
  /\ call[t].at = "check"
  /\ IF e # None /\ e.status \in Pending
     THEN Goes(t, "read") /\ UNCHANGED inside ELSE Leaves(t)
  /\ UNCHANGED <<vault, cache, world>>

\* Under the lock the note is read; there may be nothing left to do.
NothingToDo(t) ==
  LET e == note[call[t].path] IN e = None \/ Refuses(call[t].op, e.status)

\* What was read decides: leave, or write the entry changed to e.
WritesUnless(t, nothing, e) ==
  /\ IF nothing THEN Leaves(t) ELSE Writes(t, e) /\ UNCHANGED inside
  /\ UNCHANGED <<vault, cache, world>>

AtRead(t, op) == call[t].at = "read" /\ call[t].op = op

\* _apply_locked, to its validation.
BeginApply(t) ==
  /\ AtRead(t, "apply") \/ AtRead(t, "approve")
  /\ IF NothingToDo(t)
     THEN Leaves(t)
     ELSE /\ call' = [call EXCEPT ![t].at = "validate", ![t].entry = note[call[t].path]]
          /\ UNCHANGED inside
  /\ UNCHANGED <<vault, cache, world>>

\* reject_action
Reject(t) ==
  /\ AtRead(t, "reject")
  /\ WritesUnless(t, NothingToDo(t), [note[call[t].path] EXCEPT !.status = "rejected"])

\* expire_stale, for one action: it reads the note again.
Expire(t) ==
  /\ AtRead(t, "expire")
  /\ WritesUnless(t, NothingToDo(t) \/ call[t].path \notin past,
                  [note[call[t].path] EXCEPT !.status = "expired"])

\* _append_pending_evidence
AppendEvidence(t) ==
  /\ AtRead(t, "append")
  /\ WritesUnless(t, NothingToDo(t), [note[call[t].path] EXCEPT !.evidence = @ \cup {t}])

\* _validate_create_concept: a whole entry, of a concept that does not exist.
Valid(t) == call[t].entry.whole /\ concept[ConceptOf(call[t].path)] = None

\* _persist_blocked
Block(t) ==
  /\ call[t].at = "validate" /\ ~Valid(t)
  /\ Writes(t, [call[t].entry EXCEPT !.status = "blocked"])
  /\ UNCHANGED <<vault, cache, world, inside>>

\* Safe Mode is read after the validation; an approval does not ask for one.
AsksApproval(t) == call[t].op # "approve" /\ safe

\* _handle_safe_mode
AskApproval(t) ==
  /\ call[t].at = "validate" /\ Valid(t) /\ AsksApproval(t)
  /\ Writes(t, [call[t].entry EXCEPT !.status = "pending_approval"])
  /\ UNCHANGED <<vault, cache, world, inside>>

BeginEffect(t) ==
  /\ call[t].at = "validate" /\ Valid(t) /\ ~AsksApproval(t)
  /\ Goes(t, "effect")
  /\ UNCHANGED <<vault, cache, world, inside>>

\* _effect_create_concept.
Effect(t) ==
  /\ call[t].at = "effect"
  /\ concept' = [concept EXCEPT ![ConceptOf(call[t].path)] = call[t].path]
  /\ Writes(t, [call[t].entry EXCEPT !.status = "applied"])
  /\ UNCHANGED <<note, cache, world, inside>>

ReloadsMutant(p, status, changed) == <<p>>

\* The reloads after the note was written: the service's own, then one per event.
Reloads(p, status, changed) ==
  LET event == IF changed THEN <<p>> ELSE <<>> IN
  CASE status = "applied" -> <<p, ConceptOf(p)>> \o event \o <<p, ConceptOf(p)>>
    [] status = "failed"  -> event
    [] OTHER              -> <<p>> \o event

\* write_action, of the whole entry that was read.
Write(t) ==
  LET p == call[t].path
      e == call[t].entry IN
  /\ call[t].at = "write"
  /\ note' = [note EXCEPT ![p] = e]
  /\ call' = [call EXCEPT ![t].at = "pop",
       ![t].todo = Reloads(p, e.status, note[p].status # e.status)]
  /\ UNCHANGED <<concept, cache, world, inside>>

-----------------------------------------------------------------------------
\* _reload_path of the index, for each path in todo.  Nothing in this module deletes a
\* note, so the exists() before it is true.

\* The cached entry is dropped and the read begins.  A read that happens later sees what
\* a reload that begins later sees: it is done at once.  Of a concept
\* the index caches that it is there.
Pop(t) ==
  LET x == Head(call[t].todo) IN
  /\ call[t].at = "pop" /\ call[t].todo # <<>>
  /\ IF x \in Concepts THEN known' = known \ {x} /\ UNCHANGED index
                      ELSE index' = [index EXCEPT ![x] = None] /\ UNCHANGED known
  /\ call' = [call EXCEPT ![t].at = "set",
                          ![t].got = IF x \in Concepts THEN None ELSE note[x]]
  /\ UNCHANGED <<vault, world, inside>>

\* What was read is cached.
Set(t) ==
  LET x == Head(call[t].todo) IN
  /\ call[t].at = "set"
  /\ IF x \in Concepts THEN known' = known \cup {x} /\ UNCHANGED index
                      ELSE index' = [index EXCEPT ![x] = call[t].got] /\ UNCHANGED known
  /\ call' = [call EXCEPT ![t].at = "pop", ![t].got = None, ![t].todo = Tail(@)]
  /\ UNCHANGED <<vault, world, inside>>

\* All is reloaded: a draft returns, or its ingest applies it; the others leave the lock.
Done(t) ==
  /\ call[t].at = "pop" /\ call[t].todo = <<>>
  /\ \/ /\ call[t].op = "create"
        /\ call' = [call EXCEPT ![t] = Idle]
        /\ UNCHANGED inside
     \/ /\ call[t].op = "ingest"
        /\ call' = [call EXCEPT ![t] = Starting("apply", "lock", call[t].path)]
        /\ UNCHANGED inside
     \/ call[t].op \notin {"create", "ingest"} /\ Leaves(t)
  /\ UNCHANGED <<vault, cache, world>>

-----------------------------------------------------------------------------
\* Failures.

\* The storage raises in _persist_effects, before or after the text is there.
EffectFails(t) ==
  /\ call[t].at = "effect" /\ fails < MaxFails
  /\ \/ concept' = [concept EXCEPT ![ConceptOf(call[t].path)] = call[t].path]
     \/ UNCHANGED concept
  /\ Writes(t, [call[t].entry EXCEPT !.status = "failed"])
  /\ cut' = cut \cup {call[t].path} /\ fails' = fails + 1
  /\ UNCHANGED <<note, cache, past, safe, begun, inside>>

\* Another storage call raises: guard() releases the lock and the call ends.  Opening
\* the file empties it, so a write that fails may leave it empty.
StorageFails(t) ==
  LET p == call[t].path IN
  /\ call[t].at \in {"list", "draft", "check", "read", "validate", "write", "set"}
  /\ fails < MaxFails
  /\ \/ /\ call[t].at \in {"draft", "write"}
        /\ note' = [note EXCEPT ![p] = Blank] /\ past' = past \cup {p}
     \/ UNCHANGED <<note, past>>
  /\ inside' = [inside EXCEPT ![p] = @ \ {t}]
  /\ call' = [call EXCEPT ![t] = Idle]
  /\ cut' = cut \cup {p} /\ fails' = fails + 1
  /\ UNCHANGED <<concept, cache, safe, begun>>

\* The process dies with every call and lock in it; the next one builds the index from
\* the vault.  A note that was being written may be empty.
Crash ==
  LET busy == {call[t].path : t \in {u \in Calls : call[u].at # "idle"}}
      written == {call[t].path : t \in {u \in Calls : call[u].at \in {"draft", "write"}}} IN
  /\ fails < MaxFails
  /\ \E empty \in SUBSET written :
       /\ note' = [p \in Paths |-> IF p \in empty THEN Blank ELSE note[p]]
       /\ past' = past \cup empty
  /\ index' = note'
  /\ known' = {c \in Concepts : concept[c] # None}
  /\ inside' = [p \in Paths |-> {}]
  /\ call' = [t \in Calls |-> Idle]
  /\ cut' = cut \cup busy /\ fails' = fails + 1
  /\ UNCHANGED <<concept, safe, begun>>

-----------------------------------------------------------------------------
\* The operator turns Safe Mode on or off, and time passes.
Toggle ==
  /\ safe' = ~safe
  /\ UNCHANGED <<vault, cache, past, inside, call, cut, fails, begun>>

Age(p) ==
  /\ note[p] # None /\ p \notin past
  /\ past' = past \cup {p}
  /\ UNCHANGED <<vault, cache, safe, inside, call, cut, fails, begun>>

\* What a call that has begun does next, unless it waits for the lock.
Step(t) ==
  \/ List(t) \/ WriteDraft(t) \/ Check(t) \/ BeginApply(t) \/ Reject(t) \/ Expire(t)
  \/ AppendEvidence(t) \/ Block(t) \/ AskApproval(t) \/ BeginEffect(t) \/ Effect(t)
  \/ Write(t) \/ Pop(t) \/ Set(t) \/ Done(t)

Next ==
  \/ \E t \in Calls :
       \/ \E c \in Concepts : CallCreate(t, c) \/ CallIngest(t, c)
       \/ \E op \in Ops, p \in Paths : CallOn(t, op, p)
       \/ CallExpire(t) \/ Enter(t) \/ Step(t) \/ EffectFails(t) \/ StorageFails(t)
  \/ Crash \/ Toggle \/ \E p \in Paths : Age(p)

Spec == Init /\ [][Next]_vars

-----------------------------------------------------------------------------
\* Why the properties hold: the parts of the inductive invariants of the proofs.

\* What the local variables of a call hold at each place.
Shape(t) ==
  /\ call[t].at = "idle" \/ call[t].path \in Paths
  /\ call[t].at \in {"validate", "effect", "write"} => call[t].entry \in Entries
  /\ call[t].at \notin {"pop", "set"} => call[t].todo = <<>>
  /\ \A i \in DOMAIN call[t].todo : call[t].todo[i] \in {call[t].path, ConceptOf(call[t].path)}
  /\ call[t].at = "set" => call[t].todo # <<>>

\* A call between the entry and the exit of the section of its path is there alone, and
\* in no other.
Locked(t) ==
  \/ call[t].at \in {"check", "read", "validate", "effect", "write"}
  \/ call[t].at \in {"pop", "set"} /\ call[t].op \notin {"create", "ingest"}

Alone(t) ==
  /\ Locked(t) => inside[call[t].path] = {t}
  /\ \A p \in Paths : t \in inside[p] => Locked(t) /\ p = call[t].path

\* A call that will write an action read it under the lock, and it was not final.
Fresh(t) ==
  call[t].at \in {"validate", "effect", "write"} =>
    LET e == note[call[t].path] IN
    /\ e # None /\ e.status \notin {"applied", "rejected"}
    /\ e.evidence \subseteq call[t].entry.evidence

\* The name of a draft is its own until it is written.
Named(t) ==
  /\ call[t].at \in {"list", "draft"} => call[t].path[2] = Second[t]
  /\ call[t].at = "draft" => note[call[t].path] = None

\* "applied" is written after the concept.
Created(t) ==
  call[t].at = "write" /\ call[t].entry.status = "applied" =>
    concept[ConceptOf(call[t].path)] # None

\* Only create and ingest make drafts, and they do not take the lock for it.
Drafts(t) ==
  call[t].at \notin {"pop", "set"} =>
    (call[t].op \in {"create", "ingest"} <=> call[t].at \in {"list", "draft"})

Ordered(t) == Alone(t) /\ Fresh(t) /\ Named(t) /\ Created(t) /\ Drafts(t)

CallInv == \A t \in Calls : Ordered(t)

\* No two calls draft in the same second.
SecondsDiffer == \A t, u \in Calls : Second[t] = Second[u] => t = u

-----------------------------------------------------------------------------
\* Properties.

\* Who is asked "was it applied?" gets one answer for ever: applied and rejected are
\* final, whichever apply, approval, rejection, sweep and ingest run at the same time and
\* wherever they fail.
Final(p) == note[p] # None /\ note[p].status \in {"applied", "rejected"}

FinalStays == [][\A p \in Paths : Final(p) => Final(p)' /\ note'[p].status = note[p].status]_vars

\* The evidence that ingest adds to a pending draft survives the calls that rewrite the
\* whole note, as long as none of them is cut short.
EvidenceKept ==
  [][\A p \in Paths : note[p] # None /\ p \notin cut' =>
       note[p].evidence \subseteq note'[p].evidence]_vars

\* A concept note comes from an action that says so: its action is applied, or is being
\* applied by the call that holds its lock, unless it was cut short.  And what was
\* applied is there.
EffectOwned ==
  /\ \A c \in Concepts : concept[c] # None =>
       \/ concept[c] \in cut
       \/ note[concept[c]].status = "applied"
       \/ \E t \in inside[concept[c]] : call[t].at = "write" /\ call[t].entry.status = "applied"
  /\ \A p \in Paths : note[p] # None /\ note[p].status = "applied" => concept[ConceptOf(p)] # None

\* The call has written the concept, or is writing it, and will reload it.
WillReload(t, c) ==
  \/ /\ call[t].at = "write" /\ call[t].entry.status = "applied"
     /\ ConceptOf(call[t].path) = c
  \/ \E i \in DOMAIN call[t].todo : call[t].todo[i] = c

\* A concept in the vault is resolved by the index, or will be: while it is missing from
\* the cache some call has yet to reload it, unless an action on it was cut short.
ConceptsKnown ==
  \A c \in Concepts : concept[c] # None /\ c \notin known =>
    (\E p \in cut : ConceptOf(p) = c) \/ \E t \in Calls : WillReload(t, c)

ShapeInv == TypeOK /\ (\A t \in Calls : Shape(t)) /\ ConceptsKnown

IInv == /\ ShapeInv /\ CallInv /\ EffectOwned
        /\ \A c \in Concepts : concept[c] # None => note[concept[c]] # None

\* approve_action: "approval MUST rerun freshness [...] If the action became stale [...]
\* while waiting, approval fails with ``expired``".
ApprovalIsFresh ==
  [][\A t \in Calls : call[t].op = "approve" /\ call[t].path \in past =>
       ~(call[t].at = "read" /\ call'[t].at = "validate")]_vars

\* "The index is kept fresh by invalidating affected paths after each successful apply",
\* and "re-invalidating an already-fresh path is a no-op": when nothing runs and nothing
\* has failed, it holds what the vault holds.
IndexFresh ==
  (fails = 0 /\ \A t \in Calls : call[t] = Idle) => index = note
=============================================================================
