----------------------- MODULE ActionLifecycleProofs -----------------------
(***************************************************************************)
(* Proofs about ActionLifecycle, for any concepts, calls and seconds: its  *)
(* types, and that a concept the index lacks will be reloaded; and, when   *)
(* no two calls draft in the same second, what the lock and the reads      *)
(* under it give: that final statuses stay, that no evidence is lost and   *)
(* that a concept note has its action.                                     *)
(***************************************************************************)
EXTENDS ActionLifecycle, SequenceTheorems, TLAPS

-----------------------------------------------------------------------------
\* Paths, entries and the sequences of reloads.

\* A path names a concept and is not one.
LEMMA PathLemma ==
  /\ \A p \in Paths : ConceptOf(p) \in Concepts /\ p \notin Concepts
  /\ \A p \in Paths, n \in 1..MaxSuffix : <<p[1], p[2], n>> \in Paths
  /\ \A c \in Concepts, t \in Calls : <<c, Second[t], 1>> \in Paths
BY BoundsAssumption, NamesAssumption DEF Paths, ConceptOf, Seconds

\* The entries that the operations make of others are entries.
LEMMA EntryLemma ==
  /\ Draft \in Entries /\ Blank \in Entries
  /\ \A e \in Entries : e.status \in Statuses /\ e.evidence \subseteq Calls
  /\ \A e \in Entries, s \in Statuses : /\ [e EXCEPT !.status = s] \in Entries
                                        /\ [e EXCEPT !.status = s].status = s
                                        /\ [e EXCEPT !.status = s].evidence = e.evidence
  /\ \A e \in Entries, t \in Calls :
       /\ [e EXCEPT !.evidence = @ \cup {t}] \in Entries
       /\ [e EXCEPT !.evidence = @ \cup {t}].status = e.status
       /\ [e EXCEPT !.evidence = @ \cup {t}].evidence = e.evidence \cup {t}
  /\ None \notin Entries /\ None \notin Paths
  BY NamesAssumption DEF Entries, Draft, Blank, Statuses, Pending

\* What is reloaded is the action or its concept, and after an application both are.
LEMMA ReloadsLemma ==
  ASSUME NEW p \in Paths, NEW s \in Statuses, NEW changed \in BOOLEAN
  PROVE  /\ Reloads(p, s, changed) \in Seq(Paths \cup Concepts)
         /\ \A i \in DOMAIN Reloads(p, s, changed) :
              Reloads(p, s, changed)[i] \in {p, ConceptOf(p)}
         /\ s = "applied" =>
              \E i \in DOMAIN Reloads(p, s, changed) : Reloads(p, s, changed)[i] = ConceptOf(p)
<1> DEFINE c == ConceptOf(p)
           event == IF changed THEN <<p>> ELSE <<>>
           a == <<p, c>> \o event
           b == a \o <<p, c>>
           T == {p, c}
<1>1. c \in Concepts
  BY PathLemma
<1> HIDE DEF c
<1>2. event \in Seq(T) /\ <<p>> \in Seq(T) /\ <<p, c>> \in Seq(T)
  <2>1. <<>> \in Seq(T) /\ <<p>> \in Seq(T) /\ <<p, c>> \in Seq(T)
    OBVIOUS
  <2>2. event \in {<<>>, <<p>>}
    OBVIOUS
  <2> HIDE DEF event
  <2>3. QED
    BY <2>1, <2>2
<1> HIDE DEF event
<1>3. a \in Seq(T) /\ 2 \in DOMAIN a /\ a[2] = c
  BY <1>2, ConcatProperties, LenProperties
<1> HIDE DEF a
<1>4. b \in Seq(T) /\ 2 \in DOMAIN b /\ b[2] = c
  BY <1>2, <1>3, ConcatProperties, LenProperties
<1> HIDE DEF b
<1>5. <<p>> \o event \in Seq(T)
  BY <1>2, ConcatProperties
<1> DEFINE r == Reloads(p, s, changed)
<1>6. r = CASE s = "applied" -> b [] s = "failed" -> event [] OTHER -> <<p>> \o event
  BY DEF Reloads, a, b, event, c
<1>7. r \in Seq(T) /\ (s = "applied" => r = b)
  BY <1>2, <1>4, <1>5, <1>6
<1>8. T \subseteq Paths \cup Concepts
  BY <1>1
<1> HIDE DEF r
<1>9. r \in Seq(Paths \cup Concepts)
  BY <1>7, <1>8
<1>10. \A i \in DOMAIN r : r[i] \in T
  BY <1>7
<1>11. QED
  BY <1>4, <1>7, <1>9, <1>10 DEF r, c

-----------------------------------------------------------------------------
\* The local variables, and what is to be reloaded.  A step of one call leaves the
\* variables of the others alone.

Others(t) ==
  /\ call' \in [Calls -> Locals]
  /\ \A u \in Calls \ {t} : call'[u] = call[u]

\* What the locals of a call are.
LEMMA LocalsLemma ==
  ASSUME TypeOK, NEW t \in Calls
  PROVE  /\ call[t] \in Locals
         /\ call[t].op \in Ops \cup {"none"} /\ call[t].at \in Places \cup {"idle"}
         /\ call[t].path \in Paths \cup {None} /\ call[t].entry \in Entries \cup {None}
         /\ call[t].todo \in Seq(Paths \cup Concepts)
         /\ call[t].got \in Entries \cup {None} /\ call[t].sweep \in SUBSET Paths
  BY DEF TypeOK, Locals

\* The records that a call starts from.
LEMMA IdleLemma == Idle \in Locals
BY DEF Idle, Locals

LEMMA StartLemma ==
  ASSUME NEW op \in Ops, NEW at \in Places, NEW p \in Paths
  PROVE  /\ Starting(op, at, p) \in Locals /\ Starting(op, at, p).at = at
         /\ Starting(op, at, p).op = op
         /\ Starting(op, at, p).path = p /\ Starting(op, at, p).todo = <<>>
<1>1. <<>> \in Seq(Paths \cup Concepts)
  OBVIOUS
<1>2. QED
  BY <1>1 DEF Idle, Starting, Locals

LEMMA SweepLemma ==
  ASSUME NEW p \in Paths, NEW s \in SUBSET Paths
  PROVE  /\ Sweeping(p, s) \in Locals /\ Sweeping(p, s).at = "lock"
         /\ Sweeping(p, s).op = "expire"
         /\ Sweeping(p, s).path = p /\ Sweeping(p, s).todo = <<>>
<1>1. "expire" \in Ops /\ "lock" \in Places
  BY DEF Ops, Places
<1>2. <<>> \in Seq(Paths \cup Concepts)
  OBVIOUS
<1>3. QED
  BY <1>1, <1>2 DEF Idle, Starting, Sweeping, Locals

\* What a call begins with.
Beginnings(t) ==
  {r \in Locals : /\ r.at \in {"list", "lock"} /\ r.path \in Paths /\ r.todo = <<>>
                  /\ r.at = "list" => r.path[2] = Second[t]
                  /\ r.op \in {"create", "ingest"} <=> r.at = "list"}

\* A call gets new local variables.
LEMMA SetLemma ==
  ASSUME TypeOK, NEW t \in Calls, NEW r \in Locals, call' = [call EXCEPT ![t] = r]
  PROVE  Others(t) /\ call'[t] = r
  BY DEF TypeOK, Others

\* A call goes to another place.
LEMMA GoesLemma ==
  ASSUME TypeOK, NEW t \in Calls, NEW place \in Places, Goes(t, place)
  PROVE  Others(t) /\ call'[t] = [call[t] EXCEPT !.at = place]
<1> DEFINE r == [call[t] EXCEPT !.at = place]
<1>1. r \in Locals
  BY LocalsLemma DEF Locals
<1>2. call' = [call EXCEPT ![t] = r]
  BY DEF Goes
<1> HIDE DEF r
<1>3. Others(t) /\ call'[t] = r
  BY <1>1, <1>2, SetLemma
<1>4. QED
  BY <1>3 DEF r

\* A call has an entry to write.
LEMMA WritesLemma ==
  ASSUME TypeOK, NEW t \in Calls, NEW e \in Entries, Writes(t, e)
  PROVE  /\ Others(t)
         /\ call'[t] = [call[t] EXCEPT !.at = "write", !.entry = e]
<1> DEFINE r == [call[t] EXCEPT !.at = "write", !.entry = e]
<1>1. r \in Locals
  BY LocalsLemma DEF Locals, Places
<1>2. call' = [call EXCEPT ![t] = r]
  BY DEF Writes, TypeOK
<1> HIDE DEF r
<1>3. Others(t) /\ call'[t] = r
  BY <1>1, <1>2, SetLemma
<1>4. QED
  BY <1>3 DEF r

\* A call has read an entry.
LEMMA ReadsLemma ==
  ASSUME TypeOK, NEW t \in Calls, NEW e \in Entries,
         call' = [call EXCEPT ![t].at = "validate", ![t].entry = e]
  PROVE  /\ Others(t)
         /\ call'[t] = [call[t] EXCEPT !.at = "validate", !.entry = e]
<1> DEFINE r == [call[t] EXCEPT !.at = "validate", !.entry = e]
<1>1. r \in Locals
  BY LocalsLemma DEF Locals, Places
<1>2. call' = [call EXCEPT ![t] = r]
  BY DEF TypeOK
<1> HIDE DEF r
<1>3. Others(t) /\ call'[t] = r
  BY <1>1, <1>2, SetLemma
<1>4. QED
  BY <1>3 DEF r

\* A call leaves the lock: it ends, or it is a sweep that waits for the next lock.
LEMMA LeavesLemma ==
  ASSUME TypeOK, NEW t \in Calls, call[t].path \in Paths, Leaves(t)
  PROVE  /\ Others(t)
         /\ inside[call[t].path] = {t}
         /\ inside' = [inside EXCEPT ![call[t].path] = {}]
         /\ inside' \in [Paths -> SUBSET Calls]
         /\ call'[t].at \in {"idle", "lock"} /\ call'[t].todo = <<>>
         /\ call'[t].at = "idle" \/ call'[t].path \in Paths
         /\ call'[t].op \in {"none", "expire"}
<1>1. /\ inside[call[t].path] = {t} /\ inside' = [inside EXCEPT ![call[t].path] = {}]
      /\ inside' \in [Paths -> SUBSET Calls]
  BY DEF Leaves, Lock!Leave, TypeOK
<1>2. CASE call' = [call EXCEPT ![t] = Idle]
  <2>1. Others(t) /\ call'[t] = Idle
    BY <1>2, IdleLemma, SetLemma
  <2>2. QED
    BY <1>1, <2>1 DEF Idle
<1>3. ASSUME NEW p \in call[t].sweep,
             call' = [call EXCEPT ![t] = Sweeping(p, call[t].sweep \ {p})]
      PROVE  /\ Others(t) /\ call'[t].op = "expire"
             /\ call'[t].at = "lock" /\ call'[t].todo = <<>> /\ call'[t].path \in Paths
  <2>1. p \in Paths /\ call[t].sweep \ {p} \in SUBSET Paths
    BY LocalsLemma
  <2> DEFINE r == Sweeping(p, call[t].sweep \ {p})
  <2>2. r \in Locals /\ r.op = "expire" /\ r.at = "lock" /\ r.todo = <<>> /\ r.path = p
    BY <2>1, SweepLemma
  <2>3. call' = [call EXCEPT ![t] = r]
    BY <1>3
  <2> HIDE DEF r
  <2>4. QED
    BY <2>1, <2>2, <2>3, SetLemma
<1>4. QED
  BY <1>1, <1>2, <1>3 DEF Leaves

\* Others keep their shape and what they will reload.
LEMMA ShapeFrame ==
  ASSUME ShapeInv, NEW t \in Calls, Others(t), Shape(t)'
  PROVE  /\ \A u \in Calls : Shape(u)'
         /\ \A u \in Calls \ {t}, c \in Concepts : WillReload(u, c) => WillReload(u, c)'
  BY DEF ShapeInv, Others, Shape, WillReload

\* A concept that is missing from the cache will still be reloaded.
LEMMA KnownFrame ==
  ASSUME ShapeInv, NEW t \in Calls, Others(t), Shape(t)', cut \subseteq cut',
         \A c \in Concepts : concept'[c] # None /\ c \notin known' =>
           \/ WillReload(t, c)'
           \/ \E p \in cut' : ConceptOf(p) = c
           \/ concept[c] # None /\ c \notin known /\ ~WillReload(t, c)
  PROVE  ConceptsKnown'
BY ShapeFrame DEF ConceptsKnown, ShapeInv

-----------------------------------------------------------------------------
\* Every step keeps ShapeInv.

LEMMA InitShape == Init => ShapeInv
<1> SUFFICES ASSUME Init PROVE ShapeInv
  OBVIOUS
<1>1. TypeOK
  BY OldAssumption, BoundsAssumption, EntryLemma, IdleLemma
     DEF Init, TypeOK, Lock!MInit
<1>2. \A t \in Calls : Shape(t)
  BY DEF Init, Shape, Idle
<1>3. ConceptsKnown
  BY DEF Init, ConceptsKnown
<1>4. QED
  BY <1>1, <1>2, <1>3 DEF ShapeInv

\* A step of a call that has nothing to reload and writes nothing.
LEMMA QuietShape ==
  ASSUME ShapeInv, NEW t \in Calls, Others(t), Shape(t)',
         call[t].todo = <<>>, call[t].at # "write",
         UNCHANGED <<vault, cache, past, safe, cut, fails>>,
         inside' \in [Paths -> SUBSET Calls], begun' \in 0..MaxCalls
  PROVE  ShapeInv'
BY ShapeFrame, KnownFrame DEF ShapeInv, TypeOK, Others, vault, cache, WillReload

\* A call begins.
LEMMA BeginShape ==
  ASSUME ShapeInv, NEW t \in Calls, NEW r \in Beginnings(t), Begin(t, r)
  PROVE  ShapeInv'
<1>1. r \in Locals /\ r.at \in {"list", "lock"} /\ r.path \in Paths /\ r.todo = <<>>
  BY DEF Beginnings
<1>2. call' = [call EXCEPT ![t] = r] /\ call[t] = Idle
  BY DEF Begin
<1>3. Others(t) /\ call'[t] = r
  BY <1>1, <1>2, SetLemma DEF ShapeInv
<1>4. Shape(t)'
  BY <1>1, <1>3 DEF Shape
<1>5. /\ UNCHANGED <<vault, cache, past, safe, cut, fails>>
      /\ inside' \in [Paths -> SUBSET Calls] /\ begun' \in 0..MaxCalls
  BY BoundsAssumption DEF Begin, ShapeInv, TypeOK
<1>6. call[t].todo = <<>> /\ call[t].at # "write"
  BY <1>2 DEF Idle
<1>7. QED
  BY <1>3, <1>4, <1>5, <1>6, QuietShape

\* The four calls begin in this way.
LEMMA CallBegins ==
  ASSUME TypeOK, NEW t \in Calls,
         \/ \E c \in Concepts : CallCreate(t, c) \/ CallIngest(t, c)
         \/ \E op \in Ops, p \in Paths : CallOn(t, op, p)
         \/ CallExpire(t)
  PROVE  \E r \in Beginnings(t) : Begin(t, r)
<1> DEFINE Locking == {"apply", "approve", "reject", "append", "expire"}
<1>1. /\ Locking \subseteq Ops \ {"create", "ingest"} /\ {"create", "ingest"} \subseteq Ops
      /\ {"list", "lock"} \subseteq Places
  BY DEF Ops, Places
<1>2. /\ \A op \in Locking, p \in Paths : Starting(op, "lock", p) \in Beginnings(t)
      /\ \A p \in Paths, s \in SUBSET Paths : Sweeping(p, s) \in Beginnings(t)
  BY <1>1, StartLemma, SweepLemma DEF Beginnings
<1>3. ASSUME NEW op \in {"create", "ingest"}, NEW c \in Concepts
      PROVE  Starting(op, "list", <<c, Second[t], 1>>) \in Beginnings(t)
  BY PathLemma, <1>1, StartLemma DEF Beginnings
<1>4. ASSUME NEW c \in Concepts, CallCreate(t, c) \/ CallIngest(t, c)
      PROVE  \E r \in Beginnings(t) : Begin(t, r)
  BY <1>1, <1>2, <1>3, <1>4 DEF CallCreate, CallIngest, PendingDrafts
<1>5. ASSUME NEW op \in Ops, NEW p \in Paths, CallOn(t, op, p)
      PROVE  \E r \in Beginnings(t) : Begin(t, r)
  BY <1>2, <1>5 DEF CallOn
<1>6. CASE CallExpire(t)
  BY <1>6, <1>2 DEF CallExpire, TypeOK
<1>7. QED
  BY <1>4, <1>5, <1>6

\* A call under the lock, or one that has written everything, leaves or goes on.
LEMMA OnwardShape ==
  ASSUME ShapeInv, NEW t \in Calls, call[t].todo = <<>>, call[t].path \in Paths,
         call[t].at # "write", UNCHANGED <<vault, cache, world>>,
         \/ Leaves(t)
         \/ /\ inside' \in [Paths -> SUBSET Calls]
            /\ \/ \E place \in {"check", "read"} : Goes(t, place)
               \/ Goes(t, "effect") /\ call[t].entry \in Entries
               \/ \E e \in Entries : Writes(t, e)
               \/ \E e \in Entries :
                    call' = [call EXCEPT ![t].at = "validate", ![t].entry = e]
  PROVE  ShapeInv'
<1>1. ASSUME Others(t), Shape(t)', inside' \in [Paths -> SUBSET Calls]
      PROVE  ShapeInv'
  BY <1>1, QuietShape DEF world, ShapeInv, TypeOK
<1>2. CASE Leaves(t)
  BY <1>1, <1>2, LeavesLemma DEF Shape, ShapeInv
<1>3. ASSUME NEW place \in {"check", "read"}, Goes(t, place)
      PROVE  Others(t) /\ Shape(t)'
  <2>1. Others(t) /\ call'[t] = [call[t] EXCEPT !.at = place]
    BY <1>3, GoesLemma DEF ShapeInv, Places
  <2>2. QED
    BY <2>1, LocalsLemma DEF Shape, ShapeInv, Locals
<1>4. ASSUME Goes(t, "effect"), call[t].entry \in Entries
      PROVE  Others(t) /\ Shape(t)'
  <2>1. Others(t) /\ call'[t] = [call[t] EXCEPT !.at = "effect"]
    BY <1>4, GoesLemma DEF ShapeInv, Places
  <2>2. QED
    BY <1>4, <2>1, LocalsLemma DEF Shape, ShapeInv, Locals
<1>5. ASSUME NEW e \in Entries, Writes(t, e)
      PROVE  Others(t) /\ Shape(t)'
  <2>1. Others(t) /\ call'[t] = [call[t] EXCEPT !.at = "write", !.entry = e]
    BY <1>5, WritesLemma DEF ShapeInv
  <2>2. QED
    BY <2>1, LocalsLemma DEF Shape, ShapeInv, Locals
<1>6. ASSUME NEW e \in Entries, call' = [call EXCEPT ![t].at = "validate", ![t].entry = e]
      PROVE  Others(t) /\ Shape(t)'
  <2>1. Others(t) /\ call'[t] = [call[t] EXCEPT !.at = "validate", !.entry = e]
    BY <1>6, ReadsLemma DEF ShapeInv
  <2>2. QED
    BY <2>1, LocalsLemma DEF Shape, ShapeInv, Locals
<1>7. QED
  BY <1>1, <1>2, <1>3, <1>4, <1>5, <1>6

\* The steps that read under the lock and decide what to write.
LEMMA UnderLockShape ==
  ASSUME ShapeInv, NEW t \in Calls,
         \/ Enter(t) \/ Check(t) \/ BeginApply(t) \/ Reject(t) \/ Expire(t)
         \/ AppendEvidence(t) \/ Block(t) \/ AskApproval(t) \/ BeginEffect(t)
  PROVE  ShapeInv'
<1> DEFINE p == call[t].path
           e == note[p]
<1>1. /\ call[t].at \in {"lock", "check", "read", "validate"}
      /\ p \in Paths /\ call[t].todo = <<>>
      /\ UNCHANGED <<vault, cache, world>>
  BY DEF ShapeInv, Shape, Enter, Check, BeginApply, Reject, Expire, AppendEvidence, Block,
         AskApproval, BeginEffect, AtRead, WritesUnless
<1>2. e \in Entries \cup {None} /\ inside \in [Paths -> SUBSET Calls]
  BY <1>1 DEF ShapeInv, TypeOK
<1>3. call[t].at = "validate" => call[t].entry \in Entries
  BY DEF ShapeInv, Shape
<1>4. {"rejected", "expired", "blocked", "pending_approval", "applied"} \subseteq Statuses
  BY DEF Statuses, Pending
<1>5. CASE Enter(t)
  BY <1>1, <1>2, <1>5, OnwardShape DEF Enter, Lock!Enter
<1>6. CASE Check(t)
  BY <1>2, <1>6, <1>1, OnwardShape DEF Check
<1>7. CASE BeginApply(t)
  BY <1>2, <1>7, <1>1, OnwardShape DEF BeginApply, NothingToDo
<1>8. ASSUME NEW r, Leaves(t) \/ (r \in Entries /\ Writes(t, r) /\ UNCHANGED inside)
      PROVE  ShapeInv'
  BY <1>1, <1>2, <1>8, OnwardShape
<1>9. CASE Reject(t)
  BY <1>2, <1>9, <1>4, EntryLemma, <1>8 DEF Reject, WritesUnless, NothingToDo
<1>10. CASE Expire(t)
  BY <1>2, <1>10, <1>4, EntryLemma, <1>8 DEF Expire, WritesUnless, NothingToDo
<1>11. CASE AppendEvidence(t)
  BY <1>2, <1>11, EntryLemma, <1>8 DEF AppendEvidence, WritesUnless, NothingToDo
<1>12. CASE Block(t)
  BY <1>3, <1>12, <1>4, EntryLemma, <1>8 DEF Block
<1>13. CASE AskApproval(t)
  BY <1>3, <1>13, <1>4, EntryLemma, <1>8 DEF AskApproval
<1>14. CASE BeginEffect(t)
  BY <1>1, <1>2, <1>3, <1>14, OnwardShape DEF BeginEffect
<1>15. QED
  BY <1>5, <1>6, <1>7, <1>9, <1>10, <1>11, <1>12, <1>13, <1>14

\* The name of the draft is chosen.
LEMMA ListShape == ASSUME ShapeInv, NEW t \in Calls, List(t) PROVE ShapeInv'
<1> DEFINE p == call[t].path
<1>1. /\ call[t].at = "list" /\ p \in Paths /\ call[t].todo = <<>>
      /\ UNCHANGED <<vault, cache, world, inside>>
  BY DEF ShapeInv, Shape, List
<1>2. PICK n \in CollisionSuffix(p[1], p[2]) :
        call' = [call EXCEPT ![t].at = "draft", ![t].path = <<p[1], p[2], n>>]
  BY DEF List
<1> DEFINE q == <<p[1], p[2], n>>
           r == [call[t] EXCEPT !.at = "draft", !.path = q]
<1>3. q \in Paths
  BY <1>1, PathLemma DEF CollisionSuffix
<1>4. call' = [call EXCEPT ![t] = r]
  BY <1>2 DEF ShapeInv, TypeOK
<1> HIDE DEF q
<1>5. r \in Locals /\ r.at = "draft" /\ r.path = q /\ r.todo = <<>>
  BY <1>1, <1>3, LocalsLemma DEF Locals, Places, ShapeInv
<1> HIDE DEF r
<1>6. Others(t) /\ call'[t] = r
  BY <1>4, <1>5, SetLemma DEF ShapeInv
<1>7. Shape(t)'
  BY <1>3, <1>5, <1>6 DEF Shape
<1>8. QED
  BY <1>1, <1>6, <1>7, QuietShape DEF world, ShapeInv, TypeOK

\* The draft is written.
LEMMA WriteDraftShape == ASSUME ShapeInv, NEW t \in Calls, WriteDraft(t) PROVE ShapeInv'
<1> DEFINE p == call[t].path
           r == [call[t] EXCEPT !.at = "pop", !.todo = <<p, p>>]
<1>1. call[t].at = "draft" /\ p \in Paths /\ call[t].todo = <<>>
  BY DEF ShapeInv, Shape, WriteDraft
<1>2. call' = [call EXCEPT ![t] = r]
  BY DEF ShapeInv, TypeOK, WriteDraft
<1>3. r \in Locals /\ r.at = "pop" /\ r.path = p /\ r.todo = <<p, p>>
  <2>1. <<p, p>> \in Seq(Paths \cup Concepts)
    BY <1>1
  <2>2. QED
    BY <2>1, LocalsLemma DEF Locals, Places, ShapeInv
<1> HIDE DEF r
<1>4. Others(t) /\ call'[t] = r
  BY <1>2, <1>3, SetLemma DEF ShapeInv
<1>5. Shape(t)'
  BY <1>1, <1>3, <1>4 DEF Shape
<1>6. TypeOK'
  BY <1>1, <1>4, EntryLemma DEF WriteDraft, ShapeInv, TypeOK, Others, cache
<1>7. \A c \in Concepts : ~WillReload(t, c)
  BY <1>1 DEF WillReload
<1>8. ConceptsKnown'
  BY <1>4, <1>5, <1>7, KnownFrame DEF WriteDraft, cache
<1>9. QED
  BY <1>4, <1>5, <1>6, <1>8, ShapeFrame DEF ShapeInv

\* The concept note is written: the call will reload it.
LEMMA EffectShape == ASSUME ShapeInv, NEW t \in Calls, Effect(t) PROVE ShapeInv'
<1> DEFINE p == call[t].path
           e == [call[t].entry EXCEPT !.status = "applied"]
<1>1. call[t].at = "effect" /\ p \in Paths /\ call[t].todo = <<>> /\ call[t].entry \in Entries
  BY DEF ShapeInv, Shape, Effect
<1>2. e \in Entries /\ e.status = "applied" /\ ConceptOf(p) \in Concepts
  BY <1>1, EntryLemma, PathLemma DEF Statuses
<1>3. Writes(t, e) /\ concept' = [concept EXCEPT ![ConceptOf(p)] = p]
  BY DEF Effect
<1> HIDE DEF e
<1>4. Others(t) /\ call'[t] = [call[t] EXCEPT !.at = "write", !.entry = e]
  BY <1>2, <1>3, WritesLemma DEF ShapeInv
<1>5. /\ call'[t].at = "write" /\ call'[t].entry = e /\ call'[t].path = p
      /\ call'[t].todo = <<>>
  BY <1>1, <1>4, LocalsLemma DEF ShapeInv, Locals
<1>6. Shape(t)'
  BY <1>1, <1>2, <1>5 DEF Shape
<1>7. TypeOK'
  BY <1>1, <1>2, <1>3, <1>4 DEF Effect, ShapeInv, TypeOK, Others, cache, world
<1>8. WillReload(t, ConceptOf(p))'
  BY <1>2, <1>5 DEF WillReload
<1>9. \A c \in Concepts : ~WillReload(t, c)
  BY <1>1 DEF WillReload
<1>10. \A c \in Concepts \ {ConceptOf(p)} : concept'[c] = concept[c]
  BY <1>3 DEF ShapeInv, TypeOK
<1>11. ConceptsKnown'
  BY <1>4, <1>6, <1>8, <1>9, <1>10, KnownFrame DEF Effect, cache, world
<1>12. QED
  BY <1>4, <1>6, <1>7, <1>11, ShapeFrame DEF ShapeInv

\* The action's note is written; "applied" is reloaded together with the concept.
LEMMA WriteShape == ASSUME ShapeInv, NEW t \in Calls, Write(t) PROVE ShapeInv'
<1> DEFINE p == call[t].path
           e == call[t].entry
           todo == Reloads(p, e.status, note[p].status # e.status)
           r == [call[t] EXCEPT !.at = "pop", !.todo = todo]
<1>1. call[t].at = "write" /\ p \in Paths /\ call[t].todo = <<>> /\ e \in Entries
  BY DEF ShapeInv, Shape, Write
<1>2. /\ todo \in Seq(Paths \cup Concepts)
      /\ \A i \in DOMAIN todo : todo[i] \in {p, ConceptOf(p)}
      /\ e.status = "applied" => \E i \in DOMAIN todo : todo[i] = ConceptOf(p)
  <2> DEFINE changed == note[p].status # e.status
  <2>1. e.status \in Statuses /\ changed \in BOOLEAN
    BY <1>1, EntryLemma
  <2> HIDE DEF changed
  <2>2. LET s == Reloads(p, e.status, changed) IN
        /\ s \in Seq(Paths \cup Concepts)
        /\ \A i \in DOMAIN s : s[i] \in {p, ConceptOf(p)}
        /\ e.status = "applied" => \E i \in DOMAIN s : s[i] = ConceptOf(p)
    BY <1>1, <2>1, ReloadsLemma
  <2>3. QED
    BY <2>2 DEF changed
<1>3. call' = [call EXCEPT ![t] = r]
  BY DEF ShapeInv, TypeOK, Write
<1> HIDE DEF todo
<1>4. r \in Locals /\ r.at = "pop" /\ r.path = p /\ r.todo = todo
  BY <1>2, LocalsLemma DEF Locals, Places, ShapeInv
<1> HIDE DEF r
<1>5. Others(t) /\ call'[t] = r
  BY <1>3, <1>4, SetLemma DEF ShapeInv
<1>6. Shape(t)'
  BY <1>1, <1>2, <1>4, <1>5 DEF Shape
<1>7. TypeOK'
  BY <1>1, <1>5 DEF Write, ShapeInv, TypeOK, Others, cache, world
<1>8. \A c \in Concepts : WillReload(t, c) => WillReload(t, c)'
  BY <1>1, <1>2, <1>4, <1>5 DEF WillReload
<1>9. ConceptsKnown'
  BY <1>5, <1>6, <1>8, KnownFrame DEF Write, cache, world
<1>10. QED
  BY <1>5, <1>6, <1>7, <1>9, ShapeFrame DEF ShapeInv

\* A reload begins.
LEMMA PopShape == ASSUME ShapeInv, NEW t \in Calls, Pop(t) PROVE ShapeInv'
<1> DEFINE x == Head(call[t].todo)
           got == IF x \in Concepts THEN None ELSE note[x]
           r == [call[t] EXCEPT !.at = "set", !.got = got]
<1>1. /\ call[t].at = "pop" /\ call[t].todo # <<>> /\ call[t].path \in Paths
      /\ call[t].todo \in Seq(Paths \cup Concepts)
  BY LocalsLemma DEF ShapeInv, Shape, Pop
<1>2. /\ x \in Paths \cup Concepts
      /\ \E i \in DOMAIN call[t].todo : call[t].todo[i] = x
  BY <1>1, HeadTailProperties, EmptySeq
<1>3. got \in Entries \cup {None}
  BY <1>2 DEF ShapeInv, TypeOK
<1>4. call' = [call EXCEPT ![t] = r]
  BY DEF ShapeInv, TypeOK, Pop
<1>5. /\ UNCHANGED <<vault, world, inside>>
      /\ IF x \in Concepts THEN known' = known \ {x} /\ UNCHANGED index
                           ELSE index' = [index EXCEPT ![x] = None] /\ UNCHANGED known
  BY DEF Pop
<1> HIDE DEF x, got
<1>6. r \in Locals /\ r.at = "set" /\ r.path = call[t].path /\ r.todo = call[t].todo
  BY <1>3, LocalsLemma DEF Locals, Places, ShapeInv
<1> HIDE DEF r
<1>7. Others(t) /\ call'[t] = r
  BY <1>4, <1>6, SetLemma DEF ShapeInv
<1>8. Shape(t)'
  BY <1>1, <1>6, <1>7 DEF Shape, ShapeInv
<1>9. TypeOK'
  BY <1>2, <1>5, <1>7 DEF ShapeInv, TypeOK, Others, vault, world
<1>10. \A c \in Concepts : WillReload(t, c) \/ c = x => WillReload(t, c)'
  BY <1>1, <1>2, <1>6, <1>7 DEF WillReload
<1>11. \A c \in Concepts : concept'[c] = concept[c] /\ (c \in known /\ c \notin known' => c = x)
  BY <1>5 DEF vault
<1>12. ConceptsKnown'
  BY <1>10, <1>11, <1>5, <1>7, <1>8, KnownFrame DEF world
<1>13. QED
  BY <1>7, <1>8, <1>9, <1>12, ShapeFrame DEF ShapeInv

\* A reload ends: its concept is in the cache.
LEMMA SetShape == ASSUME ShapeInv, NEW t \in Calls, Set(t) PROVE ShapeInv'
<1> DEFINE todo == call[t].todo
           x == Head(todo)
           r == [call[t] EXCEPT !.at = "pop", !.got = None, !.todo = Tail(todo)]
<1>1. /\ call[t].at = "set" /\ todo # <<>> /\ call[t].path \in Paths
      /\ todo \in Seq(Paths \cup Concepts) /\ call[t].got \in Entries \cup {None}
  BY LocalsLemma DEF ShapeInv, Shape, Set
<1>2. /\ Len(todo) \in Nat \ {0} /\ x = todo[1] /\ x \in Paths \cup Concepts
      /\ Tail(todo) \in Seq(Paths \cup Concepts) /\ Len(Tail(todo)) = Len(todo) - 1
      /\ \A i \in 1..(Len(todo) - 1) : Tail(todo)[i] = todo[i + 1]
  BY <1>1, HeadTailProperties, EmptySeq
<1>3. DOMAIN todo = 1..Len(todo) /\ DOMAIN Tail(todo) = 1..(Len(todo) - 1)
  BY <1>1, <1>2, LenProperties
<1>4. \A i \in DOMAIN Tail(todo) : i + 1 \in DOMAIN todo /\ Tail(todo)[i] = todo[i + 1]
  BY <1>2, <1>3
<1>5. \A i \in DOMAIN todo : i = 1 \/ (i - 1 \in DOMAIN Tail(todo) /\ todo[i] = Tail(todo)[i - 1])
  BY <1>2, <1>3
<1>6. call' = [call EXCEPT ![t] = r]
  BY DEF ShapeInv, TypeOK, Set
<1>7. /\ UNCHANGED <<vault, world, inside>>
      /\ IF x \in Concepts THEN known' = known \cup {x} /\ UNCHANGED index
                           ELSE index' = [index EXCEPT ![x] = call[t].got] /\ UNCHANGED known
  BY DEF Set
<1>8. r \in Locals /\ r.at = "pop" /\ r.path = call[t].path /\ r.todo = Tail(todo)
  BY <1>2, LocalsLemma DEF Locals, Places, ShapeInv
<1> HIDE DEF x, r
<1>9. Others(t) /\ call'[t] = r
  BY <1>6, <1>8, SetLemma DEF ShapeInv
<1>10. Shape(t)'
  BY <1>1, <1>4, <1>8, <1>9 DEF Shape, ShapeInv
<1>11. TypeOK'
  BY <1>1, <1>2, <1>7, <1>9 DEF ShapeInv, TypeOK, Others, vault, world
<1>12. \A c \in Concepts \ {x} : WillReload(t, c) => WillReload(t, c)'
  BY <1>1, <1>2, <1>5, <1>8, <1>9, ZenonT(30) DEF WillReload
<1>13. \A c \in Concepts : concept'[c] = concept[c] /\ (c \notin known' => c \notin known /\ c # x)
  BY <1>7 DEF vault
<1>14. ConceptsKnown'
  BY <1>7, <1>9, <1>10, <1>12, <1>13, KnownFrame DEF world
<1>15. QED
  BY <1>9, <1>10, <1>11, <1>14, ShapeFrame DEF ShapeInv

\* Everything is reloaded.
LEMMA DoneShape == ASSUME ShapeInv, NEW t \in Calls, Done(t) PROVE ShapeInv'
<1>1. /\ call[t].at = "pop" /\ call[t].path \in Paths /\ call[t].todo = <<>>
      /\ UNCHANGED <<vault, cache, world>>
  BY DEF ShapeInv, Shape, Done
<1>2. CASE Leaves(t)
  BY <1>1, <1>2, OnwardShape
<1>3. ASSUME NEW r \in Locals, call' = [call EXCEPT ![t] = r], UNCHANGED inside,
             r.todo = <<>>, r.at = "idle" \/ (r.at = "lock" /\ r.path \in Paths)
      PROVE  ShapeInv'
  <2>1. Others(t) /\ call'[t] = r
    BY <1>3, SetLemma DEF ShapeInv
  <2>2. Shape(t)'
    BY <1>3, <2>1 DEF Shape
  <2>3. QED
    BY <1>1, <1>3, <2>1, <2>2, QuietShape DEF world, ShapeInv, TypeOK
<1>4. CASE call' = [call EXCEPT ![t] = Idle] /\ UNCHANGED inside
  BY IdleLemma, <1>3, <1>4 DEF Idle
<1>5. CASE call' = [call EXCEPT ![t] = Starting("apply", "lock", call[t].path)] /\ UNCHANGED inside
  <2> DEFINE r == Starting("apply", "lock", call[t].path)
  <2>1. r \in Locals /\ r.todo = <<>> /\ r.at = "lock" /\ r.path = call[t].path
    BY <1>1, StartLemma DEF Ops, Places
  <2>2. call' = [call EXCEPT ![t] = r] /\ UNCHANGED inside
    BY <1>5
  <2> HIDE DEF r
  <2>3. QED
    BY <1>1, <1>3, <2>1, <2>2
<1>6. QED
  BY <1>2, <1>4, <1>5 DEF Done

\* The effect is cut short.
LEMMA EffectFailsShape == ASSUME ShapeInv, NEW t \in Calls, EffectFails(t) PROVE ShapeInv'
<1> DEFINE p == call[t].path
           e == [call[t].entry EXCEPT !.status = "failed"]
<1>1. call[t].at = "effect" /\ p \in Paths /\ call[t].todo = <<>> /\ call[t].entry \in Entries
  BY DEF ShapeInv, Shape, EffectFails
<1>2. e \in Entries /\ ConceptOf(p) \in Concepts
  BY <1>1, EntryLemma, PathLemma DEF Statuses
<1>3. /\ Writes(t, e)
      /\ concept' = [concept EXCEPT ![ConceptOf(p)] = p] \/ UNCHANGED concept
      /\ cut' = cut \cup {p} /\ fails' = fails + 1 /\ fails < MaxFails
      /\ UNCHANGED <<note, cache, past, safe, begun, inside>>
  BY DEF EffectFails
<1> HIDE DEF e
<1>4. Others(t) /\ call'[t] = [call[t] EXCEPT !.at = "write", !.entry = e]
  BY <1>2, <1>3, WritesLemma DEF ShapeInv
<1>5. /\ call'[t].at = "write" /\ call'[t].entry = e /\ call'[t].path = p
      /\ call'[t].todo = <<>>
  BY <1>1, <1>4, LocalsLemma DEF ShapeInv, Locals
<1>6. Shape(t)'
  BY <1>1, <1>2, <1>5 DEF Shape
<1>7. TypeOK'
  BY <1>1, <1>2, <1>3, <1>4, BoundsAssumption DEF ShapeInv, TypeOK, Others, cache
<1>8. \A c \in Concepts : ~WillReload(t, c)
  BY <1>1 DEF WillReload
<1>9. \A c \in Concepts \ {ConceptOf(p)} : concept'[c] = concept[c]
  BY <1>3 DEF ShapeInv, TypeOK
<1>10. ConceptsKnown'
  BY <1>3, <1>4, <1>6, <1>8, <1>9, KnownFrame DEF cache
<1>11. QED
  BY <1>4, <1>6, <1>7, <1>10, ShapeFrame DEF ShapeInv

\* The storage raises: what the call was to reload belongs to an action cut short.
LEMMA StorageFailsShape == ASSUME ShapeInv, NEW t \in Calls, StorageFails(t) PROVE ShapeInv'
<1> DEFINE p == call[t].path
<1>1. /\ p \in Paths /\ call' = [call EXCEPT ![t] = Idle]
      /\ cut' = cut \cup {p} /\ fails' = fails + 1 /\ fails < MaxFails
      /\ inside' = [inside EXCEPT ![p] = @ \ {t}]
      /\ \/ note' = [note EXCEPT ![p] = Blank] /\ past' = past \cup {p}
         \/ UNCHANGED <<note, past>>
      /\ UNCHANGED <<concept, cache, safe, begun>>
  BY DEF ShapeInv, Shape, StorageFails
<1>2. Others(t) /\ call'[t] = Idle
  BY <1>1, IdleLemma, SetLemma DEF ShapeInv
<1>3. Shape(t)'
  BY <1>2 DEF Shape, Idle
<1>4. TypeOK'
  BY <1>1, EntryLemma, BoundsAssumption, <1>2 DEF ShapeInv, TypeOK, Others, cache
<1>5. ASSUME NEW c \in Concepts, WillReload(t, c)
      PROVE  \E q \in cut' : ConceptOf(q) = c
  BY <1>1, <1>5, PathLemma DEF WillReload, ShapeInv, Shape
<1>6. ConceptsKnown'
  BY <1>1, <1>2, <1>3, <1>5, KnownFrame DEF cache
<1>7. QED
  BY <1>2, <1>3, <1>4, <1>6, ShapeFrame DEF ShapeInv

\* The new process has every concept of the vault in its index.
LEMMA CrashShape == ASSUME ShapeInv, Crash PROVE ShapeInv'
<1> DEFINE busy == {call[t].path : t \in {u \in Calls : call[u].at # "idle"}}
           written == {call[t].path : t \in {u \in Calls : call[u].at \in {"draft", "write"}}}
<1>1. PICK empty \in SUBSET written :
        /\ note' = [p \in Paths |-> IF p \in empty THEN Blank ELSE note[p]]
        /\ past' = past \cup empty
  BY DEF Crash
<1>2. /\ index' = note' /\ known' = {c \in Concepts : concept[c] # None}
      /\ inside' = [p \in Paths |-> {}] /\ call' = [t \in Calls |-> Idle]
      /\ cut' = cut \cup busy /\ fails' = fails + 1 /\ fails < MaxFails
      /\ UNCHANGED <<concept, safe, begun>>
  BY DEF Crash
<1>3. busy \in SUBSET Paths /\ written \in SUBSET Paths
  BY DEF ShapeInv, Shape
<1> HIDE DEF busy, written
<1>4. TypeOK'
  BY <1>1, <1>3, EntryLemma, <1>2, IdleLemma, BoundsAssumption DEF ShapeInv, TypeOK
<1>5. \A t \in Calls : Shape(t)'
  BY <1>2 DEF Shape, Idle
<1>6. ConceptsKnown'
  BY <1>2 DEF ConceptsKnown
<1>7. QED
  BY <1>4, <1>5, <1>6 DEF ShapeInv

\* Every step keeps ShapeInv.
LEMMA StepShape == ShapeInv /\ [Next]_vars => ShapeInv'
<1> SUFFICES ASSUME ShapeInv, [Next]_vars PROVE ShapeInv'
  OBVIOUS
<1>1. ASSUME NEW t \in Calls,
             \/ \E c \in Concepts : CallCreate(t, c) \/ CallIngest(t, c)
             \/ \E op \in Ops, p \in Paths : CallOn(t, op, p)
             \/ CallExpire(t)
      PROVE  ShapeInv'
  BY <1>1, CallBegins, BeginShape DEF ShapeInv
<1>2. ASSUME NEW t \in Calls, Enter(t) \/ Step(t) PROVE ShapeInv'
  BY <1>2, UnderLockShape, ListShape, WriteDraftShape, EffectShape, WriteShape, PopShape,
     SetShape, DoneShape DEF Step
<1>3. ASSUME NEW t \in Calls, EffectFails(t) \/ StorageFails(t) PROVE ShapeInv'
  BY <1>3, EffectFailsShape, StorageFailsShape
<1>4. CASE Crash
  BY <1>4, CrashShape
<1>5. CASE Toggle
  BY <1>5 DEF Toggle, vault, cache, ShapeInv, TypeOK, Shape, ConceptsKnown, WillReload
<1>6. ASSUME NEW p \in Paths, Age(p) PROVE ShapeInv'
  BY <1>6 DEF Age, vault, cache, ShapeInv, TypeOK, Shape, ConceptsKnown, WillReload
<1>7. CASE UNCHANGED vars
  BY <1>7 DEF vars, ShapeInv, TypeOK, Shape, ConceptsKnown, WillReload
<1>8. QED
  BY <1>1, <1>2, <1>3, <1>4, <1>5, <1>6, <1>7 DEF Next

\* The shape of the locals and what is to be reloaded is invariant.
THEOREM ShapeInvariant == Spec => []ShapeInv
<1>1. QED
  BY InitShape, StepShape, PTL DEF Spec

\* Type correctness: the vault, the index and the locals of every call stay well-formed
\* through every operation, failure and crash.
THEOREM TypeCorrect == Spec => []TypeOK
BY ShapeInvariant DEF ShapeInv

\* A concept of the vault that the index does not have will be reloaded by the apply that
\* wrote it, whatever else runs, unless an action on it was cut short.
THEOREM Resolved == Spec => []ConceptsKnown
BY ShapeInvariant DEF ShapeInv

-----------------------------------------------------------------------------
\* What a step of one call does to the others and to the vault.

Moves(t) ==
  LET q == call[t].path IN
  /\ Others(t) /\ cut \subseteq cut'
  /\ \A p \in Paths, u \in Calls \ {t} : /\ u \in inside'[p] <=> u \in inside[p]
                                         /\ inside[p] = {u} => inside'[p] = {u}
  /\ \A p \in Paths \ {q} : note'[p] = note[p]
  /\ \/ note'[q] = note[q] /\ (call[t].at = "write" => q \in cut')
     \/ note'[q] = Blank /\ call[t].at \in {"draft", "write"} /\ q \in cut'
     \/ note'[q] = Draft /\ call[t].at = "draft"
     \/ note'[q] = call[t].entry /\ call[t].at = "write"
  /\ \/ concept' = concept
     \/ /\ concept' = [concept EXCEPT ![ConceptOf(q)] = q] /\ call[t].at = "effect"
        /\ \/ q \in cut'
           \/ /\ call'[t].at = "write" /\ call'[t].entry.status = "applied"
              /\ call'[t].path = q

\* A call that is to write or draft an action is the only one, and the action is not final.
LEMMA WriterLemma ==
  ASSUME IInv, NEW t \in Calls, call[t].at \in {"draft", "write"}
  PROVE  /\ call[t].path \in Paths /\ ~Final(call[t].path)
         /\ call[t].at = "draft" => note[call[t].path] = None
         /\ call[t].at = "write" => note[call[t].path] # None
  BY DEF IInv, ShapeInv, Shape, CallInv, Ordered, Named, Fresh, Final

\* A note that a step of t changes is the one it drafts or writes.
LEMMA NoteLemma ==
  ASSUME IInv, NEW t \in Calls, Moves(t), NEW p \in Paths, note'[p] # note[p]
  PROVE  /\ p = call[t].path /\ call[t].at \in {"draft", "write"} /\ ~Final(p)
         /\ note'[p] \in {Blank, Draft, call[t].entry} /\ note'[p] # None
         /\ call[t].at = "draft" => note[p] = None /\ note'[p] \in {Blank, Draft}
         /\ call[t].at = "write" => note[p] # None /\ note'[p] \in {Blank, call[t].entry}
BY WriterLemma, EntryLemma DEF Moves, IInv, ShapeInv, Shape

\* A concept that exists stays.
LEMMA ConceptLemma ==
  ASSUME IInv, NEW t \in Calls, Moves(t), NEW c \in Concepts
  PROVE  /\ concept[c] # None => concept'[c] # None
         /\ concept'[c] # concept[c] =>
              /\ call[t].at = "effect" /\ concept'[c] = call[t].path /\ c = ConceptOf(call[t].path)
              /\ call[t].path \in Paths
BY EntryLemma DEF IInv, ShapeInv, Shape, Moves, TypeOK

\* The other calls keep what they know.
LEMMA OthersKeep ==
  ASSUME SecondsDiffer, IInv, NEW t \in Calls, Moves(t), NEW u \in Calls \ {t}
  PROVE  Ordered(u)'
<1> DEFINE p == call[u].path
<1>1. call'[u] = call[u] /\ Ordered(u) /\ Shape(u)
  BY DEF Moves, Others, IInv, ShapeInv, CallInv
<1>2. Alone(u)'
  BY <1>1 DEF Ordered, Alone, Locked, Moves, Shape
<1>3. Fresh(u)'
  <2>1. SUFFICES ASSUME call[u].at \in {"validate", "effect", "write"}
                 PROVE  note'[p] = note[p]
    BY <1>1 DEF Ordered, Fresh
  <2>2. p \in Paths /\ inside[p] = {u} /\ note[p] # None
    BY <1>1, <2>1 DEF Ordered, Alone, Locked, Shape, Fresh
  <2>3. SUFFICES ASSUME note'[p] # note[p] PROVE FALSE
    OBVIOUS
  <2>4. p = call[t].path /\ call[t].at = "write"
    BY <2>2, <2>3, NoteLemma
  <2>5. inside[p] = {t}
    BY <2>4 DEF IInv, CallInv, Ordered, Alone, Locked
  <2>6. QED
    BY <2>2, <2>5
<1>4. Named(u)'
  BY <1>1, NoteLemma DEF Ordered, Named, Shape, IInv, CallInv, SecondsDiffer
<1>5. Created(u)'
  BY <1>1, PathLemma, ConceptLemma DEF Created, Ordered, Shape
<1>6. Drafts(u)'
  BY <1>1 DEF Ordered, Drafts
<1>7. QED
  BY <1>2, <1>3, <1>4, <1>5, <1>6 DEF Ordered

\* The concept note and its action stay together.
LEMMA OwnedKeeps ==
  ASSUME IInv, ShapeInv', NEW t \in Calls, Moves(t), CallInv'
  PROVE  /\ EffectOwned'
         /\ \A c \in Concepts : concept'[c] # None => note'[concept'[c]] # None
<1> DEFINE q == call[t].path
<1>1. ASSUME NEW c \in Concepts, concept'[c] # None
      PROVE  /\ note'[concept'[c]] # None
             /\ \/ concept'[c] \in cut'
                \/ note'[concept'[c]].status = "applied"
                \/ \E u \in inside'[concept'[c]] :
                     call'[u].at = "write" /\ call'[u].entry.status = "applied"
  <2>1. CASE concept'[c] = concept[c]
    <3> DEFINE p == concept[c]
    <3>1. p \in Paths /\ note[p] # None
      BY <1>1, <2>1 DEF IInv, ShapeInv, TypeOK
    <3>2. note'[p] # None
      BY <3>1, NoteLemma
    <3>3. CASE p \in cut
      BY <2>1, <3>2, <3>3 DEF Moves
    <3>4. CASE note[p].status = "applied"
      BY <3>1, <3>4, NoteLemma, <2>1 DEF Final
    <3>5. ASSUME NEW u \in inside[p], call[u].at = "write", call[u].entry.status = "applied"
          PROVE  \/ p \in cut'
                 \/ note'[p].status = "applied"
                 \/ \E v \in inside'[p] :
                      call'[v].at = "write" /\ call'[v].entry.status = "applied"
      <4>1. u \in Calls /\ call[u].path = p
        BY <3>1, <3>5 DEF IInv, ShapeInv, TypeOK, CallInv, Ordered, Alone
      <4>2. CASE u # t
        BY <3>1, <3>5, <4>1, <4>2 DEF Moves, Others
      <4>3. CASE u = t
        BY <3>5, <4>1, <4>3 DEF Moves
      <4>4. QED
        BY <4>2, <4>3
    <3>6. QED
      BY <1>1, <2>1, <3>2, <3>3, <3>4, <3>5 DEF IInv, EffectOwned
  <2>2. CASE concept'[c] # concept[c]
    <3>1. call[t].at = "effect" /\ concept'[c] = q /\ q \in Paths
      BY <2>2, ConceptLemma
    <3>2. note[q] # None
      BY <3>1 DEF IInv, CallInv, Ordered, Fresh
    <3>3. note'[q] # None
      BY <3>1, <3>2, NoteLemma
    <3>4. \/ q \in cut'
          \/ /\ call'[t].at = "write" /\ call'[t].entry.status = "applied"
             /\ call'[t].path = q
      BY <2>2 DEF Moves
    <3>5. call'[t].at = "write" /\ call'[t].path = q => t \in inside'[q]
      BY DEF CallInv, Ordered, Alone, Locked
    <3>6. QED
      BY <3>1, <3>3, <3>4, <3>5
  <2>3. QED
    BY <2>1, <2>2
<1>2. ASSUME NEW p \in Paths, note'[p] # None, note'[p].status = "applied"
      PROVE  concept'[ConceptOf(p)] # None
  <2>1. ConceptOf(p) \in Concepts
    BY PathLemma
  <2>2. concept[ConceptOf(p)] # None
    <3>1. CASE note'[p] = note[p]
      BY <1>2, <3>1 DEF IInv, EffectOwned
    <3>2. CASE note'[p] # note[p]
      BY <1>2, <3>2, NoteLemma DEF Blank, Draft, IInv, CallInv, Ordered, Created
    <3>3. QED
      BY <3>1, <3>2
  <2>3. QED
    BY <2>1, <2>2, ConceptLemma
<1>3. QED
  BY <1>1, <1>2 DEF EffectOwned

\* So a step of a call keeps the invariant if it keeps what the call itself knows.
LEMMA MovesKeep ==
  ASSUME SecondsDiffer, IInv, ShapeInv', NEW t \in Calls, Moves(t), Ordered(t)'
  PROVE  IInv'
BY OthersKeep, OwnedKeeps DEF CallInv, IInv

-----------------------------------------------------------------------------
\* Each step of a call moves in this way and keeps what the call knows.

\* The lock as a step of t changes it.
LEMMA InsideLemma ==
  ASSUME TypeOK, NEW t \in Calls, NEW q,
         \/ UNCHANGED inside
         \/ q \in Paths /\ inside[q] = {} /\ inside' = [inside EXCEPT ![q] = {t}]
         \/ q \in Paths /\ inside[q] = {t} /\ inside' = [inside EXCEPT ![q] = {}]
         \/ q \in Paths /\ inside' = [inside EXCEPT ![q] = @ \ {t}]
  PROVE  \A p \in Paths, u \in Calls \ {t} : /\ u \in inside'[p] <=> u \in inside[p]
                                             /\ inside[p] = {u} => inside'[p] = {u}
  BY DEF TypeOK

\* A step that only reads moves.
LEMMA ReadMoves ==
  ASSUME TypeOK, NEW t \in Calls, Others(t), call[t].at # "write",
         UNCHANGED <<note, concept, cut>>,
         \/ UNCHANGED inside
         \/ /\ call[t].path \in Paths /\ inside[call[t].path] = {}
            /\ inside' = [inside EXCEPT ![call[t].path] = {t}]
         \/ /\ call[t].path \in Paths /\ inside[call[t].path] = {t}
            /\ inside' = [inside EXCEPT ![call[t].path] = {}]
  PROVE  Moves(t)
BY InsideLemma DEF Moves

\* A call out of every section that drafts nothing knows nothing.
LEMMA OutOrdered ==
  ASSUME NEW t \in Calls, call'[t].at \in {"idle", "lock"},
         call'[t].op \notin {"create", "ingest"}, \A p \in Paths : t \notin inside'[p]
  PROVE  Ordered(t)'
  BY DEF Ordered, Alone, Locked, Fresh, Named, Created, Drafts

\* Leaving the lock.
LEMMA LeavesSafe ==
  ASSUME IInv, NEW t \in Calls, call[t].path \in Paths, call[t].at # "write",
         Leaves(t), UNCHANGED <<vault, cache, world>>
  PROVE  Moves(t) /\ Ordered(t)'
<1>1. TypeOK
  BY DEF IInv, ShapeInv
<1>2. /\ Others(t) /\ inside[call[t].path] = {t}
      /\ inside' = [inside EXCEPT ![call[t].path] = {}]
      /\ call'[t].at \in {"idle", "lock"} /\ call'[t].op \in {"none", "expire"}
  BY <1>1, LeavesLemma
<1>3. \A p \in Paths : t \notin inside'[p]
  BY <1>1, <1>2 DEF TypeOK, IInv, CallInv, Ordered, Alone
<1>4. QED
  BY <1>1, <1>2, <1>3, ReadMoves, OutOrdered DEF vault, world

\* Going on under the lock, with an entry that was read there.
LEMMA StaysSafe ==
  ASSUME IInv, NEW t \in Calls, Others(t), UNCHANGED <<vault, cache, world, inside>>,
         call[t].at \in {"check", "read", "validate"},
         call'[t].path = call[t].path, call'[t].op = call[t].op,
         \/ call'[t].at = "read"
         \/ /\ call'[t].at \in {"validate", "effect", "write"}
            /\ note[call[t].path] # None
            /\ note[call[t].path].status \notin {"applied", "rejected"}
            /\ note[call[t].path].evidence \subseteq call'[t].entry.evidence
            /\ call'[t].at = "write" => call'[t].entry.status # "applied"
  PROVE  Moves(t) /\ Ordered(t)'
<1>1. TypeOK /\ Ordered(t)
  BY DEF IInv, ShapeInv, CallInv
<1>2. Moves(t)
  BY <1>1, ReadMoves DEF vault, world
<1>3. Alone(t)' /\ Drafts(t)' /\ Named(t)'
  BY <1>1 DEF Ordered, Alone, Locked, Drafts, Named
<1>4. Fresh(t)' /\ Created(t)'
  BY DEF Fresh, Created, vault
<1>5. QED
  BY <1>2, <1>3, <1>4 DEF Ordered

LEMMA BeginSafe ==
  ASSUME IInv, NEW t \in Calls, NEW r \in Beginnings(t), Begin(t, r)
  PROVE  Moves(t) /\ Ordered(t)'
<1>1. /\ TypeOK /\ call[t] = Idle /\ call' = [call EXCEPT ![t] = r]
      /\ UNCHANGED <<note, concept, cut, inside>>
  BY DEF IInv, ShapeInv, Begin, vault
<1>2. /\ r \in Locals /\ r.at \in {"list", "lock"}
      /\ r.at = "list" => r.path[2] = Second[t]
      /\ r.op \in {"create", "ingest"} <=> r.at = "list"
  BY DEF Beginnings
<1>3. Others(t) /\ call'[t] = r
  BY <1>1, <1>2, SetLemma
<1>4. Moves(t)
  BY <1>1, <1>3, ReadMoves DEF Idle
<1>5. \A p \in Paths : t \notin inside[p]
  BY <1>1 DEF IInv, CallInv, Ordered, Alone, Locked, Idle
<1>6. Ordered(t)'
  BY <1>1, <1>2, <1>3, <1>5 DEF Ordered, Alone, Locked, Fresh, Named, Created, Drafts
<1>7. QED
  BY <1>4, <1>6

LEMMA EnterSafe == ASSUME IInv, NEW t \in Calls, Enter(t) PROVE Moves(t) /\ Ordered(t)'
<1> DEFINE q == call[t].path
<1>1. /\ TypeOK /\ call[t].at = "lock" /\ q \in Paths /\ UNCHANGED <<note, concept, cut>>
      /\ inside[q] = {} /\ inside' = [inside EXCEPT ![q] = {t}]
  BY DEF IInv, ShapeInv, Shape, Enter, Lock!Enter, vault, world
<1>2. PICK place \in {"check", "read"} : Goes(t, place)
  BY DEF Enter
<1>3. Others(t) /\ call'[t] = [call[t] EXCEPT !.at = place]
  BY <1>1, <1>2, GoesLemma DEF Places
<1>4. call'[t].at = place /\ call'[t].op = call[t].op /\ call'[t].path = q
  BY <1>1, <1>3, LocalsLemma DEF Locals
<1>5. Moves(t)
  BY <1>1, <1>3, ReadMoves
<1>6. \A p \in Paths : t \notin inside[p]
  BY <1>1 DEF IInv, CallInv, Ordered, Alone, Locked
<1>7. Alone(t)'
  BY <1>1, <1>4, <1>6 DEF TypeOK, Alone, Locked
<1>8. call[t].op \notin {"create", "ingest"}
  BY <1>1 DEF IInv, CallInv, Ordered, Drafts
<1>9. Ordered(t)'
  BY <1>4, <1>7, <1>8 DEF Ordered, Fresh, Named, Created, Drafts
<1>10. QED
  BY <1>5, <1>9

\* The steps that read under the lock and decide what to write.
LEMMA UnderLockSafe ==
  ASSUME IInv, NEW t \in Calls,
         \/ Check(t) \/ BeginApply(t) \/ Reject(t) \/ Expire(t)
         \/ AppendEvidence(t) \/ Block(t) \/ AskApproval(t) \/ BeginEffect(t)
  PROVE  Moves(t) /\ Ordered(t)'
<1> DEFINE q == call[t].path
           e == note[q]
<1>1. /\ TypeOK /\ call[t].at \in {"check", "read", "validate"} /\ q \in Paths
      /\ UNCHANGED <<vault, cache, world>>
  BY DEF IInv, ShapeInv, Shape, Check, BeginApply, Reject, Expire, AppendEvidence, Block,
         AskApproval, BeginEffect, AtRead, WritesUnless
<1>2. e \in Entries \cup {None}
  BY <1>1 DEF TypeOK
<1>3. call[t].at = "validate" =>
        /\ call[t].entry \in Entries /\ e # None /\ e.status \notin {"applied", "rejected"}
        /\ e.evidence \subseteq call[t].entry.evidence
  BY DEF IInv, ShapeInv, Shape, CallInv, Ordered, Fresh
<1>4. {"rejected", "expired", "blocked", "pending_approval"} \subseteq Statuses \ {"applied"}
  BY DEF Statuses, Pending
<1>5. CASE Leaves(t)
  BY <1>1, <1>5, LeavesSafe
<1>6. ASSUME NEW r \in Entries, Writes(t, r), UNCHANGED inside,
             e # None, e.status \notin {"applied", "rejected"}, r.status # "applied",
             e.evidence \subseteq r.evidence
      PROVE  Moves(t) /\ Ordered(t)'
  <2>1. Others(t) /\ call'[t] = [call[t] EXCEPT !.at = "write", !.entry = r]
    BY <1>1, <1>6, WritesLemma
  <2>2. call'[t].at = "write" /\ call'[t].entry = r /\ call'[t].path = q
        /\ call'[t].op = call[t].op
    BY <1>1, <2>1, LocalsLemma DEF Locals
  <2>3. QED
    BY <1>1, <1>6, <2>1, <2>2, StaysSafe
<1>7. CASE Check(t) /\ ~Leaves(t)
  <2>1. Goes(t, "read") /\ UNCHANGED inside
    BY <1>7 DEF Check
  <2>2. Others(t) /\ call'[t] = [call[t] EXCEPT !.at = "read"]
    BY <1>1, <2>1, GoesLemma DEF Places
  <2>3. call'[t].at = "read" /\ call'[t].path = q /\ call'[t].op = call[t].op
    BY <1>1, <2>2, LocalsLemma DEF Locals
  <2>4. QED
    BY <1>1, <2>1, <2>2, <2>3, StaysSafe
<1>8. CASE BeginApply(t) /\ ~Leaves(t)
  <2>1. /\ e \in Entries /\ UNCHANGED inside /\ e.status \notin {"applied", "rejected"}
        /\ call' = [call EXCEPT ![t].at = "validate", ![t].entry = e]
    BY <1>2, <1>8 DEF BeginApply, NothingToDo, AtRead, Refuses
  <2>2. Others(t) /\ call'[t] = [call[t] EXCEPT !.at = "validate", !.entry = e]
    BY <1>1, <2>1, ReadsLemma
  <2>3. call'[t].at = "validate" /\ call'[t].entry = e /\ call'[t].path = q
        /\ call'[t].op = call[t].op
    BY <1>1, <2>2, LocalsLemma DEF Locals
  <2>4. e # None
    BY <2>1, EntryLemma
  <2>5. QED
    BY <1>1, <2>1, <2>2, <2>3, <2>4, StaysSafe
<1>9. \A op \in {"reject", "expire", "append"} :
        e # None /\ ~Refuses(op, e.status) => e.status \notin {"applied", "rejected"}
  BY DEF Refuses, Pending
<1>10. CASE Reject(t) /\ ~Leaves(t)
  <2> DEFINE r == [e EXCEPT !.status = "rejected"]
  <2>1. /\ e \in Entries /\ e # None /\ e.status \notin {"applied", "rejected"}
        /\ Writes(t, r) /\ UNCHANGED inside
    BY <1>2, <1>9, <1>10 DEF Reject, AtRead, WritesUnless, NothingToDo
  <2>2. r \in Entries /\ r.status # "applied" /\ e.evidence \subseteq r.evidence
    BY <1>4, <2>1, EntryLemma
  <2> HIDE DEF r
  <2>3. QED
    BY <1>6, <2>1, <2>2
<1>11. CASE Expire(t) /\ ~Leaves(t)
  <2> DEFINE r == [e EXCEPT !.status = "expired"]
  <2>1. /\ e \in Entries /\ e # None /\ e.status \notin {"applied", "rejected"}
        /\ Writes(t, r) /\ UNCHANGED inside
    BY <1>2, <1>9, <1>11 DEF Expire, AtRead, WritesUnless, NothingToDo
  <2>2. r \in Entries /\ r.status # "applied" /\ e.evidence \subseteq r.evidence
    BY <1>4, <2>1, EntryLemma
  <2> HIDE DEF r
  <2>3. QED
    BY <1>6, <2>1, <2>2
<1>12. CASE AppendEvidence(t) /\ ~Leaves(t)
  <2> DEFINE r == [e EXCEPT !.evidence = @ \cup {t}]
  <2>1. /\ e \in Entries /\ e # None /\ e.status \notin {"applied", "rejected"}
        /\ Writes(t, r) /\ UNCHANGED inside
    BY <1>2, <1>9, <1>12 DEF AppendEvidence, AtRead, WritesUnless, NothingToDo
  <2>2. r \in Entries /\ r.status # "applied" /\ e.evidence \subseteq r.evidence
    BY <2>1, EntryLemma
  <2> HIDE DEF r
  <2>3. QED
    BY <1>6, <2>1, <2>2
<1>13. CASE Block(t)
  <2> DEFINE r == [call[t].entry EXCEPT !.status = "blocked"]
  <2>1. call[t].at = "validate" /\ Writes(t, r) /\ UNCHANGED inside
    BY <1>13 DEF Block
  <2>2. r \in Entries /\ r.status # "applied" /\ e.evidence \subseteq r.evidence
    BY <1>3, <1>4, <2>1, EntryLemma
  <2> HIDE DEF r
  <2>3. QED
    BY <1>3, <1>6, <2>1, <2>2
<1>14. CASE AskApproval(t)
  <2> DEFINE r == [call[t].entry EXCEPT !.status = "pending_approval"]
  <2>1. call[t].at = "validate" /\ Writes(t, r) /\ UNCHANGED inside
    BY <1>14 DEF AskApproval
  <2>2. r \in Entries /\ r.status # "applied" /\ e.evidence \subseteq r.evidence
    BY <1>3, <1>4, <2>1, EntryLemma
  <2> HIDE DEF r
  <2>3. QED
    BY <1>3, <1>6, <2>1, <2>2
<1>15. CASE BeginEffect(t)
  <2>1. call[t].at = "validate" /\ Goes(t, "effect") /\ UNCHANGED inside
    BY <1>15 DEF BeginEffect
  <2>2. Others(t) /\ call'[t] = [call[t] EXCEPT !.at = "effect"]
    BY <1>1, <2>1, GoesLemma DEF Places
  <2>3. call'[t].at = "effect" /\ call'[t].path = q /\ call'[t].op = call[t].op
        /\ call'[t].entry = call[t].entry
    BY <1>1, <2>2, LocalsLemma DEF Locals
  <2>4. QED
    BY <1>1, <1>3, <2>1, <2>2, <2>3, StaysSafe
<1>16. QED
  BY <1>5, <1>7, <1>8, <1>10, <1>11, <1>12, <1>13, <1>14, <1>15

\* The name that is chosen is free.
LEMMA ListSafe == ASSUME IInv, NEW t \in Calls, List(t) PROVE Moves(t) /\ Ordered(t)'
<1> DEFINE p == call[t].path
<1>1. /\ TypeOK /\ call[t].at = "list" /\ p \in Paths /\ p[2] = Second[t]
      /\ UNCHANGED <<note, concept, cut, inside>> /\ call[t].op \in {"create", "ingest"}
  BY DEF IInv, ShapeInv, Shape, List, CallInv, Ordered, Named, Drafts, vault, world
<1>2. PICK n \in CollisionSuffix(p[1], p[2]) :
        call' = [call EXCEPT ![t].at = "draft", ![t].path = <<p[1], p[2], n>>]
  BY DEF List
<1> DEFINE q == <<p[1], p[2], n>>
           r == [call[t] EXCEPT !.at = "draft", !.path = q]
<1>3. q \in Paths /\ note[q] = None /\ q[2] = Second[t]
  BY <1>1, PathLemma DEF CollisionSuffix, Free
<1>4. call' = [call EXCEPT ![t] = r]
  BY <1>1, <1>2 DEF TypeOK
<1> HIDE DEF q
<1>5. r \in Locals /\ r.at = "draft" /\ r.path = q /\ r.op = call[t].op
  BY <1>1, <1>3, LocalsLemma DEF Locals, Places
<1> HIDE DEF r
<1>6. Others(t) /\ call'[t] = r
  BY <1>1, <1>4, <1>5, SetLemma
<1>7. Moves(t)
  BY <1>1, <1>6, ReadMoves
<1>8. \A x \in Paths : t \notin inside[x]
  BY <1>1 DEF IInv, CallInv, Ordered, Alone, Locked
<1>9. Ordered(t)'
  BY <1>1, <1>3, <1>5, <1>6, <1>8 DEF Ordered, Alone, Locked, Fresh, Named, Created, Drafts
<1>10. QED
  BY <1>7, <1>9

\* A call that goes on reloading knows what it knew.
LEMMA ReloadOrdered ==
  ASSUME IInv, NEW t \in Calls, call[t].at \in {"draft", "write", "pop", "set"},
         call'[t].at \in {"pop", "set"}, call'[t].path = call[t].path,
         call'[t].op = call[t].op, UNCHANGED inside
  PROVE  Ordered(t)'
<1>1. Ordered(t)
  BY DEF IInv, CallInv
<1>2. Alone(t)'
  BY <1>1 DEF Ordered, Alone, Locked, Drafts
<1>3. QED
  BY <1>2 DEF Ordered, Fresh, Named, Created, Drafts

LEMMA WriteDraftSafe ==
  ASSUME IInv, NEW t \in Calls, WriteDraft(t) PROVE Moves(t) /\ Ordered(t)'
<1> DEFINE p == call[t].path
           r == [call[t] EXCEPT !.at = "pop", !.todo = <<p, p>>]
<1>1. /\ TypeOK /\ call[t].at = "draft" /\ p \in Paths
      /\ note' = [note EXCEPT ![p] = Draft] /\ UNCHANGED <<concept, cut, inside>>
  BY DEF IInv, ShapeInv, Shape, WriteDraft
<1>2. call' = [call EXCEPT ![t] = r]
  BY <1>1 DEF TypeOK, WriteDraft
<1>3. r \in Locals /\ r.at = "pop" /\ r.path = p /\ r.op = call[t].op
  <2>1. <<p, p>> \in Seq(Paths \cup Concepts)
    BY <1>1
  <2>2. QED
    BY <1>1, <2>1, LocalsLemma DEF Locals, Places
<1> HIDE DEF r
<1>4. Others(t) /\ call'[t] = r
  BY <1>1, <1>2, <1>3, SetLemma
<1>5. /\ note'[p] = Draft /\ \A x \in Paths \ {p} : note'[x] = note[x]
  BY <1>1 DEF TypeOK
<1>6. Moves(t)
  BY <1>1, <1>4, <1>5, InsideLemma DEF Moves
<1>7. Ordered(t)'
  BY <1>1, <1>3, <1>4, ReloadOrdered
<1>8. QED
  BY <1>6, <1>7

LEMMA EffectSafe == ASSUME IInv, NEW t \in Calls, Effect(t) PROVE Moves(t) /\ Ordered(t)'
<1> DEFINE q == call[t].path
           e == [call[t].entry EXCEPT !.status = "applied"]
<1>1. /\ TypeOK /\ Ordered(t) /\ call[t].at = "effect" /\ q \in Paths
      /\ call[t].entry \in Entries /\ UNCHANGED <<note, cut, inside>>
  BY DEF IInv, ShapeInv, Shape, CallInv, Effect, world
<1>2. e \in Entries /\ e.status = "applied" /\ e.evidence = call[t].entry.evidence
  BY <1>1, EntryLemma DEF Statuses
<1>3. Writes(t, e) /\ concept' = [concept EXCEPT ![ConceptOf(q)] = q]
  BY DEF Effect
<1> HIDE DEF e
<1>4. Others(t) /\ call'[t] = [call[t] EXCEPT !.at = "write", !.entry = e]
  BY <1>1, <1>2, <1>3, WritesLemma
<1>5. /\ call'[t].at = "write" /\ call'[t].entry = e /\ call'[t].path = q
      /\ call'[t].op = call[t].op
  BY <1>1, <1>4, LocalsLemma DEF Locals
<1>6. Moves(t)
  BY <1>1, <1>2, <1>3, <1>4, <1>5, InsideLemma DEF Moves
<1>7. Alone(t)' /\ Drafts(t)' /\ Named(t)'
  BY <1>1, <1>5 DEF Ordered, Alone, Locked, Drafts, Named
<1>8. Fresh(t)'
  BY <1>1, <1>2, <1>5 DEF Ordered, Fresh
<1>9. Created(t)'
  BY <1>1, <1>3, PathLemma, EntryLemma, <1>5 DEF TypeOK, Created
<1>10. QED
  BY <1>6, <1>7, <1>8, <1>9 DEF Ordered

LEMMA EffectFailsSafe ==
  ASSUME IInv, NEW t \in Calls, EffectFails(t) PROVE Moves(t) /\ Ordered(t)'
<1> DEFINE q == call[t].path
           e == [call[t].entry EXCEPT !.status = "failed"]
<1>1. /\ TypeOK /\ Ordered(t) /\ call[t].at = "effect" /\ q \in Paths
      /\ call[t].entry \in Entries /\ UNCHANGED <<note, inside>> /\ cut' = cut \cup {q}
      /\ concept' = [concept EXCEPT ![ConceptOf(q)] = q] \/ UNCHANGED concept
  BY DEF IInv, ShapeInv, Shape, CallInv, EffectFails
<1>2. e \in Entries /\ e.status # "applied" /\ e.evidence = call[t].entry.evidence
  BY <1>1, EntryLemma DEF Statuses
<1>3. Writes(t, e)
  BY DEF EffectFails
<1> HIDE DEF e
<1>4. Others(t) /\ call'[t] = [call[t] EXCEPT !.at = "write", !.entry = e]
  BY <1>1, <1>2, <1>3, WritesLemma
<1>5. /\ call'[t].at = "write" /\ call'[t].entry = e /\ call'[t].path = q
      /\ call'[t].op = call[t].op
  BY <1>1, <1>4, LocalsLemma DEF Locals
<1>6. Moves(t)
  BY <1>1, <1>4, InsideLemma DEF Moves
<1>7. Alone(t)' /\ Drafts(t)' /\ Named(t)'
  BY <1>1, <1>5 DEF Ordered, Alone, Locked, Drafts, Named
<1>8. Fresh(t)' /\ Created(t)'
  BY <1>1, <1>2, <1>5 DEF Ordered, Fresh, Created
<1>9. QED
  BY <1>6, <1>7, <1>8 DEF Ordered

LEMMA WriteSafe == ASSUME IInv, NEW t \in Calls, Write(t) PROVE Moves(t) /\ Ordered(t)'
<1> DEFINE p == call[t].path
           e == call[t].entry
           todo == Reloads(p, e.status, note[p].status # e.status)
<1>1. /\ TypeOK /\ call[t].at = "write" /\ p \in Paths /\ call' \in [Calls -> Locals]
      /\ note' = [note EXCEPT ![p] = e] /\ UNCHANGED <<concept, cut, inside>>
      /\ call' = [call EXCEPT ![t].at = "pop", ![t].todo = todo]
  BY WriteShape DEF IInv, ShapeInv, TypeOK, Shape, Write, world
<1> HIDE DEF todo
<1>2. /\ Others(t) /\ call'[t].at = "pop" /\ call'[t].path = p /\ call'[t].op = call[t].op
  BY <1>1, LocalsLemma DEF TypeOK, Others, Locals
<1>3. note'[p] = e /\ \A x \in Paths \ {p} : note'[x] = note[x]
  BY <1>1 DEF TypeOK
<1>4. Moves(t)
  BY <1>1, <1>2, <1>3, InsideLemma DEF Moves
<1>5. Ordered(t)'
  BY <1>1, <1>2, ReloadOrdered
<1>6. QED
  BY <1>4, <1>5

\* A reload changes only the cache.
LEMMA ReloadSafe ==
  ASSUME IInv, NEW t \in Calls, Pop(t) \/ Set(t) PROVE Moves(t) /\ Ordered(t)'
<1>1. ShapeInv'
  BY PopShape, SetShape DEF IInv
<1>2. /\ TypeOK /\ call[t].at \in {"pop", "set"} /\ UNCHANGED <<note, concept, cut, inside>>
      /\ call' \in [Calls -> Locals]
  BY <1>1 DEF IInv, ShapeInv, TypeOK, Pop, Set, vault, world
<1>3. /\ Others(t) /\ call'[t].at \in {"pop", "set"} /\ call'[t].path = call[t].path
      /\ call'[t].op = call[t].op
  BY <1>2, LocalsLemma DEF TypeOK, Others, Locals, Pop, Set
<1>4. Moves(t)
  BY <1>2, <1>3, ReadMoves
<1>5. QED
  BY <1>2, <1>3, <1>4, ReloadOrdered

LEMMA DoneSafe == ASSUME IInv, NEW t \in Calls, Done(t) PROVE Moves(t) /\ Ordered(t)'
<1>1. /\ TypeOK /\ call[t].at = "pop" /\ call[t].path \in Paths
      /\ UNCHANGED <<vault, cache, world>>
  BY DEF IInv, ShapeInv, Shape, Done
<1>2. CASE Leaves(t)
  BY <1>1, <1>2, LeavesSafe
<1>3. ASSUME NEW r \in Locals, call' = [call EXCEPT ![t] = r], UNCHANGED inside,
             call[t].op \in {"create", "ingest"},
             r.at \in {"idle", "lock"}, r.op \notin {"create", "ingest"}
      PROVE  Moves(t) /\ Ordered(t)'
  <2>1. Others(t) /\ call'[t] = r
    BY <1>1, <1>3, SetLemma
  <2>2. \A p \in Paths : t \notin inside'[p]
    BY <1>1, <1>3 DEF IInv, CallInv, Ordered, Alone, Locked
  <2>3. Moves(t)
    BY <1>1, <1>3, <2>1, ReadMoves DEF vault, world
  <2>4. QED
    BY <1>3, <2>1, <2>2, <2>3, OutOrdered
<1>4. CASE call[t].op = "create" /\ call' = [call EXCEPT ![t] = Idle] /\ UNCHANGED inside
  BY IdleLemma, <1>3, <1>4 DEF Idle
<1>5. CASE /\ call[t].op = "ingest" /\ UNCHANGED inside
           /\ call' = [call EXCEPT ![t] = Starting("apply", "lock", call[t].path)]
  <2> DEFINE r == Starting("apply", "lock", call[t].path)
  <2>1. r \in Locals /\ r.op = "apply" /\ r.at = "lock"
    BY <1>1, StartLemma DEF Ops, Places
  <2>2. call' = [call EXCEPT ![t] = r]
    BY <1>5
  <2> HIDE DEF r
  <2>3. QED
    BY <1>3, <1>5, <2>1, <2>2
<1>6. QED
  BY <1>2, <1>4, <1>5 DEF Done

LEMMA StorageFailsSafe ==
  ASSUME IInv, NEW t \in Calls, StorageFails(t) PROVE Moves(t) /\ Ordered(t)'
<1> DEFINE p == call[t].path
<1>1. /\ TypeOK /\ p \in Paths /\ call' = [call EXCEPT ![t] = Idle] /\ UNCHANGED concept
      /\ cut' = cut \cup {p} /\ inside' = [inside EXCEPT ![p] = @ \ {t}]
      /\ \/ call[t].at \in {"draft", "write"} /\ note' = [note EXCEPT ![p] = Blank]
         \/ UNCHANGED note
  BY DEF IInv, ShapeInv, Shape, StorageFails
<1>2. Others(t) /\ call'[t] = Idle
  BY <1>1, IdleLemma, SetLemma
<1>3. \A x \in Paths : t \notin inside'[x]
  BY <1>1 DEF TypeOK, IInv, CallInv, Ordered, Alone
<1>4. Moves(t)
  BY <1>1, InsideLemma, <1>2 DEF TypeOK, Moves
<1>5. Ordered(t)'
  BY <1>2, <1>3, OutOrdered DEF Idle
<1>6. QED
  BY <1>4, <1>5

-----------------------------------------------------------------------------
\* A crash, and the invariant.

\* The notes that a crash empties were being drafted or written, and were not final.
LEMMA CrashLemma ==
  ASSUME IInv, Crash, NEW p \in Paths, note'[p] # note[p]
  PROVE  p \in cut' /\ ~Final(p) /\ note'[p] = Blank
BY WriterLemma DEF Crash

LEMMA CrashSafe == ASSUME IInv, Crash PROVE IInv'
<1>1. ShapeInv'
  BY CrashShape DEF IInv
<1>2. /\ inside' = [p \in Paths |-> {}] /\ call' = [t \in Calls |-> Idle]
      /\ cut \subseteq cut' /\ concept' = concept
  BY DEF Crash
<1>3. CallInv'
  BY <1>2 DEF CallInv, Ordered, Alone, Locked, Fresh, Named, Created, Drafts, Idle
<1>4. Blank # None /\ Blank.status # "applied"
  BY EntryLemma DEF Blank
<1>5. ASSUME NEW c \in Concepts, concept[c] # None
      PROVE  /\ note'[concept[c]] # None
             /\ concept[c] \in cut' \/ note'[concept[c]].status = "applied"
  <2> DEFINE p == concept[c]
  <2>1. p \in Paths /\ note[p] # None
    BY <1>5 DEF IInv, ShapeInv, TypeOK
  <2>2. note'[p] # None
    BY <1>4, <2>1, CrashLemma
  <2>3. CASE p \in cut
    BY <1>2, <2>2, <2>3
  <2>4. CASE note[p].status = "applied"
    BY <2>1, <2>2, <2>4, CrashLemma DEF Final
  <2>5. ASSUME NEW u \in inside[p], call[u].at = "write" PROVE p \in cut'
    <3>1. u \in Calls /\ call[u].path = p
      BY <2>1, <2>5 DEF IInv, ShapeInv, TypeOK, CallInv, Ordered, Alone
    <3>2. QED
      BY <2>5, <3>1 DEF Crash
  <2>6. QED
    BY <1>5, <2>2, <2>3, <2>4, <2>5 DEF IInv, EffectOwned
<1>6. ASSUME NEW p \in Paths, note'[p] # None, note'[p].status = "applied"
      PROVE  concept[ConceptOf(p)] # None
  BY <1>4, <1>6, CrashLemma DEF IInv, EffectOwned
<1>7. EffectOwned'
  BY <1>2, <1>5, <1>6 DEF EffectOwned
<1>8. QED
  BY <1>1, <1>2, <1>3, <1>5, <1>7 DEF IInv

\* Every step is a move of a call, a crash, or leaves calls, notes and concepts alone.
LEMMA StepMoves ==
  ASSUME IInv, [Next]_vars
  PROVE  \/ \E t \in Calls : Moves(t) /\ Ordered(t)'
         \/ Crash
         \/ UNCHANGED <<note, concept, inside, call, cut>>
<1>1. ASSUME NEW t \in Calls,
             \/ \E c \in Concepts : CallCreate(t, c) \/ CallIngest(t, c)
             \/ \E op \in Ops, p \in Paths : CallOn(t, op, p)
             \/ CallExpire(t)
      PROVE  Moves(t) /\ Ordered(t)'
  BY <1>1, CallBegins, BeginSafe DEF IInv, ShapeInv
<1>2. ASSUME NEW t \in Calls, Enter(t) \/ Step(t) PROVE Moves(t) /\ Ordered(t)'
  BY <1>2, EnterSafe, UnderLockSafe, ListSafe, WriteDraftSafe, EffectSafe, WriteSafe,
     ReloadSafe, DoneSafe DEF Step
<1>3. ASSUME NEW t \in Calls, EffectFails(t) \/ StorageFails(t)
      PROVE  Moves(t) /\ Ordered(t)'
  BY <1>3, EffectFailsSafe, StorageFailsSafe
<1>4. Toggle \/ (\E p \in Paths : Age(p)) \/ UNCHANGED vars =>
        UNCHANGED <<note, concept, inside, call, cut>>
  BY DEF Toggle, Age, vars, vault
<1>5. QED
  BY <1>1, <1>2, <1>3, <1>4 DEF Next

LEMMA InitSafe == Init => IInv
<1> SUFFICES ASSUME Init PROVE IInv
  OBVIOUS
<1>1. ShapeInv
  BY InitShape
<1>2. CallInv
  BY DEF Init, Lock!MInit, CallInv, Ordered, Alone, Locked, Fresh, Named, Created, Drafts, Idle
<1>3. EffectOwned /\ \A c \in Concepts : concept[c] = None
  BY PathLemma DEF Init, EffectOwned, Draft
<1>4. QED
  BY <1>1, <1>2, <1>3 DEF IInv

LEMMA StepSafe == ASSUME SecondsDiffer PROVE IInv /\ [Next]_vars => IInv'
<1> SUFFICES ASSUME IInv, [Next]_vars PROVE IInv'
  OBVIOUS
<1>1. ShapeInv'
  BY StepShape DEF IInv
<1>2. CASE \E t \in Calls : Moves(t) /\ Ordered(t)'
  BY <1>1, <1>2, MovesKeep
<1>3. CASE Crash
  BY <1>3, CrashSafe
<1>4. CASE UNCHANGED <<note, concept, inside, call, cut>>
  BY <1>1, <1>4 DEF IInv, EffectOwned, CallInv, Ordered, Alone, Locked, Fresh, Named, Created,
                    Drafts
<1>5. QED
  BY <1>2, <1>3, <1>4, StepMoves

\* What the lock and the reads under it give is invariant, if no two calls draft in the
\* same second.
THEOREM SafetyInvariant == ASSUME SecondsDiffer PROVE Spec => []IInv
<1>1. IInv /\ [Next]_vars => IInv'
  BY StepSafe
<1>2. QED
  BY <1>1, InitSafe, PTL DEF Spec

\* A concept note has an action that is applied, or is being applied by the call that
\* holds its lock, or was cut short; and what was applied is there.
THEOREM Owned == ASSUME SecondsDiffer PROVE Spec => []EffectOwned
<1>1. IInv => EffectOwned
  BY DEF IInv
<1>2. QED
  BY <1>1, SafetyInvariant, PTL

\* Applied and rejected are final, whatever runs at the same time and wherever it fails.
THEOREM FinalForEver == ASSUME SecondsDiffer PROVE Spec => FinalStays
<1>1. ASSUME IInv, [Next]_vars
      PROVE  \A p \in Paths : Final(p) => Final(p)' /\ note'[p].status = note[p].status
  BY <1>1, NoteLemma, CrashLemma, StepMoves DEF Final
<1>2. QED
  BY <1>1, SafetyInvariant, PTL DEF Spec, FinalStays

\* No call loses the evidence that another has added to an action, unless one is cut short.
THEOREM EvidenceStays == ASSUME SecondsDiffer PROVE Spec => EvidenceKept
<1>1. ASSUME IInv, [Next]_vars
      PROVE  \A p \in Paths : note[p] # None /\ p \notin cut' =>
               note[p].evidence \subseteq note'[p].evidence
  <2>1. SUFFICES ASSUME NEW p \in Paths, note[p] # None, p \notin cut', note'[p] # note[p]
                 PROVE  note[p].evidence \subseteq note'[p].evidence
    OBVIOUS
  <2>2. ASSUME NEW t \in Calls, Moves(t)
        PROVE  note[p].evidence \subseteq note'[p].evidence
    BY <1>1, <2>1, <2>2, NoteLemma DEF Moves, IInv, CallInv, Ordered, Fresh
  <2>3. CASE Crash
    BY <1>1, <2>1, <2>3, CrashLemma
  <2>4. QED
    BY <1>1, <2>1, <2>2, <2>3, StepMoves
<1>2. QED
  BY <1>1, SafetyInvariant, PTL DEF Spec, EvidenceKept
=============================================================================
