--------------------------- MODULE KnowledgeProofs ---------------------------
(***************************************************************************)
(* Proofs about the vault's upkeep, its retrieval and its compiler, for    *)
(* any vaults, folders, names, paths, texts, answers and numbers of        *)
(* changes: whatever interrupts a migration of the folders, repeats it,    *)
(* reverts it or adds notes beside it, no text is lost and a revert        *)
(* restores (FlattenSound); whatever the watcher, its switch, the loop and *)
(* the reloads do and in whichever order, the index is right or news of    *)
(* the difference is on the way (WatcherSound); what an import makes of    *)
(* the model's answers keeps within its limits and its list                *)
(* (CompileSound); and what a search gives is there, was read once and is  *)
(* the newest (RetrievalSound).                                            *)
(***************************************************************************)
EXTENDS MCKnowledge, SequenceLemmas, SequenceTheorems, TLAPS

-----------------------------------------------------------------------------
\* Why a migration is safe.

\* The notes of a name, in a folder by maturity, and in those by kind.
StageNotes(s, stem) == {q \in DOMAIN notes : q[1] = s /\ q[2] = stem}
KindNotes(stem) == {q \in LegacyNotes : q[2] = stem}

\* When a migration begins, there is a number for every note that will have the name; the
\* code gives up at 999.
NumbersFor(s, stem) == Cardinality(StageNotes(s, stem)) + Cardinality(KindNotes(stem)) <= MaxNumber + 1
NumbersLast == Idle1 => \A p \in LegacyNotes, s \in Stages : NumbersFor(s, p[2])

\* Every note has its type; the texts of the first vault differ.
GoodNote(n) ==
  /\ n = Note(n.text, n.kind, n.stage, n.tags, n.was, n.bare)
  /\ n.stage \in Stages \cup {Unsaid} /\ n.bare \in BOOLEAN
NotesTyped ==
  /\ IsFiniteSet(DOMAIN notes) /\ DOMAIN notes \subseteq Places
  /\ rooted \in BOOLEAN /\ cuts \in Nat
  /\ \A p \in DOMAIN notes : GoodNote(notes[p])
  /\ \A p, q \in DOMAIN origin : origin[p].text = origin[q].text => p = q
  /\ \A p \in DOMAIN origin : origin[p].text # Theirs /\ p[1] # VaultRoot

\* Only a note in a folder by maturity states where it was, which was in one by kind, or
\* cannot be told; and as long as the vault cannot be recognised, none does.
WasPlaces ==
  /\ \A p \in DOMAIN notes : LET w == notes[p].was IN
       w # Unsaid => /\ p[1] \in Stages /\ w \in Places /\ w[1] \in Legacy \cup {VaultRoot}
                     /\ ~notes[p].bare
  /\ ~rooted => \A p \in DOMAIN notes : p[1] # VaultRoot /\ notes[p].was = Unsaid

WorkTyped ==
  /\ work \in [do: {"none", "apply", "revert"}, todo: {work.todo}, half: BOOLEAN]
  /\ work.half => work.todo # <<>>
  /\ work.do = "none" => work.todo = <<>>

\* The moves that are left are what the plan of the notes as they are now would be: each to
\* a place of its own that is free, if no person took it meanwhile; the first may be written.
Filled(i) == work.half /\ i = 1
MovesPlanned ==
  work.do = "apply" =>
    /\ work.todo = [i \in 1..Len(work.todo) |-> work.todo[i]] /\ Len(work.todo) \in Nat
    /\ \A i \in DOMAIN work.todo : LET m == work.todo[i] IN
         /\ m.src \in LegacyNotes /\ ~notes[m.src].bare
         /\ m.dst \in Places /\ m.dst[1] \in Stages
         /\ m.kind = notes[m.src].kind /\ m.tags = Tags1(notes[m.src])
         /\ ~Filled(i) /\ m.dst \in DOMAIN notes => m.dst \in made
         /\ Filled(i) => m.dst \in DOMAIN notes /\ notes[m.dst].text = notes[m.src].text
         /\ \A j \in DOMAIN work.todo : i # j => m.src # work.todo[j].src /\ m.dst # work.todo[j].dst
    /\ \A p \in LegacyNotes : notes[p].bare \/ p \in made \/ \E i \in DOMAIN work.todo : work.todo[i].src = p

\* So are the notes that are left to bring back.
ReturnsPlanned ==
  work.do = "revert" =>
    /\ work.todo \in Seq(Places)
    /\ \A i \in DOMAIN work.todo : LET p == work.todo[i] IN
         /\ p \in Stamped
         /\ Filled(i) => notes[p].was \in DOMAIN notes /\ notes[notes[p].was].text = notes[p].text
         /\ \A j \in DOMAIN work.todo : i # j => p # work.todo[j]
    /\ \A p \in Stamped : \E i \in DOMAIN work.todo : work.todo[i] = p

\* What is or was at a place no person put a note in has one text, however many copies of
\* it interruptions left: this is why a revert overwrites nothing but such copies.
Of(w) == {p \in DOMAIN notes : p = w \/ notes[p].was = w}
OneTextAPlace == \A w \in Places \ made : \A p, q \in Of(w) : notes[p].text = notes[q].text

\* Every text is there, or known as lost, and lost only where a person had put a note.
TextsKept ==
  /\ \A p \in DOMAIN notes : notes[p].text = Theirs \/ \E q \in DOMAIN origin : origin[q].text = notes[p].text
  /\ \A q \in DOMAIN origin :
       (\E p \in DOMAIN notes : notes[p].text = origin[q].text) \/ \E l \in lost : l.text = origin[q].text
  /\ \A l \in lost : l.at \in made

\* Two notes of one text are the two ends of the move at hand, unless there were interruptions.
Half(p) ==
  /\ work.half
  /\ \/ work.do = "apply" /\ p \in {Head(work.todo).src, Head(work.todo).dst}
     \/ work.do = "revert" /\ p \in {Head(work.todo), notes[Head(work.todo)].was}
OneCopy ==
  cuts = 0 => \A p, q \in DOMAIN notes :
    p # q /\ notes[p].text = notes[q].text /\ notes[p].text # Theirs => Half(p) /\ Half(q)

\* Where nothing was interrupted or added, a note is in its place, or states it, or it
\* cannot be told any more; and it has all its words, and at most its folder's kind beside.
Home(q, p, n) ==
  \/ p = q /\ n.was = Unsaid
  \/ p[1] = VaultRoot
  \/ p[1] \in Stages /\ q[1] \in Legacy /\ ~n.bare /\ n.was # Unsaid /\ (n.was = q \/ n.was[1] = VaultRoot)
AtHome ==
  cuts = 0 /\ made = {} => \A q \in DOMAIN origin, p \in DOMAIN notes : notes[p].text = origin[q].text =>
    /\ Home(q, p, notes[p])
    /\ OwnWords(origin[q]) \subseteq OwnWords(notes[p])
    /\ OwnWords(notes[p]) \subseteq OwnWords(origin[q]) \cup (IF q[1] \in Legacy THEN {KindOf[q[1]]} ELSE {})

FlattenInv ==
  /\ NotesTyped /\ WasPlaces /\ WorkTyped /\ MovesPlanned /\ ReturnsPlanned
  /\ OneTextAPlace /\ TextsKept /\ OneCopy /\ AtHome

-----------------------------------------------------------------------------
\* The plan.

\* A set of naturals with an element has a least one.
LEMMA LeastLemma ==
  ASSUME NEW S \in SUBSET Nat, S # {}
  PROVE  \E n \in S : \A m \in S : n <= m
<1> SUFFICES ASSUME \A n \in S : \E m \in S : ~(n <= m) PROVE FALSE
  OBVIOUS
<1> DEFINE T == {n \in Nat : \A m \in 0..n : m \notin S}
<1>1. 0 \notin S
  BY DEF T
<1>2. 0 \in T
  BY <1>1
<1>3. ASSUME NEW n \in T PROVE n + 1 \in T
  BY <1>3
<1>4. T = Nat
  BY <1>2, <1>3, NatInd
<1>5. \A n \in Nat : n \in 0..n
  OBVIOUS
<1>6. QED
  BY <1>4, <1>5

\* What Target chooses: a place of the right folder and name; a free one, if there is one.
LEMMA TargetFacts ==
  ASSUME NEW n, n.stage \in Stages \cup {Unsaid}, NEW p \in Places, NEW claimed
  PROVE  LET t == Target(n, p, claimed)
             stage == IF n.stage = Unsaid THEN Seedling ELSE n.stage
         IN /\ t \in Places /\ t[1] = stage /\ stage \in Stages /\ t[2] = p[2]
            /\ (\E i \in 0..MaxNumber : <<stage, p[2], i>> \notin claimed \cup DOMAIN notes)
                 => t \notin claimed \cup DOMAIN notes
<1> DEFINE stage == IF n.stage = Unsaid THEN Seedling ELSE n.stage
           free == {i \in 0..MaxNumber : <<stage, p[2], i>> \notin claimed \cup DOMAIN notes}
           k == IF free = {} THEN 0 ELSE CHOOSE i \in free : \A j \in free : i <= j
<1>1. stage \in Stages /\ p[2] \in Stems /\ MaxNumber \in Nat
  BY FlattenAssumption DEF Places
<1>2. Target(n, p, claimed) = <<stage, p[2], k>>
  BY DEF Target
<1>3. k \in 0..MaxNumber /\ (free # {} => k \in free)
  <2>1. free # {} => \E i \in free : \A j \in free : i <= j
    <3>1. free \in SUBSET Nat
      BY <1>1
    <3> HIDE DEF free
    <3>2. QED
      BY <3>1, LeastLemma
  <2>2. 0 \in 0..MaxNumber /\ free \subseteq 0..MaxNumber
    BY <1>1
  <2> HIDE DEF free
  <2>3. QED
    BY <2>1, <2>2
<1> HIDE DEF k
<1>4. <<stage, p[2], k>> \in Places
  BY <1>1, <1>3 DEF Places
<1>5. QED
  BY <1>1, <1>2, <1>3, <1>4

\* As long as numbers last, one is free beside those that other notes of the name claim.
Claims(D, to, p) == \A q \in D : q \in LegacyNotes /\ q # p /\ to[q][2] = q[2]
FreeBeside(D, to, s, stem) ==
  \E i \in 0..MaxNumber : <<s, stem, i>> \notin DOMAIN notes /\ \A q \in D : to[q] # <<s, stem, i>>

LEMMA NumberLemma ==
  ASSUME NotesTyped, NEW p \in LegacyNotes, NEW stage \in Stages,
         NumbersFor(stage, p[2]),
         NEW D, NEW to, Claims(D, to, p)
  PROVE  FreeBeside(D, to, stage, p[2])
<1> SUFFICES ASSUME \A i \in 0..MaxNumber : \/ <<stage, p[2], i>> \in DOMAIN notes
                                            \/ \E q \in D : to[q] = <<stage, p[2], i>>
             PROVE  FALSE
  BY DEF FreeBeside
<1>0. \A q \in D : q \in LegacyNotes /\ q # p /\ to[q][2] = q[2]
  BY DEF Claims
<1> DEFINE A == StageNotes(stage, p[2])
           L == KindNotes(p[2])
           Es == {q \in D : q[2] = p[2]}
           C == {to[q] : q \in Es}
           h == [i \in 0..MaxNumber |-> <<stage, p[2], i>>]
<1>1. /\ IsFiniteSet(A) /\ IsFiniteSet(L) /\ IsFiniteSet(Es)
      /\ Cardinality(A) \in Nat /\ Cardinality(L) \in Nat /\ Cardinality(Es) \in Nat
      /\ Cardinality(Es) <= Cardinality(L) - 1
  <2>1. IsFiniteSet(DOMAIN notes) /\ A \subseteq DOMAIN notes /\ L \subseteq DOMAIN notes
    BY DEF NotesTyped, LegacyNotes, StageNotes, KindNotes
  <2>2. IsFiniteSet(A) /\ IsFiniteSet(L)
    BY <2>1, FS_Subset
  <2>3. Es \subseteq L \ {p} /\ p \in L
    BY <1>0 DEF KindNotes
  <2> HIDE DEF A, L, Es
  <2>4. IsFiniteSet(L \ {p}) /\ Cardinality(L \ {p}) = Cardinality(L) - 1
    BY <2>2, <2>3, FS_RemoveElement
  <2>5. IsFiniteSet(Es) /\ Cardinality(Es) <= Cardinality(L \ {p})
    BY <2>3, <2>4, FS_Subset
  <2>6. QED
    BY <2>2, <2>4, <2>5, FS_CardinalityType
<1>2. IsFiniteSet(C) /\ Cardinality(C) <= Cardinality(Es) /\ Cardinality(C) \in Nat
  <2> DEFINE g == [q \in Es |-> to[q]]
  <2>1. g \in Surjection(Es, C)
    BY DEF Surjection
  <2> HIDE DEF g, Es, C
  <2>2. QED
    BY <1>1, <2>1, FS_Surjection, FS_CardinalityType
<1>3. IsFiniteSet(A \cup C) /\ Cardinality(A \cup C) <= Cardinality(A) + Cardinality(C)
  <2> HIDE DEF A, C
  <2>1. /\ IsFiniteSet(A \cup C)
        /\ Cardinality(A \cup C) = Cardinality(A) + Cardinality(C) - Cardinality(A \cap C)
    BY <1>1, <1>2, FS_Union
  <2>2. IsFiniteSet(A \cap C)
    BY <1>1, FS_Intersection
  <2>3. Cardinality(A \cap C) \in Nat /\ Cardinality(A \cup C) \in Nat
    BY <2>1, <2>2, FS_CardinalityType
  <2>4. QED
    BY <1>1, <1>2, <2>1, <2>3
<1>4. h \in Injection(0..MaxNumber, A \cup C)
  <2>1. \A i \in 0..MaxNumber : h[i] \in A \cup C
    BY <1>0 DEF StageNotes
  <2>2. \A i, j \in 0..MaxNumber : h[i] = h[j] => i = j
    OBVIOUS
  <2> HIDE DEF h, A, C
  <2>3. h \in [0..MaxNumber -> A \cup C]
    BY <2>1 DEF h
  <2>4. QED
    BY <2>2, <2>3 DEF Injection, IsInjective
<1>5. Cardinality(0..MaxNumber) <= Cardinality(A \cup C)
  BY <1>3, <1>4, FS_Injection
<1>6. Cardinality(0..MaxNumber) = MaxNumber + 1 /\ MaxNumber \in Nat
  BY FlattenAssumption, FS_Interval
<1>7. Cardinality(A \cup C) \in Nat
  BY <1>3, FS_CardinalityType
<1> HIDE DEF A, L, Es, C, h
<1>8. QED
  BY <1>1, <1>2, <1>3, <1>5, <1>6, <1>7 DEF A, L, NumbersFor

\* A sequence of all elements of a finite set, each once.
LEMMA OrderFacts ==
  ASSUME NEW S, IsFiniteSet(S), NEW s \in SetToSeqs(S)
  PROVE  /\ s \in Seq(S) /\ Len(s) \in Nat /\ DOMAIN s = 1..Len(s)
         /\ \A i, j \in 1..Len(s) : i # j => s[i] # s[j]
         /\ \A x \in S : \E i \in 1..Len(s) : s[i] = x
<1> DEFINE n == Cardinality(S)
<1>1. n \in Nat /\ s \in [1..n -> S] /\ \A i, j \in 1..n : i # j => s[i] # s[j]
  BY FS_CardinalityType DEF SetToSeqs
<1>2. s \in Surjection(1..n, S)
  BY <1>1, FS_Interval, FS_Injection DEF Injection, IsInjective
<1>3. s \in Seq(S) /\ Len(s) = n
  BY <1>1
<1>4. QED
  BY <1>1, <1>2, <1>3 DEF Surjection

\* A move that can be planned.
Planable(m) ==
  /\ m.src \in LegacyNotes /\ ~notes[m.src].bare
  /\ m.dst \in Places /\ m.dst[1] \in Stages /\ m.dst[2] = m.src[2]
  /\ m.kind = notes[m.src].kind /\ m.tags = Tags1(notes[m.src])

\* What Move makes of a note that can be read.
LEMMA MoveFacts ==
  ASSUME NotesTyped, NEW p \in LegacyNotes, ~notes[p].bare, NEW claimed
  PROVE  /\ Planable(Move(p, claimed)) /\ Move(p, claimed).src = p
         /\ Move(p, claimed).dst = Target(notes[p], p, claimed)
BY TargetFacts DEF NotesTyped, LegacyNotes, GoodNote, Move, Planable

\* Planned's recursion: f[i] is the plan for the first i notes.
Plans(f, row) ==
  /\ f[0] = <<>> /\ Planned(row) = f[Len(row)]
  /\ \A i \in 1..Len(row) :
       f[i] = IF notes[row[i]].bare THEN f[i - 1]
              ELSE Append(f[i - 1], Move(row[i], {f[i - 1][j].dst : j \in DOMAIN f[i - 1]}))

\* Planned is well defined, and typed.
LEMMA PlannedIs ==
  ASSUME NotesTyped, NEW row \in Seq(LegacyNotes)
  PROVE  \E f, X : f \in [0..Len(row) -> Seq(X)] /\ Plans(f, row)
<1> DEFINE n == Len(row)
           Then(i, w) == IF notes[row[i]].bare THEN w
                         ELSE Append(w, Move(row[i], {w[j].dst : j \in DOMAIN w}))
           X == [src: LegacyNotes, dst: Places, kind: {notes[p].kind : p \in LegacyNotes},
                 tags: {Tags1(notes[p]) : p \in LegacyNotes}]
           Ws == Seq(X)
           step == [i \in 1..n |-> [w \in Ws |-> Then(i, w)]]
           Body(f) == [i \in 0..n |->
                         IF i = 0 THEN <<>>
                         ELSE IF notes[row[i]].bare THEN f[i - 1]
                         ELSE Append(f[i - 1], Move(row[i], {f[i - 1][j].dst : j \in DOMAIN f[i - 1]}))]
           g == CHOOSE f : f = Body(f)
<1>1. \A w \in Ws, i \in 1..n : Then(i, w) \in Ws
  <2> SUFFICES ASSUME NEW w \in Ws, NEW i \in 1..n PROVE Then(i, w) \in Ws
    OBVIOUS
  <2> DEFINE m == Move(row[i], {w[j].dst : j \in DOMAIN w})
  <2>1. CASE notes[row[i]].bare
    BY <2>1
  <2>2. CASE ~notes[row[i]].bare
    <3>1. row[i] \in LegacyNotes
      OBVIOUS
    <3>2. Planable(m) /\ m = [src |-> m.src, dst |-> m.dst, kind |-> m.kind, tags |-> m.tags]
      BY <2>2, <3>1, MoveFacts DEF Move
    <3> HIDE DEF m
    <3>3. m \in X
      BY <3>2 DEF Planable
    <3> HIDE DEF X
    <3>4. Append(w, m) \in Ws
      BY <3>3
    <3>5. QED
      BY <2>2, <3>4 DEF m
  <2>3. QED
    BY <2>1, <2>2
<1>2. <<>> \in Ws /\ n \in Nat
  OBVIOUS
<1> HIDE DEF Then
<1>3. PICK f \in [0..n -> Ws] : f[0] = <<>> /\ \A i \in 1..n : f[i] = step[i][f[i - 1]]
  <2> DEFINE a == <<>>
  <2>1. a \in Ws /\ n \in Nat /\ step \in [1..n -> [Ws -> Ws]]
    BY <1>1, <1>2
  <2> HIDE DEF step, Ws, n, a
  <2>2. PICK Vs, b, k, st : Vs = Ws /\ b = a /\ k = n /\ st = step
    OBVIOUS
  <2>3. b \in Vs /\ k \in Nat /\ st \in [1..k -> [Vs -> Vs]]
    BY <2>1, <2>2
  <2>3a. b \in Vs
    BY <2>3
  <2>3b. k \in Nat
    BY <2>3
  <2>3c. st \in [1..k -> [Vs -> Vs]]
    BY <2>3
  <2>4. \E f \in [0..k -> Vs] : f[0] = b /\ \A i \in 1..k : f[i] = st[i][f[i - 1]]
    BY ONLY <2>3a, <2>3b, <2>3c, Recursion, SMTT(60)
  <2>5. QED
    BY <2>2, <2>4 DEF a
<1>4. \A i \in 1..n : i \in 0..n /\ i - 1 \in 0..n /\ f[i - 1] \in Ws
  BY <1>2
<1>5. \A i \in 1..n : f[i] = Then(i, f[i - 1])
  BY <1>3, <1>4
<1>6. f = Body(f)
  <2> HIDE DEF Ws, step, n
  <2>1. f = [i \in 0..n |-> f[i]]
    OBVIOUS
  <2>2. ASSUME NEW i \in 0..n
        PROVE  f[i] = Body(f)[i]
    <3>1. CASE i = 0
      BY <1>3, <3>1
    <3>2. CASE i # 0
      <4>1. i \in 1..n
        BY <1>2, <3>2
      <4>2. QED
        BY <1>5, <4>1, <3>2 DEF Then
    <3>3. QED
      BY <3>1, <3>2
  <2>3. Body(f) = [i \in 0..n |-> Body(f)[i]]
    OBVIOUS
  <2> HIDE DEF Body
  <2>4. QED
    BY <2>1, <2>2, <2>3
<1>7. g = Body(g)
  BY <1>6
<1>8. Planned(row) = g[n]
  BY DEF Planned
<1>9. g = f
  <2> DEFINE T == {m \in Nat : m <= n => g[m] = f[m]}
  <2>1. g[0] = <<>> /\ \A i \in 1..n : g[i] = Then(i, g[i - 1])
    <3> HIDE DEF Ws, step, n, g
    <3>1. \A i \in 0..n : g[i] = Body(g)[i]
      BY <1>7
    <3>2. \A h : Body(h)[0] = <<>> /\ \A i \in 1..n : Body(h)[i] = Then(i, h[i - 1])
      BY <1>2 DEF Then
    <3>3. 0 \in 0..n /\ \A i \in 1..n : i \in 0..n
      BY <1>2
    <3> HIDE DEF Body
    <3>4. QED
      BY <3>1, <3>2, <3>3
  <2>2. g = [i \in 0..n |-> g[i]] /\ f = [i \in 0..n |-> f[i]]
    BY <1>6, <1>7
  <2> HIDE DEF Ws, step, n, g
  <2>3. 0 \in T /\ \A m \in T : m + 1 \in T
    BY <1>2, <1>3, <1>5, <2>1
  <2>4. T \in SUBSET Nat
    OBVIOUS
  <2>5. T = Nat
    BY <2>3, <2>4, NatInd
  <2>6. \A i \in 0..n : g[i] = f[i]
    BY <1>2, <2>5
  <2>7. QED
    BY <2>2, <2>6
<1>10. Plans(f, row)
  BY <1>3, <1>5, <1>8, <1>9 DEF Plans, Then
<1>11. f \in [0..Len(row) -> Seq(X)]
  BY <1>3
<1> HIDE DEF X
<1>12. QED
  BY <1>10, <1>11

\* What is planned so far, for the first i notes of an row.
PlanUpTo(i, row, s) ==
  /\ Len(s) \in Nat /\ DOMAIN s = 1..Len(s) /\ s = [j \in 1..Len(s) |-> s[j]]
  /\ \A j \in 1..Len(s) : /\ Planable(s[j]) /\ s[j].dst \notin DOMAIN notes
                           /\ \E k \in 1..i : s[j].src = row[k]
  /\ \A j, k \in 1..Len(s) : j # k => s[j].src # s[k].src /\ s[j].dst # s[k].dst
  /\ \A k \in 1..i : notes[row[k]].bare \/ \E j \in 1..Len(s) : s[j].src = row[k]

\* As long as numbers last, the moves go to places of their own, where no note is.
LEMMA PlannedFacts ==
  ASSUME NotesTyped, NumbersLast, Idle1, NEW row \in SetToSeqs(LegacyNotes)
  PROVE  LET s == Planned(row) IN
         /\ Len(s) \in Nat /\ DOMAIN s = 1..Len(s) /\ s = [j \in 1..Len(s) |-> s[j]]
         /\ \A j \in 1..Len(s) : Planable(s[j]) /\ s[j].dst \notin DOMAIN notes
         /\ \A j, k \in 1..Len(s) : j # k => s[j].src # s[k].src /\ s[j].dst # s[k].dst
         /\ \A p \in LegacyNotes : notes[p].bare \/ \E j \in 1..Len(s) : s[j].src = p
<1> DEFINE n == Len(row)
<1>1. /\ row \in Seq(LegacyNotes) /\ n \in Nat /\ \A i \in 1..n : row[i] \in LegacyNotes
      /\ \A i, j \in 1..n : i # j => row[i] # row[j]
      /\ \A p \in LegacyNotes : \E i \in 1..n : row[i] = p
  <2>1. IsFiniteSet(LegacyNotes)
    BY FS_Subset DEF NotesTyped, LegacyNotes
  <2>2. QED
    BY <2>1, OrderFacts
<1>2. PICK f, X : f \in [0..n -> Seq(X)] /\ Plans(f, row)
  BY <1>1, PlannedIs
<1> DEFINE T == {i \in Nat : i <= n => PlanUpTo(i, row, f[i])}
<1>3. 0 \in T
  BY <1>2 DEF Plans, PlanUpTo
<1>4. ASSUME NEW i \in T, i + 1 <= n
      PROVE  PlanUpTo(i + 1, row, f[i + 1])
  <2> DEFINE s == f[i]
             p == row[i + 1]
             m == Move(p, {s[j].dst : j \in DOMAIN s})
  <2>1. /\ i \in Nat /\ PlanUpTo(i, row, s) /\ i + 1 \in 1..n /\ s \in Seq(X) /\ p \in LegacyNotes
        /\ f[i + 1] = IF notes[p].bare THEN s ELSE Append(s, m)
    <3>1. i \in Nat /\ i \in 0..n /\ i + 1 \in 1..n /\ (i + 1) - 1 = i
      BY <1>1, <1>4
    <3>a. PlanUpTo(i, row, s)
      BY <1>4, <3>1
    <3>b. s \in Seq(X) /\ p \in LegacyNotes
      BY <1>1, <1>2, <3>1
    <3>2. PlanUpTo(i, row, s) /\ s \in Seq(X) /\ p \in LegacyNotes
      BY <3>a, <3>b
    <3>3. \A k \in 1..n :
            f[k] = IF notes[row[k]].bare THEN f[k - 1]
                   ELSE Append(f[k - 1], Move(row[k], {f[k - 1][j].dst : j \in DOMAIN f[k - 1]}))
      BY <1>2 DEF Plans
    <3>4. f[i + 1] = IF notes[row[i + 1]].bare THEN f[(i + 1) - 1]
                     ELSE Append(f[(i + 1) - 1], Move(row[i + 1], {f[(i + 1) - 1][j].dst : j \in DOMAIN f[(i + 1) - 1]}))
      BY <3>1, <3>3
    <3>5. QED
      BY <3>1, <3>2, <3>4
  <2>2. \A k \in 1..(i + 1) : k \in 1..i \/ k = i + 1
    BY <2>1
  <2>3. \A k \in 1..i : k \in 1..(i + 1) /\ row[k] # p
    BY <1>1, <2>1
  <2>4. CASE notes[p].bare
    BY <2>1, <2>2, <2>3, <2>4 DEF PlanUpTo
  <2>5. CASE ~notes[p].bare
    <3>1. Planable(m) /\ m.src = p /\ m.dst = Target(notes[p], p, {s[j].dst : j \in DOMAIN s})
      BY <2>1, <2>5, MoveFacts
    <3>2. m.dst \notin {s[j].dst : j \in DOMAIN s} \cup DOMAIN notes
      <4> DEFINE D == {s[j].src : j \in 1..Len(s)}
                 stage == IF notes[p].stage = Unsaid THEN Seedling ELSE notes[p].stage
                 to == [q \in D |-> s[CHOOSE j \in 1..Len(s) : s[j].src = q].dst]
      <4>1. /\ \A j \in 1..Len(s) : /\ s[j].src \in LegacyNotes /\ s[j].src # p
                                     /\ s[j].dst \in Places /\ s[j].dst[2] = s[j].src[2]
            /\ \A j, k \in 1..Len(s) : s[j].src = s[k].src => j = k
            /\ DOMAIN s = 1..Len(s)
        BY <2>1, <2>3 DEF PlanUpTo, Planable
      <4>2. \A j \in 1..Len(s) : to[s[j].src] = s[j].dst
        BY <4>1
      <4>3. \A q \in D : q \in LegacyNotes /\ q # p /\ to[q][2] = q[2]
        <5> HIDE DEF s, to
        <5>1. QED
          BY <4>1, <4>2
      <4>4. {to[q] : q \in D} = {s[j].dst : j \in DOMAIN s}
        <5> HIDE DEF s, to
        <5>1. QED
          BY <4>1, <4>2
      <4>5. /\ p \in Places /\ notes[p].stage \in Stages \cup {Unsaid} /\ stage \in Stages
        BY <2>1, FlattenAssumption DEF NotesTyped, LegacyNotes, GoodNote
      <4>6. NumbersFor(stage, p[2])
        BY <2>1, <4>5 DEF NumbersLast
      <4>7. \E j \in 0..MaxNumber : <<stage, p[2], j>> \notin DOMAIN notes /\ \A q \in D : to[q] # <<stage, p[2], j>>
        <5>1. p \in LegacyNotes
          BY <2>1
        <5> HIDE DEF stage, to, D, s, p, m
        <5>2. PICK x, r, Es, g : x = p /\ r = stage /\ Es = D /\ g = to
          OBVIOUS
        <5>3. /\ x \in LegacyNotes /\ r \in Stages
              /\ Claims(Es, g, x)
              /\ NumbersFor(r, x[2])
          BY <5>1, <5>2, <4>3, <4>5, <4>6 DEF Claims
        <5>4. FreeBeside(Es, g, r, x[2])
          BY ONLY NotesTyped, <5>3, NumberLemma
        <5>5. QED
          BY <5>2, <5>4 DEF FreeBeside
      <4>8. \E j \in 0..MaxNumber : <<stage, p[2], j>> \notin {s[j1].dst : j1 \in DOMAIN s} \cup DOMAIN notes
        <5> HIDE DEF s, to, D, stage
        <5>1. PICK j \in 0..MaxNumber : <<stage, p[2], j>> \notin DOMAIN notes /\ \A q \in D : to[q] # <<stage, p[2], j>>
          BY <4>7
        <5>2. <<stage, p[2], j>> \notin {to[q] : q \in D}
          BY <5>1
        <5>3. QED
          BY <4>4, <5>1, <5>2
      <4>9. Target(notes[p], p, {s[j].dst : j \in DOMAIN s}) \notin {s[j].dst : j \in DOMAIN s} \cup DOMAIN notes
        BY <4>5, <4>8, TargetFacts
      <4>10. QED
        BY <3>1, <4>9
    <3> HIDE DEF m
    <3>3. PICK t : t = Append(s, m)
      OBVIOUS
    <3>4. /\ Len(s) \in Nat /\ Len(t) = Len(s) + 1 /\ DOMAIN t = 1..Len(t) /\ t = [j \in 1..Len(t) |-> t[j]]
          /\ t[Len(s) + 1] = m /\ \A j \in 1..Len(s) : t[j] = s[j]
      BY <2>1, <3>3
    <3>5. f[i + 1] = t
      BY <2>1, <2>5, <3>3
    <3>6. \A j \in 1..Len(t) : j \in 1..Len(s) \/ j = Len(s) + 1
      BY <3>4
    <3>7. /\ DOMAIN s = 1..Len(s)
          /\ \A j \in 1..Len(s) : /\ Planable(s[j]) /\ s[j].dst \notin DOMAIN notes
                                   /\ s[j].src # m.src /\ s[j].dst # m.dst
                                   /\ \E k \in 1..i : s[j].src = row[k]
          /\ \A j, k \in 1..Len(s) : j # k => s[j].src # s[k].src /\ s[j].dst # s[k].dst
          /\ \A k \in 1..i : notes[row[k]].bare \/ \E j \in 1..Len(s) : s[j].src = row[k]
      <4>1. /\ DOMAIN s = 1..Len(s)
            /\ \A j \in 1..Len(s) : /\ Planable(s[j]) /\ s[j].dst \notin DOMAIN notes
                                     /\ \E k \in 1..i : s[j].src = row[k]
            /\ \A j, k \in 1..Len(s) : j # k => s[j].src # s[k].src /\ s[j].dst # s[k].dst
            /\ \A k \in 1..i : notes[row[k]].bare \/ \E j \in 1..Len(s) : s[j].src = row[k]
        BY <2>1 DEF PlanUpTo
      <4> HIDE DEF s, p
      <4>2. \A j \in 1..Len(s) : s[j].src # m.src /\ s[j].dst # m.dst
        BY <2>3, <3>1, <3>2, <4>1, ZenonT(40)
      <4>3. QED
        BY <4>1, <4>2
    <3> HIDE DEF s
    <3>8. \A j \in 1..Len(t) : /\ Planable(t[j]) /\ t[j].dst \notin DOMAIN notes
                               /\ \E k \in 1..(i + 1) : t[j].src = row[k]
      <4> SUFFICES ASSUME NEW j \in 1..Len(t)
                   PROVE  /\ Planable(t[j]) /\ t[j].dst \notin DOMAIN notes
                          /\ \E k \in 1..(i + 1) : t[j].src = row[k]
        OBVIOUS
      <4>1. CASE j \in 1..Len(s)
        BY <3>4, <3>7, <4>1, <2>3
      <4>2. CASE j = Len(s) + 1
        BY <2>1, <3>1, <3>4, <4>2, <3>2
      <4>3. QED
        BY <3>6, <4>1, <4>2
    <3>9. \A j, k \in 1..Len(t) : j # k => t[j].src # t[k].src /\ t[j].dst # t[k].dst
      BY <3>4, <3>6, <3>7
    <3>10. \A k \in 1..(i + 1) : notes[row[k]].bare \/ \E j \in 1..Len(t) : t[j].src = row[k]
      <4>1. \A j \in 1..Len(s) : j \in 1..Len(t)
        BY <3>4
      <4>2. Len(s) + 1 \in 1..Len(t) /\ t[Len(s) + 1].src = row[i + 1]
        BY <3>1, <3>4
      <4>3. QED
        BY <2>2, <3>4, <3>7, <4>1, <4>2
    <3>11. Len(t) \in Nat
      BY <3>4
    <3>12. PlanUpTo(i + 1, row, t)
      BY <3>4, <3>8, <3>9, <3>10, <3>11 DEF PlanUpTo
    <3>13. QED
      BY <3>5, <3>12
  <2>6. QED
    BY <2>4, <2>5
<1>5. T = Nat
  <2>1. \A i \in T : i + 1 \in T
    BY <1>4
  <2>2. T \in SUBSET Nat
    OBVIOUS
  <2> HIDE DEF T
  <2>3. QED
    BY <1>3, <2>1, <2>2, NatInd
<1>6. PlanUpTo(n, row, f[n]) /\ Planned(row) = f[n]
  BY <1>1, <1>2, <1>5, SMTT(30) DEF Plans
<1>7. PICK s : s = Planned(row)
  OBVIOUS
<1>8. PlanUpTo(n, row, s)
  BY <1>6, <1>7
<1>9. /\ Len(s) \in Nat /\ DOMAIN s = 1..Len(s) /\ s = [j \in 1..Len(s) |-> s[j]]
      /\ \A j \in 1..Len(s) : Planable(s[j]) /\ s[j].dst \notin DOMAIN notes
      /\ \A j, k \in 1..Len(s) : j # k => s[j].src # s[k].src /\ s[j].dst # s[k].dst
      /\ \A p \in LegacyNotes : notes[p].bare \/ \E j \in 1..Len(s) : s[j].src = p
  BY <1>1, <1>8, SMTT(30) DEF PlanUpTo
<1>10. QED
  BY <1>7, <1>9

-----------------------------------------------------------------------------
\* The steps.

\* What is assumed of the constants, and what a place is.
LEMMA Constants ==
  /\ Seedling \in Stages /\ MaxNumber \in Nat /\ Unsaid \notin Places /\ Unsaid \notin Stages
  /\ Legacy \cap Stages = {} /\ VaultRoot \notin Legacy /\ VaultRoot \notin Stages
  /\ \A p \in Places : /\ p = <<p[1], p[2], p[3]>> /\ <<VaultRoot, p[2], p[3]>> \in Places
                       /\ p[1] \in Legacy \cup Stages \cup {VaultRoot}
  BY FlattenAssumption DEF Places

\* The notes after a note is put in a place, and after one is taken away.
LEMMA PutFacts ==
  ASSUME NotesTyped, NEW p \in Places, NEW n, GoodNote(n),
         notes' = [q \in DOMAIN notes \cup {p} |-> IF q = p THEN n ELSE notes[q]]
  PROVE  /\ IsFiniteSet(DOMAIN notes') /\ DOMAIN notes' \subseteq Places
         /\ \A q \in DOMAIN notes' : GoodNote(notes'[q])
         /\ DOMAIN notes' = DOMAIN notes \cup {p} /\ notes'[p] = n
         /\ \A q \in DOMAIN notes : q # p => notes'[q] = notes[q]
BY FS_AddElement DEF NotesTyped

LEMMA TakeFacts ==
  ASSUME NotesTyped, NEW p, Takes1(p)
  PROVE  /\ IsFiniteSet(DOMAIN notes') /\ DOMAIN notes' \subseteq Places
         /\ \A q \in DOMAIN notes' : GoodNote(notes'[q])
         /\ DOMAIN notes' = DOMAIN notes \ {p} /\ lost' = lost
         /\ \A q \in DOMAIN notes : q # p => notes'[q] = notes[q]
BY FS_Subset DEF Takes1, NotesTyped

\* What a write does to the texts: that of the place it writes, if it was another one, is lost.
LEMMA TextsLemma ==
  ASSUME NotesTyped, TextsKept, NEW p \in Places, NEW n, GoodNote(n), Puts(p, n),
         \E r \in DOMAIN notes : notes[r].text = n.text,
         p \in DOMAIN notes /\ notes[p].text # n.text => p \in made,
         origin' = origin, made' = made
  PROVE  TextsKept'
<1>1. /\ DOMAIN notes' = DOMAIN notes \cup {p} /\ notes'[p] = n
      /\ \A q \in DOMAIN notes : q # p => notes'[q] = notes[q]
  BY PutFacts DEF Puts
<1>2. \/ p \in DOMAIN notes /\ notes[p].text # n.text /\ p \in made
         /\ lost' = lost \cup {[text |-> notes[p].text, at |-> p]}
      \/ ~(p \in DOMAIN notes /\ notes[p].text # n.text) /\ lost' = lost
  BY DEF Puts, There1
<1>3. \A q \in DOMAIN notes' : notes'[q].text = Theirs \/ \E r \in DOMAIN origin' : origin'[r].text = notes'[q].text
  BY <1>1 DEF TextsKept
<1>4. \A l \in lost' : l.at \in made'
  BY <1>2 DEF TextsKept
<1>5. ASSUME NEW q \in DOMAIN origin
      PROVE  (\E r \in DOMAIN notes' : notes'[r].text = origin[q].text) \/ \E l \in lost' : l.text = origin[q].text
  <2>1. CASE \E l \in lost : l.text = origin[q].text
    BY <1>2, <2>1
  <2>2. CASE \E r \in DOMAIN notes : notes[r].text = origin[q].text
    <3>1. PICK r \in DOMAIN notes : notes[r].text = origin[q].text
      BY <2>2
    <3>2. CASE r # p
      BY <1>1, <3>1, <3>2
    <3>3. CASE r = p /\ n.text = notes[p].text
      BY <1>1, <3>1, <3>3
    <3>4. CASE r = p /\ n.text # notes[p].text
      <4>1. PICK l : l = [text |-> notes[p].text, at |-> p]
        OBVIOUS
      <4>2. l \in lost' /\ l.text = origin[q].text
        BY <1>2, <3>1, <3>4, <4>1
      <4>3. QED
        BY <4>2
    <3>5. QED
      BY <3>2, <3>3, <3>4
  <2>3. QED
    BY <2>1, <2>2 DEF TextsKept
<1>6. QED
  BY <1>3, <1>4, <1>5 DEF TextsKept

\* What is taken away when its text is elsewhere.
LEMMA TakenLemma ==
  ASSUME NotesTyped, TextsKept, NEW p, Takes1(p),
         \E r \in DOMAIN notes : r # p /\ notes[r].text = notes[p].text,
         origin' = origin, made' = made
  PROVE  TextsKept'
<1>1. /\ DOMAIN notes' = DOMAIN notes \ {p} /\ lost' = lost
      /\ \A q \in DOMAIN notes : q # p => notes'[q] = notes[q]
  BY TakeFacts
<1>2. QED
  BY <1>1 DEF TextsKept

\* A sequence and what is behind its head.
LEMMA TailFacts ==
  ASSUME NEW s, NEW X, s \in Seq(X), s # <<>>
  PROVE  /\ Head(s) = s[1] /\ 1 \in DOMAIN s /\ DOMAIN s = 1..Len(s) /\ Tail(s) \in Seq(X)
         /\ \A i \in DOMAIN Tail(s) : i + 1 \in DOMAIN s /\ i + 1 # 1 /\ Tail(s)[i] = s[i + 1] /\ i \in Nat
         /\ \A i \in DOMAIN s : i # 1 => i - 1 \in DOMAIN Tail(s) /\ Tail(s)[i - 1] = s[i]
  OBVIOUS

\* A vault before its migration.
LEMMA FlattenBegins ==
  ASSUME FlattenInit
  PROVE  FlattenInv
<1>1. PICK v \in Vaults0 : notes = v.notes /\ rooted = v.rooted /\ origin = v.notes
  BY DEF FlattenInit
<1>2. /\ work = NoWork /\ made = {} /\ lost = {} /\ cuts = 0
  BY DEF FlattenInit
<1>3. /\ IsFiniteSet(DOMAIN notes) /\ rooted \in BOOLEAN /\ origin = notes
      /\ \A p \in DOMAIN notes :
            /\ p \in Places /\ p[1] # VaultRoot /\ notes[p].text # Theirs
            /\ notes[p].stage \in Stages \cup {Unsaid} /\ notes[p].bare \in BOOLEAN
            /\ notes[p] = Note(notes[p].text, notes[p].kind, notes[p].stage, notes[p].tags, Unsaid, notes[p].bare)
            /\ \A q \in DOMAIN notes : notes[q].text = notes[p].text => q = p
  BY <1>1, FlattenAssumption
<1>4. \A p \in DOMAIN notes : notes[p].was = Unsaid
  BY <1>3 DEF Note
<1>5. NotesTyped
  BY <1>3, <1>4, <1>2 DEF GoodNote, NotesTyped
<1>6. WasPlaces /\ OneTextAPlace /\ TextsKept /\ OneCopy /\ AtHome
  <2>1. WasPlaces
    BY <1>3, <1>4 DEF WasPlaces
  <2>2. OneTextAPlace
    BY <1>3, <1>4, Constants DEF OneTextAPlace, Of
  <2>3. TextsKept
    BY <1>2, <1>3 DEF TextsKept
  <2>4. OneCopy
    BY <1>3 DEF OneCopy
  <2>5. AtHome
    BY <1>3, <1>4 DEF AtHome, Home
  <2>6. QED
    BY <2>1, <2>2, <2>3, <2>4, <2>5
<1>7. WorkTyped /\ MovesPlanned /\ ReturnsPlanned
  BY <1>2 DEF NoWork, WorkTyped, MovesPlanned, ReturnsPlanned
<1>8. QED
  BY <1>5, <1>6, <1>7 DEF FlattenInv

\* A migration is planned; nothing is moved yet.
LEMMA MigrateLemma ==
  ASSUME FlattenInv, NumbersLast, Migrate
  PROVE  FlattenInv'
<1>1. PICK row \in SetToSeqs(LegacyNotes) : work' = [do |-> "apply", todo |-> Planned(row), half |-> FALSE]
  BY DEF Migrate
<1>2. /\ notes' = notes /\ origin' = origin /\ made' = made /\ lost' = lost /\ cuts' = cuts
      /\ rooted' \in {rooted, TRUE} /\ Idle1
      /\ work'.do = "apply" /\ work'.todo = Planned(row) /\ ~work'.half
  BY <1>1 DEF Migrate, Begins2
<1>3. PICK s : s = Planned(row)
  OBVIOUS
<1>4. /\ Len(s) \in Nat /\ DOMAIN s = 1..Len(s) /\ s = [j \in 1..Len(s) |-> s[j]]
      /\ \A j \in 1..Len(s) : Planable(s[j]) /\ s[j].dst \notin DOMAIN notes
      /\ \A j, k \in 1..Len(s) : j # k => s[j].src # s[k].src /\ s[j].dst # s[k].dst
      /\ \A p \in LegacyNotes : notes[p].bare \/ \E j \in 1..Len(s) : s[j].src = p
  BY <1>1, <1>2, <1>3, PlannedFacts DEF FlattenInv
<1>5. NotesTyped'
  BY <1>2 DEF FlattenInv, NotesTyped
<1>6. WasPlaces'
  <2>1. ~rooted' => ~rooted
    BY <1>2
  <2>2. QED
    BY <1>2, <2>1 DEF FlattenInv, WasPlaces
<1>7. WorkTyped'
  BY <1>1 DEF WorkTyped
<1>8. MovesPlanned'
  BY <1>4, <1>2, <1>3 DEF LegacyNotes, Tags1, MovesPlanned, Planable, Filled
<1>9. ReturnsPlanned'
  BY <1>2 DEF ReturnsPlanned
<1>10. OneTextAPlace' /\ TextsKept' /\ AtHome'
  BY <1>2 DEF FlattenInv, OneTextAPlace, TextsKept, AtHome, Of
<1>11. OneCopy'
  BY <1>2 DEF FlattenInv, OneCopy, Half, WorkTyped, Idle1
<1>12. QED
  BY <1>5, <1>6, <1>7, <1>8, <1>9, <1>10, <1>11 DEF FlattenInv

\* So is a revert.
LEMMA RevertLemma ==
  ASSUME FlattenInv, Revert
  PROVE  FlattenInv'
<1>1. PICK row \in SetToSeqs(Stamped) : work' = [do |-> "revert", todo |-> row, half |-> FALSE]
  BY DEF Revert
<1>2. /\ notes' = notes /\ origin' = origin /\ made' = made /\ lost' = lost /\ cuts' = cuts
      /\ rooted' = rooted /\ Idle1
      /\ work'.do = "revert" /\ work'.todo = row /\ ~work'.half
  BY <1>1 DEF Revert, Begins2
<1>3. IsFiniteSet(Stamped) /\ Stamped \subseteq Places
  BY FS_Subset DEF FlattenInv, NotesTyped, Stamped
<1>4. /\ row \in Seq(Stamped) /\ DOMAIN row = 1..Len(row)
      /\ \A i, j \in 1..Len(row) : i # j => row[i] # row[j]
      /\ \A x \in Stamped : \E i \in 1..Len(row) : row[i] = x
  BY <1>3, OrderFacts
<1>5. NotesTyped'
  BY <1>2 DEF FlattenInv, NotesTyped
<1>6. WasPlaces'
  BY <1>2 DEF FlattenInv, WasPlaces
<1>7. WorkTyped'
  BY <1>1 DEF WorkTyped
<1>8. MovesPlanned'
  BY <1>2 DEF MovesPlanned
<1>9. ReturnsPlanned'
  BY <1>2, <1>3, <1>4 DEF Stamped, ReturnsPlanned, Filled
<1>10. OneTextAPlace' /\ TextsKept' /\ AtHome'
  BY <1>2 DEF FlattenInv, OneTextAPlace, TextsKept, AtHome, Of
<1>11. OneCopy'
  BY <1>2 DEF FlattenInv, OneCopy, Half, WorkTyped, Idle1
<1>12. QED
  BY <1>5, <1>6, <1>7, <1>8, <1>9, <1>10, <1>11 DEF FlattenInv

\* The work ends, or is interrupted.
LEMMA StopLemma ==
  ASSUME FlattenInv, Done1 \/ Interrupt
  PROVE  FlattenInv'
<1>1. /\ notes' = notes /\ origin' = origin /\ made' = made /\ lost' = lost /\ rooted' = rooted
      /\ work' = NoWork
      /\ (cuts' = cuts /\ work.todo = <<>>) \/ cuts' = cuts + 1
  BY DEF Done1, Working, Interrupt
<1>2. cuts \in Nat /\ (work.todo = <<>> => ~work.half)
  BY DEF FlattenInv, NotesTyped, WorkTyped
<1>3. NotesTyped'
  BY <1>1, <1>2 DEF FlattenInv, NotesTyped
<1>4. WasPlaces' /\ OneTextAPlace' /\ TextsKept'
  BY <1>1 DEF FlattenInv, WasPlaces, OneTextAPlace, TextsKept, Of
<1>5. WorkTyped' /\ MovesPlanned' /\ ReturnsPlanned'
  BY <1>1 DEF NoWork, WorkTyped, MovesPlanned, ReturnsPlanned
<1>6. cuts' = 0 => cuts = 0 /\ ~work.half
  BY <1>1, <1>2
<1>7. AtHome'
  BY <1>1, <1>6 DEF FlattenInv, AtHome
<1>8. OneCopy'
  BY <1>1, <1>6 DEF FlattenInv, OneCopy, Half, NoWork
<1>9. QED
  BY <1>3, <1>4, <1>5, <1>7, <1>8 DEF FlattenInv

\* A person adds a note, in a place that is free now, whoever means to use it later.
LEMMA TouchLemma ==
  ASSUME FlattenInv, NEW p \in Places, p[1] # VaultRoot, Touch(p)
  PROVE  FlattenInv'
<1> DEFINE n == Note(Theirs, Unsaid, Unsaid, {}, Unsaid, FALSE)
<1>1. /\ n.text = Theirs /\ n.was = Unsaid /\ GoodNote(n)
  BY DEF Note, GoodNote
<1>2. /\ notes' = [q \in DOMAIN notes \cup {p} |-> IF q = p THEN n ELSE notes[q]]
      /\ origin' = origin /\ made' = made \cup {p} /\ lost' = lost /\ rooted' = rooted /\ work' = work
      /\ cuts' = cuts /\ p \notin DOMAIN notes
  BY DEF Touch, There1
<1> HIDE DEF n
<1>3. /\ IsFiniteSet(DOMAIN notes') /\ DOMAIN notes' \subseteq Places
      /\ \A q \in DOMAIN notes' : GoodNote(notes'[q])
      /\ DOMAIN notes' = DOMAIN notes \cup {p} /\ notes'[p] = n
      /\ \A q \in DOMAIN notes : q # p /\ notes'[q] = notes[q]
  BY <1>1, <1>2, PutFacts DEF FlattenInv
<1>4. NotesTyped'
  BY <1>2, <1>3 DEF FlattenInv, NotesTyped
<1>5. WasPlaces'
  BY <1>1, <1>2, <1>3 DEF FlattenInv, WasPlaces
<1>6. WorkTyped'
  BY <1>2 DEF FlattenInv, WorkTyped
<1>7. MovesPlanned'
  BY SMTT(30), <1>3, <1>2 DEF LegacyNotes, FlattenInv, MovesPlanned, Filled, Tags1
<1>8. ReturnsPlanned'
  BY <1>1, <1>3, <1>2 DEF Stamped, FlattenInv, ReturnsPlanned, Filled
<1>9. OneTextAPlace'
  BY <1>2, Constants, <1>1, <1>3 DEF OneTextAPlace, Of, FlattenInv
<1>10. TextsKept'
  BY <1>1, <1>2, <1>3 DEF FlattenInv, TextsKept
<1>11. OneCopy'
  BY TailFacts, <1>2, <1>3, <1>1 DEF FlattenInv, ReturnsPlanned, WorkTyped, Stamped, Half, OneCopy
<1>12. AtHome'
  BY <1>2 DEF AtHome
<1>13. QED
  BY <1>4, <1>5, <1>6, <1>7, <1>8, <1>9, <1>10, <1>11, <1>12 DEF FlattenInv

\* What a move makes of a note.
LEMMA FlattenedFacts ==
  ASSUME FlattenInv, NEW m, m.src \in LegacyNotes, ~notes[m.src].bare,
         m.kind = notes[m.src].kind, m.tags = Tags1(notes[m.src])
  PROVE  LET n == notes[m.src]
             f == Flattened(m)
         IN /\ GoodNote(f) /\ f.text = n.text /\ ~f.bare /\ f.was = Stamp(m.src)
            /\ f.was \in Places /\ f.was # Unsaid /\ (IF rooted THEN f.was = m.src ELSE f.was[1] = VaultRoot)
            /\ OwnWords(f) = OwnWords(n)
<1> DEFINE n == notes[m.src]
           f == Flattened(m)
<1>1. m.src \in Places /\ GoodNote(n)
  BY DEF FlattenInv, NotesTyped, LegacyNotes
<1>2. /\ n = [text |-> n.text, kind |-> n.kind, stage |-> n.stage, tags |-> n.tags, was |-> n.was, bare |-> n.bare]
      /\ n.stage \in Stages \cup {Unsaid} /\ n.bare \in BOOLEAN
  BY <1>1 DEF GoodNote, Note
<1>3. f = [n EXCEPT !.stage = IF @ = Unsaid THEN Seedling ELSE @, !.tags = m.tags,
                    !.kind = IF m.kind = Unsaid THEN @ ELSE Unsaid, !.was = Stamp(m.src)]
  BY DEF Flattened
<1> HIDE DEF n, f
<1>4. /\ f.text = n.text /\ f.kind = (IF n.kind = Unsaid THEN n.kind ELSE Unsaid)
      /\ f.stage = (IF n.stage = Unsaid THEN Seedling ELSE n.stage)
      /\ f.tags = m.tags /\ f.was = Stamp(m.src) /\ f.bare = n.bare
      /\ f = [text |-> f.text, kind |-> f.kind, stage |-> f.stage, tags |-> f.tags, was |-> f.was, bare |-> f.bare]
  BY <1>2, <1>3 DEF n
<1>5. GoodNote(f)
  BY <1>2, <1>4, Constants DEF GoodNote, Note
<1>6. Stamp(m.src) \in Places /\ Stamp(m.src) # Unsaid
      /\ (IF rooted THEN Stamp(m.src) = m.src ELSE Stamp(m.src)[1] = VaultRoot)
  BY <1>1, Constants DEF Stamp
<1>7. OwnWords(f) = OwnWords(n)
  BY <1>4 DEF Tags1, n, OwnWords
<1>8. QED
  BY <1>4, <1>5, <1>6, <1>7 DEF n, f

\* The moves that are left after the first one.
LEMMA MovesTail ==
  ASSUME NEW s, s = [i \in 1..Len(s) |-> s[i]], Len(s) \in Nat, s # <<>>
  PROVE  /\ Head(s) = s[1] /\ 1 \in DOMAIN s /\ DOMAIN s = 1..Len(s)
         /\ \A i \in DOMAIN Tail(s) : i + 1 \in DOMAIN s /\ i + 1 # 1 /\ Tail(s)[i] = s[i + 1] /\ i \in Nat
         /\ \A i \in DOMAIN s : i # 1 => i - 1 \in DOMAIN Tail(s) /\ Tail(s)[i - 1] = s[i]
         /\ Len(Tail(s)) \in Nat /\ Tail(s) = [i \in 1..Len(Tail(s)) |-> Tail(s)[i]]
<1>1. PICK X : X = {s[i] : i \in 1..Len(s)}
  OBVIOUS
<1>2. s \in Seq(X)
  BY <1>1
<1>3. PICK t : t = Tail(s)
  OBVIOUS
<1>4. t \in Seq(X)
  BY <1>2, <1>3
<1>5. Len(t) \in Nat /\ t = [i \in 1..Len(t) |-> t[i]]
  BY ONLY <1>4
<1>6. QED
  BY <1>2, <1>3, <1>5, TailFacts

\* What the move at hand is.
LEMMA HeadMove ==
  ASSUME FlattenInv, work.do = "apply", work.todo # <<>>
  PROVE  LET m == Head(work.todo) IN
         /\ m = work.todo[1] /\ 1 \in DOMAIN work.todo
         /\ m.src \in LegacyNotes /\ ~notes[m.src].bare /\ m.src[1] \in Legacy /\ m.src \in DOMAIN notes
         /\ m.dst \in Places /\ m.dst[1] \in Stages /\ m.dst # m.src
         /\ m.kind = notes[m.src].kind /\ m.tags = Tags1(notes[m.src])
         /\ ~work.half /\ m.dst \in DOMAIN notes => m.dst \in made
         /\ work.half => m.dst \in DOMAIN notes /\ notes[m.dst].text = notes[m.src].text
         /\ DOMAIN work.todo = 1..Len(work.todo)
         /\ \A i \in DOMAIN Tail(work.todo) : /\ i + 1 \in DOMAIN work.todo /\ i + 1 # 1 /\ i \in Nat
                                              /\ Tail(work.todo)[i] = work.todo[i + 1]
         /\ \A i \in DOMAIN work.todo : i # 1 => /\ i - 1 \in DOMAIN Tail(work.todo)
                                                 /\ Tail(work.todo)[i - 1] = work.todo[i]
         /\ Len(Tail(work.todo)) \in Nat
         /\ Tail(work.todo) = [i \in 1..Len(Tail(work.todo)) |-> Tail(work.todo)[i]]
BY MovesTail, Constants DEF FlattenInv, MovesPlanned, LegacyNotes, Filled

\* The first half of a move: the text is in two places.
LEMMA WriteMovedLemma ==
  ASSUME FlattenInv, WriteMoved
  PROVE  FlattenInv'
<1>1. PICK m : m = Head(work.todo)
  OBVIOUS
<1>2. PICK n : n = Flattened(m)
  OBVIOUS
<1>3. PICK o : o = notes[m.src]
  OBVIOUS
<1>4. /\ work.do = "apply" /\ work.todo # <<>> /\ ~work.half /\ Puts(m.dst, n)
      /\ rooted' = TRUE /\ work' = [work EXCEPT !.half = TRUE]
      /\ origin' = origin /\ made' = made /\ cuts' = cuts
  BY <1>1, <1>2 DEF WriteMoved, Working
<1>5. /\ work'.do = "apply" /\ work'.todo = work.todo /\ work'.half
      /\ work' \in [do: {"none", "apply", "revert"}, todo: {work'.todo}, half: BOOLEAN]
  BY <1>4 DEF FlattenInv, WorkTyped
<1>6. /\ m = work.todo[1] /\ 1 \in DOMAIN work.todo
      /\ m.src \in LegacyNotes /\ ~notes[m.src].bare /\ m.src[1] \in Legacy /\ m.src \in DOMAIN notes
      /\ m.dst \in Places /\ m.dst[1] \in Stages /\ m.dst # m.src
      /\ m.kind = notes[m.src].kind /\ m.tags = Tags1(notes[m.src])
      /\ m.dst \in DOMAIN notes => m.dst \in made
  BY <1>1, <1>4, HeadMove
<1>7. /\ GoodNote(n) /\ n.text = o.text /\ ~n.bare
      /\ n.was \in Places /\ n.was # Unsaid /\ (IF rooted THEN n.was = m.src ELSE n.was[1] = VaultRoot)
      /\ OwnWords(n) = OwnWords(o)
  BY <1>2, <1>3, <1>6, FlattenedFacts
<1>8. /\ IsFiniteSet(DOMAIN notes') /\ DOMAIN notes' \subseteq Places
      /\ \A q \in DOMAIN notes' : GoodNote(notes'[q])
      /\ DOMAIN notes' = DOMAIN notes \cup {m.dst} /\ notes'[m.dst] = n
      /\ \A q \in DOMAIN notes : q # m.dst => notes'[q] = notes[q]
  BY <1>4, <1>6, <1>7, PutFacts DEF FlattenInv, Puts
<1>9. NotesTyped'
  BY <1>4, <1>8 DEF FlattenInv, NotesTyped
<1>10. WasPlaces'
  BY <1>4, <1>6, <1>7, <1>8 DEF FlattenInv, WasPlaces
<1>11. WorkTyped'
  BY <1>4, <1>5 DEF WorkTyped
<1>12. LegacyNotes' = LegacyNotes /\ \A q \in LegacyNotes : q \in DOMAIN notes /\ q # m.dst
  BY <1>6, <1>8, Constants DEF LegacyNotes
<1>13. MovesPlanned'
  <2>1. ASSUME NEW i \in DOMAIN work.todo
        PROVE  LET t == work.todo[i] IN
               /\ t.src \in LegacyNotes' /\ ~notes'[t.src].bare
               /\ t.dst \in Places /\ t.dst[1] \in Stages
               /\ t.kind = notes'[t.src].kind /\ t.tags = Tags1(notes'[t.src])
               /\ i # 1 /\ t.dst \in DOMAIN notes' => t.dst \in made'
               /\ i = 1 => t.dst \in DOMAIN notes' /\ notes'[t.dst].text = notes'[t.src].text
               /\ \A j \in DOMAIN work.todo : i # j => t.src # work.todo[j].src /\ t.dst # work.todo[j].dst
    BY SMTT(30), <1>4, <1>8, <1>12, <1>6, <1>3, <1>7 DEF FlattenInv, MovesPlanned, Filled
  <2>2. \A i : Filled(i)' <=> i = 1
    BY <1>5 DEF Filled
  <2>3. \A q \in LegacyNotes' : notes'[q].bare \/ q \in made' \/ \E i \in DOMAIN work.todo : work.todo[i].src = q
    BY <1>4, <1>8, <1>12 DEF FlattenInv, MovesPlanned
  <2>4. /\ work.todo = [i \in 1..Len(work.todo) |-> work.todo[i]] /\ Len(work.todo) \in Nat
    BY <1>4 DEF FlattenInv, MovesPlanned
  <2>5. \A k : Tags1(k)' = Tags1(k)
    BY DEF Tags1
  <2>6. work'.todo = work.todo
    BY <1>5
  <2>7. QED
    BY <2>1, <2>2, <2>3, <2>4, <2>5, <2>6 DEF MovesPlanned
<1>14. ReturnsPlanned'
  BY <1>5 DEF ReturnsPlanned
<1>15. OneTextAPlace'
  <2> SUFFICES ASSUME NEW w \in Places, w \notin made', NEW x \in Of(w)', NEW y \in Of(w)'
               PROVE  notes'[x].text = notes'[y].text
    BY DEF OneTextAPlace
  <2>1. /\ x \in DOMAIN notes' /\ (x = w \/ notes'[x].was = w)
        /\ y \in DOMAIN notes' /\ (y = w \/ notes'[y].was = w)
        /\ w \notin made /\ w # Unsaid
    BY <1>4, Constants DEF Of
  <2>2. \A z \in DOMAIN notes : z # m.dst /\ (z = w \/ notes'[z].was = w) => z \in Of(w)
    BY <1>8 DEF Of
  <2>3. \A z \in DOMAIN notes : notes[z].was # Unsaid => notes[z].was[1] \in Legacy \cup {VaultRoot}
    BY DEF FlattenInv, WasPlaces
  <2>4. ASSUME NEW z \in DOMAIN notes, z # m.dst, z = w \/ notes'[z].was = w,
               m.dst = w \/ n.was = w
        PROVE  notes[z].text = n.text
    <3>1. z \in Of(w) /\ notes'[z] = notes[z]
      BY <1>8, <2>2, <2>4
    <3>2. CASE m.dst = w
      <4>1. notes[z].was = m.dst
        BY <2>4, <3>1, <3>2
      <4>2. QED
        BY <1>6, <2>1, <2>3, <3>2, <4>1, Constants
    <3>3. CASE n.was = w /\ rooted
      <4>1. w = m.src /\ m.src \in Of(w)
        BY <1>6, <1>7, <3>3, Constants DEF Of
      <4>2. QED
        BY <1>3, <1>7, <2>1, <3>1, <4>1 DEF FlattenInv, OneTextAPlace
    <3>4. CASE n.was = w /\ ~rooted
      <4>1. w[1] = VaultRoot
        BY <1>6, <1>7, <3>4, Constants
      <4>2. z[1] # VaultRoot /\ notes[z].was = Unsaid
        BY <3>4 DEF FlattenInv, WasPlaces
      <4>3. QED
        BY <2>1, <2>4, <3>1, <4>1, <4>2
    <3>5. QED
      BY <2>4, <3>2, <3>3, <3>4
  <2>5. CASE x = m.dst /\ y = m.dst
    BY <2>5
  <2>6. CASE x = m.dst /\ y # m.dst
    BY <1>8, <2>1, <2>4, <2>6
  <2>7. CASE x # m.dst /\ y = m.dst
    BY <1>8, <2>1, <2>4, <2>7
  <2>8. CASE x # m.dst /\ y # m.dst
    BY <1>8, <2>1, <2>2, <2>8 DEF FlattenInv, OneTextAPlace
  <2>9. QED
    BY <2>5, <2>6, <2>7, <2>8
<1>16. TextsKept'
  BY <1>3, <1>4, <1>6, <1>7, TextsLemma DEF FlattenInv
<1>17. OneCopy'
  <2> SUFFICES ASSUME cuts' = 0, NEW x \in DOMAIN notes', NEW y \in DOMAIN notes', x # y,
                      notes'[x].text = notes'[y].text, notes'[x].text # Theirs
               PROVE  Half(x)' /\ Half(y)'
    BY DEF OneCopy
  <2>1. \A z : Half(z)' <=> z \in {m.src, m.dst}
    BY <1>5, <1>1 DEF Half
  <2>2. \A p, q \in DOMAIN notes : notes[p].text = notes[q].text /\ notes[p].text # Theirs => p = q
    BY <1>4 DEF FlattenInv, OneCopy, Half
  <2>3. QED
    BY <1>3, <1>6, <1>7, <1>8, <2>1, <2>2
<1>18. AtHome'
  <2> SUFFICES ASSUME cuts' = 0, made' = {}, NEW q \in DOMAIN origin', NEW p \in DOMAIN notes',
                      notes'[p].text = origin'[q].text
               PROVE  /\ Home(q, p, notes'[p])
                      /\ OwnWords(origin'[q]) \subseteq OwnWords(notes'[p])
                      /\ OwnWords(notes'[p]) \subseteq OwnWords(origin'[q])
                                                        \cup (IF q[1] \in Legacy THEN {KindOf[q[1]]} ELSE {})
    BY DEF AtHome, Home, OwnWords
  <2>1. cuts = 0 /\ made = {} /\ origin' = origin
    BY <1>4
  <2>2. CASE p # m.dst
    BY <1>8, <2>1, <2>2 DEF FlattenInv, AtHome
  <2>3. CASE p = m.dst
    <3>1. /\ Home(q, m.src, o)
          /\ OwnWords(origin[q]) \subseteq OwnWords(o)
          /\ OwnWords(o) \subseteq OwnWords(origin[q]) \cup (IF q[1] \in Legacy THEN {KindOf[q[1]]} ELSE {})
      BY <1>3, <1>6, <1>7, <1>8, <2>1, <2>3 DEF FlattenInv, AtHome
    <3>2. m.src = q
      BY <1>6, <3>1, Constants DEF Home
    <3>3. Home(q, m.dst, n)
      BY <1>6, <1>7, <3>2 DEF Home
    <3>4. QED
      BY <1>7, <1>8, <2>1, <2>3, <3>1, <3>3
  <2>4. QED
    BY <2>2, <2>3
<1>19. QED
  BY <1>9, <1>10, <1>11, <1>13, <1>14, <1>15, <1>16, <1>17, <1>18 DEF FlattenInv

\* The second half.
LEMMA UnlinkMovedLemma ==
  ASSUME FlattenInv, UnlinkMoved
  PROVE  FlattenInv'
<1>1. PICK m : m = Head(work.todo)
  OBVIOUS
<1>2. PICK t : t = Tail(work.todo)
  OBVIOUS
<1>4. /\ work.do = "apply" /\ work.half /\ work.todo # <<>> /\ Takes1(m.src) /\ rooted' = rooted
      /\ work' = [work EXCEPT !.half = FALSE, !.todo = Tail(@)]
      /\ origin' = origin /\ made' = made /\ cuts' = cuts
  BY <1>1 DEF UnlinkMoved, Working, FlattenInv, WorkTyped
<1>5. /\ work'.do = "apply" /\ work'.todo = t /\ ~work'.half
      /\ work' \in [do: {"none", "apply", "revert"}, todo: {work'.todo}, half: BOOLEAN]
  BY <1>2, <1>4 DEF FlattenInv, WorkTyped
<1>6. /\ m = work.todo[1] /\ 1 \in DOMAIN work.todo
      /\ m.src \in DOMAIN notes /\ m.dst # m.src
      /\ m.dst \in DOMAIN notes /\ notes[m.dst].text = notes[m.src].text
      /\ DOMAIN work.todo = 1..Len(work.todo)
      /\ \A i \in DOMAIN t : i + 1 \in DOMAIN work.todo /\ i + 1 # 1 /\ i \in Nat /\ t[i] = work.todo[i + 1]
      /\ \A i \in DOMAIN work.todo : i # 1 => i - 1 \in DOMAIN t /\ t[i - 1] = work.todo[i]
      /\ Len(t) \in Nat /\ t = [i \in 1..Len(t) |-> t[i]]
  BY <1>1, <1>2, <1>4, HeadMove
<1>8. /\ IsFiniteSet(DOMAIN notes') /\ DOMAIN notes' \subseteq Places
      /\ \A q \in DOMAIN notes' : GoodNote(notes'[q])
      /\ DOMAIN notes' = DOMAIN notes \ {m.src} /\ lost' = lost
      /\ \A q \in DOMAIN notes : q # m.src => notes'[q] = notes[q]
  BY <1>4, TakeFacts DEF FlattenInv
<1>9. NotesTyped'
  BY <1>4, <1>8 DEF FlattenInv, NotesTyped
<1>10. WasPlaces'
  BY <1>4, <1>8 DEF FlattenInv, WasPlaces
<1>11. WorkTyped'
  BY <1>4, <1>5 DEF WorkTyped
<1>12. LegacyNotes' = LegacyNotes \ {m.src} /\ LegacyNotes \subseteq DOMAIN notes
  BY <1>8 DEF LegacyNotes
<1>13. MovesPlanned'
  <2>1. ASSUME NEW i \in DOMAIN t
        PROVE  /\ t[i].src \in LegacyNotes' /\ ~notes'[t[i].src].bare
               /\ t[i].dst \in Places /\ t[i].dst[1] \in Stages
               /\ t[i].kind = notes'[t[i].src].kind /\ t[i].tags = Tags1(notes'[t[i].src])
               /\ t[i].dst \in DOMAIN notes' => t[i].dst \in made'
               /\ \A j \in DOMAIN t : i # j => t[i].src # t[j].src /\ t[i].dst # t[j].dst
    <3>1. /\ t[i].src \in LegacyNotes /\ ~notes[t[i].src].bare
          /\ t[i].dst \in Places /\ t[i].dst[1] \in Stages
          /\ t[i].kind = notes[t[i].src].kind /\ t[i].tags = Tags1(notes[t[i].src])
          /\ t[i].dst \in DOMAIN notes => t[i].dst \in made
          /\ \A j \in DOMAIN work.todo : i + 1 # j => /\ t[i].src # work.todo[j].src
                                                      /\ t[i].dst # work.todo[j].dst
      BY <1>4, <1>6 DEF FlattenInv, MovesPlanned, Filled
    <3>2. t[i].src # m.src
      BY <1>6, <3>1
    <3>3. \A j \in DOMAIN t : i # j => i + 1 # j + 1
      BY <1>6
    <3>4. ASSUME NEW j \in DOMAIN t, i # j PROVE t[i].src # t[j].src /\ t[i].dst # t[j].dst
      <4>1. j + 1 \in DOMAIN work.todo /\ t[j] = work.todo[j + 1] /\ i + 1 # j + 1
        BY <1>6, <3>3, <3>4
      <4>2. QED
        BY <3>1, <4>1
    <3>5. QED
      BY <1>4, <1>8, <1>12, <3>1, <3>2, <3>4
  <2>2. \A i : ~Filled(i)'
    BY <1>5 DEF Filled
  <2>3. \A q \in LegacyNotes' : notes'[q].bare \/ q \in made' \/ \E i \in DOMAIN t : t[i].src = q
    <3> SUFFICES ASSUME NEW q \in LegacyNotes', ~notes'[q].bare, q \notin made'
                 PROVE  \E i \in DOMAIN t : t[i].src = q
      OBVIOUS
    <3>1. q \in LegacyNotes /\ q # m.src /\ ~notes[q].bare /\ q \notin made
      BY <1>4, <1>8, <1>12
    <3>2. PICK i \in DOMAIN work.todo : work.todo[i].src = q
      BY <1>4, <3>1 DEF FlattenInv, MovesPlanned
    <3>3. i # 1
      BY <1>6, <3>1, <3>2
    <3>4. i - 1 \in DOMAIN t /\ t[i - 1].src = q
      BY <1>6, <3>2, <3>3
    <3>5. QED
      BY <3>4
  <2>5. \A k : Tags1(k)' = Tags1(k)
    BY DEF Tags1
  <2>6. work'.todo = t
    BY <1>5
  <2>7. QED
    BY <1>6, <2>1, <2>2, <2>3, <2>5, <2>6 DEF MovesPlanned
<1>14. ReturnsPlanned'
  BY <1>5 DEF ReturnsPlanned
<1>15. OneTextAPlace'
  BY <1>8, <1>4 DEF Of, FlattenInv, OneTextAPlace
<1>16. TextsKept'
  BY <1>4, <1>6, TakenLemma DEF FlattenInv
<1>17. OneCopy'
  BY <1>1, <1>4, <1>8 DEF Half, FlattenInv, OneCopy
<1>18. AtHome'
  BY <1>4, <1>8 DEF FlattenInv, AtHome, Home, OwnWords
<1>19. QED
  BY <1>9, <1>10, <1>11, <1>13, <1>14, <1>15, <1>16, <1>17, <1>18 DEF FlattenInv

\* What a revert makes of a note.
LEMMA RestoredFacts ==
  ASSUME NEW n, GoodNote(n)
  PROVE  LET r == Restored1(n) IN
         /\ GoodNote(r) /\ r.text = n.text /\ r.was = Unsaid
         /\ OwnWords(n) \subseteq OwnWords(r)
         /\ OwnWords(r) \subseteq OwnWords(n) \cup (IF n.was[1] \in Legacy THEN {KindOf[n.was[1]]} ELSE {})
<1> DEFINE r == Restored1(n)
           kind == IF n.was[1] \in Legacy THEN KindOf[n.was[1]] ELSE Unsaid
<1>1. /\ n = [text |-> n.text, kind |-> n.kind, stage |-> n.stage, tags |-> n.tags, was |-> n.was, bare |-> n.bare]
      /\ n.stage \in Stages \cup {Unsaid} /\ n.bare \in BOOLEAN
  BY DEF GoodNote, Note
<1>2. r = IF kind # Unsaid /\ n.kind = Unsaid
          THEN [n EXCEPT !.was = Unsaid, !.kind = kind, !.tags = @ \ {kind}]
          ELSE [n EXCEPT !.was = Unsaid]
  BY DEF Restored1
<1> HIDE DEF r
<1>3. CASE kind # Unsaid /\ n.kind = Unsaid
  <2>1. r = [n EXCEPT !.was = Unsaid, !.kind = kind, !.tags = @ \ {kind}]
    BY <1>2, <1>3
  <2> HIDE DEF kind
  <2>2. /\ r.text = n.text /\ r.kind = kind /\ r.stage = n.stage /\ r.tags = n.tags \ {kind}
        /\ r.was = Unsaid /\ r.bare = n.bare
        /\ r = [text |-> r.text, kind |-> r.kind, stage |-> r.stage, tags |-> r.tags, was |-> r.was, bare |-> r.bare]
    BY <1>1, <2>1
  <2>3. GoodNote(r)
    BY <1>1, <2>2 DEF GoodNote, Note
  <2>4. n.was[1] \in Legacy /\ kind = KindOf[n.was[1]]
    BY <1>3 DEF kind
  <2>5. QED
    BY <1>3, <2>2, <2>3, <2>4 DEF OwnWords, r
<1>4. CASE ~(kind # Unsaid /\ n.kind = Unsaid)
  BY <1>2, <1>4, <1>1 DEF GoodNote, Note, OwnWords, r
<1>5. QED
  BY <1>3, <1>4

\* What the return at hand is.
LEMMA HeadReturn ==
  ASSUME FlattenInv, work.do = "revert", work.todo # <<>>
  PROVE  LET p == Head(work.todo)
             w == notes[p].was
         IN /\ p = work.todo[1] /\ 1 \in DOMAIN work.todo /\ Tail(work.todo) \in Seq(Places)
            /\ p \in DOMAIN notes /\ p[1] \in Stages /\ ~notes[p].bare
            /\ w # Unsaid /\ w \in Places /\ w[1] \in Legacy \cup {VaultRoot} /\ w # p /\ w[1] \notin Stages /\ rooted
            /\ work.half => w \in DOMAIN notes /\ notes[w].text = notes[p].text
            /\ \A i \in DOMAIN Tail(work.todo) : /\ i + 1 \in DOMAIN work.todo /\ i + 1 # 1 /\ i \in Nat
                                                 /\ Tail(work.todo)[i] = work.todo[i + 1]
            /\ \A i \in DOMAIN work.todo : i # 1 => /\ i - 1 \in DOMAIN Tail(work.todo)
                                                    /\ Tail(work.todo)[i - 1] = work.todo[i]
BY TailFacts, Constants DEF FlattenInv, ReturnsPlanned, Filled, Stamped, WasPlaces

\* The first half of a return: what it overwrites is a copy, or a person's.
LEMMA WriteBackLemma ==
  ASSUME FlattenInv, WriteBack
  PROVE  FlattenInv'
<1>1. PICK s : s = Head(work.todo)
  OBVIOUS
<1>2. PICK o : o = notes[s]
  OBVIOUS
<1>3. PICK n, w : n = Restored1(o) /\ w = o.was
  OBVIOUS
<1>4. /\ work.do = "revert" /\ work.todo # <<>> /\ ~work.half /\ Puts(w, n)
      /\ rooted' = rooted /\ work' = [work EXCEPT !.half = TRUE]
      /\ origin' = origin /\ made' = made /\ cuts' = cuts
  BY <1>1, <1>2, <1>3 DEF WriteBack, Working
<1>5. /\ work'.do = "revert" /\ work'.todo = work.todo /\ work'.half
      /\ work' \in [do: {"none", "apply", "revert"}, todo: {work'.todo}, half: BOOLEAN]
  BY <1>4 DEF FlattenInv, WorkTyped
<1>6. /\ s = work.todo[1] /\ 1 \in DOMAIN work.todo
      /\ s \in DOMAIN notes /\ s[1] \in Stages /\ ~o.bare
      /\ w # Unsaid /\ w \in Places /\ w[1] \in Legacy \cup {VaultRoot} /\ w # s /\ w[1] \notin Stages /\ rooted
  BY <1>1, <1>2, <1>3, <1>4, HeadReturn
<1>7. /\ GoodNote(n) /\ n.text = o.text /\ n.was = Unsaid
      /\ OwnWords(o) \subseteq OwnWords(n)
      /\ OwnWords(n) \subseteq OwnWords(o) \cup (IF w[1] \in Legacy THEN {KindOf[w[1]]} ELSE {})
  BY <1>2, <1>6, <1>3, RestoredFacts DEF FlattenInv, NotesTyped
<1>8. /\ IsFiniteSet(DOMAIN notes') /\ DOMAIN notes' \subseteq Places
      /\ \A q \in DOMAIN notes' : GoodNote(notes'[q])
      /\ DOMAIN notes' = DOMAIN notes \cup {w} /\ notes'[w] = n
      /\ \A q \in DOMAIN notes : q # w => notes'[q] = notes[q]
  BY <1>4, <1>6, <1>7, PutFacts DEF FlattenInv, Puts
<1>9. NotesTyped'
  BY <1>4, <1>8 DEF FlattenInv, NotesTyped
<1>10. WasPlaces'
  BY <1>4, <1>6, <1>7, <1>8 DEF FlattenInv, WasPlaces
<1>11. WorkTyped'
  BY <1>4, <1>5 DEF WorkTyped
<1>12. MovesPlanned'
  BY <1>5 DEF MovesPlanned
<1>13. ReturnsPlanned'
  <2>1. Stamped' = Stamped /\ \A q \in Stamped : q \in DOMAIN notes /\ q # w /\ notes'[q] = notes[q]
    BY <1>6, <1>7, <1>8 DEF Stamped
  <2>2. \A i : Filled(i)' <=> i = 1
    BY <1>5 DEF Filled
  <2>3. work.todo \in Seq(Places) /\ \A p \in Stamped' : \E i \in DOMAIN work.todo : work.todo[i] = p
    BY <1>4, <2>1 DEF FlattenInv, ReturnsPlanned
  <2>4. ASSUME NEW i \in DOMAIN work.todo
        PROVE  /\ work.todo[i] \in Stamped'
               /\ i = 1 => LET p == work.todo[i] IN
                           notes'[p].was \in DOMAIN notes' /\ notes'[notes'[p].was].text = notes'[p].text
               /\ \A j \in DOMAIN work.todo : i # j => work.todo[i] # work.todo[j]
    <3>1. work.todo[i] \in Stamped /\ \A j \in DOMAIN work.todo : i # j => work.todo[i] # work.todo[j]
      BY <1>4 DEF FlattenInv, ReturnsPlanned
    <3>2. notes'[s] = o
      BY <1>2, <1>6, <1>8
    <3>3. QED
      BY <1>3, <1>6, <1>7, <1>8, <2>1, <3>1, <3>2
  <2>5. work'.todo = work.todo
    BY <1>5
  <2>6. QED
    BY <2>2, <2>3, <2>4, <2>5 DEF ReturnsPlanned
<1>14. OneTextAPlace'
  <2> SUFFICES ASSUME NEW v \in Places, v \notin made', NEW x \in Of(v)', NEW y \in Of(v)'
               PROVE  notes'[x].text = notes'[y].text
    BY DEF OneTextAPlace
  <2>1. /\ x \in DOMAIN notes' /\ (x = v \/ notes'[x].was = v)
        /\ y \in DOMAIN notes' /\ (y = v \/ notes'[y].was = v)
        /\ v \notin made /\ v # Unsaid
    BY <1>4, Constants DEF Of
  <2>2. \A z \in DOMAIN notes : z # w /\ (z = v \/ notes'[z].was = v) => z \in Of(v) /\ notes'[z] = notes[z]
    BY <1>8 DEF Of
  <2>3. ASSUME NEW z \in DOMAIN notes, z # w, z = v \/ notes'[z].was = v, w = v
        PROVE  notes[z].text = n.text
    <3>1. z \in Of(v) /\ s \in Of(v)
      BY <1>2, <1>3, <1>6, <2>2, <2>3 DEF Of
    <3>2. QED
      BY <1>2, <1>7, <2>1, <3>1 DEF FlattenInv, OneTextAPlace
  <2>4. (w = v \/ notes'[w].was = v) => w = v
    BY <1>7, <1>8, <2>1
  <2>5. CASE x = w /\ y = w
    BY <2>5
  <2>6. CASE x = w /\ y # w
    BY <1>8, <2>1, <2>2, <2>3, <2>4, <2>6
  <2>7. CASE x # w /\ y = w
    BY <1>8, <2>1, <2>2, <2>3, <2>4, <2>7
  <2>8. CASE x # w /\ y # w
    BY <1>8, <2>1, <2>2, <2>8 DEF FlattenInv, OneTextAPlace
  <2>9. QED
    BY <2>5, <2>6, <2>7, <2>8
<1>15. TextsKept'
  BY <1>2, <1>3, <1>6, <1>7, <1>4, TextsLemma DEF Of, FlattenInv, OneTextAPlace
<1>16. OneCopy'
  <2> SUFFICES ASSUME cuts' = 0, NEW x \in DOMAIN notes', NEW y \in DOMAIN notes', x # y,
                      notes'[x].text = notes'[y].text, notes'[x].text # Theirs
               PROVE  Half(x)' /\ Half(y)'
    BY DEF OneCopy
  <2>1. \A z : Half(z)' <=> z \in {s, w}
    BY <1>2, <1>3, <1>5, <1>6, <1>8, <1>1 DEF Half
  <2>2. \A p, q \in DOMAIN notes : notes[p].text = notes[q].text /\ notes[p].text # Theirs => p = q
    BY <1>4 DEF FlattenInv, OneCopy, Half
  <2>3. QED
    BY <1>2, <1>6, <1>7, <1>8, <2>1, <2>2
<1>17. AtHome'
  <2> SUFFICES ASSUME cuts' = 0, made' = {}, NEW q \in DOMAIN origin', NEW p \in DOMAIN notes',
                      notes'[p].text = origin'[q].text
               PROVE  /\ Home(q, p, notes'[p])
                      /\ OwnWords(origin'[q]) \subseteq OwnWords(notes'[p])
                      /\ OwnWords(notes'[p]) \subseteq OwnWords(origin'[q])
                                                        \cup (IF q[1] \in Legacy THEN {KindOf[q[1]]} ELSE {})
    BY DEF AtHome, Home, OwnWords
  <2>1. cuts = 0 /\ made = {} /\ origin' = origin
    BY <1>4
  <2>2. CASE p # w
    BY <1>8, <2>1, <2>2 DEF FlattenInv, AtHome
  <2>3. CASE p = w
    <3>1. /\ Home(q, s, o)
          /\ OwnWords(origin[q]) \subseteq OwnWords(o)
          /\ OwnWords(o) \subseteq OwnWords(origin[q]) \cup (IF q[1] \in Legacy THEN {KindOf[q[1]]} ELSE {})
      BY <1>2, <1>6, <1>7, <1>8, <2>1, <2>3 DEF FlattenInv, AtHome
    <3>2. q[1] \in Legacy /\ (w = q \/ w[1] = VaultRoot)
      BY <1>3, <1>6, <3>1, Constants DEF Home
    <3>3. Home(q, w, n)
      BY <1>7, <3>2 DEF Home
    <3>4. w[1] \in Legacy => KindOf[w[1]] = KindOf[q[1]]
      BY <3>2, Constants
    <3>5. QED
      BY <1>7, <1>8, <2>1, <2>3, <3>1, <3>2, <3>3, <3>4
  <2>4. QED
    BY <2>2, <2>3
<1>18. QED
  BY <1>9, <1>10, <1>11, <1>12, <1>13, <1>14, <1>15, <1>16, <1>17 DEF FlattenInv

\* The second half.
LEMMA UnlinkBackLemma ==
  ASSUME FlattenInv, UnlinkBack
  PROVE  FlattenInv'
<1>1. PICK s, t : s = Head(work.todo) /\ t = Tail(work.todo)
  OBVIOUS
<1>2. PICK w : w = notes[s].was
  OBVIOUS
<1>4. /\ work.do = "revert" /\ work.half /\ work.todo # <<>> /\ Takes1(s) /\ rooted' = rooted
      /\ work' = [work EXCEPT !.half = FALSE, !.todo = Tail(@)]
      /\ origin' = origin /\ made' = made /\ cuts' = cuts
  BY <1>1 DEF UnlinkBack, Working, FlattenInv, WorkTyped
<1>5. /\ work'.do = "revert" /\ work'.todo = t /\ ~work'.half
      /\ work' \in [do: {"none", "apply", "revert"}, todo: {work'.todo}, half: BOOLEAN]
  BY <1>1, <1>4 DEF FlattenInv, WorkTyped
<1>6. /\ s = work.todo[1] /\ 1 \in DOMAIN work.todo /\ t \in Seq(Places)
      /\ s \in DOMAIN notes /\ w # s /\ w \in DOMAIN notes /\ notes[w].text = notes[s].text
      /\ \A i \in DOMAIN t : i + 1 \in DOMAIN work.todo /\ i + 1 # 1 /\ i \in Nat /\ t[i] = work.todo[i + 1]
      /\ \A i \in DOMAIN work.todo : i # 1 => i - 1 \in DOMAIN t /\ t[i - 1] = work.todo[i]
  BY <1>1, <1>2, <1>4, HeadReturn
<1>8. /\ IsFiniteSet(DOMAIN notes') /\ DOMAIN notes' \subseteq Places
      /\ \A q \in DOMAIN notes' : GoodNote(notes'[q])
      /\ DOMAIN notes' = DOMAIN notes \ {s} /\ lost' = lost
      /\ \A q \in DOMAIN notes : q # s => notes'[q] = notes[q]
  BY <1>4, TakeFacts DEF FlattenInv
<1>9. NotesTyped'
  BY <1>4, <1>8 DEF FlattenInv, NotesTyped
<1>10. WasPlaces'
  BY <1>4, <1>8 DEF FlattenInv, WasPlaces
<1>11. WorkTyped'
  BY <1>4, <1>5 DEF WorkTyped
<1>12. MovesPlanned'
  BY <1>5 DEF MovesPlanned
<1>13. ReturnsPlanned'
  <2>1. Stamped' = Stamped \ {s}
    BY <1>8 DEF Stamped
  <2>2. \A i : ~Filled(i)'
    BY <1>5 DEF Filled
  <2>3. \A p \in Stamped' : \E i \in DOMAIN t : t[i] = p
    <3> SUFFICES ASSUME NEW p \in Stamped, p # s PROVE \E i \in DOMAIN t : t[i] = p
      BY <2>1
    <3>1. PICK i \in DOMAIN work.todo : work.todo[i] = p
      BY <1>4 DEF FlattenInv, ReturnsPlanned
    <3>2. i # 1
      BY <1>6, <3>1
    <3>3. i - 1 \in DOMAIN t /\ t[i - 1] = p
      BY <1>6, <3>1, <3>2
    <3>4. QED
      BY <3>3
  <2>4. ASSUME NEW i \in DOMAIN t
        PROVE  t[i] \in Stamped' /\ \A j \in DOMAIN t : i # j => t[i] # t[j]
    BY <1>6, <1>4, <2>1 DEF FlattenInv, ReturnsPlanned
  <2>5. work'.todo = t
    BY <1>5
  <2>6. QED
    BY <1>6, <2>2, <2>3, <2>4, <2>5 DEF ReturnsPlanned
<1>14. OneTextAPlace'
  BY <1>8, <1>4 DEF Of, FlattenInv, OneTextAPlace
<1>15. TextsKept'
  BY <1>4, <1>6, TakenLemma DEF FlattenInv
<1>16. OneCopy'
  BY <1>1, <1>2, <1>4, <1>8 DEF Half, FlattenInv, OneCopy
<1>17. AtHome'
  BY <1>4, <1>8 DEF FlattenInv, AtHome, Home, OwnWords
<1>18. QED
  BY <1>9, <1>10, <1>11, <1>12, <1>13, <1>14, <1>15, <1>16, <1>17 DEF FlattenInv

LEMMA FlattenUnchanged ==
  ASSUME FlattenInv, UNCHANGED flattenVars
  PROVE  FlattenInv'
BY DEF flattenVars, FlattenInv, NotesTyped, WasPlaces, WorkTyped, MovesPlanned, ReturnsPlanned, OneTextAPlace,
       TextsKept, OneCopy, AtHome, LegacyNotes, Stamped, Filled, Of, Half, Tags1

LEMMA FlattenSteps ==
  ASSUME FlattenInv, NumbersLast, FlattenNext
  PROVE  FlattenInv'
<1>1. ASSUME NEW p \in Places, p[1] # VaultRoot, Touch(p) PROVE FlattenInv'
  BY <1>1, TouchLemma
<1>2. QED
  BY <1>1, MigrateLemma, WriteMovedLemma, UnlinkMovedLemma, RevertLemma, WriteBackLemma, UnlinkBackLemma,
     StopLemma DEF FlattenNext

\* The invariant gives the properties.
LEMMA FlattenTrue ==
  ASSUME FlattenInv
  PROVE  FlattenSound
<1>1. NoTextIsLost
  <2>1. ASSUME NEW p \in DOMAIN origin
        PROVE  Copies(origin[p].text) # {} \/ \E l \in lost : l.text = origin[p].text
    BY DEF FlattenInv, TextsKept, Copies, Bears
  <2>2. \A l \in lost : l.at \in made
    BY DEF FlattenInv, TextsKept
  <2>3. ASSUME cuts = 0, ~work.half, NEW p \in DOMAIN origin
        PROVE  Cardinality(Copies(origin[p].text)) <= 1
    <3> DEFINE C == Copies(origin[p].text)
    <3>1. \A x, y \in C : x = y
      BY <2>3 DEF FlattenInv, OneCopy, NotesTyped, Half, Copies, Bears
    <3> HIDE DEF C
    <3>2. CASE C = {}
      BY <3>2, FS_EmptySet DEF C
    <3>3. CASE \E x : x \in C
      <4>1. PICK x : C = {x}
        BY <3>1, <3>3
      <4>2. QED
        BY <4>1, FS_Singleton DEF C
    <3>4. QED
      BY <3>2, <3>3
  <2>4. QED
    BY <2>1, <2>2, <2>3 DEF NoTextIsLost
<1>2. MovesAreApart
  BY DEF FlattenInv, MovesPlanned, MovesAreApart
<1>3. RevertRestores
  <2> SUFFICES ASSUME work.do = "revert", work.todo = <<>>, cuts = 0, made = {}, NEW p \in DOMAIN origin
               PROVE  LET q == CHOOSE q \in Copies(origin[p].text) : TRUE IN
                      /\ q = p \/ q[1] = VaultRoot
                      /\ OwnWords(origin[p]) \subseteq OwnWords(notes[q])
                      /\ q = p => OwnWords(notes[q]) \subseteq OwnWords(origin[p]) \cup
                                          (IF p[1] \in Legacy THEN {KindOf[p[1]]} ELSE {})
    BY DEF RevertRestores
  <2>1. Copies(origin[p].text) # {}
    BY DEF FlattenInv, TextsKept, Copies, Bears
  <2>2. PICK q : q = CHOOSE x \in Copies(origin[p].text) : TRUE
    OBVIOUS
  <2>3. q \in DOMAIN notes /\ notes[q].text = origin[p].text
    BY <2>1, <2>2 DEF Copies, Bears
  <2>4. /\ Home(p, q, notes[q])
        /\ OwnWords(origin[p]) \subseteq OwnWords(notes[q])
        /\ OwnWords(notes[q]) \subseteq OwnWords(origin[p]) \cup (IF p[1] \in Legacy THEN {KindOf[p[1]]} ELSE {})
    BY <2>3 DEF FlattenInv, AtHome
  <2>5. q = p \/ q[1] = VaultRoot
    BY <2>3, <2>4 DEF FlattenInv, ReturnsPlanned, Home, Stamped
  <2>6. QED
    BY <2>2, <2>4, <2>5
<1>4. QED
  BY <1>1, <1>2, <1>3 DEF FlattenSound

-----------------------------------------------------------------------------
\* Why the index follows the disk.

\* An event of the observer's queue.
Event == [kind: {"created", "modified", "deleted", "moved"}, src: Everywhere, dst: Everywhere]
ReloadStages == {"look", "drop", "read", "add"}

\* A change of a path that the loop has not heard of yet.
News(p) == \/ \E i \in DOMAIN events : p \in {events[i].src, events[i].dst}
           \/ \E i \in DOMAIN emits : emits[i] = p

WatcherTypes ==
  /\ disk \in [Everywhere -> Nat] /\ shown \in [Indexed -> Nat]
  /\ events \in Seq(Event) /\ emits \in Seq(Everywhere)
  /\ \E I : reloads \subseteq [path: Indexed, id: I, at: ReloadStages, got: Nat]
  /\ counts \in [writes: Nat, switches: Nat]

\* What an event says of a path that is not astray is told.
Truthful ==
  \A i \in DOMAIN events : \A p \in Indexed \ astray : p \in {events[i].src, events[i].dst} =>
    events[i].src \notin Outside /\ Told1(events[i]) = {p}

\* A path that is not astray is reloaded once at a time.
AloneAt == \A r, s \in reloads : r.path = s.path => r = s \/ r.path \in astray

\* What such a reload has in hand is right, unless there is news.
InHand ==
  \A r \in reloads : r.path \notin astray =>
    /\ r.at \in {"read", "add"} => shown[r.path] = 0
    /\ r.at \in {"drop", "add"} /\ ~News(r.path) => r.got = disk[r.path]

WatcherInv == WatcherTypes /\ Truthful /\ AloneAt /\ InHand /\ WatcherSound

LEMMA WatcherBegins == WatcherInit => WatcherInv
<1> SUFFICES ASSUME WatcherInit PROVE WatcherInv
  OBVIOUS
<1>1. WatcherTypes
  BY DEF WatcherInit, WatcherTypes, Everywhere
<1>2. QED
  BY <1>1 DEF WatcherInit, WatcherInv, Truthful, AloneAt, InHand, WatcherSound, Everywhere

\* A change of the disk: what differs from now on is told by the event, or astray.
LEMMA ChangedLemma ==
  ASSUME WatcherInv, NEW d \in [Everywhere -> Nat], NEW e \in Event, NEW gone \in SUBSET Indexed,
         Changed(d, e, gone),
         \A p \in Everywhere : d[p] # disk[p] => p \in {e.src, e.dst},
         \A p \in Indexed \ gone : p \in {e.src, e.dst} => e.src \notin Outside /\ Told1(e) = {p}
  PROVE  WatcherInv'
<1>1. /\ disk' = d /\ UNCHANGED <<watched, installed, emits, reloads, shown>>
      /\ watched => events' = Append(events, e) /\ astray' = astray \cup gone
      /\ ~watched => events' = events
      /\ ~watched => \A p \in Indexed : d[p] # disk[p] => p \in astray'
      /\ astray \subseteq astray' /\ gone \subseteq astray'
      /\ counts' = [counts EXCEPT !.writes = @ + 1]
  BY DEF Changed
<1>2. WatcherTypes'
  <2>a. events \in Seq(Event) /\ counts \in [writes: Nat, switches: Nat]
    BY DEF WatcherInv, WatcherTypes
  <2>b. events' = events \/ events' = Append(events, e)
    BY DEF Changed
  <2>1. events' \in Seq(Event)
    BY <2>a, <2>b, AppendProperties
  <2>2. counts' \in [writes: Nat, switches: Nat]
    BY <1>1, <2>a
  <2>3. QED
    BY <1>1, <2>1, <2>2 DEF WatcherInv, WatcherTypes
<1>3. /\ DOMAIN events \subseteq DOMAIN events'
      /\ \A i \in DOMAIN events : events'[i] = events[i]
      /\ \A i \in DOMAIN events' : i \in DOMAIN events \/ (watched /\ events'[i] = e)
      /\ watched => \E i \in DOMAIN events' : events'[i] = e
  <2>1. CASE watched
    <3>1. /\ events' = Append(events, e) /\ events \in Seq(Event) /\ Len(events) \in Nat
          /\ DOMAIN events = 1..Len(events)
      BY <1>1, <2>1 DEF WatcherInv, WatcherTypes
    <3>2. DOMAIN events' = 1..(Len(events) + 1) /\ events'[Len(events) + 1] = e
          /\ \A i \in 1..Len(events) : events'[i] = events[i]
      BY <3>1, AppendProperties
    <3>3. QED
      BY <2>1, <3>1, <3>2
  <2>2. QED
    BY <1>1, <2>1 DEF WatcherInv, WatcherTypes
<1>4. \A p \in Indexed \ astray' : /\ News(p) => News(p)'
                                   /\ disk'[p] # disk[p] => News(p)'
  BY <1>1, <1>3 DEF News, Everywhere, WatcherInv, WatcherTypes
<1>5. Truthful'
  BY <1>1, <1>3 DEF WatcherInv, Truthful, Told1
<1>6. AloneAt' /\ InHand'
  BY <1>1, <1>4 DEF WatcherInv, WatcherTypes, AloneAt, InHand
<1>7. WatcherSound'
  BY <1>1, <1>4 DEF WatcherInv, WatcherSound, OnTheWay, News, Beside
<1>8. QED
  BY <1>2, <1>5, <1>6, <1>7 DEF WatcherInv

\* Changes by others.
LEMMA SavedLemma == ASSUME WatcherInv, NEW p \in Everywhere, Saved(p) PROVE WatcherInv'
<1> DEFINE d == [disk EXCEPT ![p] = counts.writes + 1]
           e == [kind |-> IF disk[p] = 0 THEN "created" ELSE "modified", src |-> p, dst |-> p]
<1>1. d \in [Everywhere -> Nat] /\ e \in Event /\ \A q \in Everywhere : d[q] # disk[q] => q = p
  BY DEF WatcherInv, WatcherTypes, Event
<1>2. Changed(d, e, {}) /\ e.src = p /\ e.dst = p /\ Told1(e) = {p}
  BY DEF Saved, Told1
<1> HIDE DEF d, e
<1>3. QED
  BY <1>1, <1>2, ChangedLemma, WatcherAssumption

LEMMA DeletedLemma == ASSUME WatcherInv, NEW p \in Everywhere, Deleted(p) PROVE WatcherInv'
<1> DEFINE d == [disk EXCEPT ![p] = 0]
           e == [kind |-> "deleted", src |-> p, dst |-> p]
<1>1. d \in [Everywhere -> Nat] /\ e \in Event /\ \A q \in Everywhere : d[q] # disk[q] => q = p
  BY DEF WatcherInv, WatcherTypes, Event
<1>2. Changed(d, e, {}) /\ e.src = p /\ e.dst = p /\ Told1(e) = {p}
  BY DEF Deleted, Told1
<1> HIDE DEF d, e
<1>3. QED
  BY <1>1, <1>2, ChangedLemma, WatcherAssumption

LEMMA RenamedLemma == ASSUME WatcherInv, NEW p \in Everywhere, NEW q \in Everywhere, Renamed(p, q) PROVE WatcherInv'
<1> DEFINE d == [disk EXCEPT ![q] = disk[p], ![p] = 0]
           e == [kind |-> "moved", src |-> p, dst |-> q]
           gone == ({p} \cup IF p \in Outside THEN {q} ELSE {}) \cap Indexed
<1>1. d \in [Everywhere -> Nat] /\ e \in Event /\ \A x \in Everywhere : d[x] # disk[x] => x \in {p, q}
  BY DEF WatcherInv, WatcherTypes, Event
<1>2. Changed(d, e, gone) /\ e.src = p /\ e.dst = q /\ Told1(e) = {q} \ Outside /\ gone \subseteq Indexed
  BY DEF Renamed, Told1
<1>3. \A x \in Indexed \ gone : x \in {p, q} => x = q /\ p \notin Outside /\ q \notin Outside
  BY WatcherAssumption
<1> HIDE DEF d, e, gone
<1>4. \A x \in Indexed \ gone : x \in {e.src, e.dst} => e.src \notin Outside /\ Told1(e) = {x}
  BY <1>2, <1>3
<1>5. QED
  BY <1>1, <1>2, <1>4, ChangedLemma

\* The watcher's switch, and a restart.
LEMMA SwitchLemma ==
  ASSUME WatcherInv, StartWatcher \/ StopWatcher \/ StartAgain
  PROVE  WatcherInv'
<1>1. counts' \in [writes: Nat, switches: Nat]
  BY DEF StartWatcher, StopWatcher, StartAgain, Switches1, WatcherInv, WatcherTypes
<1>2. CASE StartWatcher
  <2>1. UNCHANGED <<disk, installed, events, emits, reloads, shown, astray>>
    BY <1>2 DEF StartWatcher
  <2>2. WatcherTypes'
    BY <1>1, <2>1 DEF WatcherInv, WatcherTypes
  <2>3. AloneAt' /\ InHand'
    BY <2>1 DEF WatcherInv, AloneAt, InHand, News
  <2>4. Truthful' /\ WatcherSound'
    BY <2>1 DEF WatcherInv, Truthful, Told1, WatcherSound, OnTheWay, Beside
  <2>5. QED
    BY <2>2, <2>3, <2>4 DEF WatcherInv
<1>3. CASE StopWatcher
  <2>1. WatcherTypes'
    <3>1. events' = <<>> /\ UNCHANGED <<disk, shown, emits, reloads>>
      BY <1>3 DEF StopWatcher
    <3>2. events' \in Seq(Event)
      BY <3>1
    <3>3. QED
      BY <1>1, <3>1, <3>2 DEF WatcherInv, WatcherTypes
  <2>2. \A p \in Indexed \ astray' : p \in Indexed \ astray /\ (News(p) => News(p)')
    BY <1>3 DEF StopWatcher, News, Undelivered
  <2>3. \A r \in reloads : r.path \in Indexed
    BY DEF WatcherInv, WatcherTypes
  <2>4. AloneAt' /\ InHand'
    BY <1>3, <2>2, <2>3 DEF StopWatcher, WatcherInv, AloneAt, InHand
  <2>5. Truthful' /\ WatcherSound'
    BY <1>3, <2>2 DEF StopWatcher, WatcherInv, Truthful, WatcherSound, OnTheWay, News, Beside
  <2>6. QED
    BY <2>1, <2>4, <2>5 DEF WatcherInv
<1>4. CASE StartAgain
  <2>1. /\ disk' = disk /\ events' = <<>> /\ emits' = <<>> /\ reloads' = {}
        /\ shown' = [p \in Indexed |-> disk[p]]
    BY <1>4 DEF StartAgain
  <2>2. shown' \in [Indexed -> Nat]
    BY <2>1 DEF WatcherInv, WatcherTypes, Everywhere
  <2>3. WatcherTypes'
    BY <1>1, <2>1, <2>2 DEF WatcherInv, WatcherTypes
  <2>4. QED
    BY <2>1, <2>3 DEF WatcherInv, Truthful, AloneAt, InHand, WatcherSound
<1>5. QED
  BY <1>2, <1>3, <1>4

\* The head of a queue, and what is behind it.
LEMMA HeadLemma ==
  ASSUME NEW S, NEW s \in Seq(S), s # <<>>
  PROVE  /\ Head(s) \in S /\ Tail(s) \in Seq(S) /\ 1 \in DOMAIN s /\ s[1] = Head(s)
         /\ \A i \in DOMAIN Tail(s) : i + 1 \in DOMAIN s /\ Tail(s)[i] = s[i + 1]
         /\ \A i \in DOMAIN s : i = 1 \/ (i - 1 \in DOMAIN Tail(s) /\ Tail(s)[i - 1] = s[i])
BY EmptySeq, HeadTailProperties

\* What the observer's thread tells the loop is news as before.
LEMMA DispatchLemma == ASSUME WatcherInv, DispatchEvent PROVE WatcherInv'
<1> DEFINE e == Head(events)
<1>1. /\ events \in Seq(Event) /\ events # <<>> /\ events' = Tail(events)
      /\ UNCHANGED <<disk, watched, installed, reloads, shown, astray, counts>>
  BY DEF DispatchEvent, WatcherInv, WatcherTypes
<1>2. /\ e \in Event /\ events' \in Seq(Event) /\ 1 \in DOMAIN events /\ events[1] = e
      /\ \A i \in DOMAIN events' : i + 1 \in DOMAIN events /\ events'[i] = events[i + 1]
      /\ \A i \in DOMAIN events : i = 1 \/ (i - 1 \in DOMAIN events' /\ events'[i - 1] = events[i])
  BY <1>1, HeadLemma
<1>3. /\ e.src \in Outside \/ Told1(e) = {} => emits' = emits
      /\ ~(e.src \in Outside \/ Told1(e) = {}) => \E p \in Told1(e) : emits' = Append(emits, p)
  BY DEF DispatchEvent
<1>4. Told1(e) \subseteq Everywhere
  BY <1>2 DEF Told1, Event
<1>5. /\ emits' \in Seq(Everywhere)
      /\ \A i \in DOMAIN emits : i \in DOMAIN emits' /\ emits'[i] = emits[i]
      /\ ~(e.src \in Outside \/ Told1(e) = {}) => \E i \in DOMAIN emits' : emits'[i] \in Told1(e)
  <2>1. emits \in Seq(Everywhere) /\ Len(emits) \in Nat /\ DOMAIN emits = 1..Len(emits)
    BY DEF WatcherInv, WatcherTypes
  <2>2. CASE e.src \in Outside \/ Told1(e) = {}
    BY <1>3, <2>1, <2>2
  <2>3. CASE ~(e.src \in Outside \/ Told1(e) = {})
    BY <1>3, <2>3, <1>4, <2>1, AppendProperties
  <2>4. QED
    BY <2>2, <2>3
<1>6. \A p \in Indexed \ astray : News(p) => News(p)'
  <2> SUFFICES ASSUME NEW p \in Indexed \ astray, News(p) PROVE News(p)'
    OBVIOUS
  <2>1. CASE p \in {e.src, e.dst}
    <3>1. e.src \notin Outside /\ Told1(e) = {p}
      BY <1>2, <2>1 DEF WatcherInv, Truthful
    <3>2. \E i \in DOMAIN emits' : emits'[i] = p
      BY <1>5, <3>1
    <3>3. QED
      BY <3>2 DEF News
  <2>2. CASE \E i \in DOMAIN emits : emits[i] = p
    BY <1>5, <2>2 DEF News
  <2>3. CASE \E i \in DOMAIN events : i # 1 /\ p \in {events[i].src, events[i].dst}
    BY <2>3, <1>2 DEF News
  <2>4. QED
    BY <1>2, <2>1, <2>2, <2>3 DEF News
<1>7. WatcherTypes'
  BY <1>1, <1>2, <1>5 DEF WatcherInv, WatcherTypes
<1>8. Truthful'
  BY <1>1, <1>2 DEF WatcherInv, Truthful, Told1
<1>9. \A r \in reloads : r.path \in Indexed
  BY DEF WatcherInv, WatcherTypes
<1>10. AloneAt' /\ InHand'
  BY <1>1, <1>6, <1>9 DEF WatcherInv, AloneAt, InHand
<1>11. WatcherSound'
  BY <1>1, <1>6 DEF OnTheWay, News, Beside, WatcherInv, WatcherSound
<1>12. QED
  BY <1>7, <1>8, <1>10, <1>11 DEF WatcherInv

\* A reload for what the loop is told; where one is under way already, the path goes astray.
LEMMA EventLemma == ASSUME WatcherInv, OnEvent PROVE WatcherInv'
<1> DEFINE q == Head(emits)
           new == Reload(q, FreshId)
<1>1. /\ emits \in Seq(Everywhere) /\ emits # <<>> /\ emits' = Tail(emits)
      /\ UNCHANGED <<disk, watched, installed, events, shown, counts>>
  BY DEF OnEvent, WatcherInv, WatcherTypes
<1>2. /\ q \in Everywhere /\ emits' \in Seq(Everywhere)
      /\ \A i \in DOMAIN emits : emits[i] = q \/ (i - 1 \in DOMAIN emits' /\ emits'[i - 1] = emits[i])
      /\ \A i \in DOMAIN emits' : \E j \in DOMAIN emits : emits[j] = emits'[i]
  BY <1>1, HeadLemma
<1>3. \A p \in Indexed : p # q => (News(p) => News(p)')
  BY <1>1, <1>2 DEF News
<1>4. CASE q \notin Indexed
  <2>1. UNCHANGED <<reloads, astray>>
    BY <1>4 DEF OnEvent
  <2>2. WatcherTypes'
    BY <1>1, <1>2, <2>1 DEF WatcherInv, WatcherTypes
  <2>3. \A r \in reloads : r.path \in Indexed
    BY DEF WatcherInv, WatcherTypes
  <2>4. AloneAt' /\ InHand'
    BY <1>1, <1>3, <1>4, <2>1, <2>3 DEF WatcherInv, AloneAt, InHand
  <2>5. \A p \in Indexed \ astray : OnTheWay(p) => OnTheWay(p)'
    BY <1>1, <1>3, <1>4, <2>1 DEF OnTheWay, News, Beside
  <2>6. Truthful' /\ WatcherSound'
    BY <1>1, <2>1, <2>5 DEF WatcherInv, Truthful, WatcherSound, Told1
  <2>7. QED
    BY <2>2, <2>4, <2>6 DEF WatcherInv
<1>5. CASE q \in Indexed
  <2>1. /\ reloads' = reloads \cup {new} /\ astray \subseteq astray' /\ astray' \subseteq astray \cup {q}
        /\ Beside(q) => q \in astray'
    BY <1>5 DEF OnEvent
  <2>2. new.path = q /\ new.at = "look"
    BY DEF Reload
  <2>3. WatcherTypes'
    <3>1. PICK I : reloads \subseteq [path: Indexed, id: I, at: ReloadStages, got: Nat]
      BY DEF WatcherInv, WatcherTypes
    <3>2. new \in [path: Indexed, id: I \cup {FreshId}, at: ReloadStages, got: Nat]
      BY <1>5 DEF Reload, ReloadStages
    <3>3. reloads' \subseteq [path: Indexed, id: I \cup {FreshId}, at: ReloadStages, got: Nat]
      BY <2>1, <3>1, <3>2
    <3>4. QED
      BY <1>1, <1>2, <3>3 DEF WatcherInv, WatcherTypes
  <2>4. \A r \in reloads : r.path \in Indexed
    BY DEF WatcherInv, WatcherTypes
  <2>5. AloneAt'
    BY <2>1, <2>2 DEF WatcherInv, AloneAt, Beside
  <2>6. InHand'
    BY <2>1, <1>1, <1>3, <2>2, <2>4 DEF Beside, WatcherInv, InHand
  <2>7. \A p \in Indexed \ astray : OnTheWay(p) => OnTheWay(p)'
    BY <1>1, <1>3, <2>1, <2>2 DEF OnTheWay, News, Beside
  <2>8. Truthful' /\ WatcherSound'
    BY <1>1, <2>1, <2>7 DEF WatcherInv, Truthful, WatcherSound, Told1
  <2>9. QED
    BY <2>3, <2>5, <2>6, <2>8 DEF WatcherInv
<1>6. QED
  BY <1>4, <1>5

\* The steps of a reload: what it has in hand is what is there, or there is news.
LEMMA ReloadLemma ==
  ASSUME WatcherInv, NEW r \in reloads, LooksUp(r) \/ Drops(r) \/ Reads(r) \/ Adds(r)
  PROVE  WatcherInv'
<1>1. PICK I : reloads \subseteq [path: Indexed, id: I, at: ReloadStages, got: Nat]
  BY DEF WatcherInv, WatcherTypes
<1>2. /\ UNCHANGED <<disk, watched, installed, events, emits, astray, counts>>
      /\ shown' \in [Indexed -> Nat] /\ \A p \in Indexed : p # r.path => shown'[p] = shown[p]
  BY <1>1 DEF LooksUp, Drops, Reads, Adds, WatcherInv, WatcherTypes
<1>3. r \in [path: Indexed, id: I, at: ReloadStages, got: Nat] /\ r.path \in Indexed /\ disk[r.path] \in Nat
  BY <1>1 DEF WatcherInv, WatcherTypes, Everywhere
<1>4. \E s \in SUBSET [path: {r.path}, id: I, at: ReloadStages, got: Nat] :
        /\ reloads' = (reloads \ {r}) \cup s
        /\ \A x, y \in s : x = y
        /\ r.path \notin astray => \A x \in s : /\ x.at \in {"read", "add"} => shown'[r.path] = 0
                                                /\ x.at \in {"drop", "add"} /\ ~News(r.path) => x.got = disk[r.path]
        /\ r.path \notin astray /\ s = {} /\ ~News(r.path) => shown'[r.path] = disk[r.path]
  <2>1. CASE LooksUp(r)
    <3> DEFINE x == [r EXCEPT !.at = "drop", !.got = disk[r.path]]
    <3>1. x \in [path: {r.path}, id: I, at: ReloadStages, got: Nat] /\ x.at = "drop" /\ x.got = disk[r.path]
      BY <1>3 DEF ReloadStages
    <3>2. reloads' = (reloads \ {r}) \cup {x}
      BY <2>1 DEF LooksUp, Turns
    <3> HIDE DEF x
    <3>3. QED
      BY <3>1, <3>2
  <2>2. CASE Drops(r)
    <3> DEFINE x == [r EXCEPT !.at = "read"]
    <3>1. x \in [path: {r.path}, id: I, at: ReloadStages, got: Nat] /\ x.at = "read"
      BY <1>3 DEF ReloadStages
    <3>2. reloads' = (reloads \ {r}) \cup (IF r.got = 0 THEN {} ELSE {x}) /\ r.at = "drop"
      BY <2>2 DEF Drops, Turns
    <3>3. shown'[r.path] = 0
      BY <1>3, <2>2 DEF Drops, WatcherInv, WatcherTypes
    <3>4. r.path \notin astray /\ ~News(r.path) => r.got = disk[r.path]
      BY <3>2 DEF WatcherInv, InHand
    <3> HIDE DEF x
    <3>5. CASE r.got = 0
      <4>1. reloads' = (reloads \ {r}) \cup {}
        BY <3>2, <3>5
      <4>2. r.path \notin astray /\ ~News(r.path) => shown'[r.path] = disk[r.path]
        BY <3>3, <3>4, <3>5
      <4> WITNESS {} \in SUBSET [path: {r.path}, id: I, at: ReloadStages, got: Nat]
      <4>3. QED
        BY <4>1, <4>2
    <3>6. CASE r.got # 0
      BY <3>2, <3>6, <3>1, <3>3
    <3>7. QED
      BY <3>5, <3>6
  <2>3. CASE Reads(r)
    <3> DEFINE x == [r EXCEPT !.at = "add", !.got = disk[r.path]]
    <3>1. x \in [path: {r.path}, id: I, at: ReloadStages, got: Nat] /\ x.at = "add" /\ x.got = disk[r.path]
      BY <1>3 DEF ReloadStages
    <3>2. reloads' = (reloads \ {r}) \cup {x} /\ r.at = "read" /\ shown' = shown
      BY <2>3 DEF Reads, Turns
    <3>3. r.path \notin astray => shown'[r.path] = 0
      BY <3>2 DEF WatcherInv, InHand
    <3> HIDE DEF x
    <3>a. {x} \in SUBSET [path: {r.path}, id: I, at: ReloadStages, got: Nat]
      BY <3>1
    <3> WITNESS {x} \in SUBSET [path: {r.path}, id: I, at: ReloadStages, got: Nat]
    <3>4. QED
      BY <3>1, <3>2, <3>3
  <2>4. CASE Adds(r)
    <3>1. reloads' = (reloads \ {r}) \cup {} /\ r.at = "add"
      BY <2>4 DEF Adds, Turns
    <3>2. shown'[r.path] = IF r.got = 0 THEN shown[r.path] ELSE r.got
      BY <1>3, <2>4 DEF Adds, WatcherInv, WatcherTypes
    <3>3. r.path \notin astray /\ ~News(r.path) => shown[r.path] = 0 /\ r.got = disk[r.path]
      BY <3>1 DEF WatcherInv, InHand
    <3>4. r.path \notin astray /\ ~News(r.path) => shown'[r.path] = disk[r.path]
      BY <3>2, <3>3
    <3> WITNESS {} \in SUBSET [path: {r.path}, id: I, at: ReloadStages, got: Nat]
    <3>5. QED
      BY <3>1, <3>4
  <2>5. QED
    BY <2>1, <2>2, <2>3, <2>4
<1>5. PICK s \in SUBSET [path: {r.path}, id: I, at: ReloadStages, got: Nat] :
        /\ reloads' = (reloads \ {r}) \cup s
        /\ \A x, y \in s : x = y
        /\ r.path \notin astray => \A x \in s : /\ x.at \in {"read", "add"} => shown'[r.path] = 0
                                                /\ x.at \in {"drop", "add"} /\ ~News(r.path) => x.got = disk[r.path]
        /\ r.path \notin astray /\ s = {} /\ ~News(r.path) => shown'[r.path] = disk[r.path]
  BY <1>4
<1>6. \A p : News(p)' <=> News(p)
  BY <1>2 DEF News
<1>7. /\ \A x \in s : x \in [path: Indexed, id: I, at: ReloadStages, got: Nat] /\ x.path = r.path
      /\ \A x \in reloads' : x \in s \/ (x \in reloads /\ x # r)
      /\ \A x \in reloads : x.path \in Indexed
  BY <1>1, <1>3, <1>5
<1>8. \A x \in reloads : x # r /\ r.path \notin astray => x.path # r.path
  BY DEF WatcherInv, AloneAt
<1>9. WatcherTypes'
  BY <1>1, <1>5, <1>7, <1>2 DEF WatcherInv, WatcherTypes
<1>10. Truthful'
  BY <1>2 DEF WatcherInv, Truthful, Told1
<1>11. AloneAt'
  BY <1>2, <1>5, <1>7, <1>8 DEF WatcherInv, AloneAt
<1>12. InHand'
  BY <1>2, <1>6, <1>5, <1>7, <1>8 DEF InHand, WatcherInv
<1>13. WatcherSound'
  BY <1>2, <1>6, <1>5, <1>7 DEF WatcherSound, OnTheWay, News, Beside, WatcherInv
<1>14. QED
  BY <1>9, <1>10, <1>11, <1>12, <1>13 DEF WatcherInv

LEMMA WatcherSteps == WatcherInv /\ [WatcherNext]_watcherVars => WatcherInv'
<1> SUFFICES ASSUME WatcherInv, [WatcherNext]_watcherVars PROVE WatcherInv'
  OBVIOUS
<1>1. CASE UNCHANGED watcherVars
  <2>1. WatcherTypes'
    BY <1>1 DEF watcherVars, WatcherInv, WatcherTypes
  <2>2. AloneAt' /\ InHand'
    BY <1>1 DEF watcherVars, WatcherInv, AloneAt, InHand, News
  <2>3. Truthful' /\ WatcherSound'
    BY <1>1 DEF watcherVars, WatcherInv, Truthful, Told1, WatcherSound, OnTheWay, Beside
  <2>4. QED
    BY <2>1, <2>2, <2>3 DEF WatcherInv
<1>2. CASE WatcherNext
  BY <1>2, SavedLemma, DeletedLemma, RenamedLemma, SwitchLemma, DispatchLemma, EventLemma, ReloadLemma
  DEF WatcherNext
<1>3. QED
  BY <1>1, <1>2

-----------------------------------------------------------------------------
\* What an ingestion shows the model, and the chunks it makes.

\* What Sums' recursion comes to.
LEMMA SumsFacts ==
  ASSUME NEW s \in Seq(Nat)
  PROVE  /\ Sums(s) \in [0..Len(s) -> Nat] /\ Sums(s)[0] = 0
         /\ \A i \in 1..Len(s) : Sums(s)[i] = Sums(s)[i - 1] + s[i]
<1> DEFINE n == Len(s)
           Values == Nat
           step == [i \in 1..n |-> [w \in Values |-> w + s[i]]]
           Body(f) == [i \in 0..n |-> IF i = 0 THEN 0 ELSE f[i - 1] + s[i]]
           g == CHOOSE f : f = Body(f)
<1>1. n \in Nat /\ 0 \in Values /\ step \in [1..n -> [Values -> Values]]
  OBVIOUS
<1>2. PICK f \in [0..n -> Values] : f[0] = 0 /\ \A i \in 1..n : f[i] = step[i][f[i - 1]]
  <2> HIDE DEF n, Values, step
  <2>1. \E f : Recurs(f, n, Values, 0, step)
    BY <1>1, RecursFacts
  <2>2. QED
    BY <2>1 DEF Recurs
<1>3. \A i \in 1..n : i - 1 \in 0..n /\ f[i - 1] \in Nat /\ f[i] = f[i - 1] + s[i]
  <2>1. \A w \in Nat, i \in 1..n : step[i][w] = w + s[i]
    OBVIOUS
  <2>2. \A i \in 1..n : i - 1 \in 0..n
    OBVIOUS
  <2>3. \A i \in 0..n : f[i] \in Nat
    OBVIOUS
  <2> HIDE DEF step, n
  <2>4. QED
    BY <1>2, <2>1, <2>2, <2>3
<1>4. f = Body(f)
  BY <1>1, <1>2, <1>3
<1>5. g = Body(g)
  BY <1>4
<1>6. Sums(s) = g
  BY DEF Sums
<1>7. g = f
  <2> HIDE DEF step, n, g
  <2>1. \A i \in 0..n : g[i] = IF i = 0 THEN 0 ELSE g[i - 1] + s[i]
    BY <1>5
  <2>2. g = [i \in 0..n |-> g[i]] /\ f = [i \in 0..n |-> f[i]]
    BY <1>5
  <2>3. \A i \in 1..n : i \in 0..n /\ i # 0
    BY <1>1
  <2>4. g[0] = f[0] /\ \A i \in 1..n : g[i - 1] = f[i - 1] => g[i] = f[i]
    BY <1>1, <1>2, <1>3, <2>1, <2>3
  <2>5. \A i \in 0..n : g[i] = f[i]
    <3>1. n \in Nat
      BY <1>1
    <3>2. QED
      BY ONLY <2>4, <3>1, AlikeByStep
  <2>6. QED
    BY <2>2, <2>5
<1>8. QED
  BY <1>2, <1>3, <1>6, <1>7

\* Longer is not less.
LEMMA SumsRise ==
  ASSUME NEW s \in Seq(Nat), NEW d \in 0..Len(s)
  PROVE  \A e \in d..Len(s) : Sums(s)[d] <= Sums(s)[e]
<1>1. PICK p : p = Sums(s)
  OBVIOUS
<1>2. p \in [0..Len(s) -> Nat] /\ \A i \in 1..Len(s) : p[i] = p[i - 1] + s[i]
  BY <1>1, SumsFacts
<1> DEFINE T == {m \in Nat : d + m <= Len(s) => p[d] <= p[d + m]}
<1>3. 0 \in T
  BY <1>2
<1>4. ASSUME NEW m \in T PROVE m + 1 \in T
  <2>1. SUFFICES ASSUME d + (m + 1) <= Len(s) PROVE p[d] <= p[d + (m + 1)]
    OBVIOUS
  <2>2. /\ d + (m + 1) \in 1..Len(s) /\ (d + (m + 1)) - 1 = d + m /\ d + m \in 0..Len(s)
        /\ p[d] <= p[d + m] /\ s[d + (m + 1)] \in Nat
    BY <2>1
  <2>3. p[d + (m + 1)] = p[(d + (m + 1)) - 1] + s[d + (m + 1)]
    BY <1>2, <2>2
  <2>4. PICK x, y, z : x = p[d] /\ y = p[d + m] /\ z = s[d + (m + 1)]
    OBVIOUS
  <2>5. x \in Nat /\ y \in Nat /\ z \in Nat /\ x <= y /\ p[d + (m + 1)] = y + z
    BY <1>2, <2>2, <2>3, <2>4
  <2>6. QED
    BY ONLY <2>4, <2>5
<1>5. T \in SUBSET Nat
  OBVIOUS
<1> HIDE DEF T
<1>6. T = Nat
  BY <1>3, <1>4, <1>5, NatInd
<1>7. ASSUME NEW e \in d..Len(s) PROVE p[d] <= p[e]
  <2>1. e - d \in T /\ d + (e - d) = e
    BY <1>6
  <2>2. QED
    BY <2>1 DEF T
<1>8. QED
  BY <1>1, <1>7

\* One more.
LEMMA TotalAppend ==
  ASSUME NEW s \in Seq(Nat), NEW x \in Nat
  PROVE  /\ Total(s) \in Nat /\ Total(Append(s, x)) = Total(s) + x
         /\ \A i \in 0..Len(s) : Sums(Append(s, x))[i] = Sums(s)[i]
<1>1. PICK r : r = Append(s, x)
  OBVIOUS
<1>2. r \in Seq(Nat) /\ Len(r) = Len(s) + 1 /\ r[Len(s) + 1] = x /\ \A i \in 1..Len(s) : r[i] = s[i]
  BY <1>1, AppendFacts
<1>3. PICK p, q : p = Sums(s) /\ q = Sums(r)
  OBVIOUS
<1>4. p \in [0..Len(s) -> Nat] /\ p[0] = 0 /\ \A i \in 1..Len(s) : p[i] = p[i - 1] + s[i]
  BY <1>3, SumsFacts
<1>5. q[0] = 0 /\ \A i \in 1..Len(r) : q[i] = q[i - 1] + r[i]
  BY <1>2, <1>3, SumsFacts
<1>6. Len(s) \in Nat
  OBVIOUS
<1>7. \A i \in 1..Len(s) : i \in 1..Len(r)
  BY <1>2, <1>6
<1>8. q[0] = p[0] /\ \A i \in 1..Len(s) : q[i - 1] = p[i - 1] => q[i] = p[i]
  BY <1>2, <1>4, <1>5, <1>7
<1>9. \A i \in 0..Len(s) : q[i] = p[i]
  BY ONLY <1>6, <1>8, AlikeByStep
<1>10. Len(s) + 1 \in 1..Len(r) /\ (Len(s) + 1) - 1 = Len(s) /\ Len(s) \in 0..Len(s)
  BY <1>2, <1>6
<1>11. q[Len(s) + 1] = p[Len(s)] + x
  BY <1>2, <1>5, <1>9, <1>10
<1>12. QED
  BY <1>1, <1>2, <1>3, <1>4, <1>9, <1>10, <1>11 DEF Total

LEMMA TotalOne == ASSUME NEW x \in Nat PROVE Total(<<x>>) = x
<1>1. <<>> \in Seq(Nat) /\ Append(<<>>, x) = <<x>> /\ Len(<<>>) = 0
  OBVIOUS
<1>2. Total(<<>>) = 0
  BY <1>1, SumsFacts DEF Total
<1>3. Total(<<x>>) = 0 + x
  BY <1>1, <1>2, TotalAppend
<1>4. QED
  BY <1>3

LEMMA TruncatedFits ==
  ASSUME NEW size \in Nat, NEW limit \in Nat, Reserve <= limit
  PROVE  Truncated(size, limit) \in Nat /\ Truncated(size, limit) <= limit
BY CompileAssumption DEF Truncated

\* What Packed does to chunks within the limit.
Within(chunks, limit) == \A i \in 1..Len(chunks) : Total(chunks[i]) <= limit
LEMMA PackedFacts ==
  ASSUME NEW c \in Seq(Seq(Nat)), NEW limit \in Nat, Within(c, limit), NEW x \in Nat, x <= limit
  PROVE  LET d == Packed(c, x, limit) IN
         /\ d \in Seq(Seq(Nat)) /\ d # <<>> /\ Within(d, limit)
         /\ FlattenSeq(d) = Append(FlattenSeq(c), x)
         /\ \/ Len(d) = Len(c) + 1 /\ Total(Last(d)) = x
               /\ (c # <<>> => Total(Last(c)) + x > limit)
            \/ Len(d) = Len(c) /\ c # <<>> /\ Total(Last(d)) = Total(Last(c)) + x
<1> DEFINE S == Seq(Nat)
<1>0. <<x>> \in S /\ <<x>> # <<>> /\ Total(<<x>>) = x /\ c \in Seq(S) /\ <<>> \in S
  BY TotalOne
<1>1. PICK d : d = Packed(c, x, limit)
  OBVIOUS
<1>2. FlattenSeq(c) \in S /\ FlattenSeq(c) \o <<x>> = Append(FlattenSeq(c), x)
  BY <1>0, FlattenAppend, AppendIsConcat
<1>3. CASE c = <<>> \/ Total(Last(c)) + x > limit
  <2>1. d = Append(c, <<x>>)
    <3>1. Append(<<>>, <<x>>) = <<<<x>>>>
      OBVIOUS
    <3>2. QED
      BY <1>1, <1>3, <3>1 DEF Packed
  <2>2. /\ d \in Seq(S) /\ Len(d) = Len(c) + 1 /\ d[Len(c) + 1] = <<x>>
        /\ \A i \in 1..Len(c) : d[i] = c[i]
    BY <1>0, <2>1, AppendFacts
  <2>3. Len(c) \in Nat /\ d # <<>> /\ Last(d) = <<x>> /\ \A i \in 1..Len(d) : i \in 1..Len(c) \/ i = Len(c) + 1
    BY <2>2 DEF Last
  <2>4. Within(d, limit)
    BY <1>0, <2>2, <2>3 DEF Within
  <2>5. FlattenSeq(d) = FlattenSeq(c) \o <<x>>
    BY <1>0, <2>1, FlattenAppend
  <2>6. QED
    BY <1>0, <1>1, <1>2, <1>3, <2>2, <2>3, <2>4, <2>5
<1>4. CASE c # <<>> /\ ~(Total(Last(c)) + x > limit)
  <2>1. PICK a, z : a = Front(c) /\ z = Last(c)
    OBVIOUS
  <2>2. /\ a \in Seq(S) /\ z \in S /\ c = Append(a, z) /\ Len(a) = Len(c) - 1
        /\ \A i \in 1..(Len(c) - 1) : a[i] = c[i]
    BY <1>0, <1>4, <2>1, FrontLast
  <2>3. PICK y : y = Append(z, x)
    OBVIOUS
  <2>4. y \in S /\ Total(y) = Total(z) + x /\ Total(z) \in Nat
    BY <2>2, <2>3, TotalAppend, AppendFacts
  <2>5. d = Append(a, y)
    BY <1>1, <1>4, <2>1, <2>3 DEF Packed
  <2>6. d \in Seq(S) /\ Len(d) = Len(a) + 1 /\ d[Len(a) + 1] = y /\ \A i \in 1..Len(a) : d[i] = a[i]
    BY <2>2, <2>4, <2>5, AppendFacts
  <2>7. Len(c) \in Nat /\ Len(c) # 0
    BY <1>4, EmptySeq
  <2>8. Len(d) = Len(c) /\ Last(d) = y /\ d # <<>> /\ \A i \in 1..Len(d) : i \in 1..(Len(c) - 1) \/ i = Len(c)
    <3>1. PICK n : n = Len(c)
      OBVIOUS
    <3>2. n \in Nat /\ n # 0 /\ Len(a) = n - 1
      BY <2>2, <2>7, <3>1
    <3>3. Len(d) = n
      BY <2>6, <3>2
    <3>4. \A i \in 1..n : i \in 1..(n - 1) \/ i = n
      BY <3>2
    <3>5. d[n] = y
      BY <2>6, <3>2
    <3>6. d # <<>>
      BY <3>2, <3>3, EmptySeq
    <3>7. Last(d) = y
      BY <3>3, <3>5 DEF Last
    <3>8. QED
      BY <3>1, <3>3, <3>4, <3>6, <3>7
  <2>9. Within(d, limit)
    <3>1. ASSUME NEW i \in 1..Len(d)
          PROVE  Total(d[i]) <= limit
      <4>1. CASE i \in 1..(Len(c) - 1)
        BY <2>2, <2>6, <2>7, <4>1 DEF Within
      <4>2. CASE i = Len(c)
        BY <1>4, <2>1, <2>4, <2>8, <4>2 DEF Last
      <4>3. QED
        BY <2>8, <4>1, <4>2
    <3>2. QED
      BY <3>1 DEF Within
  <2>10. FlattenSeq(d) = FlattenSeq(a) \o y /\ FlattenSeq(c) = FlattenSeq(a) \o z /\ FlattenSeq(a) \in S
    BY <2>2, <2>4, <2>5, FlattenAppend
  <2>11. FlattenSeq(a) \o y = Append(FlattenSeq(a) \o z, x)
    BY <2>2, <2>3, <2>10, AppendOfConcat
  <2>12. QED
    BY <1>1, <1>4, <2>1, <2>4, <2>6, <2>8, <2>9, <2>10, <2>11
<1>5. QED
  BY <1>3, <1>4

\* What Chunked's recursion comes to: f[i] are the chunks of the first i items.
Chunks(f, items, limit) ==
  /\ f[0] = <<>> /\ Chunked(items, limit) = f[Len(items)]
  /\ \A i \in 1..Len(items) : f[i] = Packed(f[i - 1], Truncated(items[i], limit), limit)
LEMMA ChunkedIs ==
  ASSUME NEW items \in Seq(Nat), NEW limit \in Nat, Reserve <= limit
  PROVE  \E f : /\ f \in [0..Len(items) -> {c \in Seq(Seq(Nat)) : Within(c, limit)}]
                /\ Chunks(f, items, limit)
<1> DEFINE n == Len(items)
           Values == {c \in Seq(Seq(Nat)) : Within(c, limit)}
           Then(i, w) == Packed(w, Truncated(items[i], limit), limit)
           step == [i \in 1..n |-> [w \in Values |-> Then(i, w)]]
           Body(f) == [i \in 0..n |-> IF i = 0 THEN <<>> ELSE Packed(f[i - 1], Truncated(items[i], limit), limit)]
           g == CHOOSE f : f = Body(f)
<1>1. n \in Nat /\ <<>> \in Values
  BY DEF Within
<1>2. \A i \in 1..n, w \in Values : Then(i, w) \in Values
  <2>1. ASSUME NEW i \in 1..n, NEW w \in Values
        PROVE  Then(i, w) \in Values
    <3>1. items[i] \in Nat
      OBVIOUS
    <3>2. Truncated(items[i], limit) \in Nat /\ Truncated(items[i], limit) <= limit
      BY <3>1, TruncatedFits
    <3>3. QED
      BY <3>2, PackedFacts
  <2>2. QED
    BY <2>1
<1> HIDE DEF Then
<1>3. PICK f \in [0..n -> Values] : f[0] = <<>> /\ \A i \in 1..n : f[i] = step[i][f[i - 1]]
  <2>0. step \in [1..n -> [Values -> Values]]
    BY <1>2
  <2> HIDE DEF n, Values, step
  <2>1. \E f : Recurs(f, n, Values, <<>>, step)
    BY <1>1, <2>0, RecursFacts
  <2>2. QED
    BY <2>1 DEF Recurs
<1>4. \A i \in 1..n : i - 1 \in 0..n /\ f[i] = Then(i, f[i - 1])
  <2>1. \A i \in 1..n : i - 1 \in 0..n
    OBVIOUS
  <2>2. \A i \in 1..n, w \in Values : step[i][w] = Then(i, w)
    OBVIOUS
  <2> HIDE DEF n, Values, step
  <2>3. QED
    BY <1>3, <2>1, <2>2
<1>5. f = Body(f)
  BY <1>1, <1>3, <1>4 DEF Then
<1>6. g = Body(g)
  BY <1>5
<1>7. Chunked(items, limit) = g[n]
  BY DEF Chunked
<1>8. g[n] = f[n]
  <2> HIDE DEF step, n, g, Values
  <2>1. \A i \in 0..n : g[i] = IF i = 0 THEN <<>> ELSE Then(i, g[i - 1])
    BY <1>6 DEF Then
  <2>2. \A i \in 1..n : i \in 0..n /\ i # 0
    BY <1>1
  <2>3. 0 \in 0..n /\ n \in 0..n
    BY <1>1
  <2>4. g[0] = f[0] /\ \A i \in 1..n : g[i - 1] = f[i - 1] => g[i] = f[i]
    BY <1>3, <1>4, <2>1, <2>2, <2>3
  <2>5. \A i \in 0..n : g[i] = f[i]
    <3>1. n \in Nat
      BY <1>1
    <3>2. QED
      BY ONLY <2>4, <3>1, AlikeByStep
  <2>6. QED
    BY <2>3, <2>5
<1>9. QED
  BY <1>3, <1>4, <1>7, <1>8 DEF Chunks, Then

\* The sizes of the items as they are shown.
SizesOf(items, limit) == [i \in DOMAIN items |-> Truncated(items[i], limit)]
LEMMA SizesFacts ==
  ASSUME NEW items \in Seq(Nat), NEW limit \in Nat, Reserve <= limit
  PROVE  /\ SizesOf(items, limit) \in Seq(Nat) /\ Len(SizesOf(items, limit)) = Len(items)
         /\ \A i \in 1..Len(items) : /\ SizesOf(items, limit)[i] = Truncated(items[i], limit)
                                     /\ SizesOf(items, limit)[i] <= limit
<1>1. DOMAIN items = 1..Len(items) /\ Len(items) \in Nat /\ \A i \in 1..Len(items) : items[i] \in Nat
  OBVIOUS
<1>2. \A i \in 1..Len(items) : Truncated(items[i], limit) \in Nat /\ Truncated(items[i], limit) <= limit
  BY <1>1, TruncatedFits
<1>3. SizesOf(items, limit) = [i \in 1..Len(items) |-> Truncated(items[i], limit)]
  BY <1>1 DEF SizesOf
<1>4. QED
  BY <1>1, <1>2, <1>3

\* The chunks hold the items, in their order.
LEMMA ChunkedHold ==
  ASSUME NEW items \in Seq(Nat), NEW limit \in Nat, Reserve <= limit,
         NEW f \in [0..Len(items) -> {c \in Seq(Seq(Nat)) : Within(c, limit)}], Chunks(f, items, limit)
  PROVE  FlattenSeq(Chunked(items, limit)) = SizesOf(items, limit)
<1> DEFINE n == Len(items)
           s == SizesOf(items, limit)
           T == {m \in Nat : m <= n => FlattenSeq(f[m]) = SubSeq(s, 1, m)}
<1>1. s \in Seq(Nat) /\ Len(s) = n /\ n \in Nat /\ \A i \in 1..n : s[i] = Truncated(items[i], limit) /\ s[i] <= limit
  BY SizesFacts
<1> HIDE DEF s
<1>2. 0 \in T
  <2>1. SubSeq(s, 1, 0) = <<>> /\ f[0] = <<>>
    BY <1>1 DEF Chunks
  <2>2. QED
    BY <2>1, FlattenNothing
<1>3. ASSUME NEW m \in T PROVE m + 1 \in T
  <2>1. SUFFICES ASSUME m + 1 <= n PROVE FlattenSeq(f[m + 1]) = SubSeq(s, 1, m + 1)
    OBVIOUS
  <2>2. m + 1 \in 1..n /\ (m + 1) - 1 = m /\ m \in 0..n /\ FlattenSeq(f[m]) = SubSeq(s, 1, m)
    BY <1>1, <2>1
  <2>3. PICK c, x : c = f[m] /\ x = s[m + 1]
    OBVIOUS
  <2>4. c \in Seq(Seq(Nat)) /\ Within(c, limit) /\ x \in Nat /\ x <= limit
    <3>1. f[m] \in {b \in Seq(Seq(Nat)) : Within(b, limit)}
      BY <2>2
    <3>2. s[m + 1] \in Nat /\ s[m + 1] <= limit
      BY <1>1, <2>2
    <3>3. QED
      BY <2>3, <3>1, <3>2
  <2>5. f[m + 1] = Packed(c, x, limit)
    BY <1>1, <2>2, <2>3 DEF Chunks
  <2>6. FlattenSeq(f[m + 1]) = Append(SubSeq(s, 1, m), x)
    <3>1. FlattenSeq(Packed(c, x, limit)) = Append(FlattenSeq(c), x)
      BY <2>4, PackedFacts
    <3>2. QED
      BY <2>2, <2>3, <2>5, <3>1
  <2>7. Append(SubSeq(s, 1, m), x) = SubSeq(s, 1, m + 1)
    <3>1. PICK a, b : a = SubSeq(s, 1, m) /\ b = SubSeq(s, 1, m + 1)
      OBVIOUS
    <3>2. /\ a \in Seq(Nat) /\ Len(a) = m /\ (\A i \in 1..m : a[i] = s[i])
          /\ b \in Seq(Nat) /\ Len(b) = m + 1 /\ (\A i \in 1..(m + 1) : b[i] = s[i])
      BY <1>1, <2>2, <3>1, SMTT(30)
    <3>3. PICK r : r = Append(a, x)
      OBVIOUS
    <3>4. r \in Seq(Nat) /\ Len(r) = Len(a) + 1 /\ r[Len(a) + 1] = x /\ \A i \in 1..Len(a) : r[i] = a[i]
      BY <2>4, <3>2, <3>3, AppendFacts
    <3>5. \A i \in 1..(m + 1) : i \in 1..m \/ i = m + 1
      BY <2>2
    <3>6. \A i \in 1..(m + 1) : r[i] = b[i]
      BY <2>3, <3>2, <3>4, <3>5
    <3>7. r = b
      BY <3>2, <3>4, <3>6, SeqEqual
    <3>8. QED
      BY <3>1, <3>3, <3>7
  <2>8. QED
    BY <2>6, <2>7
<1>4. T \in SUBSET Nat
  OBVIOUS
<1> HIDE DEF T
<1>5. T = Nat
  BY <1>2, <1>3, <1>4, NatInd
<1>6. FlattenSeq(f[n]) = SubSeq(s, 1, n)
  BY <1>1, <1>5 DEF T
<1>7. SubSeq(s, 1, n) = s
  BY <1>1
<1>8. QED
  BY <1>6, <1>7 DEF Chunks, s

\* No way to cut the items is ahead of the chunks: of the first i, they are no more than its
\* pieces, and if they are as many, the last is not longer.
Ahead(ends, i) == {e \in ends : e < i}
NotBehind(c, p, ends, i) ==
  \E d \in {0} \cup Ahead(ends, i) :
    /\ \A e \in Ahead(ends, i) : e <= d
    /\ Len(c) <= Cardinality(Ahead(ends, i)) + 1
    /\ Len(c) = Cardinality(Ahead(ends, i)) + 1 => Total(Last(c)) <= p[i] - p[d]
LEMMA ChunkedFew ==
  ASSUME NEW items \in Seq(Nat), NEW limit \in Nat, Reserve <= limit, items # <<>>,
         NEW f \in [0..Len(items) -> {c \in Seq(Seq(Nat)) : Within(c, limit)}], Chunks(f, items, limit),
         NEW ends \in Cuts(SizesOf(items, limit), limit)
  PROVE  Chunked(items, limit) # <<>> /\ Len(Chunked(items, limit)) <= Cardinality(ends)
<1> DEFINE n == Len(items)
           s == SizesOf(items, limit)
           p == Sums(s)
           A(i) == Ahead(ends, i)
           T == {m \in Nat : m + 1 <= n => f[m + 1] # <<>> /\ NotBehind(f[m + 1], p, ends, m + 1)}
<1>1. s \in Seq(Nat) /\ Len(s) = n /\ n \in Nat /\ \A i \in 1..n : s[i] = Truncated(items[i], limit) /\ s[i] <= limit
  BY SizesFacts
<1>1a. n # 0
  BY EmptySeq
<1>2a. /\ ends \in SUBSET (1..n) /\ n \in ends
       /\ \A d \in {0} \cup ends, e \in ends :
            (d < e /\ \A h \in ends : h <= d \/ e <= h) => p[e] - p[d] <= limit
  BY <1>1 DEF Cuts
<1>2b. \A e \in ends : e \in Nat /\ 1 <= e /\ e <= n
  BY <1>1, <1>2a
<1>2c. \A e : e \in 1..n <=> e \in Nat /\ 1 <= e /\ e <= n
  BY <1>1
<1>2d. \A e : e \in 0..n <=> e \in Nat /\ e <= n
  BY <1>1
<1>3. p \in [0..n -> Nat] /\ p[0] = 0 /\ \A i \in 1..n : p[i] = p[i - 1] + s[i]
  BY <1>1, SumsFacts
<1>4. \A d \in 0..n : \A e \in d..n : p[d] <= p[e]
  BY <1>1, SumsRise
<1>5. \A i \in 1..n : IsFiniteSet(A(i)) /\ Cardinality(A(i)) \in Nat
  <2>1. ASSUME NEW i \in 1..n
        PROVE  IsFiniteSet(A(i)) /\ Cardinality(A(i)) \in Nat
    <3>1. A(i) \subseteq 1..n
      BY <1>2a DEF Ahead
    <3>1a. IsFiniteSet(1..n)
      BY <1>1, FS_Interval
    <3>2. QED
      BY <3>1, <3>1a, FS_Subset, FS_CardinalityType
  <2>2. QED
    BY <2>1
<1> HIDE DEF s, p, n
<1>6. 0 \in T
  <2>1. A(1) = {} /\ 1 \in 1..n /\ 1 - 1 = 0
    BY <1>1, <1>1a, <1>2b, <1>2c DEF Ahead
  <2>2. PICK x, c, d : x = s[1] /\ c = f[0] /\ d = f[1]
    OBVIOUS
  <2>3. c = <<>> /\ x \in Nat /\ x <= limit /\ d = Packed(c, x, limit) /\ c \in Seq(Seq(Nat)) /\ Within(c, limit)
    BY <1>1, <2>1, <2>2 DEF Chunks, Within
  <2>4. d # <<>> /\ Len(d) = Len(c) + 1 /\ Total(Last(d)) = x
    BY <2>3, PackedFacts
  <2>5. p[1] - p[0] = x /\ Len(d) = 1 /\ Cardinality({}) = 0
    BY <1>3, <2>1, <2>2, <2>3, <2>4, FS_EmptySet
  <2>6. NotBehind(d, p, ends, 1)
    <3>1. 0 \in {0} \cup A(1) /\ \A e \in A(1) : e <= 0
      BY <2>1
    <3>2. Len(d) <= Cardinality(A(1)) + 1 /\ Total(Last(d)) <= p[1] - p[0]
      <4>1. Cardinality(A(1)) = 0
        BY <2>1, <2>5
      <4>2. x \in Nat
        BY <2>3
      <4>3. PICK t, u : t = Total(Last(d)) /\ u = p[1] - p[0]
        OBVIOUS
      <4>4. t = x /\ u = x
        BY <2>4, <2>5, <4>3
      <4>5. t <= u
        BY ONLY <4>2, <4>4
      <4>6. Len(d) <= 0 + 1
        BY <2>5
      <4>7. QED
        BY <4>1, <4>3, <4>5, <4>6
    <3>3. QED
      BY <3>1, <3>2 DEF NotBehind
  <2>7. QED
    BY <2>2, <2>4, <2>6
<1>7. ASSUME NEW m \in T PROVE m + 1 \in T
  <2>1. SUFFICES ASSUME (m + 1) + 1 <= n
                 PROVE  f[(m + 1) + 1] # <<>> /\ NotBehind(f[(m + 1) + 1], p, ends, (m + 1) + 1)
    OBVIOUS
  <2>2. PICK i, j : i = m + 1 /\ j = i + 1
    OBVIOUS
  <2>3. /\ m \in Nat /\ i \in 1..n /\ j \in 1..n /\ j = i + 1 /\ j - 1 = i /\ i \in 0..n
        /\ f[i] # <<>> /\ NotBehind(f[i], p, ends, i)
    BY <1>1, <2>1, <2>2
  <2>4. PICK x, c, d : x = s[j] /\ c = f[i] /\ d = f[j]
    OBVIOUS
  <2>5. c # <<>> /\ x \in Nat /\ x <= limit /\ d = Packed(c, x, limit) /\ c \in Seq(Seq(Nat)) /\ Within(c, limit)
    <3>1. f[i] \in {b \in Seq(Seq(Nat)) : Within(b, limit)}
      BY <2>3 DEF n
    <3>2. s[j] \in Nat /\ s[j] <= limit /\ s[j] = Truncated(items[j], limit)
      BY <1>1, <2>3
    <3>3. f[j] = Packed(f[j - 1], Truncated(items[j], limit), limit)
      BY <2>3 DEF Chunks, n
    <3>4. QED
      BY <2>3, <2>4, <3>1, <3>2, <3>3
  <2>6. /\ d # <<>>
        /\ \/ Len(d) = Len(c) + 1 /\ Total(Last(d)) = x /\ Total(Last(c)) + x > limit
           \/ Len(d) = Len(c) /\ Total(Last(d)) = Total(Last(c)) + x
    BY <2>5, PackedFacts
  <2>7. PICK b \in {0} \cup A(i) :
          /\ \A e \in A(i) : e <= b
          /\ Len(c) <= Cardinality(A(i)) + 1
          /\ Len(c) = Cardinality(A(i)) + 1 => Total(Last(c)) <= p[i] - p[b]
    BY <2>3, <2>4 DEF NotBehind
  <2>8. PICK L, q, t, u, v, w : /\ L = Len(c) /\ q = Cardinality(A(i)) /\ t = Total(Last(c))
                                /\ u = p[i] /\ v = p[j] /\ w = p[b]
    OBVIOUS
  <2>9. /\ L \in Nat /\ q \in Nat /\ t \in Nat /\ u \in Nat /\ v \in Nat /\ w \in Nat
        /\ v = u + x /\ w <= u /\ b < i /\ b \in 0..n
    <3>1. b \in 0..n /\ b < i
      BY <1>2c, <2>3, <1>1, <1>2d, <1>2b, <2>7 DEF Ahead
    <3>2. t \in Nat
      BY <2>5, FrontLast, <2>8, TotalAppend
    <3>3. i \in b..n
      BY <2>3, <3>1
    <3>4. w <= u
      BY <1>4, <2>8, <3>1, <3>3
    <3>5. v = u + x
      BY <1>3, <2>3, <2>4, <2>8
    <3>6. L \in Nat /\ q \in Nat
      BY <1>5, <2>3, <2>5, <2>8
    <3>7. u \in Nat /\ v \in Nat /\ w \in Nat
      BY <1>2c, <1>2d, <1>3, <2>3, <2>8, <3>1
    <3>8. QED
      BY <2>5, <3>1, <3>2, <3>4, <3>5, <3>6, <3>7
  <2>10. CASE i \notin ends
    <3>1. A(j) = A(i)
      BY <1>2b, <1>2c, <2>3, <2>10 DEF Ahead
    <3>2. PICK e \in ends : e > i /\ \A h \in ends : h > i => e <= h
      <4> DEFINE B == {e \in ends : e > i}
      <4>1. B \in SUBSET Nat /\ n \in B
        <5>1. B \in SUBSET Nat
          BY <1>2b
        <5>2. n > i
          BY <1>1, <1>2c, <2>3
        <5>3. QED
          BY <1>2a, <5>1, <5>2
      <4> HIDE DEF B
      <4>2. PICK e \in B : \A h \in B : e <= h
        BY <4>1, LeastLemma
      <4>3. QED
        BY <4>2 DEF B
    <3>3. \A h \in ends : h <= b \/ e <= h
      BY <1>2b, <1>2c, <2>3, <2>7, <2>10, <3>2 DEF Ahead
    <3>4. b \in {0} \cup ends /\ b < e
      BY <1>2b, <1>2c, <2>3, <2>7, <2>9, <3>2 DEF Ahead
    <3>5. p[e] - w <= limit
      BY <1>2a, <2>8, <3>3, <3>4
    <3>6. j \in 0..n /\ e \in j..n /\ p[e] \in Nat
      <4>1. e \in Nat /\ e <= n /\ j <= e /\ j \in Nat /\ j <= n
        BY <1>2b, <1>2c, <2>3, <3>2
      <4>2. e \in 0..n /\ j \in 0..n
        BY <1>2d, <4>1
      <4>3. p[e] \in Nat
        BY <1>3, <4>2
      <4>4. QED
        BY <1>1, <4>1, <4>2, <4>3
    <3>7. v <= p[e]
      BY <1>4, <2>8, <3>6
    <3>8. v - w <= limit
      BY <2>9, <3>5, <3>6, <3>7
    <3>9. Len(d) <= q + 1 /\ (Len(d) = q + 1 => Total(Last(d)) <= v - w)
      <4>1. L <= q + 1 /\ (L = q + 1 => t <= u - w) /\ x \in Nat /\ limit \in Nat
        BY <2>5, <2>7, <2>8
      <4>2. \/ Len(d) = L + 1 /\ Total(Last(d)) = x /\ t + x > limit
            \/ Len(d) = L /\ Total(Last(d)) = t + x
        BY <2>6, <2>8
      <4>3. QED
        BY ONLY <2>9, <3>8, <4>1, <4>2
    <3>10. NotBehind(d, p, ends, j)
      BY <2>7, <2>8, <3>1, <3>9 DEF NotBehind
    <3>11. QED
      BY <2>2, <2>4, <2>6, <3>10
  <2>11. CASE i \in ends
    <3>1. A(j) = A(i) \cup {i} /\ i \notin A(i)
      <4>1. \A e \in ends : e < j <=> e < i \/ e = i
        BY <1>2b, <1>2c, <2>3
      <4>2. QED
        <5>1. i \notin A(i)
          BY <1>2c, <2>3 DEF Ahead
        <5>2. A(j) = {e \in ends : e < i \/ e = i}
          BY <4>1 DEF Ahead
        <5>3. QED
          BY <2>11, <5>1, <5>2 DEF Ahead
    <3>2. Cardinality(A(j)) = q + 1
      BY <1>5, <2>3, <2>8, <3>1, FS_AddElement
    <3>3. Len(d) <= (q + 1) + 1 /\ (Len(d) = (q + 1) + 1 => Total(Last(d)) <= v - u)
      <4>1. L <= q + 1 /\ x \in Nat
        BY <2>5, <2>7, <2>8
      <4>2. \/ Len(d) = L + 1 /\ Total(Last(d)) = x
            \/ Len(d) = L /\ Total(Last(d)) = t + x
        BY <2>6, <2>8
      <4>3. QED
        BY ONLY <2>9, <4>1, <4>2
    <3>4. \A e \in A(j) : e <= i
      BY <1>2b, <1>2c, <2>3 DEF Ahead
    <3>5. NotBehind(d, p, ends, j)
      BY <2>8, <3>1, <3>2, <3>3, <3>4 DEF NotBehind
    <3>6. QED
      BY <2>2, <2>4, <2>6, <3>5
  <2>12. QED
    BY <2>10, <2>11
<1>8. T \in SUBSET Nat
  OBVIOUS
<1> HIDE DEF T
<1>9. T = Nat
  BY <1>6, <1>7, <1>8, NatInd
<1>10. f[n] # <<>> /\ NotBehind(f[n], p, ends, n)
  <2>1. n - 1 \in T /\ (n - 1) + 1 = n
    BY <1>1, <1>1a, <1>9
  <2>2. QED
    BY <1>1, <2>1 DEF T
<1>11. A(n) = ends \ {n} /\ IsFiniteSet(ends) /\ Cardinality(ends) \in Nat
  <2>1. IsFiniteSet(1..n)
    BY <1>1, FS_Interval
  <2>2. IsFiniteSet(ends) /\ Cardinality(ends) \in Nat
    BY <1>2a, <2>1, FS_Subset, FS_CardinalityType
  <2>3. A(n) = ends \ {n}
    BY <1>1, <1>2b DEF Ahead
  <2>4. QED
    BY <2>2, <2>3
<1>12. Cardinality(A(n)) = Cardinality(ends) - 1
  BY <1>2a, <1>11, FS_RemoveElement
<1>13. Len(f[n]) <= Cardinality(A(n)) + 1
  BY <1>10 DEF NotBehind
<1>14. Len(f[n]) <= Cardinality(ends)
  BY <1>11, <1>12, <1>13
<1>15. QED
  BY <1>10, <1>14 DEF Chunks, n

LEMMA BudgetFacts ==
  ASSUME NEW import \in Import
  PROVE  Budget(import) \in Nat /\ Reserve <= Budget(import)
BY CompileAssumption DEF Probed, Import, Budget

\* An item that there is makes a chunk.
LEMMA ChunkedSome ==
  ASSUME NEW items \in Seq(Nat), NEW limit \in Nat, Reserve <= limit, items # <<>>
  PROVE  Chunked(items, limit) # <<>>
<1>1. PICK f : /\ f \in [0..Len(items) -> {c \in Seq(Seq(Nat)) : Within(c, limit)}]
               /\ Chunks(f, items, limit)
  BY ChunkedIs
<1>2. Len(items) \in 1..Len(items) /\ Len(items) - 1 \in 0..Len(items)
  BY EmptySeq
<1>3. PICK c, x : c = f[Len(items) - 1] /\ x = Truncated(items[Len(items)], limit)
  OBVIOUS
<1>4. f[Len(items) - 1] \in {w \in Seq(Seq(Nat)) : Within(w, limit)} /\ items[Len(items)] \in Nat
  BY <1>1, <1>2, SMTT(30)
<1>5. c \in Seq(Seq(Nat)) /\ Within(c, limit) /\ x \in Nat /\ x <= limit
  BY <1>3, <1>4, TruncatedFits
<1>6. Chunked(items, limit) = Packed(c, x, limit)
  BY <1>1, <1>2, <1>3 DEF Chunks
<1>7. QED
  BY <1>5, <1>6, PackedFacts

\* All of it: the chunks hold the items in order, within the limit, and are no more than
\* they must be.
LEMMA ChunkedFacts ==
  ASSUME NEW items \in Seq(Nat), NEW limit \in Nat, Reserve <= limit, items # <<>>
  PROVE  LET chunks == Chunked(items, limit) IN
         /\ chunks \in Seq(Seq(Nat)) /\ chunks # <<>> /\ Within(chunks, limit)
         /\ FlattenSeq(chunks) = SizesOf(items, limit)
         /\ \A ends \in Cuts(SizesOf(items, limit), limit) : Len(chunks) <= Cardinality(ends)
BY ChunkedIs, ChunkedSome, ChunkedHold, ChunkedFew DEF Chunks

-----------------------------------------------------------------------------
\* Lists cleaned.

LEMMA FirstOfFacts ==
  ASSUME NEW X, NEW s \in Seq(X)
  PROVE  /\ FirstOf(s) \in Seq(X) /\ Len(FirstOf(s)) <= Len(s)
         /\ IsInjective(FirstOf(s)) /\ ToSet(FirstOf(s)) = ToSet(s)
<1> DEFINE n == Len(s)
           pos == [i \in DOMAIN s |-> i]
           S == {i \in DOMAIN s : \A j \in 1..(i - 1) : s[j] # s[i]}
           at == Filter(pos, S)
<1>1. DOMAIN s = 1..n /\ n \in Nat /\ pos \in Seq(1..n) /\ Len(pos) = n /\ \A i \in 1..n : pos[i] = i /\ s[i] \in X
  OBVIOUS
<1>2. FirstOf(s) = [i \in DOMAIN at |-> s[at[i]]]
  BY DEF FirstOf
<1>3. ToSet(pos) = 1..n /\ IsInjective(pos)
  BY <1>1 DEF ToSet, IsInjective
<1> HIDE DEF n, pos, S
<1>4. at \in Seq(1..n) /\ Len(at) <= n /\ ToSet(at) = (1..n) \cap S /\ IsInjective(at)
  BY <1>1, <1>3, FilterType, FilterRange, FilterInjective
<1>5. S = {i \in 1..n : \A j \in 1..(i - 1) : s[j] # s[i]}
  BY <1>1 DEF S
<1> HIDE DEF at
<1>6. PICK m : m = Len(at)
  OBVIOUS
<1>7. m \in Nat /\ DOMAIN at = 1..m /\ \A i \in 1..m : at[i] \in 1..n /\ at[i] \in S
  BY <1>4, <1>6 DEF ToSet
<1>8. PICK r : r = [i \in 1..m |-> s[at[i]]]
  OBVIOUS
<1>9. FirstOf(s) = r
  BY <1>2, <1>7, <1>8
<1>10. \A i \in 1..m : r[i] \in X /\ r[i] = s[at[i]]
  BY <1>1, <1>7, <1>8
<1>11. r \in Seq(X) /\ Len(r) = m /\ DOMAIN r = 1..m
  BY <1>7, <1>8, <1>10
<1>12. IsInjective(r)
  <2>1. SUFFICES ASSUME NEW i \in 1..m, NEW j \in 1..m, r[i] = r[j] PROVE i = j
    BY <1>11 DEF IsInjective
  <2>2. PICK a, b : a = at[i] /\ b = at[j]
    OBVIOUS
  <2>3. a \in 1..n /\ b \in 1..n /\ a \in S /\ b \in S /\ s[a] = s[b]
    BY <1>7, <1>10, <2>1, <2>2
  <2>4. ~(a < b) /\ ~(b < a)
    BY <1>1, <2>3, <1>5
  <2>5. a = b
    BY <1>1, <2>3, <2>4
  <2>6. QED
    BY <1>4, <1>7, <2>2, <2>5 DEF IsInjective
<1>13. ToSet(r) \subseteq ToSet(s)
  BY <1>1, <1>7, <1>10, <1>11 DEF ToSet
<1>14. ASSUME NEW x \in ToSet(s) PROVE x \in ToSet(r)
  <2> DEFINE B == {i \in 1..n : s[i] = x}
  <2>1. B \in SUBSET Nat /\ B # {}
    BY <1>1, <1>14 DEF ToSet
  <2> HIDE DEF B
  <2>2. PICK i \in B : \A j \in B : i <= j
    BY <2>1, LeastLemma
  <2>3. i \in 1..n /\ s[i] = x /\ \A j \in 1..n : s[j] = x => i <= j
    BY <2>2 DEF B
  <2>4. \A j \in 1..(i - 1) : j \in 1..n /\ ~(i <= j)
    BY <1>1, <2>3
  <2>5. i \in S
    BY <1>5, <2>3, <2>4
  <2>6. i \in ToSet(at)
    BY <1>4, <2>3, <2>5
  <2>7. PICK h \in 1..m : at[h] = i
    BY <1>7, <2>6 DEF ToSet
  <2>8. QED
    BY <1>10, <1>11, <2>3, <2>7 DEF ToSet
<1>15. QED
  BY <1>4, <1>6, <1>9, <1>11, <1>12, <1>13, <1>14

LEMMA CleanTagsFacts ==
  ASSUME NEW tags \in Seq(Words)
  PROVE  CleanTags(tags) \in Seq(Words) /\ Len(CleanTags(tags)) <= MaxTags
<1>1. PICK fit : fit = FirstOf(Filter(tags, Words \ KindWords))
  OBVIOUS
<1>2. Filter(tags, Words \ KindWords) \in Seq(Words)
  BY FilterType
<1>3. fit \in Seq(Words)
  BY <1>1, <1>2, FirstOfFacts
<1>4. PICK n : n = IF Len(fit) < MaxTags THEN Len(fit) ELSE MaxTags
  OBVIOUS
<1>5. MaxTags \in Nat
  BY CompileAssumption
<1>6. n \in 0..Len(fit) /\ n <= MaxTags
  BY <1>3, <1>4, <1>5
<1>7. CleanTags(tags) = SubSeq(fit, 1, n)
  BY <1>1, <1>4 DEF CleanTags
<1>8. QED
  BY <1>3, <1>6, <1>7, CutLemma

LEMMA CleanEntitiesFacts ==
  ASSUME NEW entities \in Seq(STRING), NEW mentions
  PROVE  CleanEntities(entities, mentions) \in Seq(STRING) /\ IsInjective(CleanEntities(entities, mentions))
BY FilterType, FirstOfFacts DEF CleanEntities

\* Why an ingestion's reports are right.

Verb == {"create", "update", "append"}
Executing == {"entry", "resolve", "write"}
BatchType ==
  [at: {"idle", "related", "plan", "done"} \cup Executing, import: Import \cup {Unknown}, budget: Nat,
   left: Seq(Seq(Nat)), chunk: Nat, plan: Seq(Entry), raw: Seq(Words), kept: Seq(Words),
   crossed: BOOLEAN, lost: SUBSET Words, mine: Seq(Verb), told: Seq(Verb), failed: SUBSET Nat]
NoteType ==
  [by: Compiles, chunk: Nat, do: Verb, tags: Seq(Words), asked: SUBSET Words, crossed: BOOLEAN,
   stubs: Seq(STRING), wired: BOOLEAN]

\* Everything has its type, and what a word means is a concept that means itself.
CompileTyped ==
  /\ order \in Order1 /\ means \in [Words -> Words \cup {Unknown, Barred}]
  /\ batch \in [Compiles -> BatchType] /\ wrote \in Seq(NoteType)
  /\ tried \in [Compiles -> Seq(Seq(Nat))]
  /\ \A w \in Words : means[w] \in Words => means[means[w]] = means[w]

\* What was shown are the chunks before the one at hand, and that one if the model was asked,
\* in order, and but for failed ones each of them.
ShownTo(t, chunks, c, failed, busy) ==
  \E p \in [DOMAIN t -> DOMAIN chunks] :
    /\ \A i, j \in DOMAIN p : i < j => p[i] < p[j]
    /\ t = [i \in DOMAIN p |-> chunks[p[i]]]
    /\ \A i \in DOMAIN p : p[i] < c \/ (p[i] = c /\ busy)
    /\ \A d \in 1..(c - 1) : d \in failed \/ \E i \in DOMAIN p : p[i] = d
    /\ busy => \E i \in DOMAIN p : p[i] = c
Shows(b, t) ==
  /\ b.at = "idle" => b = Unbegun /\ t = <<>>
  /\ b.at # "idle" =>
       LET chunks == Chunked(b.import.items, b.budget)
       IN /\ b.import \in Import /\ b.import.items # <<>> /\ b.budget = Budget(b.import)
          /\ b.chunk \in 1..(Len(chunks) + 1) /\ (b.at = "done" <=> b.chunk = Len(chunks) + 1)
          /\ b.left = SubSeq(chunks, b.chunk, Len(chunks))
          /\ ShownTo(t, chunks, b.chunk, b.failed, b.at \in Executing)

\* What is reported was written for chunks that did not fail, and so was what is to be
\* reported, for the chunk at hand; what is left of its plan is within its limit.
Reports(b, log, k) ==
  /\ \A i \in DOMAIN log : log[i][1] = k =>
       log[i][2] > 0 /\ (log[i][2] < b.chunk \/ (log[i][2] = b.chunk /\ b.at \in Executing))
  /\ \A c \in b.failed : c < b.chunk
  /\ b.told \o b.mine = Verbs(Written(log, k, Nat \ b.failed))
  /\ b.told = Verbs(Written(log, k, Nat \ (b.failed \cup {b.chunk})))
  /\ \A c \in Nat : Len(Written(log, k, {c})) <= MaxUpdates
  /\ b.at \in Executing => Len(Written(log, k, {b.chunk})) + Len(b.plan) <= MaxUpdates
  /\ b.at \in {"resolve", "write"} => b.plan # <<>> /\ Head(b.plan).do \in Verb

\* Tags that stand for what was asked.
TagsFit(tags, crossed, asked, m) ==
  /\ \A j \in DOMAIN tags : m[tags[j]] \in Words
  /\ ~crossed => IsInjective(tags) /\ (\A j \in DOMAIN tags : m[tags[j]] = tags[j])
  /\ \A w \in asked : \E j \in DOMAIN tags : m[tags[j]] = m[w]
Resolves(b, m) ==
  /\ b.at = "resolve" => b.import.wired
  /\ b.at \in {"resolve", "write"} /\ b.import.wired =>
       /\ b.at = "write" => b.raw = <<>>
       /\ Len(b.kept) + Len(b.raw) <= MaxTags
       /\ TagsFit(b.kept, b.crossed, (ToSet(CleanTags(Head(b.plan).tags)) \ b.lost) \ ToSet(b.raw), m)
NoteFits(note, m) ==
  /\ IsInjective(note.stubs)
  /\ note.wired => TagsFit(note.tags, note.crossed, note.asked, m) /\ Len(note.tags) <= MaxTags

CompileInv ==
  /\ CompileTyped
  /\ \A k \in Compiles : Shows(batch[k], tried[k]) /\ Reports(batch[k], Log(wrote), k) /\ Resolves(batch[k], means)
  /\ \A i \in DOMAIN wrote : NoteFits(wrote[i], means)

-----------------------------------------------------------------------------
\* What is shown.

\* Asking the model shows it the chunk at hand.
LEMMA AskShows ==
  ASSUME NEW chunks \in Seq(Seq(Nat)), NEW c \in DOMAIN chunks, NEW failed,
         NEW t \in Seq(Seq(Nat)), ShownTo(t, chunks, c, failed, FALSE)
  PROVE  ShownTo(Append(t, chunks[c]), chunks, c, failed, TRUE)
<1>1. PICK p \in [DOMAIN t -> DOMAIN chunks] :
        /\ \A i, j \in DOMAIN p : i < j => p[i] < p[j]
        /\ t = [i \in DOMAIN p |-> chunks[p[i]]]
        /\ \A i \in DOMAIN p : p[i] < c
        /\ \A d \in 1..(c - 1) : d \in failed \/ \E i \in DOMAIN p : p[i] = d
  BY DEF ShownTo
<1>2. PICK n : n = Len(t)
  OBVIOUS
<1>3. n \in Nat /\ DOMAIN t = 1..n /\ DOMAIN p = 1..n /\ c \in Nat /\ DOMAIN chunks = 1..Len(chunks) /\ chunks[c] \in Seq(Nat)
  BY <1>2
<1>4. PICK r : r = Append(t, chunks[c])
  OBVIOUS
<1>5. r \in Seq(Seq(Nat)) /\ Len(r) = n + 1 /\ r[n + 1] = chunks[c] /\ \A i \in 1..n : r[i] = t[i]
  BY <1>2, <1>3, <1>4, AppendFacts
<1>6. PICK q : q = [i \in 1..(n + 1) |-> IF i = n + 1 THEN c ELSE p[i]]
  OBVIOUS
<1>7. /\ DOMAIN q = 1..(n + 1) /\ q[n + 1] = c /\ \A i \in 1..n : q[i] = p[i]
  BY <1>3, <1>6
<1>8. \A i \in 1..(n + 1) : i \in 1..n \/ i = n + 1
  BY <1>3
<1>9. \A i \in 1..n : p[i] \in 1..Len(chunks) /\ p[i] < c /\ i \in 1..(n + 1)
  BY <1>1, <1>3
<1>10. DOMAIN r = 1..(n + 1) /\ n + 1 \in 1..(n + 1)
  BY <1>3, <1>5
<1>11. q \in [DOMAIN r -> DOMAIN chunks]
  BY <1>3, <1>6, <1>8, <1>9, <1>10
<1>12. \A i, j \in DOMAIN q : i < j => q[i] < q[j]
  <2> SUFFICES ASSUME NEW i \in 1..(n + 1), NEW j \in 1..(n + 1), i < j PROVE q[i] < q[j]
    BY <1>7
  <2>1. i \in 1..n
    BY <1>3
  <2>2. CASE j = n + 1
    BY <1>7, <1>9, <2>1, <2>2
  <2>3. CASE j \in 1..n
    BY <1>1, <1>3, <1>7, <2>1, <2>3
  <2>4. QED
    BY <1>8, <2>2, <2>3
<1>13. r = [i \in DOMAIN q |-> chunks[q[i]]]
  <2>1. \A i \in 1..(n + 1) : r[i] = chunks[q[i]]
    BY <1>1, <1>3, <1>5, <1>7, <1>8
  <2>2. r = [i \in 1..(n + 1) |-> r[i]]
    BY <1>5, <1>10
  <2>3. QED
    BY <1>7, <2>1, <2>2
<1>14. \A i \in DOMAIN q : q[i] < c \/ q[i] = c
  BY <1>7, <1>8, <1>9
<1>15. \A d \in 1..(c - 1) : d \in failed \/ \E i \in DOMAIN q : q[i] = d
  BY <1>1, <1>3, <1>7, <1>9
<1>16. \E i \in DOMAIN q : q[i] = c
  BY <1>7, <1>10
<1>17. QED
  BY <1>4, <1>11, <1>12, <1>13, <1>14, <1>15, <1>16 DEF ShownTo

\* The next chunk begins when this one was shown or failed.
LEMMA NextShows ==
  ASSUME NEW t, NEW chunks, NEW c \in Nat, NEW failed, NEW gone, NEW busy \in BOOLEAN,
         ShownTo(t, chunks, c, failed, busy), failed \subseteq gone, busy \/ c \in gone,
         DOMAIN chunks \subseteq Nat
  PROVE  ShownTo(t, chunks, c + 1, gone, FALSE)
BY DEF ShownTo

-----------------------------------------------------------------------------
\* What is written.

LogType == Compiles \X Nat \X Verb
LEMMA LogFacts ==
  ASSUME NEW ns \in Seq(NoteType)
  PROVE  /\ Log(ns) \in Seq(LogType) /\ Len(Log(ns)) = Len(ns)
         /\ \A i \in 1..Len(ns) : Log(ns)[i] = <<ns[i].by, ns[i].chunk, ns[i].do>>
<1>1. DOMAIN ns = 1..Len(ns) /\ Len(ns) \in Nat /\ \A i \in 1..Len(ns) : ns[i] \in NoteType
  OBVIOUS
<1>2. \A i \in 1..Len(ns) : <<ns[i].by, ns[i].chunk, ns[i].do>> \in LogType
  BY <1>1 DEF NoteType, LogType
<1>3. Log(ns) = [i \in 1..Len(ns) |-> <<ns[i].by, ns[i].chunk, ns[i].do>>]
  BY <1>1 DEF Log
<1>4. QED
  BY <1>1, <1>2, <1>3

\* The log of one more note.
LEMMA LogAppend ==
  ASSUME NEW ns \in Seq(NoteType), NEW note \in NoteType
  PROVE  Log(Append(ns, note)) = Append(Log(ns), <<note.by, note.chunk, note.do>>)
<1>1. PICK q, x : q = Append(ns, note) /\ x = <<note.by, note.chunk, note.do>>
  OBVIOUS
<1>2. q \in Seq(NoteType) /\ Len(q) = Len(ns) + 1 /\ q[Len(ns) + 1] = note /\ \A i \in 1..Len(ns) : q[i] = ns[i]
  BY <1>1, AppendFacts
<1>3. x \in LogType
  BY <1>1 DEF NoteType, LogType
<1>4. /\ Log(q) \in Seq(LogType) /\ Len(Log(q)) = Len(q)
      /\ \A i \in 1..Len(q) : Log(q)[i] = <<q[i].by, q[i].chunk, q[i].do>>
  BY <1>2, LogFacts
<1>5. /\ Log(ns) \in Seq(LogType) /\ Len(Log(ns)) = Len(ns)
      /\ \A i \in 1..Len(ns) : Log(ns)[i] = <<ns[i].by, ns[i].chunk, ns[i].do>>
  BY LogFacts
<1>6. PICK l, m, r : l = Log(ns) /\ m = Log(q) /\ r = Append(l, x)
  OBVIOUS
<1>7. r \in Seq(LogType) /\ Len(r) = Len(l) + 1 /\ r[Len(l) + 1] = x /\ \A i \in 1..Len(l) : r[i] = l[i]
  BY <1>3, <1>5, <1>6, AppendFacts
<1>8. Len(ns) \in Nat /\ \A i \in 1..(Len(ns) + 1) : i \in 1..Len(ns) \/ i = Len(ns) + 1
  OBVIOUS
<1>9. \A i \in 1..Len(q) : r[i] = m[i]
  <2>1. \A i \in 1..Len(ns) : r[i] = m[i]
    <3>1. ASSUME NEW i \in 1..Len(ns) PROVE r[i] = m[i]
      <4>1. i \in 1..Len(q) /\ q[i] = ns[i]
        BY <1>2, <1>8
      <4>2. m[i] = <<ns[i].by, ns[i].chunk, ns[i].do>> /\ r[i] = l[i]
        BY <1>4, <1>5, <1>6, <1>7, <4>1
      <4>3. QED
        BY <1>5, <1>6, <4>2
    <3>2. QED
      BY <3>1
  <2>2. r[Len(ns) + 1] = m[Len(ns) + 1]
    <3>1. Len(ns) + 1 \in 1..Len(q)
      BY <1>2, <1>8
    <3>2. QED
      BY <1>1, <1>2, <1>4, <1>5, <1>6, <1>7, <3>1
  <2>3. QED
    BY <1>2, <1>8, <2>1, <2>2
<1>10. r = m
  BY <1>2, <1>4, <1>5, <1>6, <1>7, <1>9, SeqEqual
<1>11. QED
  BY <1>1, <1>6, <1>10

LEMMA WrittenType ==
  ASSUME NEW log \in Seq(LogType), NEW k, NEW S
  PROVE  Written(log, k, S) \in Seq(LogType) /\ Verbs(Written(log, k, S)) \in Seq(Verb)
<1>1. PICK w : w = Written(log, k, S)
  OBVIOUS
<1>2. w \in Seq(LogType)
  BY <1>1, FilterType DEF Written
<1>3. DOMAIN w = 1..Len(w) /\ Len(w) \in Nat /\ \A i \in 1..Len(w) : w[i][3] \in Verb
  BY <1>2 DEF LogType
<1>4. Verbs(w) = [i \in 1..Len(w) |-> w[i][3]]
  BY <1>3 DEF Verbs
<1>5. QED
  BY <1>1, <1>2, <1>3, <1>4

\* The chunks that matter are those in which the ingestion wrote.
LEMMA WrittenSame ==
  ASSUME NEW log \in Seq(LogType), NEW k, NEW S, NEW R,
         \A i \in DOMAIN log : log[i][1] = k => (log[i][2] \in S <=> log[i][2] \in R)
  PROVE  Written(log, k, S) = Written(log, k, R)
BY FilterSame DEF ToSet, LogType, Written

LEMMA WrittenNone ==
  ASSUME NEW log \in Seq(LogType), NEW k, NEW S,
         \A i \in DOMAIN log : log[i][1] = k => log[i][2] \notin S
  PROVE  Written(log, k, S) = <<>>
BY FilterNone DEF ToSet, Written

\* One more note.
LEMMA WrittenAppend ==
  ASSUME NEW log \in Seq(LogType), NEW x \in LogType, NEW k, NEW S
  PROVE  Written(Append(log, x), k, S) =
           IF x[1] = k /\ x[2] \in S THEN Append(Written(log, k, S), x) ELSE Written(log, k, S)
BY FilterAppend DEF LogType, Verb, Written

LEMMA VerbsAppend ==
  ASSUME NEW w \in Seq(LogType), NEW x \in LogType
  PROVE  Verbs(Append(w, x)) = Append(Verbs(w), x[3])
<1>1. PICK r, do : r = Append(w, x) /\ do = x[3]
  OBVIOUS
<1>2. r \in Seq(LogType) /\ Len(r) = Len(w) + 1 /\ r[Len(w) + 1] = x /\ \A i \in 1..Len(w) : r[i] = w[i]
  BY <1>1, AppendFacts
<1>3. do \in Verb
  BY <1>1 DEF LogType
<1>4. Verbs(w) \in Seq(Verb) /\ Len(Verbs(w)) = Len(w) /\ \A i \in 1..Len(w) : Verbs(w)[i] = w[i][3]
  BY DEF LogType, Verbs
<1>5. PICK v, u : v = Verbs(w) /\ u = Append(v, do)
  OBVIOUS
<1>6. u \in Seq(Verb) /\ Len(u) = Len(v) + 1 /\ u[Len(v) + 1] = do /\ \A i \in 1..Len(v) : u[i] = v[i]
  BY <1>3, <1>4, <1>5, AppendFacts
<1>7. Verbs(r) = [i \in 1..(Len(w) + 1) |-> r[i][3]] /\ Len(w) \in Nat
  BY <1>2 DEF Verbs
<1>8. \A i \in 1..(Len(w) + 1) : i \in 1..Len(w) \/ i = Len(w) + 1
  BY <1>7
<1>9. \A i \in 1..(Len(w) + 1) : r[i][3] = u[i]
  BY <1>1, <1>2, <1>4, <1>5, <1>6, <1>8
<1>10. u = [i \in 1..(Len(w) + 1) |-> u[i]]
  <2>1. u \in Seq(Verb) /\ Len(u) = Len(w) + 1
    BY <1>4, <1>5, <1>6
  <2>2. QED
    BY <2>1
<1>11. QED
  BY <1>1, <1>5, <1>7, <1>9, <1>10

\* What is reported when the next chunk begins.
LEMMA NextReports ==
  ASSUME NEW log \in Seq(LogType), NEW k, NEW c \in Nat, NEW b,
         b.chunk = c + 1, b.at \notin Executing, b.mine = <<>>, b.told \in Seq(Verb),
         \A i \in DOMAIN log : log[i][1] = k => log[i][2] > 0 /\ log[i][2] <= c,
         \A d \in b.failed : d \in Nat /\ d <= c,
         b.told = Verbs(Written(log, k, Nat \ b.failed)),
         \A d \in Nat : Len(Written(log, k, {d})) <= MaxUpdates
  PROVE  Reports(b, log, k)
<1>1. \A i \in DOMAIN log : log[i][2] \in Nat
  BY DEF LogType
<1>2. \A i \in DOMAIN log : log[i][1] = k => log[i][2] > 0 /\ log[i][2] < b.chunk
  BY <1>1
<1>3. Written(log, k, Nat \ b.failed) = Written(log, k, Nat \ (b.failed \cup {b.chunk}))
  <2>1. PICK S, R : S = Nat \ b.failed /\ R = Nat \ (b.failed \cup {b.chunk})
    OBVIOUS
  <2>2. \A i \in DOMAIN log : log[i][1] = k => (log[i][2] \in S <=> log[i][2] \in R)
    BY <1>1, <1>2, <2>1
  <2>3. Written(log, k, S) = Written(log, k, R)
    BY <2>2, WrittenSame
  <2>4. QED
    BY <2>1, <2>3
<1>4. b.told \o b.mine = b.told
  BY ConcatEmptySeq
<1>5. \A d \in b.failed : d < b.chunk
  OBVIOUS
<1>6. b.at \notin {"resolve", "write"}
  BY DEF Executing
<1>7. QED
  BY <1>2, <1>3, <1>4, <1>5, <1>6 DEF Reports

-----------------------------------------------------------------------------
\* The steps of an ingestion.

\* A step of one of them.
LEMMA CompileFrame ==
  ASSUME CompileInv, NEW k \in Compiles, NEW c \in BatchType, batch' = [batch EXCEPT ![k] = c],
         tried' \in [Compiles -> Seq(Seq(Nat))], \A h \in Compiles \ {k} : tried'[h] = tried[h],
         UNCHANGED <<means, order>>, wrote' \in Seq(NoteType),
         Shows(c, tried'[k]), Reports(c, Log(wrote'), k), Resolves(c, means),
         \A h \in Compiles \ {k} : Reports(batch[h], Log(wrote'), h),
         \A i \in DOMAIN wrote' : NoteFits(wrote'[i], means)
  PROVE  CompileInv'
BY DEF CompileInv, CompileTyped

\* One that writes nothing.
LEMMA QuietFrame ==
  ASSUME CompileInv, NEW k \in Compiles, NEW c \in BatchType, batch' = [batch EXCEPT ![k] = c],
         tried' \in [Compiles -> Seq(Seq(Nat))], \A h \in Compiles \ {k} : tried'[h] = tried[h],
         UNCHANGED <<means, order, wrote>>,
         Shows(c, tried'[k]), Reports(c, Log(wrote), k), Resolves(c, means)
  PROVE  CompileInv'
BY CompileFrame DEF CompileInv, CompileTyped

\* A chunk is at hand.
AtHand(b) ==
  LET chunks == Chunked(b.import.items, b.budget) IN
  /\ b.import \in Import /\ b.import.items # <<>> /\ b.budget = Budget(b.import)
  /\ b.chunk \in 1..Len(chunks) /\ b.left = SubSeq(chunks, b.chunk, Len(chunks))

LEMMA HandFacts ==
  ASSUME NEW b \in BatchType, AtHand(b)
  PROVE  LET chunks == Chunked(b.import.items, b.budget) IN
         /\ chunks \in Seq(Seq(Nat)) /\ chunks # <<>> /\ Within(chunks, b.budget)
         /\ FlattenSeq(chunks) = SizesOf(b.import.items, b.budget)
         /\ \A ends \in Cuts(SizesOf(b.import.items, b.budget), b.budget) : Len(chunks) <= Cardinality(ends)
         /\ Head(b.left) = chunks[b.chunk] /\ Len(b.left) = Len(chunks) - b.chunk + 1
         /\ Tail(b.left) = SubSeq(chunks, b.chunk + 1, Len(chunks))
<1>1. PICK items, limit : items = b.import.items /\ limit = b.budget
  OBVIOUS
<1>2. items \in Seq(Nat) /\ items # <<>> /\ limit \in Nat /\ Reserve <= limit
  BY <1>1, BudgetFacts DEF AtHand, Import
<1>3. PICK chunks : chunks = Chunked(items, limit)
  OBVIOUS
<1>4. /\ chunks \in Seq(Seq(Nat)) /\ chunks # <<>> /\ Within(chunks, limit)
      /\ FlattenSeq(chunks) = SizesOf(items, limit)
      /\ \A ends \in Cuts(SizesOf(items, limit), limit) : Len(chunks) <= Cardinality(ends)
  BY <1>2, <1>3, ChunkedFacts
<1>5. PICK S, c, n : S = Seq(Nat) /\ c = b.chunk /\ n = Len(chunks)
  OBVIOUS
<1>6. c \in 1..n /\ n \in Nat /\ chunks \in Seq(S) /\ b.left = SubSeq(chunks, c, n)
  BY <1>1, <1>3, <1>4, <1>5 DEF AtHand
<1>7. /\ Head(SubSeq(chunks, c, n)) = chunks[c] /\ Len(SubSeq(chunks, c, n)) = n - c + 1
      /\ Tail(SubSeq(chunks, c, n)) = SubSeq(chunks, c + 1, n)
  <2>1. PICK l : l = SubSeq(chunks, c, n)
    OBVIOUS
  <2>2. l \in Seq(S) /\ Len(l) = n - c + 1 /\ \A i \in 1..(n - c + 1) : l[i] = chunks[c + i - 1]
    <3>1. PICK m : m = c - 1
      OBVIOUS
    <3>2. m \in 0..Len(chunks) /\ m + 1 = c /\ n = Len(chunks) /\ Len(chunks) \in Nat
      BY <1>5, <1>6, <3>1
    <3>3. PICK w : w = SubSeq(chunks, m + 1, Len(chunks))
      OBVIOUS
    <3>4. w \in Seq(S) /\ Len(w) = Len(chunks) - m /\ \A i \in 1..(Len(chunks) - m) : w[i] = chunks[i + m]
      BY <1>6, <3>2, <3>3, CutLemma
    <3>5. w = l
      BY <2>1, <3>2, <3>3
    <3>6. \A i \in 1..(n - c + 1) : i \in 1..(Len(chunks) - m) /\ i + m = c + i - 1
      BY <3>2
    <3>7. Len(chunks) - m = n - c + 1
      BY <3>2
    <3>8. QED
      BY <3>4, <3>5, <3>6, <3>7
  <2>3. PICK r : r = SubSeq(chunks, c + 1, n)
    OBVIOUS
  <2>4. r \in Seq(S) /\ Len(r) = n - c /\ \A i \in 1..(n - c) : r[i] = chunks[c + i]
    <3>1. c \in 0..Len(chunks) /\ n = Len(chunks)
      BY <1>5, <1>6
    <3>2. PICK w : w = SubSeq(chunks, c + 1, Len(chunks))
      OBVIOUS
    <3>3. w \in Seq(S) /\ Len(w) = Len(chunks) - c /\ \A i \in 1..(Len(chunks) - c) : w[i] = chunks[i + c]
      BY <1>6, <3>1, <3>2, CutLemma
    <3>4. \A i \in 1..(n - c) : i + c = c + i
      BY <1>6
    <3>5. QED
      BY <2>3, <3>1, <3>2, <3>3, <3>4
  <2>5. Head(l) = chunks[c] /\ l # <<>>
    BY <1>6, <2>2
  <2>6. Tail(l) \in Seq(S) /\ Len(Tail(l)) = n - c /\ \A i \in 1..(n - c) : Tail(l)[i] = l[i + 1]
    BY <1>6, <2>2, <2>5, HeadTailProperties
  <2>7. \A i \in 1..(n - c) : Tail(l)[i] = r[i]
    <3>1. \A i \in 1..(n - c) : i + 1 \in 1..(n - c + 1) /\ c + (i + 1) - 1 = c + i
      BY <1>6
    <3>2. QED
      BY <2>2, <2>4, <2>6, <3>1
  <2>8. Tail(l) = r
    BY <2>4, <2>6, <2>7, SeqEqual
  <2>9. QED
    BY <2>1, <2>2, <2>3, <2>5, <2>8
<1>8. QED
  BY <1>1, <1>3, <1>4, <1>5, <1>6, <1>7

\* Where an ingestion is under way, one is.
LEMMA HandLemma ==
  ASSUME NEW b \in BatchType, NEW t, Shows(b, t), b.at \notin {"idle", "done"}
  PROVE  AtHand(b) /\ ShownTo(t, Chunked(b.import.items, b.budget), b.chunk, b.failed, b.at \in Executing)
BY BudgetFacts, ChunkedFacts DEF Shows, Import, AtHand

\* One that stays with the chunk shows what it did.
LEMMA StayShows ==
  ASSUME NEW b \in BatchType, NEW t, AtHand(b), b.at \notin {"idle", "done"},
         ShownTo(t, Chunked(b.import.items, b.budget), b.chunk, b.failed, b.at \in Executing)
  PROVE  Shows(b, t)
BY HandFacts DEF AtHand, Shows

LEMMA NextChunkFields ==
  ASSUME NEW b \in BatchType
  PROVE  LET c == NextChunk(b) IN
         /\ c.import = b.import /\ c.budget = b.budget /\ c.told = b.told /\ c.failed = b.failed
         /\ c.at = IF Len(b.left) = 1 THEN "done" ELSE "related"
         /\ c.left = Tail(b.left) /\ c.chunk = b.chunk + 1 /\ c.mine = <<>>
         /\ b.left # <<>> => c \in BatchType
<1>1. PICK c : c = NextChunk(b)
  OBVIOUS
<1>2. /\ c.import = b.import /\ c.budget = b.budget /\ c.told = b.told /\ c.failed = b.failed
      /\ c.at = IF Len(b.left) = 1 THEN "done" ELSE "related"
      /\ c.left = Tail(b.left) /\ c.chunk = b.chunk + 1 /\ c.mine = <<>>
  BY <1>1 DEF NextChunk, BatchType
<1>3. ASSUME b.left # <<>> PROVE c \in BatchType
  <2>1. Tail(b.left) \in Seq(Seq(Nat))
    BY <1>3 DEF BatchType
  <2>2. b.chunk + 1 \in Nat
    BY DEF BatchType
  <2>3. <<>> \in Seq(Entry) /\ <<>> \in Seq(Words) /\ <<>> \in Seq(Verb)
    OBVIOUS
  <2>4. QED
    BY <1>1, <2>1, <2>2, <2>3 DEF NextChunk, BatchType
<1>4. QED
  BY <1>1, <1>2, <1>3

LEMMA NextChunkShows ==
  ASSUME NEW b \in BatchType, AtHand(b), NEW t, NEW failed, NEW busy \in BOOLEAN,
         ShownTo(t, Chunked(b.import.items, b.budget), b.chunk, failed, busy),
         failed \subseteq b.failed, busy \/ b.chunk \in b.failed
  PROVE  NextChunk(b) \in BatchType /\ Shows(NextChunk(b), t)
<1>1. PICK chunks, c, n : chunks = Chunked(b.import.items, b.budget) /\ c = NextChunk(b) /\ n = Len(chunks)
  OBVIOUS
<1>2. /\ chunks \in Seq(Seq(Nat)) /\ Len(b.left) = n - b.chunk + 1
      /\ Tail(b.left) = SubSeq(chunks, b.chunk + 1, n)
  BY <1>1, HandFacts
<1>3. n \in Nat /\ b.chunk \in 1..n /\ DOMAIN chunks \subseteq Nat
  BY <1>1, <1>2 DEF AtHand
<1>4. Len(b.left) # 0 /\ b.left # <<>>
  BY <1>2, <1>3
<1>5. /\ c \in BatchType /\ c.import = b.import /\ c.budget = b.budget /\ c.failed = b.failed
      /\ c.at = (IF Len(b.left) = 1 THEN "done" ELSE "related")
      /\ c.left = Tail(b.left) /\ c.chunk = b.chunk + 1
  BY <1>1, <1>4, NextChunkFields
<1>6. ShownTo(t, chunks, b.chunk + 1, b.failed, FALSE)
  <2>1. PICK d, gone : d = b.chunk /\ gone = b.failed
    OBVIOUS
  <2>2. d \in Nat /\ failed \subseteq gone /\ (busy \/ d \in gone) /\ ShownTo(t, chunks, d, failed, busy)
    BY <1>1, <1>3, <2>1
  <2>3. ShownTo(t, chunks, d + 1, gone, FALSE)
    BY <1>3, <2>2, NextShows
  <2>4. QED
    BY <2>1, <2>3
<1>7. /\ c.at # "idle" /\ c.at \notin Executing /\ (c.at = "done" <=> c.chunk = n + 1)
      /\ c.chunk \in 1..(n + 1)
  BY <1>2, <1>3, <1>5 DEF Executing
<1>8. ShownTo(t, chunks, c.chunk, c.failed, c.at \in Executing)
  <2>1. (c.at \in Executing) = FALSE
    BY <1>7
  <2>2. QED
    BY <1>5, <1>6, <2>1
<1>9. QED
  BY <1>1, <1>2, <1>5, <1>7, <1>8 DEF Shows, AtHand

\* A note that another ingestion writes.
LEMMA OthersReport ==
  ASSUME NEW log \in Seq(LogType), NEW b, NEW h, Reports(b, log, h),
         NEW k \in Compiles, k # h, NEW c \in Nat, NEW do \in Verb
  PROVE  Reports(b, Append(log, <<k, c, do>>), h)
<1>2. PICK x, r : x = <<k, c, do>> /\ r = Append(log, x)
  OBVIOUS
<1>2a. x \in LogType /\ x[1] = k
  BY <1>2 DEF LogType
<1>1. \A S : Written(r, h, S) = Written(log, h, S)
  BY <1>2, <1>2a, WrittenAppend
<1>3. DOMAIN r = 1..(Len(log) + 1) /\ r[Len(log) + 1] = x /\ \A i \in 1..Len(log) : r[i] = log[i]
  BY <1>2, <1>2a
<1>4. ASSUME NEW i \in DOMAIN r, r[i][1] = h
      PROVE  r[i][2] > 0 /\ (r[i][2] < b.chunk \/ (r[i][2] = b.chunk /\ b.at \in Executing))
  BY <1>3, <1>2a, <1>4 DEF Reports
<1>5. QED
  BY <1>1, <1>2, <1>4 DEF Reports

LEMMA CompileBegins == CompileInit => CompileInv
<1> SUFFICES ASSUME CompileInit PROVE CompileInv
  OBVIOUS
<1>1. order \in Order1 /\ order.means = means /\ means \in [Words -> Words \cup {Unknown, Barred}]
      /\ \A w \in Words : means[w] \in Words => means[means[w]] = means[w]
  BY CompileAssumption DEF CompileInit, Order1
<1>2. Unbegun \in BatchType
  BY DEF Unbegun, BatchType
<1>3. wrote = <<>> /\ (\A k \in Compiles : batch[k] = Unbegun /\ tried[k] = <<>>)
  BY DEF CompileInit
<1>4. CompileTyped
  BY <1>1, <1>2 DEF CompileInit, CompileTyped
<1>5. Log(wrote) = <<>>
  BY <1>3 DEF Log
<1>6. \A k, S : Written(<<>>, k, S) = <<>>
  BY FilterNothing DEF Written
<1>7. Verbs(<<>>) = <<>>
  BY DEF Verbs
<1>8. ASSUME NEW k \in Compiles
      PROVE  Shows(Unbegun, <<>>) /\ Reports(Unbegun, <<>>, k) /\ Resolves(Unbegun, means)
  BY CompileAssumption, <1>6, <1>7 DEF Shows, Unbegun, Reports, Executing, Resolves
<1>9. \A i \in DOMAIN wrote : NoteFits(wrote[i], means)
  BY <1>3
<1>10. QED
  BY <1>3, <1>4, <1>5, <1>8, <1>9 DEF CompileInv

LEMMA CompileBatchLemma ==
  ASSUME CompileInv, NEW k \in Compiles, CompileBatch(k)
  PROVE  CompileInv'
<1>1. PICK import : import = order.imports[k]
  OBVIOUS
<1>2. CompileTyped /\ import \in Import /\ import.items # <<>>
  BY <1>1 DEF CompileInv, CompileTyped, Order1, CompileBatch
<1>3. PICK limit, chunks : limit = Budget(import) /\ chunks = Chunked(import.items, limit)
  OBVIOUS
<1>4. limit \in Nat /\ chunks \in Seq(Seq(Nat)) /\ chunks # <<>>
  BY <1>2, <1>3, BudgetFacts, ChunkedFacts DEF Import
<1>5. PICK c : c = [Unbegun EXCEPT !.at = "related", !.import = import, !.budget = limit,
                                   !.left = chunks, !.chunk = 1]
  OBVIOUS
<1>6. c = [at |-> "related", import |-> import, budget |-> limit, left |-> chunks, chunk |-> 1,
           plan |-> <<>>, raw |-> <<>>, kept |-> <<>>, crossed |-> FALSE, lost |-> {},
           mine |-> <<>>, told |-> <<>>, failed |-> {}]
  BY <1>5 DEF Unbegun
<1>7. c \in BatchType
  BY <1>2, <1>4, <1>6 DEF BatchType
<1>8. batch' = [batch EXCEPT ![k] = c] /\ UNCHANGED <<means, wrote, tried, order>>
  BY <1>1, <1>3, <1>5 DEF CompileBatch, Batch
<1>9. batch[k] = Unbegun /\ tried[k] = <<>>
  BY DEF CompileInv, CompileBatch, In, Shows
<1>10. Shows(c, tried'[k])
  <2>1. Len(chunks) \in Nat /\ Len(chunks) # 0
    BY <1>4, EmptySeq
  <2>2. SubSeq(chunks, 1, Len(chunks)) = chunks
    BY <1>4
  <2>3. AtHand(c)
    BY <1>2, <1>3, <1>6, <2>1, <2>2 DEF AtHand
  <2>4. ShownTo(<<>>, chunks, 1, {}, FALSE)
    <3>1. PICK p : p = [i \in {} |-> 1]
      OBVIOUS
    <3>2. DOMAIN p = {} /\ p \in [{} -> DOMAIN chunks] /\ 1..(1 - 1) = {}
      BY <3>1
    <3>3. DOMAIN <<>> = {} /\ <<>> = [i \in {} |-> chunks[p[i]]]
      OBVIOUS
    <3>4. QED
      BY <3>2, <3>3 DEF ShownTo
  <2>5. c.at \notin Executing /\ c.at \notin {"idle", "done"}
    BY <1>6 DEF Executing
  <2>6. ShownTo(tried'[k], Chunked(c.import.items, c.budget), c.chunk, c.failed, c.at \in Executing)
    <3>1. (c.at \in Executing) = FALSE
      BY <2>5
    <3>2. tried'[k] = <<>> /\ Chunked(c.import.items, c.budget) = chunks /\ c.chunk = 1 /\ c.failed = {}
      BY <1>3, <1>6, <1>8, <1>9
    <3>3. QED
      BY <2>4, <3>1, <3>2
  <2>7. QED
    BY <1>7, <2>3, <2>5, <2>6, StayShows
<1>11. Reports(c, Log(wrote), k)
  <2>1. Log(wrote) \in Seq(LogType)
    BY <1>2, LogFacts DEF CompileTyped
  <2>2. \A i \in DOMAIN Log(wrote) : Log(wrote)[i][2] \in Nat
    BY <2>1 DEF LogType
  <2>3. Reports(Unbegun, Log(wrote), k)
    BY <1>9 DEF CompileInv
  <2>4. \A i \in DOMAIN Log(wrote) : Log(wrote)[i][1] # k
    BY <2>2, <2>3 DEF Reports, Unbegun, Executing
  <2>5. \A S : Written(Log(wrote), k, S) = <<>>
    BY <2>1, <2>4, WrittenNone
  <2>6. MaxUpdates \in Nat /\ Len(<<>>) = 0 /\ <<>> \o <<>> = <<>> /\ Verbs(<<>>) = <<>>
    BY CompileAssumption DEF Verbs
  <2>7. QED
    BY <1>6, <2>4, <2>5, <2>6 DEF Reports, Executing
<1>12. Resolves(c, means)
  BY <1>6 DEF Resolves
<1>13. tried' \in [Compiles -> Seq(Seq(Nat))] /\ \A h \in Compiles \ {k} : tried'[h] = tried[h]
  BY <1>2, <1>8 DEF CompileTyped
<1>14. QED
  BY <1>7, <1>8, <1>10, <1>11, <1>12, <1>13, QuietFrame

\* What is known of an ingestion that is under way.
LEMMA UnderWay ==
  ASSUME CompileInv, NEW k \in Compiles, batch[k].at \notin {"idle", "done"}
  PROVE  /\ CompileTyped /\ batch[k] \in BatchType /\ tried[k] \in Seq(Seq(Nat))
         /\ Log(wrote) \in Seq(LogType) /\ AtHand(batch[k])
         /\ ShownTo(tried[k], Chunked(batch[k].import.items, batch[k].budget), batch[k].chunk,
                    batch[k].failed, batch[k].at \in Executing)
         /\ Reports(batch[k], Log(wrote), k) /\ Resolves(batch[k], means)
         /\ \A i \in DOMAIN Log(wrote) : Log(wrote)[i][2] \in Nat
BY LogFacts, HandLemma DEF CompileInv, CompileTyped, LogType

\* A chunk that raises, when it was shown what t says and wrote what the log says.
LEMMA FailsLemma ==
  ASSUME CompileInv, NEW k \in Compiles, batch[k].at \notin {"idle", "done"}, Fails1(k),
         UNCHANGED <<means, order>>,
         \/ tried' = tried
         \/ /\ batch[k].at = "plan"
            /\ tried' = [tried EXCEPT ![k] = Append(@, Head(batch[k].left))],
         \/ wrote' = wrote
         \/ \E note \in NoteType :
              /\ wrote' = Append(wrote, note) /\ NoteFits(note, means)
              /\ note.by = k /\ note.chunk = batch[k].chunk
              /\ Len(Written(Log(wrote), k, {batch[k].chunk})) < MaxUpdates /\ batch[k].at \in Executing
  PROVE  CompileInv'
<1>1. PICK b : b = batch[k]
  OBVIOUS
<1>2. PICK chunks : chunks = Chunked(b.import.items, b.budget)
  OBVIOUS
<1>3. /\ CompileTyped /\ b \in BatchType /\ tried[k] \in Seq(Seq(Nat)) /\ Log(wrote) \in Seq(LogType)
      /\ AtHand(b) /\ ShownTo(tried[k], chunks, b.chunk, b.failed, b.at \in Executing)
      /\ Reports(b, Log(wrote), k) /\ \A i \in DOMAIN Log(wrote) : Log(wrote)[i][2] \in Nat
  BY <1>1, <1>2, UnderWay
<1>4. PICK e : e = [b EXCEPT !.failed = @ \cup {b.chunk}]
  OBVIOUS
<1>5. /\ b.chunk \in Nat /\ b.failed \subseteq Nat /\ b.told \in Seq(Verb) /\ b.mine \in Seq(Verb)
      /\ b.plan \in Seq(Entry)
  BY <1>3 DEF BatchType
<1>6. e \in BatchType /\ e.failed = b.failed \cup {b.chunk} /\ e.import = b.import /\ e.budget = b.budget
      /\ e.left = b.left /\ e.chunk = b.chunk /\ e.told = b.told
  BY <1>3, <1>4, <1>5 DEF BatchType
<1>7. PICK c : c = NextChunk(e)
  OBVIOUS
<1>8. batch' = [batch EXCEPT ![k] = c]
  BY <1>1, <1>4, <1>7 DEF Fails1, Batch
<1>9. AtHand(e)
  BY <1>3, <1>6 DEF AtHand
<1>10. PICK t : t = tried'[k]
  OBVIOUS
<1>11. \E busy \in BOOLEAN : ShownTo(t, chunks, b.chunk, b.failed, busy)
  <2>1. CASE tried' = tried
    <3>1. (b.at \in Executing) \in BOOLEAN
      OBVIOUS
    <3>2. ShownTo(t, chunks, b.chunk, b.failed, b.at \in Executing)
      BY <1>3, <1>10, <2>1
    <3>3. QED
      BY <3>1, <3>2
  <2>2. CASE b.at = "plan" /\ tried' = [tried EXCEPT ![k] = Append(@, Head(b.left))]
    <3>1. Head(b.left) = chunks[b.chunk] /\ chunks \in Seq(Seq(Nat)) /\ b.chunk \in DOMAIN chunks
      <4>1. Head(b.left) = chunks[b.chunk] /\ chunks \in Seq(Seq(Nat))
        BY <1>2, <1>3, HandFacts
      <4>2. b.chunk \in 1..Len(chunks)
        BY <1>2, <1>3 DEF AtHand
      <4>3. QED
        BY <4>1, <4>2
    <3>2. t = Append(tried[k], chunks[b.chunk])
      BY <1>3, <1>10, <2>2, <3>1 DEF CompileTyped
    <3>3. (b.at \in Executing) = FALSE
      BY <2>2 DEF Executing
    <3>4. ShownTo(t, chunks, b.chunk, b.failed, TRUE)
      BY <1>3, <3>1, <3>2, <3>3, AskShows
    <3>5. QED
      BY <3>4
  <2>3. QED
    BY <1>1, <2>1, <2>2
<1>12. c \in BatchType /\ Shows(c, t)
  BY <1>11, <1>2, <1>6, <1>7, <1>9, NextChunkShows
<1>13. /\ c.chunk = b.chunk + 1 /\ c.told = b.told /\ c.failed = b.failed \cup {b.chunk} /\ c.mine = <<>>
       /\ c.at \in {"done", "related"}
  BY <1>6, <1>7, NextChunkFields
<1>14. tried' \in [Compiles -> Seq(Seq(Nat))] /\ \A h \in Compiles \ {k} : tried'[h] = tried[h]
  <2>1. Head(b.left) \in Seq(Nat)
    <3>1. chunks \in Seq(Seq(Nat)) /\ Head(b.left) = chunks[b.chunk] /\ b.chunk \in 1..Len(chunks)
      BY <1>2, <1>3, HandFacts DEF AtHand
    <3>2. QED
      BY <3>1
  <2>2. Append(tried[k], Head(b.left)) \in Seq(Seq(Nat))
    BY <1>3, <2>1
  <2>3. QED
    BY <1>1, <1>3, <2>2 DEF CompileTyped
<1>15. \A h \in Compiles \ {k} : Reports(batch[h], Log(wrote), h)
  BY DEF CompileInv
<1>16. c.at \notin Executing /\ Resolves(c, means)
  BY <1>13 DEF Resolves, Executing
<1>17. \A d \in c.failed : d \in Nat /\ d <= b.chunk
  BY <1>3, <1>5, <1>13 DEF Reports
<1>18. b.told = Verbs(Written(Log(wrote), k, Nat \ c.failed))
       /\ (\A d \in Nat : Len(Written(Log(wrote), k, {d})) <= MaxUpdates)
       /\ \A i \in DOMAIN Log(wrote) : Log(wrote)[i][1] = k => Log(wrote)[i][2] > 0 /\ Log(wrote)[i][2] <= b.chunk
  BY <1>3, <1>5, <1>13 DEF Reports
<1>19. CASE wrote' = wrote
  <2>1. Reports(c, Log(wrote), k)
    BY <1>3, <1>5, <1>13, <1>16, <1>17, <1>18, NextReports
  <2>2. QED
    BY <1>8, <1>10, <1>12, <1>14, <1>16, <1>19, <2>1, QuietFrame
<1>20. ASSUME NEW note \in NoteType, wrote' = Append(wrote, note), NoteFits(note, means),
              note.by = k, note.chunk = b.chunk, Len(Written(Log(wrote), k, {b.chunk})) < MaxUpdates
       PROVE  CompileInv'
  <2>1. wrote \in Seq(NoteType)
    BY <1>3 DEF CompileTyped
  <2>2. /\ wrote' \in Seq(NoteType) /\ Len(wrote') = Len(wrote) + 1 /\ wrote'[Len(wrote) + 1] = note
        /\ \A i \in 1..Len(wrote) : wrote'[i] = wrote[i]
    BY <1>20, <2>1, AppendFacts
  <2>3. PICK x, do : do = note.do /\ x = <<k, b.chunk, do>>
    OBVIOUS
  <2>4. do \in Verb /\ x \in LogType /\ x[1] = k /\ x[2] = b.chunk
    BY <1>5, <1>20, <2>3 DEF NoteType, LogType
  <2>5. Log(wrote') = Append(Log(wrote), x)
    BY <1>20, <2>1, <2>3, LogAppend
  <2>6. PICK log : log = Append(Log(wrote), x)
    OBVIOUS
  <2>7. /\ log \in Seq(LogType) /\ Len(log) = Len(Log(wrote)) + 1 /\ log[Len(Log(wrote)) + 1] = x
        /\ \A i \in 1..Len(Log(wrote)) : log[i] = Log(wrote)[i]
    BY <1>3, <2>4, <2>6, AppendFacts
  <2>8. \A i \in DOMAIN log : log[i][1] = k => log[i][2] > 0 /\ log[i][2] <= b.chunk
    <3>1. b.chunk > 0
      BY <1>3 DEF AtHand
    <3>2. DOMAIN log = 1..(Len(Log(wrote)) + 1) /\ DOMAIN Log(wrote) = 1..Len(Log(wrote)) /\ Len(Log(wrote)) \in Nat
      BY <1>3, <2>7
    <3>3. \A i \in 1..(Len(Log(wrote)) + 1) : i \in 1..Len(Log(wrote)) \/ i = Len(Log(wrote)) + 1
      BY <3>2
    <3>4. x[2] = b.chunk
      BY <2>3
    <3>5. QED
      BY <1>5, <1>18, <2>7, <3>1, <3>2, <3>3, <3>4
  <2>9. Written(log, k, Nat \ c.failed) = Written(Log(wrote), k, Nat \ c.failed)
    BY <1>13, <1>3, <2>4, <2>6, WrittenAppend
  <2>10. ASSUME NEW d \in Nat PROVE Len(Written(log, k, {d})) <= MaxUpdates
    <3>1. CASE d = b.chunk
      <4>1. PICK w : w = Written(Log(wrote), k, {d})
        OBVIOUS
      <4>2. w \in Seq(LogType)
        BY <1>3, <4>1, WrittenType
      <4>3. Written(log, k, {d}) = Append(w, x)
        BY <1>3, <2>4, <2>6, <3>1, <4>1, WrittenAppend
      <4>4. Len(Append(w, x)) = Len(w) + 1 /\ Len(w) \in Nat /\ MaxUpdates \in Nat
        BY <2>4, <4>2, CompileAssumption
      <4>5. QED
        BY <1>20, <3>1, <4>1, <4>3, <4>4
    <3>2. CASE d # b.chunk
      BY <1>3, <2>4, <2>6, <3>2, WrittenAppend, <1>18
    <3>3. QED
      BY <3>1, <3>2
  <2>11. Reports(c, log, k)
    <3>1. c.told = Verbs(Written(log, k, Nat \ c.failed)) /\ c.told \in Seq(Verb)
      BY <1>5, <1>13, <1>18, <2>9
    <3>2. QED
      BY <1>5, <1>13, <1>16, <1>17, <2>7, <2>8, <2>10, <3>1, NextReports
  <2>12. \A h \in Compiles \ {k} : Reports(batch[h], Log(wrote'), h)
    BY <1>3, <1>5, <1>15, <2>3, <2>4, <2>5, OthersReport
  <2>13. \A i \in DOMAIN wrote' : NoteFits(wrote'[i], means)
    BY <2>1, <2>2, <1>20 DEF CompileInv
  <2>14. QED
    BY <1>8, <1>10, <1>12, <1>14, <1>16, <2>2, <2>5, <2>6, <2>11, <2>12, <2>13, CompileFrame
<1>21. QED
  BY <1>1, <1>19, <1>20

\* A step of an ingestion within its chunk, which writes nothing.
LEMMA StaysTrue ==
  ASSUME CompileInv, NEW k \in Compiles, NEW c \in BatchType, NEW t,
         batch[k].at \notin {"idle", "done"}, c.at \notin {"idle", "done"},
         batch[k].at \in Executing => c.at \in Executing,
         c.import = batch[k].import, c.budget = batch[k].budget, c.left = batch[k].left,
         c.chunk = batch[k].chunk, c.failed = batch[k].failed, c.told = batch[k].told,
         c.mine = batch[k].mine,
         c.at \in Executing => Len(Written(Log(wrote), k, {c.chunk})) + Len(c.plan) <= MaxUpdates,
         c.at \in {"resolve", "write"} => c.plan # <<>> /\ Head(c.plan).do \in Verb,
         ShownTo(t, Chunked(c.import.items, c.budget), c.chunk, c.failed, c.at \in Executing)
  PROVE  Shows(c, t) /\ Reports(c, Log(wrote), k)
BY UnderWay, StayShows DEF AtHand, Reports

LEMMA StaysLemma ==
  ASSUME CompileInv, NEW k \in Compiles, NEW c \in BatchType, batch' = [batch EXCEPT ![k] = c],
         batch[k].at \notin {"idle", "done"}, c.at \notin {"idle", "done"},
         batch[k].at \in Executing => c.at \in Executing,
         c.import = batch[k].import, c.budget = batch[k].budget, c.left = batch[k].left,
         c.chunk = batch[k].chunk, c.failed = batch[k].failed, c.told = batch[k].told,
         c.mine = batch[k].mine,
         c.at \in Executing => Len(Written(Log(wrote), k, {c.chunk})) + Len(c.plan) <= MaxUpdates,
         c.at \in {"resolve", "write"} => c.plan # <<>> /\ Head(c.plan).do \in Verb,
         tried' \in [Compiles -> Seq(Seq(Nat))], \A h \in Compiles \ {k} : tried'[h] = tried[h],
         ShownTo(tried'[k], Chunked(c.import.items, c.budget), c.chunk, c.failed, c.at \in Executing),
         UNCHANGED <<means, order, wrote>>, Resolves(c, means)
  PROVE  CompileInv'
BY StaysTrue, QuietFrame

LEMMA FindRelatedLemma ==
  ASSUME CompileInv, NEW k \in Compiles, FindRelated(k)
  PROVE  CompileInv'
<1>1. batch[k].at = "related" /\ UNCHANGED <<means, wrote, tried, order>>
  BY DEF FindRelated, In
<1>2. CASE Fails1(k)
  BY <1>1, <1>2, FailsLemma
<1>3. CASE Batch(k, [batch[k] EXCEPT !.at = "plan"])
  <2>1. PICK b, c : b = batch[k] /\ c = [b EXCEPT !.at = "plan"]
    OBVIOUS
  <2>2. b \in BatchType /\ tried \in [Compiles -> Seq(Seq(Nat))]
        /\ ShownTo(tried[k], Chunked(b.import.items, b.budget), b.chunk, b.failed, b.at \in Executing)
    BY <1>1, <2>1, UnderWay DEF CompileTyped
  <2>3. /\ c \in BatchType /\ c.at = "plan" /\ c.import = b.import /\ c.budget = b.budget /\ c.left = b.left
        /\ c.chunk = b.chunk /\ c.failed = b.failed /\ c.told = b.told /\ c.mine = b.mine
    BY <2>1, <2>2 DEF BatchType
  <2>4. (b.at \in Executing) = FALSE /\ (c.at \in Executing) = FALSE
    BY <1>1, <2>1, <2>3 DEF Executing
  <2>5. ShownTo(tried'[k], Chunked(c.import.items, c.budget), c.chunk, c.failed, c.at \in Executing)
    BY <1>1, <2>2, <2>3, <2>4
  <2>6. Resolves(c, means)
    BY <2>3 DEF Resolves
  <2>7. batch' = [batch EXCEPT ![k] = c]
    BY <1>3, <2>1 DEF Batch
  <2>8. QED
    BY <1>1, <2>1, <2>2, <2>3, <2>4, <2>5, <2>6, <2>7, StaysLemma
<1>4. QED
  BY <1>2, <1>3 DEF FindRelated

LEMMA PlanFailsLemma ==
  ASSUME CompileInv, NEW k \in Compiles, PlanFails(k)
  PROVE  CompileInv'
BY FailsLemma DEF PlanFails, In

LEMMA PlanLemma ==
  ASSUME CompileInv, NEW k \in Compiles, NEW text \in order.answers, PlanBatchUpdates(k, text)
  PROVE  CompileInv'
<1>1. PICK plan, log : plan = Parsed(text) /\ log = Log(wrote)
  OBVIOUS
<1>2. PICK b, n : b = batch[k] /\ n = IF Len(plan) < MaxUpdates THEN Len(plan) ELSE MaxUpdates
  OBVIOUS
<1>3. PICK c : c = [b EXCEPT !.at = "entry", !.plan = SubSeq(plan, 1, n)]
  OBVIOUS
<1>4. /\ batch[k].at = "plan" /\ batch' = [batch EXCEPT ![k] = c] /\ UNCHANGED <<means, wrote, order>>
      /\ tried' = [tried EXCEPT ![k] = Append(@, Head(b.left))]
  BY <1>1, <1>2, <1>3 DEF PlanBatchUpdates, In, Batch
<1>5. /\ CompileTyped /\ b \in BatchType /\ tried[k] \in Seq(Seq(Nat)) /\ log \in Seq(LogType) /\ AtHand(b)
      /\ ShownTo(tried[k], Chunked(b.import.items, b.budget), b.chunk, b.failed, b.at \in Executing)
      /\ Reports(b, log, k) /\ \A i \in DOMAIN log : log[i][2] \in Nat
  BY <1>1, <1>2, <1>4, UnderWay
<1>6. plan \in Seq(Entry)
  BY <1>5, <1>1 DEF CompileTyped, Order1, Text, Parsed
<1>7. n \in 0..Len(plan) /\ n <= MaxUpdates /\ MaxUpdates \in Nat
  BY <1>6, CompileAssumption, <1>2
<1>8. SubSeq(plan, 1, n) \in Seq(Entry) /\ Len(SubSeq(plan, 1, n)) = n
  BY <1>6, <1>7
<1>9. /\ c \in BatchType /\ c.at = "entry" /\ c.import = b.import /\ c.budget = b.budget /\ c.left = b.left
      /\ c.chunk = b.chunk /\ c.failed = b.failed /\ c.told = b.told /\ c.mine = b.mine
      /\ Len(c.plan) = n
  BY <1>3, <1>5, <1>8 DEF BatchType, Executing
<1>10. (b.at \in Executing) = FALSE /\ (c.at \in Executing) = TRUE
  BY <1>2, <1>4, <1>9 DEF Executing
<1>11. PICK chunks : chunks = Chunked(b.import.items, b.budget)
  OBVIOUS
<1>12. Head(b.left) = chunks[b.chunk] /\ chunks \in Seq(Seq(Nat)) /\ b.chunk \in DOMAIN chunks
  <2>1. Head(b.left) = chunks[b.chunk] /\ chunks \in Seq(Seq(Nat))
    BY <1>5, <1>11, HandFacts
  <2>2. b.chunk \in 1..Len(chunks)
    BY <1>5, <1>11 DEF AtHand
  <2>3. QED
    BY <2>1, <2>2
<1>13. tried'[k] = Append(tried[k], chunks[b.chunk]) /\ Append(tried[k], chunks[b.chunk]) \in Seq(Seq(Nat))
  BY <1>4, <1>5, <1>12 DEF CompileTyped
<1>14. ShownTo(tried'[k], Chunked(c.import.items, c.budget), c.chunk, c.failed, c.at \in Executing)
  <2>1. ShownTo(tried[k], chunks, b.chunk, b.failed, FALSE)
    BY <1>5, <1>10, <1>11
  <2>2. ShownTo(Append(tried[k], chunks[b.chunk]), chunks, b.chunk, b.failed, TRUE)
    BY <1>5, <1>12, <2>1, AskShows
  <2>3. QED
    BY <1>9, <1>10, <1>11, <1>13, <2>2
<1>15. Len(Written(log, k, {c.chunk})) + Len(c.plan) <= MaxUpdates
  <2>1. \A i \in DOMAIN log : log[i][1] = k => log[i][2] \notin {c.chunk}
    BY <1>5, <1>9, <1>10 DEF Reports
  <2>2. Written(log, k, {c.chunk}) = <<>>
    BY <1>5, <2>1, WrittenNone
  <2>3. Len(<<>>) = 0
    OBVIOUS
  <2>4. QED
    BY <1>7, <1>9, <2>2, <2>3
<1>16. tried' \in [Compiles -> Seq(Seq(Nat))] /\ \A h \in Compiles \ {k} : tried'[h] = tried[h]
  BY <1>4, <1>5, <1>12, <1>13 DEF CompileTyped
<1>17. c.at \notin {"idle", "done"} /\ c.at \notin {"resolve", "write"} /\ b.at \notin {"idle", "done"}
       /\ b.at \notin Executing /\ Resolves(c, means)
  BY <1>2, <1>4, <1>9, <1>10 DEF Resolves
<1>18. QED
  BY <1>1, <1>2, <1>4, <1>9, <1>14, <1>15, <1>16, <1>17, StaysLemma

LEMMA EndPlanLemma ==
  ASSUME CompileInv, NEW k \in Compiles, EndPlan(k)
  PROVE  CompileInv'
<1>1. PICK b, log : b = batch[k] /\ log = Log(wrote)
  OBVIOUS
<1>2. PICK e : e = [b EXCEPT !.told = @ \o b.mine]
  OBVIOUS
<1>3. PICK c : c = NextChunk(e)
  OBVIOUS
<1>4. b.at = "entry" /\ batch' = [batch EXCEPT ![k] = c] /\ UNCHANGED <<means, wrote, tried, order>>
  BY <1>1, <1>2, <1>3 DEF EndPlan, In, Batch
<1>5. /\ CompileTyped /\ b \in BatchType /\ log \in Seq(LogType) /\ AtHand(b)
      /\ ShownTo(tried[k], Chunked(b.import.items, b.budget), b.chunk, b.failed, b.at \in Executing)
      /\ Reports(b, log, k) /\ \A i \in DOMAIN log : log[i][2] \in Nat
  BY <1>1, <1>4, UnderWay
<1>6. b.told \in Seq(Verb) /\ b.mine \in Seq(Verb) /\ b.told \o b.mine \in Seq(Verb) /\ b.chunk \in Nat
      /\ b.failed \subseteq Nat
  BY <1>5 DEF BatchType
<1>7. /\ e \in BatchType /\ e.import = b.import /\ e.budget = b.budget /\ e.left = b.left
      /\ e.chunk = b.chunk /\ e.failed = b.failed /\ e.told = b.told \o b.mine
  BY <1>2, <1>5, <1>6 DEF BatchType
<1>8. AtHand(e)
  BY <1>5, <1>7 DEF AtHand
<1>9. (b.at \in Executing) = TRUE
  BY <1>4 DEF Executing
<1>10. c \in BatchType /\ Shows(c, tried[k])
  BY <1>5, <1>7, <1>9, <1>3, <1>8, NextChunkShows
<1>11. /\ c.chunk = b.chunk + 1 /\ c.told = b.told \o b.mine /\ c.failed = b.failed /\ c.mine = <<>>
       /\ c.at \in {"done", "related"}
  BY <1>3, <1>7, NextChunkFields
<1>12. c.at \notin Executing /\ Resolves(c, means)
  BY <1>11 DEF Resolves, Executing
<1>13. Reports(c, log, k)
  <2>1. \A d \in c.failed : d \in Nat /\ d <= b.chunk
    BY <1>5, <1>6, <1>11 DEF Reports
  <2>2. \A i \in DOMAIN log : log[i][1] = k => log[i][2] > 0 /\ log[i][2] <= b.chunk
    BY <1>5, <1>6 DEF Reports
  <2>3. c.told = Verbs(Written(log, k, Nat \ c.failed)) /\ c.told \in Seq(Verb)
        /\ \A d \in Nat : Len(Written(log, k, {d})) <= MaxUpdates
    BY <1>5, <1>6, <1>11 DEF Reports
  <2>4. QED
    BY <1>5, <1>6, <1>11, <1>12, <2>1, <2>2, <2>3, NextReports
<1>14. QED
  BY <1>1, <1>4, <1>5, <1>10, <1>12, <1>13, QuietFrame DEF CompileTyped

LEMMA TakeEntryLemma ==
  ASSUME CompileInv, NEW k \in Compiles, TakeEntry(k)
  PROVE  CompileInv'
<1>1. PICK b, log, e, tags : b = batch[k] /\ log = Log(wrote) /\ e = Entry1(k) /\ tags = CleanTags(e.tags)
  OBVIOUS
<1>2. PICK c : c = IF ~Valid1(e) THEN [b EXCEPT !.plan = Tail(@)]
                   ELSE IF b.import.wired
                   THEN [b EXCEPT !.at = "resolve", !.raw = tags, !.kept = <<>>, !.crossed = FALSE, !.lost = {}]
                   ELSE [b EXCEPT !.at = "write", !.kept = tags]
  OBVIOUS
<1>3. b.at = "entry" /\ b.plan # <<>> /\ batch' = [batch EXCEPT ![k] = c] /\ UNCHANGED <<means, wrote, tried, order>>
  BY <1>1, <1>2 DEF TakeEntry, In, Batch
<1>4. /\ CompileTyped /\ b \in BatchType /\ log \in Seq(LogType)
      /\ ShownTo(tried[k], Chunked(b.import.items, b.budget), b.chunk, b.failed, b.at \in Executing)
      /\ Reports(b, log, k)
  BY <1>1, <1>3, UnderWay
<1>5. b.plan \in Seq(Entry) /\ e = Head(b.plan)
  BY <1>1, <1>4 DEF BatchType, Entry1
<1>6. e \in Entry /\ Tail(b.plan) \in Seq(Entry) /\ Len(Tail(b.plan)) = Len(b.plan) - 1 /\ Len(b.plan) \in Nat
  BY <1>3, <1>5
<1>7. tags \in Seq(Words) /\ Len(tags) <= MaxTags /\ MaxTags \in Nat
  BY <1>6, <1>1, CleanTagsFacts, CompileAssumption DEF Entry
<1>8. /\ c \in BatchType /\ c.at \in Executing /\ c.import = b.import /\ c.budget = b.budget /\ c.left = b.left
      /\ c.chunk = b.chunk /\ c.failed = b.failed /\ c.told = b.told /\ c.mine = b.mine
      /\ c.plan \in {b.plan, Tail(b.plan)} /\ (c.at \in {"resolve", "write"} => c.plan = b.plan /\ Valid1(e))
  <2>1. <<>> \in Seq(Words)
    OBVIOUS
  <2>2. QED
    BY <1>2, <1>3, <1>4, <1>6, <1>7, <2>1 DEF BatchType, Executing
<1>9. (b.at \in Executing) = TRUE /\ (c.at \in Executing) = TRUE /\ b.at \notin {"idle", "done"}
      /\ c.at \notin {"idle", "done"}
  BY <1>3, <1>8 DEF Executing
<1>10. Len(Written(log, k, {c.chunk})) + Len(c.plan) <= MaxUpdates
  <2>1. Len(Written(log, k, {b.chunk})) + Len(b.plan) <= MaxUpdates
    BY <1>4, <1>9 DEF Reports
  <2>2. PICK w : w = Written(log, k, {b.chunk})
    OBVIOUS
  <2>3. w \in Seq(LogType) /\ MaxUpdates \in Nat
    BY <1>4, <2>2, WrittenType, CompileAssumption
  <2>4. Len(w) \in Nat /\ Len(c.plan) \in {Len(b.plan), Len(b.plan) - 1}
    BY <1>6, <1>8, <2>3
  <2>5. Len(w) + Len(c.plan) <= MaxUpdates
    BY <1>6, <2>1, <2>2, <2>3, <2>4
  <2>6. QED
    BY <1>8, <2>2, <2>5
<1>11. c.at \in {"resolve", "write"} => c.plan # <<>> /\ Head(c.plan).do \in Verb
  BY <1>6, <1>3, <1>5, <1>8 DEF Valid1, Entry, Verb
<1>12. ShownTo(tried'[k], Chunked(c.import.items, c.budget), c.chunk, c.failed, c.at \in Executing)
  BY <1>3, <1>4, <1>8, <1>9
<1>13. Resolves(c, means)
  <2>1. CASE ~Valid1(e)
    BY <1>2, <1>3, <1>4, <2>1 DEF BatchType, Resolves
  <2>2. CASE Valid1(e) /\ ~b.import.wired
    BY <1>2, <2>2 DEF Resolves
  <2>3. CASE Valid1(e) /\ b.import.wired
    BY <1>2, <1>4, <2>3, <1>1, <1>5, <1>7 DEF BatchType, TagsFit, IsInjective, Resolves
  <2>4. QED
    BY <2>1, <2>2, <2>3
<1>14. QED
  BY <1>1, <1>3, <1>4, <1>8, <1>9, <1>10, <1>11, <1>12, <1>13, StaysLemma DEF CompileTyped

LEMMA ResolvedLemma ==
  ASSUME CompileInv, NEW k \in Compiles, Resolved1(k)
  PROVE  CompileInv'
<1>1. PICK b, log : b = batch[k] /\ log = Log(wrote)
  OBVIOUS
<1>2. PICK c : c = [b EXCEPT !.at = "write"]
  OBVIOUS
<1>3. b.at = "resolve" /\ b.raw = <<>> /\ batch' = [batch EXCEPT ![k] = c] /\ UNCHANGED <<means, wrote, tried, order>>
  BY <1>1, <1>2 DEF Resolved1, In, Batch
<1>4. /\ CompileTyped /\ b \in BatchType /\ Resolves(b, means)
      /\ ShownTo(tried[k], Chunked(b.import.items, b.budget), b.chunk, b.failed, b.at \in Executing)
      /\ Reports(b, log, k)
  BY <1>1, <1>3, UnderWay
<1>5. /\ c \in BatchType /\ c.at = "write" /\ c.import = b.import /\ c.budget = b.budget /\ c.left = b.left
      /\ c.chunk = b.chunk /\ c.failed = b.failed /\ c.told = b.told /\ c.mine = b.mine /\ c.plan = b.plan
      /\ c.raw = b.raw /\ c.kept = b.kept /\ c.crossed = b.crossed /\ c.lost = b.lost
  BY <1>2, <1>4 DEF BatchType, Executing
<1>6. (b.at \in Executing) = TRUE /\ (c.at \in Executing) = TRUE /\ b.at \notin {"idle", "done"}
      /\ c.at \notin {"idle", "done"}
  BY <1>3, <1>5 DEF Executing
<1>7. ShownTo(tried'[k], Chunked(c.import.items, c.budget), c.chunk, c.failed, c.at \in Executing)
  BY <1>3, <1>4, <1>5, <1>6
<1>8. Len(Written(log, k, {c.chunk})) + Len(c.plan) <= MaxUpdates /\ c.plan # <<>> /\ Head(c.plan).do \in Verb
  BY <1>3, <1>4, <1>5, <1>6 DEF Reports
<1>9. Resolves(c, means)
  BY <1>3, <1>4, <1>5 DEF Resolves
<1>10. QED
  BY <1>1, <1>3, <1>4, <1>5, <1>6, <1>7, <1>8, <1>9, StaysLemma DEF CompileTyped

\* What is in a list is its head or in its tail.
LEMMA HeadAndTail ==
  ASSUME NEW X, NEW s \in Seq(X), s # <<>>
  PROVE  ToSet(s) \subseteq ToSet(Tail(s)) \cup {Head(s)}
<1>1. ASSUME NEW i \in DOMAIN s PROVE s[i] \in ToSet(Tail(s)) \cup {Head(s)}
  BY TailFacts DEF ToSet
<1>2. QED
  BY <1>1 DEF ToSet

\* Tags that fit what was asked fit less, and what is learned of a word takes nothing away.
LEMMA FitsLess ==
  ASSUME NEW tags, NEW crossed, NEW asked, NEW m, TagsFit(tags, crossed, asked, m), NEW less \in SUBSET asked
  PROVE  TagsFit(tags, crossed, less, m)
BY DEF TagsFit

Meaning(m) == m \in [Words -> Words \cup {Unknown, Barred}] /\ \A w \in Words : m[w] \in Words => m[m[w]] = m[w]

LEMMA LearnFits ==
  ASSUME NEW m, Meaning(m), NEW w \in Words, m[w] = Unknown, NEW tags \in Seq(Words), NEW crossed,
         NEW asked \in SUBSET Words, TagsFit(tags, crossed, asked, m)
  PROVE  TagsFit(tags, crossed, asked, [m EXCEPT ![w] = w])
BY CompileAssumption DEF Meaning, TagsFit

LEMMA LearnMeaning ==
  ASSUME NEW m, Meaning(m), NEW w \in Words, m[w] = Unknown
  PROVE  Meaning([m EXCEPT ![w] = w])
BY CompileAssumption DEF Meaning

\* The concept a word means is kept.
LEMMA KeepFits ==
  ASSUME NEW m, NEW tags \in Seq(Words), NEW crossed, NEW asked, TagsFit(tags, crossed, asked, m),
         NEW w, NEW c \in Words, m[w] = c, m[c] = c
  PROVE  LET kept == IF Contains(tags, c) THEN tags ELSE Append(tags, c) IN
         /\ kept \in Seq(Words) /\ Len(kept) \in Nat /\ Len(kept) <= Len(tags) + 1
         /\ TagsFit(kept, crossed, asked \cup {w}, m)
BY AppendFacts DEF Contains, TagsFit, IsInjective

\* The next tag of an entry, when m is what is known afterwards.
LEMMA ResolveOne ==
  ASSUME NEW b \in BatchType, b.at = "resolve", b.raw # <<>>, NEW m, Meaning(m), Resolves(b, m),
         m[Head(b.raw)] \in Words
  PROVE  LET c == [b EXCEPT !.raw = Tail(@),
                            !.kept = IF Contains(b.kept, m[Head(b.raw)]) THEN b.kept
                                     ELSE Append(b.kept, m[Head(b.raw)])]
         IN /\ c \in BatchType /\ Resolves(c, m) /\ c.at = "resolve" /\ c.import = b.import
            /\ c.budget = b.budget /\ c.left = b.left /\ c.chunk = b.chunk /\ c.failed = b.failed
            /\ c.told = b.told /\ c.mine = b.mine /\ c.plan = b.plan
<1>1. PICK w, d, kept : w = Head(b.raw) /\ d = m[w] /\ kept = IF Contains(b.kept, d) THEN b.kept ELSE Append(b.kept, d)
  OBVIOUS
<1>2. PICK c : c = [b EXCEPT !.raw = Tail(@), !.kept = kept]
  OBVIOUS
<1>3. b.raw \in Seq(Words) /\ b.kept \in Seq(Words)
  BY DEF BatchType
<1>4. w \in Words /\ Tail(b.raw) \in Seq(Words) /\ Len(Tail(b.raw)) = Len(b.raw) - 1 /\ Len(b.raw) \in Nat
      /\ Len(b.kept) \in Nat /\ ToSet(b.raw) \subseteq ToSet(Tail(b.raw)) \cup {w}
  BY <1>1, <1>3, HeadAndTail
<1>5. PICK asked : asked = ToSet(CleanTags(Head(b.plan).tags)) \ b.lost
  OBVIOUS
<1>6. b.import.wired /\ Len(b.kept) + Len(b.raw) <= MaxTags
      /\ TagsFit(b.kept, b.crossed, asked \ ToSet(b.raw), m)
  BY <1>5 DEF Resolves
<1>7. d \in Words /\ m[d] = d
  BY <1>1, <1>4 DEF Meaning
<1>8. /\ kept \in Seq(Words) /\ Len(kept) \in Nat /\ Len(kept) <= Len(b.kept) + 1
      /\ TagsFit(kept, b.crossed, (asked \ ToSet(b.raw)) \cup {w}, m)
  BY <1>1, <1>3, <1>6, <1>7, KeepFits
<1>9. TagsFit(kept, b.crossed, asked \ ToSet(Tail(b.raw)), m)
  BY <1>4, <1>8, FitsLess
<1>10. /\ c \in BatchType /\ c.at = "resolve" /\ c.import = b.import
       /\ c.budget = b.budget /\ c.left = b.left /\ c.chunk = b.chunk /\ c.failed = b.failed
       /\ c.told = b.told /\ c.mine = b.mine /\ c.plan = b.plan /\ c.raw = Tail(b.raw) /\ c.kept = kept
       /\ c.crossed = b.crossed /\ c.lost = b.lost
  BY <1>2, <1>4, <1>8 DEF BatchType
<1>11. Len(c.kept) + Len(c.raw) <= MaxTags
  <2>1. MaxTags \in Nat
    BY CompileAssumption
  <2>2. PICK p, q, r : p = Len(b.kept) /\ q = Len(b.raw) /\ r = Len(kept)
    OBVIOUS
  <2>3. p \in Nat /\ q \in Nat /\ r \in Nat /\ r <= p + 1 /\ p + q <= MaxTags
    BY <1>4, <1>6, <1>8, <2>2
  <2>4. r + (q - 1) <= MaxTags
    BY ONLY <2>1, <2>3
  <2>5. QED
    BY <1>4, <1>10, <2>2, <2>4
<1>12. Resolves(c, m)
  BY <1>5, <1>6, <1>9, <1>10, <1>11 DEF Resolves
<1>13. QED
  BY <1>1, <1>2, <1>10, <1>12

\* A word that is refused is lost.
LEMMA LoseOne ==
  ASSUME NEW b \in BatchType, b.at = "resolve", b.raw # <<>>, NEW m, Resolves(b, m)
  PROVE  LET c == [b EXCEPT !.raw = Tail(@), !.lost = @ \cup {Head(b.raw)}]
         IN /\ c \in BatchType /\ Resolves(c, m) /\ c.at = "resolve" /\ c.import = b.import
            /\ c.budget = b.budget /\ c.left = b.left /\ c.chunk = b.chunk /\ c.failed = b.failed
            /\ c.told = b.told /\ c.mine = b.mine /\ c.plan = b.plan
<1>1. PICK w : w = Head(b.raw)
  OBVIOUS
<1>2. PICK c : c = [b EXCEPT !.raw = Tail(@), !.lost = @ \cup {w}]
  OBVIOUS
<1>3. b.raw \in Seq(Words) /\ b.kept \in Seq(Words) /\ b.lost \subseteq Words
  BY DEF BatchType
<1>4. w \in Words /\ Tail(b.raw) \in Seq(Words) /\ Len(Tail(b.raw)) = Len(b.raw) - 1 /\ Len(b.raw) \in Nat
      /\ Len(b.kept) \in Nat /\ ToSet(b.raw) \subseteq ToSet(Tail(b.raw)) \cup {w}
  <2>1. w \in Words /\ Tail(b.raw) \in Seq(Words) /\ Len(Tail(b.raw)) = Len(b.raw) - 1 /\ Len(b.raw) \in Nat
        /\ Len(b.kept) \in Nat
    BY <1>1, <1>3
  <2>2. ToSet(b.raw) \subseteq ToSet(Tail(b.raw)) \cup {w}
    BY <1>1, <1>3, HeadAndTail
  <2>3. QED
    BY <2>1, <2>2
<1>5. PICK all : all = ToSet(CleanTags(Head(b.plan).tags))
  OBVIOUS
<1>6. b.import.wired /\ Len(b.kept) + Len(b.raw) <= MaxTags
      /\ TagsFit(b.kept, b.crossed, (all \ b.lost) \ ToSet(b.raw), m)
  BY <1>5 DEF Resolves
<1>7. TagsFit(b.kept, b.crossed, (all \ (b.lost \cup {w})) \ ToSet(Tail(b.raw)), m)
  BY <1>4, <1>6, FitsLess
<1>8. /\ c \in BatchType /\ c.at = "resolve" /\ c.import = b.import
      /\ c.budget = b.budget /\ c.left = b.left /\ c.chunk = b.chunk /\ c.failed = b.failed
      /\ c.told = b.told /\ c.mine = b.mine /\ c.plan = b.plan /\ c.raw = Tail(b.raw) /\ c.kept = b.kept
      /\ c.crossed = b.crossed /\ c.lost = b.lost \cup {w}
  BY <1>2, <1>3, <1>4 DEF BatchType
<1>9. Len(c.kept) + Len(c.raw) <= MaxTags
  <2>1. MaxTags \in Nat
    BY CompileAssumption
  <2>2. PICK p, q : p = Len(b.kept) /\ q = Len(b.raw)
    OBVIOUS
  <2>3. p \in Nat /\ q \in Nat /\ p + q <= MaxTags
    BY <1>4, <1>6, <2>2
  <2>4. p + (q - 1) <= MaxTags
    BY ONLY <2>1, <2>3
  <2>5. QED
    BY <1>4, <1>8, <2>2, <2>4
<1>10. Resolves(c, m)
  BY <1>5, <1>6, <1>7, <1>8, <1>9 DEF Resolves
<1>11. QED
  BY <1>1, <1>2, <1>8, <1>10

LEMMA ResolveTagLemma ==
  ASSUME CompileInv, NEW k \in Compiles, ResolveTag(k)
  PROVE  CompileInv'
<1>1. PICK b, log, w : b = batch[k] /\ log = Log(wrote) /\ w = Head(b.raw)
  OBVIOUS
<1>2. b.at = "resolve" /\ b.raw # <<>> /\ UNCHANGED <<wrote, tried, order>>
  BY <1>1 DEF ResolveTag, In
<1>3. /\ CompileTyped /\ b \in BatchType /\ Resolves(b, means) /\ Meaning(means)
      /\ ShownTo(tried[k], Chunked(b.import.items, b.budget), b.chunk, b.failed, b.at \in Executing)
      /\ Reports(b, log, k)
  BY <1>1, <1>2, UnderWay DEF CompileTyped, Meaning
<1>4. w \in Words /\ (b.at \in Executing) = TRUE /\ b.at \notin {"idle", "done"}
  BY <1>3, <1>1, <1>2 DEF BatchType, Executing
<1>5. ASSUME NEW c \in BatchType, c.at = "resolve", c.import = b.import,
             c.budget = b.budget, c.left = b.left, c.chunk = b.chunk, c.failed = b.failed,
             c.told = b.told, c.mine = b.mine, c.plan = b.plan
      PROVE  Shows(c, tried[k]) /\ Reports(c, log, k)
  BY <1>5, <1>3, <1>4, <1>2, <1>1, StaysTrue DEF Executing, Reports
<1>6. \A h \in Compiles \ {k} : Shows(batch[h], tried[h]) /\ Reports(batch[h], log, h)
  BY <1>1 DEF CompileInv
<1>7. ASSUME NEW c \in BatchType, batch' = [batch EXCEPT ![k] = c], Shows(c, tried[k]), Reports(c, log, k),
             Meaning(means'), Resolves(c, means'),
             \A h \in Compiles \ {k} : Resolves(batch[h], means'),
             \A i \in DOMAIN wrote : NoteFits(wrote[i], means')
      PROVE  CompileInv'
  BY <1>3, <1>7, <1>2, <1>1, <1>6 DEF CompileTyped, Meaning, CompileInv
<1>8. (\A h \in Compiles : batch[h] \in BatchType /\ Resolves(batch[h], means))
      /\ (\A i \in DOMAIN wrote : wrote[i] \in NoteType /\ NoteFits(wrote[i], means))
  BY <1>3 DEF CompileInv, CompileTyped
<1>9. \/ /\ means[w] # Barred
         /\ means' = [means EXCEPT ![w] = IF means[w] = Unknown THEN w ELSE means[w]]
         /\ batch' = [batch EXCEPT ![k] = [b EXCEPT !.raw = Tail(@),
                        !.kept = Keeps(k, IF means[w] = Unknown THEN w ELSE means[w])]]
      \/ /\ batch' = [batch EXCEPT ![k] = [b EXCEPT !.raw = Tail(@), !.lost = @ \cup {w}]]
         /\ UNCHANGED means
  BY <1>1 DEF ResolveTag, Batch
<1>10. CASE batch' = [batch EXCEPT ![k] = [b EXCEPT !.raw = Tail(@), !.lost = @ \cup {w}]] /\ means' = means
  <2>1. PICK c : c = [b EXCEPT !.raw = Tail(@), !.lost = @ \cup {Head(b.raw)}]
    OBVIOUS
  <2>2. /\ c \in BatchType /\ Resolves(c, means) /\ c.at = "resolve" /\ c.import = b.import
        /\ c.budget = b.budget /\ c.left = b.left /\ c.chunk = b.chunk /\ c.failed = b.failed
        /\ c.told = b.told /\ c.mine = b.mine /\ c.plan = b.plan
    BY <1>2, <1>3, <2>1, LoseOne
  <2>3. Shows(c, tried[k]) /\ Reports(c, log, k)
    BY <1>5, <2>2
  <2>4. QED
    BY <1>1, <1>3, <1>7, <1>8, <1>10, <2>1, <2>2, <2>3
<1>11. ASSUME means[w] # Barred,
              means' = [means EXCEPT ![w] = IF means[w] = Unknown THEN w ELSE means[w]],
              batch' = [batch EXCEPT ![k] = [b EXCEPT !.raw = Tail(@),
                          !.kept = Keeps(k, IF means[w] = Unknown THEN w ELSE means[w])]]
       PROVE  CompileInv'
  <2>1. PICK m : m = means'
    OBVIOUS
  <2>2. m[w] \in Words /\ m[w] = IF means[w] = Unknown THEN w ELSE means[w]
    BY <1>3, <1>4, <1>11, <2>1 DEF Meaning
  <2>3. /\ Meaning(m) /\ (\A h \in Compiles : Resolves(batch[h], m)) /\ \A i \in DOMAIN wrote : NoteFits(wrote[i], m)
    <3>1. CASE means[w] # Unknown
      BY <1>3, <1>11, <2>1, <3>1, <1>8 DEF Meaning
    <3>2. CASE means[w] = Unknown
      <4>1. m = [means EXCEPT ![w] = w]
        BY <1>11, <2>1, <3>2
      <4>2. Meaning(m)
        BY <1>3, <1>4, <3>2, <4>1, LearnMeaning
      <4>3. ASSUME NEW h \in Compiles PROVE Resolves(batch[h], m)
        <5>1. PICK d : d = batch[h]
          OBVIOUS
        <5>2. PICK asked : asked = (ToSet(CleanTags(Head(d.plan).tags)) \ d.lost) \ ToSet(d.raw)
          OBVIOUS
        <5>3. d \in BatchType /\ Resolves(d, means) /\ Reports(d, log, h)
          BY <1>1, <1>8, <5>1 DEF CompileInv
        <5>4. ASSUME d.at \in {"resolve", "write"}, d.import.wired PROVE TagsFit(d.kept, d.crossed, asked, m)
          <6>1. d.plan \in Seq(Entry) /\ d.plan # <<>> /\ d.kept \in Seq(Words)
            BY <5>3, <5>4 DEF BatchType, Reports
          <6>2. Head(d.plan).tags \in Seq(Words)
            <7>1. Head(d.plan) \in Entry
              BY <6>1
            <7>2. QED
              BY <7>1 DEF Entry
          <6>3. CleanTags(Head(d.plan).tags) \in Seq(Words)
            BY <6>2, CleanTagsFacts
          <6>4. asked \in SUBSET Words
            BY <5>2, <6>3 DEF ToSet
          <6>5. TagsFit(d.kept, d.crossed, asked, means)
            BY <5>2, <5>3, <5>4 DEF Resolves
          <6>6. QED
            BY <1>3, <1>4, <3>2, <4>1, <6>1, <6>4, <6>5, LearnFits
        <5>5. Resolves(d, m)
          BY <5>2, <5>3, <5>4 DEF Resolves
        <5>6. QED
          BY <5>1, <5>5
      <4>4. ASSUME NEW i \in DOMAIN wrote PROVE NoteFits(wrote[i], m)
        <5>1. PICK note : note = wrote[i]
          OBVIOUS
        <5>2. note \in NoteType /\ NoteFits(note, means)
          BY <1>8, <5>1
        <5>3. note.tags \in Seq(Words) /\ note.asked \in SUBSET Words
          BY <5>2 DEF NoteType
        <5>4. ASSUME note.wired PROVE TagsFit(note.tags, note.crossed, note.asked, m)
          <6>1. TagsFit(note.tags, note.crossed, note.asked, means)
            BY <5>2, <5>4 DEF NoteFits
          <6>2. QED
            BY <1>3, <1>4, <3>2, <4>1, <5>3, <6>1, LearnFits
        <5>5. NoteFits(note, m)
          BY <5>2, <5>4 DEF NoteFits
        <5>6. QED
          BY <5>1, <5>5
      <4>5. QED
        BY <4>2, <4>3, <4>4
    <3>3. QED
      BY <3>1, <3>2
  <2>4. PICK c : c = [b EXCEPT !.raw = Tail(@),
                               !.kept = IF Contains(b.kept, m[Head(b.raw)]) THEN b.kept
                                        ELSE Append(b.kept, m[Head(b.raw)])]
    OBVIOUS
  <2>5. batch' = [batch EXCEPT ![k] = c]
    BY <1>1, <1>11, <2>2, <2>4 DEF Keeps
  <2>6. /\ c \in BatchType /\ Resolves(c, m) /\ c.at = "resolve" /\ c.import = b.import
        /\ c.budget = b.budget /\ c.left = b.left /\ c.chunk = b.chunk /\ c.failed = b.failed
        /\ c.told = b.told /\ c.mine = b.mine /\ c.plan = b.plan
    <3>1. Resolves(b, m)
      BY <1>1, <2>3
    <3>2. m[Head(b.raw)] \in Words
      BY <1>1, <2>2
    <3>3. QED
      BY <1>2, <1>3, <2>3, <2>4, <3>1, <3>2, ResolveOne
  <2>7. Shows(c, tried[k]) /\ Reports(c, log, k)
    BY <1>5, <2>6
  <2>8. QED
    BY <1>7, <2>1, <2>3, <2>5, <2>6, <2>7
<1>12. QED
  BY <1>9, <1>10, <1>11

\* What a merge makes of the meanings.
LEMMA MergeMeaning ==
  ASSUME NEW m, Meaning(m), NEW c \in Words, NEW d \in Words, c # d, m[c] = c, m[d] = d,
         NEW n, n = [w \in Words |-> IF m[w] = c THEN d ELSE m[w]]
  PROVE  /\ Meaning(n) /\ (\A w \in Words : m[w] \in Words => n[w] \in Words)
         /\ \A v, w \in Words : m[v] = m[w] => n[v] = n[w]
BY DEF Meaning

\* What it makes of the tags of a note.
LEMMA MergeTags ==
  ASSUME NEW m, Meaning(m), NEW c \in Words, NEW d \in Words, c # d, m[c] = c, m[d] = d,
         NEW n, n = [w \in Words |-> IF m[w] = c THEN d ELSE m[w]],
         NEW tags \in Seq(Words), NEW crossed, NEW asked \in SUBSET Words, TagsFit(tags, crossed, asked, m)
  PROVE  TagsFit(FirstOf([j \in DOMAIN tags |-> IF tags[j] = c THEN d ELSE tags[j]]), crossed, asked, n)
<1>1. PICK s : s = [j \in DOMAIN tags |-> IF tags[j] = c THEN d ELSE tags[j]]
  OBVIOUS
<1>2. DOMAIN tags = 1..Len(tags) /\ Len(tags) \in Nat /\ \A j \in DOMAIN tags : tags[j] \in Words
  OBVIOUS
<1>3. s \in Seq(Words) /\ DOMAIN s = DOMAIN tags /\ \A j \in DOMAIN tags : s[j] = IF tags[j] = c THEN d ELSE tags[j]
  BY <1>1, <1>2
<1>4. PICK r : r = FirstOf(s)
  OBVIOUS
<1>5. r \in Seq(Words) /\ IsInjective(r) /\ ToSet(r) = ToSet(s)
  BY <1>3, <1>4, FirstOfFacts
<1>6. \A i \in DOMAIN r : \E j \in DOMAIN tags : r[i] = s[j]
  <2>1. \A i \in DOMAIN r : r[i] \in ToSet(s)
    BY <1>5 DEF ToSet
  <2>2. QED
    BY <1>3, <2>1 DEF ToSet
<1>7. \A j \in DOMAIN tags : \E i \in DOMAIN r : r[i] = s[j]
  BY <1>3, <1>5 DEF ToSet
<1>8. /\ Meaning(n) /\ (\A w \in Words : m[w] \in Words => n[w] \in Words)
      /\ \A v, w \in Words : m[v] = m[w] => n[v] = n[w]
  BY MergeMeaning
<1>9. n[d] = d /\ n[c] = d
  OBVIOUS
<1>10. \A j \in DOMAIN tags : n[s[j]] = n[tags[j]]
  BY <1>2, <1>3, <1>9
<1>11. \A i \in DOMAIN r : n[r[i]] \in Words
  <2>1. \A j \in DOMAIN tags : m[tags[j]] \in Words
    BY DEF TagsFit
  <2>2. ASSUME NEW j \in DOMAIN tags PROVE n[s[j]] \in Words
    <3>1. PICK w : w = tags[j]
      OBVIOUS
    <3>2. w \in Words /\ m[w] \in Words /\ n[s[j]] = n[w]
      BY <1>2, <1>10, <2>1, <3>1
    <3>3. QED
      BY <1>8, <3>2
  <2>3. QED
    BY <1>6, <2>2
<1>12. ASSUME ~crossed PROVE \A i \in DOMAIN r : n[r[i]] = r[i]
  BY <1>12, <1>2, <1>3, <1>9, <1>6 DEF TagsFit
<1>13. ASSUME NEW w \in asked PROVE \E i \in DOMAIN r : n[r[i]] = n[w]
  <2>1. PICK j \in DOMAIN tags : m[tags[j]] = m[w]
    BY <1>13 DEF TagsFit
  <2>2. n[tags[j]] = n[w]
    BY <1>2, <1>8, <2>1
  <2>3. PICK i \in DOMAIN r : r[i] = s[j]
    BY <1>7
  <2>4. QED
    BY <1>10, <2>2, <2>3
<1>14. TagsFit(r, crossed, asked, n)
  BY <1>5, <1>11, <1>12, <1>13 DEF TagsFit
<1>15. QED
  BY <1>1, <1>4, <1>14

LEMMA MergeNote ==
  ASSUME NEW m, Meaning(m), NEW c \in Words, NEW d \in Words, c # d, m[c] = c, m[d] = d,
         NEW n, n = [w \in Words |-> IF m[w] = c THEN d ELSE m[w]],
         NEW note \in NoteType, NoteFits(note, m)
  PROVE  LET new == [note EXCEPT !.tags = FirstOf([j \in DOMAIN @ |-> IF @[j] = c THEN d ELSE @[j]])]
         IN new \in NoteType /\ NoteFits(new, n) /\ new.by = note.by /\ new.chunk = note.chunk /\ new.do = note.do
<1>1. PICK tags, s : tags = note.tags /\ s = [j \in DOMAIN tags |-> IF tags[j] = c THEN d ELSE tags[j]]
  OBVIOUS
<1>2. tags \in Seq(Words) /\ note.asked \in SUBSET Words
  BY <1>1 DEF NoteType
<1>3. DOMAIN tags = 1..Len(tags) /\ Len(tags) \in Nat /\ \A j \in DOMAIN tags : tags[j] \in Words
  BY <1>2
<1>4. s \in Seq(Words) /\ Len(s) = Len(tags)
  BY <1>1, <1>3
<1>5. FirstOf(s) \in Seq(Words) /\ Len(FirstOf(s)) <= Len(tags)
  BY <1>4, FirstOfFacts
<1>6. PICK new : new = [note EXCEPT !.tags = FirstOf(s)]
  OBVIOUS
<1>7. /\ new \in NoteType /\ new.tags = FirstOf(s) /\ new.by = note.by /\ new.chunk = note.chunk /\ new.do = note.do
      /\ new.asked = note.asked /\ new.crossed = note.crossed /\ new.stubs = note.stubs /\ new.wired = note.wired
  BY <1>5, <1>6 DEF NoteType
<1>8. ASSUME note.wired PROVE TagsFit(new.tags, new.crossed, new.asked, n) /\ Len(new.tags) <= MaxTags
  <2>1. TagsFit(tags, note.crossed, note.asked, m) /\ Len(tags) <= MaxTags
    BY <1>1, <1>8 DEF NoteFits
  <2>2. TagsFit(FirstOf(s), note.crossed, note.asked, n)
    BY <1>1, <1>2, <2>1, MergeTags
  <2>3. PICK f : f = FirstOf(s)
    OBVIOUS
  <2>4. Len(f) \in Nat /\ Len(tags) \in Nat /\ MaxTags \in Nat
    BY <1>3, <1>5, <2>3, CompileAssumption
  <2>5. Len(f) <= MaxTags
    BY <1>5, <2>1, <2>3, <2>4
  <2>6. QED
    BY <1>7, <2>2, <2>3, <2>5
<1>9. NoteFits(new, n)
  BY <1>7, <1>8 DEF NoteFits
<1>10. QED
  BY <1>1, <1>6, <1>7, <1>9

\* What it makes of an ingestion.
LEMMA MergeBatch ==
  ASSUME NEW m, Meaning(m), NEW c \in Words, NEW d \in Words, c # d, m[c] = c, m[d] = d,
         NEW n, n = [w \in Words |-> IF m[w] = c THEN d ELSE m[w]],
         NEW b \in BatchType, NEW t, NEW log, NEW k, Shows(b, t), Reports(b, log, k), Resolves(b, m)
  PROVE  LET new == [b EXCEPT !.crossed = @ \/ b.kept # <<>>]
         IN new \in BatchType /\ Shows(new, t) /\ Reports(new, log, k) /\ Resolves(new, n)
<1>1. PICK x : x = (b.crossed \/ b.kept # <<>>)
  OBVIOUS
<1>2. PICK new : new = [b EXCEPT !.crossed = x]
  OBVIOUS
<1>3. b.crossed \in BOOLEAN /\ x \in BOOLEAN /\ b.kept \in Seq(Words) /\ b.plan \in Seq(Entry)
  BY <1>1 DEF BatchType
<1>4. /\ new \in BatchType /\ new.at = b.at /\ new.import = b.import /\ new.budget = b.budget
      /\ new.left = b.left /\ new.chunk = b.chunk /\ new.plan = b.plan /\ new.raw = b.raw
      /\ new.kept = b.kept /\ new.crossed = x /\ new.lost = b.lost /\ new.mine = b.mine
      /\ new.told = b.told /\ new.failed = b.failed
  BY <1>2, <1>3 DEF BatchType
<1>5. Shows(new, t)
  <2>1. CASE b.at = "idle"
    <3>1. b = Unbegun /\ t = <<>>
      BY <2>1 DEF Shows
    <3>2. x = FALSE
      BY <1>1, <3>1 DEF Unbegun
    <3>3. new = Unbegun
      BY <1>2, <3>1, <3>2 DEF Unbegun
    <3>4. QED
      BY <3>1, <3>3 DEF Shows, Unbegun
  <2>2. CASE b.at # "idle"
    BY <1>4, <2>2 DEF Shows
  <2>3. QED
    BY <2>1, <2>2
<1>6. Reports(new, log, k)
  BY <1>4 DEF Reports
<1>7. PICK asked : asked = (ToSet(CleanTags(Head(b.plan).tags)) \ b.lost) \ ToSet(b.raw)
  OBVIOUS
<1>8. ASSUME b.at \in {"resolve", "write"}, b.import.wired PROVE TagsFit(b.kept, x, asked, n)
  <2>1. TagsFit(b.kept, b.crossed, asked, m)
    BY <1>7, <1>8 DEF Resolves
  <2>2. asked \in SUBSET Words
    <3>1. b.plan # <<>>
      BY <1>8 DEF Reports
    <3>2. Head(b.plan).tags \in Seq(Words)
      <4>1. Head(b.plan) \in Entry
        BY <1>3, <3>1
      <4>2. QED
        BY <4>1 DEF Entry
    <3>3. CleanTags(Head(b.plan).tags) \in Seq(Words)
      BY <3>2, CleanTagsFacts
    <3>4. QED
      BY <1>7, <3>3 DEF ToSet
  <2>3. /\ (\A w \in Words : m[w] \in Words => n[w] \in Words)
        /\ \A v, w \in Words : m[v] = m[w] => n[v] = n[w]
    BY MergeMeaning
  <2>4. \A j \in DOMAIN b.kept : b.kept[j] \in Words
    BY <1>3
  <2>5. \A j \in DOMAIN b.kept : n[b.kept[j]] \in Words
    BY <2>1, <2>3, <2>4 DEF TagsFit
  <2>6. \A w \in asked : \E j \in DOMAIN b.kept : n[b.kept[j]] = n[w]
    BY <2>1, <2>2, <2>3, <2>4 DEF TagsFit
  <2>7. ASSUME ~x PROVE IsInjective(b.kept) /\ \A j \in DOMAIN b.kept : n[b.kept[j]] = b.kept[j]
    <3>1. b.kept = <<>>
      BY <1>1, <2>7
    <3>2. QED
      BY <3>1 DEF IsInjective
  <2>8. QED
    BY <2>5, <2>6, <2>7 DEF TagsFit
<1>9. Resolves(new, n)
  BY <1>4, <1>7, <1>8 DEF Resolves
<1>10. QED
  BY <1>1, <1>2, <1>4, <1>5, <1>6, <1>9

LEMMA MergeLemma ==
  ASSUME CompileInv, NEW c \in Words, NEW d \in Words, MergeConcepts(c, d)
  PROVE  CompileInv'
<1>1. PICK m, n, log : m = means /\ n = means' /\ log = Log(wrote)
  OBVIOUS
<1>2. /\ CompileTyped /\ Meaning(m) /\ c # d /\ m[c] = c /\ m[d] = d /\ tried' = tried
      /\ n = [w \in Words |-> IF m[w] = c THEN d ELSE m[w]]
  BY <1>1 DEF CompileInv, CompileTyped, Meaning, MergeConcepts
<1>3. Meaning(n)
  BY <1>2, MergeMeaning
<1>4. order' \in Order1
  <2>1. order \in Order1 /\ order.merges \in Nat /\ order.merges > 0 /\ order' = [order EXCEPT !.merges = @ - 1]
    BY <1>2 DEF CompileTyped, Order1, MergeConcepts
  <2>2. order.merges - 1 \in Nat
    BY <2>1
  <2>3. QED
    BY <2>1, <2>2 DEF Order1
<1>5. wrote \in Seq(NoteType) /\ DOMAIN wrote = 1..Len(wrote) /\ Len(wrote) \in Nat
      /\ \A i \in DOMAIN wrote : wrote[i] \in NoteType /\ NoteFits(wrote[i], m)
  BY <1>1, <1>2 DEF CompileTyped, CompileInv
<1>6. /\ DOMAIN wrote' = 1..Len(wrote)
      /\ \A i \in 1..Len(wrote) :
           wrote'[i] = [wrote[i] EXCEPT !.tags = FirstOf([j \in DOMAIN @ |-> IF @[j] = c THEN d ELSE @[j]])]
      /\ wrote' = [i \in 1..Len(wrote) |->
           [wrote[i] EXCEPT !.tags = FirstOf([j \in DOMAIN @ |-> IF @[j] = c THEN d ELSE @[j]])]]
  BY <1>5 DEF MergeConcepts
<1>7. \A i \in 1..Len(wrote) : /\ wrote'[i] \in NoteType /\ NoteFits(wrote'[i], n)
                               /\ wrote'[i].by = wrote[i].by /\ wrote'[i].chunk = wrote[i].chunk /\ wrote'[i].do = wrote[i].do
  <2> SUFFICES ASSUME NEW i \in 1..Len(wrote)
               PROVE  /\ wrote'[i] \in NoteType /\ NoteFits(wrote'[i], n)
                      /\ wrote'[i].by = wrote[i].by /\ wrote'[i].chunk = wrote[i].chunk /\ wrote'[i].do = wrote[i].do
    OBVIOUS
  <2>1. PICK note, new : note = wrote[i] /\ new = wrote'[i]
    OBVIOUS
  <2>2. note \in NoteType /\ NoteFits(note, m)
        /\ new = [note EXCEPT !.tags = FirstOf([j \in DOMAIN @ |-> IF @[j] = c THEN d ELSE @[j]])]
    BY <1>5, <1>6, <2>1
  <2>3. new \in NoteType /\ NoteFits(new, n) /\ new.by = note.by /\ new.chunk = note.chunk /\ new.do = note.do
    BY <1>2, <2>2, MergeNote
  <2>4. QED
    BY <2>1, <2>3
<1>8. wrote' \in Seq(NoteType)
  BY <1>5, <1>6, <1>7
<1>9. Log(wrote') = log
  BY <1>1, <1>5, <1>6, <1>7 DEF Log
<1>10. ASSUME NEW k \in Compiles
       PROVE  /\ batch'[k] \in BatchType /\ Shows(batch'[k], tried'[k]) /\ Reports(batch'[k], Log(wrote'), k)
              /\ Resolves(batch'[k], means')
  <2>1. PICK b, t, new : b = batch[k] /\ t = tried[k] /\ new = batch'[k]
    OBVIOUS
  <2>2. b \in BatchType /\ Shows(b, t) /\ Reports(b, log, k) /\ Resolves(b, m)
    BY <1>1, <1>2, <2>1 DEF CompileInv, CompileTyped
  <2>3. new = [b EXCEPT !.crossed = @ \/ b.kept # <<>>]
    BY <2>1 DEF MergeConcepts
  <2>4. new \in BatchType /\ Shows(new, t) /\ Reports(new, log, k) /\ Resolves(new, n)
    BY <1>2, <2>2, <2>3, MergeBatch
  <2>5. QED
    BY <1>1, <1>2, <1>9, <2>1, <2>4
<1>11. batch' \in [Compiles -> BatchType]
  BY <1>10 DEF MergeConcepts
<1>12. CompileTyped'
  BY <1>1, <1>2, <1>3, <1>4, <1>8, <1>11 DEF CompileTyped, Meaning
<1>13. \A i \in DOMAIN wrote' : NoteFits(wrote'[i], means')
  BY <1>1, <1>6, <1>7
<1>14. QED
  BY <1>10, <1>12, <1>13 DEF CompileInv

\* What was written, and is going to be reported, for the chunk at hand.
LEMMA OneMore ==
  ASSUME NEW k \in Compiles, NEW b \in BatchType, NEW log \in Seq(LogType), NEW do \in Verb, Reports(b, log, k),
         b.at = "write", NEW c \in BatchType, c.at = "entry", c.chunk = b.chunk, c.failed = b.failed,
         c.told = b.told, c.mine = Append(b.mine, do), c.plan = Tail(b.plan), b.chunk > 0
  PROVE  Reports(c, Append(log, <<k, b.chunk, do>>), k)
<1>1. PICK x, r, n : x = <<k, b.chunk, do>> /\ r = Append(log, x) /\ n = Len(log)
  OBVIOUS
<1>2. /\ b.chunk \in Nat /\ b.failed \subseteq Nat /\ b.told \in Seq(Verb) /\ b.mine \in Seq(Verb)
      /\ b.plan \in Seq(Entry) /\ MaxUpdates \in Nat
  BY CompileAssumption DEF BatchType
<1>3. x \in LogType /\ x[1] = k /\ x[2] = b.chunk /\ x[3] = do
  BY <1>1, <1>2 DEF LogType
<1>4. /\ r \in Seq(LogType) /\ Len(r) = n + 1 /\ r[n + 1] = x /\ n \in Nat
      /\ \A i \in 1..n : r[i] = log[i]
  BY <1>1, <1>3, AppendFacts
<1>5. (b.at \in Executing) = TRUE /\ (c.at \in Executing) = TRUE
  BY DEF Executing
<1>6. \A i \in DOMAIN r : r[i][1] = k => r[i][2] > 0 /\ (r[i][2] < c.chunk \/ (r[i][2] = c.chunk /\ c.at \in Executing))
  BY <1>5, <1>4, <1>3, <1>1 DEF Reports
<1>7. (\A d \in c.failed : d < c.chunk) /\ b.chunk \notin b.failed
  BY <1>2 DEF Reports
<1>8. c.told = Verbs(Written(r, k, Nat \ (c.failed \cup {c.chunk})))
  BY <1>3, <1>1, WrittenAppend DEF Reports
<1>9. c.told \o c.mine = Verbs(Written(r, k, Nat \ c.failed))
  <2>1. PICK S, w : S = Nat \ c.failed /\ w = Written(log, k, S)
    OBVIOUS
  <2>2. x[2] \in S
    BY <1>2, <1>3, <1>7, <2>1
  <2>3. Written(r, k, S) = Append(w, x) /\ w \in Seq(LogType)
    BY <1>1, <1>3, <2>1, <2>2, WrittenAppend, WrittenType
  <2>4. Verbs(Written(r, k, S)) = Append(Verbs(w), do)
    BY <1>3, <2>3, VerbsAppend
  <2>5. b.told \o b.mine = Verbs(w)
    BY <2>1 DEF Reports
  <2>6. b.told \o Append(b.mine, do) = Append(b.told \o b.mine, do)
    <3>1. PICK u, v : u = b.told /\ v = b.mine
      OBVIOUS
    <3>2. u \in Seq(Verb) /\ v \in Seq(Verb)
      BY <1>2, <3>1
    <3>3. u \o Append(v, do) = Append(u \o v, do)
      BY <3>2, AppendOfConcat
    <3>4. QED
      BY <3>1, <3>3
  <2>7. QED
    BY <2>1, <2>4, <2>5, <2>6
<1>10. PICK w : w = Written(log, k, {b.chunk})
  OBVIOUS
<1>11. w \in Seq(LogType) /\ Len(w) \in Nat
  BY <1>10, WrittenType
<1>12. Written(r, k, {b.chunk}) = Append(w, x) /\ Len(Append(w, x)) = Len(w) + 1
  <2>1. x[1] = k /\ x[2] \in {b.chunk}
    BY <1>3
  <2>2. Written(r, k, {b.chunk}) = Append(w, x)
    BY <1>1, <1>3, <1>10, <2>1, WrittenAppend
  <2>3. Len(Append(w, x)) = Len(w) + 1
    BY <1>3, <1>11
  <2>4. QED
    BY <2>2, <2>3
<1>13. b.plan # <<>> /\ Len(w) + Len(b.plan) <= MaxUpdates
  BY <1>5, <1>10 DEF Reports
<1>14. Len(b.plan) \in Nat /\ Len(b.plan) > 0 /\ Len(c.plan) = Len(b.plan) - 1
  BY <1>2, <1>13
<1>15. PICK p, q : p = Len(w) /\ q = Len(b.plan)
  OBVIOUS
<1>16. p \in Nat /\ q \in Nat /\ q > 0 /\ p + q <= MaxUpdates
  BY <1>11, <1>13, <1>14, <1>15
<1>17. (p + 1) + (q - 1) <= MaxUpdates /\ p + 1 <= MaxUpdates
  BY ONLY <1>2, <1>16
<1>18. c.at \in Executing => Len(Written(r, k, {c.chunk})) + Len(c.plan) <= MaxUpdates
  BY <1>12, <1>14, <1>15, <1>17
<1>19. ASSUME NEW d \in Nat PROVE Len(Written(r, k, {d})) <= MaxUpdates
  <2>1. CASE d = b.chunk
    BY <1>12, <1>15, <1>17, <2>1
  <2>2. CASE d # b.chunk
    BY <1>1, <1>3, <2>2, WrittenAppend DEF Reports
  <2>3. QED
    BY <2>1, <2>2
<1>20. Reports(c, r, k)
  BY <1>6, <1>7, <1>8, <1>9, <1>18, <1>19 DEF Reports
<1>21. QED
  BY <1>1, <1>20

\* The note of the entry at hand.
LEMMA NoteOf ==
  ASSUME NEW k \in Compiles, NEW b \in BatchType, b.at = "write", b.plan # <<>>, Head(b.plan).do \in Verb,
         NEW m, Resolves(b, m)
  PROVE  LET e == Head(b.plan)
             note == [by |-> k, chunk |-> b.chunk, do |-> e.do, tags |-> b.kept,
                      asked |-> ToSet(CleanTags(e.tags)) \ b.lost, crossed |-> b.crossed,
                      stubs |-> CleanEntities(e.entities, e.mentions), wired |-> b.import.wired]
         IN b.import \in Import => note \in NoteType /\ NoteFits(note, m)
<1> SUFFICES ASSUME b.import \in Import
             PROVE  LET e == Head(b.plan)
                        note == [by |-> k, chunk |-> b.chunk, do |-> e.do, tags |-> b.kept,
                                 asked |-> ToSet(CleanTags(e.tags)) \ b.lost, crossed |-> b.crossed,
                                 stubs |-> CleanEntities(e.entities, e.mentions), wired |-> b.import.wired]
                    IN note \in NoteType /\ NoteFits(note, m)
  OBVIOUS
<1>1. PICK e : e = Head(b.plan)
  OBVIOUS
<1>2. PICK asked, stubs : asked = ToSet(CleanTags(e.tags)) \ b.lost /\ stubs = CleanEntities(e.entities, e.mentions)
  OBVIOUS
<1>3. b.plan \in Seq(Entry) /\ b.kept \in Seq(Words) /\ b.crossed \in BOOLEAN /\ b.chunk \in Nat /\ b.import.wired \in BOOLEAN
  BY DEF BatchType, Import
<1>4. e \in Entry
  BY <1>1, <1>3
<1>5. e.tags \in Seq(Words) /\ e.entities \in Seq(STRING)
  BY <1>4 DEF Entry
<1>6. asked \in SUBSET Words
  BY <1>5, CleanTagsFacts, <1>2 DEF ToSet
<1>7. stubs \in Seq(STRING) /\ IsInjective(stubs)
  BY <1>2, <1>5, CleanEntitiesFacts
<1>8. PICK note : note = [by |-> k, chunk |-> b.chunk, do |-> e.do, tags |-> b.kept, asked |-> asked,
                          crossed |-> b.crossed, stubs |-> stubs, wired |-> b.import.wired]
  OBVIOUS
<1>9. note \in NoteType
  BY <1>1, <1>3, <1>6, <1>7, <1>8 DEF NoteType
<1>10. ASSUME b.import.wired PROVE TagsFit(b.kept, b.crossed, asked, m) /\ Len(b.kept) <= MaxTags
  <2>1. /\ b.raw = <<>> /\ Len(b.kept) + Len(b.raw) <= MaxTags
        /\ TagsFit(b.kept, b.crossed, asked \ ToSet(b.raw), m)
    BY <1>1, <1>2, <1>10 DEF Resolves
  <2>2. ToSet(<<>>) = {} /\ Len(<<>>) = 0 /\ Len(b.kept) \in Nat /\ asked \ {} = asked
    BY <1>3 DEF ToSet
  <2>3. PICK p : p = Len(b.kept)
    OBVIOUS
  <2>4. p \in Nat /\ p + 0 <= MaxTags /\ MaxTags \in Nat
    BY <2>1, <2>2, <2>3, CompileAssumption
  <2>5. p <= MaxTags
    BY ONLY <2>4
  <2>6. asked \ ToSet(b.raw) = asked
    BY <2>1, <2>2
  <2>7. QED
    BY <2>1, <2>3, <2>5, <2>6
<1>11. NoteFits(note, m)
  BY <1>7, <1>8, <1>10 DEF NoteFits
<1>12. QED
  BY <1>1, <1>2, <1>8, <1>9, <1>11

\* What b is when it is done with its entry, but for what it wrote.
EntryDone(b, c, t, m) ==
  /\ c \in BatchType /\ c.at = "entry" /\ c.import = b.import /\ c.budget = b.budget /\ c.left = b.left
  /\ c.chunk = b.chunk /\ c.failed = b.failed /\ c.told = b.told /\ c.plan = Tail(b.plan)
  /\ c.at \in Executing /\ c.at \notin {"idle", "done"}
  /\ ShownTo(t, Chunked(c.import.items, c.budget), c.chunk, c.failed, TRUE) /\ Resolves(c, m)

LEMMA WriteEntryLemma ==
  ASSUME CompileInv, NEW k \in Compiles, WriteEntry(k)
  PROVE  CompileInv'
<1>1. PICK b, log, e : b = batch[k] /\ log = Log(wrote) /\ e = Head(b.plan)
  OBVIOUS
<1>2. PICK note : note = [by |-> k, chunk |-> b.chunk, do |-> e.do, tags |-> b.kept,
                          asked |-> ToSet(CleanTags(e.tags)) \ b.lost, crossed |-> b.crossed,
                          stubs |-> CleanEntities(e.entities, e.mentions), wired |-> b.import.wired]
  OBVIOUS
<1>3. b.at = "write" /\ UNCHANGED <<means, tried, order>>
  BY <1>1 DEF WriteEntry, In
<1>4. /\ CompileTyped /\ b \in BatchType /\ Resolves(b, means) /\ log \in Seq(LogType) /\ AtHand(b)
      /\ ShownTo(tried[k], Chunked(b.import.items, b.budget), b.chunk, b.failed, b.at \in Executing)
      /\ Reports(b, log, k)
  BY <1>1, <1>3, UnderWay
<1>5. b.plan \in Seq(Entry) /\ b.plan # <<>> /\ Head(b.plan).do \in Verb /\ b.import \in Import
      /\ b.chunk \in Nat /\ b.chunk > 0 /\ b.mine \in Seq(Verb)
  BY <1>3, <1>4 DEF BatchType, Reports, AtHand
<1>6. note \in NoteType /\ NoteFits(note, means)
  BY <1>1, <1>2, <1>3, <1>4, <1>5, NoteOf
<1>7. note.by = k /\ note.chunk = b.chunk /\ note.do = e.do
  BY <1>2
<1>8. Tail(b.plan) \in Seq(Entry) /\ Append(b.mine, e.do) \in Seq(Verb)
      /\ Len(Tail(b.plan)) = Len(b.plan) - 1 /\ Len(b.plan) \in Nat /\ Len(b.plan) > 0
  BY <1>1, <1>5
<1>9. (b.at \in Executing) = TRUE /\ b.at \notin {"idle", "done"}
  BY <1>3 DEF Executing
<1>10. Len(Written(log, k, {b.chunk})) + Len(b.plan) <= MaxUpdates /\ Len(Written(log, k, {b.chunk})) \in Nat
       /\ MaxUpdates \in Nat
  BY <1>4, <1>9, WrittenType, CompileAssumption DEF Reports
<1>11. PICK next : next = [b EXCEPT !.at = "entry", !.plan = Tail(@)]
  OBVIOUS
<1>12. \/ /\ wrote' = Append(wrote, note)
          /\ \/ batch' = [batch EXCEPT ![k] = [next EXCEPT !.mine = Append(@, e.do)]]
             \/ Fails1(k)
       \/ batch' = [batch EXCEPT ![k] = next] /\ wrote' = wrote
       \/ Fails1(k) /\ wrote' = wrote
  BY <1>1, <1>2, <1>11 DEF WriteEntry, Batch, Entry1
<1>13. ASSUME NEW mine, mine \in Seq(Verb), NEW c, c = [next EXCEPT !.mine = mine]
       PROVE  EntryDone(b, c, tried[k], means) /\ c.mine = mine
  BY <1>4, <1>8, <1>11, <1>13, <1>9 DEF BatchType, Executing, Resolves, EntryDone
<1>14. CASE Fails1(k) /\ wrote' = wrote
  BY <1>1, <1>3, <1>9, <1>14, FailsLemma
<1>15. CASE Fails1(k) /\ wrote' = Append(wrote, note)
  <2>1. Len(Written(log, k, {b.chunk})) < MaxUpdates
    BY <1>8, <1>10
  <2>2. batch[k].at \in Executing
    BY <1>1, <1>9
  <2>3. QED
    BY <1>1, <1>3, <1>6, <1>7, <1>9, <1>15, <2>1, <2>2, FailsLemma
<1>16. CASE batch' = [batch EXCEPT ![k] = next] /\ wrote' = wrote
  <2>1. next = [next EXCEPT !.mine = b.mine]
    BY <1>4, <1>8, <1>11 DEF BatchType
  <2>2. PICK c : c = next
    OBVIOUS
  <2>3. /\ c \in BatchType /\ c.at = "entry" /\ c.import = b.import /\ c.budget = b.budget /\ c.left = b.left
        /\ c.chunk = b.chunk /\ c.failed = b.failed /\ c.told = b.told /\ c.mine = b.mine
        /\ c.plan = Tail(b.plan) /\ c.at \in Executing /\ c.at \notin {"idle", "done"}
        /\ ShownTo(tried[k], Chunked(c.import.items, c.budget), c.chunk, c.failed, TRUE)
        /\ Resolves(c, means)
    <3>1. PICK mine : mine = b.mine
      OBVIOUS
    <3>2. mine \in Seq(Verb) /\ c = [next EXCEPT !.mine = mine]
      BY <1>5, <2>1, <2>2, <3>1
    <3>3. QED
      <4>1. EntryDone(b, c, tried[k], means) /\ c.mine = mine
        BY <1>13, <3>2
      <4>2. QED
        BY <3>1, <4>1 DEF EntryDone
  <2>4. Len(Written(log, k, {c.chunk})) + Len(c.plan) <= MaxUpdates
    BY <1>8, <1>10, <2>3
  <2>5. c.at \notin {"resolve", "write"} /\ (c.at \in Executing) = TRUE
    BY <2>3
  <2>6. tried' \in [Compiles -> Seq(Seq(Nat))] /\ tried'[k] = tried[k]
    BY <1>3, <1>4 DEF CompileTyped
  <2>7. QED
    BY <1>1, <1>3, <1>9, <1>16, <2>2, <2>3, <2>4, <2>5, <2>6, StaysLemma
<1>17. CASE batch' = [batch EXCEPT ![k] = [next EXCEPT !.mine = Append(@, e.do)]] /\ wrote' = Append(wrote, note)
  <2>1. next.mine = b.mine
    BY <1>4, <1>8, <1>11 DEF BatchType
  <2>2. PICK c : c = [next EXCEPT !.mine = Append(b.mine, e.do)]
    OBVIOUS
  <2>3. batch' = [batch EXCEPT ![k] = c]
    BY <1>17, <2>1, <2>2
  <2>4. /\ c \in BatchType /\ c.at = "entry" /\ c.import = b.import /\ c.budget = b.budget /\ c.left = b.left
        /\ c.chunk = b.chunk /\ c.failed = b.failed /\ c.told = b.told /\ c.mine = Append(b.mine, e.do)
        /\ c.plan = Tail(b.plan) /\ c.at \in Executing /\ c.at \notin {"idle", "done"}
        /\ ShownTo(tried[k], Chunked(c.import.items, c.budget), c.chunk, c.failed, TRUE)
        /\ Resolves(c, means)
    <3>1. PICK mine : mine = Append(b.mine, e.do)
      OBVIOUS
    <3>2. mine \in Seq(Verb) /\ c = [next EXCEPT !.mine = mine]
      BY <1>8, <2>2, <3>1
    <3>3. QED
      <4>1. EntryDone(b, c, tried[k], means) /\ c.mine = mine
        BY <1>13, <3>2
      <4>2. QED
        BY <3>1, <4>1 DEF EntryDone
  <2>5. AtHand(c) /\ (c.at \in Executing) = TRUE
    BY <1>4, <2>4 DEF AtHand
  <2>6. Shows(c, tried'[k])
    BY <1>3, <2>4, <2>5, StayShows
  <2>7. wrote \in Seq(NoteType) /\ e.do \in Verb
    BY <1>1, <1>4, <1>5 DEF CompileTyped
  <2>8. Log(wrote') = Append(log, <<k, b.chunk, e.do>>)
    BY <1>1, <1>6, <1>7, <1>17, <2>7, LogAppend
  <2>9. Reports(c, Log(wrote'), k)
    BY <1>3, <1>4, <1>5, <2>4, <2>7, <2>8, OneMore
  <2>10. ASSUME NEW h \in Compiles \ {k} PROVE Reports(batch[h], Log(wrote'), h)
    BY <1>1, <1>4, <1>5, <2>7, <2>8, OthersReport DEF CompileInv
  <2>11. /\ wrote' \in Seq(NoteType) /\ Len(wrote') = Len(wrote) + 1 /\ wrote'[Len(wrote) + 1] = note
         /\ \A i \in 1..Len(wrote) : wrote'[i] = wrote[i]
    BY <1>6, <1>17, <2>7, AppendFacts
  <2>12. \A i \in DOMAIN wrote' : NoteFits(wrote'[i], means)
    BY <2>7, <2>11, <1>6 DEF CompileInv
  <2>13. tried' \in [Compiles -> Seq(Seq(Nat))] /\ \A h \in Compiles \ {k} : tried'[h] = tried[h]
    BY <1>3, <1>4 DEF CompileTyped
  <2>14. QED
    BY <1>3, <2>3, <2>4, <2>6, <2>9, <2>10, <2>11, <2>12, <2>13, CompileFrame
<1>18. QED
  BY <1>12, <1>14, <1>15, <1>16, <1>17

LEMMA CompileSteps ==
  ASSUME CompileInv, CompileNext PROVE CompileInv'
<1>1. ASSUME NEW k \in Compiles,
             \/ CompileBatch(k)
             \/ FindRelated(k) \/ PlanFails(k) \/ \E text \in order.answers : PlanBatchUpdates(k, text)
             \/ EndPlan(k) \/ TakeEntry(k) \/ ResolveTag(k) \/ Resolved1(k) \/ WriteEntry(k)
      PROVE  CompileInv'
  BY <1>1, CompileBatchLemma, FindRelatedLemma, PlanFailsLemma, PlanLemma, EndPlanLemma, TakeEntryLemma,
     ResolveTagLemma, ResolvedLemma, WriteEntryLemma
<1>2. QED
  BY <1>1, MergeLemma DEF CompileNext

LEMMA CompileStays ==
  ASSUME CompileInv, UNCHANGED compileVars PROVE CompileInv'
BY DEF compileVars, CompileInv, CompileTyped

\* What the invariant says of a run.
LEMMA ShownOnceTrue ==
  ASSUME CompileInv PROVE ShownOnce
<1>1. ASSUME NEW k \in Compiles, batch[k].at # "idle"
      PROVE  LET limit == batch[k].budget
                 items == [i \in DOMAIN batch[k].import.items |-> Truncated(batch[k].import.items[i], limit)]
                 chunks == Chunked(batch[k].import.items, limit)
             IN /\ FlattenSeq(chunks) = items
                /\ \A i \in DOMAIN chunks : Total(chunks[i]) <= limit
                /\ \A ends \in Cuts(items, limit) : Len(chunks) <= Cardinality(ends)
                /\ \E p \in [DOMAIN tried[k] -> DOMAIN chunks] :
                     /\ \A i, j \in DOMAIN p : i < j => p[i] < p[j]
                     /\ tried[k] = [i \in DOMAIN p |-> chunks[p[i]]]
                     /\ \A c \in 1..(batch[k].chunk - 1) : c \in batch[k].failed \/ \E i \in DOMAIN p : p[i] = c
  <2>1. PICK b, t : b = batch[k] /\ t = tried[k]
    OBVIOUS
  <2>2. PICK chunks, items : chunks = Chunked(b.import.items, b.budget) /\ items = SizesOf(b.import.items, b.budget)
    OBVIOUS
  <2>3. /\ b.import \in Import /\ b.import.items # <<>> /\ b.budget = Budget(b.import)
        /\ ShownTo(t, chunks, b.chunk, b.failed, b.at \in Executing)
    BY <1>1, <2>1, <2>2 DEF CompileInv, Shows
  <2>4. b.import.items \in Seq(Nat) /\ b.budget \in Nat /\ Reserve <= b.budget
    BY <2>3, BudgetFacts DEF Import
  <2>5. /\ Within(chunks, b.budget) /\ FlattenSeq(chunks) = items
        /\ \A ends \in Cuts(items, b.budget) : Len(chunks) <= Cardinality(ends)
    BY <2>2, <2>3, <2>4, ChunkedFacts
  <2>6. \A i \in DOMAIN chunks : Total(chunks[i]) <= b.budget
    BY <2>5 DEF Within
  <2>7. \E p \in [DOMAIN t -> DOMAIN chunks] :
          /\ \A i, j \in DOMAIN p : i < j => p[i] < p[j]
          /\ t = [i \in DOMAIN p |-> chunks[p[i]]]
          /\ \A c \in 1..(b.chunk - 1) : c \in b.failed \/ \E i \in DOMAIN p : p[i] = c
    BY <2>3 DEF ShownTo
  <2>8. items = [i \in DOMAIN b.import.items |-> Truncated(b.import.items[i], b.budget)]
    BY <2>2 DEF SizesOf
  <2>9. QED
    BY <2>1, <2>2, <2>5, <2>6, <2>7, <2>8
<1>2. QED
  BY <1>1 DEF ShownOnce, In

LEMMA ReportsTrueTrue ==
  ASSUME CompileInv PROVE ReportsTrue
<1>1. Log(wrote) \in Seq(LogType)
  BY LogFacts DEF CompileInv, CompileTyped
<1>2. PICK log : log = Log(wrote)
  OBVIOUS
<1>3. log \in Seq(LogType) /\ \A i \in DOMAIN log : log[i][2] \in Nat
  BY <1>1, <1>2 DEF LogType
<1>4. ASSUME NEW k \in Compiles, batch[k].at = "done"
      PROVE  /\ batch[k].told = Verbs(Written(log, k, (1..batch[k].chunk) \ batch[k].failed))
             /\ \A c \in 1..batch[k].chunk : Len(Written(log, k, {c})) <= MaxUpdates
  <2>1. PICK b : b = batch[k]
    OBVIOUS
  <2>2. Reports(b, log, k) /\ b.chunk \in Nat /\ b.at = "done"
    BY <1>2, <1>4, <2>1 DEF CompileInv, CompileTyped, BatchType
  <2>3. PICK S, R : S = (1..b.chunk) \ b.failed /\ R = Nat \ (b.failed \cup {b.chunk})
    OBVIOUS
  <2>4. b.at \notin Executing
    BY <2>2 DEF Executing
  <2>5. \A i \in DOMAIN log : log[i][1] = k => log[i][2] > 0 /\ log[i][2] < b.chunk
    BY <2>2, <2>4 DEF Reports
  <2>6. \A i \in DOMAIN log : log[i][1] = k => (log[i][2] \in S <=> log[i][2] \in R)
    BY <1>3, <2>2, <2>3, <2>5
  <2>7. Written(log, k, S) = Written(log, k, R)
    BY <1>3, <2>6, WrittenSame
  <2>8. b.told = Verbs(Written(log, k, R))
    BY <2>2, <2>3 DEF Reports
  <2>9. \A c \in 1..b.chunk : Len(Written(log, k, {c})) <= MaxUpdates
    BY <2>2 DEF Reports
  <2>10. QED
    BY <2>1, <2>3, <2>7, <2>8, <2>9
<1>5. \A i \in DOMAIN wrote : IsInjective(wrote[i].stubs)
  BY DEF CompileInv, NoteFits
<1>6. QED
  BY <1>2, <1>4, <1>5 DEF ReportsTrue, In

LEMMA TagsMeanTrue ==
  ASSUME CompileInv PROVE TagsMean
<1>1. ASSUME NEW i \in DOMAIN wrote, wrote[i].wired
      PROVE  LET tags == wrote[i].tags IN
             /\ \A j \in DOMAIN tags : means[tags[j]] \in Words /\ means[means[tags[j]]] = means[tags[j]]
             /\ ~wrote[i].crossed => IsInjective(tags) /\ \A j \in DOMAIN tags : means[tags[j]] = tags[j]
             /\ \A w \in wrote[i].asked : \E j \in DOMAIN tags : means[tags[j]] = means[w]
             /\ Len(tags) <= MaxTags
  <2>1. PICK note : note = wrote[i]
    OBVIOUS
  <2>2. TagsFit(note.tags, note.crossed, note.asked, means) /\ Len(note.tags) <= MaxTags /\ note \in NoteType
    BY <1>1, <2>1 DEF CompileInv, NoteFits, CompileTyped
  <2>3. note.tags \in Seq(Words)
    BY <2>2 DEF NoteType
  <2>4. \A j \in DOMAIN note.tags : note.tags[j] \in Words
    BY <2>3
  <2>5. \A w \in Words : means[w] \in Words => means[means[w]] = means[w]
    BY DEF CompileInv, CompileTyped
  <2>6. \A j \in DOMAIN note.tags : means[note.tags[j]] \in Words /\ means[means[note.tags[j]]] = means[note.tags[j]]
    BY <2>2, <2>4, <2>5 DEF TagsFit
  <2>7. QED
    BY <2>1, <2>2, <2>6 DEF TagsFit
<1>2. QED
  BY <1>1 DEF TagsMean

LEMMA CompileTrue == CompileInv => CompileSound
BY ShownOnceTrue, ReportsTrueTrue, TagsMeanTrue DEF CompileSound

-----------------------------------------------------------------------------
\* How a request is answered.

\* Where a request is, and what it has.
Retrieving == {"index", "read", "fallback", "own"}
Searches == {"vectors", "listing", "graph", "texts"}
PathSet == [of: Texts, in: Folders]
Standings == Retrieving \cup Searches \cup {"none", "done", "failed"}
AskSet == [at: Standings, want: Wants \cup {Nowhere}, dirs: Seq(Folders), left: Seq(PathSet), total: Nat]
AskTyped(a) ==
  /\ a \in AskSet
  /\ a.at = "none" \/ (a.want \in Wants /\ a.at \in Retrieving \cup Searches \cup {"done", "failed"})
\* Where a request may be.
Stands(a, r) ==
  /\ a.at \in Retrieving => a.want.by \in {"agent", "skill", "chat"}
  /\ a.at \in Searches => a.want.by \in {"search", "knowledge"}
  /\ a.at = "own" => a.want.by \in {"skill", "chat"}
  /\ a.at = "index" => r = <<>> /\ a.left = <<>> /\ a.dirs = a.want.dirs /\ a.total = 0
  /\ a.at = "read" => a.dirs = <<>>
  /\ a.at \in Searches /\ a.want.by = "search" => r = <<>>
  /\ a.at = "texts" => a.want.by = "knowledge"

SizesIn(r) == [i \in DOMAIN r |-> r[i].size]
GivenBy(r) == {r[i].of : i \in DOMAIN r}
InBudget(a, r) ==
  a.at # "none" /\ a.want.by \in {"agent", "skill", "chat"} =>
    /\ a.at \in {"read", "fallback", "own"} => Total(SizesIn(r)) <= a.total
    /\ \/ Total(SizesIn(r)) <= a.want.chars
       \/ a.want.by = "chat" /\ Total(SizesIn(r)) - Last(SizesIn(r)) < a.want.chars

\* No text twice.
OnceGiven(r, gone) == \A i, j \in DOMAIN r : i # j /\ r[i].of = r[j].of => r[i].of \in gone
OnceLeft(dirs, rest, r, at, gone) ==
  /\ IsInjective(dirs)
  /\ \A i \in DOMAIN rest : rest[i].in \notin ToSet(dirs)
  /\ \A n \in GivenBy(r) \ gone :
       /\ at[n] \notin ToSet(dirs)
       /\ \A i \in DOMAIN rest : rest[i].of = n => rest[i].in # at[n]
\* A found sequence of paths, each note once.
Distinct(s) == \A i, j \in DOMAIN s : s[i].of = s[j].of => i = j
Once(a, r, at, gone) ==
  a.at # "none" /\ IsInjective(a.want.dirs) /\ a.want.by # "knowledge" =>
    /\ OnceGiven(r, gone) /\ IsInjective(a.left)
    /\ a.at \in Retrieving => OnceLeft(a.dirs, a.left, r, at, gone)
    /\ a.at \in Searches => Distinct(a.left)

\* The newest first.
Passed(r, at, was, gone, m) == m \in Texts \ (gone \cup Garbled \cup GivenBy(r)) /\ was[m] = at[m]
GivenNewest(r, at, was, gone) ==
  \A m \in Texts : Passed(r, at, was, gone, m) =>
    \A n \in GivenBy(r) \ gone : at[n] = at[m] => Order[m] <= Order[n]
LeftNewest(rest, r, at, was, gone) ==
  \A m \in Texts, i \in DOMAIN rest :
    /\ Passed(r, at, was, gone, m) /\ rest[i].of \notin gone
    /\ rest[i].in = at[rest[i].of] /\ rest[i].in = at[m] /\ Order[m] > Order[rest[i].of]
    => \E j \in 1..(i - 1) : rest[j] = [of |-> m, in |-> at[m]]
NewestFirst(a, r, at, was, gone) ==
  a.at \in Retrieving \cup {"done"} /\ a.want.by \in {"agent", "chat"} =>
    GivenNewest(r, at, was, gone) /\ LeftNewest(a.left, r, at, was, gone)

\* What an empty answer is excused by.
Excused(w, at, was) ==
  \/ \E n \in Texts : was[n] \notin {at[n], Nowhere}
  \/ \E n \in Garbled : at[n] \in ToSet(w.dirs)
FindsSome(a, at) ==
  /\ ToSet(a.dirs) \subseteq ToSet(a.want.dirs)
  /\ \A i \in DOMAIN a.left : a.left[i].in = at[a.left[i].of] /\ a.left[i].in \in ToSet(a.want.dirs)
  /\ a.at = "read" => a.left # <<>>
  /\ a.at = "done" => \A n \in Texts : at[n] \notin ToSet(a.want.dirs)
  /\ a.at \in {"fallback", "own"} =>
       a.left # <<>> \/ \A n \in Texts : at[n] \in ToSet(a.want.dirs) => at[n] \in ToSet(a.dirs)
Finds(a, r, at, was, gone) ==
  a.at \in Retrieving \cup {"done"} /\ a.want.by \in {"agent", "skill", "chat"} /\ gone = {}
  /\ r = <<>> /\ a.total < a.want.chars /\ ~Excused(a.want, at, was) => FindsSome(a, at)

Fails(a, what) ==
  a.at = "failed" => "unexpected" \in what \/ (a.want.by = "skill" /\ a.left # <<>> /\ Head(a.left).of \in Garbled)


\* The first of a sequence.
LEMMA UptoFacts ==
  ASSUME NEW S, NEW s \in Seq(S), NEW n \in Nat
  PROVE  /\ Upto(s, n) \in Seq(S) /\ Len(Upto(s, n)) = IF n < Len(s) THEN n ELSE Len(s)
         /\ Len(Upto(s, n)) <= Len(s)
         /\ \A i \in 1..Len(Upto(s, n)) : i \in 1..Len(s) /\ Upto(s, n)[i] = s[i]
         /\ IsInjective(s) => IsInjective(Upto(s, n))
BY DEF Upto, IsInjective

\* A listing has the notes of its folders, the newest first, and if the folders differ once.
ListingRight(s, where, dirs) ==
  /\ s \in Seq(PathSet) /\ DOMAIN s = 1..Len(s) /\ Len(s) \in Nat
  /\ \A i \in DOMAIN s : s[i].of \in Texts /\ s[i].in = where[s[i].of] /\ s[i].in \in ToSet(dirs)
  /\ \A i, j \in DOMAIN s : i < j => Order[s[i].of] >= Order[s[j].of]
  /\ \A n \in Texts : where[n] \in ToSet(dirs) => \E i \in DOMAIN s : s[i] = [of |-> n, in |-> where[n]]
  /\ IsInjective(dirs) => IsInjective(s)

LEMMA ListingFacts ==
  ASSUME NEW where, NEW dirs \in Seq(Folders), NEW s \in Listings(where, dirs)
  PROVE  ListingRight(s, where, dirs)
<1> DEFINE found == {e \in Texts \X DOMAIN dirs : where[e[1]] = dirs[e[2]]}
           paths == PathsIn(where, ToSet(dirs))
           at(p) == {i \in DOMAIN s : s[i] = p}
           in(p) == {k \in DOMAIN dirs : dirs[k] = p.in}
<1>1. Cardinality(found) \in Nat
  <2>1. IsFiniteSet(Texts) /\ DOMAIN dirs = 1..Len(dirs) /\ Len(dirs) \in Nat
    BY RetrievalAssumption
  <2>2. IsFiniteSet(1..Len(dirs))
    BY <2>1, FS_Interval
  <2>3. IsFiniteSet(Texts \X DOMAIN dirs)
    BY <2>1, <2>2, FS_Product
  <2>4. found \in SUBSET (Texts \X DOMAIN dirs)
    OBVIOUS
  <2>5. QED
    BY <2>3, <2>4, FS_Subset, FS_CardinalityType
<1>2. PICK count : count = Cardinality(found)
  OBVIOUS
<1>3. /\ s \in [1..count -> paths] /\ count \in Nat
      /\ \A i, j \in DOMAIN s : i < j => Order[s[i].of] >= Order[s[j].of]
      /\ \A p \in paths : Cardinality(at(p)) = Cardinality(in(p))
  BY <1>1, <1>2 DEF Listings
<1> HIDE DEF found
<1>4. DOMAIN s = 1..Len(s) /\ Len(s) \in Nat /\ Len(s) = count
  BY <1>3
<1>5. \A p \in paths : p \in PathSet /\ p.of \in Texts /\ p.in = where[p.of] /\ p.in \in ToSet(dirs)
                       /\ p = [of |-> p.of, in |-> where[p.of]]
  BY DEF ToSet, PathsIn, PathSet
<1>6. s \in Seq(PathSet)
  BY <1>3, <1>5
<1>7. \A i \in DOMAIN s : s[i] \in paths
  BY <1>3
<1>8. \A p \in paths : IsFiniteSet(at(p)) /\ IsFiniteSet(in(p))
  BY <1>3, FS_Interval, FS_Subset
<1>9. \A n \in Texts : where[n] \in ToSet(dirs) => \E i \in DOMAIN s : s[i] = [of |-> n, in |-> where[n]]
  <2> SUFFICES ASSUME NEW n \in Texts, where[n] \in ToSet(dirs)
               PROVE  \E i \in DOMAIN s : s[i] = [of |-> n, in |-> where[n]]
    OBVIOUS
  <2>1. PICK p : p = [of |-> n, in |-> where[n]]
    OBVIOUS
  <2>2. p \in paths /\ p.in = where[n]
    BY <2>1 DEF PathsIn
  <2>3. in(p) # {}
    BY <2>2 DEF ToSet
  <2>4. at(p) # {}
    BY <1>3, <1>8, <2>2, <2>3, FS_EmptySet
  <2>5. QED
    BY <2>1, <2>4
<1>10. IsInjective(dirs) => IsInjective(s)
  <2> SUFFICES ASSUME IsInjective(dirs), NEW i \in DOMAIN s, NEW j \in DOMAIN s, s[i] = s[j]
               PROVE  i = j
    BY DEF IsInjective
  <2>1. PICK p : p = s[i]
    OBVIOUS
  <2>2. p \in paths /\ p.in \in ToSet(dirs)
    BY <1>5, <1>7, <2>1
  <2>3. PICK k \in DOMAIN dirs : dirs[k] = p.in
    BY <2>2 DEF ToSet
  <2>4. in(p) = {k}
    BY <2>3 DEF IsInjective
  <2>5. Cardinality(at(p)) = 1
    BY <1>3, <2>2, <2>4, FS_Singleton
  <2>6. PICK x : at(p) = {x}
    BY <1>8, <2>2, <2>5, FS_Singleton
  <2>7. i \in at(p) /\ j \in at(p)
    BY <2>1
  <2>8. QED
    BY <2>6, <2>7
<1>11. QED
  BY <1>3, <1>4, <1>5, <1>6, <1>7, <1>9, <1>10 DEF ListingRight

\* Any sequence of some paths.
LEMMA AnyOrder ==
  ASSUME NEW S, IsFiniteSet(S), NEW s \in SetToSeqs(S)
  PROVE  s \in Seq(S) /\ IsInjective(s)
BY FS_CardinalityType DEF SetToSeqs, IsInjective

LEMMA PathsFinite ==
  ASSUME NEW where, NEW dirs
  PROVE  IsFiniteSet(PathsIn(where, dirs))
<1> DEFINE T == {n \in Texts : where[n] \in dirs}
           thePaths == PathsIn(where, dirs)
           f == [n \in T |-> [of |-> n, in |-> where[n]]]
<1>1. IsFiniteSet(T)
  BY RetrievalAssumption, FS_Subset
<1>2. f \in Surjection(T, thePaths)
  BY DEF PathsIn, Surjection
<1>3. QED
  BY <1>1, <1>2, FS_Surjection

LEMMA PathsDistinct ==
  ASSUME NEW where, NEW dirs, dirs \subseteq Folders, NEW S, S \subseteq PathsIn(where, dirs),
         NEW s \in SetToSeqs(S), NEW n \in Nat
  PROVE  /\ Upto(s, n) \in Seq(PathSet) /\ IsInjective(Upto(s, n)) /\ Distinct(Upto(s, n))
<1>1. IsFiniteSet(S)
  BY PathsFinite, FS_Subset
<1>2. s \in Seq(S) /\ IsInjective(s)
  BY <1>1, AnyOrder
<1>3. \A p \in S : p \in PathSet /\ p = [of |-> p.of, in |-> where[p.of]]
  BY DEF PathsIn, PathSet
<1>4. s \in Seq(PathSet)
  BY <1>2, <1>3
<1>5. PICK u : u = Upto(s, n)
  OBVIOUS
<1>6. u \in Seq(PathSet) /\ IsInjective(u) /\ \A i \in 1..Len(u) : i \in 1..Len(s) /\ u[i] = s[i]
  BY <1>2, <1>4, <1>5, UptoFacts
<1>7. \A i \in 1..Len(u) : u[i] \in S
  BY <1>2, <1>6
<1>8. Distinct(u)
  BY <1>6, <1>3, <1>7 DEF Distinct, IsInjective
<1>9. QED
  BY <1>5, <1>6, <1>8

\* From the end.
LEMMA ReverseFacts ==
  ASSUME NEW S, NEW s \in Seq(S)
  PROVE  /\ Reverse(s) \in Seq(S) /\ Len(Reverse(s)) = Len(s)
         /\ \A i \in 1..Len(s) : (Len(s) - i) + 1 \in 1..Len(s) /\ Reverse(s)[i] = s[(Len(s) - i) + 1]
         /\ IsInjective(s) => IsInjective(Reverse(s))
BY DEF Reverse, IsInjective

\* What a step makes of a request a and the texts r it has: b and t.
Has(b, at, want, dirs, rest, total) ==
  /\ b \in AskSet
  /\ b.at = at /\ b.want = want /\ b.dirs = dirs /\ b.left = rest /\ b.total = total
Full1(a) == a.total >= a.want.chars
Reader(a) == a.at \in {"read", "fallback", "own"}

Falls(a, b, r, t) ==
  /\ a.at = "index" /\ t = r
  /\ \E at \in {"fallback", "own"} :
       /\ Has(b, at, a.want, a.want.dirs, <<>>, 0)
       /\ at = "own" => a.want.by \in {"skill", "chat"}
Lost(a, b, r, t, what) ==
  /\ a.at # "none" /\ t = r /\ Has(b, "failed", a.want, a.dirs, a.left, a.total)
  /\ "unexpected" \in what \/ (a.want.by = "skill" /\ a.left # <<>> /\ Head(a.left).of \in Garbled)
Completes(a, b, r, t) ==
  /\ a.at \in {"read", "fallback", "own", "texts"} /\ t = r /\ a.left = <<>>
  /\ Has(b, "done", a.want, a.dirs, a.left, a.total)
  /\ a.at \in {"fallback", "own"} => Full1(a) \/ a.dirs = <<>>
Lists1(a, b, r, t, index) ==
  /\ a.at = "index" /\ t = r
  /\ \E s \in Listings(index, a.want.dirs) :
       /\ Upto(s, a.want.top) # <<>>
       /\ Has(b, "read", a.want, <<>>, Upto(Upto(s, a.want.top), Newest),
                   Row * (Len(Upto(s, a.want.top)) + 1))
ListsNext(a, b, r, t, at) ==
  /\ a.at \in {"fallback", "own"} /\ t = r /\ a.left = <<>> /\ a.dirs # <<>>
  /\ \E s \in Listings(at, <<Head(a.dirs)>>) :
     \E rest \in Seq(PathSet) :
       /\ rest \in {s, Upto(s, a.want.top)} \/ (a.want.by = "skill" /\ rest = Upto(Reverse(s), a.want.top))
       /\ Has(b, a.at, a.want, Tail(a.dirs), rest, a.total)
DropsRest(a, b, r, t) ==
  /\ Reader(a) /\ Full1(a) /\ t = r /\ Has(b, a.at, a.want, a.dirs, <<>>, a.total)
Skips(a, b, r, t, at) ==
  /\ Reader(a) \/ a.at = "texts"
  /\ a.left # <<>> /\ t = r
  /\ at[Head(a.left).of] # Head(a.left).in \/ Head(a.left).of \in Garbled
  /\ Has(b, a.at, a.want, a.dirs, Tail(a.left), a.total)
TakesOne(a, b, r, t, at) ==
  /\ Reader(a) /\ ~Full1(a) /\ a.left # <<>>
  /\ at[Head(a.left).of] = Head(a.left).in /\ Head(a.left).of \notin Garbled
  /\ \E size \in Nat :
       /\ (a.at = "own" /\ a.want.by = "chat") \/ size <= a.want.chars - a.total
       /\ t = Append(r, [of |-> Head(a.left).of, size |-> size])
       /\ Has(b, a.at, a.want, a.dirs, Tail(a.left), a.total + size)
TakesWhole(a, b, r, t) ==
  /\ a.at = "texts" /\ a.left # <<>>
  /\ \E size \in Nat : t = Append(r, [of |-> Head(a.left).of, size |-> size])
  /\ Has(b, a.at, a.want, a.dirs, Tail(a.left), a.total)
Finds1(a, b, r, t) ==
  /\ a.at \in {"vectors", "listing"} /\ t = r
  /\ \E rest \in Seq(PathSet), at \in {"graph", "texts"} :
       /\ IsInjective(rest) /\ Distinct(rest)
       /\ at = "texts" => a.want.by # "search"
       /\ Has(b, at, a.want, a.dirs, rest, a.total)
TurnsTo(a, b, r, t) ==
  /\ a.at \in {"vectors", "texts"} /\ t = r
  /\ \E rest \in {a.left, <<>>} : Has(b, "listing", a.want, a.dirs, rest, a.total)
AddsContext(a, b, r, t, what) ==
  /\ a.at = "graph" /\ t = r \o [i \in 1..Len(a.left) |-> [of |-> a.left[i].of, size |-> 0]]
  /\ \E at \in {"done", "failed"} :
       /\ at = "failed" => "unexpected" \in what
       /\ Has(b, at, a.want, a.dirs, a.left, a.total)

Asks(a, b, t) ==
  /\ a.at = "none" /\ t = <<>>
  /\ \E w \in Wants, at \in {"index", "own", "vectors", "listing"} :
       /\ Has(b, at, w, w.dirs, <<>>, 0)
       /\ at \in {"index", "own"} => w.by \in {"agent", "skill", "chat"}
       /\ at = "own" => w.by \in {"skill", "chat"}
       /\ at \in {"vectors", "listing"} => w.by \in {"search", "knowledge"}
Ends(b, t) == b = NoAsk /\ t = <<>>

\* What a request's own step is.
RequestGoes(a, b, r, t, index, at, what) ==
  \/ Falls(a, b, r, t) \/ Lost(a, b, r, t, what) \/ Completes(a, b, r, t)
  \/ Lists1(a, b, r, t, index) \/ ListsNext(a, b, r, t, at) \/ DropsRest(a, b, r, t)
  \/ Skips(a, b, r, t, at) \/ TakesOne(a, b, r, t, at) \/ TakesWhole(a, b, r, t)
  \/ Finds1(a, b, r, t) \/ TurnsTo(a, b, r, t) \/ AddsContext(a, b, r, t, what)
OwnStep == RequestGoes(ask, ask', reply, reply', listed, place, missed')

LEMMA AskIs ==
  ASSUME AskTyped(ask)
  PROVE  /\ ask \in AskSet /\ ask.at \in Standings
         /\ ask.total \in Nat /\ ask.left \in Seq(PathSet) /\ ask.dirs \in Seq(Folders)
         /\ ask.at # "none" => ask.want \in Wants
BY DEF AskTyped, AskSet

LEMMA Where ==
  /\ "index" \in Standings /\ "read" \in Standings /\ "fallback" \in Standings /\ "own" \in Standings
  /\ "vectors" \in Standings /\ "listing" \in Standings /\ "graph" \in Standings /\ "texts" \in Standings
  /\ "done" \in Standings /\ "failed" \in Standings
BY DEF Standings, Retrieving, Searches

\* What each assignment to it does.
LEMMA AtIs ==
  ASSUME NEW a \in AskSet, NEW x \in Standings
  PROVE  Has([a EXCEPT !.at = x], x, a.want, a.dirs, a.left, a.total)
BY DEF AskSet, Has
LEMMA LeftIs ==
  ASSUME NEW a \in AskSet, NEW x \in Seq(PathSet)
  PROVE  Has([a EXCEPT !.left = x], a.at, a.want, a.dirs, x, a.total)
BY DEF AskSet, Has
LEMMA DirsLeftIs ==
  ASSUME NEW a \in AskSet, NEW x \in Seq(Folders), NEW y \in Seq(PathSet)
  PROVE  Has([a EXCEPT !.dirs = x, !.left = y], a.at, a.want, x, y, a.total)
BY DEF AskSet, Has
LEMMA AtLeftIs ==
  ASSUME NEW a \in AskSet, NEW x \in Standings, NEW y \in Seq(PathSet)
  PROVE  Has([a EXCEPT !.at = x, !.left = y], x, a.want, a.dirs, y, a.total)
BY DEF AskSet, Has
LEMMA AllIs ==
  ASSUME NEW a \in AskSet, NEW x \in Standings, NEW y \in Seq(Folders), NEW z \in Seq(PathSet), NEW w \in Nat
  PROVE  Has([a EXCEPT !.at = x, !.dirs = y, !.left = z, !.total = w], x, a.want, y, z, w)
BY DEF AskSet, Has
LEMMA LeftTotalIs ==
  ASSUME NEW a \in AskSet, NEW x \in Seq(PathSet), NEW y \in Nat
  PROVE  Has([[a EXCEPT !.left = x] EXCEPT !.total = a.total + y], a.at, a.want, a.dirs, x, a.total + y)
<1>1. PICK b : b = [a EXCEPT !.left = x]
  OBVIOUS
<1>2. Has(b, a.at, a.want, a.dirs, x, a.total)
  BY <1>1, LeftIs
<1>3. PICK z : z = a.total + y
  OBVIOUS
<1>4. z \in Nat
  BY <1>3 DEF AskSet
<1>5. Has([b EXCEPT !.total = z], b.at, b.want, b.dirs, b.left, z)
  BY ONLY <1>2, <1>4 DEF AskSet, Has
<1>6. QED
  BY <1>1, <1>2, <1>3, <1>5 DEF Has
LEMMA NewIs ==
  ASSUME NEW w \in Wants, NEW x \in Standings, NEW y \in Seq(Folders)
  PROVE  Has([NoAsk EXCEPT !.at = x, !.want = w, !.dirs = y], x, w, y, <<>>, 0)
<1>1. /\ NoAsk.at = "none" /\ NoAsk.want = Nowhere /\ NoAsk.dirs = <<>> /\ NoAsk.left = <<>> /\ NoAsk.total = 0
      /\ NoAsk = [at |-> NoAsk.at, want |-> NoAsk.want, dirs |-> NoAsk.dirs, left |-> NoAsk.left, total |-> NoAsk.total]
  BY DEF NoAsk
<1>2. NoAsk \in AskSet
  BY DEF Standings, AskSet, NoAsk
<1>3. PICK a : a = NoAsk
  OBVIOUS
<1>4. Has([a EXCEPT !.at = x, !.want = w, !.dirs = y], x, w, y, a.left, a.total)
  BY ONLY <1>2, <1>3, x \in Standings, w \in Wants, y \in Seq(Folders) DEF AskSet, Has
<1>5. QED
  BY <1>1, <1>3, <1>4

LEMMA WantFacts ==
  ASSUME NEW w \in Wants
  PROVE  /\ w.by \in {"agent", "skill", "chat", "search", "knowledge"}
         /\ w.dirs \in Seq(Folders) /\ w.chars \in Nat /\ w.top \in Nat \ {0} /\ w.top \in Nat
BY RetrievalAssumption DEF Want

LEMMA RequestKind ==
  ASSUME NEW w \in Wants, Request(w)
  PROVE  /\ Asks(ask, ask', reply') /\ had' = listed /\ moved' = {} /\ missed' = {}
         /\ UNCHANGED <<place, listed, embedded>>
<1>1. PICK at \in CASE w.by = "chat" -> {"index", "own"}
                 [] w.by = "skill" -> {"index", "own"}
                 [] w.by \in {"search", "knowledge"} -> {"vectors", "listing"}
                 [] OTHER -> {"index"} : ask' = [NoAsk EXCEPT !.at = at, !.want = w, !.dirs = w.dirs]
  BY DEF Request, Goes1
<1>2. w.by \in {"agent", "skill", "chat", "search", "knowledge"}
  BY WantFacts
<1>3. /\ at \in {"index", "own", "vectors", "listing"}
      /\ at \in {"index", "own"} => w.by \in {"agent", "skill", "chat"}
      /\ at = "own" => w.by \in {"skill", "chat"}
      /\ at \in {"vectors", "listing"} => w.by \in {"search", "knowledge"}
  BY <1>1, <1>2
<1>4. Has(ask', at, w, w.dirs, <<>>, 0)
  BY <1>1, <1>3, WantFacts, NewIs, Where
<1>5. ask.at = "none" /\ reply' = <<>> /\ had' = listed /\ moved' = {} /\ missed' = {}
      /\ UNCHANGED <<place, listed, embedded>>
  BY DEF Request, Asking
<1>6. QED
  BY <1>3, <1>4, <1>5 DEF Asks

LEMMA IndexKinds ==
  ASSUME AskTyped(ask), Stands(ask, reply), IndexRetrieve \/ (\E expected \in BOOLEAN : IndexRaises(expected))
  PROVE  OwnStep
<1> USE AskIs
<1>1. ask.at = "index"
  BY DEF IndexRetrieve, IndexRaises, Asking
<1>2. ask.want \in Wants /\ ask.want.by \in {"agent", "skill", "chat"}
  BY <1>1 DEF Stands, Retrieving
<1>3. Has(FallbackTo("fallback"), "fallback", ask.want, ask.want.dirs, <<>>, 0)
      /\ Has(FallbackTo("own"), "own", ask.want, ask.want.dirs, <<>>, 0)
  <2>1. ask.want.dirs \in Seq(Folders) /\ <<>> \in Seq(PathSet) /\ 0 \in Nat
    BY <1>2, WantFacts
  <2>2. \A at \in Standings : Has(FallbackTo(at), at, ask.want, ask.want.dirs, <<>>, 0)
    BY <2>1, AllIs DEF FallbackTo, Wanted
  <2>3. QED
    BY <2>2, Where
<1>4. CASE IndexRetrieve
  <2>1. PICK s \in Listings(listed, ask.want.dirs) :
          ask' = IF Upto(s, ask.want.top) = <<>> THEN FallbackTo("fallback")
                 ELSE [ask EXCEPT !.at = "read", !.dirs = <<>>, !.left = Upto(Upto(s, ask.want.top), Newest),
                                  !.total = Row * (Len(Upto(s, ask.want.top)) + 1)]
    BY <1>4 DEF IndexRetrieve, Wanted, Goes1
  <2>2. reply' = reply
    BY <1>4 DEF IndexRetrieve
  <2>3. CASE Upto(s, ask.want.top) = <<>>
    BY <1>1, <1>3, <2>1, <2>2, <2>3 DEF OwnStep, RequestGoes, Falls
  <2>4. CASE Upto(s, ask.want.top) # <<>>
    <3>1. Has(ask', "read", ask.want, <<>>, Upto(Upto(s, ask.want.top), Newest),
                      Row * (Len(Upto(s, ask.want.top)) + 1))
      <4>1. Upto(s, ask.want.top) \in Seq(PathSet) /\ Len(Upto(s, ask.want.top)) \in Nat
        BY <1>2, WantFacts, ListingFacts, UptoFacts DEF ListingRight
      <4>2. Upto(Upto(s, ask.want.top), Newest) \in Seq(PathSet)
        BY <4>1, UptoFacts, RetrievalAssumption
      <4>3. Row * (Len(Upto(s, ask.want.top)) + 1) \in Nat
        BY <4>1, RetrievalAssumption
      <4>4. <<>> \in Seq(Folders)
        OBVIOUS
      <4>5. QED
        BY <2>1, <2>4, <4>2, <4>3, <4>4, AllIs, Where
    <3>2. QED
      BY <1>1, <2>2, <2>4, <3>1 DEF OwnStep, RequestGoes, Lists1
  <2>5. QED
    BY <2>3, <2>4
<1>5. CASE \E expected \in BOOLEAN : IndexRaises(expected)
  <2>1. PICK expected \in BOOLEAN : IndexRaises(expected)
    BY <1>5
  <2>2. /\ ask' = IF expected THEN FallbackTo("fallback")
                  ELSE IF ask.want.by \in {"skill", "chat"} THEN FallbackTo("own")
                  ELSE [ask EXCEPT !.at = "failed"]
        /\ reply' = reply /\ missed' = missed \cup {IF expected THEN "expected" ELSE "unexpected"}
    BY <2>1 DEF IndexRaises, Wanted, Goes1
  <2>3. Has([ask EXCEPT !.at = "failed"], "failed", ask.want, ask.dirs, ask.left, ask.total)
    BY AtIs, Where
  <2>4. CASE expected \/ ask.want.by \in {"skill", "chat"}
    BY <1>1, <1>3, <2>2, <2>4 DEF OwnStep, RequestGoes, Falls
  <2>5. CASE ~expected /\ ask.want.by \notin {"skill", "chat"}
    BY <2>2, <2>3, <2>5, <1>1 DEF OwnStep, RequestGoes, Lost
  <2>6. QED
    BY <2>4, <2>5
<1>6. QED
  BY <1>4, <1>5

LEMMA ListKinds ==
  ASSUME AskTyped(ask), Stands(ask, reply), FallbackList \/ OwnList \/ ReadAll
  PROVE  OwnStep
<1> USE AskIs
<1>1. ask.at \in {"read", "fallback", "own"} /\ ask.left = <<>> /\ reply' = reply
  BY DEF FallbackList, OwnList, ReadAll, Asking
<1>2. Has([ask EXCEPT !.at = "done"], "done", ask.want, ask.dirs, ask.left, ask.total)
  BY AtIs, Where
<1>3. Full <=> Full1(ask)
  BY DEF Full, Full1, Wanted
<1>4. CASE ReadAll \/ Full \/ ask.dirs = <<>>
  <2>1. ask' = [ask EXCEPT !.at = "done"] /\ (ReadAll => ask.at = "read")
    BY <1>4 DEF FallbackList, OwnList, ReadAll, Goes1, Asking
  <2>2. QED
    BY <1>1, <1>2, <1>3, <1>4, <2>1 DEF OwnStep, RequestGoes, Completes
<1>5. CASE ~ReadAll /\ ~Full /\ ask.dirs # <<>>
  <2>1. PICK s \in Listings(place, <<Head(ask.dirs)>>) :
          \/ ask.at = "fallback" /\ ask' = [ask EXCEPT !.dirs = Tail(@), !.left = Upto(s, ask.want.top)]
          \/ ask.at = "own" /\ ask' = [ask EXCEPT !.dirs = Tail(@),
                              !.left = IF ask.want.by = "skill" THEN Upto(Reverse(s), ask.want.top) ELSE s]
    BY <1>5 DEF FallbackList, OwnList, Asking, Goes1, Wanted
  <2>2. PICK rest : /\ rest \in {s, Upto(s, ask.want.top)}
                       \/ (ask.want.by = "skill" /\ rest = Upto(Reverse(s), ask.want.top))
                    /\ ask' = [ask EXCEPT !.dirs = Tail(ask.dirs), !.left = rest]
    BY <2>1
  <2>3. rest \in Seq(PathSet)
    <3>1. /\ Head(ask.dirs) \in Folders /\ ask.want \in Wants
      BY <1>1, <1>5
    <3>2. <<Head(ask.dirs)>> \in Seq(Folders) /\ ask.want.top \in Nat
      BY <3>1, WantFacts
    <3>3. s \in Seq(PathSet)
      BY <3>2, ListingFacts DEF ListingRight
    <3>4. Reverse(s) \in Seq(PathSet)
      BY <3>3, ReverseFacts
    <3>5. QED
      BY <2>2, <3>2, <3>3, <3>4, UptoFacts
  <2>4. Has(ask', ask.at, ask.want, Tail(ask.dirs), rest, ask.total)
    <3>1. Tail(ask.dirs) \in Seq(Folders)
      BY <1>5
    <3>2. QED
      BY <2>2, <2>3, <3>1, DirsLeftIs
  <2>5. ask.at \in {"fallback", "own"}
    BY <2>1
  <2>6. QED
    BY <1>1, <1>5, <2>2, <2>3, <2>4, <2>5 DEF OwnStep, RequestGoes, ListsNext
<1>6. QED
  BY <1>4, <1>5

LEMMA ReadKinds ==
  ASSUME AskTyped(ask), Stands(ask, reply), ReadNote
  PROVE  OwnStep
<1> USE AskIs
<1>1. Reader(ask) /\ ask.left # <<>> /\ missed' = missed
  BY DEF ReadNote, Reader
<1>2. PICK p : p = Head(ask.left)
  OBVIOUS
<1>3. p \in PathSet /\ p.of \in Texts
  <2>1. p \in PathSet
    BY <1>1, <1>2
  <2>2. QED
    BY <2>1 DEF PathSet
<1>4. Full <=> Full1(ask)
  BY DEF Full, Full1, Wanted
<1>5. \/ Full /\ ask' = [ask EXCEPT !.left = <<>>] /\ reply' = reply
      \/ /\ ~Full /\ There(p) /\ p.of \notin Garbled /\ reply' = Append(reply, [of |-> p.of, size |-> Taken(p)])
         /\ ask' = [[ask EXCEPT !.left = Tail(@)] EXCEPT !.total = @ + Taken(p)]
      \/ /\ p.of \in Garbled /\ Asking("own") /\ Wanted.by = "skill"
         /\ ask' = [ask EXCEPT !.at = "failed"] /\ reply' = reply
      \/ /\ ~There(p) \/ p.of \in Garbled
         /\ ask' = [ask EXCEPT !.left = Tail(@)] /\ reply' = reply
  BY <1>2 DEF ReadNote, Takes, Goes1
<1>6. CASE Full /\ ask' = [ask EXCEPT !.left = <<>>] /\ reply' = reply
  <2>1. <<>> \in Seq(PathSet)
    OBVIOUS
  <2>3. Has(ask', ask.at, ask.want, ask.dirs, <<>>, ask.total)
    BY <1>6, <2>1, LeftIs
  <2>2. QED
    BY <1>1, <1>4, <1>6, <2>3 DEF OwnStep, RequestGoes, DropsRest
<1>7. CASE /\ ~Full /\ There(p) /\ p.of \notin Garbled /\ reply' = Append(reply, [of |-> p.of, size |-> Taken(p)])
           /\ ask' = [[ask EXCEPT !.left = Tail(@)] EXCEPT !.total = @ + Taken(p)]
  <2>1. Length[p.of] \in Nat
    BY <1>3, RetrievalAssumption
  <2>2. ask.want.chars \in Nat /\ ask.total < ask.want.chars
    BY <1>1, WantFacts, <1>7 DEF Reader, Full, Wanted
  <2>3. PICK c : c = ask.want.chars - ask.total
    OBVIOUS
  <2>4. c \in Nat /\ Room = c
    BY <2>2, <2>3 DEF Room, Wanted
  <2>5. Taken(p) \in Nat /\ ((ask.at = "own" /\ ask.want.by = "chat") \/ Taken(p) <= c)
    BY <2>1, <2>4 DEF Taken, Cut, Asking, Wanted
  <2>6. PICK size \in Nat : size = Taken(p)
    BY <2>5
  <2>7. Has(ask', ask.at, ask.want, ask.dirs, Tail(ask.left), ask.total + size)
    <3>1. Tail(ask.left) \in Seq(PathSet)
      BY <1>1
    <3>2. ask' = [[ask EXCEPT !.left = Tail(ask.left)] EXCEPT !.total = ask.total + size]
      BY <1>7, <2>6
    <3>3. QED
      BY <3>1, <3>2, LeftTotalIs
  <2>8. place[Head(ask.left).of] = Head(ask.left).in /\ Head(ask.left).of \notin Garbled
    BY <1>2, <1>7 DEF There
  <2>9. reply' = Append(reply, [of |-> Head(ask.left).of, size |-> size])
    BY <1>2, <1>7, <2>6
  <2>10. TakesOne(ask, ask', reply, reply', place)
    BY <1>1, <1>4, <1>7, <2>3, <2>5, <2>6, <2>7, <2>8, <2>9 DEF TakesOne
  <2>11. QED
    BY <2>10 DEF OwnStep, RequestGoes
<1>8. CASE /\ p.of \in Garbled /\ Asking("own") /\ Wanted.by = "skill"
           /\ ask' = [ask EXCEPT !.at = "failed"] /\ reply' = reply
  BY <1>8, AtIs, Where, <1>1, <1>2 DEF OwnStep, RequestGoes, Lost, Reader, Wanted
<1>9. CASE /\ ~There(p) \/ p.of \in Garbled
           /\ ask' = [ask EXCEPT !.left = Tail(@)] /\ reply' = reply
  <2>1. Has(ask', ask.at, ask.want, ask.dirs, Tail(ask.left), ask.total)
    <3>1. Tail(ask.left) \in Seq(PathSet)
      BY <1>1
    <3>2. QED
      BY <1>9, <3>1, LeftIs
  <2>2. QED
    BY <1>1, <1>2, <1>9, <2>1 DEF OwnStep, RequestGoes, Skips, There
<1>10. QED
  BY <1>5, <1>6, <1>7, <1>8, <1>9

LEMMA SearchKinds ==
  ASSUME AskTyped(ask), Stands(ask, reply),
         VectorSearch \/ SearchIndex \/ GraphContext \/ KnowledgeText
         \/ (\E expected \in BOOLEAN : VectorsRaise(expected))
  PROVE  OwnStep
<1> USE AskIs
<1>1. ask.at \in Searches
  BY DEF VectorSearch, SearchIndex, GraphContext, KnowledgeText, VectorsRaise, Asking, Searches
<1>2. ask.want \in Wants /\ ask.want.top \in Nat
  BY <1>1, WantFacts DEF Searches
<1>3. CASE VectorSearch
  <2>1. PICK found \in Nearest(ask.want) :
          ask' = [ask EXCEPT !.at = IF ask.want.by = "search" THEN "graph" ELSE "texts", !.left = found]
    BY <1>3 DEF VectorSearch, Goes1, Wanted
  <2>2. PICK at \in {"graph", "texts"} : at = (IF ask.want.by = "search" THEN "graph" ELSE "texts")
    OBVIOUS
  <2>4. found \in Seq(PathSet) /\ IsInjective(found) /\ Distinct(found)
    <3>1. PICK t, S : /\ t \subseteq PathsIn(embedded, Folders) /\ S \subseteq t
                      /\ found \in {Upto(s, ask.want.top) : s \in SetToSeqs(S)}
      BY DEF Nearest
    <3>2. PICK s \in SetToSeqs(S) : found = Upto(s, ask.want.top)
      BY <3>1
    <3>3. S \subseteq PathsIn(embedded, Folders) /\ Folders \subseteq Folders
      BY <3>1
    <3>4. QED
      BY <1>2, <3>2, <3>3, PathsDistinct
  <2>5. Has(ask', at, ask.want, ask.dirs, found, ask.total)
    BY <2>1, <2>2, <2>4, AtLeftIs, Where
  <2>6. ask.at = "vectors" /\ reply' = reply /\ (at = "texts" => ask.want.by # "search")
    BY <1>3, <2>2 DEF VectorSearch, Asking
  <2>7. QED
    BY <2>2, <2>4, <2>5, <2>6 DEF OwnStep, RequestGoes, Finds1
<1>4. CASE SearchIndex
  <2>1. PICK D : D = IF Wanted.dirs = <<>> \/ Wanted.by = "knowledge" THEN Folders ELSE ToSet(Wanted.dirs)
    OBVIOUS
  <2>2. PICK s \in SetToSeqs(PathsIn(listed, D)) :
          ask' = [ask EXCEPT !.at = "graph", !.left = Upto(s, Wanted.top)]
    BY <1>4, <2>1 DEF SearchIndex, Goes1
  <2>3. D \subseteq Folders
    BY <1>2, WantFacts, <2>1 DEF ToSet, Wanted
  <2>4. PICK rest : rest = Upto(s, Wanted.top)
    OBVIOUS
  <2>5. rest \in Seq(PathSet) /\ IsInjective(rest) /\ Distinct(rest)
    BY <1>2, <2>3, <2>4, PathsDistinct DEF Wanted
  <2>6. Has(ask', "graph", ask.want, ask.dirs, rest, ask.total)
    BY <2>2, <2>4, <2>5, AtLeftIs, Where
  <2>7. ask.at = "listing" /\ reply' = reply
    BY <1>4 DEF SearchIndex, Asking
  <2>8. QED
    BY <2>5, <2>6, <2>7 DEF OwnStep, RequestGoes, Finds1
<1>5. CASE GraphContext
  BY <1>5, AtIs, Where DEF GraphContext, Goes1, Asking, OwnStep, RequestGoes, AddsContext
<1>6. CASE KnowledgeText
  <2>1. ask.at = "texts"
    BY <1>6 DEF KnowledgeText, Asking
  <2>2. CASE ask.left = <<>>
    BY <1>6, <2>2, AtIs, Where, <2>1 DEF KnowledgeText, Goes1, OwnStep, RequestGoes, Completes
  <2>3. CASE ask.left # <<>>
    <3>1. PICK p : p = Head(ask.left)
      OBVIOUS
    <3>2. \/ /\ ask' = [ask EXCEPT !.at = "listing", !.left = <<>>] /\ reply' = reply
          \/ /\ reply' = Append(reply, [of |-> p.of, size |-> Length[p.of]])
             /\ ask' = [ask EXCEPT !.left = Tail(@)]
          \/ ~There(p) /\ ask' = [ask EXCEPT !.left = Tail(@)] /\ reply' = reply
      BY <1>6, <2>3, <3>1 DEF KnowledgeText, Goes1, Takes
    <3>3. /\ Has([ask EXCEPT !.at = "listing", !.left = <<>>], "listing", ask.want, ask.dirs, <<>>, ask.total)
          /\ Has([ask EXCEPT !.left = Tail(@)], ask.at, ask.want, ask.dirs, Tail(ask.left), ask.total)
      <4>1. <<>> \in Seq(PathSet) /\ Tail(ask.left) \in Seq(PathSet)
        BY <2>3
      <4>2. QED
        BY <4>1, AtLeftIs, Where, LeftIs
    <3>4. Length[p.of] \in Nat
      <4>1. p \in PathSet
        BY <2>3, <3>1
      <4>2. QED
        BY <4>1, RetrievalAssumption DEF PathSet
    <3>5. CASE ask' = [ask EXCEPT !.at = "listing", !.left = <<>>] /\ reply' = reply
      BY <2>1, <3>3, <3>5 DEF OwnStep, RequestGoes, TurnsTo
    <3>6. CASE /\ reply' = Append(reply, [of |-> p.of, size |-> Length[p.of]])
               /\ ask' = [ask EXCEPT !.left = Tail(@)]
      BY <2>1, <2>3, <3>1, <3>3, <3>4, <3>6 DEF OwnStep, RequestGoes, TakesWhole
    <3>7. CASE ~There(p) /\ ask' = [ask EXCEPT !.left = Tail(@)] /\ reply' = reply
      BY <2>1, <2>3, <3>1, <3>3, <3>7 DEF OwnStep, RequestGoes, Skips, There
    <3>8. QED
      BY <3>2, <3>5, <3>6, <3>7
  <2>4. QED
    BY <2>2, <2>3
<1>7. CASE \E expected \in BOOLEAN : VectorsRaise(expected)
  <2>1. PICK expected \in BOOLEAN : VectorsRaise(expected)
    BY <1>7
  <2>2. /\ ask' = [ask EXCEPT !.at = IF expected THEN "listing" ELSE "failed"]
        /\ reply' = reply /\ missed' = missed \cup {IF expected THEN "expected" ELSE "unexpected"}
        /\ ask.at = "vectors"
    BY <2>1 DEF VectorsRaise, Goes1, Asking
  <2>4. CASE expected
    BY <2>2, <2>4, AtIs, Where DEF OwnStep, RequestGoes, TurnsTo
  <2>5. CASE ~expected
    BY <2>2, <2>5, AtIs, Where DEF OwnStep, RequestGoes, Lost
  <2>6. QED
    BY <2>4, <2>5
<1>8. QED
  BY <1>3, <1>4, <1>5, <1>6, <1>7

\* What else may happen: a request begins or ends, or the vault and the index change.
VaultGoes ==
  /\ UNCHANGED <<ask, reply, had, missed>>
  /\ \/ /\ UNCHANGED <<listed, embedded>>
        /\ \E n \in Texts, d \in Folders \cup {Nowhere} :
             place' = [place EXCEPT ![n] = d] /\ moved' = moved \cup {n}
     \/ /\ UNCHANGED <<place, moved>>
        /\ \E n \in Texts : listed' = [listed EXCEPT ![n] = place[n]] /\ UNCHANGED embedded
     \/ /\ UNCHANGED <<place, moved, listed>>
        /\ \E n \in Texts : embedded' = [embedded EXCEPT ![n] = place[n]]
     \/ /\ UNCHANGED <<place, moved>> /\ ask.at = "none" /\ listed' = place
        /\ \E n \in Texts : embedded' = [place EXCEPT ![n] = Nowhere]

LEMMA RetrievalKinds ==
  ASSUME AskTyped(ask), Stands(ask, reply), RetrievalNext
  PROVE  \/ /\ Asks(ask, ask', reply') /\ had' = listed /\ moved' = {} /\ missed' = {}
            /\ UNCHANGED <<place, listed, embedded>>
         \/ /\ Ends(ask', reply') /\ had' = NoIndex /\ moved' = {} /\ missed' = {}
            /\ UNCHANGED <<place, listed, embedded>>
         \/ /\ OwnStep /\ missed \subseteq missed' /\ UNCHANGED <<place, listed, embedded, had, moved>>
         \/ VaultGoes
<1>1. CASE \E w \in Wants : Request(w)
  BY <1>1, RequestKind
<1>2. CASE Return1
  BY <1>2 DEF Return1, Ends, Goes1
<1>3. CASE IndexRetrieve \/ FallbackList \/ OwnList \/ ReadNote \/ ReadAll
           \/ VectorSearch \/ SearchIndex \/ GraphContext \/ KnowledgeText
           \/ (\E expected \in BOOLEAN : IndexRaises(expected))
           \/ (\E expected \in BOOLEAN : VectorsRaise(expected))
  <2>1. OwnStep
    BY <1>3, IndexKinds, ListKinds, ReadKinds, SearchKinds
  <2>2. Still
    BY <1>3 DEF IndexRetrieve, FallbackList, OwnList, ReadNote, ReadAll, VectorSearch, SearchIndex,
                GraphContext, KnowledgeText, IndexRaises, VectorsRaise
  <2>3. missed \subseteq missed'
    BY <1>3 DEF IndexRetrieve, FallbackList, OwnList, ReadNote, ReadAll, VectorSearch, SearchIndex,
                GraphContext, KnowledgeText, IndexRaises, VectorsRaise
  <2>4. QED
    BY <2>1, <2>2, <2>3 DEF Still
<1>4. CASE \E n \in Texts : Follows(n) \/ Starts(n) \/ \E d \in Folders \cup {Nowhere} : Moves(n, d)
  BY <1>4 DEF Follows, Starts, Moves, Moving, VaultGoes, Asking
<1>5. QED
  BY <1>1, <1>2, <1>3, <1>4 DEF RetrievalNext

ReplySet == [of: Texts, size: Nat]

LEMMA NextIs ==
  ASSUME NEW a \in AskSet, a.left # <<>>
  PROVE  Head(a.left) \in PathSet /\ Head(a.left).of \in Texts /\ Head(a.left).in \in Folders
<1>1. a.left \in Seq(PathSet)
  BY DEF AskSet
<1>2. Head(a.left) \in PathSet
  BY <1>1
<1>3. QED
  BY <1>2 DEF PathSet

LEMMA AddsTyped ==
  ASSUME NEW r \in Seq(ReplySet), NEW p \in Texts, NEW size \in Nat
  PROVE  Append(r, [of |-> p, size |-> size]) \in Seq(ReplySet)
BY DEF ReplySet

LEMMA JoinTyped ==
  ASSUME NEW r \in Seq(ReplySet), NEW rest \in Seq(PathSet)
  PROVE  r \o [i \in 1..Len(rest) |-> [of |-> rest[i].of, size |-> 0]] \in Seq(ReplySet)
<1>1. PICK n : n = Len(rest)
  OBVIOUS
<1>2. n \in Nat /\ \A i \in 1..n : rest[i] \in PathSet
  BY <1>1
<1>3. PICK z : z = [i \in 1..n |-> [of |-> rest[i].of, size |-> 0]]
  OBVIOUS
<1>4. z \in [1..n -> ReplySet]
  BY <1>2, <1>3 DEF PathSet, ReplySet
<1>5. z \in Seq(ReplySet)
  BY <1>2, <1>4
<1>6. QED
  BY <1>1, <1>3, <1>5

\* What a request's own step leaves typed, and where it leads.
LEMMA GoesTyped ==
  ASSUME NEW a, NEW b, NEW r, NEW t, NEW index, NEW at, NEW what,
         AskTyped(a), r \in Seq(ReplySet), Stands(a, r), RequestGoes(a, b, r, t, index, at, what)
  PROVE  /\ AskTyped(b) /\ t \in Seq(ReplySet) /\ Stands(b, t) /\ Fails(b, what)
         /\ b.want = a.want /\ a.at # "none" /\ a.want \in Wants /\ b \in AskSet /\ a \in AskSet
<1>1. a \in AskSet /\ (a.at # "none" => a.want \in Wants)
  BY DEF AskTyped
<1>2. CASE Falls(a, b, r, t)
  BY <1>1, <1>2 DEF Falls, Has, AskTyped, Stands, Fails, Retrieving, Searches
<1>3. CASE Lost(a, b, r, t, what)
  BY <1>1, <1>3 DEF Lost, Has, AskTyped, Stands, Fails, Retrieving, Searches
<1>4. CASE Completes(a, b, r, t)
  BY <1>1, <1>4 DEF Completes, Has, AskTyped, Stands, Fails, Retrieving, Searches
<1>5. CASE Lists1(a, b, r, t, index)
  BY <1>1, <1>5 DEF Lists1, Has, AskTyped, Stands, Fails, Retrieving, Searches
<1>6. CASE ListsNext(a, b, r, t, at)
  BY <1>1, <1>6 DEF ListsNext, Has, AskTyped, Stands, Fails, Retrieving, Searches
<1>7. CASE DropsRest(a, b, r, t)
  BY <1>1, <1>7 DEF DropsRest, Reader, Has, AskTyped, Stands, Fails, Retrieving, Searches
<1>8. CASE Skips(a, b, r, t, at)
  BY <1>1, <1>8 DEF Skips, Reader, Has, AskTyped, Stands, Fails, Retrieving, Searches
<1>9. CASE TakesOne(a, b, r, t, at)
  <2>1. t \in Seq(ReplySet)
    BY <1>1, <1>9, NextIs, AddsTyped DEF TakesOne
  <2>2. QED
    BY <1>1, <1>9, <2>1 DEF TakesOne, Reader, Has, AskTyped, Stands, Fails, Retrieving, Searches
<1>10. CASE TakesWhole(a, b, r, t)
  <2>1. t \in Seq(ReplySet)
    BY <1>1, <1>10, NextIs, AddsTyped DEF TakesWhole
  <2>2. QED
    BY <1>1, <1>10, <2>1 DEF TakesWhole, Has, AskTyped, Stands, Fails, Retrieving, Searches
<1>11. CASE Finds1(a, b, r, t)
  BY <1>1, <1>11 DEF Finds1, Has, AskTyped, Stands, Fails, Retrieving, Searches
<1>12. CASE TurnsTo(a, b, r, t)
  BY <1>1, <1>12 DEF TurnsTo, Has, AskTyped, Stands, Fails, Retrieving, Searches
<1>13. CASE AddsContext(a, b, r, t, what)
  <2>1. t \in Seq(ReplySet)
    BY <1>1, <1>13, JoinTyped DEF AskSet, AddsContext
  <2>2. QED
    BY <1>1, <1>13, <2>1 DEF AddsContext, Has, AskTyped, Stands, Fails, Retrieving, Searches
<1>14. QED
  BY <1>2, <1>3, <1>4, <1>5, <1>6, <1>7, <1>8, <1>9, <1>10, <1>11, <1>12, <1>13 DEF RequestGoes

LEMMA AsksTyped ==
  ASSUME NEW a, NEW b, NEW t, Asks(a, b, t)
  PROVE  AskTyped(b) /\ t \in Seq(ReplySet) /\ Stands(b, t) /\ \A what : Fails(b, what)
BY DEF Asks, Has, AskTyped, Stands, Fails, Retrieving, Searches

LEMMA EndsTyped ==
  ASSUME NEW b, NEW t, Ends(b, t)
  PROVE  b.at = "none" /\ AskTyped(b) /\ t \in Seq(ReplySet) /\ Stands(b, t) /\ \A what : Fails(b, what)
<1>1. "none" \in Standings /\ Nowhere \in Wants \cup {Nowhere} /\ 0 \in Nat
  BY DEF Standings
<1>2. <<>> \in Seq(Folders) /\ <<>> \in Seq(PathSet) /\ <<>> \in Seq(ReplySet)
  OBVIOUS
<1>3. NoAsk \in AskSet
  BY <1>1, <1>2 DEF AskSet, NoAsk
<1>4. b.at = "none" /\ t = <<>>
  BY DEF Ends, NoAsk
<1>5. QED
  BY <1>2, <1>3, <1>4 DEF Ends, AskTyped, Stands, Fails, Retrieving, Searches

LEMMA TakenFacts ==
  ASSUME NEW r \in Seq(ReplySet)
  PROVE  SizesIn(r) \in Seq(Nat) /\ Len(SizesIn(r)) = Len(r) /\ Total(SizesIn(r)) \in Nat
<1>1. PICK n : n = Len(r)
  OBVIOUS
<1>2. n \in Nat /\ DOMAIN r = 1..n /\ \A i \in 1..n : r[i] \in ReplySet
  BY <1>1
<1>3. PICK s : s = SizesIn(r)
  OBVIOUS
<1>4. s \in [1..n -> Nat]
  BY <1>2, <1>3 DEF SizesIn, ReplySet
<1>5. s \in Seq(Nat) /\ Len(s) = n
  BY <1>2, <1>4
<1>6. Total(s) \in Nat
  BY <1>5, TotalAppend
<1>7. QED
  BY <1>1, <1>3, <1>5, <1>6

LEMMA SizesNothing == Total(SizesIn(<<>>)) = 0
<1>1. SizesIn(<<>>) = <<>>
  BY DEF SizesIn
<1>2. Append(<<>>, 0) = <<0>> /\ <<>> \in Seq(Nat)
  OBVIOUS
<1>3. Total(<<0>>) = Total(<<>>) + 0 /\ Total(<<>>) \in Nat
  BY <1>2, TotalAppend
<1>4. Total(<<0>>) = 0
  BY TotalOne
<1>5. QED
  BY <1>1, <1>3, <1>4

LEMMA SizesAppend ==
  ASSUME NEW r \in Seq(ReplySet), NEW p \in Texts, NEW size \in Nat
  PROVE  LET t == Append(r, [of |-> p, size |-> size]) IN
         Total(SizesIn(t)) = Total(SizesIn(r)) + size /\ Last(SizesIn(t)) = size
<1>1. PICK t : t = Append(r, [of |-> p, size |-> size])
  OBVIOUS
<1>2. PICK n : n = Len(r)
  OBVIOUS
<1>3. /\ n \in Nat /\ DOMAIN r = 1..n /\ DOMAIN t = 1..(n + 1)
      /\ \A i \in 1..n : t[i] = r[i]
      /\ t[n + 1].size = size
  BY <1>1, <1>2
<1>4. PICK s : s = SizesIn(r)
  OBVIOUS
<1>5. s \in Seq(Nat) /\ Len(s) = n /\ s = [i \in 1..n |-> r[i].size]
  BY <1>2, <1>3, <1>4, TakenFacts DEF SizesIn
<1>6. PICK u : u = Append(s, size)
  OBVIOUS
<1>7. u \in Seq(Nat) /\ Len(u) = n + 1 /\ u[n + 1] = size /\ \A i \in 1..n : u[i] = s[i]
  <2>1. s \in Seq(Nat) /\ size \in Nat
    BY <1>5
  <2>2. /\ Append(s, size) \in Seq(Nat) /\ Len(Append(s, size)) = Len(s) + 1
        /\ Append(s, size)[Len(s) + 1] = size /\ \A i \in 1..Len(s) : Append(s, size)[i] = s[i]
    BY <2>1
  <2>3. QED
    BY ONLY <1>5, <1>6, <2>2
<1>8. PICK v : v = SizesIn(t)
  OBVIOUS
<1>9. v = [i \in 1..(n + 1) |-> t[i].size]
  BY <1>3, <1>8 DEF SizesIn
<1>10. DOMAIN u = 1..(n + 1)
  BY <1>7
<1>11. \A i \in 1..(n + 1) : u[i] = v[i]
  <2> TAKE i \in 1..(n + 1)
  <2>1. i \in 1..n \/ i = n + 1
    BY <1>3
  <2>2. i \in 1..n => u[i] = r[i].size /\ v[i] = r[i].size
    BY <1>3, <1>5, <1>7, <1>9
  <2>3. i = n + 1 => u[i] = size /\ v[i] = size
    BY <1>3, <1>7, <1>9
  <2>4. QED
    BY <2>1, <2>2, <2>3
<1>12. u = v
  BY <1>7, <1>10, <1>9, <1>11
<1>13. Total(u) = Total(s) + size /\ Last(u) = size
  BY <1>5, <1>6, <1>7, TotalAppend DEF Last
<1>14. QED
  BY <1>1, <1>4, <1>8, <1>12, <1>13

LEMMA GoesInBudget ==
  ASSUME NEW a, NEW b, NEW r, NEW t, NEW index, NEW at, NEW what,
         AskTyped(a), r \in Seq(ReplySet), Stands(a, r), InBudget(a, r),
         RequestGoes(a, b, r, t, index, at, what)
  PROVE  InBudget(b, t)
<1>1. /\ AskTyped(b) /\ t \in Seq(ReplySet) /\ b.want = a.want /\ a.at # "none" /\ a.want \in Wants
      /\ a \in AskSet /\ b \in AskSet /\ Stands(b, t)
  BY GoesTyped
<1>2. CASE a.want.by \notin {"agent", "skill", "chat"}
  BY <1>1, <1>2 DEF InBudget
<1>3. CASE a.want.by \in {"agent", "skill", "chat"}
  <2>1. a.at \notin Searches
    BY <1>3 DEF Stands
  <2>2. PICK chars, total : chars = a.want.chars /\ total = a.total
    OBVIOUS
  <2>3. chars \in Nat /\ total \in Nat /\ b.total \in Nat
    BY <1>1, <2>2, WantFacts DEF AskSet
  <2>4. PICK taken : taken = Total(SizesIn(r))
    OBVIOUS
  <2>5. taken \in Nat
    BY <2>4, TakenFacts
  <2>6. CASE t = r /\ a.at = "index"
    BY <2>6, SizesNothing, <1>1, <2>2, <2>3 DEF Stands, InBudget
  <2>7. CASE t = r /\ a.at # "index" /\ ~TakesOne(a, b, r, t, at)
    <3>1. b.at \in {"read", "fallback", "own"} => b.at = a.at /\ b.total = a.total
      BY <2>1, <2>7 DEF RequestGoes, Falls, Lost, Completes, Lists1, ListsNext, DropsRest, Skips,
             TakesWhole, Finds1, TurnsTo, AddsContext, Has, Searches
    <3>2. QED
      BY <1>1, <2>7, <3>1 DEF InBudget
  <2>8. CASE TakesOne(a, b, r, t, at)
    <3>1. PICK size \in Nat :
            /\ (a.at = "own" /\ a.want.by = "chat") \/ size <= chars - total
            /\ t = Append(r, [of |-> Head(a.left).of, size |-> size])
            /\ b.total = total + size
      BY <2>2, <2>8 DEF TakesOne, Has
    <3>2. Head(a.left).of \in Texts
      BY <1>1, <2>8, NextIs DEF TakesOne
    <3>3. Total(SizesIn(t)) = taken + size /\ Last(SizesIn(t)) = size
      BY <2>4, <3>1, <3>2, SizesAppend
    <3>4. taken <= total /\ total < chars
      BY <1>1, <1>3, <2>2, <2>3, <2>4, <2>8 DEF InBudget, TakesOne, Reader, Full1
    <3>5. taken + size <= total + size
      BY <2>3, <2>5, <3>4
    <3>6. taken + size <= chars \/ (a.want.by = "chat" /\ (taken + size) - size < chars)
      BY <2>3, <2>5, <3>1, <3>4
    <3>7. QED
      BY <1>1, <2>2, <3>1, <3>3, <3>5, <3>6 DEF InBudget
  <2>9. t = r \/ TakesOne(a, b, r, t, at)
    BY <2>1 DEF RequestGoes, Falls, Lost, Completes, Lists1, ListsNext, DropsRest, Skips,
           TakesWhole, Finds1, TurnsTo, AddsContext, Searches
  <2>10. QED
    BY <2>6, <2>7, <2>8, <2>9
<1>4. QED
  BY <1>2, <1>3

LEMMA AsksInBudget ==
  ASSUME NEW a, NEW b, NEW t, Asks(a, b, t)
  PROVE  InBudget(b, t)
BY WantFacts, SizesNothing DEF Asks, Has, InBudget

\* The rest of a sequence.
LEMMA Tails ==
  ASSUME NEW S, NEW s \in Seq(S), s # <<>>
  PROVE  /\ Tail(s) \in Seq(S) /\ DOMAIN Tail(s) = 1..Len(Tail(s)) /\ Len(Tail(s)) = Len(s) - 1
         /\ Head(s) = s[1] /\ 1 \in DOMAIN s /\ Head(s) \in S /\ DOMAIN s = 1..Len(s) /\ Len(s) \in Nat
         /\ \A i \in DOMAIN Tail(s) : i + 1 \in DOMAIN s /\ Tail(s)[i] = s[i + 1]
         /\ ToSet(Tail(s)) \subseteq ToSet(s) /\ Head(s) \in ToSet(s)
         /\ IsInjective(s) => IsInjective(Tail(s)) /\ Head(s) \notin ToSet(Tail(s))
         /\ \A x \in ToSet(s) : x = Head(s) \/ x \in ToSet(Tail(s))
<1>1. PICK n, u : n = Len(s) /\ u = Tail(s)
  OBVIOUS
<1>2. n \in Nat /\ n >= 1 /\ DOMAIN s = 1..n /\ u \in Seq(S) /\ DOMAIN u = 1..(n - 1) /\ Len(u) = n - 1
  BY <1>1
<1>3. Head(s) = s[1] /\ Head(s) \in S
  BY <1>1
<1>4. \A i \in 1..(n - 1) : i + 1 \in 1..n /\ u[i] = s[i + 1]
  BY <1>1, <1>2
<1>5. 1 \in 1..n /\ \A i \in 1..n : i = 1 \/ (i - 1 \in 1..(n - 1) /\ (i - 1) + 1 = i)
  BY <1>2
<1>6. ToSet(u) \subseteq ToSet(s) /\ Head(s) \in ToSet(s)
  BY <1>2, <1>3, <1>4, <1>5, SMTT(30) DEF ToSet
<1>7. \A x \in ToSet(s) : x = Head(s) \/ x \in ToSet(u)
  <2> TAKE x \in ToSet(s)
  <2>1. PICK i \in 1..n : x = s[i]
    BY <1>2 DEF ToSet
  <2>2. CASE i = 1
    BY <1>3, <2>1, <2>2
  <2>3. CASE i # 1
    <3>1. PICK j \in 1..(n - 1) : j + 1 = i
      BY <1>5, <2>3
    <3>2. u[j] = x
      BY <1>4, <2>1, <3>1
    <3>3. QED
      BY <1>2, <3>2 DEF ToSet
  <2>4. QED
    BY <2>2, <2>3
<1>8. ASSUME IsInjective(s)
      PROVE  IsInjective(u) /\ Head(s) \notin ToSet(u)
  <2>1. \A i, j \in 1..n : s[i] = s[j] => i = j
    BY <1>2, <1>8 DEF IsInjective
  <2>2. \A i, j \in 1..(n - 1) : u[i] = u[j] => i = j
    BY <1>4, <2>1, <1>2
  <2>3. \A i \in 1..(n - 1) : u[i] # s[1]
    BY <1>4, <1>5, <2>1, <1>2
  <2>4. QED
    BY <1>2, <1>3, <2>2, <2>3 DEF IsInjective, ToSet
<1>9. QED
  BY <1>1, <1>2, <1>3, <1>4, <1>5, <1>6, <1>7, <1>8

\* One more is given.
LEMMA GivenMore ==
  ASSUME NEW r \in Seq(ReplySet), NEW p \in Texts, NEW size \in Nat
  PROVE  /\ GivenBy(Append(r, [of |-> p, size |-> size])) = GivenBy(r) \cup {p}
         /\ \A gone : OnceGiven(r, gone) /\ p \notin GivenBy(r) \ gone
                       => OnceGiven(Append(r, [of |-> p, size |-> size]), gone)
<1>1. PICK n, t : n = Len(r) /\ t = Append(r, [of |-> p, size |-> size])
  OBVIOUS
<1>2. /\ n \in Nat /\ DOMAIN r = 1..n /\ DOMAIN t = 1..(n + 1)
      /\ \A i \in 1..n : t[i] = r[i]
      /\ t[n + 1].of = p
  BY <1>1
<1>3. \A i \in 1..(n + 1) : i = n + 1 \/ i \in 1..n
  BY <1>2
<1>4. n + 1 \in 1..(n + 1) /\ \A i \in 1..n : i \in 1..(n + 1)
  BY <1>2
<1>5. GivenBy(t) = GivenBy(r) \cup {p}
  BY <1>2, <1>3, <1>4 DEF GivenBy
<1>6. ASSUME NEW gone, OnceGiven(r, gone), p \notin GivenBy(r) \ gone,
             NEW i \in 1..(n + 1), NEW j \in 1..(n + 1), i # j, t[i].of = t[j].of
      PROVE  t[i].of \in gone
  BY <1>2, <1>6, <1>3 DEF OnceGiven, GivenBy
<1>7. QED
  BY <1>1, <1>2, <1>5, <1>6 DEF OnceGiven

\* What a folder's listing brings: paths in that folder, once each.
LEMMA NextListing ==
  ASSUME NEW at, NEW d \in Folders, NEW s \in Listings(at, <<d>>), NEW n \in Nat,
         NEW rest, rest \in {s, Upto(s, n)} \/ rest = Upto(Reverse(s), n)
  PROVE  /\ rest \in Seq(PathSet) /\ IsInjective(rest) /\ DOMAIN rest = 1..Len(rest)
         /\ \A i \in DOMAIN rest : rest[i].in = d /\ at[rest[i].of] = d /\ rest[i].of \in Texts
<1>1. <<d>> \in Seq(Folders) /\ IsInjective(<<d>>) /\ ToSet(<<d>>) = {d}
  BY DEF IsInjective, ToSet
<1>2. ListingRight(s, at, <<d>>)
  BY <1>1, ListingFacts
<1>3. /\ s \in Seq(PathSet) /\ IsInjective(s) /\ DOMAIN s = 1..Len(s)
      /\ \A i \in 1..Len(s) : s[i].in = d /\ at[s[i].of] = d /\ s[i].of \in Texts
  BY <1>1, <1>2 DEF ListingRight
<1>4. PICK v : v = Reverse(s)
  OBVIOUS
<1>5. /\ v \in Seq(PathSet) /\ IsInjective(v)
      /\ \A i \in 1..Len(v) : v[i].in = d /\ at[v[i].of] = d /\ v[i].of \in Texts
  BY <1>3, <1>4, ReverseFacts
<1>6. /\ Upto(s, n) \in Seq(PathSet) /\ IsInjective(Upto(s, n))
      /\ \A i \in 1..Len(Upto(s, n)) : i \in 1..Len(s) /\ Upto(s, n)[i] = s[i]
  BY <1>3, UptoFacts
<1>7. /\ Upto(v, n) \in Seq(PathSet) /\ IsInjective(Upto(v, n))
      /\ \A i \in 1..Len(Upto(v, n)) : i \in 1..Len(v) /\ Upto(v, n)[i] = v[i]
  BY <1>5, UptoFacts
<1>8. rest \in Seq(PathSet) /\ IsInjective(rest)
      /\ \A i \in 1..Len(rest) : rest[i].in = d /\ at[rest[i].of] = d /\ rest[i].of \in Texts
  BY <1>3, <1>6, <1>5, <1>7, <1>4
<1>9. DOMAIN rest = 1..Len(rest)
  BY <1>8
<1>10. QED
  BY <1>8, <1>9

LEMMA GoesOnce ==
  ASSUME NEW a, NEW b, NEW r, NEW t, NEW index, NEW at, NEW what, NEW gone,
         AskTyped(a), r \in Seq(ReplySet), Stands(a, r), Once(a, r, at, gone),
         RequestGoes(a, b, r, t, index, at, what)
  PROVE  Once(b, t, at, gone)
<1>1. /\ AskTyped(b) /\ t \in Seq(ReplySet) /\ b.want = a.want /\ a.at # "none" /\ a.want \in Wants
      /\ a \in AskSet /\ b \in AskSet /\ Stands(b, t)
  BY GoesTyped
<1> SUFFICES ASSUME IsInjective(a.want.dirs), a.want.by # "knowledge"
             PROVE  /\ OnceGiven(t, gone) /\ IsInjective(b.left)
                    /\ b.at \in Retrieving => OnceLeft(b.dirs, b.left, t, at, gone)
                    /\ b.at \in Searches => Distinct(b.left)
  BY <1>1 DEF Once
<1>2. /\ OnceGiven(r, gone) /\ IsInjective(a.left)
      /\ a.at \in Retrieving => OnceLeft(a.dirs, a.left, r, at, gone)
      /\ a.at \in Searches => Distinct(a.left)
  BY <1>1 DEF Once
<1>3. a.left \in Seq(PathSet) /\ a.dirs \in Seq(Folders) /\ a.want.dirs \in Seq(Folders) /\ a.want.top \in Nat
  BY <1>1, WantFacts DEF AskSet
<1>4. a.at # "texts"
  BY <1>1 DEF Stands
<1>5. IsInjective(<<>>) /\ ToSet(<<>>) = {} /\ Distinct(<<>>) /\ DOMAIN <<>> = {} /\ GivenBy(<<>>) = {}
  BY DEF IsInjective, ToSet, Distinct, GivenBy
<1>6. CASE Falls(a, b, r, t)
  BY <1>6, <1>2, <1>5 DEF Falls, Has, Stands, Searches, OnceLeft
<1>7. CASE Lost(a, b, r, t, what)
  BY <1>2, <1>7 DEF Lost, Has, Retrieving, Searches
<1>8. CASE Completes(a, b, r, t)
  BY <1>2, <1>8 DEF Completes, Has, Retrieving, Searches
<1>9. CASE Lists1(a, b, r, t, index)
  <2>1. PICK s \in Listings(index, a.want.dirs) :
          Has(b, "read", a.want, <<>>, Upto(Upto(s, a.want.top), Newest), Row * (Len(Upto(s, a.want.top)) + 1))
    BY <1>9 DEF Lists1
  <2>2. s \in Seq(PathSet) /\ IsInjective(s)
    BY <1>3, ListingFacts DEF ListingRight
  <2>3. PICK u : u = Upto(s, a.want.top)
    OBVIOUS
  <2>4. u \in Seq(PathSet) /\ IsInjective(u)
    BY <1>3, <2>2, <2>3, UptoFacts
  <2>5. IsInjective(Upto(u, Newest))
    BY <2>4, UptoFacts, RetrievalAssumption
  <2>6. t = r /\ r = <<>> /\ b.at = "read" /\ b.dirs = <<>> /\ b.left = Upto(u, Newest)
    BY <1>9, <2>1, <2>3 DEF Lists1, Has, Stands
  <2>7. QED
    BY <1>2, <1>5, <2>5, <2>6 DEF OnceLeft, Searches
<1>10. CASE ListsNext(a, b, r, t, at)
  <2>1. PICK s \in Listings(at, <<Head(a.dirs)>>), rest \in Seq(PathSet) :
          /\ rest \in {s, Upto(s, a.want.top)} \/ rest = Upto(Reverse(s), a.want.top)
          /\ Has(b, a.at, a.want, Tail(a.dirs), rest, a.total)
    BY <1>10 DEF ListsNext
  <2>2. PICK d : d = Head(a.dirs)
    OBVIOUS
  <2>3. /\ d \in Folders /\ d \in ToSet(a.dirs) /\ IsInjective(Tail(a.dirs)) /\ d \notin ToSet(Tail(a.dirs))
        /\ ToSet(Tail(a.dirs)) \subseteq ToSet(a.dirs) /\ OnceLeft(a.dirs, a.left, r, at, gone)
    BY <1>2, <1>10, <1>3, <2>2, Tails DEF ListsNext, Retrieving, OnceLeft
  <2>4. IsInjective(rest) /\ \A i \in DOMAIN rest : rest[i].in = d
    BY <1>3, <2>1, <2>2, <2>3, NextListing
  <2>5. t = r /\ b.left = rest /\ b.dirs = Tail(a.dirs) /\ b.at \notin Searches
    BY <1>10, <2>1 DEF ListsNext, Has, Searches
  <2>6. OnceLeft(Tail(a.dirs), rest, r, at, gone)
    BY <2>3, <2>4 DEF OnceLeft
  <2>7. QED
    BY <1>2, <2>4, <2>5, <2>6
<1>11. CASE DropsRest(a, b, r, t)
  BY <1>11, <1>2, <1>5 DEF DropsRest, Has, Reader, Retrieving, Searches, OnceLeft
<1>12. CASE Skips(a, b, r, t, at)
  BY <1>4, <1>12, <1>2, <1>3, Tails DEF Skips, Has, Reader, Retrieving, Searches, OnceLeft
<1>13. CASE TakesOne(a, b, r, t, at)
  <2>1. PICK p : p = Head(a.left)
    OBVIOUS
  <2>2. PICK size \in Nat : t = Append(r, [of |-> p.of, size |-> size]) /\ b.left = Tail(a.left) /\ b.dirs = a.dirs
                            /\ b.at = a.at
    BY <1>13, <2>1 DEF TakesOne, Has
  <2>3. /\ a.left # <<>> /\ at[p.of] = p.in
        /\ a.at \in Retrieving /\ a.at \notin Searches
    BY <1>13, <2>1 DEF TakesOne, Reader, Retrieving, Searches
  <2>4. /\ IsInjective(Tail(a.left)) /\ p = a.left[1] /\ 1 \in DOMAIN a.left /\ p \in PathSet
        /\ p \notin ToSet(Tail(a.left))
        /\ \A i \in DOMAIN Tail(a.left) : i + 1 \in DOMAIN a.left /\ Tail(a.left)[i] = a.left[i + 1]
        /\ Tail(a.left) \in Seq(PathSet)
    BY <1>2, <1>3, <2>1, <2>3, Tails
  <2>5. p.of \in Texts
    BY <2>4 DEF PathSet
  <2>6. OnceLeft(a.dirs, a.left, r, at, gone)
    BY <1>2, <2>3
  <2>7. p.of \notin GivenBy(r) \ gone
    BY <2>3, <2>4, <2>6 DEF OnceLeft
  <2>8. GivenBy(t) = GivenBy(r) \cup {p.of} /\ OnceGiven(t, gone)
    BY <1>2, <2>2, <2>5, <2>7, GivenMore
  <2>9. ASSUME NEW i \in DOMAIN Tail(a.left), Tail(a.left)[i].of = p.of
        PROVE  Tail(a.left)[i].in # at[p.of]
    <3>1. Tail(a.left)[i] \in PathSet /\ Tail(a.left)[i] # p
      BY <2>4 DEF ToSet
    <3>2. PICK x : x = Tail(a.left)[i]
      OBVIOUS
    <3>3. x = [of |-> x.of, in |-> x.in] /\ p = [of |-> p.of, in |-> p.in]
      BY <2>4, <3>1, <3>2 DEF PathSet
    <3>4. QED
      BY <2>3, <2>9, <3>1, <3>2, <3>3
  <2>10. at[p.of] \notin ToSet(a.dirs)
    BY <2>3, <2>4, <2>6 DEF OnceLeft
  <2>11. OnceLeft(a.dirs, Tail(a.left), t, at, gone)
    BY <2>4, <2>6, <2>8, <2>9, <2>10 DEF OnceLeft
  <2>12. QED
    BY <2>2, <2>3, <2>4, <2>8, <2>11
<1>14. CASE TakesWhole(a, b, r, t)
  BY <1>4, <1>14 DEF TakesWhole
<1>15. CASE Finds1(a, b, r, t)
  BY <1>15, <1>2 DEF Finds1, Has, Retrieving
<1>16. CASE TurnsTo(a, b, r, t)
  BY <1>16, <1>2, <1>5 DEF TurnsTo, Has, Searches, Retrieving
<1>17. CASE AddsContext(a, b, r, t, what)
  <2>1. /\ t = r \o [i \in 1..Len(a.left) |-> [of |-> a.left[i].of, size |-> 0]]
        /\ b.left = a.left /\ b.at \notin Retrieving /\ b.at \notin Searches /\ a.at \in Searches
    BY <1>17 DEF AddsContext, Has, Retrieving, Searches
  <2>2. r = <<>> /\ Distinct(a.left)
    BY <2>1, <1>2 DEF Stands
  <2>3. PICK z : z = [i \in 1..Len(a.left) |-> [of |-> a.left[i].of, size |-> 0]]
    OBVIOUS
  <2>4. z \in Seq(ReplySet) /\ t = z
    <3>1. Len(a.left) \in Nat /\ \A i \in 1..Len(a.left) : a.left[i] \in PathSet
      BY <1>3
    <3>2. z \in [1..Len(a.left) -> ReplySet]
      BY <2>3, <3>1 DEF PathSet, ReplySet
    <3>3. z \in Seq(ReplySet)
      BY <3>1, <3>2
    <3>4. <<>> \o z = z
      BY <3>3
    <3>5. QED
      BY <2>1, <2>2, <2>3, <3>3, <3>4
  <2>5. DOMAIN z = DOMAIN a.left /\ \A i \in DOMAIN z : z[i].of = a.left[i].of
    BY <1>3, <2>3
  <2>6. OnceGiven(t, gone)
    BY <2>2, <2>4, <2>5 DEF OnceGiven, Distinct
  <2>7. QED
    BY <1>2, <2>1, <2>6
<1>18. QED
  BY <1>6, <1>7, <1>8, <1>9, <1>10, <1>11, <1>12, <1>13, <1>14, <1>15, <1>16, <1>17 DEF RequestGoes

LEMMA AsksOnce ==
  ASSUME NEW a, NEW b, NEW t, NEW at, NEW gone, Asks(a, b, t)
  PROVE  Once(b, t, at, gone)
<1>1. IsInjective(<<>>) /\ Distinct(<<>>) /\ DOMAIN <<>> = {} /\ GivenBy(<<>>) = {}
  BY DEF IsInjective, Distinct, GivenBy
<1>2. t = <<>> /\ b.left = <<>> /\ b.dirs = b.want.dirs
  BY DEF Asks, Has
<1>3. QED
  BY <1>1, <1>2 DEF Once, OnceGiven, OnceLeft

\* A note that moves is one that moved.
LEMMA MovesOnce ==
  ASSUME NEW a, NEW r, NEW at, NEW gone, NEW n, NEW d,
         Once(a, r, at, gone), at = [m \in DOMAIN at |-> at[m]]
  PROVE  Once(a, r, [at EXCEPT ![n] = d], gone \cup {n})
BY DEF Once, OnceGiven, OnceLeft

Prefix1(u, s) == /\ DOMAIN u = 1..Len(u) /\ Len(u) \in Nat
                 /\ \A i \in DOMAIN u : i \in DOMAIN s /\ u[i] = s[i]
Follow(index, at, was, gone) == \A n \in Texts \ gone : index[n] \in {was[n], at[n]}

\* A listing that was right when it was made has the newest first.
LEMMA ListNewest ==
  ASSUME NEW s, NEW u, NEW index, NEW dirs, NEW r, NEW at, NEW was, NEW gone,
         ListingRight(s, index, dirs), Prefix1(u, s), Follow(index, at, was, gone)
  PROVE  LeftNewest(u, r, at, was, gone)
<1> SUFFICES ASSUME NEW m \in Texts, NEW i \in DOMAIN u,
                    Passed(r, at, was, gone, m), u[i].in = at[m], Order[m] > Order[u[i].of]
             PROVE  \E j \in 1..(i - 1) : u[j] = [of |-> m, in |-> at[m]]
  BY DEF LeftNewest
<1>1. index[m] = at[m]
  BY DEF Passed, Follow
<1>2. i \in DOMAIN s /\ u[i] = s[i] /\ i \in 1..Len(u) /\ Len(u) \in Nat
  BY DEF Prefix1
<1>3. s[i].in \in ToSet(dirs) /\ s[i].of \in Texts
  BY <1>2 DEF ListingRight
<1>4. index[m] \in ToSet(dirs)
  BY <1>1, <1>2, <1>3
<1>5. PICK k \in DOMAIN s : s[k] = [of |-> m, in |-> index[m]]
  BY <1>4 DEF ListingRight
<1>6. s[k].of = m
  BY <1>5
<1>7. k \in Nat /\ i \in Nat /\ DOMAIN s = 1..Len(s)
  BY <1>2, <1>5 DEF ListingRight
<1>8. Order[m] \in Nat /\ Order[s[i].of] \in Nat
  BY <1>3, RetrievalAssumption
<1>9. ~(i < k)
  BY <1>2, <1>5, <1>6, <1>8 DEF ListingRight
<1>10. i # k
  BY <1>2, <1>6, <1>8
<1>11. k \in 1..(i - 1) /\ k \in 1..Len(u)
  BY <1>7, <1>2, <1>9, <1>10
<1>12. u[k] = s[k]
  BY <1>11 DEF Prefix1
<1>13. QED
  BY <1>1, <1>5, <1>11, <1>12

\* What is rest when the first is taken, or is not there.
LEMMA TailNewest ==
  ASSUME NEW rest \in Seq(PathSet), rest # <<>>, NEW r, NEW t, NEW at, NEW was, NEW gone,
         LeftNewest(rest, r, at, was, gone),
         \A m \in Texts : Passed(t, at, was, gone, m) =>
           Passed(r, at, was, gone, m) /\ Head(rest) # [of |-> m, in |-> at[m]]
  PROVE  LeftNewest(Tail(rest), t, at, was, gone)
<1> SUFFICES ASSUME NEW m \in Texts, NEW i \in DOMAIN Tail(rest),
                    Passed(t, at, was, gone, m), Tail(rest)[i].of \notin gone,
                    Tail(rest)[i].in = at[Tail(rest)[i].of],
                    Tail(rest)[i].in = at[m], Order[m] > Order[Tail(rest)[i].of]
             PROVE  \E j \in 1..(i - 1) : Tail(rest)[j] = [of |-> m, in |-> at[m]]
  BY DEF LeftNewest
<1>1. /\ i + 1 \in DOMAIN rest /\ Tail(rest)[i] = rest[i + 1] /\ Head(rest) = rest[1]
      /\ DOMAIN Tail(rest) = 1..Len(Tail(rest)) /\ Len(Tail(rest)) = Len(rest) - 1 /\ Len(rest) \in Nat
  BY Tails
<1>2. PICK j \in 1..((i + 1) - 1) : rest[j] = [of |-> m, in |-> at[m]]
  BY <1>1 DEF LeftNewest
<1>3. j # 1
  BY <1>1, <1>2
<1>4. i \in Nat /\ i <= Len(Tail(rest))
  BY <1>1
<1>5. j - 1 \in 1..(i - 1) /\ j - 1 \in 1..Len(Tail(rest)) /\ (j - 1) + 1 = j
  BY <1>2, <1>4, <1>1, <1>3
<1>6. Tail(rest)[j - 1] = rest[(j - 1) + 1]
  BY <1>1, <1>5, Tails
<1>7. QED
  BY <1>2, <1>5, <1>6

LEMMA GoesNewest ==
  ASSUME NEW a, NEW b, NEW r, NEW t, NEW index, NEW at, NEW what, NEW was, NEW gone,
         AskTyped(a), r \in Seq(ReplySet), Stands(a, r), NewestFirst(a, r, at, was, gone),
         Follow(index, at, was, gone), RequestGoes(a, b, r, t, index, at, what)
  PROVE  NewestFirst(b, t, at, was, gone)
<1>1. /\ AskTyped(b) /\ t \in Seq(ReplySet) /\ b.want = a.want /\ a.at # "none" /\ a.want \in Wants
      /\ a \in AskSet /\ b \in AskSet /\ Stands(b, t)
  BY GoesTyped
<1> SUFFICES ASSUME a.want.by \in {"agent", "chat"}, b.at # "failed"
             PROVE  GivenNewest(t, at, was, gone) /\ LeftNewest(b.left, t, at, was, gone)
  BY <1>1 DEF NewestFirst, Retrieving
<1>2. a.at \notin Searches
  BY DEF Stands
<1>3. a.left \in Seq(PathSet) /\ a.dirs \in Seq(Folders) /\ a.want.dirs \in Seq(Folders) /\ a.want.top \in Nat
  BY <1>1, WantFacts DEF AskSet
<1>4. a.at \in Retrieving => GivenNewest(r, at, was, gone) /\ LeftNewest(a.left, r, at, was, gone)
  BY DEF NewestFirst
<1>5. DOMAIN <<>> = {} /\ GivenBy(<<>>) = {} /\ LeftNewest(<<>>, t, at, was, gone)
      /\ GivenNewest(<<>>, at, was, gone)
  BY DEF GivenBy, LeftNewest, GivenNewest
<1>6. CASE Falls(a, b, r, t)
  BY <1>6, <1>5 DEF Falls, Has, Stands
<1>7. CASE Completes(a, b, r, t)
  BY <1>2, <1>7, <1>4 DEF Completes, Has, Retrieving, Searches
<1>8. CASE Lists1(a, b, r, t, index)
  <2>1. PICK s \in Listings(index, a.want.dirs) :
          b.left = Upto(Upto(s, a.want.top), Newest)
    BY <1>8 DEF Lists1, Has
  <2>2. ListingRight(s, index, a.want.dirs)
    BY <1>3, ListingFacts
  <2>3. PICK u, v : u = Upto(s, a.want.top) /\ v = Upto(u, Newest)
    OBVIOUS
  <2>4. s \in Seq(PathSet) /\ DOMAIN s = 1..Len(s)
    BY <2>2 DEF ListingRight
  <2>5. u \in Seq(PathSet) /\ \A i \in 1..Len(u) : i \in 1..Len(s) /\ u[i] = s[i]
    BY <1>3, <2>3, <2>4, UptoFacts
  <2>6. v \in Seq(PathSet) /\ \A i \in 1..Len(v) : i \in 1..Len(u) /\ v[i] = u[i]
    BY <2>3, <2>5, UptoFacts, RetrievalAssumption
  <2>7. DOMAIN v = 1..Len(v) /\ Len(v) \in Nat
    BY <2>6
  <2>8. Prefix1(v, s)
    BY <2>4, <2>5, <2>6, <2>7 DEF Prefix1
  <2>9. LeftNewest(v, t, at, was, gone)
    BY <2>2, <2>8, ListNewest
  <2>10. t = <<>>
    BY <1>8 DEF Lists1, Stands
  <2>11. QED
    BY <1>5, <2>1, <2>3, <2>9, <2>10
<1>9. CASE ListsNext(a, b, r, t, at)
  <2>1. PICK s \in Listings(at, <<Head(a.dirs)>>) : b.left \in {s, Upto(s, a.want.top)}
    BY <1>9 DEF ListsNext, Has
  <2>2. t = r /\ a.at \in Retrieving /\ a.dirs # <<>>
    BY <1>9 DEF ListsNext, Retrieving
  <2>3. <<Head(a.dirs)>> \in Seq(Folders)
    BY <1>3, <2>2
  <2>4. ListingRight(s, at, <<Head(a.dirs)>>)
    BY <2>3, ListingFacts
  <2>5. s \in Seq(PathSet) /\ DOMAIN s = 1..Len(s) /\ Len(s) \in Nat
    BY <2>4 DEF ListingRight
  <2>6. Prefix1(s, s)
    BY <2>5 DEF Prefix1
  <2>7. Prefix1(Upto(s, a.want.top), s)
    BY <1>3, <2>5, UptoFacts DEF Prefix1
  <2>8. Follow(at, at, was, gone)
    BY DEF Follow
  <2>9. Prefix1(b.left, s)
    BY <2>1, <2>6, <2>7
  <2>10. LeftNewest(b.left, t, at, was, gone)
    BY <2>4, <2>8, <2>9, ListNewest
  <2>11. QED
    BY <1>4, <2>2, <2>10
<1>10. CASE DropsRest(a, b, r, t)
  BY <1>10, <1>4, <1>5 DEF DropsRest, Has, Reader, Retrieving
<1>11. CASE Skips(a, b, r, t, at)
  BY <1>2, <1>11, <1>3, <1>4, TailNewest DEF Skips, Has, Reader, Retrieving, Searches, Passed
<1>12. CASE TakesOne(a, b, r, t, at)
  <2>1. PICK p : p = Head(a.left)
    OBVIOUS
  <2>2. PICK size \in Nat : t = Append(r, [of |-> p.of, size |-> size]) /\ b.left = Tail(a.left)
    BY <1>12, <2>1 DEF TakesOne, Has
  <2>3. a.left # <<>> /\ at[p.of] = p.in /\ a.at \in Retrieving
    BY <1>12, <2>1 DEF TakesOne, Reader, Retrieving
  <2>4. p \in PathSet /\ p = a.left[1] /\ 1 \in DOMAIN a.left
    BY <1>3, <2>1, <2>3, Tails
  <2>5. p.of \in Texts
    BY <2>4 DEF PathSet
  <2>6. GivenBy(t) = GivenBy(r) \cup {p.of}
    BY <2>2, <2>5, GivenMore
  <2>7. \A m \in Texts : Passed(t, at, was, gone, m) => Passed(r, at, was, gone, m) /\ p # [of |-> m, in |-> at[m]]
    BY <2>6 DEF Passed
  <2>8. LeftNewest(a.left, r, at, was, gone) /\ GivenNewest(r, at, was, gone)
    BY <1>4, <2>3
  <2>9. LeftNewest(Tail(a.left), t, at, was, gone)
    BY <1>3, <2>1, <2>3, <2>7, <2>8, TailNewest
  <2>10. ASSUME NEW m \in Texts, Passed(t, at, was, gone, m), p.of \notin gone, at[p.of] = at[m]
         PROVE  Order[m] <= Order[p.of]
    <3>1. Order[m] \in Nat /\ Order[p.of] \in Nat
      BY <2>5, RetrievalAssumption
    <3>2. Passed(r, at, was, gone, m)
      BY <2>7, <2>10
    <3>3. 1..(1 - 1) = {}
      OBVIOUS
    <3>4. ~(Order[m] > Order[p.of])
      BY <2>3, <2>4, <2>8, <2>10, <3>2, <3>3 DEF LeftNewest
    <3>5. QED
      BY <3>1, <3>4
  <2>11. GivenNewest(t, at, was, gone)
    BY <2>6, <2>7, <2>8, <2>10 DEF GivenNewest
  <2>12. QED
    BY <2>2, <2>9, <2>11
<1>13. CASE Lost(a, b, r, t, what)
  BY <1>13 DEF Lost, Has
<1>14. CASE TakesWhole(a, b, r, t) \/ Finds1(a, b, r, t) \/ TurnsTo(a, b, r, t) \/ AddsContext(a, b, r, t, what)
  BY <1>2, <1>14 DEF TakesWhole, Finds1, TurnsTo, AddsContext, Searches
<1>15. QED
  BY <1>6, <1>7, <1>8, <1>9, <1>10, <1>11, <1>12, <1>13, <1>14 DEF RequestGoes

LEMMA AsksNewest ==
  ASSUME NEW a, NEW b, NEW t, NEW at, NEW was, NEW gone, Asks(a, b, t)
  PROVE  NewestFirst(b, t, at, was, gone)
BY DEF GivenBy, Asks, Has, NewestFirst, GivenNewest, LeftNewest

LEMMA MovesNewest ==
  ASSUME NEW a, NEW r, NEW at, NEW was, NEW gone, NEW n, NEW d,
         NewestFirst(a, r, at, was, gone), at = [m \in DOMAIN at |-> at[m]]
  PROVE  NewestFirst(a, r, [at EXCEPT ![n] = d], was, gone \cup {n})
<1>1. PICK to, rest : to = [at EXCEPT ![n] = d] /\ rest = a.left
  OBVIOUS
<1>2. \A m : m # n => to[m] = at[m]
  BY <1>1
<1>3. \A m : Passed(r, to, was, gone \cup {n}, m) => m # n /\ Passed(r, at, was, gone, m)
  BY <1>2 DEF Passed
<1>4. GivenNewest(r, at, was, gone) => GivenNewest(r, to, was, gone \cup {n})
  BY <1>2, <1>3 DEF GivenNewest
<1>5. LeftNewest(rest, r, at, was, gone) => LeftNewest(rest, r, to, was, gone \cup {n})
  <2> SUFFICES ASSUME LeftNewest(rest, r, at, was, gone),
                      NEW m \in Texts, NEW i \in DOMAIN rest,
                      Passed(r, to, was, gone \cup {n}, m), rest[i].of \notin gone \cup {n},
                      rest[i].in = to[rest[i].of], rest[i].in = to[m], Order[m] > Order[rest[i].of]
               PROVE  \E j \in 1..(i - 1) : rest[j] = [of |-> m, in |-> to[m]]
    BY DEF LeftNewest
  <2>1. to[m] = at[m] /\ to[rest[i].of] = at[rest[i].of] /\ Passed(r, at, was, gone, m)
    BY <1>2, <1>3
  <2>2. QED
    BY <2>1 DEF LeftNewest
<1>6. QED
  BY <1>1, <1>4, <1>5 DEF NewestFirst

LEMMA UptoSome ==
  ASSUME NEW S, NEW s \in Seq(S), s # <<>>, NEW n \in Nat \ {0}
  PROVE  Upto(s, n) \in Seq(S) /\ Upto(s, n) # <<>>
BY UptoFacts

LEMMA ReverseSome ==
  ASSUME NEW S, NEW s \in Seq(S), s # <<>>
  PROVE  Reverse(s) \in Seq(S) /\ Reverse(s) # <<>>
BY ReverseFacts

LEMMA GoesFinds ==
  ASSUME NEW a, NEW b, NEW r, NEW t, NEW index, NEW at, NEW what, NEW was, NEW gone,
         AskTyped(a), r \in Seq(ReplySet), Stands(a, r), Finds(a, r, at, was, gone),
         Follow(index, at, was, gone), RequestGoes(a, b, r, t, index, at, what)
  PROVE  Finds(b, t, at, was, gone)
<1>1. /\ AskTyped(b) /\ t \in Seq(ReplySet) /\ b.want = a.want /\ a.at # "none" /\ a.want \in Wants
      /\ a \in AskSet /\ b \in AskSet /\ Stands(b, t)
  BY GoesTyped
<1> SUFFICES ASSUME b.at # "failed", a.want.by \in {"agent", "skill", "chat"}, gone = {}, t = <<>>,
                    b.total < a.want.chars, ~Excused(a.want, at, was)
             PROVE  FindsSome(b, at)
  BY <1>1 DEF Finds, Retrieving
<1>2. a.at \notin Searches
  BY DEF Stands
<1>3. a.left \in Seq(PathSet) /\ a.dirs \in Seq(Folders) /\ a.want.dirs \in Seq(Folders)
      /\ a.want.top \in Nat \ {0} /\ a.want.top \in Nat /\ a.total \in Nat /\ a.want.chars \in Nat
  BY <1>1, WantFacts DEF AskSet
<1>4. a.at \in Retrieving /\ a.total = b.total /\ t = r => FindsSome(a, at)
  BY DEF Finds
<1>5. DOMAIN <<>> = {} /\ ToSet(<<>>) = {}
  BY DEF ToSet
<1>6. CASE Falls(a, b, r, t)
  BY <1>6, <1>1, <1>5 DEF Falls, Has, FindsSome
<1>7. CASE Completes(a, b, r, t)
  BY <1>2, <1>7, <1>4, <1>3, <1>5, <1>1 DEF Completes, Has, Searches, Retrieving, FindsSome, Full1
<1>8. CASE Lists1(a, b, r, t, index)
  <2>1. PICK s \in Listings(index, a.want.dirs) :
          /\ Upto(s, a.want.top) # <<>>
          /\ b.left = Upto(Upto(s, a.want.top), Newest) /\ b.dirs = <<>> /\ b.at = "read"
    BY <1>8 DEF Lists1, Has
  <2>2. ListingRight(s, index, a.want.dirs)
    BY <1>3, ListingFacts
  <2>3. PICK u, v : u = Upto(s, a.want.top) /\ v = Upto(u, Newest)
    OBVIOUS
  <2>4. s \in Seq(PathSet) /\ DOMAIN s = 1..Len(s)
    BY <2>2 DEF ListingRight
  <2>5. u \in Seq(PathSet) /\ \A i \in 1..Len(u) : i \in 1..Len(s) /\ u[i] = s[i]
    BY <1>3, <2>3, <2>4, UptoFacts
  <2>6. v \in Seq(PathSet) /\ \A i \in 1..Len(v) : i \in 1..Len(u) /\ v[i] = u[i]
    BY <2>3, <2>5, UptoFacts, RetrievalAssumption
  <2>7. v # <<>>
    BY <2>1, <2>3, <2>5, UptoSome, RetrievalAssumption
  <2>8. ASSUME NEW i \in DOMAIN v
        PROVE  v[i].in = at[v[i].of] /\ v[i].in \in ToSet(a.want.dirs)
    <3>1. i \in DOMAIN s /\ v[i] = s[i]
      BY <2>4, <2>5, <2>6, <2>8
    <3>2. v[i].of \in Texts /\ v[i].in = index[v[i].of] /\ v[i].in \in ToSet(a.want.dirs)
      BY <2>2, <3>1 DEF ListingRight
    <3>3. ToSet(a.want.dirs) \subseteq Folders
      BY <1>3 DEF ToSet
    <3>4. v[i].in # Nowhere
      BY <3>2, <3>3, RetrievalAssumption
    <3>5. index[v[i].of] \in {was[v[i].of], at[v[i].of]} /\ was[v[i].of] \in {at[v[i].of], Nowhere}
      BY <3>2 DEF Follow, Excused
    <3>6. QED
      BY <3>2, <3>4, <3>5
  <2>9. QED
    BY <1>1, <1>5, <2>1, <2>3, <2>7, <2>8 DEF FindsSome
<1>9. CASE ListsNext(a, b, r, t, at)
  <2>1. PICK s \in Listings(at, <<Head(a.dirs)>>), rest \in Seq(PathSet) :
          /\ rest \in {s, Upto(s, a.want.top)} \/ rest = Upto(Reverse(s), a.want.top)
          /\ Has(b, a.at, a.want, Tail(a.dirs), rest, a.total)
    BY <1>9 DEF ListsNext
  <2>2. /\ b.left = rest /\ b.dirs = Tail(a.dirs) /\ b.total = a.total /\ t = r /\ a.left = <<>>
        /\ a.at \in {"fallback", "own"} /\ b.at = a.at /\ a.dirs # <<>>
    BY <1>9, <2>1 DEF ListsNext, Has
  <2>3. FindsSome(a, at)
    BY <1>4, <2>2 DEF Retrieving
  <2>4. PICK d : d = Head(a.dirs)
    OBVIOUS
  <2>5. /\ d \in Folders /\ d \in ToSet(a.dirs) /\ ToSet(Tail(a.dirs)) \subseteq ToSet(a.dirs)
        /\ \A x \in ToSet(a.dirs) : x = d \/ x \in ToSet(Tail(a.dirs))
    BY <1>3, <2>2, <2>4, Tails
  <2>6. \A i \in DOMAIN rest : rest[i].in = d /\ at[rest[i].of] = d
    BY <1>3, <2>1, <2>4, <2>5, NextListing
  <2>7. ToSet(a.dirs) \subseteq ToSet(a.want.dirs)
    BY <2>3 DEF FindsSome
  <2>8. ASSUME rest = <<>>, NEW n \in Texts, at[n] \in ToSet(a.want.dirs)
        PROVE  at[n] \in ToSet(Tail(a.dirs))
    <3>1. at[n] \in ToSet(a.dirs)
      BY <2>2, <2>3, <2>8 DEF FindsSome
    <3>2. ASSUME at[n] = d
          PROVE  FALSE
      <4>1. <<d>> \in Seq(Folders) /\ d \in ToSet(<<d>>)
        BY <2>5 DEF ToSet
      <4>2. ListingRight(s, at, <<d>>)
        BY <2>4, <4>1, ListingFacts
      <4>3. s \in Seq(PathSet) /\ \E i \in DOMAIN s : s[i] = [of |-> n, in |-> at[n]]
        BY <3>2, <4>1, <4>2 DEF ListingRight
      <4>4. s # <<>>
        BY <1>5, <4>3
      <4>5. Reverse(s) \in Seq(PathSet) /\ Reverse(s) # <<>>
        BY <4>3, <4>4, ReverseSome
      <4>6. Upto(s, a.want.top) # <<>> /\ Upto(Reverse(s), a.want.top) # <<>>
        BY <1>3, <4>3, <4>4, <4>5, UptoSome
      <4>7. QED
        BY <2>1, <2>8, <4>4, <4>6
    <3>3. QED
      BY <2>5, <3>1, <3>2
  <2>9. QED
    BY <1>1, <2>2, <2>5, <2>6, <2>7, <2>8 DEF FindsSome
<1>10. CASE DropsRest(a, b, r, t)
  BY <1>1, <1>3, <1>10 DEF DropsRest, Has, Full1
<1>11. CASE Skips(a, b, r, t, at)
  <2>1. /\ t = r /\ a.at \in {"read", "fallback", "own"} /\ a.left # <<>> /\ b.total = a.total
        /\ at[Head(a.left).of] # Head(a.left).in \/ Head(a.left).of \in Garbled
    BY <1>2, <1>11 DEF Skips, Has, Reader, Searches
  <2>2. FindsSome(a, at)
    BY <1>4, <2>1 DEF Retrieving
  <2>3. Head(a.left) = a.left[1] /\ 1 \in DOMAIN a.left
    BY <1>3, <2>1, Tails
  <2>4. a.left[1].in = at[a.left[1].of] /\ a.left[1].in \in ToSet(a.want.dirs)
    BY <2>2, <2>3 DEF FindsSome
  <2>5. QED
    BY <2>1, <2>3, <2>4 DEF Excused
<1>12. CASE TakesOne(a, b, r, t, at)
  <2>1. \E x \in ReplySet : t = Append(r, x)
    BY <1>1, <1>12, NextIs DEF TakesOne, ReplySet
  <2>2. t # <<>>
    BY <2>1
  <2>3. QED
    BY <2>2
<1>13. CASE Lost(a, b, r, t, what)
  BY <1>13 DEF Lost, Has
<1>14. CASE TakesWhole(a, b, r, t) \/ Finds1(a, b, r, t) \/ TurnsTo(a, b, r, t) \/ AddsContext(a, b, r, t, what)
  BY <1>2, <1>14 DEF TakesWhole, Finds1, TurnsTo, AddsContext, Searches
<1>15. QED
  BY <1>6, <1>7, <1>8, <1>9, <1>10, <1>11, <1>12, <1>13, <1>14 DEF RequestGoes

LEMMA AsksFinds ==
  ASSUME NEW a, NEW b, NEW t, NEW at, NEW was, NEW gone, Asks(a, b, t)
  PROVE  Finds(b, t, at, was, gone)
BY DEF Asks, Has, Finds, FindsSome

-----------------------------------------------------------------------------
RetrievalInv ==
  /\ place \in [Texts -> Folders \cup {Nowhere}] /\ listed \in [Texts -> Folders \cup {Nowhere}]
  /\ AskTyped(ask) /\ reply \in Seq(ReplySet) /\ Stands(ask, reply) /\ Fails(ask, missed)
  /\ InBudget(ask, reply) /\ Once(ask, reply, place, moved)
  /\ NewestFirst(ask, reply, place, had, moved) /\ Finds(ask, reply, place, had, moved)
  /\ ask.at # "none" => Follow(listed, place, had, moved)

LEMMA RetrievalBegins == RetrievalInit => RetrievalInv
<1> SUFFICES ASSUME RetrievalInit PROVE RetrievalInv
  OBVIOUS
<1>1. Ends(ask, reply)
  BY DEF RetrievalInit, Ends
<1>2. ask.at = "none" /\ AskTyped(ask) /\ reply \in Seq(ReplySet) /\ Stands(ask, reply) /\ Fails(ask, missed)
  BY <1>1, EndsTyped
<1>3. place \in [Texts -> Folders \cup {Nowhere}] /\ listed \in [Texts -> Folders \cup {Nowhere}]
  BY RetrievalAssumption DEF RetrievalInit
<1>4. QED
  BY <1>2, <1>3 DEF RetrievalInv, InBudget, Once, NewestFirst, Finds, Retrieving

LEMMA RetrievalSteps == RetrievalInv /\ RetrievalNext => RetrievalInv'
<1> SUFFICES ASSUME RetrievalInv, RetrievalNext PROVE RetrievalInv'
  OBVIOUS
<1>1. /\ place \in [Texts -> Folders \cup {Nowhere}] /\ listed \in [Texts -> Folders \cup {Nowhere}]
      /\ AskTyped(ask) /\ reply \in Seq(ReplySet) /\ Stands(ask, reply) /\ Fails(ask, missed)
      /\ InBudget(ask, reply) /\ Once(ask, reply, place, moved)
      /\ NewestFirst(ask, reply, place, had, moved) /\ Finds(ask, reply, place, had, moved)
      /\ ask.at # "none" => Follow(listed, place, had, moved)
  BY DEF RetrievalInv
<1>2. CASE /\ Asks(ask, ask', reply') /\ had' = listed /\ moved' = {} /\ missed' = {}
           /\ UNCHANGED <<place, listed, embedded>>
  <2>1. AskTyped(ask') /\ reply' \in Seq(ReplySet) /\ Stands(ask', reply') /\ Fails(ask', missed')
    BY <1>2, AsksTyped
  <2>2. /\ InBudget(ask', reply') /\ Once(ask', reply', place', moved')
        /\ NewestFirst(ask', reply', place', had', moved') /\ Finds(ask', reply', place', had', moved')
    BY <1>2, AsksInBudget, AsksOnce, AsksNewest, AsksFinds
  <2>3. Follow(listed', place', had', moved')
    BY <1>2 DEF Follow
  <2>4. QED
    BY <1>1, <1>2, <2>1, <2>2, <2>3 DEF RetrievalInv
<1>3. CASE /\ Ends(ask', reply') /\ had' = NoIndex /\ moved' = {} /\ missed' = {}
           /\ UNCHANGED <<place, listed, embedded>>
  BY <1>3, EndsTyped, <1>1 DEF InBudget, Once, NewestFirst, Finds, Retrieving, RetrievalInv
<1>4. CASE OwnStep /\ missed \subseteq missed' /\ UNCHANGED <<place, listed, embedded, had, moved>>
  <2>1. RequestGoes(ask, ask', reply, reply', listed, place, missed')
    BY <1>4 DEF OwnStep
  <2>2. AskTyped(ask') /\ reply' \in Seq(ReplySet) /\ Stands(ask', reply') /\ Fails(ask', missed')
        /\ ask.at # "none"
    BY <1>1, <2>1, GoesTyped
  <2>3. InBudget(ask', reply') /\ Once(ask', reply', place, moved)
    BY <1>1, <2>1, GoesInBudget, GoesOnce
  <2>4. NewestFirst(ask', reply', place, had, moved) /\ Finds(ask', reply', place, had, moved)
    BY <1>1, <2>1, <2>2, GoesNewest, GoesFinds
  <2>5. QED
    BY <1>1, <1>4, <2>2, <2>3, <2>4 DEF RetrievalInv
<1>5. CASE VaultGoes
  <2>1. UNCHANGED <<ask, reply, had, missed>>
    BY <1>5 DEF VaultGoes
  <2>2. CASE UNCHANGED <<listed, embedded>> /\ \E n \in Texts, d \in Folders \cup {Nowhere} :
               place' = [place EXCEPT ![n] = d] /\ moved' = moved \cup {n}
    <3>1. PICK n \in Texts, d \in Folders \cup {Nowhere} :
            place' = [place EXCEPT ![n] = d] /\ moved' = moved \cup {n}
      BY <2>2
    <3>2. place = [m \in DOMAIN place |-> place[m]] /\ place' \in [Texts -> Folders \cup {Nowhere}]
      BY <1>1, <3>1
    <3>3. Once(ask, reply, place', moved') /\ NewestFirst(ask, reply, place', had, moved')
      BY <1>1, <3>1, <3>2, MovesOnce, MovesNewest
    <3>4. Finds(ask, reply, place', had, moved')
      BY <3>1 DEF Finds
    <3>5. Follow(listed, place, had, moved) => Follow(listed, place', had, moved')
      BY <1>1, <3>1 DEF Follow
    <3>6. QED
      BY <1>1, <2>1, <2>2, <3>2, <3>3, <3>4, <3>5 DEF RetrievalInv
  <2>3. CASE /\ UNCHANGED <<place, moved>>
             /\ \E n \in Texts : listed' = [listed EXCEPT ![n] = place[n]] /\ UNCHANGED embedded
    BY <2>3, <1>1, <2>1 DEF Follow, RetrievalInv
  <2>4. CASE UNCHANGED <<place, moved, listed>>
    BY <1>1, <2>1, <2>4 DEF RetrievalInv
  <2>5. CASE UNCHANGED <<place, moved>> /\ ask.at = "none" /\ listed' = place
    BY <1>1, <2>1, <2>5 DEF RetrievalInv
  <2>6. QED
    BY <1>5, <2>2, <2>3, <2>4, <2>5 DEF VaultGoes
<1>6. QED
  BY <1>1, <1>2, <1>3, <1>4, <1>5, RetrievalKinds

LEMMA RetrievalStays == RetrievalInv /\ UNCHANGED retrievalVars => RetrievalInv'
BY DEF RetrievalInv, retrievalVars

LEMMA RetrievalTrue == RetrievalInv => RetrievalSound
<1> SUFFICES ASSUME RetrievalInv PROVE RetrievalSound
  OBVIOUS
<1>1. /\ AskTyped(ask) /\ reply \in Seq(ReplySet) /\ Stands(ask, reply) /\ Fails(ask, missed)
      /\ InBudget(ask, reply) /\ Once(ask, reply, place, moved)
      /\ NewestFirst(ask, reply, place, had, moved) /\ Finds(ask, reply, place, had, moved)
  BY DEF RetrievalInv
<1>2. Sizes = SizesIn(reply) /\ Given = GivenBy(reply)
  BY DEF Sizes, SizesIn, Given, GivenBy
<1>3. WithinBudget
  BY <1>1, <1>2 DEF WithinBudget, InBudget, Retrieves, Wanted
<1>4. NoTextTwice
  BY <1>1 DEF NoTextTwice, Once, OnceGiven, Ended, Wanted
<1>5. NewestIsThere
  <2> SUFFICES ASSUME Retrieves, Asking("done"), Wanted.by # "skill",
                      NEW n \in Given \ moved, NEW m \in Texts \ (moved \cup Garbled \cup Given),
                      place[n] = place[m], Order[m] > Order[n], had[m] = place[m]
               PROVE  FALSE
    BY DEF NewestIsThere
  <2>1. ask.at = "done" /\ ask.want.by \in {"agent", "chat"}
    BY DEF Retrieves, Asking, Wanted
  <2>2. GivenNewest(reply, place, had, moved)
    BY <1>1, <2>1 DEF NewestFirst
  <2>3. Passed(reply, place, had, moved, m)
    BY <1>2 DEF Passed
  <2>4. Order[m] <= Order[n] /\ Order[m] \in Nat
    BY <1>2, <2>2, <2>3, RetrievalAssumption DEF GivenNewest
  <2>5. n \in Texts
    <3>1. PICK i \in DOMAIN reply : n = reply[i].of
      BY DEF Given
    <3>2. reply[i] \in ReplySet
      BY <1>1, <3>1
    <3>3. QED
      BY <3>1, <3>2 DEF ReplySet
  <2>6. Order[n] \in Nat
    BY <2>5, RetrievalAssumption
  <2>7. QED
    BY <2>4, <2>6
<1>6. Answered
  <2>1. Asking("failed") => "unexpected" \in missed \/ (Wanted.by = "skill" /\ Head(ask.left).of \in Garbled)
    BY <1>1 DEF Fails, Asking, Wanted
  <2>2. ASSUME Retrieves, Asking("done"), Given = {}, ~Full, moved = {},
               ~(\E n \in Texts : had[n] \notin {place[n], Nowhere}), ~(\E n \in Garbled : Asked(n)),
               NEW n \in Texts
        PROVE  ~Asked(n)
    <3>1. ask.at = "done" /\ ask.want.by \in {"agent", "skill", "chat"}
      BY <2>2 DEF Retrieves, Asking, Wanted
    <3>2. reply = <<>>
      <4>1. DOMAIN reply = {}
        BY <2>2 DEF Given
      <4>2. Len(reply) \in Nat /\ DOMAIN reply = 1..Len(reply)
        BY <1>1
      <4>3. Len(reply) = 0
        BY <4>1, <4>2
      <4>4. QED
        BY <1>1, <4>3
    <3>3. ask.total < ask.want.chars
      BY <1>1, <3>1, AskIs, WantFacts, <2>2 DEF Full, Wanted
    <3>4. ~Excused(ask.want, place, had)
      BY <2>2 DEF Excused, Asked, Wanted
    <3>5. FindsSome(ask, place)
      BY <1>1, <2>2, <3>1, <3>2, <3>3, <3>4 DEF Finds
    <3>6. QED
      BY <3>1, <3>5 DEF FindsSome, Asked, Wanted
  <2>3. QED
    BY <2>1, <2>2 DEF Answered
<1>7. QED
  BY <1>3, <1>4, <1>5, <1>6 DEF RetrievalSound

-----------------------------------------------------------------------------
\* One of them at a time.

UpkeepInv == FlattenInv /\ WatcherInv

LEMMA UpkeepSteps ==
  ASSUME UpkeepInv, NumbersLast, Next \/ UNCHANGED <<part, curationVars, retrievalVars, compileVars, insightVars,
                                                     flattenVars, watcherVars>>
  PROVE  UpkeepInv'
<1>1. UNCHANGED flattenVars \/ FlattenNext
  BY DEF Next, CurationPart, RetrievalPart, CompilePart, InsightPart, FlattenPart, WatcherPart
<1>2. UNCHANGED watcherVars \/ WatcherNext
  BY DEF Next, CurationPart, RetrievalPart, CompilePart, InsightPart, FlattenPart, WatcherPart
<1>3. FlattenInv'
  BY <1>1, FlattenSteps, FlattenUnchanged DEF UpkeepInv
<1>4. WatcherInv'
  BY <1>2, WatcherSteps DEF UpkeepInv
<1>5. QED
  BY <1>3, <1>4 DEF UpkeepInv

\* As long as the numbers of names last, whatever interrupts, repeats or reverts a migration
\* (apply_flatten, revert_flatten), no text is gone that was not overwritten where a person
\* had put a note, moves are apart, and a revert restores; and the index differs from the
\* disk only where news is on the way or was never told (CanonicalizationWatcher).
THEOREM UpkeepHolds == Spec /\ []NumbersLast => []UpkeepSound
<1>1. Init => UpkeepInv
  BY FlattenBegins, WatcherBegins DEF Init, UpkeepInv
<1>2. UpkeepInv /\ NumbersLast
      /\ [Next]_<<part, curationVars, retrievalVars, compileVars, insightVars, flattenVars, watcherVars>>
      => UpkeepInv'
  BY UpkeepSteps
<1>3. UpkeepInv => UpkeepSound
  BY FlattenTrue DEF UpkeepInv, UpkeepSound, WatcherInv
<1>4. QED
  BY <1>1, <1>2, <1>3, PTL DEF Spec

\* Whatever the model answers, whatever fails and whichever concepts are merged meanwhile
\* (IngestCompiler), an ingestion shows the model each of its items once, in the fewest
\* chunks there can be; what it reports is what it wrote for the chunks that did not fail; and
\* the tags of a note stand for what was asked.
THEOREM CompileHolds == Spec => []CompileSound
<1>1. Init => CompileInv
  BY CompileBegins DEF Init
<1>2. CompileInv /\ [Next]_<<part, curationVars, retrievalVars, compileVars, insightVars, flattenVars, watcherVars>>
      => CompileInv'
  <2> SUFFICES ASSUME CompileInv,
                      Next \/ UNCHANGED <<part, curationVars, retrievalVars, compileVars, insightVars,
                                         flattenVars, watcherVars>>
               PROVE  CompileInv'
    OBVIOUS
  <2>1. UNCHANGED compileVars \/ CompileNext
    BY DEF Next, CurationPart, RetrievalPart, CompilePart, InsightPart, FlattenPart, WatcherPart
  <2>2. QED
    BY <2>1, CompileSteps, CompileStays
<1>3. QED
  BY <1>1, <1>2, CompileTrue, PTL DEF Spec

\* Whatever moves meanwhile, however far behind the index and the vectors are and whichever
\* fallback is taken (VaultRetriever and its callers), an answer keeps to its budget, gives no
\* text twice, passes over no newer note, and is not empty when there was something to read.
THEOREM RetrievalHolds == Spec => []RetrievalSound
<1>1. Init => RetrievalInv
  BY RetrievalBegins DEF Init
<1>2. RetrievalInv /\ [Next]_<<part, curationVars, retrievalVars, compileVars, insightVars, flattenVars, watcherVars>>
      => RetrievalInv'
  <2> SUFFICES ASSUME RetrievalInv,
                      Next \/ UNCHANGED <<part, curationVars, retrievalVars, compileVars, insightVars,
                                         flattenVars, watcherVars>>
               PROVE  RetrievalInv'
    OBVIOUS
  <2>1. UNCHANGED retrievalVars \/ RetrievalNext
    BY DEF Next, CurationPart, RetrievalPart, CompilePart, InsightPart, FlattenPart, WatcherPart
  <2>2. QED
    BY <2>1, RetrievalSteps, RetrievalStays
<1>3. QED
  BY <1>1, <1>2, RetrievalTrue, PTL DEF Spec
=============================================================================
