------------------------------ MODULE Flatten -------------------------------
(***************************************************************************)
(* The migration of a vault to folders by maturity, and its way back:      *)
(* bsage/garden/migrations.py.  apply_flatten plans every move first and   *)
(* then makes them one by one, each by a write and an unlink; it may be    *)
(* interrupted between any two, and begun again.  Meanwhile, or between a  *)
(* migration and its revert, a person may put a note anywhere.             *)
(***************************************************************************)
EXTENDS Naturals, Sequences, FiniteSets, SequencesExt

CONSTANTS Legacy,       \* folders by kind
          KindOf,       \* the kind each stands for by its name, as _legacy_type_from_path has it
          Stages,       \* folders by maturity
          Seedling,     \* the one for notes that state none
          Stems,        \* file names
          MaxNumber,    \* the numbers a name may get: 999
          Vaults0,      \* to begin with: records [notes, rooted]
          MaxTouches,   \* bound: notes a person adds
          MaxStops,     \* bound: migrations, reverts and interruptions
          VaultRoot, Unsaid, Theirs

\* A note: its text, the type and the maturity it states, its tags, where it was, and
\* whether it has no frontmatter that can be read.
Note(text, kind, stage, tags, was, bare) ==
  [text |-> text, kind |-> kind, stage |-> stage, tags |-> tags, was |-> was, bare |-> bare]

Places == (Legacy \cup Stages \cup {VaultRoot}) \X Stems \X (0..MaxNumber)

\* A vault before its first migration: every note has a text of its own.
ASSUME FlattenAssumption ==
  /\ Seedling \in Stages /\ MaxNumber \in Nat /\ Unsaid \notin Places \cup Stages
  /\ Legacy \cap Stages = {} /\ VaultRoot \notin Legacy \cup Stages
  /\ \A v \in Vaults0 :
       /\ IsFiniteSet(DOMAIN v.notes) /\ v.rooted \in BOOLEAN
       /\ \A p \in DOMAIN v.notes :
            LET n == v.notes[p] IN
            /\ p \in Places /\ p[1] # VaultRoot /\ n.text # Theirs
            /\ n.stage \in Stages \cup {Unsaid} /\ n.bare \in BOOLEAN
            /\ n = Note(n.text, n.kind, n.stage, n.tags, Unsaid, n.bare)
            /\ \A q \in DOMAIN v.notes : v.notes[q].text = n.text => q = p

VARIABLES
  notes,      \* by their places: a folder, a name, a number
  rooted,     \* whether the vault can be recognised from within
  work,       \* the migration or the revert: [do, todo, half]
  origin,     \* history: the notes before the first migration
  made,       \* history: the places a person put a note in
  lost,       \* history: the notes that were overwritten by another text, and where
  cuts,       \* history: interruptions
  steps       \* bound: [touches, stops]

flattenVars == <<notes, rooted, work, origin, made, lost, cuts, steps>>

NoWork == [do |-> "none", todo |-> <<>>, half |-> FALSE]

FlattenInit ==
  /\ \E v \in Vaults0 : notes = v.notes /\ rooted = v.rooted /\ origin = v.notes
  /\ work = NoWork /\ made = {} /\ lost = {} /\ cuts = 0
  /\ steps = [touches |-> 0, stops |-> 0]

-----------------------------------------------------------------------------
\* The plan.

There1(p) == p \in DOMAIN notes
LegacyNotes == {p \in DOMAIN notes : p[1] \in Legacy}

TargetMutant(n, p, claimed) ==
  LET stage == IF n.stage = Unsaid THEN Seedling ELSE n.stage
      free == {i \in 0..MaxNumber : <<stage, p[2], i>> \notin DOMAIN notes}
  IN <<stage, p[2], CHOOSE i \in free : \A j \in free : i <= j>>

\* A place in the folder of its maturity that neither a file nor an earlier move has, or the
\* first one if there is none left.
Target(n, p, claimed) ==
  LET stage == IF n.stage = Unsaid THEN Seedling ELSE n.stage
      free == {i \in 0..MaxNumber : <<stage, p[2], i>> \notin claimed \cup DOMAIN notes}
  IN <<stage, p[2], IF free = {} THEN 0 ELSE CHOOSE i \in free : \A j \in free : i <= j>>

\* The type becomes a tag.
Tags1(n) == n.tags \cup ({n.kind} \ {Unsaid})

Move(p, claimed) == [src |-> p, dst |-> Target(notes[p], p, claimed), kind |-> notes[p].kind,
                     tags |-> Tags1(notes[p])]

\* plan_flatten: what cannot be read is skipped.
Planned(order) ==
  LET plan[i \in 0..Len(order)] ==
        IF i = 0 THEN <<>>
        ELSE IF notes[order[i]].bare THEN plan[i - 1]
        ELSE Append(plan[i - 1], Move(order[i], {plan[i - 1][j].dst : j \in DOMAIN plan[i - 1]}))
  IN plan[Len(order)]

-----------------------------------------------------------------------------
\* Moves.

Idle1 == work.do = "none"
Begins2 == steps.stops < MaxStops /\ steps' = [steps EXCEPT !.stops = @ + 1]
               /\ UNCHANGED <<notes, origin, made, lost, cuts>>
Working == UNCHANGED <<origin, made, cuts, steps>>

\* apply_flatten, with or without a backup, which makes the vault recognisable.
Migrate ==
  /\ Idle1 /\ Begins2
  /\ \E order \in SetToSeqs(LegacyNotes) : work' = [do |-> "apply", todo |-> Planned(order), half |-> FALSE]
  /\ rooted' \in {rooted, TRUE}

\* The path that is stamped on the note, from the folder that looks like the vault.
Stamp(p) == IF rooted THEN p ELSE <<VaultRoot, p[2], p[3]>>

Flattened(m) ==
  LET n == notes[m.src] IN
  [n EXCEPT !.stage = IF @ = Unsaid THEN Seedling ELSE @, !.tags = m.tags,
            !.kind = IF m.kind = Unsaid THEN @ ELSE Unsaid, !.was = Stamp(m.src)]

\* A write replaces what is there.
Puts(p, n) ==
  /\ notes' = [q \in DOMAIN notes \cup {p} |-> IF q = p THEN n ELSE notes[q]]
  /\ lost' = IF There1(p) /\ notes[p].text # n.text THEN lost \cup {[text |-> notes[p].text, at |-> p]}
             ELSE lost

Takes1(p) == notes' = [q \in DOMAIN notes \ {p} |-> notes[q]] /\ UNCHANGED lost

WriteMoved ==
  /\ work.do = "apply" /\ work.todo # <<>> /\ ~work.half
  /\ LET m == Head(work.todo) IN Puts(m.dst, Flattened(m))
  /\ rooted' = TRUE /\ work' = [work EXCEPT !.half = TRUE] /\ Working

UnlinkMoved ==
  /\ work.do = "apply" /\ work.half /\ Takes1(Head(work.todo).src)
  /\ work' = [work EXCEPT !.half = FALSE, !.todo = Tail(@)] /\ UNCHANGED rooted /\ Working

\* revert_flatten: the notes that say where they were, as it comes across them.
Stamped == {p \in DOMAIN notes : p[1] \in Stages /\ notes[p].was # Unsaid /\ ~notes[p].bare}

Revert ==
  /\ Idle1 /\ Begins2
  /\ \E order \in SetToSeqs(Stamped) : work' = [do |-> "revert", todo |-> order, half |-> FALSE]
  /\ UNCHANGED rooted

\* The type its old folder stands for comes back, unless it states one, and its tag goes.
Restored1(n) ==
  LET kind == IF n.was[1] \in Legacy THEN KindOf[n.was[1]] ELSE Unsaid IN
  IF kind # Unsaid /\ n.kind = Unsaid
  THEN [n EXCEPT !.was = Unsaid, !.kind = kind, !.tags = @ \ {kind}]
  ELSE [n EXCEPT !.was = Unsaid]

WriteBack ==
  /\ work.do = "revert" /\ work.todo # <<>> /\ ~work.half
  /\ LET n == notes[Head(work.todo)] IN
     /\ Puts(n.was, Restored1(n)) /\ work' = [work EXCEPT !.half = TRUE]
  /\ UNCHANGED rooted /\ Working

UnlinkBack ==
  /\ work.do = "revert" /\ work.half /\ Takes1(Head(work.todo))
  /\ work' = [work EXCEPT !.half = FALSE, !.todo = Tail(@)] /\ UNCHANGED rooted /\ Working

Done1 ==
  /\ ~Idle1 /\ work.todo = <<>> /\ work' = NoWork
  /\ UNCHANGED <<notes, rooted, lost>> /\ Working

\* The process dies.
Interrupt ==
  /\ ~Idle1 /\ steps.stops < MaxStops /\ steps' = [steps EXCEPT !.stops = @ + 1]
  /\ work' = NoWork /\ cuts' = cuts + 1 /\ UNCHANGED <<notes, rooted, origin, made, lost>>

\* A person puts a note in a free place.
Touch(p) ==
  /\ steps.touches < MaxTouches /\ steps' = [steps EXCEPT !.touches = @ + 1]
  /\ ~There1(p)
  /\ notes' = [q \in DOMAIN notes \cup {p} |->
                 IF q = p THEN Note(Theirs, Unsaid, Unsaid, {}, Unsaid, FALSE) ELSE notes[q]]
  /\ made' = made \cup {p} /\ UNCHANGED <<rooted, work, origin, lost, cuts>>

FlattenNext ==
  \/ Migrate \/ WriteMoved \/ UnlinkMoved \/ Revert \/ WriteBack \/ UnlinkBack \/ Done1 \/ Interrupt
  \/ \E p \in Places : p[1] # VaultRoot /\ (p[1] \in Legacy => p[3] = 0) /\ Touch(p)

-----------------------------------------------------------------------------
\* Properties.

Bears(p, text) == notes[p].text = text
Copies(text) == {p \in DOMAIN notes : Bears(p, text)}

\* Whenever it is interrupted and however often it is begun again, every text is in the
\* vault, unless it was overwritten where a person had put a note meanwhile; and there are
\* two of one only while it is moved, or after an interruption.
NoTextIsLost ==
  /\ \A p \in DOMAIN origin : Copies(origin[p].text) # {} \/ \E l \in lost : l.text = origin[p].text
  /\ \A l \in lost : l.at \in made
  /\ cuts = 0 /\ ~work.half => \A p \in DOMAIN origin : Cardinality(Copies(origin[p].text)) <= 1

\* A migration that ends uninterrupted leaves no note by its kind that could be read, but
\* for those a person put there meanwhile; and its moves go to places of their own.
MovesAreApart ==
  /\ work.do = "apply" =>
       \A i, j \in DOMAIN work.todo : i # j => work.todo[i].dst # work.todo[j].dst
  /\ work.do = "apply" /\ work.todo = <<>> => \A p \in LegacyNotes : notes[p].bare \/ p \in made

\* A revert that ends, where nothing was interrupted or added, has every note back in its
\* place, if the vault was recognised, and nothing of what it said about itself is gone: at
\* most the kind of its folder is new.
OwnWords(n) == ({n.kind} \cup n.tags) \ {Unsaid}
RevertRestores ==
  work.do = "revert" /\ work.todo = <<>> /\ cuts = 0 /\ made = {} =>
    \A p \in DOMAIN origin :
      LET q == CHOOSE q \in Copies(origin[p].text) : TRUE IN
      /\ q = p \/ q[1] = VaultRoot
      /\ OwnWords(origin[p]) \subseteq OwnWords(notes[q])
      /\ q = p => OwnWords(notes[q]) \subseteq OwnWords(origin[p]) \cup
                                          (IF p[1] \in Legacy THEN {KindOf[p[1]]} ELSE {})

FlattenSound == NoTextIsLost /\ MovesAreApart /\ RevertRestores
=============================================================================
