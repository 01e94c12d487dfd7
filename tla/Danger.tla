------------------------------- MODULE Danger -------------------------------
(***************************************************************************)
(* Whether a plugin is dangerous, bsage/core/danger_analyzer.py: by the    *)
(* imports of its code, by what the language model says of code that       *)
(* cannot be parsed, and by what was found earlier of the same code, which *)
(* is kept in memory and, as far as it can be saved, on disk.  Plugins are *)
(* edited and the process dies at any time, also between the question to   *)
(* the model and its answer, while other analyses go on.                   *)
(***************************************************************************)
EXTENDS Naturals, FiniteSets

CONSTANTS Plugins1,      \* names
          Codes,         \* what a plugin's file may hold
          Imports,       \* what the parser finds in each: "none", "risky", or "unparsable"
          NoVerdict, TornFile,
          MaxEdits, MaxDeaths   \* bounds

ASSUME DangerAssumption == Imports \in [Codes -> {"none", "risky", "unparsable"}]

VARIABLES
  code,       \* per plugin, what its file holds
  model,      \* whether there is a language model to ask
  memory,     \* the cache: per plugin, [of: code, dangerous], or NoVerdict
  saved,      \* the cache's file: the same for all plugins, or TornFile
  asked,      \* the analyses that wait for the model: [plugin, of, n]
  answers,    \* history: what was answered: [plugin, of, dangerous]
  cleared,    \* history: plugins with a code that the model called safe
  past        \* bound: [edits, deaths]

dangerVars == <<code, model, memory, saved, asked, answers, cleared, past>>

NothingKnown == [p \in Plugins1 |-> NoVerdict]

DangerInit ==
  /\ code \in [Plugins1 -> Codes] /\ model \in BOOLEAN
  /\ memory = NothingKnown /\ saved = NothingKnown
  /\ asked = {} /\ answers = {} /\ cleared = {} /\ past = [edits |-> 0, deaths |-> 0]

\* StaticAnalyzer.analyze: the verdicts it can give; none if the code cannot be parsed.
Static(c) == IF Imports[c] = "unparsable" THEN {} ELSE {Imports[c] = "risky"}

CachedMutant(p, c) == IF memory[p] # NoVerdict THEN {memory[p].dangerous} ELSE {}

\* DangerCache.get: what is known of this plugin with this code.
Cached(p, c) == IF memory[p] # NoVerdict /\ memory[p].of = c THEN {memory[p].dangerous} ELSE {}

\* DangerCache._save: everything in memory; what it was, or a torn file, if the disk refuses.
Saves == saved' \in {memory', saved, TornFile}

\* DangerCache.set, and the answer.
Settles(p, c, dangerous) ==
  /\ memory' = [memory EXCEPT ![p] = [of |-> c, dangerous |-> dangerous]] /\ Saves
  /\ answers' = answers \cup {[plugin |-> p, of |-> c, dangerous |-> dangerous]}

\* analyze, up to the question: known, or found by the parser, or dangerous for want of a
\* model, or asked.
Analyze(p) ==
  LET c == code[p] IN
  /\ \/ \E d \in Cached(p, c) :
          /\ answers' = answers \cup {[plugin |-> p, of |-> c, dangerous |-> d]}
          /\ UNCHANGED <<memory, saved, asked>>
     \/ Cached(p, c) = {} /\ UNCHANGED asked /\ \E d \in Static(c) : Settles(p, c, d)
     \/ Cached(p, c) \cup Static(c) = {} /\ ~model /\ Settles(p, c, TRUE) /\ UNCHANGED asked
     \/ /\ Cached(p, c) \cup Static(c) = {} /\ model
        /\ \E n \in 1..2 : asked' = asked \cup {[plugin |-> p, of |-> c, n |-> n]} /\ asked' # asked
        /\ UNCHANGED <<memory, saved, answers>>
  /\ UNCHANGED <<code, model, cleared, past>>

\* _llm_analyze: it says so, or it fails or talks nonsense, which counts as dangerous.
Learns(q, says) ==
  /\ asked' = asked \ {q} /\ Settles(q.plugin, q.of, says # "safe")
  /\ cleared' = IF says = "safe" THEN cleared \cup {<<q.plugin, q.of>>} ELSE cleared
  /\ UNCHANGED <<code, model, past>>

EditsPlugin(p, c) ==
  /\ past.edits < MaxEdits /\ past' = [past EXCEPT !.edits = @ + 1]
  /\ code[p] # c /\ code' = [code EXCEPT ![p] = c]
  /\ UNCHANGED <<model, memory, saved, asked, answers, cleared>>

\* DangerCache._load by the next process, which may have a model or not.
Reborn ==
  /\ past.deaths < MaxDeaths /\ past' = [past EXCEPT !.deaths = @ + 1]
  /\ memory' = IF saved = TornFile THEN NothingKnown ELSE saved
  /\ asked' = {} /\ model' \in BOOLEAN /\ UNCHANGED <<code, saved, answers, cleared>>

DangerNext ==
  \/ \E p \in Plugins1 : Analyze(p) \/ \E c \in Codes : EditsPlugin(p, c)
  \/ \E q \in asked, says \in {"safe", "dangerous", "nonsense"} : Learns(q, says)
  \/ Reborn

-----------------------------------------------------------------------------
\* Properties.

\* A verdict fits the code it is given for: safe is only what imports nothing risky, or what
\* the model called safe for this very code of this plugin; dangerous, never what the parser
\* cleared.
Fits(p, c, dangerous) ==
  IF dangerous THEN Imports[c] # "none"
  ELSE Imports[c] = "none" \/ (Imports[c] = "unparsable" /\ <<p, c>> \in cleared)

\* Every answer fits its code, however plugins were edited and analyses overtook each other;
\* and so does all that is kept, in memory or on disk, for a later process to answer with.
DangerSound ==
  /\ \A a \in answers : Fits(a.plugin, a.of, a.dangerous)
  /\ \A p \in Plugins1 : memory[p] # NoVerdict => Fits(p, memory[p].of, memory[p].dangerous)
  /\ saved # TornFile =>
       \A p \in Plugins1 : saved[p] # NoVerdict => Fits(p, saved[p].of, saved[p].dangerous)
=============================================================================
