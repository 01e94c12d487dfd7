----------------------------- MODULE Retrieval ------------------------------
(***************************************************************************)
(* How notes reach a prompt: VaultRetriever of bsage/garden/retriever.py   *)
(* over the file index and the vectors, and its callers, each with a       *)
(* fallback of its own: skills (core/skill_runner.py), the chat            *)
(* (gateway/chat.py) and search_knowledge (gateway/mcp_tools.py).          *)
(*                                                                         *)
(* A request lists first and reads later, one await per directory and      *)
(* note, while notes move between folders and vanish and the index and     *)
(* the vectors follow.  The text of a note is its size.                    *)
(***************************************************************************)
EXTENDS Integers, Sequences, FiniteSets, SequencesExt, Lists

CONSTANTS Texts,        \* notes
          Order,        \* their order by date, which is their order by name
          Length,       \* the size of each
          Garbled,      \* notes that are not UTF-8: reading one raises a ValueError
          Folders,
          Library,      \* the vaults to begin with: per note, its folder or Nowhere
          Wants,        \* the requests: records of Want
          Row,          \* the size of a line of the index table
          Newest,       \* how many texts the index path reads: 5
          MaxMoves,     \* bound: notes that move or vanish, index entries that follow
          Nowhere

Want == [by: {"agent", "skill", "chat", "search", "knowledge"}, dirs: Seq(Folders), chars: Nat,
         top: Nat \ {0}]

ASSUME RetrievalAssumption ==
  /\ IsFiniteSet(Texts) /\ Nowhere \notin Folders
  /\ Order \in [Texts -> Nat] /\ Length \in [Texts -> Nat] /\ Garbled \subseteq Texts
  /\ Library \subseteq [Texts -> Folders \cup {Nowhere}] /\ Wants \subseteq Want
  /\ Row \in Nat /\ Newest \in Nat \ {0}

VARIABLES
  place,       \* per note, its folder
  listed,      \* per note, the folder the file index has it in
  embedded,    \* per note, the folder the vectors have it in
  ask,         \* the request
  reply,       \* the texts it has so far, [of: a note, size: what was taken of it]
  had,         \* history: the folders the index had the notes in when the request began
  moved,       \* history: the notes that moved or vanished since the request began
  missed,      \* history: what the index or the embedder raised, if anything
  moves        \* bound

retrievalVars == <<place, listed, embedded, ask, reply, had, moved, missed, moves>>

\* at: where the request is; dirs: the folders it has left to list; left: the paths it has
\* left to read; total: the characters it has.
NoAsk == [at |-> "none", want |-> Nowhere, dirs |-> <<>>, left |-> <<>>, total |-> 0]

NoIndex == [n \in Texts |-> Nowhere]

RetrievalInit ==
  /\ place \in Library /\ listed = place /\ embedded = place /\ had = NoIndex
  /\ ask = NoAsk /\ reply = <<>> /\ moved = {} /\ missed = {} /\ moves = 0

-----------------------------------------------------------------------------
\* Listings: sequences of paths, a note and its folder.

PathsIn(where, dirs) == {[of |-> n, in |-> where[n]] : n \in {n \in Texts : where[n] \in dirs}}
Upto(s, n) == SubSeq(s, 1, IF n < Len(s) THEN n ELSE Len(s))

\* The notes that some folders have by where, newest first, as often as their folder is named:
\* get_summaries of the index (of each folder in turn, then sorted) and read_notes of the
\* vault (by name, oldest first: the Reverse).
Listings(where, dirs) ==
  LET found == {e \in Texts \X DOMAIN dirs : where[e[1]] = dirs[e[2]]}
  IN {s \in [1..Cardinality(found) -> PathsIn(where, ToSet(dirs))] :
       /\ \A i, j \in DOMAIN s : i < j => Order[s[i].of] >= Order[s[j].of]
       /\ \A p \in PathsIn(where, ToSet(dirs)) :
            Cardinality({i \in DOMAIN s : s[i] = p}) = Cardinality({k \in DOMAIN dirs : dirs[k] = p.in})}

-----------------------------------------------------------------------------
Asking(at) == ask.at = at
Goes1(a) == ask' = a
Still == UNCHANGED <<place, listed, embedded, had, moved, moves>>
Wanted == ask.want
Room == Wanted.chars - ask.total

\* A request begins; a chat without a retriever, or a search without an embedder, goes
\* straight to what it does without.
Request(w) ==
  /\ Asking("none")
  /\ \E at \in CASE w.by = "chat" -> {"index", "own"}
                 [] w.by = "skill" -> {"index", "own"}
                 [] w.by \in {"search", "knowledge"} -> {"vectors", "listing"}
                 [] OTHER -> {"index"} :
       Goes1([NoAsk EXCEPT !.at = at, !.want = w, !.dirs = w.dirs])
  /\ had' = listed /\ moved' = {} /\ missed' = {} /\ reply' = <<>>
  /\ UNCHANGED <<place, listed, embedded, moves>>

FallbackTo(at) == [ask EXCEPT !.at = at, !.dirs = Wanted.dirs, !.left = <<>>, !.total = 0]

\* _index_retrieve: a table of the newest notes of the index, then the texts of the newest
\* of them; an index without notes falls back.
IndexRetrieve ==
  /\ Asking("index")
  /\ \E s \in Listings(listed, Wanted.dirs) :
       LET found == Upto(s, Wanted.top)
       IN Goes1(IF found = <<>> THEN FallbackTo("fallback")
                ELSE [ask EXCEPT !.at = "read", !.dirs = <<>>, !.left = Upto(found, Newest),
                                 !.total = Row * (Len(found) + 1)])
  /\ UNCHANGED <<reply, missed>> /\ Still

\* retrieve catches what it expects of an index and falls back; what it does not expect is
\* its caller's, and only skills and the chat have something else to try.
IndexRaises(expected) ==
  /\ Asking("index")
  /\ Goes1(IF expected THEN FallbackTo("fallback")
           ELSE IF Wanted.by \in {"skill", "chat"} THEN FallbackTo("own")
           ELSE [ask EXCEPT !.at = "failed"])
  /\ missed' = missed \cup {IF expected THEN "expected" ELSE "unexpected"}
  /\ UNCHANGED reply /\ Still

Full == ask.total >= Wanted.chars

\* _fallback_retrieve: one folder, then its texts, the newest.
FallbackList ==
  /\ Asking("fallback") /\ ask.left = <<>>
  /\ IF Full \/ ask.dirs = <<>> THEN Goes1([ask EXCEPT !.at = "done"])
     ELSE \E s \in Listings(place, <<Head(ask.dirs)>>) :
            Goes1([ask EXCEPT !.dirs = Tail(@), !.left = Upto(s, Wanted.top)])
  /\ UNCHANGED <<reply, missed>> /\ Still

\* What a skill does itself: the oldest of each folder.  The chat: all, newest first.
OwnList ==
  /\ Asking("own") /\ ask.left = <<>>
  /\ IF Full \/ ask.dirs = <<>> THEN Goes1([ask EXCEPT !.at = "done"])
     ELSE \E s \in Listings(place, <<Head(ask.dirs)>>) :
            Goes1([ask EXCEPT !.dirs = Tail(@),
                              !.left = IF Wanted.by = "skill" THEN Upto(Reverse(s), Wanted.top) ELSE s])
  /\ UNCHANGED <<reply, missed>> /\ Still

There(p) == place[p.of] = p.in
Takes(p, size) == reply' = Append(reply, [of |-> p.of, size |-> size])
Cut(size) == IF size < Room THEN size ELSE Room

TakenMutant(p) == Length[p.of]

\* What is taken of a text: the chat takes it whole and cuts the answer at its end.
Taken(p) == IF Asking("own") /\ Wanted.by = "chat" THEN Length[p.of] ELSE Cut(Length[p.of])

\* The next text.  A note that is not there is left out; one that is garbled too, but for a
\* skill that reads by itself, which fails.
ReadNote ==
  /\ ask.at \in {"read", "fallback", "own"} /\ ask.left # <<>>
  /\ LET p == Head(ask.left)
         next == [ask EXCEPT !.left = Tail(@)]
     IN CASE Full -> Goes1([ask EXCEPT !.left = <<>>]) /\ UNCHANGED reply
          [] ~Full /\ There(p) /\ p.of \notin Garbled ->
               /\ Takes(p, Taken(p)) /\ Goes1([next EXCEPT !.total = @ + Taken(p)])
          [] ~Full /\ There(p) /\ p.of \in Garbled /\ Asking("own") /\ Wanted.by = "skill" ->
               /\ Goes1([ask EXCEPT !.at = "failed"]) /\ UNCHANGED reply
          [] OTHER -> Goes1(next) /\ UNCHANGED reply
  /\ UNCHANGED missed /\ Still

ReadAll ==
  /\ Asking("read") /\ ask.left = <<>>
  /\ Goes1([ask EXCEPT !.at = "done"]) /\ UNCHANGED <<reply, missed>> /\ Still

-----------------------------------------------------------------------------
\* search, which answers with paths; search_knowledge reads what it finds.

\* The nearest notes, in any order: three times as many as wanted, for the folders to choose
\* from; search_knowledge knows no folders.
Nearest(w) ==
  LET all == PathsIn(embedded, Folders)
      some == IF w.by = "knowledge" THEN w.top ELSE 3 * w.top
      within(p) == w.by = "knowledge" \/ w.dirs = <<>> \/ p.in \in ToSet(w.dirs)
  IN UNION {{Upto(s, w.top) : s \in SetToSeqs({p \in t : within(p)})} :
            t \in {t \in SUBSET all :
                     Cardinality(t) = IF some < Cardinality(all) THEN some ELSE Cardinality(all)}}

VectorSearch ==
  /\ Asking("vectors")
  /\ \E found \in Nearest(Wanted) :
       Goes1([ask EXCEPT !.at = IF Wanted.by = "search" THEN "graph" ELSE "texts", !.left = found])
  /\ UNCHANGED <<reply, missed>> /\ Still

\* The embedder raises, or vectors of another dimension do.
VectorsRaise(expected) ==
  /\ Asking("vectors")
  /\ Goes1([ask EXCEPT !.at = IF expected THEN "listing" ELSE "failed"])
  /\ missed' = missed \cup {IF expected THEN "expected" ELSE "unexpected"}
  /\ UNCHANGED reply /\ Still

\* The listing of the index, in no order of its own.
SearchIndex ==
  /\ Asking("listing")
  /\ LET all == PathsIn(listed, IF Wanted.dirs = <<>> \/ Wanted.by = "knowledge" THEN Folders
                              ELSE ToSet(Wanted.dirs)) IN
     \E s \in SetToSeqs(all) : Goes1([ask EXCEPT !.at = "graph", !.left = Upto(s, Wanted.top)])
  /\ UNCHANGED <<reply, missed>> /\ Still

\* The graph's context is added, or left out if it raises what search expects of it.
\* search_knowledge answers with what it has, whatever else is raised.
GraphContext ==
  /\ Asking("graph")
  /\ \E at \in {"done"} \cup (IF Wanted.by = "search" THEN {"failed"} ELSE {}) :
       /\ Goes1([ask EXCEPT !.at = at])
       /\ missed' = IF at = "failed" THEN missed \cup {"unexpected"} ELSE missed
  /\ reply' = reply \o [i \in 1..Len(ask.left) |-> [of |-> ask.left[i].of, size |-> 0]]
  /\ Still

\* search_knowledge: one text after the other; a garbled one sends it to the listing, with
\* the texts it already had.
KnowledgeText ==
  /\ Asking("texts")
  /\ IF ask.left = <<>> THEN Goes1([ask EXCEPT !.at = "done"]) /\ UNCHANGED <<reply, missed>>
     ELSE LET p == Head(ask.left) IN
          CASE There(p) /\ p.of \in Garbled ->
                 /\ Goes1([ask EXCEPT !.at = "listing", !.left = <<>>])
                 /\ missed' = missed \cup {"expected"} /\ UNCHANGED reply
            [] There(p) /\ p.of \notin Garbled ->
                 /\ Takes(p, Length[p.of]) /\ Goes1([ask EXCEPT !.left = Tail(@)])
                 /\ UNCHANGED missed
            [] OTHER -> Goes1([ask EXCEPT !.left = Tail(@)]) /\ UNCHANGED <<reply, missed>>
  /\ Still

Return1 ==
  /\ ask.at \in {"done", "failed"} /\ Goes1(NoAsk)
  /\ reply' = <<>> /\ had' = NoIndex /\ moved' = {} /\ missed' = {}
  /\ UNCHANGED <<place, listed, embedded, moves>>

-----------------------------------------------------------------------------
\* Meanwhile.

Moving == moves < MaxMoves /\ moves' = moves + 1 /\ UNCHANGED <<ask, reply, had, missed>>

\* A note is moved, as a promotion does, or deleted.
Moves(n, d) ==
  /\ Moving /\ place[n] \notin {d, Nowhere}
  /\ place' = [place EXCEPT ![n] = d] /\ moved' = moved \cup {n}
  /\ UNCHANGED <<listed, embedded>>

\* The subscribers follow.
Follows(n) ==
  /\ Moving /\ \/ listed[n] # place[n] /\ listed' = [listed EXCEPT ![n] = place[n]] /\ UNCHANGED embedded
               \/ embedded[n] # place[n] /\ embedded' = [embedded EXCEPT ![n] = place[n]] /\ UNCHANGED listed
  /\ UNCHANGED <<place, moved>>

\* A process that starts, whose index reads the vault; it may not have embedded a note yet.
Starts(n) ==
  /\ Asking("none") /\ Moving
  /\ listed' = place /\ embedded' = [place EXCEPT ![n] = Nowhere]
  /\ UNCHANGED <<place, moved>>

RetrievalNext ==
  \/ \E w \in Wants : Request(w)
  \/ Return1 \/ IndexRetrieve \/ FallbackList \/ OwnList \/ ReadNote \/ ReadAll
  \/ VectorSearch \/ SearchIndex \/ GraphContext \/ KnowledgeText
  \/ \E expected \in BOOLEAN : IndexRaises(expected) \/ VectorsRaise(expected)
  \/ \E n \in Texts : Follows(n) \/ Starts(n) \/ \E d \in Folders \cup {Nowhere} : Moves(n, d)

-----------------------------------------------------------------------------
\* Properties.

Sizes == [i \in DOMAIN reply |-> reply[i].size]
Given == {reply[i].of : i \in DOMAIN reply}
Retrieves == ask.at # "none" /\ Wanted.by \in {"agent", "skill", "chat"}
Ended == ask.at \in {"done", "failed"}

\* An answer of a retriever takes no more characters than it may, whichever way it fell back
\* to and whatever it had when it did; only the index table, and the chat's last text, are
\* not cut to size.
WithinBudget ==
  Retrieves =>
    \/ Total(Sizes) <= Wanted.chars
    \/ Wanted.by = "chat" /\ Total(Sizes) - Last(Sizes) < Wanted.chars

\* A text is given twice only if its folder was asked for twice or it moved meanwhile.
NoTextTwice ==
  Ended /\ IsInjective(Wanted.dirs) /\ Wanted.by # "knowledge" =>
    \A i, j \in DOMAIN reply : i # j /\ reply[i].of = reply[j].of => reply[i].of \in moved

\* No readable note that stayed in its folder is passed over for an older one: the newest of
\* its folder is there, unless the index did not have it yet when the request began, or a
\* skill had to read by itself.
NewestIsThere ==
  Retrieves /\ Asking("done") /\ Wanted.by # "skill" =>
    \A n \in Given \ moved : \A m \in Texts \ (moved \cup Garbled \cup Given) :
      place[n] = place[m] /\ Order[m] > Order[n] => had[m] # place[m]

\* What fails was raised by something nobody expects, or is a skill that met a garbled note;
\* and if nothing moved, an answer is empty only if there was nothing to read, but for notes
\* that are garbled, or that the index still had where they were no longer.
Asked(n) == place[n] \in ToSet(Wanted.dirs)
Answered ==
  /\ Asking("failed") => "unexpected" \in missed
                         \/ (Wanted.by = "skill" /\ Head(ask.left).of \in Garbled)
  /\ Retrieves /\ Asking("done") /\ Given = {} /\ ~Full /\ moved = {} =>
       \/ \A n \in Texts : ~Asked(n)
       \/ \E n \in Texts : had[n] \notin {place[n], Nowhere}
       \/ \E n \in Garbled : Asked(n)

RetrievalSound == WithinBudget /\ NoTextTwice /\ NewestIsThere /\ Answered
=============================================================================
