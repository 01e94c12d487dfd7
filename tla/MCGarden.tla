----------------------------- MODULE MCGarden -----------------------------
(* Garden with small vaults, and what happens to them a few things at a time. *)
EXTENDS Garden

MCDirs == {"seeds", "seedling", "budding", "evergreen", "seed", "entities"}
MCTitles == {"a", "b"}
MCMaxDup == 2
MCPaths == MCDirs \X MCTitles \X (0..MCMaxDup)
MCNames == MCTitles \X (0..MCMaxDup)
MCOwnName == [p \in MCPaths |-> <<p[2], p[3]>>]
MCTexts == {"old", "toA", "toB", "new", "newer", "alsoA"}

MCContents == [status: {"none", "seed", "seedling", "budding", "evergreen"},
               maturity: {"none", "seed", "seedling", "budding", "evergreen"},
               states: SUBSET MCNames, auto: BOOLEAN, mentions: SUBSET MCPaths,
               body: SUBSET MCTexts, shown: SUBSET MCPaths, tail: SUBSET MCTexts]

MCLinks == [x \in MCTexts |-> IF x \in {"toA", "alsoA"} THEN {"a"} ELSE IF x = "toB" THEN {"b"} ELSE {}]
MCRelates == [x \in MCTexts |-> IF x = "new" THEN {<<"b", 0>>} ELSE {}]

A == <<"seedling", "a", 0>>
B == <<"budding", "b", 0>>
S == <<"seeds", "b", 0>>
E == <<"entities", "b", 0>>
Promoted == <<"budding", "a", 0>> \* where a promotion of A moves it

\* A vault with a note that is due for a promotion, one that links to it and is due for a
\* demotion; and an empty one.
NoteA == [NewNote(A, "old") EXCEPT !.status = "seedling"]
NoteB == [NewNote(B, "toA") EXCEPT !.status = "budding"]
MCFirstNotes == {[p \in {A, B} |-> IF p = A THEN NoteA ELSE NoteB], [p \in {} |-> Blank]}

Asked(do, path, text) == <<[do |-> do, path |-> path, text |-> text, stubs |-> FALSE]>>
Planned(do, path, text) == <<[do |-> do, path |-> path, text |-> text, stubs |-> TRUE]>>
Two(x, y) == [asks |-> [t \in Tasks |-> IF t = "t1" THEN x ELSE y],
              care |-> 0, edges |-> 0, ages |-> 0, crashes |-> 0, faults |-> 0]
One(x) == Two(x, <<>>)

Changes(p, text) == {Asked(do, p, text) : do \in {"update", "replace", "append", "delete"}
                                                 \cup IF p = E THEN {} ELSE {"create"}}
Plans == {Planned("update", B, "toB"), Planned("create", A, "toB") \o Planned("append", E, "newer")}

\* Any two changes of a note; a plan and a change; a promotion, the edge lifecycle, a crash
\* beside a change; a crash beside a promotion; two nights; a note created where a promotion
\* moves another; one replaced, deleted and created again while a promotion visits it; one
\* that states what another has stated, which is deleted.
MCWorkloads ==
  UNION {{Two(x, y) : x \in Changes(A, "new"), y \in Changes(A, "newer")},
         {Two(x, y) : x \in Plans, y \in Changes(E, "new") \cup {Planned("create", S, "new")}},
         {[One(x) EXCEPT !.care = 1] : x \in Changes(A, "new") \cup Plans},
         {[One(x) EXCEPT !.edges = 1, !.ages = 1] : x \in Changes(A, "new") \cup Changes(B, "toB")},
         {[One(x) EXCEPT !.crashes = 1, !.faults = 1] : x \in Changes(A, "new") \cup {Asked("create", S, "new")}},
         {[Two(Asked("delete", A, "new"), Asked("append", A, "newer")) EXCEPT !.crashes = 1],
          [Two(Asked("delete", A, "new"), Asked("replace", B, "toB")) EXCEPT !.care = 1],
          [One(Asked("replace", B, "toB")) EXCEPT !.edges = 1, !.ages = 1, !.care = 1],
          [One(Asked("create", Promoted, "new")) EXCEPT !.care = 1],
          [One(Asked("replace", B, "toB") \o Asked("delete", B, "newer") \o Asked("create", B, "new")) EXCEPT !.care = 1],
          One(Asked("create", S, "alsoA") \o Asked("delete", B, "newer")),
          [One(<<>>) EXCEPT !.care = 1, !.crashes = 1],
          [One(<<>>) EXCEPT !.care = 2, !.edges = 1, !.ages = 1]}}
=============================================================================
