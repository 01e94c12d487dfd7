------------------------------- MODULE Agent --------------------------------
(***************************************************************************)
(* Conversations with the LLM and what they run, bsage/core: the tool loop *)
(* (llm.py), the calls it makes and the routing of input (agent_loop.py),  *)
(* the run of a plugin or a skill (plugin_runner.py, skill_runner.py), and *)
(* the chat around it (gateway/chat.py, chat_bridge.py).                   *)
(*                                                                         *)
(* These call each other, and a plugin may chat again: the state is the    *)
(* stack of one request's frames, and what the frame above came back with. *)
(* Between two steps, which end at an await, the registry may change and   *)
(* Safe Mode be switched.  What the LLM answers, and what it calls, is its *)
(* choice; it may name what it was not offered.                            *)
(***************************************************************************)
EXTENDS Lists, FiniteSets, SequencesExt

CONSTANTS Crew,        \* entries
          Trait,       \* what each is: a record of Traits
          Builtins,    \* the vault's own tools
          Answers,     \* what the LLM may call in one message: sequences of names
          Calls,       \* the requests: "chat", "bridge", "compiled", "input"
          Casts,       \* the registries to begin with: sets of entries
          MaxRounds,   \* the bound of the tool loop: 10
          MaxDepth,    \* bound: frames of the stack
          MaxChanges   \* bound: changes of the registry and of Safe Mode

Traits == [plugin: BOOLEAN, category: {"process", "input", "output"},
           trigger: {"none", "on_demand", "on_input", "cron"}, schema: BOOLEAN,
           dangerous: BOOLEAN, needs: BOOLEAN, writes: BOOLEAN]

ASSUME AgentAssumption ==
  /\ Trait \in [Crew -> Traits] /\ Casts \subseteq SUBSET Crew /\ Calls \subseteq {"chat", "bridge", "compiled", "input"}
  /\ \A calls \in Answers : calls \in Seq(ToSet(calls))
  /\ MaxRounds \in Nat \ {0} /\ MaxDepth \in Nat

VARIABLES
  stack,      \* the frames, the innermost first
  back,       \* how the last one ended: "none" if its caller has gone on, or "ok", "raised",
              \* "missing" credentials
  there,      \* the entries the registry has
  safe,       \* Safe Mode
  last, how,  \* history: the frame that ended last, and how
  faults,     \* history: who raised, the LLM or the gate
  changes     \* bound

agentVars == <<stack, back, there, safe, last, how, faults, changes>>

NoFrame == [kind |-> "none"]

AgentInit ==
  /\ stack = <<>> /\ back = "none" /\ last = NoFrame /\ how = "none" /\ faults = {}
  /\ there \in Casts /\ safe \in BOOLEAN /\ changes = 0

-----------------------------------------------------------------------------
\* Frames.

\* LiteLLMClient.chat: what it was given to call, how often it asked, and of its last
\* message the calls that are left, how many there were and how many have been answered.
Talk(tools) == [kind |-> "talk", tools |-> tools, round |-> 0, left |-> <<>>, asked |-> 0, told |-> 0]

\* _handle_tool_call: whether what was called did its work, and whether that was logged;
\* what is told is a result or an error.
Call(name) == [kind |-> "call", of |-> name, at |-> "start", did |-> FALSE, logged |-> FALSE,
               error |-> FALSE]

\* Runner.run: the events it emitted; how it passed the gate; what it did.
Run(e, pass) == [kind |-> "run", of |-> e, at |-> "start", events |-> <<>>, pass |-> pass,
                 did |-> FALSE, odd |-> FALSE]

\* handle_chat: by a bridge with a channel to reply to, or by one with a compiler.
Chat(reply, compiler) == [kind |-> "chat", at |-> "gather", reply |-> reply, compiler |-> compiler,
                          logged |-> FALSE, saved |-> FALSE, replies |-> 0]

\* _decide_on_demand: the results it has, and how many runs have finished.
Route == [kind |-> "route", at |-> "refine", known |-> {}, todo |-> <<>>, results |-> 0, runs |-> 0]

Top == stack[1]
At(kind, at) == stack # <<>> /\ Top.kind = kind /\ Top.at = at
Talks == stack # <<>> /\ Top.kind = "talk"
Same == UNCHANGED <<there, safe, changes>>

Becomes1(f) == stack' = <<f>> \o Tail(stack) /\ back' = "none" /\ UNCHANGED <<last, how>>
Pushes(f, under) == stack' = <<f, under>> \o Tail(stack) /\ back' = "none" /\ UNCHANGED <<last, how>>

\* A frame ends.  A run that finished is counted for the routing it is part of: its caller,
\* or that of the tool loop that called it.
Routing == {i \in 2..Len(stack) : i <= 4 /\ stack[i].kind = "route"}
Counted(s) == IF Top.kind = "run" /\ Routing # {}
              THEN LET i == CHOOSE i \in Routing : TRUE IN [s EXCEPT ![i].runs = @ + 1] ELSE s
Closes(f, out) ==
  /\ stack' = Tail(IF out = "ok" THEN Counted(stack) ELSE stack)
  /\ back' = IF Len(stack) = 1 THEN "none" ELSE out
  /\ last' = f /\ how' = out

Raises1(who) == faults' = faults \cup {who}
NoFault == UNCHANGED faults

-----------------------------------------------------------------------------
\* The tool loop.

\* What a chat offers: the vault's tools, and the enabled plugins with a schema.
Offered == Builtins \cup {e \in there : /\ Trait[e].plugin /\ Trait[e].schema
                                        /\ Trait[e].category = "process"}

Listens == Talks /\ Top.left = <<>> /\ back = "none"

\* The next completion.  After so many rounds the loop ends with what was said last.
Completion ==
  /\ Listens /\ Same /\ NoFault
  /\ \/ Closes(Top, "ok")
     \/ /\ Top.round < MaxRounds /\ Top.tools # {}
        /\ \E calls \in Answers :
             Becomes1([Top EXCEPT !.round = @ + 1, !.left = calls, !.asked = Len(calls), !.told = 0])

\* A completion that raises, or comes without a choice.
CompletionRaises ==
  /\ Listens /\ Top.round < MaxRounds /\ Closes(Top, "raised") /\ Raises1("llm") /\ Same

\* The next call of the message.
Calls1 ==
  /\ Talks /\ Top.left # <<>> /\ back = "none" /\ Len(stack) < MaxDepth
  /\ Pushes(Call(Head(Top.left)), Top) /\ Same /\ NoFault

\* Its answer; the routing that collects them notes each.
Told ==
  /\ Talks /\ back # "none" /\ Same /\ NoFault
  /\ IF back = "ok"
     THEN LET f == [Top EXCEPT !.left = Tail(@), !.told = @ + 1] IN
          IF Len(stack) > 1 /\ stack[2].kind = "route"
          THEN /\ stack' = <<f, [stack[2] EXCEPT !.results = @ + 1]>> \o SubSeq(stack, 3, Len(stack))
               /\ back' = "none" /\ UNCHANGED <<last, how>>
          ELSE Becomes1(f)
     ELSE Closes(Top, "raised")

-----------------------------------------------------------------------------
\* One call.

Errs(f) == [f EXCEPT !.error = TRUE]

\* A tool of the vault, an entry of the registry whether or not it was offered, or nothing.
CallStarts ==
  /\ At("call", "start") /\ Same /\ NoFault
  /\ IF Top.of \in Builtins THEN Becomes1([Top EXCEPT !.at = "handle"])
     ELSE IF Top.of \notin there THEN Closes(Errs(Top), "ok")
     ELSE Becomes1([Top EXCEPT !.at = "gate"])

\* The handler of a tool of the vault, which may raise, having written or not.
Handle ==
  /\ At("call", "handle") /\ Same /\ NoFault
  /\ \/ Becomes1([Top EXCEPT !.at = "log", !.did = TRUE])
     \/ \E did \in BOOLEAN : Closes(Errs([Top EXCEPT !.did = did]), "ok")

\* SafeModeGuard.check: what it lets pass, and what an approver may answer.
PassesAs(e) == IF ~safe THEN "off" ELSE "safe"
Asks1(e) == safe /\ Trait[e].dangerous

CallGateMutant ==
  /\ At("call", "gate") /\ Same
  /\ Pushes(Run(Top.of, PassesAs(Top.of)), [Top EXCEPT !.at = "run"]) /\ NoFault

\* The gate: a no is told; without an approver the check raises, out of the whole tool loop.
CallGate ==
  /\ At("call", "gate") /\ Same
  /\ \/ ~Asks1(Top.of) /\ Pushes(Run(Top.of, PassesAs(Top.of)), [Top EXCEPT !.at = "run"]) /\ NoFault
     \/ Asks1(Top.of) /\ Pushes(Run(Top.of, "yes"), [Top EXCEPT !.at = "run"]) /\ NoFault
     \/ Asks1(Top.of) /\ Closes(Errs(Top), "ok") /\ NoFault
     \/ Asks1(Top.of) /\ Closes(Top, "raised") /\ Raises1("gate")

\* The run ended.
CallRan ==
  /\ At("call", "run") /\ back # "none" /\ Same /\ NoFault
  /\ IF back = "ok" THEN Becomes1([Top EXCEPT !.at = "log", !.did = TRUE])
     ELSE Closes(Errs(Top), "ok")

\* The line of the action log, which may fail: then an error is told of what was done.
CallLog ==
  /\ At("call", "log") /\ Same /\ NoFault
  /\ Closes([Top EXCEPT !.logged = TRUE], "ok") \/ Closes(Errs(Top), "ok")

-----------------------------------------------------------------------------
\* One run.

Emits(f, event) == [f EXCEPT !.events = Append(@, event)]

\* A plugin's credentials, its input and that it can be executed are checked after its start
\* was announced.
RunStarts ==
  /\ At("run", "start") /\ Same /\ NoFault
  /\ LET f == Emits(Top, "start") IN
     IF ~Trait[Top.of].plugin THEN Becomes1([f EXCEPT !.at = "gather"])
     ELSE \/ Trait[Top.of].needs /\ Closes(f, "missing")
          \/ Closes(f, "raised")
          \/ Becomes1([f EXCEPT !.at = "body"])

\* What the plugin does: it may chat, raise, and answer with something that is no dict.
PluginChats ==
  /\ At("run", "body") /\ Len(stack) + 1 < MaxDepth /\ Same /\ NoFault
  /\ \E reply \in BOOLEAN : Pushes(Chat(reply, FALSE), [Top EXCEPT !.at = "chat"])

PluginChatted ==
  /\ At("run", "chat") /\ back # "none" /\ Same /\ NoFault
  /\ IF back = "ok" THEN Becomes1([Top EXCEPT !.at = "work"])
     ELSE Closes(Emits(Top, "error"), "raised")

PluginEnds ==
  /\ At("run", "body") \/ At("run", "work")
  /\ Same /\ NoFault
  /\ \/ Closes(Emits([Top EXCEPT !.did = TRUE], "complete"), "ok")
     \/ \E did \in BOOLEAN : Closes(Emits([Top EXCEPT !.did = did], "error"), "raised")
     \/ Closes([Top EXCEPT !.did = TRUE, !.odd = TRUE], "raised")

\* A skill reads, asks the LLM without tools, and writes what it answered.
Gather ==
  /\ At("run", "gather") /\ Same /\ NoFault
  /\ \/ Closes(Emits(Top, "error"), "raised")
     \/ Len(stack) < MaxDepth /\ Pushes(Talk({}), [Emits(Top, "gather") EXCEPT !.at = "llm"])

Respond ==
  /\ At("run", "llm") /\ back # "none" /\ Same /\ NoFault
  /\ IF back = "ok" THEN Becomes1([Emits(Top, "response") EXCEPT !.at = "apply"])
     ELSE Closes(Emits(Top, "error"), "raised")

\* A response that is not the JSON asked for is written as it is.
ApplyOutput ==
  /\ At("run", "apply") /\ Same /\ NoFault
  /\ LET done == Emits(Emits([Top EXCEPT !.did = Trait[Top.of].writes], "apply"), "complete") IN
     \/ Closes(done, "ok")
     \/ Trait[Top.of].writes /\ Closes(Emits(Top, "error"), "raised")

-----------------------------------------------------------------------------
\* A chat.

\* The system prompt may miss a part; then the tools are listed and the LLM is asked.
ChatGathers ==
  /\ At("chat", "gather") /\ Same /\ NoFault
  /\ Closes(Top, "raised") \/ Pushes(Talk(Offered), [Top EXCEPT !.at = "talk"])

ChatTalked ==
  /\ At("chat", "talk") /\ back # "none" /\ Same /\ NoFault
  /\ IF back = "ok" THEN Becomes1([Top EXCEPT !.at = "log"]) ELSE Closes(Top, "raised")

ChatLogs ==
  /\ At("chat", "log") /\ Same /\ NoFault
  /\ Becomes1([Top EXCEPT !.at = "save", !.logged = TRUE]) \/ Closes(Top, "raised")

\* The transcript.  A compiler is then asked for a method that it does not have.
ChatSaves ==
  /\ At("chat", "save") /\ Same /\ NoFault
  /\ LET f == [Top EXCEPT !.saved = TRUE, !.at = "reply"] IN
     \/ Closes(Top, "raised")
     \/ IF Top.compiler THEN Closes(f, "raised") ELSE Becomes1(f)

\* run_notify: the plugin of the channel sends, or raises before it did or after.
Notified(f) == {f, [f EXCEPT !.replies = @ + 1]}

\* What the LLM said goes to the channel unless it is blank; that it could not is no error.
ChatReplies ==
  /\ At("chat", "reply") /\ Same /\ NoFault
  /\ \E f \in {Top} \cup IF Top.reply THEN Notified(Top) ELSE {} : Closes(f, "ok")

-----------------------------------------------------------------------------
\* Input for which the LLM chooses.

OnDemand == {e \in there : Trait[e].category = "process" /\ Trait[e].trigger \in {"none", "on_demand"}}
OnDemandTools == {e \in OnDemand : Trait[e].plugin /\ Trait[e].schema}

\* The LLM is asked to clean the input, unless it is clean; it stays as it is if that raises.
\* (What Host has follows: the writes, and the entries the input triggers.)
Refine ==
  /\ At("route", "refine") /\ Same /\ NoFault
  /\ \/ back = "none" /\ Pushes(Talk({}), Top)
     \/ Becomes1([Top EXCEPT !.at = "collect"])

\* If any of them can be called as a tool, the LLM calls tools; else it names entries.
Collect1 ==
  /\ At("route", "collect") /\ Same /\ NoFault
  /\ IF OnDemand = {} THEN Closes(Top, "ok")
     ELSE Pushes(Talk(OnDemandTools),
                 [Top EXCEPT !.at = IF OnDemandTools = {} THEN "named" ELSE "called", !.known = OnDemand])

\* Whatever is raised, the results so far are the answer.
RouteCalled == At("route", "called") /\ back # "none" /\ Closes(Top, "ok") /\ Same /\ NoFault

\* The names that are known, unless one is no longer there.
RouteNamed ==
  /\ At("route", "named") /\ back # "none" /\ Same /\ NoFault
  /\ IF back # "ok" THEN Closes(Top, "ok")
     ELSE \E named \in Answers :
            LET some == Filter(named, Top.known) IN
            IF ToSet(some) \subseteq there THEN Becomes1([Top EXCEPT !.at = "gate", !.todo = some])
            ELSE Closes(Top, "ok")

RouteGate ==
  /\ At("route", "gate") /\ Same
  /\ IF Top.todo = <<>> THEN Closes(Top, "ok") /\ NoFault
     ELSE LET e == Head(Top.todo)
              f == [Top EXCEPT !.todo = Tail(@)]
          IN \/ ~Asks1(e) /\ Pushes(Run(e, PassesAs(e)), [f EXCEPT !.at = "run"]) /\ NoFault
             \/ Asks1(e) /\ Pushes(Run(e, "yes"), [f EXCEPT !.at = "run"]) /\ NoFault
             \/ Asks1(e) /\ Becomes1(f) /\ NoFault
             \/ Asks1(e) /\ Closes(Top, "ok") /\ Raises1("gate")

\* One that fails ends them all.
RouteRan ==
  /\ At("route", "run") /\ back # "none" /\ Same /\ NoFault
  /\ IF back = "ok" THEN Becomes1([Top EXCEPT !.at = "log", !.results = @ + 1]) ELSE Closes(Top, "ok")

RouteLog ==
  /\ At("route", "log") /\ Same /\ NoFault
  /\ Becomes1([Top EXCEPT !.at = "gate"]) \/ Closes(Top, "ok")

-----------------------------------------------------------------------------
\* Requests, and what changes meanwhile.

Serve(c) ==
  /\ stack = <<>> /\ last.kind = "none" /\ Same /\ NoFault /\ UNCHANGED <<back, last, how>>
  /\ stack' = <<IF c = "input" THEN Route ELSE Chat(c = "bridge", c = "compiled")>>

Alters == /\ stack # <<>> /\ changes < MaxChanges /\ changes' = changes + 1
           /\ UNCHANGED <<stack, back, last, how, faults>>

\* A refresh of the registry drops an entry or finds one.
Reloads1(e) ==
  /\ Alters /\ UNCHANGED safe
  /\ there' = IF e \in there THEN there \ {e} ELSE there \cup {e}

SwitchSafe == Alters /\ safe' = ~safe /\ UNCHANGED there

AgentNext ==
  \/ \E c \in Calls : Serve(c)
  \/ Completion \/ CompletionRaises \/ Calls1 \/ Told
  \/ CallStarts \/ Handle \/ CallGate \/ CallRan \/ CallLog
  \/ RunStarts \/ PluginChats \/ PluginChatted \/ PluginEnds \/ Gather \/ Respond \/ ApplyOutput
  \/ ChatGathers \/ ChatTalked \/ ChatLogs \/ ChatSaves \/ ChatReplies
  \/ Refine \/ Collect1 \/ RouteCalled \/ RouteNamed \/ RouteGate \/ RouteRan \/ RouteLog
  \/ SwitchSafe \/ \E e \in Crew : Reloads1(e)

-----------------------------------------------------------------------------
\* Properties.

\* The LLM is told of every call of a message before it is asked again, once each, whatever
\* became of the call; and no failure of what it called ends the conversation, only its own
\* or that of the gate.
EveryCallIsTold ==
  /\ \A i \in DOMAIN stack : stack[i].kind = "talk" =>
       /\ stack[i].told + Len(stack[i].left) = stack[i].asked
       /\ stack[i].round <= MaxRounds
  /\ last.kind \in {"talk", "call"} /\ how = "raised" => faults # {}

\* What a call did is in the action log, or an error was told of it; and what is in the log
\* was done.
DoneIsLogged ==
  last.kind = "call" /\ how = "ok" =>
    /\ last.did => last.logged # last.error
    /\ last.logged => last.did
    /\ ~last.error => last.did

\* A dangerous entry runs only if it was approved or Safe Mode was off when it passed.
RunsAreGated ==
  \A i \in DOMAIN stack : stack[i].kind = "run" /\ Trait[stack[i].of].dangerous =>
    stack[i].pass \in {"yes", "off"}

\* The events of a skill say how it ended, and one that failed wrote nothing.  Those of a
\* plugin do, unless it never began or answered with what it should not.
EventsTell ==
  last.kind = "run" =>
    LET end == Last(last.events) IN
    /\ Head(last.events) = "start"
    /\ how = "ok" <=> end = "complete"
    /\ ~Trait[last.of].plugin => /\ how # "ok" <=> end = "error"
                                 /\ last.did => how = "ok"
    /\ Trait[last.of].plugin /\ end = "start" => last.odd \/ ~last.did

\* A chat that answered left a line in the log and its transcript, before any reply; one
\* that failed after it had its answer saved has a compiler.  At most one reply is sent.
ChatIsKept ==
  last.kind = "chat" =>
    /\ how = "ok" => last.logged /\ last.saved
    /\ last.replies > 0 => last.saved /\ last.replies = 1 /\ last.reply
    /\ how = "raised" /\ last.saved => last.compiler

\* Input never fails for what the LLM chose, and every run that finished is in its results.
RoutingReports ==
  last.kind = "route" => how = "ok" /\ last.results >= last.runs

AgentSound ==
  /\ EveryCallIsTold /\ DoneIsLogged /\ RunsAreGated /\ EventsTell /\ ChatIsKept /\ RoutingReports
=============================================================================
