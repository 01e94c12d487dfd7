-------------------------------- MODULE Host --------------------------------
(***************************************************************************)
(* Entries at work: the coroutines that run plugins and skills, from       *)
(* bsage/core/scheduler.py, agent_loop.py, plugin_runner.py,               *)
(* skill_runner.py and the gateway's routes, through the Safe Mode gate    *)
(* (safe_mode.py) to the sync manager (garden/sync.py) that every vault    *)
(* write notifies.  Registry says which entries there are, Approvals how   *)
(* a dangerous one is approved.                                            *)
(*                                                                         *)
(* A step of a task ends at an await.  The LLM's choice of further entries *)
(* goes through the gate as the triggered ones do and is left out, as is   *)
(* what a run does to the vault besides the action log.                    *)
(***************************************************************************)
EXTENDS Registry, Approvals

CONSTANTS Tasks, MaxStarts      \* bound: the tasks that are started

ASSUME StartsAssumption == MaxStarts \in Nat

VARIABLES task, starts

vars == <<registryVars, approvalVars, task, starts>>

Idle == [kind |-> "none", source |-> {}, at |-> "idle", cur |-> {}, todo |-> <<>>, then |-> "end",
         i |-> 0, size |-> 0, en |-> {}, req |-> {}, pass |-> "none",
         due |-> {}, called |-> {}, want |-> {}, dealt |-> {}]

One == {{e} : e \in Entries} \cup {{}}
Coroutines ==
  [kind: {"none", "input", "cron", "direct"}, source: One,
   at: {"idle", "refresh", "gate", "ask", "run", "log", "seed", "sync", "skills", "next"},
   cur: One, todo: Seq(Entries), then: {"triggered", "next", "end"},
   i: Nat, size: Nat, en: SUBSET Entries, req: SUBSET Requests,
   pass: {"none", "safe", "off", "yes"},
   due: SUBSET Entries, called: SUBSET Entries, want: SUBSET Entries, dealt: SUBSET Entries]

HostTypeOK == /\ RegistryTypeOK /\ ApprovalTypeOK
              /\ task \in [Tasks -> Coroutines] /\ starts \in 0..MaxStarts
              /\ \A t \in Tasks : Cardinality(task[t].req) <= 1

Init == /\ RegistryInit /\ ApprovalInit
        /\ task = [t \in Tasks |-> Idle] /\ starts = 0

-----------------------------------------------------------------------------
\* Steps of a task.

Becomes(t, r) == task' = [task EXCEPT ![t] = r] /\ UNCHANGED starts
Alone == UNCHANGED <<registryVars, approvalVars>>

\* A task that has no entry left to run, or raised: whoever awaits it logs it.
Over(t) == Becomes(t, Idle)

\* The next triggered entry, or the end of on_input.
Goes(r) == IF r.todo = <<>> THEN [r EXCEPT !.at = "next"]
           ELSE [r EXCEPT !.at = "gate", !.cur = {Head(r.todo)}, !.todo = Tail(@)]

\* What follows a write: the triggered entries, the next one, or the end.
Triggered == {e \in live : Meta[e].category = "process" /\ Meta[e].trigger = "on_input"}
Continues(r) ==
  IF r.then = "triggered"
  THEN Goes([r EXCEPT !.todo = InOrder(Triggered), !.want = Triggered, !.dealt = {}])
  ELSE IF r.then = "next" THEN Goes(r) ELSE Idle

\* An entry was not run, which ends a cron or direct task and not an input.
Skips(r) == IF r.kind = "input" /\ r.want # {} THEN Goes([r EXCEPT !.dealt = @ \cup r.cur]) ELSE Idle

-----------------------------------------------------------------------------
\* Starts.

Starts(t, r) == /\ task[t].at = "idle" /\ starts < MaxStarts
                /\ starts' = starts + 1 /\ task' = [task EXCEPT ![t] = r]

Busy(e) == \E t \in Tasks : task[t].source = {e} /\ task[t].kind \in {"input", "cron"}

Feeds(e) == Meta[e].trigger = "polling" \/ Meta[e].category = "input"

\* The scheduler fires a job, never twice at once.  An input, or a polling entry of any
\* category, is run and feeds on_input; no gate is asked.
FireInput(t, e) ==
  /\ e \in jobs /\ ~Busy(e) /\ Feeds(e)
  /\ Starts(t, [Idle EXCEPT !.source = {e}, !.cur = {e}, !.kind = "input", !.at = "run"])
  /\ Alone

\* A process entry goes through the gate.
FireProcess(t, e) ==
  /\ e \in jobs /\ ~Busy(e) /\ ~Feeds(e)
  /\ Starts(t, [Idle EXCEPT !.source = {e}, !.cur = {e}, !.kind = "cron", !.at = "gate"])
  /\ Alone

\* A webhook brings input for a plugin that is loaded.
Webhook(t, e) ==
  /\ e \in loaded \cap Plugins
  /\ Starts(t, [Idle EXCEPT !.source = {e}, !.kind = "input", !.at = "refresh"])
  /\ Alone

\* A plugin is called as an MCP tool: its parameters are input.
CallTool(t, e) ==
  /\ e \in (live \cap Plugins) \ config.disabled
  /\ Starts(t, [Idle EXCEPT !.source = {e}, !.kind = "input", !.at = "refresh"])
  /\ Alone

\* A user runs an entry that is not disabled.
Direct(t, e) ==
  /\ e \notin config.disabled
  /\ Starts(t, [Idle EXCEPT !.source = {e}, !.kind = "direct", !.cur = {e}, !.at = "refresh"])
  /\ Alone

RunPlugin(t, e) == e \in loaded \cap Plugins /\ Direct(t, e)
RunEntry(t, e) == e \in live /\ Direct(t, e)

-----------------------------------------------------------------------------
\* The gate.

\* on_input and run_entry_direct refresh the registry first; an entry that only a listing
\* has loaded is not found.
Refresh(t) ==
  /\ task[t].at = "refresh"
  /\ RefreshRegistry
  /\ Becomes(t, IF task[t].kind = "input" THEN [task[t] EXCEPT !.at = "log"]
                ELSE IF task[t].cur \subseteq live' THEN [task[t] EXCEPT !.at = "gate"]
                ELSE Idle)
  /\ UNCHANGED approvalVars

\* Whoever awaits a refresh that raises ends.
RefreshFails(t) ==
  /\ task[t].at = "refresh"
  /\ RefreshRaises
  /\ Over(t)
  /\ UNCHANGED approvalVars

NeedsApproval(e) == config.safe /\ e \in dangers

\* SafeModeGuard.check: what needs no approval passes.
Pass(t) ==
  /\ task[t].at = "gate"
  /\ \A e \in task[t].cur : ~NeedsApproval(e)
  /\ Becomes(t, [task[t] EXCEPT !.at = "run", !.pass = IF config.safe THEN "safe" ELSE "off"])
  /\ Alone

\* A dangerous entry asks; with nobody to ask, the check raises at once.
Ask(t, r) ==
  /\ task[t].at = "gate"
  /\ \E e \in task[t].cur : NeedsApproval(e)
  /\ RequestApproval(r)
  /\ IF conns = <<>> THEN Over(t)
     ELSE Becomes(t, [task[t] EXCEPT !.at = "ask", !.req = {r}])
  /\ UNCHANGED registryVars

Deliver(r) == Send(r) /\ UNCHANGED <<registryVars, task, starts>>

Approved(t, r) ==
  /\ task[t].at = "ask" /\ task[t].req = {r} /\ future[r] = "yes"
  /\ Resume(r)
  /\ Becomes(t, [task[t] EXCEPT !.at = "run", !.pass = "yes"])
  /\ UNCHANGED registryVars

Rejected(t, r) ==
  /\ task[t].at = "ask" /\ task[t].req = {r} /\ future[r] = "no"
  /\ Resume(r)
  /\ Becomes(t, Skips([task[t] EXCEPT !.req = {}]))
  /\ UNCHANGED registryVars

\* Nobody answers: the check raises, and ends the whole task.
Deferred(t, r) ==
  /\ task[t].at = "ask" /\ task[t].req = {r}
  /\ TimesOut(r)
  /\ Over(t)
  /\ UNCHANGED registryVars

-----------------------------------------------------------------------------
\* The run, and the writes that follow.

Lacks(t) == \E e \in task[t].cur : Meta[e].needs /\ e \notin stored

\* The runner finds no credentials: a triggered entry is skipped, another task ends.
Missing(t) ==
  /\ task[t].at = "run" /\ Lacks(t)
  /\ Becomes(t, IF task[t].pass = "none" THEN Idle ELSE Skips([task[t] EXCEPT !.req = {}, !.pass = "none"]))
  /\ Alone

\* The entry raises, which ends the task, or an input plugin collects nothing.
Raises(t) ==
  /\ task[t].at = "run" /\ ~Lacks(t)
  /\ Over(t) /\ Alone

\* SyncManager.notify begins.
Notifies(r, next) ==
  [r EXCEPT !.at = "sync", !.then = next, !.i = 1, !.size = Len(backends), !.en = enabled,
            !.called = {}, !.due = enabled \cap (ToSet(backends) \cup IF hooked THEN ToSet(outputs) ELSE {})]

\* An input has collected data, which on_input takes.
Collects(t) ==
  /\ task[t].at = "run" /\ ~Lacks(t) /\ task[t].pass = "none"
  /\ Becomes(t, [task[t] EXCEPT !.at = "refresh", !.cur = {}])
  /\ Alone

\* Any other entry has its action logged.
Runs(t) ==
  /\ task[t].at = "run" /\ ~Lacks(t) /\ task[t].pass # "none"
  /\ Becomes(t, Notifies([task[t] EXCEPT !.dealt = @ \cup task[t].cur, !.cur = {}, !.req = {}, !.pass = "none"],
                         IF task[t].kind = "input" THEN "next" ELSE "end"))
  /\ Alone

\* write_input_log does not notify.
LogInput(t) ==
  /\ task[t].at = "log"
  /\ Becomes(t, [task[t] EXCEPT !.at = "seed"])
  /\ Alone

\* The refined input is written as a seed.
WriteSeed(t) ==
  /\ task[t].at = "seed"
  /\ Becomes(t, Notifies(task[t], "triggered"))
  /\ Alone

\* The next backend, if it is enabled; the dictionary must not have grown since.
SyncNext(t) ==
  /\ task[t].at = "sync" /\ Len(backends) = task[t].size /\ task[t].i <= task[t].size
  /\ LET e == backends[task[t].i]
     IN Becomes(t, [task[t] EXCEPT !.i = @ + 1, !.called = @ \cup ({e} \cap task[t].en)])
  /\ Alone

SyncRaises(t) ==
  /\ task[t].at = "sync" /\ Len(backends) # task[t].size
  /\ Over(t) /\ Alone

SyncDone(t) ==
  /\ task[t].at = "sync" /\ Len(backends) = task[t].size /\ task[t].i > task[t].size
  /\ Becomes(t, [task[t] EXCEPT !.at = "skills", !.i = 1])
  /\ Alone

SkillMutant(t) ==
  /\ task[t].at = "skills" /\ hooked /\ task[t].i <= Len(outputs)
  /\ Becomes(t, IF outputs[task[t].i] \in task[t].en
                THEN [task[t] EXCEPT !.i = @ + 1, !.called = @ \cup {outputs[task[t].i]}]
                ELSE [task[t] EXCEPT !.i = Len(outputs) + 1])
  /\ Alone

\* Then the output skills, when there is a runner for them, the list as it is now.
Skill(t) ==
  /\ task[t].at = "skills" /\ hooked /\ task[t].i <= Len(outputs)
  /\ Becomes(t, [task[t] EXCEPT !.i = @ + 1, !.called = @ \cup ({outputs[task[t].i]} \cap task[t].en)])
  /\ Alone

\* The write's event is emitted and the task goes on.
Written(t) ==
  /\ task[t].at = "skills" /\ (hooked => task[t].i > Len(outputs))
  /\ Becomes(t, Continues([task[t] EXCEPT !.i = 0, !.size = 0, !.en = {}]))
  /\ Alone

\* INPUT_COMPLETE.
Complete(t) == task[t].at = "next" /\ Over(t) /\ Alone

-----------------------------------------------------------------------------
Work(t) ==
  \/ Refresh(t) \/ RefreshFails(t) \/ Pass(t) \/ Missing(t) \/ Raises(t) \/ Collects(t) \/ Runs(t) \/ LogInput(t) \/ WriteSeed(t)
  \/ SyncNext(t) \/ SyncRaises(t) \/ SyncDone(t) \/ Skill(t) \/ Written(t) \/ Complete(t)
  \/ \E r \in Requests : Ask(t, r) \/ Approved(t, r) \/ Rejected(t, r) \/ Deferred(t, r)

Begin == \E t \in Tasks, e \in Entries :
  FireInput(t, e) \/ FireProcess(t, e) \/ Webhook(t, e) \/ CallTool(t, e) \/ RunPlugin(t, e) \/ RunEntry(t, e)

\* The gateway is restarted.
Restart == /\ Dies /\ Reinitialize
           /\ task' = [t \in Tasks |-> Idle] /\ UNCHANGED starts

Next ==
  \/ Begin \/ (\E t \in Tasks : Work(t))
  \/ (\E r \in Requests : Deliver(r))
  \/ Reconfigure /\ UNCHANGED <<approvalVars, task, starts>>
  \/ Around /\ UNCHANGED <<registryVars, task, starts>>
  \/ Restart

Spec == Init /\ [][Next]_vars

-----------------------------------------------------------------------------
\* Properties.

\* Safe Mode: a dangerous plugin that goes through the gate, however it came in, is run
\* only if Safe Mode was off at the check, or a client said yes to the request of this
\* very task.
GateHolds ==
  \A t \in Tasks : task[t].at = "run" /\ task[t].pass # "none" =>
    \A e \in task[t].cur \cap Plugins : Meta[e].dangerous =>
      \/ task[t].pass = "off"
      \/ \E r \in task[t].req : said[r] = "yes" /\ verdict[r] = "yes"

\* A write that goes on to emit its event has reached every output that was registered and
\* enabled when it began, and an input that completes has dealt with every entry it triggers.
OutputsReached == \A t \in Tasks : /\ task[t].at \notin {"sync", "skills"} => task[t].due \subseteq task[t].called
                                   /\ task[t].at = "next" => task[t].want \subseteq task[t].dealt
=============================================================================
