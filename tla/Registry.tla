------------------------------ MODULE Registry ------------------------------
(***************************************************************************)
(* Who knows which plugin or skill: the loaders, bsage/core/               *)
(* plugin_loader.py and skill_loader.py; the verdicts of the danger        *)
(* analyzer; the registry the agent works with, the scheduler's jobs and   *)
(* the sync manager's outputs, which AppState (bsage/gateway/              *)
(* dependencies.py) fills at start and when something new is found; and    *)
(* the runtime configuration with its file and the credentials.            *)
(*                                                                         *)
(* An analysis never waits: its LLM is asked only about code that does not *)
(* parse, which the import before it has refused.  So a scan is one step.  *)
(***************************************************************************)
EXTENDS Integers, FiniteSets, Sequences, SequencesExt

CONSTANTS Entries,    \* the names of plugins and skills
          Meta,       \* per entry, what its file declares
          Defaults,   \* the configuration of the settings
          Chores,     \* the watcher and the cron jobs of canonicalization
          Installed,  \* the sets of entries a first start may find
          Bundles,    \* the sets of entries that are put there together
          Lists,      \* the lists of disabled entries that a patch may set
          MaxOps      \* bound: changes to the disk, the configuration, the credentials

Metas == [plugin: BOOLEAN, category: {"input", "process", "output"},
          trigger: {"none", "cron", "badcron", "polling", "on_input"},
          dangerous: BOOLEAN, needs: BOOLEAN]
Configs == [safe: BOOLEAN, disabled: SUBSET Entries, chores: SUBSET Chores]

ASSUME EntriesAssumption == IsFiniteSet(Entries)
ASSUME MetaAssumption == Meta \in [Entries -> Metas]
ASSUME DefaultsAssumption == Defaults \in Configs
ASSUME InputsAssumption == Installed \cup Bundles \cup Lists \subseteq SUBSET Entries
ASSUME OpsAssumption == MaxOps \in Nat

VARIABLES
  disk,        \* the entries whose files load
  loaded,      \* _registry of both loaders
  judged,      \* names in the plugin loader's danger_map
  live,        \* _registry of AgentLoop
  dangers,     \* names AppState's danger map says are dangerous
  jobs,        \* _jobs and _polling_tasks of the scheduler
  backends,    \* _backends of the sync manager, in order
  outputs,     \* _output_skills, in order
  hooked,      \* it has a runner for its output skills
  chores,      \* the chores that run
  config,      \* RuntimeConfig
  enabled,     \* its enabled entries
  file,        \* what the configuration's file says: {} if it is missing or does not parse
  stored,      \* the entries whose required credentials are there
  listed,      \* history: entries a listing loaded before a refresh could report them
  again,       \* history: entries that were reported again
  behind,      \* history: the configuration or credentials changed after the last rebuild
  unsaved,     \* history: the last write of the file failed
  broken,      \* history: entries found by a refresh that raised
  unapplied,   \* history: a setting of the chores was changed without being applied
  ops          \* changes so far

found == <<disk, loaded, judged, listed, again, broken>>
known == <<live, dangers, jobs, backends, outputs, hooked>>
configured == <<config, enabled, file, stored, behind, unsaved, chores, unapplied>>
registryVars == <<found, known, configured, ops>>

Plugins == {e \in Entries : Meta[e].plugin}
Outs(es) == {e \in es : Meta[e].category = "output"}

RegistryTypeOK ==
  /\ disk \subseteq Entries /\ loaded \subseteq Entries /\ judged \subseteq Plugins
  /\ live \subseteq Entries /\ dangers \subseteq Entries
  /\ jobs \subseteq Entries
  /\ backends \in Seq(Entries) /\ outputs \in Seq(Entries) /\ hooked \in BOOLEAN
  /\ config \in Configs /\ enabled \subseteq Entries /\ stored \subseteq Entries
  /\ file \subseteq Configs /\ Cardinality(file) <= 1
  /\ listed \subseteq Entries /\ again \subseteq Entries
  /\ broken \subseteq Entries /\ chores \subseteq Chores
  /\ {behind, unsaved, unapplied} \subseteq BOOLEAN /\ ops \in 0..MaxOps

-----------------------------------------------------------------------------
\* The parts.

\* register_triggers: polling for any category, cron for inputs and processes.  A schedule
\* with the wrong number of fields is skipped; one with a wrong value raises.
Malformed(es) == {e \in es : Meta[e].trigger = "badcron" /\ Meta[e].category # "output"}
Scheduled(es) == {e \in es : \/ Meta[e].trigger = "polling"
                             \/ Meta[e].trigger = "cron" /\ Meta[e].category # "output"}

\* rebuild_enabled: not disabled, and with the credentials it requires.
Enabled(es) == {e \in es \ config.disabled : Meta[e].needs => e \in stored}

\* from_settings: the file over the settings; without a file that parses, the settings.
FromSettings == IF file = {} THEN Defaults ELSE CHOOSE c \in file : TRUE

InOrder(es) == SetToSeq(es)

-----------------------------------------------------------------------------
\* Start.

\* AppState.initialize, after load_all of both loaders: what they found.
StartsWith(es) ==
  /\ loaded' = es /\ judged' = es \cap Plugins
  /\ live' = es /\ dangers' = {e \in es \cap Plugins : Meta[e].dangerous}
  /\ jobs' = Scheduled(es)
  /\ backends' = <<>>
  /\ outputs' = InOrder(Outs(es)) /\ hooked' = (Outs(es) # {})
  /\ config' = FromSettings
  /\ enabled' = {e \in es \ config'.disabled : Meta[e].needs => e \in stored}
  /\ chores' = config'.chores
  /\ behind' = FALSE /\ unapplied' = FALSE /\ listed' = {} /\ again' = {} /\ broken' = {}

RegistryInit ==
  /\ disk \in Installed
  /\ loaded = disk /\ judged = disk \cap Plugins
  /\ live = disk /\ dangers = {e \in disk \cap Plugins : Meta[e].dangerous}
  /\ jobs = Scheduled(disk)
  /\ backends = <<>>
  /\ outputs = InOrder(Outs(disk)) /\ hooked = (Outs(disk) # {})
  /\ config = Defaults /\ stored = {} /\ enabled = Enabled(disk)
  /\ file = {}
  /\ chores = Defaults.chores
  /\ listed = {} /\ again = {} /\ broken = {}
  /\ behind = FALSE /\ unsaved = FALSE /\ unapplied = FALSE /\ ops = 0

\* A gateway with a malformed schedule does not start.
Reinitialize == /\ Malformed(disk) = {}
                /\ StartsWith(disk) /\ unsaved' = FALSE
                /\ UNCHANGED <<disk, file, stored, ops>>

-----------------------------------------------------------------------------
\* What happens to the files.

Changes == ops < MaxOps /\ ops' = ops + 1

\* Plugins and skills are put there, or their requirements are installed.
Drop(es) == /\ Changes /\ es # {} /\ es \cap disk = {} /\ disk' = disk \cup es
            /\ UNCHANGED <<loaded, judged, listed, again, broken, known, configured>>

Remove1(e) == /\ Changes /\ e \in disk /\ disk' = disk \ {e}
              /\ UNCHANGED <<loaded, judged, listed, again, broken, known, configured>>

\* GET /plugins, GET /skills and their MCP tools: load_all clears the registry and loads
\* what is there.
LoadAll(es) ==
  /\ loaded' = (loaded \ es) \cup (disk \cap es)
  /\ judged' = IF es = Plugins THEN disk \cap Plugins ELSE judged
  /\ listed' = listed \cup ((disk \cap es) \ (loaded \cup live))
  /\ loaded' # loaded
  /\ UNCHANGED <<disk, again, broken, known, configured, ops>>

ListPlugins == LoadAll(Plugins)
ListSkills == LoadAll(Entries \ Plugins)

-----------------------------------------------------------------------------
\* _refresh_registry.

Fresh == disk \ loaded      \* what scan_new reports

DangersMutant(es) == dangers

\* The danger map takes over all of the loader's verdicts.
DangersWith(es) == dangers \cup {e \in judged \cup (es \cap Plugins) : Meta[e].dangerous}

JobsMutant(es) == jobs \cup {e \in Scheduled(es) : Meta[e].category # "input"}

\* register_new_triggers: those that have none.
JobsWith(es) == jobs \cup Scheduled(es)

\* New output plugins become backends, by name; new output skills are appended.
BackendsWith(es) == backends \o InOrder((Outs(es) \cap Plugins) \ ToSet(backends))
OutputsWith(es) == outputs \o InOrder(Outs(es) \ Plugins)

\* What both outcomes of a refresh do first.
Merges ==
  /\ loaded' = loaded \cup Fresh /\ judged' = judged \cup (Fresh \cap Plugins)
  /\ live' = live \cup Fresh
  /\ dangers' = IF Fresh = {} THEN dangers ELSE DangersWith(Fresh)
  /\ again' = again \cup (Fresh \cap live)
  /\ UNCHANGED <<disk, hooked, config, file, stored, listed, unsaved, chores, unapplied, ops>>

RefreshRegistry ==
  /\ Malformed(Fresh \ jobs) = {}
  /\ Merges
  /\ jobs' = JobsWith(Fresh)
  /\ backends' = BackendsWith(Fresh) /\ outputs' = OutputsWith(Fresh)
  /\ enabled' = IF Fresh = {} THEN enabled ELSE Enabled(live')
  /\ behind' = (behind /\ Fresh = {})
  /\ UNCHANGED broken

\* A malformed schedule raises among the triggers: the entries are known and will not be
\* reported again, some have their jobs, and nothing that follows is done.
RefreshRaises ==
  /\ Malformed(Fresh \ jobs) # {}
  /\ Merges
  /\ \E es \in SUBSET Fresh : jobs' = JobsWith(es)
  /\ broken' = broken \cup Fresh
  /\ behind' = TRUE
  /\ UNCHANGED <<backends, outputs, enabled>>

-----------------------------------------------------------------------------
\* The configuration.

\* _persist_locked: the file has the new state; a write that fails leaves it as it was, or
\* cut short, and is only logged.
Persists(c) == \/ file' = {c} /\ unsaved' = FALSE
               \/ file' \in {file, {}} /\ unsaved' = TRUE

SafeMode == /\ Changes
            /\ config' = [config EXCEPT !.safe = ~@]
            /\ Persists(config')
            /\ UNCHANGED <<found, known, enabled, stored, behind, chores, unapplied>>

\* toggle_entry, and enable and disable of the MCP tools.
Toggle(e) == /\ Changes
             /\ config' = [config EXCEPT !.disabled = IF e \in @ THEN @ \ {e} ELSE @ \cup {e}]
             /\ Persists(config')
             /\ enabled' = {n \in live \ config'.disabled : Meta[n].needs => n \in stored}
             /\ behind' = FALSE
             /\ UNCHANGED <<found, known, stored, chores, unapplied>>

\* PATCH /config may set the disabled entries too: nothing is rebuilt.
Patch(es) == /\ Changes /\ es # config.disabled
             /\ config' = [config EXCEPT !.disabled = es]
             /\ Persists(config')
             /\ behind' = TRUE
             /\ UNCHANGED <<found, known, stored, enabled, chores, unapplied>>

\* store_credentials: the file, then the enabled entries.
StoreCredentials(e) == /\ Changes /\ Meta[e].needs /\ e \in loaded \ stored
                       /\ stored' = stored \cup {e}
                       /\ behind' = TRUE
                       /\ UNCHANGED <<found, known, config, enabled, file, unsaved, chores, unapplied>>

\* The switches of the chores: PATCH /config applies them at once, the MCP tool does not.
Switch(c) == /\ Changes
             /\ config' = [config EXCEPT !.chores = IF c \in @ THEN @ \ {c} ELSE @ \cup {c}]
             /\ Persists(config')
             /\ UNCHANGED <<found, known, enabled, stored, behind>>

ApplyChoresMutant == /\ chores' = chores \cup config'.chores /\ unapplied' = FALSE
\* apply_canon_runtime: prior jobs are removed first.
ApplyChores == /\ chores' = config'.chores /\ unapplied' = FALSE

PatchChore(c) == Switch(c) /\ ApplyChores
SetChore(c) == Switch(c) /\ UNCHANGED chores /\ unapplied' = TRUE

Rebuild == /\ behind
           /\ enabled' = Enabled(live) /\ behind' = FALSE
           /\ UNCHANGED <<found, known, config, file, stored, unsaved, chores, unapplied, ops>>

\* delete and the CLI's setup write the same files without the gateway.
Credentials(e) == /\ Changes /\ Meta[e].needs
                  /\ stored' = IF e \in stored THEN stored \ {e} ELSE stored \cup {e}
                  /\ behind' = TRUE
                  /\ UNCHANGED <<found, known, config, enabled, file, unsaved, chores, unapplied>>

Reconfigure ==
  \/ SafeMode \/ Rebuild
  \/ \E es \in Bundles : Drop(es)
  \/ \E c \in Chores : PatchChore(c) \/ SetChore(c)
  \/ \E e \in Entries : Remove1(e) \/ Toggle(e) \/ StoreCredentials(e) \/ Credentials(e)
  \/ \E es \in Lists : Patch(es)
  \/ ListPlugins \/ ListSkills

-----------------------------------------------------------------------------
\* Properties.

Once(s, e) == Cardinality({i \in DOMAIN s : s[i] = e}) = 1

\* The parts of the application agree on every entry the agent has, however it came in: a
\* dangerous plugin is known as such, a trigger has its job, an output is called once for
\* a write, unless its file was removed, forgotten and found again, or the refresh that
\* found it raised.
EntriesWired ==
  /\ \A e \in live : e \in Plugins /\ Meta[e].dangerous => e \in dangers
  /\ \A e \in live \ broken :
       /\ e \in Scheduled(live) => e \in jobs
       /\ Meta[e].category = "output" /\ e \notin again => Once(backends \o outputs, e)
  /\ jobs \subseteq live /\ dangers \subseteq live \cup listed
  /\ \A e \in loaded : e \in live \/ e \in listed

\* What the sync manager and the tools take for enabled follows from the configuration,
\* the credentials and the registry, and the chores that run are those that are set.
ConfigFollowed == /\ ~behind => enabled = Enabled(live)
                  /\ ~unapplied => chores = config.chores

\* A restart finds the configuration that was set last, unless it could not be saved.
ConfigSurvives == ~unsaved => FromSettings = config

\* What the gateway's parts hold of its entries and settings, after any hot load, toggle,
\* patch or restart.
RegistryAgrees == EntriesWired /\ ConfigFollowed /\ ConfigSurvives
=============================================================================
