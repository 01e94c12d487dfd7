----------------------------- MODULE HostProofs -----------------------------
(***************************************************************************)
(* Proofs about Host, for any entries, clients, requests and tasks and     *)
(* whatever the entries' files declare: every approval ends as             *)
(* ApprovalGate promises, whatever tasks do meanwhile; whatever passes the *)
(* gate, and runs, may run (GateHolds); the parts of the gateway agree on  *)
(* its entries (RegistryAgrees); and every write reaches its outputs,      *)
(* every input its entries (OutputsReached); all of its state has its type *)
(* (HostTypeOK).  First what a step of Registry keeps, of which            *)
(* RegistryAgrees is made; at the end the services around it               *)
(* (ServicesSound) and the agent's loop (AgentSound).                      *)
(***************************************************************************)
EXTENDS MCHost, SequenceLemmas

-----------------------------------------------------------------------------
\* Sequences that list an entry once.

OnceIn(s, e) == \E i \in DOMAIN s : s[i] = e /\ \A j \in DOMAIN s : s[j] = e => j = i

\* A set in some order is a sequence that lists each of its members once.
LEMMA InOrderLemma ==
  ASSUME NEW S \in SUBSET Entries
  PROVE  /\ InOrder(S) \in Seq(S)
         /\ ToSet(InOrder(S)) = S
         /\ \A e \in S : OnceIn(InOrder(S), e)
<1>1. IsFiniteSet(S)
  BY EntriesAssumption, FS_Subset
<1> DEFINE n == Cardinality(S)
           f == InOrder(S)
<1>2. n \in Nat /\ ExistsBijection(1..n, S)
  BY <1>1, FS_CardinalityType
<1>3. \E g \in [1..n -> S] : IsInjective(g)
  BY <1>2 DEF ExistsBijection, Bijection, Injection
<1>4. f \in [1..n -> S] /\ IsInjective(f)
  BY <1>3 DEF InOrder, SetToSeq
<1>5. f \in Surjection(1..n, S)
  <2>1. f \in Injection(1..n, S)
    BY <1>4 DEF Injection
  <2>2. Cardinality(1..n) = n
    BY <1>2, FS_Interval
  <2>3. QED
    BY <1>1, <2>1, <2>2, FS_Injection
<1> HIDE DEF f, n
<1>6. \A e \in S : \E i \in 1..n : f[i] = e
  BY <1>5 DEF Surjection
<1>7. DOMAIN f = 1..n /\ ToSet(f) = S
  BY <1>4, <1>6 DEF ToSet
<1>8. \A e \in S : OnceIn(f, e)
  BY <1>4, <1>6, <1>7 DEF OnceIn, IsInjective
<1>9. f \in Seq(S)
  BY <1>2, <1>4
<1>10. QED
  BY <1>7, <1>8, <1>9 DEF f

\* What a concatenation lists, and what it lists once.
LEMMA ConcatLists ==
  ASSUME NEW S, NEW a \in Seq(S), NEW b \in Seq(S), NEW e
  PROVE  /\ a \o b \in Seq(S)
         /\ ToSet(a \o b) = ToSet(a) \cup ToSet(b)
         /\ OnceIn(a, e) /\ e \notin ToSet(b) => OnceIn(a \o b, e)
         /\ e \notin ToSet(a) /\ OnceIn(b, e) => OnceIn(a \o b, e)
<1> DEFINE c == a \o b
<1>1. /\ c \in Seq(S) /\ Len(c) = Len(a) + Len(b)
      /\ \A i \in 1..(Len(a) + Len(b)) :
           c[i] = IF i <= Len(a) THEN a[i] ELSE b[i - Len(a)]
  BY ConcatProperties
<1> HIDE DEF c
<1>2. /\ DOMAIN a = 1..Len(a) /\ DOMAIN b = 1..Len(b) /\ DOMAIN c = 1..(Len(a) + Len(b))
      /\ Len(a) \in Nat /\ Len(b) \in Nat
  BY <1>1
<1>3. \A i \in DOMAIN a : i \in DOMAIN c /\ c[i] = a[i]
  BY <1>1, <1>2
<1>4. ASSUME NEW i \in DOMAIN b
      PROVE  i + Len(a) \in DOMAIN c /\ c[i + Len(a)] = b[i]
  BY <1>2, <1>1
<1>5. ASSUME NEW i \in DOMAIN c
      PROVE  \/ i \in DOMAIN a /\ c[i] = a[i]
             \/ \E k \in DOMAIN b : i = k + Len(a) /\ c[i] = b[k]
  <2>1. CASE i <= Len(a)
    BY <1>1, <1>2, <2>1
  <2>2. CASE ~(i <= Len(a))
    <3>1. i - Len(a) \in DOMAIN b /\ i = (i - Len(a)) + Len(a)
      BY <1>2, <2>2
    <3>2. c[i] = b[i - Len(a)]
      BY <1>1, <1>2, <2>2
    <3>3. QED
      BY <3>1, <3>2
  <2>3. QED
    BY <2>1, <2>2
<1>6. ToSet(c) \subseteq ToSet(a) \cup ToSet(b)
  BY <1>5 DEF ToSet
<1>7. ToSet(a) \cup ToSet(b) \subseteq ToSet(c)
  BY <1>3, <1>4 DEF ToSet
<1>8. ASSUME OnceIn(a, e), e \notin ToSet(b)
      PROVE  OnceIn(c, e)
  BY <1>8, <1>5, <1>3 DEF OnceIn, ToSet
<1>9. ASSUME e \notin ToSet(a), OnceIn(b, e)
      PROVE  OnceIn(c, e)
  BY <1>9, <1>5, <1>4 DEF OnceIn, ToSet
<1>10. QED
  BY <1>1, <1>6, <1>7, <1>8, <1>9 DEF c

\* Once, as the property counts it.
LEMMA OnceCounts ==
  ASSUME NEW s, NEW e, OnceIn(s, e)
  PROVE  Once(s, e)
BY FS_Singleton DEF OnceIn, Once

-----------------------------------------------------------------------------
\* The invariant.

\* What the sync manager calls once: a backend or an output skill, not both.
Called(e) == \/ OnceIn(backends, e) /\ e \notin ToSet(outputs)
             \/ e \notin ToSet(backends) /\ OnceIn(outputs, e)

\* The agent's entries have what they declare, unless their refresh raised.
WiredInv ==
  /\ backends \in Seq(live) /\ outputs \in Seq(live)
  /\ \A e \in live \ broken :
       /\ e \in Scheduled(live) => e \in jobs
       /\ Meta[e].category = "output" /\ e \notin again => Called(e)
  /\ loaded \cup judged \cup dangers \subseteq live \cup listed

\* A configuration has its settings; the file, when it was written last, has the same.
Settings == {"safe", "disabled", "chores"}
ConfigInv ==
  /\ DOMAIN config = Settings /\ \A c \in file : DOMAIN c = Settings
  /\ ConfigFollowed /\ ConfigSurvives

\* Entries come from the disk; what the agent has, it knows the dangers of; what has a job,
\* it has.
RegistryInv ==
  /\ \A e \in live \cap Plugins : Meta[e].dangerous => e \in dangers
  /\ jobs \subseteq live /\ live \subseteq Entries /\ disk \subseteq Entries
  /\ WiredInv /\ ConfigInv

\* What a step of the registry may do while the gateway runs.
RegistryStep ==
  RefreshRegistry \/ RefreshRaises \/ Reconfigure \/ UNCHANGED registryVars

LEMMA AgreesLemma == RegistryInv => RegistryAgrees
BY ConcatLists, OnceCounts DEF RegistryInv, WiredInv, Called, EntriesWired, RegistryAgrees, ConfigInv

-----------------------------------------------------------------------------
\* Start.

LEMMA DefaultSettings == DOMAIN Defaults = Settings
BY DefaultsAssumption DEF Configs, Settings

\* What a start finds is listed once, as an output skill, and judged.
LEMMA StartIsWired ==
  ASSUME NEW es \in SUBSET Entries, Outs(es) \in SUBSET Entries
  PROVE  /\ <<>> \in Seq(es) /\ InOrder(Outs(es)) \in Seq(es)
         /\ \A e \in es : Meta[e].category = "output" =>
              e \notin ToSet(<<>>) /\ OnceIn(InOrder(Outs(es)), e)
BY InOrderLemma DEF Outs, ToSet

LEMMA InitRegistryInv == RegistryInit => RegistryInv
<1> SUFFICES ASSUME RegistryInit PROVE RegistryInv
  OBVIOUS
<1>1. disk \in SUBSET Entries /\ Outs(disk) \in SUBSET Entries
  BY InputsAssumption DEF RegistryInit, Outs
<1>2. WiredInv
  BY <1>1, StartIsWired DEF RegistryInit, WiredInv, Called, Plugins
<1>3. ConfigInv
  BY DefaultSettings DEF RegistryInit, ConfigInv, ConfigFollowed, ConfigSurvives, FromSettings
<1>4. QED
  BY <1>1, <1>2, <1>3 DEF RegistryInit, RegistryInv, Scheduled, Plugins

\* A restart knows, wires and configures as a start does.
LEMMA RestartKeeps ==
  ASSUME RegistryInv, Reinitialize
  PROVE  RegistryInv'
<1>1. disk' = disk /\ disk \in SUBSET Entries /\ Outs(disk) \in SUBSET Entries
  BY DEF RegistryInv, Reinitialize, Outs
<1>2. WiredInv'
  BY <1>1, StartIsWired DEF Reinitialize, StartsWith, WiredInv, Called, Plugins
<1>3. ConfigInv'
  <2>1. config' = FromSettings /\ file' = file /\ DOMAIN config' = Settings
    BY DefaultSettings DEF Reinitialize, StartsWith, FromSettings, RegistryInv, ConfigInv
  <2>2. QED
    BY <2>1 DEF Reinitialize, StartsWith, RegistryInv, ConfigInv, ConfigFollowed, ConfigSurvives,
       FromSettings, Enabled
<1>4. QED
  BY <1>1, <1>2, <1>3 DEF Reinitialize, StartsWith, RegistryInv, Scheduled, Plugins

-----------------------------------------------------------------------------
\* A refresh.

\* What both outcomes do: the agent gets what is new, and judges it.
LEMMA MergeKeeps ==
  ASSUME RegistryInv, Merges
  PROVE  /\ live \subseteq live' /\ live' \subseteq Entries /\ disk' \subseteq Entries
         /\ Fresh \subseteq Entries /\ live' = live \cup Fresh
         /\ \A e \in live' \cap Plugins : Meta[e].dangerous => e \in dangers'
         /\ loaded' \cup judged' \cup dangers' \subseteq live' \cup listed'
BY DEF RegistryInv, WiredInv, Merges, Fresh, DangersWith, Plugins

\* A malformed schedule raises: what was found is broken, the rest stays as it was.
LEMMA RaisesKeeps ==
  ASSUME RegistryInv, RefreshRaises
  PROVE  RegistryInv'
<1>1. /\ live \subseteq live' /\ live' \subseteq Entries /\ disk' \subseteq Entries
      /\ Fresh \subseteq Entries /\ live' = live \cup Fresh
      /\ \A e \in live' \cap Plugins : Meta[e].dangerous => e \in dangers'
      /\ loaded' \cup judged' \cup dangers' \subseteq live' \cup listed'
  BY MergeKeeps DEF RefreshRaises
<1>2. jobs \subseteq jobs' /\ jobs' \subseteq jobs \cup Fresh
  BY DEF RefreshRaises, JobsWith, Scheduled
<1>3. broken' = broken \cup Fresh /\ again \subseteq again' /\ UNCHANGED <<backends, outputs>>
  BY DEF RefreshRaises, Merges
<1>4. WiredInv'
  BY <1>1, <1>3, <1>2 DEF RegistryInv, WiredInv, Scheduled, Called
<1>5. ConfigInv'
  BY DEF RefreshRaises, Merges, RegistryInv, ConfigInv, ConfigFollowed, ConfigSurvives, FromSettings
<1>6. QED
  BY <1>1, <1>2, <1>4, <1>5 DEF RegistryInv

\* What an appended sequence does to an entry's call: nothing if it lists others, and all
\* if it is the first to list it.
LEMMA CalledStays ==
  ASSUME NEW S, NEW x \in Seq(S), NEW y \in Seq(S),
         backends \in Seq(S), outputs \in Seq(S),
         backends' = backends \o x, outputs' = outputs \o y,
         NEW e
  PROVE  /\ Called(e) /\ e \notin ToSet(x) \cup ToSet(y) => Called(e)'
         /\ /\ e \notin ToSet(backends) \cup ToSet(outputs)
            /\ \/ OnceIn(x, e) /\ e \notin ToSet(y)
               \/ OnceIn(y, e) /\ e \notin ToSet(x)
            => Called(e)'
BY ConcatLists DEF Called

\* A refresh wires what it found, and only that.
LEMMA RefreshKeeps ==
  ASSUME RegistryInv, RefreshRegistry
  PROVE  RegistryInv'
<1>1. /\ live \subseteq live' /\ live' \subseteq Entries /\ disk' \subseteq Entries
      /\ Fresh \subseteq Entries /\ live' = live \cup Fresh
      /\ \A e \in live' \cap Plugins : Meta[e].dangerous => e \in dangers'
      /\ loaded' \cup judged' \cup dangers' \subseteq live' \cup listed'
  BY MergeKeeps DEF RefreshRegistry
<1>2. jobs' = jobs \cup Scheduled(Fresh) /\ jobs' \subseteq live'
  BY <1>1 DEF RefreshRegistry, JobsWith, Scheduled, RegistryInv
<1>3. broken' = broken /\ again' = again \cup (Fresh \cap live)
  BY DEF RefreshRegistry, Merges
<1> DEFINE X == (Outs(Fresh) \cap Plugins) \ ToSet(backends)
           Y == Outs(Fresh) \ Plugins
           x == InOrder(X)
           y == InOrder(Y)
<1>4. X \in SUBSET Entries /\ Y \in SUBSET Entries /\ X \subseteq Fresh /\ Y \subseteq Fresh
      /\ X \cap Y = {}
  BY <1>1 DEF Outs
<1>5. /\ x \in Seq(X) /\ ToSet(x) = X /\ \A e \in X : OnceIn(x, e)
      /\ y \in Seq(Y) /\ ToSet(y) = Y /\ \A e \in Y : OnceIn(y, e)
  BY <1>4, InOrderLemma
<1>6. backends' = backends \o x /\ outputs' = outputs \o y
  BY DEF RefreshRegistry, BackendsWith, OutputsWith
<1>7. backends \in Seq(live) /\ outputs \in Seq(live)
      /\ ToSet(backends) \cup ToSet(outputs) \subseteq live
  BY DEF RegistryInv, WiredInv, ToSet
<1>8. \A e : e \in Outs(Fresh) => e \in X \cup Y \cup ToSet(backends)
  OBVIOUS
<1> HIDE DEF X, Y, x, y
<1>9. /\ x \in Seq(live') /\ y \in Seq(live')
      /\ backends \in Seq(live') /\ outputs \in Seq(live')
  BY <1>1, <1>4, <1>5, <1>7
<1>10. backends' \in Seq(live') /\ outputs' \in Seq(live')
  BY <1>6, <1>9, ConcatProperties
<1>11. ASSUME NEW e \in live' \ broken', Meta[e].category = "output", e \notin again'
       PROVE  Called(e)'
  <2>1. CASE e \in live
    <3>1. Called(e) /\ e \notin Fresh
      BY <1>3, <1>11, <2>1 DEF RegistryInv, WiredInv
    <3>2. e \notin ToSet(x) \cup ToSet(y)
      BY <1>4, <1>5, <3>1
    <3>3. QED
      BY <1>6, <1>9, <3>1, <3>2, CalledStays
  <2>2. CASE e \notin live
    <3>1. e \notin ToSet(backends) \cup ToSet(outputs)
      BY <1>7, <2>2
    <3>2. e \in Outs(Fresh)
      BY <1>1, <1>11, <2>2 DEF Outs
    <3>3. \/ OnceIn(x, e) /\ e \notin ToSet(y)
          \/ OnceIn(y, e) /\ e \notin ToSet(x)
      BY <1>4, <1>5, <1>8, <3>1, <3>2
    <3>4. QED
      BY <1>6, <1>9, <3>1, <3>3, CalledStays
  <2>3. QED
    BY <2>1, <2>2
<1>12. ASSUME NEW e \in live' \ broken', e \in Scheduled(live')
       PROVE  e \in jobs'
  BY <1>1, <1>2, <1>3, <1>12 DEF RegistryInv, WiredInv, Scheduled
<1>13. WiredInv'
  BY <1>1, <1>10, <1>11, <1>12 DEF WiredInv
<1>14. ConfigInv'
  <2>1. UNCHANGED <<config, file, stored, unsaved, chores, unapplied>>
    BY DEF RefreshRegistry, Merges
  <2>2. CASE Fresh = {}
    <3>1. live' = live /\ enabled' = enabled /\ (~behind' => ~behind)
      BY <1>1, <2>2 DEF RefreshRegistry
    <3>2. QED
      BY <2>1, <3>1 DEF RegistryInv, ConfigInv, ConfigFollowed, ConfigSurvives, FromSettings, Enabled
  <2>3. CASE Fresh # {}
    <3>1. enabled' = Enabled(live')
      BY <2>3 DEF RefreshRegistry
    <3>2. QED
      BY <2>1, <3>1 DEF RegistryInv, ConfigInv, ConfigFollowed, ConfigSurvives, FromSettings, Enabled
  <2>4. QED
    BY <2>2, <2>3
<1>15. QED
  BY <1>1, <1>2, <1>13, <1>14 DEF RegistryInv

-----------------------------------------------------------------------------
\* Everything else that happens to the registry.

\* Files come and go, and listings load them.
LEMMA FilesKeep ==
  ASSUME RegistryInv,
         \/ \E es \in Bundles : Drop(es)
         \/ \E e \in Entries : Remove1(e)
         \/ ListPlugins \/ ListSkills
  PROVE  RegistryInv'
<1>1. UNCHANGED <<known, configured, broken, again>>
  BY DEF Drop, Remove1, ListPlugins, ListSkills, LoadAll
<1>2. disk' \subseteq Entries
  BY InputsAssumption DEF Drop, Remove1, ListPlugins, ListSkills, LoadAll, RegistryInv
<1>3. loaded' \cup judged' \subseteq live \cup listed' /\ listed \subseteq listed'
  <2>1. CASE (\E es \in Bundles : Drop(es)) \/ \E e \in Entries : Remove1(e)
    BY <2>1 DEF Drop, Remove1, RegistryInv, WiredInv
  <2>2. ASSUME NEW es, LoadAll(es)
        PROVE  loaded' \cup judged' \subseteq live \cup listed' /\ listed \subseteq listed'
    BY <2>2 DEF LoadAll, RegistryInv, WiredInv
  <2>3. QED
    BY <2>1, <2>2 DEF ListPlugins, ListSkills
<1>4. WiredInv'
  BY <1>1, <1>3 DEF WiredInv, RegistryInv, Called, Scheduled, known
<1>5. ConfigInv'
  BY <1>1 DEF RegistryInv, ConfigInv, ConfigFollowed, ConfigSurvives, FromSettings, Enabled, known, configured
<1>6. QED
  BY <1>1, <1>2, <1>4, <1>5 DEF RegistryInv, known

\* What only the settings and the credentials change leaves the entries alone.
LEMMA ConfigOnly ==
  ASSUME RegistryInv, UNCHANGED <<found, known>>, ConfigInv'
  PROVE  RegistryInv'
BY DEF WiredInv, RegistryInv, Called, Scheduled, known, found

\* After a write of the file that succeeded, a restart finds what was written.
LEMMA PersistKeeps ==
  ASSUME ConfigInv, DOMAIN config' = Settings, Persists(config')
  PROVE  (\A c \in file' : DOMAIN c = Settings) /\ ConfigSurvives'
BY DEF ConfigInv, Persists, ConfigSurvives, FromSettings

LEMMA SettingsKeep ==
  ASSUME RegistryInv,
         \/ SafeMode \/ Rebuild
         \/ \E c \in Chores : PatchChore(c) \/ SetChore(c)
         \/ \E e \in Entries : Toggle(e) \/ StoreCredentials(e) \/ Credentials(e)
         \/ \E es \in Lists : Patch(es)
  PROVE  RegistryInv'
<1>1. ConfigInv /\ DOMAIN config = Settings
  BY DEF RegistryInv, ConfigInv
<1>2. ASSUME UNCHANGED <<found, known>>, ConfigInv'
      PROVE  RegistryInv'
  BY <1>2, ConfigOnly
<1>3. CASE SafeMode
  BY <1>1, <1>3, <1>2, PersistKeeps DEF SafeMode, Settings, ConfigInv, ConfigFollowed, Enabled, known
<1>4. CASE Rebuild \/ \E e \in Entries : StoreCredentials(e) \/ Credentials(e)
  <2>1. UNCHANGED <<found, known, config, file, unsaved, chores, unapplied>>
        /\ (~behind' => enabled' = Enabled(live)')
    BY <1>4 DEF Rebuild, StoreCredentials, Credentials, Enabled, known
  <2>2. ConfigInv'
    BY <1>1, <2>1 DEF ConfigInv, ConfigFollowed, ConfigSurvives, FromSettings
  <2>3. QED
    BY <1>2, <2>1, <2>2
<1>5. ASSUME NEW e \in Entries, Toggle(e)
      PROVE  RegistryInv'
  BY <1>1, <1>5, <1>2, PersistKeeps DEF Toggle, Settings, ConfigInv, ConfigFollowed, Enabled, known
<1>6. ASSUME NEW es \in Lists, Patch(es)
      PROVE  RegistryInv'
  BY <1>1, <1>6, <1>2, PersistKeeps DEF Patch, Settings, ConfigInv, ConfigFollowed
<1>7. ASSUME NEW c \in Chores, PatchChore(c) \/ SetChore(c)
      PROVE  RegistryInv'
  <2>1. /\ DOMAIN config' = Settings /\ config'.disabled = config.disabled
        /\ UNCHANGED <<found, known, enabled, stored, behind>> /\ Persists(config')
        /\ ~unapplied' => chores' = config'.chores
    BY <1>1, <1>7 DEF PatchChore, SetChore, ApplyChores, Switch, Settings
  <2>2. ConfigFollowed'
    BY <1>1, <2>1 DEF ConfigInv, ConfigFollowed, Enabled, known
  <2>3. QED
    BY <1>1, <1>2, <2>1, <2>2, PersistKeeps DEF ConfigInv
<1>8. QED
  BY <1>3, <1>4, <1>5, <1>6, <1>7

\* The agent loses nothing while the gateway runs, and the invariant is kept.
LEMMA RegistryKept ==
  ASSUME RegistryInv, RegistryStep
  PROVE  RegistryInv' /\ live \subseteq live'
<1>1. CASE RefreshRegistry
  BY <1>1, RefreshKeeps DEF RefreshRegistry, Merges
<1>2. CASE RefreshRaises
  BY <1>2, RaisesKeeps DEF RefreshRaises, Merges
<1>3. CASE \/ \E es \in Bundles : Drop(es)
           \/ \E e \in Entries : Remove1(e)
           \/ ListPlugins \/ ListSkills
  BY <1>3, FilesKeep DEF Drop, Remove1, ListPlugins, ListSkills, LoadAll, known
<1>4. CASE \/ SafeMode \/ Rebuild
           \/ \E c \in Chores : PatchChore(c) \/ SetChore(c)
           \/ \E e \in Entries : Toggle(e) \/ StoreCredentials(e) \/ Credentials(e)
           \/ \E es \in Lists : Patch(es)
  BY <1>4, SettingsKeep DEF SafeMode, Rebuild, PatchChore, SetChore, Switch, Toggle, StoreCredentials,
     Credentials, Patch, known
<1>5. CASE UNCHANGED registryVars
  <2>1. ConfigInv'
    BY <1>5 DEF registryVars, known, configured, RegistryInv, ConfigInv, ConfigFollowed, ConfigSurvives,
       FromSettings, Enabled
  <2>2. QED
    BY <1>5, <2>1, ConfigOnly DEF registryVars, known
<1>6. QED
  BY <1>1, <1>2, <1>3, <1>4, <1>5 DEF RegistryStep, Reconfigure

-----------------------------------------------------------------------------
\* The invariant.

\* A request, from nobody's to over: its future is there while its caller waits, and holds
\* what was said; it is told what it ended as once.
Answer(r) ==
  /\ ask[r].at \in {"new", "send", "wait", "over"}
  /\ ask[r].at = "new" => future[r] = "none" /\ said[r] = "none" /\ verdict[r] = "none"
  /\ ask[r].at \in {"send", "wait"} =>
       /\ verdict[r] = "none"
       /\ future[r] \in {"yes", "no"} => said[r] = future[r]
       /\ future[r] = "open" => said[r] = "none"
  /\ ask[r].at = "over" => future[r] = "none"
AnswerInv ==
  /\ DOMAIN ask = Requests /\ DOMAIN future = Requests
  /\ DOMAIN said = Requests /\ DOMAIN verdict = Requests
  /\ \A r \in Requests : Answer(r)

\* What a task runs or asks about is an entry the agent has; and if it runs after the gate,
\* the gate was right.
Fields == {"kind", "source", "at", "cur", "todo", "then", "i", "size", "en", "req", "pass",
           "due", "called", "want", "dealt"}
Right(r) ==
  r.at = "run" /\ r.pass # "none" =>
    \A e \in r.cur \cap Plugins : Meta[e].dangerous =>
      \/ r.pass = "off"
      \/ \E q \in r.req : said[q] = "yes" /\ verdict[q] = "yes"
Fit(r) ==
  /\ DOMAIN r = Fields
  /\ r.at \in {"gate", "ask", "run"} => r.cur \subseteq live
  /\ r.todo \in Seq(live)
  /\ r.req \subseteq Requests
  /\ Right(r)
TaskInv == DOMAIN task = Tasks /\ \A t \in Tasks : Fit(task[t])

IInv == AnswerInv /\ RegistryInv /\ TaskInv

-----------------------------------------------------------------------------
\* Approvals.

\* What a step of the approvals may do, to one request or to none.
ApprovalStep ==
  \/ \E r \in Requests : RequestApproval(r) \/ Send(r) \/ Resume(r) \/ TimesOut(r)
  \/ Around \/ Dies \/ UNCHANGED approvalVars

\* Every step of the approvals keeps each request's answer.
LEMMA AnswersKept ==
  ASSUME AnswerInv, ApprovalStep
  PROVE  AnswerInv'
<1>1. CASE \E r \in Requests : RequestApproval(r) \/ Resume(r) \/ TimesOut(r)
  <2>1. PICK r \in Requests : RequestApproval(r) \/ Resume(r) \/ TimesOut(r)
    BY <1>1
  <2>2. CASE (conns = <<>> /\ RequestApproval(r)) \/ Resume(r) \/ TimesOut(r)
    BY <2>2 DEF AnswerInv, Answer, RequestApproval, Resume, TimesOut, Ends, New
  <2>3. CASE conns # <<>> /\ RequestApproval(r)
    BY <2>3 DEF AnswerInv, Answer, RequestApproval
  <2>4. QED
    BY <2>1, <2>2, <2>3
<1>2. CASE \E r \in Requests : Send(r)
  BY <1>2 DEF Send, AnswerInv, Answer
<1>3. CASE \E r \in Requests, b \in {"yes", "no"} : HandleResponse(r, b)
  BY <1>3 DEF AnswerInv, Answer, HandleResponse
<1>4. CASE \E k \in Clients : Connect(k) \/ Disconnect(k) \/ Breaks(k)
  BY <1>4 DEF AnswerInv, Answer, Connect, Disconnect, Breaks, Waits
<1>5. CASE Dies
  BY <1>5 DEF AnswerInv, Answer, Dies, New
<1>6. CASE UNCHANGED approvalVars
  BY <1>6 DEF AnswerInv, Answer, approvalVars
<1>7. QED
  BY <1>1, <1>2, <1>3, <1>4, <1>5, <1>6 DEF ApprovalStep, Around

\* Every step of the approvals is one of the gate, or none.
LEMMA ApprovalRefines ==
  ASSUME AnswerInv, ApprovalStep
  PROVE  [Gate!GNext]_<<said, verdict>>
<1>1. ASSUME NEW r \in Requests, RequestApproval(r)
      PROVE  [Gate!GNext]_<<said, verdict>>
  BY <1>1 DEF AnswerInv, Answer, RequestApproval, Ends, Gate!GNext, Gate!Defer
<1>2. ASSUME NEW r \in Requests, Resume(r)
      PROVE  [Gate!GNext]_<<said, verdict>>
  BY <1>2 DEF AnswerInv, Answer, Resume, Ends, Gate!GNext, Gate!Tell
<1>3. ASSUME NEW r \in Requests, TimesOut(r)
      PROVE  [Gate!GNext]_<<said, verdict>>
  BY <1>3 DEF AnswerInv, Answer, TimesOut, Ends, Gate!GNext, Gate!Defer
<1>4. ASSUME NEW r \in Requests, NEW b \in {"yes", "no"}, HandleResponse(r, b)
      PROVE  [Gate!GNext]_<<said, verdict>>
  BY <1>4 DEF AnswerInv, Answer, HandleResponse, Gate!Say, Gate!GNext
<1>5. CASE \/ \E r \in Requests : Send(r)
           \/ \E k \in Clients : Connect(k) \/ Disconnect(k) \/ Breaks(k)
           \/ Dies \/ UNCHANGED approvalVars
  BY <1>5 DEF Send, Connect, Disconnect, Breaks, Waits, Dies, approvalVars
<1>6. QED
  BY <1>1, <1>2, <1>3, <1>4, <1>5 DEF ApprovalStep, Around

\* What was told stays told, and what was said of it.
LEMMA ToldStays ==
  ASSUME AnswerInv, ApprovalStep, NEW q \in Requests, verdict[q] = "yes"
  PROVE  verdict'[q] = "yes" /\ said'[q] = said[q]
<1>1. ask[q].at = "over" /\ future[q] = "none"
  BY DEF AnswerInv, Answer
<1>2. \A r \in Requests : RequestApproval(r) \/ Resume(r) \/ TimesOut(r) \/ Send(r) => r # q
  BY <1>1 DEF RequestApproval, Resume, TimesOut, Send
<1>3. \A r \in Requests, b \in {"yes", "no"} : HandleResponse(r, b) => r # q
  BY <1>1 DEF HandleResponse
<1>4. QED
  BY <1>2, <1>3 DEF ApprovalStep, Around, RequestApproval, Resume, TimesOut, Ends, Send, HandleResponse,
     Connect, Disconnect, Breaks, Waits, Dies, approvalVars, AnswerInv

-----------------------------------------------------------------------------
\* The tasks.

\* A task's record that fits still fits when the agent has more and more was told.
LEMMA FitStays ==
  ASSUME AnswerInv, ApprovalStep, live \subseteq live', NEW r, Fit(r)
  PROVE  Fit(r)'
BY ToldStays DEF Fit, Right, Plugins

\* One task becomes something that fits, the others stay.
LEMMA OneTask ==
  ASSUME IInv, ApprovalStep, live \subseteq live', NEW t \in Tasks, NEW r, Fit(r)',
         task' = [task EXCEPT ![t] = r]
  PROVE  TaskInv'
BY FitStays DEF IInv, TaskInv, Fit, Right

\* No task changes.
LEMMA NoTask ==
  ASSUME IInv, ApprovalStep, live \subseteq live', UNCHANGED task
  PROVE  TaskInv'
BY FitStays DEF IInv, TaskInv

\* A task at rest fits, and so does one that is neither before nor at a run, with what it
\* had to do.
LEMMA IdleFits == Fit(Idle)
BY DEF Fit, Idle, Fields, Right

LEMMA AwayFits ==
  ASSUME NEW q, Fit(q), NEW r, DOMAIN r = Fields, r.at \notin {"gate", "ask", "run"},
         r.todo = q.todo, r.req \subseteq q.req
  PROVE  Fit(r)
BY DEF Fit, Right

\* The next entry is one the agent has.
LEMMA GoesFits ==
  ASSUME NEW r, DOMAIN r = Fields, r.todo \in Seq(live), r.req \subseteq Requests
  PROVE  Fit(Goes(r))
BY DEF Goes, Fit, Right, Fields

LEMMA SkipsFits ==
  ASSUME NEW r, DOMAIN r = Fields, r.todo \in Seq(live), r.req \subseteq Requests
  PROVE  Fit(Skips(r))
BY GoesFits, IdleFits DEF Fields, Skips

LEMMA ContinuesFits ==
  ASSUME RegistryInv, NEW r, DOMAIN r = Fields, r.todo \in Seq(live), r.req \subseteq Requests
  PROVE  Fit(Continues(r))
<1> DEFINE q == [r EXCEPT !.todo = InOrder(Triggered), !.want = Triggered, !.dealt = {}]
<1>1. Triggered \subseteq live /\ Triggered \in SUBSET Entries
  BY DEF Triggered, RegistryInv
<1>2. InOrder(Triggered) \in Seq(live)
  BY <1>1, InOrderLemma
<1>3. DOMAIN q = Fields /\ q.todo = InOrder(Triggered) /\ q.req = r.req
  BY DEF Fields
<1>4. Fit(Goes(q))
  BY <1>2, <1>3, GoesFits
<1>5. QED
  BY <1>4, GoesFits, IdleFits DEF Continues

\* A write begins to notify with what the task has still to do.
LEMMA NotifiesFits ==
  ASSUME NEW r, DOMAIN r = Fields, r.todo \in Seq(live), r.req \subseteq Requests, NEW next
  PROVE  Fit(Notifies(r, next))
BY DEF Notifies, Fields, Fit, Right

-----------------------------------------------------------------------------
\* Each step of a task.

\* A step that changes only the task itself.
LEMMA AloneKeeps ==
  ASSUME IInv, Alone, NEW t \in Tasks, NEW r, Fit(r), task' = [task EXCEPT ![t] = r]
  PROVE  TaskInv'
BY FitStays, OneTask DEF Alone, ApprovalStep, registryVars, known, IInv

LEMMA BeginKeeps ==
  ASSUME IInv, Begin
  PROVE  TaskInv' /\ Alone
<1>1. PICK t \in Tasks, e \in Entries :
        FireInput(t, e) \/ FireProcess(t, e) \/ Webhook(t, e) \/ CallTool(t, e) \/ RunPlugin(t, e) \/ RunEntry(t, e)
  BY DEF Begin
<1>2. Alone
  BY <1>1 DEF FireInput, FireProcess, Webhook, CallTool, RunPlugin, RunEntry, Direct
<1>3. ASSUME NEW kind, NEW cur, NEW at, at = "refresh" \/ (cur \subseteq live /\ at \in {"gate", "run"})
      PROVE  Fit([Idle EXCEPT !.source = {e}, !.cur = cur, !.kind = kind, !.at = at])
  BY <1>3 DEF Fit, Right, Idle, Fields
<1>4. CASE FireInput(t, e)
  BY <1>4, <1>2, <1>3, AloneKeeps DEF FireInput, IInv, RegistryInv, Starts
<1>5. CASE FireProcess(t, e)
  BY <1>5, <1>2, <1>3, AloneKeeps DEF FireProcess, IInv, RegistryInv, Starts
<1>6. CASE Webhook(t, e) \/ CallTool(t, e)
  <2>1. Fit([Idle EXCEPT !.source = {e}, !.kind = "input", !.at = "refresh"])
    BY DEF Fit, Right, Idle, Fields
  <2>2. QED
    BY <1>2, <1>6, <2>1, AloneKeeps DEF Webhook, CallTool, Starts
<1>7. CASE RunPlugin(t, e) \/ RunEntry(t, e)
  <2>1. Fit([Idle EXCEPT !.source = {e}, !.kind = "direct", !.cur = {e}, !.at = "refresh"])
    BY DEF Fit, Right, Idle, Fields
  <2>2. QED
    BY <1>2, <1>7, <2>1, AloneKeeps DEF RunPlugin, RunEntry, Direct, Starts
<1>8. QED
  BY <1>1, <1>2, <1>4, <1>5, <1>6, <1>7

\* The steps of a task that leave the rest alone.
LEMMA AloneWorkKeeps ==
  ASSUME IInv, NEW t \in Tasks,
         \/ Pass(t) \/ Missing(t) \/ Raises(t) \/ Collects(t) \/ Runs(t) \/ LogInput(t) \/ WriteSeed(t)
         \/ SyncNext(t) \/ SyncRaises(t) \/ SyncDone(t) \/ Skill(t) \/ Written(t) \/ Complete(t)
  PROVE  TaskInv'
<1>1. /\ Fit(task[t]) /\ DOMAIN task[t] = Fields /\ task[t].todo \in Seq(live)
      /\ task[t].req \subseteq Requests /\ RegistryInv
  BY DEF IInv, TaskInv, Fit
<1>2. ASSUME NEW r, Fit(r), Becomes(t, r), Alone
      PROVE  TaskInv'
  BY <1>2, AloneKeeps DEF Becomes
<1>3. CASE Pass(t)
  BY <1>1, <1>3, <1>2 DEF Fields, Pass, Fit, NeedsApproval, RegistryInv, Right
<1>4. CASE Missing(t)
  BY <1>1, SkipsFits, <1>2, <1>4, IdleFits DEF Fields, Missing
<1>5. CASE Raises(t) \/ SyncRaises(t) \/ Complete(t)
  BY <1>2, <1>5, IdleFits DEF Raises, SyncRaises, Complete, Over
<1>6. CASE Collects(t)
  <2> DEFINE r == [task[t] EXCEPT !.at = "refresh", !.cur = {}]
  <2>1. DOMAIN r = Fields /\ r.at = "refresh" /\ r.todo = task[t].todo /\ r.req = task[t].req
    BY <1>1 DEF Fields
  <2>2. Fit(r)
    BY <1>1, <2>1, AwayFits
  <2>3. QED
    BY <1>2, <1>6, <2>2 DEF Collects
<1>7. CASE Runs(t)
  BY <1>1, NotifiesFits, <1>2, <1>7 DEF Fields, Runs
<1>8. CASE LogInput(t)
  <2> DEFINE r == [task[t] EXCEPT !.at = "seed"]
  <2>1. DOMAIN r = Fields /\ r.at = "seed" /\ r.todo = task[t].todo /\ r.req = task[t].req
    BY <1>1 DEF Fields
  <2>2. Fit(r)
    BY <1>1, <2>1, AwayFits
  <2>3. QED
    BY <1>2, <1>8, <2>2 DEF LogInput
<1>9. CASE WriteSeed(t)
  BY <1>1, NotifiesFits, <1>2, <1>9 DEF WriteSeed
<1>10. CASE SyncNext(t)
  <2> DEFINE r == [task[t] EXCEPT !.i = @ + 1,
                                  !.called = @ \cup ({backends[task[t].i]} \cap task[t].en)]
  <2>1. DOMAIN r = Fields /\ r.at = task[t].at /\ r.todo = task[t].todo /\ r.req = task[t].req
    BY <1>1 DEF Fields
  <2>2. Fit(r)
    BY <1>1, <1>10, <2>1, AwayFits DEF SyncNext
  <2>3. QED
    BY <1>2, <1>10, <2>2 DEF SyncNext
<1>11. CASE SyncDone(t)
  <2> DEFINE r == [task[t] EXCEPT !.at = "skills", !.i = 1]
  <2>1. DOMAIN r = Fields /\ r.at = "skills" /\ r.todo = task[t].todo /\ r.req = task[t].req
    BY <1>1 DEF Fields
  <2>2. Fit(r)
    BY <1>1, <2>1, AwayFits
  <2>3. QED
    BY <1>2, <1>11, <2>2 DEF SyncDone
<1>12. CASE Skill(t)
  <2> DEFINE r == [task[t] EXCEPT !.i = @ + 1,
                                  !.called = @ \cup ({outputs[task[t].i]} \cap task[t].en)]
  <2>1. DOMAIN r = Fields /\ r.at = task[t].at /\ r.todo = task[t].todo /\ r.req = task[t].req
    BY <1>1 DEF Fields
  <2>2. Fit(r)
    BY <1>1, <1>12, <2>1, AwayFits DEF Skill
  <2>3. QED
    BY <1>2, <1>12, <2>2 DEF Skill
<1>13. CASE Written(t)
  BY <1>1, ContinuesFits, <1>2, <1>13 DEF Fields, Written
<1>14. QED
  BY <1>3, <1>4, <1>5, <1>6, <1>7, <1>8, <1>9, <1>10, <1>11, <1>12, <1>13

\* The steps of a task that refresh the registry.
LEMMA TaskRefreshKeeps ==
  ASSUME IInv, NEW t \in Tasks, Refresh(t) \/ RefreshFails(t)
  PROVE  TaskInv' /\ ApprovalStep /\ RegistryStep
<1>1. ApprovalStep /\ RegistryStep
  BY DEF Refresh, RefreshFails, ApprovalStep, RegistryStep
<1>2. live \subseteq live'
  BY <1>1, RegistryKept DEF IInv
<1>3. Fit(task[t]) /\ DOMAIN task[t] = Fields /\ task[t].todo \in Seq(live')
  BY <1>2 DEF IInv, TaskInv, Fit
<1>4. ASSUME NEW r, DOMAIN r = Fields, r.todo \in Seq(live'), r.req \subseteq Requests,
             r.at = "log" \/ (r.at = "gate" /\ r.cur \subseteq live'), Becomes(t, r)
      PROVE  TaskInv'
  BY <1>4, <1>1, <1>2, OneTask DEF Fit, Right, Becomes
<1>5. ASSUME Becomes(t, Idle)
      PROVE  TaskInv'
  <2>1. \A r : r = Idle => Fit(r)'
    BY DEF Fit, Idle, Fields, Right
  <2>2. QED
    BY <1>1, <1>2, <1>5, <2>1, OneTask DEF Becomes
<1>6. CASE Refresh(t) /\ task[t].kind = "input"
  BY <1>3, <1>6, <1>1, <1>4 DEF Fields, Refresh, Fit
<1>7. CASE Refresh(t) /\ task[t].kind # "input" /\ task[t].cur \subseteq live'
  BY <1>3, <1>7, <1>1, <1>4 DEF Fields, Refresh, Fit
<1>8. CASE \/ Refresh(t) /\ task[t].kind # "input" /\ ~(task[t].cur \subseteq live')
           \/ RefreshFails(t)
  BY <1>1, <1>5, <1>8 DEF Refresh, RefreshFails, Over
<1>9. QED
  BY <1>1, <1>6, <1>7, <1>8

\* The steps of a task that ask, and take the answer.
LEMMA AskKeeps ==
  ASSUME IInv, NEW t \in Tasks, NEW q \in Requests,
         Ask(t, q) \/ Approved(t, q) \/ Rejected(t, q) \/ Deferred(t, q)
  PROVE  TaskInv' /\ ApprovalStep /\ RegistryStep
<1>1. ApprovalStep /\ RegistryStep /\ live' = live
  BY DEF Ask, Approved, Rejected, Deferred, ApprovalStep, RegistryStep, registryVars, known
<1>2. /\ Fit(task[t]) /\ DOMAIN task[t] = Fields /\ task[t].todo \in Seq(live)
      /\ task[t].req \subseteq Requests
  BY DEF IInv, TaskInv, Fit
<1>3. ASSUME NEW r, Fit(r), Becomes(t, r)
      PROVE  TaskInv'
  BY <1>1, <1>3, FitStays, OneTask DEF IInv, Becomes
<1>4. CASE Ask(t, q)
  BY <1>2, <1>4, <1>1, <1>3, IdleFits DEF Fields, Ask, Fit, Right, Over
<1>5. CASE Approved(t, q)
  <2> DEFINE r == [task[t] EXCEPT !.at = "run", !.pass = "yes"]
  <2>1. /\ DOMAIN r = Fields /\ r.at = "run" /\ r.todo = task[t].todo /\ r.req = {q}
        /\ r.cur = task[t].cur /\ r.req \subseteq Requests
    BY <1>2, <1>5 DEF Fields, Approved
  <2>2. task[t].cur \subseteq live
    BY <1>2, <1>5 DEF Approved, Fit
  <2>3. said'[q] = "yes" /\ verdict'[q] = "yes"
    BY <1>5 DEF Approved, Resume, Ends, IInv, AnswerInv, Answer
  <2>4. \A x : x = r => Fit(x)'
    BY <1>1, <1>2, <2>1, <2>2, <2>3 DEF Fit, Right
  <2>5. Becomes(t, r)
    BY <1>5 DEF Approved
  <2>6. QED
    BY <1>1, <2>4, <2>5, OneTask DEF Becomes
<1>6. CASE Rejected(t, q)
  BY <1>2, SkipsFits, <1>1, <1>3, <1>6 DEF Fields, Rejected
<1>7. CASE Deferred(t, q)
  BY <1>1, <1>3, <1>7, IdleFits DEF Deferred, Over
<1>8. QED
  BY <1>1, <1>4, <1>5, <1>6, <1>7

-----------------------------------------------------------------------------
\* The whole.

LEMMA InitHolds == Init => IInv
<1>1. SUFFICES ASSUME Init PROVE IInv
  OBVIOUS
<1>2. AnswerInv
  BY <1>1 DEF Init, ApprovalInit, New, AnswerInv, Answer
<1>3. RegistryInv
  BY <1>1, InitRegistryInv DEF Init
<1>4. TaskInv
  BY <1>1, IdleFits DEF Init, TaskInv
<1>5. QED
  BY <1>2, <1>3, <1>4 DEF IInv

\* Every step but a restart is one of the approvals, one of the registry, and fits.
LEMMA StepKeeps ==
  ASSUME IInv, [Next]_vars, ~Restart
  PROVE  TaskInv' /\ ApprovalStep /\ RegistryStep
<1>1. CASE Begin
  BY <1>1, BeginKeeps DEF Alone, ApprovalStep, RegistryStep
<1>2. ASSUME NEW t \in Tasks, Work(t)
      PROVE  TaskInv' /\ ApprovalStep /\ RegistryStep
  <2>1. CASE Refresh(t) \/ RefreshFails(t)
    BY <2>1, TaskRefreshKeeps
  <2>2. CASE \E r \in Requests : Ask(t, r) \/ Approved(t, r) \/ Rejected(t, r) \/ Deferred(t, r)
    BY <2>2, AskKeeps
  <2>3. CASE \/ Pass(t) \/ Missing(t) \/ Raises(t) \/ Collects(t) \/ Runs(t) \/ LogInput(t) \/ WriteSeed(t)
             \/ SyncNext(t) \/ SyncRaises(t) \/ SyncDone(t) \/ Skill(t) \/ Written(t) \/ Complete(t)
    <3>1. Alone
      BY <2>3 DEF Pass, Missing, Raises, Collects, Runs, LogInput, WriteSeed, SyncNext, SyncRaises,
         SyncDone, Skill, Written, Complete
    <3>2. QED
      BY <2>3, <3>1, AloneWorkKeeps DEF Alone, ApprovalStep, RegistryStep
  <2>4. QED
    BY <1>2, <2>1, <2>2, <2>3 DEF Work
<1>3. CASE \/ \E r \in Requests : Deliver(r)
           \/ Reconfigure /\ UNCHANGED <<approvalVars, task, starts>>
           \/ Around /\ UNCHANGED <<registryVars, task, starts>>
           \/ UNCHANGED vars
  BY <1>3, RegistryKept, NoTask DEF Deliver, ApprovalStep, RegistryStep, vars, IInv
<1>4. QED
  BY <1>1, <1>2, <1>3 DEF Next

LEMMA RestartHolds ==
  ASSUME IInv, Restart
  PROVE  IInv' /\ ApprovalStep
<1>1. ApprovalStep
  BY DEF Restart, ApprovalStep
<1>2. AnswerInv'
  BY <1>1, AnswersKept DEF IInv
<1>3. RegistryInv'
  BY RestartKeeps DEF Restart, IInv
<1>4. \A x : x = Idle => Fit(x)'
  BY DEF Fit, Idle, Fields, Right
<1>5. TaskInv'
  BY <1>4 DEF Restart, TaskInv
<1>6. QED
  BY <1>1, <1>2, <1>3, <1>5 DEF IInv

LEMMA NextHolds == IInv /\ [Next]_vars => IInv'
BY RestartHolds, StepKeeps, AnswersKept, RegistryKept DEF IInv

THEOREM Inductive == Spec => []IInv
BY InitHolds, NextHolds, PTL DEF Spec

-----------------------------------------------------------------------------
\* The outputs of a write, and the entries of an input.

\* What a write has still to call is ahead of its index, in a list that only grows; what an
\* input has still to deal with is in its hands or ahead of it.
Ahead(s, i, n, e) == \E j \in i..n : s[j] = e
Reach(r) ==
  /\ DOMAIN r = Fields
  /\ r.at \in {"sync", "skills"} => r.i \in Nat \ {0} /\ r.due \subseteq r.en
  /\ r.at = "sync" =>
       /\ r.size \in 0..Len(backends)
       /\ \A e \in r.due \ r.called :
            Ahead(backends, r.i, r.size, e) \/ (hooked /\ Ahead(outputs, 1, Len(outputs), e))
  /\ r.at = "skills" => \A e \in r.due \ r.called : hooked /\ Ahead(outputs, r.i, Len(outputs), e)
  /\ r.at \notin {"sync", "skills"} => r.due \subseteq r.called
  /\ r.want \subseteq r.dealt \cup ToSet(r.todo) \cup
                      (IF r.at \in {"gate", "ask", "run"} THEN r.cur ELSE {})
  /\ r.at = "next" => r.todo = <<>>
  /\ r.at = "run" /\ r.pass = "none" => r.want = {}
ReachInv == \A t \in Tasks : Reach(task[t])

\* The lists keep what they have, in its place.
Grows(s, u) == /\ Len(s) \in Nat /\ Len(u) \in Nat /\ Len(s) <= Len(u)
               /\ \A j \in 1..Len(s) : u[j] = s[j]
ListsGrow == Grows(backends, backends') /\ Grows(outputs, outputs') /\ hooked' = hooked

LEMMA ConcatGrows ==
  ASSUME NEW S, NEW s \in Seq(S), NEW x \in Seq(S)
  PROVE  Grows(s, s \o x)
BY ConcatProperties DEF Grows

LEMMA StepGrows ==
  ASSUME RegistryInv, RegistryStep
  PROVE  ListsGrow
<1>1. backends \in Seq(Entries) /\ outputs \in Seq(Entries)
  BY DEF RegistryInv, WiredInv
<1>2. Grows(backends, backends) /\ Grows(outputs, outputs)
  BY <1>1 DEF Grows
<1>3. CASE UNCHANGED <<backends, outputs, hooked>>
  BY <1>2, <1>3 DEF ListsGrow
<1>4. CASE RefreshRegistry
  <2> DEFINE X == (Outs(Fresh) \cap Plugins) \ ToSet(backends)
             Y == Outs(Fresh) \ Plugins
  <2>1. X \in SUBSET Entries /\ Y \in SUBSET Entries
    BY DEF Outs, Fresh, RegistryInv
  <2>2. InOrder(X) \in Seq(Entries) /\ InOrder(Y) \in Seq(Entries)
    BY <2>1, InOrderLemma
  <2>3. backends' = backends \o InOrder(X) /\ outputs' = outputs \o InOrder(Y) /\ hooked' = hooked
    BY <1>4 DEF RefreshRegistry, BackendsWith, OutputsWith, Merges
  <2> HIDE DEF X, Y
  <2>4. QED
    BY <1>1, <2>2, <2>3, ConcatGrows DEF ListsGrow
<1>5. CASE RefreshRaises
  BY <1>3, <1>5 DEF RefreshRaises, Merges
<1>6. CASE Reconfigure
  BY <1>3, <1>6 DEF Reconfigure, SafeMode, Rebuild, Drop, PatchChore, SetChore, Switch,
     Remove1, Toggle, StoreCredentials, Credentials, Patch, ListPlugins, ListSkills, LoadAll, known
<1>7. CASE UNCHANGED registryVars
  BY <1>3, <1>7 DEF registryVars, known
<1>8. QED
  BY <1>4, <1>5, <1>6, <1>7 DEF RegistryStep

\* What is ahead stays ahead.
LEMMA ReachStays ==
  ASSUME ListsGrow, NEW r, Reach(r)
  PROVE  Reach(r)'
<1>1. ASSUME NEW e, r.i \in Nat \ {0}, r.size \in 0..Len(backends), Ahead(backends, r.i, r.size, e)
      PROVE  Ahead(backends', r.i, r.size, e)
  <2>1. PICK j \in r.i..r.size : backends[j] = e
    BY <1>1 DEF Ahead
  <2>2. j \in 1..Len(backends)
    BY <1>1 DEF ListsGrow, Grows
  <2>3. backends'[j] = e
    BY <2>1, <2>2 DEF ListsGrow, Grows
  <2>4. QED
    BY <2>3 DEF Ahead
<1>2. ASSUME NEW e, NEW i \in Nat \ {0}, Ahead(outputs, i, Len(outputs), e)
      PROVE  Ahead(outputs', i, Len(outputs'), e)
  BY <1>2 DEF Ahead, ListsGrow, Grows
<1>3. hooked' = hooked /\ (r.size \in 0..Len(backends) => r.size \in 0..Len(backends'))
  BY DEF ListsGrow, Grows
<1>4. ASSUME r.at = "sync", NEW e \in r.due \ r.called
      PROVE  (Ahead(backends, r.i, r.size, e) \/ (hooked /\ Ahead(outputs, 1, Len(outputs), e)))'
  <2>1. Ahead(backends, r.i, r.size, e) => Ahead(backends', r.i, r.size, e)
    BY <1>1, <1>4 DEF Reach
  <2>2. Ahead(outputs, 1, Len(outputs), e) => Ahead(outputs', 1, Len(outputs'), e)
    BY <1>2
  <2>3. QED
    BY <1>3, <1>4, <2>1, <2>2 DEF Reach, Ahead
<1>5. ASSUME r.at = "skills", NEW e \in r.due \ r.called
      PROVE  (hooked /\ Ahead(outputs, r.i, Len(outputs), e))'
  BY <1>2, <1>5, <1>3 DEF Reach, Ahead
<1>6. QED
  BY <1>3, <1>4, <1>5 DEF Reach

\* One task becomes something that reaches, the others stay.
LEMMA OneReaches ==
  ASSUME TaskInv, ReachInv, ListsGrow, NEW t \in Tasks, NEW r, Reach(r),
         task' = [task EXCEPT ![t] = r]
  PROVE  ReachInv'
BY ReachStays DEF TaskInv, ReachInv, Reach

LEMMA NoneReaches ==
  ASSUME ReachInv, ListsGrow, UNCHANGED task
  PROVE  ReachInv'
BY ReachStays DEF ReachInv

LEMMA IdleReaches == Reach(Idle)
BY DEF Reach, Idle, Fields

\* The next entry is dealt with next.
LEMMA GoesReaches ==
  ASSUME NEW r, DOMAIN r = Fields, NEW S, r.todo \in Seq(S), r.due \subseteq r.called,
         r.want \subseteq r.dealt \cup ToSet(r.todo)
  PROVE  Reach(Goes(r))
<1>1. CASE r.todo = <<>>
  BY <1>1 DEF Goes, Fields, Reach
<1>2. CASE r.todo # <<>>
  <2> DEFINE q == [r EXCEPT !.at = "gate", !.cur = {Head(r.todo)}, !.todo = Tail(@)]
  <2>1. Goes(r) = q
    BY <1>2 DEF Goes
  <2>2. /\ DOMAIN q = Fields /\ q.at = "gate" /\ q.cur = {Head(r.todo)} /\ q.todo = Tail(r.todo)
        /\ q.due = r.due /\ q.called = r.called /\ q.want = r.want /\ q.dealt = r.dealt
    BY DEF Fields
  <2>3. ToSet(r.todo) \subseteq {Head(r.todo)} \cup ToSet(Tail(r.todo))
    <3>1. SUFFICES ASSUME NEW j \in DOMAIN r.todo
                   PROVE  r.todo[j] \in {Head(r.todo)} \cup ToSet(Tail(r.todo))
      BY DEF ToSet
    <3>2. CASE j = 1
      BY <3>2
    <3>3. CASE j # 1
      <4>1. j - 1 \in DOMAIN Tail(r.todo) /\ Tail(r.todo)[j - 1] = r.todo[j]
        BY <1>2, <3>3
      <4>2. QED
        BY <4>1 DEF ToSet
    <3>4. QED
      BY <3>2, <3>3
  <2>4. Reach(q)
    BY <2>2, <2>3 DEF Reach
  <2>5. QED
    BY <2>1, <2>4
<1>3. QED
  BY <1>1, <1>2

LEMMA SkipsReaches ==
  ASSUME NEW r, DOMAIN r = Fields, NEW S, r.todo \in Seq(S), r.due \subseteq r.called,
         r.want \subseteq r.dealt \cup ToSet(r.todo) \cup r.cur
  PROVE  Reach(Skips(r))
BY GoesReaches, IdleReaches DEF Fields, Skips

\* After a write the triggered entries are all that is wanted, and all to do.
LEMMA ContinuesReaches ==
  ASSUME RegistryInv, NEW r, DOMAIN r = Fields, NEW S, r.todo \in Seq(S), r.due \subseteq r.called,
         r.want \subseteq r.dealt \cup ToSet(r.todo)
  PROVE  Reach(Continues(r))
<1> DEFINE q == [r EXCEPT !.todo = InOrder(Triggered), !.want = Triggered, !.dealt = {}]
<1>1. Triggered \in SUBSET Entries
  BY DEF Triggered, RegistryInv
<1>2. InOrder(Triggered) \in Seq(Triggered) /\ ToSet(InOrder(Triggered)) = Triggered
  BY <1>1, InOrderLemma
<1>3. /\ DOMAIN q = Fields /\ q.todo = InOrder(Triggered) /\ q.due = r.due /\ q.called = r.called
      /\ q.want = Triggered
  BY DEF Fields
<1>4. Reach(Goes(q))
  BY <1>2, <1>3, GoesReaches
<1>5. QED
  BY <1>4, GoesReaches, IdleReaches DEF Continues

\* A write begins with everything it has to call ahead.
LEMMA NotifiesReaches ==
  ASSUME RegistryInv, NEW r, DOMAIN r = Fields, NEW next, r.want \subseteq r.dealt \cup ToSet(r.todo)
  PROVE  Reach(Notifies(r, next))
<1> DEFINE q == Notifies(r, next)
<1>1. /\ DOMAIN q = Fields /\ q.at = "sync" /\ q.i = 1 /\ q.size = Len(backends) /\ q.en = enabled
      /\ q.due = enabled \cap (ToSet(backends) \cup IF hooked THEN ToSet(outputs) ELSE {})
      /\ q.want = r.want /\ q.dealt = r.dealt /\ q.todo = r.todo
  BY DEF Notifies, Fields
<1>2. /\ DOMAIN backends = 1..Len(backends) /\ Len(backends) \in Nat
      /\ DOMAIN outputs = 1..Len(outputs) /\ Len(outputs) \in Nat
  BY DEF RegistryInv, WiredInv
<1>3. \A e \in q.due : Ahead(backends, 1, Len(backends), e) \/ (hooked /\ Ahead(outputs, 1, Len(outputs), e))
  BY <1>1, <1>2 DEF Ahead, ToSet
<1> HIDE DEF q
<1>4. Reach(q)
  BY <1>1, <1>2, <1>3 DEF Reach
<1>5. QED
  BY <1>4 DEF q

\* The steps of a task that leave the rest alone.
LEMMA AloneWorkReaches ==
  ASSUME IInv, ReachInv, NEW t \in Tasks,
         \/ Pass(t) \/ Missing(t) \/ Raises(t) \/ Collects(t) \/ Runs(t) \/ LogInput(t) \/ WriteSeed(t)
         \/ SyncNext(t) \/ SyncRaises(t) \/ SyncDone(t) \/ Skill(t) \/ Written(t) \/ Complete(t)
  PROVE  ReachInv'
<1>1. /\ Reach(task[t]) /\ DOMAIN task[t] = Fields /\ task[t].todo \in Seq(live)
      /\ RegistryInv /\ TaskInv
  BY DEF IInv, TaskInv, Fit, ReachInv
<1>2. ASSUME NEW r, Reach(r), Becomes(t, r), Alone
      PROVE  ReachInv'
  BY <1>1, <1>2, StepGrows, OneReaches DEF Alone, RegistryStep, Becomes
<1>3. CASE Pass(t)
  BY <1>1, <1>3, <1>2 DEF Fields, Reach, Pass
<1>4. CASE Missing(t)
  BY <1>1, <1>4, SkipsReaches, <1>2, IdleReaches DEF Fields, Reach, Missing
<1>5. CASE Raises(t) \/ SyncRaises(t) \/ Complete(t)
  BY <1>2, <1>5, IdleReaches DEF Raises, SyncRaises, Complete, Over
<1>6. CASE Collects(t)
  BY <1>1, <1>6, <1>2 DEF Fields, Reach, Collects
<1>7. CASE Runs(t)
  <2> DEFINE r == [task[t] EXCEPT !.dealt = @ \cup task[t].cur, !.cur = {}, !.req = {}, !.pass = "none"]
  <2>1. /\ DOMAIN r = Fields /\ r.todo = task[t].todo
        /\ r.want = task[t].want /\ r.dealt = task[t].dealt \cup task[t].cur
    BY <1>1 DEF Fields
  <2>2. r.want \subseteq r.dealt \cup ToSet(r.todo)
    BY <1>1, <1>7, <2>1 DEF Reach, Runs
  <2>3. \A next : Reach(Notifies(r, next))
    BY <1>1, <2>1, <2>2, NotifiesReaches
  <2>4. QED
    BY <1>2, <1>7, <2>3 DEF Runs
<1>8. CASE LogInput(t)
  BY <1>1, <1>8, <1>2 DEF Fields, Reach, LogInput
<1>9. CASE WriteSeed(t)
  BY <1>1, <1>9, NotifiesReaches, <1>2 DEF Reach, WriteSeed
<1>10. CASE SyncNext(t)
  <2> DEFINE r == [task[t] EXCEPT !.i = @ + 1,
                                  !.called = @ \cup ({backends[task[t].i]} \cap task[t].en)]
  <2>1. /\ DOMAIN r = Fields /\ r.at = task[t].at /\ r.i = task[t].i + 1 /\ r.size = task[t].size
        /\ r.en = task[t].en /\ r.todo = task[t].todo /\ r.due = task[t].due
        /\ r.called = task[t].called \cup ({backends[task[t].i]} \cap task[t].en)
        /\ r.want = task[t].want /\ r.dealt = task[t].dealt
    BY <1>1 DEF Fields
  <2>2. /\ task[t].at = "sync" /\ task[t].i \in Nat \ {0} /\ task[t].size \in 0..Len(backends)
        /\ task[t].due \subseteq task[t].en
        /\ \A e \in task[t].due \ task[t].called :
             \/ Ahead(backends, task[t].i, task[t].size, e)
             \/ hooked /\ Ahead(outputs, 1, Len(outputs), e)
    BY <1>1, <1>10 DEF Reach, SyncNext
  <2>3. \A e : Ahead(backends, task[t].i, task[t].size, e) =>
               e = backends[task[t].i] \/ Ahead(backends, task[t].i + 1, task[t].size, e)
    BY <2>2 DEF Ahead
  <2>4. task[t].want \subseteq task[t].dealt \cup ToSet(task[t].todo)
    BY <1>1, <2>2 DEF Reach
  <2>5. \A e \in r.due \ r.called :
          Ahead(backends, r.i, r.size, e) \/ (hooked /\ Ahead(outputs, 1, Len(outputs), e))
    BY <2>1, <2>2, <2>3
  <2>6. r.i \in Nat \ {0}
    BY <2>1, <2>2
  <2> HIDE DEF r
  <2>7. Reach(r)
    BY <2>1, <2>2, <2>4, <2>5, <2>6 DEF Reach
  <2>8. QED
    BY <1>2, <1>10, <2>7 DEF SyncNext, r
<1>11. CASE SyncDone(t)
  <2> DEFINE r == [task[t] EXCEPT !.at = "skills", !.i = 1]
  <2>1. /\ DOMAIN r = Fields /\ r.at = "skills" /\ r.i = 1
        /\ r.en = task[t].en /\ r.todo = task[t].todo /\ r.due = task[t].due
        /\ r.called = task[t].called /\ r.want = task[t].want /\ r.dealt = task[t].dealt
    BY <1>1 DEF Fields
  <2>2. \A e : ~Ahead(backends, task[t].i, task[t].size, e)
    BY <1>1, <1>11 DEF SyncDone, Ahead, Reach
  <2>3. Reach(r)
    BY <1>1, <1>11, <2>1, <2>2 DEF Reach, SyncDone
  <2>4. QED
    BY <1>2, <1>11, <2>3 DEF SyncDone
<1>12. CASE Skill(t)
  <2> DEFINE r == [task[t] EXCEPT !.i = @ + 1,
                                  !.called = @ \cup ({outputs[task[t].i]} \cap task[t].en)]
  <2>1. /\ DOMAIN r = Fields /\ r.at = task[t].at /\ r.i = task[t].i + 1
        /\ r.en = task[t].en /\ r.todo = task[t].todo /\ r.due = task[t].due
        /\ r.called = task[t].called \cup ({outputs[task[t].i]} \cap task[t].en)
        /\ r.want = task[t].want /\ r.dealt = task[t].dealt
    BY <1>1 DEF Fields
  <2>2. /\ task[t].at = "skills" /\ task[t].i \in Nat \ {0} /\ Len(outputs) \in Nat
        /\ task[t].due \subseteq task[t].en
        /\ \A e \in task[t].due \ task[t].called : hooked /\ Ahead(outputs, task[t].i, Len(outputs), e)
    BY <1>1, <1>12 DEF Reach, Skill, RegistryInv, WiredInv
  <2>3. \A e : Ahead(outputs, task[t].i, Len(outputs), e) =>
               e = outputs[task[t].i] \/ Ahead(outputs, task[t].i + 1, Len(outputs), e)
    BY <2>2 DEF Ahead
  <2>4. task[t].want \subseteq task[t].dealt \cup ToSet(task[t].todo)
    BY <1>1, <2>2 DEF Reach
  <2>5. \A e \in r.due \ r.called : hooked /\ Ahead(outputs, r.i, Len(outputs), e)
    BY <2>1, <2>2, <2>3
  <2>6. r.i \in Nat \ {0}
    BY <2>1, <2>2
  <2> HIDE DEF r
  <2>7. Reach(r)
    BY <2>1, <2>2, <2>4, <2>5, <2>6 DEF Reach
  <2>8. QED
    BY <1>2, <1>12, <2>7 DEF Skill, r
<1>13. CASE Written(t)
  <2> DEFINE r == [task[t] EXCEPT !.i = 0, !.size = 0, !.en = {}]
  <2>1. /\ DOMAIN r = Fields /\ r.todo = task[t].todo /\ r.due = task[t].due
        /\ r.called = task[t].called /\ r.want = task[t].want /\ r.dealt = task[t].dealt
    BY <1>1 DEF Fields
  <2>2. Len(outputs) \in Nat
    BY <1>1 DEF RegistryInv, WiredInv
  <2>3. \A e : ~(hooked /\ Ahead(outputs, task[t].i, Len(outputs), e))
    BY <1>1, <1>13, <2>2 DEF Written, Ahead, Reach
  <2>4. task[t].due \subseteq task[t].called /\ task[t].want \subseteq task[t].dealt \cup ToSet(task[t].todo)
    BY <1>1, <1>13, <2>3 DEF Reach, Written
  <2>5. Reach(Continues(r))
    BY <1>1, <2>1, <2>4, ContinuesReaches
  <2>6. QED
    BY <1>2, <1>13, <2>5 DEF Written
<1>14. QED
  BY <1>3, <1>4, <1>5, <1>6, <1>7, <1>8, <1>9, <1>10, <1>11, <1>12, <1>13

\* Tasks that start have nothing due.
LEMMA BeginReaches ==
  ASSUME IInv, ReachInv, Begin
  PROVE  ReachInv'
<1>1. PICK t \in Tasks, e \in Entries :
        FireInput(t, e) \/ FireProcess(t, e) \/ Webhook(t, e) \/ CallTool(t, e) \/ RunPlugin(t, e) \/ RunEntry(t, e)
  BY DEF Begin
<1>2. ListsGrow /\ TaskInv
  BY BeginKeeps, StepGrows DEF Alone, RegistryStep, IInv
<1>3. \A kind, cur, at : at \in {"refresh", "gate", "run"} =>
        Reach([Idle EXCEPT !.source = {e}, !.cur = cur, !.kind = kind, !.at = at])
  BY DEF Reach, Idle, Fields
<1>4. Reach([Idle EXCEPT !.source = {e}, !.kind = "input", !.at = "refresh"])
  BY DEF Reach, Idle, Fields
<1>5. Reach([Idle EXCEPT !.source = {e}, !.kind = "direct", !.cur = {e}, !.at = "refresh"])
  BY DEF Reach, Idle, Fields
<1>6. PICK r : Reach(r) /\ task' = [task EXCEPT ![t] = r]
  BY <1>1, <1>3, <1>4, <1>5 DEF FireInput, FireProcess, Webhook, CallTool, RunPlugin, RunEntry, Direct, Starts
<1>7. QED
  BY <1>2, <1>6, OneReaches

\* The steps of a task that refresh, ask and take the answer.
LEMMA OtherWorkReaches ==
  ASSUME IInv, ReachInv, NEW t \in Tasks,
         \/ Refresh(t) \/ RefreshFails(t)
         \/ \E q \in Requests : Ask(t, q) \/ Approved(t, q) \/ Rejected(t, q) \/ Deferred(t, q)
  PROVE  ReachInv'
<1>1. /\ Reach(task[t]) /\ DOMAIN task[t] = Fields /\ task[t].todo \in Seq(live)
      /\ RegistryInv /\ TaskInv
  BY DEF IInv, TaskInv, Fit, ReachInv
<1>2. ListsGrow
  BY <1>1, StepGrows, TaskRefreshKeeps, AskKeeps
<1>3. ASSUME NEW r, Reach(r), Becomes(t, r)
      PROVE  ReachInv'
  BY <1>1, <1>2, <1>3, OneReaches DEF Becomes
<1>4. ASSUME NEW r, DOMAIN r = Fields, task[t].at \in {"refresh", "gate"}, r.at \in {"log", "gate", "ask"},
             r.todo = task[t].todo, r.due = task[t].due, r.called = task[t].called,
             r.want = task[t].want, r.dealt = task[t].dealt,
             task[t].at = "gate" => r.at = "ask" /\ r.cur = task[t].cur
      PROVE  Reach(r)
  BY <1>1, <1>4 DEF Reach
<1>5. CASE Refresh(t) \/ RefreshFails(t)
  BY <1>1, <1>4, <1>5, <1>3, IdleReaches DEF Fields, Refresh, RefreshFails, Over
<1>6. ASSUME NEW q \in Requests, Ask(t, q)
      PROVE  ReachInv'
  BY <1>1, <1>4, <1>6, <1>3, IdleReaches DEF Fields, Ask, Over
<1>7. ASSUME NEW q \in Requests, Approved(t, q)
      PROVE  ReachInv'
  BY <1>1, <1>7, <1>3 DEF Fields, Reach, Approved
<1>8. ASSUME NEW q \in Requests, Rejected(t, q)
      PROVE  ReachInv'
  BY <1>1, <1>8, SkipsReaches, <1>3 DEF Fields, Reach, Rejected
<1>9. ASSUME NEW q \in Requests, Deferred(t, q)
      PROVE  ReachInv'
  BY <1>3, <1>9, IdleReaches DEF Deferred, Over
<1>10. QED
  BY <1>5, <1>6, <1>7, <1>8, <1>9

LEMMA NextReaches == IInv /\ ReachInv /\ [Next]_vars => ReachInv'
<1> SUFFICES ASSUME IInv, ReachInv, [Next]_vars PROVE ReachInv'
  OBVIOUS
<1>1. CASE Begin
  BY <1>1, BeginReaches
<1>2. CASE \E t \in Tasks : Work(t)
  BY <1>2, AloneWorkReaches, OtherWorkReaches DEF Work
<1>3. CASE \/ \E r \in Requests : Deliver(r)
           \/ Reconfigure /\ UNCHANGED <<approvalVars, task, starts>>
           \/ Around /\ UNCHANGED <<registryVars, task, starts>>
           \/ UNCHANGED vars
  BY <1>3, StepGrows, NoneReaches DEF Deliver, RegistryStep, vars, IInv
<1>4. CASE Restart
  BY <1>4 DEF Reach, Idle, Fields, Restart, ReachInv
<1>5. QED
  BY <1>1, <1>2, <1>3, <1>4 DEF Next

\* A write that goes on has reached its outputs (OutputsReached), for any number of backends,
\* skills and tasks: every output that was registered and enabled when SyncManager.notify began
\* has been called, whatever is registered or disabled meanwhile, and an input that completes
\* has dealt with every entry it triggers.
THEOREM Reached == Spec => []OutputsReached
<1>1. Init => ReachInv
  BY IdleReaches DEF Init, ReachInv
<1>2. IInv /\ ReachInv => OutputsReached
  BY DEF ReachInv, Reach, OutputsReached, ToSet
<1>3. Spec => []ReachInv
  BY <1>1, NextReaches, Inductive, PTL DEF Spec
<1>4. QED
  BY <1>2, <1>3, Inductive, PTL

-----------------------------------------------------------------------------
\* Safe Mode (GateHolds), for any entries and clients and any number of tasks: a dangerous
\* plugin that runs after SafeModeGuard.check was let through with Safe Mode off, or by a
\* client that said yes to this task's own request.
THEOREM Gated == Spec => []GateHolds
<1>1. IInv => GateHolds
  BY DEF IInv, TaskInv, Fit, Right, GateHolds
<1>2. QED
  BY <1>1, Inductive, PTL

\* The parts of the gateway agree on its entries and settings (RegistryAgrees), for any
\* entries and declarations: a dangerous plugin is known as such, a trigger has its job, an
\* output is called once, and the configuration is followed and saved, but for what the
\* property names.
THEOREM Agreed == Spec => []RegistryAgrees
<1>1. IInv => RegistryAgrees
  BY AgreesLemma DEF IInv
<1>2. QED
  BY <1>1, Inductive, PTL

\* The WebSocket approvals, with everything that uses them, implement ApprovalGate
\* (ImplementsGate): a request is told what a client said of it, once, or that nobody did.
THEOREM Implements == Spec => ImplementsGate
<1>1. Init => Gate!GInit
  BY DEF Init, ApprovalInit, Gate!GInit
<1>2. IInv /\ [Next]_vars => [Gate!GNext]_<<said, verdict>>
  BY StepKeeps, RestartHolds, ApprovalRefines DEF IInv
<1>3. QED
  BY <1>1, <1>2, Inductive, PTL DEF Spec, ImplementsGate, Gate!GSpec

-----------------------------------------------------------------------------
\* The types.  A file holds one configuration at most, an approval that is sending has
\* somebody left to send to, and a task awaits one request at most.

RegistryTypes ==
  /\ loaded \subseteq Entries /\ judged \subseteq Plugins /\ dangers \subseteq Entries
  /\ hooked \in BOOLEAN
  /\ config \in Configs /\ enabled \subseteq Entries /\ stored \subseteq Entries
  /\ file = {} \/ \E c \in Configs : file = {c}
  /\ listed \subseteq Entries /\ again \subseteq Entries /\ broken \subseteq Entries /\ chores \subseteq Chores
  /\ behind \in BOOLEAN /\ unsaved \in BOOLEAN /\ unapplied \in BOOLEAN /\ ops \in 0..MaxOps
ApprovalTypes == ApprovalTypeOK /\ \A r \in Requests : ask[r].at = "send" => ask[r].left # <<>>
TypedTask(r) == r \in Coroutines /\ (r.req = {} \/ \E q \in Requests : r.req = {q})
TaskTypes == /\ DOMAIN task = Tasks /\ task \in [Tasks -> Coroutines] /\ starts \in 0..MaxStarts
             /\ \A t \in Tasks : TypedTask(task[t])
TypesInv == RegistryTypes /\ ApprovalTypes /\ TaskTypes

LEMMA TypesImply == IInv /\ TypesInv => HostTypeOK
<1> SUFFICES ASSUME IInv, TypesInv PROVE HostTypeOK
  OBVIOUS
<1>1. disk \subseteq Entries /\ live \subseteq Entries /\ jobs \subseteq Entries
      /\ backends \in Seq(Entries) /\ outputs \in Seq(Entries)
  BY DEF IInv, RegistryInv, WiredInv
<1>2. file \subseteq Configs /\ Cardinality(file) <= 1
  BY FS_EmptySet, FS_Singleton DEF TypesInv, RegistryTypes
<1>3. RegistryTypeOK
  BY <1>1, <1>2 DEF TypesInv, RegistryTypes, RegistryTypeOK
<1>4. ASSUME NEW t \in Tasks
      PROVE  Cardinality(task[t].req) <= 1
  <2>1. Cardinality({}) = 0 /\ \A q : Cardinality({q}) = 1
    BY FS_EmptySet, FS_Singleton
  <2>2. task[t].req = {} \/ \E q \in Requests : task[t].req = {q}
    BY DEF TypesInv, TaskTypes, TypedTask
  <2>3. QED
    BY <2>1, <2>2
<1>5. QED
  BY <1>3, <1>4 DEF HostTypeOK, TypesInv, ApprovalTypes, TaskTypes

LEMMA TypesStart == Init => TypesInv
<1> SUFFICES ASSUME Init PROVE TypesInv
  OBVIOUS
<1>1. disk \subseteq Entries
  BY InputsAssumption DEF Init, RegistryInit
<1>2. RegistryTypes
  <2>1. Defaults.chores \subseteq Chores
    BY DefaultsAssumption DEF Configs
  <2>2. Enabled(disk) \subseteq Entries
    BY <1>1 DEF Enabled
  <2>3. (Outs(disk) # {}) \in BOOLEAN
    OBVIOUS
  <2>4. 0 \in 0..MaxOps
    BY OpsAssumption
  <2>5. QED
    BY <1>1, <2>1, <2>2, <2>3, <2>4, DefaultsAssumption DEF Init, RegistryInit, RegistryTypes, Plugins
<1>3. ApprovalTypes
  <2>1. <<>> \in Seq(Clients) /\ IsInjective(<<>>)
    BY DEF IsInjective
  <2>2. New \in Asks /\ New.at # "send"
    BY DEF New, Asks
  <2>3. QED
    BY <2>1, <2>2 DEF Init, ApprovalInit, ApprovalTypes, ApprovalTypeOK
<1>4. TypedTask(Idle)
  BY DEF TypedTask, Idle, Coroutines, One
<1>5. TaskTypes
  BY <1>4, StartsAssumption DEF Init, TaskTypes, TypedTask
<1>6. QED
  BY <1>2, <1>3, <1>5 DEF TypesInv

-----------------------------------------------------------------------------
\* The registry.

LEMMA RegistryTypesKept ==
  ASSUME RegistryInv, RegistryTypes, RegistryStep \/ Reinitialize
  PROVE  RegistryTypes'
<1>1. disk \subseteq Entries /\ live \subseteq Entries
  BY DEF RegistryInv
<1>2. \A es : Enabled(es) \subseteq es
  BY DEF Enabled
<1>3. Plugins \subseteq Entries /\ Plugins' = Plugins
  BY DEF Plugins
<1>4. CASE RefreshRegistry \/ RefreshRaises
  BY <1>1, <1>3, <1>4, <1>2 DEF Fresh, DangersWith, RegistryTypes, RefreshRegistry, RefreshRaises, Merges
<1>5. CASE Reconfigure
  <2>0. Changes => ops' \in 0..MaxOps
    BY OpsAssumption DEF Changes, RegistryTypes
  <2>1. ASSUME NEW es \in Bundles, Drop(es)
        PROVE  RegistryTypes'
    BY <2>1, <1>3, OpsAssumption DEF Drop, Changes, known, configured, RegistryTypes
  <2>2. ASSUME NEW e \in Entries, Remove1(e)
        PROVE  RegistryTypes'
    BY <2>2, <1>3, OpsAssumption DEF Remove1, Changes, known, configured, RegistryTypes
  <2>3. ASSUME NEW es, LoadAll(es)
        PROVE  RegistryTypes'
    BY <2>3, <1>1, <1>3 DEF LoadAll, known, configured, RegistryTypes
  <2>4. ASSUME NEW c \in Configs, Persists(c)
        PROVE  (file' = {} \/ \E d \in Configs : file' = {d}) /\ unsaved' \in BOOLEAN
    BY <2>4 DEF Persists, RegistryTypes
  <2>5. config \in [safe: BOOLEAN, disabled: SUBSET Entries, chores: SUBSET Chores]
    BY DEF RegistryTypes, Configs
  <2>6. CASE SafeMode
    <3>1. config' \in Configs
      BY <2>5, <2>6 DEF SafeMode, Configs
    <3>2. QED
      BY <1>3, <2>4, <2>6, <3>1, OpsAssumption DEF SafeMode, Changes, found, known, RegistryTypes
  <2>7. ASSUME NEW c \in Chores, Switch(c), chores' = chores \/ chores' = config'.chores,
               unapplied' \in BOOLEAN
        PROVE  RegistryTypes'
    BY <2>5, <2>7, <1>3, <2>4, OpsAssumption DEF Switch, Configs, Changes, found, known, RegistryTypes
  <2>8. ASSUME NEW e \in Entries, Toggle(e)
        PROVE  RegistryTypes'
    BY <2>5, <2>8, <1>1, <2>4, <1>3, <2>0 DEF Toggle, Configs, known, found, RegistryTypes
  <2>9. ASSUME NEW es \in Lists, Patch(es)
        PROVE  RegistryTypes'
    BY <2>5, <2>9, InputsAssumption, <1>3, <2>4, OpsAssumption DEF Patch, Configs, Changes, found, known,
       RegistryTypes
  <2>10. CASE Rebuild \/ \E e \in Entries : StoreCredentials(e) \/ Credentials(e)
    BY <2>0, <2>10, <1>1, <1>2, <1>3 DEF Rebuild, known, RegistryTypes, StoreCredentials, Credentials, found
  <2>11. QED
    BY <1>5, <2>1, <2>2, <2>3, <2>6, <2>7, <2>8, <2>9, <2>10
       DEF Reconfigure, ListPlugins, ListSkills, PatchChore, SetChore, ApplyChores, RegistryTypes
<1>6. CASE Reinitialize
  BY <1>6, DefaultsAssumption, <1>1, <1>3 DEF Reinitialize, StartsWith, FromSettings, RegistryTypes, Configs
<1>7. CASE UNCHANGED registryVars
  BY <1>3, <1>7 DEF registryVars, found, known, configured, RegistryTypes
<1>8. QED
  BY <1>4, <1>5, <1>6, <1>7 DEF RegistryStep

-----------------------------------------------------------------------------
\* The approvals.

LEMMA ApprovalTypesKept ==
  ASSUME ApprovalTypes, ApprovalStep
  PROVE  ApprovalTypes'
<1>1. /\ conns \in Seq(Clients) /\ IsInjective(conns) /\ closed \subseteq Clients
      /\ ask \in [Requests -> Asks] /\ future \in [Requests -> {"none", "open", "yes", "no"}]
      /\ shown \subseteq Requests /\ said \in [Requests -> {"none", "yes", "no"}]
      /\ verdict \in [Requests -> {"none", "yes", "no", "deferred"}]
      /\ \A r \in Requests : ask[r].at = "send" => ask[r].left # <<>>
  BY DEF ApprovalTypes, ApprovalTypeOK
<1>2. \A S : Filter(conns, S) \in Seq(Clients) /\ IsInjective(Filter(conns, S))
  BY <1>1, FilterType, FilterInjective
<1>3. [New EXCEPT !.at = "over"] \in Asks /\ [New EXCEPT !.at = "over"].at = "over"
  <2>1. PICK n : n = New
    OBVIOUS
  <2>2. n \in Asks
    BY <2>1 DEF New, Asks
  <2>3. [n EXCEPT !.at = "over"] \in Asks /\ [n EXCEPT !.at = "over"].at = "over"
    BY <2>2 DEF Asks
  <2>4. QED
    BY <2>1, <2>3
<1>4. ASSUME NEW r \in Requests, NEW v \in {"yes", "no", "deferred"}, Ends(r, v),
             UNCHANGED <<conns, closed, shown, said>>
      PROVE  ApprovalTypes'
  BY <1>1, <1>3, <1>4 DEF Ends, ApprovalTypes, ApprovalTypeOK
<1>5. ASSUME NEW r \in Requests, RequestApproval(r)
      PROVE  ApprovalTypes'
  <2>1. CASE conns = <<>>
    BY <1>4, <1>5, <2>1 DEF RequestApproval
  <2>2. CASE conns # <<>>
    <3>1. PICK a : a = [at |-> "send", left |-> conns, dead |-> {}]
      OBVIOUS
    <3>2. a \in Asks /\ a.left # <<>>
      BY <1>1, <2>2, <3>1 DEF Asks
    <3>3. /\ future' = [future EXCEPT ![r] = "open"] /\ ask' = [ask EXCEPT ![r] = a]
          /\ UNCHANGED <<conns, closed, shown, said, verdict>>
      BY <1>5, <2>2, <3>1 DEF RequestApproval
    <3>4. QED
      BY <1>1, <3>2, <3>3 DEF ApprovalTypes, ApprovalTypeOK
  <2>3. QED
    BY <2>1, <2>2
<1>6. ASSUME NEW r \in Requests, Send(r)
      PROVE  ApprovalTypes'
  <2>1. PICK w \in Seq(Clients) : w = ask[r].left
    BY <1>1 DEF Asks
  <2>2. w # <<>> /\ ask[r].dead \subseteq Clients
    BY <1>1, <1>6, <2>1 DEF Send, Asks
  <2>3. PICK k, left, dead : k = Head(w) /\ left = Tail(w) /\ dead = ask[r].dead \cup ({k} \cap closed)
    OBVIOUS
  <2>4. k \in Clients /\ left \in Seq(Clients) /\ dead \subseteq Clients
    BY <1>1, <2>2, <2>3
  <2>5. PICK a : a = [at |-> IF left = <<>> THEN "wait" ELSE "send", left |-> left,
                      dead |-> IF left = <<>> THEN {} ELSE dead]
    OBVIOUS
  <2>6. a \in Asks /\ (a.at = "send" => a.left # <<>>)
    BY <2>4, <2>5 DEF Asks
  <2>7. /\ shown' \in {shown, shown \cup {r}} /\ ask' = [ask EXCEPT ![r] = a]
        /\ conns' \in {conns, Filter(conns, Clients \ dead)}
        /\ UNCHANGED <<closed, future, said, verdict>>
    BY <1>6, <2>1, <2>3, <2>5 DEF Send
  <2>8. QED
    BY <1>1, <1>2, <2>6, <2>7 DEF ApprovalTypes, ApprovalTypeOK
<1>7. ASSUME NEW r \in Requests, NEW b \in {"yes", "no"}, HandleResponse(r, b)
      PROVE  ApprovalTypes'
  BY <1>1, <1>7 DEF HandleResponse, ApprovalTypes, ApprovalTypeOK
<1>8. ASSUME NEW k \in Clients, Connect(k) \/ Disconnect(k) \/ Breaks(k)
      PROVE  ApprovalTypes'
  <2>1. conns' \in Seq(Clients) /\ IsInjective(conns')
    <3>1. CASE Connect(k)
      BY <3>1, <1>1, AppendDistinct DEF Connect
    <3>2. CASE Disconnect(k)
      BY <1>2, <3>2 DEF Disconnect
    <3>3. CASE Breaks(k)
      BY <1>1, <3>3 DEF Breaks
    <3>4. QED
      BY <1>8, <3>1, <3>2, <3>3
  <2>2. closed' \subseteq closed \cup {k} /\ UNCHANGED <<ask, future, shown, said, verdict>>
    BY <1>8 DEF Connect, Disconnect, Breaks, Waits
  <2>3. QED
    BY <1>1, <2>1, <2>2 DEF ApprovalTypes, ApprovalTypeOK
<1>9. CASE Dies
  BY <1>9, <1>1, <1>3 DEF Dies, ToSet, IsInjective, ApprovalTypes, ApprovalTypeOK
<1>10. CASE UNCHANGED approvalVars
  BY <1>1, <1>10 DEF approvalVars, ApprovalTypes, ApprovalTypeOK
<1>11. QED
  BY <1>4, <1>5, <1>6, <1>7, <1>8, <1>9, <1>10 DEF ApprovalStep, Resume, TimesOut, Around

-----------------------------------------------------------------------------
\* The tasks.

\* One task becomes something typed.
LEMMA OneTyped ==
  ASSUME TaskTypes, NEW t \in Tasks, NEW r, TypedTask(r), task' = [task EXCEPT ![t] = r],
         starts' \in 0..MaxStarts
  PROVE  TaskTypes'
<1>1. r \in Coroutines /\ DOMAIN task' = Tasks /\ task'[t] = r /\ \A u \in Tasks \ {t} : task'[u] = task[u]
  BY DEF TaskTypes, TypedTask
<1>2. \A x : TypedTask(x) => TypedTask(x)'
  BY DEF TypedTask, Coroutines, One
<1>3. \A u \in Tasks : TypedTask(task'[u])
  BY <1>1 DEF TaskTypes
<1>4. ASSUME NEW u \in Tasks
      PROVE  TypedTask(task[u])'
  BY <1>3 DEF TypedTask, Coroutines, One
<1>5. task' \in [Tasks -> Coroutines']
  BY <1>1 DEF TaskTypes, Coroutines, One
<1>6. QED
  BY <1>1, <1>4, <1>5 DEF TaskTypes

LEMMA IdleTyped == TypedTask(Idle)
BY DEF TypedTask, Idle, Coroutines, One

LEMMA GoesTyped ==
  ASSUME NEW r, TypedTask(r)
  PROVE  TypedTask(Goes(r))
<1>1. CASE r.todo = <<>>
  BY <1>1 DEF Goes, TypedTask, Coroutines
<1>2. CASE r.todo # <<>>
  <2>1. PICK w \in Seq(Entries) : w = r.todo
    BY DEF TypedTask, Coroutines
  <2>2. PICK e, s : e = Head(w) /\ s = Tail(w)
    OBVIOUS
  <2>3. e \in Entries /\ s \in Seq(Entries)
    BY <1>2, <2>1, <2>2
  <2>4. PICK c \in One : c = {e}
    BY <2>3 DEF One
  <2>5. r \in Coroutines
    BY DEF TypedTask
  <2>6. PICK p : p = [r EXCEPT !.at = "gate", !.cur = c]
    OBVIOUS
  <2>7. p \in Coroutines /\ p.req = r.req
    BY <2>5, <2>6 DEF Coroutines
  <2>8. PICK q : q = [p EXCEPT !.todo = s]
    OBVIOUS
  <2>9. q \in Coroutines /\ q.req = r.req
    BY <2>3, <2>7, <2>8 DEF Coroutines
  <2>10. Goes(r) = q
    <3>1. Goes(r) = [r EXCEPT !.at = "gate", !.cur = c, !.todo = s]
      BY <1>2, <2>1, <2>2, <2>4 DEF Goes
    <3>2. QED
      BY ONLY <3>1, <2>5, <2>6, <2>8 DEF Coroutines
  <2>11. QED
    BY <2>9, <2>10 DEF TypedTask
<1>3. QED
  BY <1>1, <1>2

LEMMA SkipsTyped ==
  ASSUME NEW r, TypedTask(r)
  PROVE  TypedTask(Skips(r))
<1>1. PICK q : q = [r EXCEPT !.dealt = @ \cup r.cur]
  OBVIOUS
<1>2. r.dealt \cup r.cur \subseteq Entries
  BY DEF TypedTask, Coroutines, One
<1>3. TypedTask(q)
  BY <1>1, <1>2 DEF TypedTask, Coroutines
<1>4. QED
  BY <1>1, <1>3, GoesTyped, IdleTyped DEF Skips

LEMMA ContinuesTyped ==
  ASSUME RegistryInv, NEW r, TypedTask(r)
  PROVE  TypedTask(Continues(r))
<1>1. PICK es, w : es = Triggered /\ w = InOrder(Triggered)
  OBVIOUS
<1>2. es \in SUBSET Entries
  BY <1>1 DEF Triggered, RegistryInv
<1>3. w \in Seq(es)
  BY <1>1, <1>2, InOrderLemma
<1>4. w \in Seq(Entries)
  BY <1>2, <1>3
<1>5. PICK q : q = [r EXCEPT !.todo = w, !.want = es, !.dealt = {}]
  OBVIOUS
<1>6. TypedTask(q)
  BY <1>2, <1>4, <1>5 DEF TypedTask, Coroutines
<1>7. QED
  BY <1>1, <1>5, <1>6, GoesTyped, IdleTyped DEF Continues

LEMMA NotifiesTyped ==
  ASSUME RegistryInv, RegistryTypes, NEW r, TypedTask(r), NEW next \in {"triggered", "next", "end"}
  PROVE  TypedTask(Notifies(r, next))
<1>1. PICK n, due : /\ n = Len(backends)
                    /\ due = enabled \cap (ToSet(backends) \cup IF hooked THEN ToSet(outputs) ELSE {})
  OBVIOUS
<1>2. n \in Nat /\ enabled \in SUBSET Entries /\ due \in SUBSET Entries
  BY <1>1 DEF RegistryInv, WiredInv, RegistryTypes
<1>3. Notifies(r, next) = [r EXCEPT !.at = "sync", !.then = next, !.i = 1, !.size = n, !.en = enabled,
                                    !.called = {}, !.due = due]
  BY <1>1 DEF Notifies
<1>4. Notifies(r, next) \in Coroutines
  <2>1. PICK a : a = [r EXCEPT !.at = "sync", !.then = next, !.i = 1, !.size = n]
    OBVIOUS
  <2>2. a \in Coroutines
    BY <1>2, <2>1 DEF TypedTask, Coroutines
  <2>3. PICK b : b = [a EXCEPT !.en = enabled, !.called = {}, !.due = due]
    OBVIOUS
  <2>4. b \in Coroutines
    BY <1>2, <2>2, <2>3 DEF Coroutines
  <2>5. b = Notifies(r, next)
    BY <1>3, <2>1, <2>3 DEF TypedTask, Coroutines
  <2>6. QED
    BY <2>4, <2>5
<1>5. Notifies(r, next).req = r.req
  BY <1>3 DEF TypedTask, Coroutines
<1>6. QED
  BY <1>4, <1>5 DEF TypedTask

LEMMA BeginTyped ==
  ASSUME TaskTypes, Begin
  PROVE  TaskTypes'
<1>1. PICK t \in Tasks, e \in Entries :
        FireInput(t, e) \/ FireProcess(t, e) \/ Webhook(t, e) \/ CallTool(t, e) \/ RunPlugin(t, e) \/ RunEntry(t, e)
  BY DEF Begin
<1>2. {e} \in One /\ {} \in One /\ \A c : c = {e} => c \in One
  BY DEF One
<1>3. ASSUME NEW r, Starts(t, r), TypedTask(r)
      PROVE  TaskTypes'
  <2>1. starts' \in 0..MaxStarts
    BY <1>3, StartsAssumption DEF Starts, TaskTypes
  <2>2. QED
    BY <1>3, <2>1, OneTyped DEF Starts
<1>4. ASSUME NEW kind \in {"input", "cron", "direct"}, NEW cur \in One, NEW at \in {"run", "gate", "refresh"}
      PROVE  TypedTask([Idle EXCEPT !.source = {e}, !.cur = cur, !.kind = kind, !.at = at])
  BY IdleTyped, <1>2 DEF Idle, TypedTask, Coroutines
<1>5. TypedTask([Idle EXCEPT !.source = {e}, !.kind = "input", !.at = "refresh"])
  BY IdleTyped, <1>2 DEF Idle, TypedTask, Coroutines
<1>6. TypedTask([Idle EXCEPT !.source = {e}, !.kind = "direct", !.cur = {e}, !.at = "refresh"])
  BY IdleTyped, <1>2 DEF Idle, TypedTask, Coroutines
<1>7. CASE FireInput(t, e) \/ FireProcess(t, e)
  BY <1>2, <1>3, <1>4, <1>7 DEF FireInput, FireProcess
<1>8. CASE Webhook(t, e) \/ CallTool(t, e)
  BY <1>3, <1>5, <1>8 DEF Webhook, CallTool
<1>9. CASE RunPlugin(t, e) \/ RunEntry(t, e)
  BY <1>3, <1>6, <1>9 DEF RunPlugin, RunEntry, Direct
<1>10. QED
  BY <1>1, <1>7, <1>8, <1>9

LEMMA WorkTyped ==
  ASSUME RegistryInv, RegistryTypes, TaskTypes, NEW t \in Tasks, Work(t)
  PROVE  TaskTypes'
<1>1. PICK q : q = task[t]
  OBVIOUS
<1>2. TypedTask(q) /\ starts \in 0..MaxStarts
  BY <1>1 DEF TaskTypes
<1>3. ASSUME NEW r, Becomes(t, r), TypedTask(r)
      PROVE  TaskTypes'
  BY <1>2, <1>3, OneTyped DEF Becomes
<1>4. ASSUME Over(t)
      PROVE  TaskTypes'
  BY <1>3, <1>4, IdleTyped DEF Over
<1>5. CASE RefreshFails(t) \/ Raises(t) \/ SyncRaises(t) \/ Complete(t)
  BY <1>4, <1>5 DEF RefreshFails, Raises, SyncRaises, Complete
<1>6. CASE Refresh(t)
  BY <1>2, <1>1, <1>6, IdleTyped, <1>3 DEF TypedTask, Coroutines, Refresh
<1>7. CASE Pass(t)
  BY <1>2, <1>1, <1>3, <1>7 DEF TypedTask, Coroutines, Pass
<1>8. CASE Missing(t)
  <2>1. PICK r : r = [q EXCEPT !.req = {}, !.pass = "none"]
    OBVIOUS
  <2>2. TypedTask(r)
    BY <1>2, <2>1 DEF TypedTask, Coroutines
  <2>3. TypedTask(IF q.pass = "none" THEN Idle ELSE Skips(r))
    BY <2>2, SkipsTyped, IdleTyped
  <2>4. QED
    BY <1>1, <1>3, <1>8, <2>1, <2>3 DEF Missing
<1>9. CASE Collects(t)
  BY <1>2, <1>1, <1>3, <1>9 DEF TypedTask, Coroutines, One, Collects
<1>10. CASE Runs(t)
  <2>1. PICK d : d = q.dealt \cup q.cur
    OBVIOUS
  <2>2. d \in SUBSET Entries /\ {} \in One
    BY <1>2, <2>1 DEF TypedTask, Coroutines, One
  <2>3. PICK r : r = [q EXCEPT !.dealt = @ \cup q.cur, !.cur = {}, !.req = {}, !.pass = "none"]
    OBVIOUS
  <2>4. TypedTask(r)
    BY <1>2, <2>1, <2>2, <2>3 DEF TypedTask, Coroutines
  <2>5. PICK next \in {"triggered", "next", "end"} : next = IF q.kind = "input" THEN "next" ELSE "end"
    OBVIOUS
  <2>6. QED
    BY <1>1, <1>3, <1>10, <2>3, <2>4, <2>5, NotifiesTyped DEF Runs
<1>11. CASE LogInput(t)
  BY <1>2, <1>1, <1>3, <1>11 DEF TypedTask, Coroutines, LogInput
<1>12. CASE WriteSeed(t)
  BY <1>1, <1>2, <1>3, <1>12, NotifiesTyped DEF WriteSeed
<1>13. ASSUME NEW es, NEW r, r = [q EXCEPT !.i = @ + 1, !.called = @ \cup (es \cap q.en)]
       PROVE  TypedTask(r)
  <2>1. q.called \cup (es \cap q.en) \in SUBSET Entries /\ q.i + 1 \in Nat
    BY <1>2 DEF TypedTask, Coroutines
  <2>2. QED
    BY <1>2, <1>13, <2>1 DEF TypedTask, Coroutines
<1>14. CASE SyncNext(t) \/ Skill(t)
  BY <1>1, <1>3, <1>13, <1>14 DEF SyncNext, Skill
<1>15. CASE SyncDone(t)
  BY <1>2, <1>1, <1>3, <1>15 DEF TypedTask, Coroutines, SyncDone
<1>16. CASE Written(t)
  <2>1. PICK r : r = [q EXCEPT !.i = 0, !.size = 0, !.en = {}]
    OBVIOUS
  <2>2. TypedTask(r)
    BY <1>2, <2>1 DEF TypedTask, Coroutines
  <2>3. QED
    BY <1>1, <1>3, <1>16, <2>1, <2>2, ContinuesTyped DEF Written
<1>17. ASSUME NEW a \in Requests, Ask(t, a)
       PROVE  TaskTypes'
  BY <1>2, <1>1, <1>3, <1>4, <1>17 DEF TypedTask, Coroutines, Ask
<1>18. ASSUME NEW a \in Requests, Approved(t, a)
       PROVE  TaskTypes'
  BY <1>2, <1>1, <1>3, <1>18 DEF TypedTask, Coroutines, Approved
<1>19. ASSUME NEW a \in Requests, Rejected(t, a)
       PROVE  TaskTypes'
  BY <1>2, <1>1, <1>3, <1>19, SkipsTyped DEF TypedTask, Coroutines, Rejected
<1>20. CASE \E a \in Requests : Deferred(t, a)
  BY <1>4, <1>20 DEF Deferred
<1>21. QED
  BY <1>5, <1>6, <1>7, <1>8, <1>9, <1>10, <1>11, <1>12, <1>14, <1>15, <1>16, <1>17, <1>18, <1>19, <1>20 DEF Work

-----------------------------------------------------------------------------
\* The whole.

LEMMA TypesKept == IInv /\ TypesInv /\ [Next]_vars => TypesInv'
<1> SUFFICES ASSUME IInv, TypesInv, [Next]_vars PROVE TypesInv'
  OBVIOUS
<1>1. ApprovalStep /\ (RegistryStep \/ Reinitialize)
  BY StepKeeps DEF Restart, ApprovalStep
<1>2. RegistryTypes' /\ ApprovalTypes'
  BY <1>1, RegistryTypesKept, ApprovalTypesKept DEF IInv, TypesInv
<1>3. ASSUME UNCHANGED <<task, starts>>
      PROVE  TaskTypes'
  BY <1>3 DEF TypesInv, TaskTypes, TypedTask, Coroutines, One
<1>4. ASSUME Restart
      PROVE  TaskTypes'
  BY <1>4, IdleTyped DEF Restart, TypesInv, TaskTypes, TypedTask, Coroutines, One
<1>5. Begin => TaskTypes'
  BY BeginTyped DEF TypesInv
<1>6. (\E t \in Tasks : Work(t)) => TaskTypes'
  BY WorkTyped DEF TypesInv, IInv
<1>7. TaskTypes'
  BY <1>3, <1>4, <1>5, <1>6 DEF Next, Deliver, vars
<1>8. QED
  BY <1>2, <1>7 DEF TypesInv

\* Every part of the gateway's state has its type, whatever hot loads, restarts and answers
\* come (HostTypeOK): no client is connected twice, no broadcast is without somebody to
\* send to, the file holds one configuration at most, a task awaits one request at most.
THEOREM HostTypesHold == Spec => []HostTypeOK
<1>1. IInv /\ TypesInv /\ [Next]_vars => (IInv /\ TypesInv)'
  BY NextHolds, TypesKept
<1>2. QED
  BY <1>1, InitHolds, TypesStart, TypesImply, PTL DEF Spec

-----------------------------------------------------------------------------
\* Danger verdicts.

\* A cache that holds nothing but what fits.
Holds1(m) == /\ DOMAIN m = Plugins1
             /\ \A p \in Plugins1 : m[p] # NoVerdict => Fits(p, m[p].of, m[p].dangerous)
DangerInv ==
  /\ code \in [Plugins1 -> Codes]
  /\ \A a \in answers : Fits(a.plugin, a.of, a.dangerous)
  /\ Holds1(memory) /\ (saved # TornFile => Holds1(saved))
  /\ \A q \in asked : q.plugin \in Plugins1 /\ Imports[q.of] = "unparsable"

\* Nothing of it is undone by what the model says of another code.
LEMMA FitsStays ==
  ASSUME cleared \subseteq cleared'
  PROVE  /\ \A p, c, d : Fits(p, c, d) => Fits(p, c, d)'
         /\ \A m : Holds1(m) => Holds1(m)'
BY DEF Fits, Holds1

\* A verdict that fits may be kept.
LEMMA SettlesKeeps ==
  ASSUME DangerInv, NEW p \in Plugins1, NEW c, NEW d, Settles(p, c, d), Fits(p, c, d)',
         cleared \subseteq cleared', code' = code, asked' \subseteq asked
  PROVE  DangerInv'
BY FitsStays DEF DangerInv, Settles, Holds1, Saves

LEMMA DangerKept ==
  ASSUME DangerInv, [DangerNext]_dangerVars
  PROVE  DangerInv'
<1>1. ASSUME NEW p \in Plugins1, Analyze(p)
      PROVE  DangerInv'
  <2>1. code[p] \in Codes /\ cleared' = cleared /\ code' = code
    BY <1>1 DEF Analyze, DangerInv
  <2>2. CASE \E d \in Cached(p, code[p]) :
               /\ answers' = answers \cup {[plugin |-> p, of |-> code[p], dangerous |-> d]}
               /\ UNCHANGED <<memory, saved, asked>>
    BY <2>2, <2>1 DEF Cached, DangerInv, Holds1, Fits
  <2>3. CASE \E d \in Static(code[p]) : Settles(p, code[p], d) /\ UNCHANGED asked
    BY <2>3, <2>1, DangerAssumption, SettlesKeeps DEF Static, Fits
  <2>4. CASE Static(code[p]) = {} /\ Settles(p, code[p], TRUE) /\ UNCHANGED asked
    BY <2>4, <2>1, SettlesKeeps DEF Static, Fits
  <2>5. CASE /\ Static(code[p]) = {} /\ UNCHANGED <<memory, saved, answers>>
             /\ \E n \in 1..2 : asked' = asked \cup {[plugin |-> p, of |-> code[p], n |-> n]}
    BY <2>5, <2>1 DEF Static, DangerInv, Fits, Holds1
  <2>6. QED
    BY <1>1, <2>2, <2>3, <2>4, <2>5 DEF Analyze
<1>2. ASSUME NEW q \in asked, NEW says \in {"safe", "dangerous", "nonsense"}, Learns(q, says)
      PROVE  DangerInv'
  BY <1>2, SettlesKeeps DEF DangerInv, Learns, Fits
<1>3. ASSUME NEW p \in Plugins1, NEW c \in Codes, EditsPlugin(p, c)
      PROVE  DangerInv'
  BY <1>3 DEF EditsPlugin, DangerInv, Fits, Holds1
<1>4. CASE Reborn
  BY <1>4 DEF Reborn, DangerInv, Fits, Holds1, NothingKnown
<1>5. CASE UNCHANGED dangerVars
  BY <1>5 DEF dangerVars, DangerInv, Fits, Holds1
<1>6. QED
  BY <1>1, <1>2, <1>3, <1>4, <1>5 DEF DangerNext

LEMMA DangerStarts == DangerInit => DangerInv
BY DEF DangerInit, DangerInv, Holds1, NothingKnown

LEMMA DangerImplies == DangerInv => DangerSound
BY DEF DangerInv, DangerSound, Holds1

-----------------------------------------------------------------------------
\* Credentials.

\* A rotation, which has a key, holds at most what is next; what it has not come to yet it has
\* left; and what it holds is what was stored last, or was overtaken.
CredentialsInv ==
  /\ files \in [Services -> [under: Keys \cup {Plain, Gone}, data: Nat]]
  /\ DOMAIN latest = Services
  /\ primary \in Keys \cup {Plain} /\ retired \subseteq Keys
  /\ turn.left \in Seq(Services) /\ turn.read \subseteq [of: Services, data: Nat]
  /\ DOMAIN turn = {"on", "left", "read"}
  /\ \A s \in Services : Here(s) => Readable(s)
  /\ \A s \in Services : files[s].data # latest[s] => s \in crossed
  /\ \A r \in turn.read : /\ turn.left # <<>> /\ r.of = Head(turn.left)
                          /\ r.data # latest[r.of] => r.of \in crossed
  /\ turn.on => /\ Encrypts
                /\ \A s \in Services \ ToSet(turn.left) : files[s].under \in {primary, Gone}
  /\ clean => \A s \in Services : files[s].under \in {primary, Gone}
  /\ spent.uses \in Nat

\* The orders of a set list all of it.
LEMMA OrderOfServices ==
  ASSUME NEW S \in SUBSET Services, NEW s \in SetToSeqs(S)
  PROVE  s \in Seq(Services) /\ ToSet(s) = S
<1> DEFINE n == Cardinality(S)
<1>1. IsFiniteSet(S)
  BY CredentialsAssumption, FS_Subset
<1>2. n \in Nat /\ IsFiniteSet(1..n) /\ Cardinality(1..n) = n
  BY <1>1, FS_CardinalityType, FS_Interval
<1>3. s \in [1..n -> S] /\ \A i, j \in 1..n : i # j => s[i] # s[j]
  BY DEF SetToSeqs
<1> HIDE DEF n
<1>4. s \in Injection(1..n, S)
  BY <1>3 DEF Injection, IsInjective
<1>5. s \in Surjection(1..n, S)
  BY <1>1, <1>2, <1>4, FS_Injection DEF n
<1>6. s \in Seq(Services)
  BY <1>2, <1>3
<1>7. QED
  BY <1>3, <1>5, <1>6 DEF Surjection, ToSet

LEMMA CredentialsStart == CredentialsInit => CredentialsInv
BY CredentialsAssumption DEF CredentialsInit, Here, Readable, Encrypts, CredentialsInv, NoTurn

\* What is written under the primary key can be read.
LEMMA CredentialsKept ==
  ASSUME CredentialsInv, [CredentialsNext]_credentialVars
  PROVE  CredentialsInv'
<1>1. ASSUME NEW s \in Services, StoreCredential(s)
      PROVE  CredentialsInv'
  <2>1. files' = [files EXCEPT ![s] = [under |-> primary, data |-> spent.uses + 2]]
    BY <1>1 DEF StoreCredential, Encoded
  <2>2. /\ files' \in [Services -> [under: Keys \cup {Plain, Gone}, data: Nat]]
        /\ files'[s].under = primary /\ files'[s].data = spent.uses + 2
        /\ \A u \in Services \ {s} : files'[u] = files[u]
    BY <2>1 DEF CredentialsInv
  <2>3. /\ DOMAIN latest' = Services /\ latest'[s] = spent.uses + 2
        /\ \A u \in Services \ {s} : latest'[u] = latest[u]
    BY <1>1 DEF StoreCredential, CredentialsInv
  <2>4. /\ UNCHANGED <<primary, retired, turn, clean>> /\ spent'.uses \in Nat
        /\ crossed' = crossed \cup ({s} \cap Held1)
    BY <1>1 DEF StoreCredential, Uses1, CredentialsInv
  <2>5. QED
    BY <2>2, <2>3, <2>4 DEF CredentialsInv, Here, Readable, Encrypts, Held1
<1>2. ASSUME NEW s \in Services, DeleteCredential(s)
      PROVE  CredentialsInv'
  <2>1. /\ files' \in [Services -> [under: Keys \cup {Plain, Gone}, data: Nat]]
        /\ files'[s].under = Gone /\ files'[s].data = 0
        /\ \A u \in Services \ {s} : files'[u] = files[u]
    BY <1>2 DEF DeleteCredential, CredentialsInv
  <2>3. /\ DOMAIN latest' = Services /\ latest'[s] = 0
        /\ \A u \in Services \ {s} : latest'[u] = latest[u]
    BY <1>2 DEF DeleteCredential, CredentialsInv
  <2>4. /\ UNCHANGED <<primary, retired, turn, clean>> /\ spent'.uses \in Nat
        /\ crossed' = crossed \cup ({s} \cap Held1)
    BY <1>2 DEF DeleteCredential, Uses1, CredentialsInv
  <2>5. QED
    BY <2>1, <2>3, <2>4 DEF CredentialsInv, Here, Readable, Encrypts, Held1
<1>3. CASE Rotate
  <2>1. PICK order \in SetToSeqs({s \in Services : Here(s)}) :
          turn' = [on |-> TRUE, left |-> order, read |-> {}]
    BY <1>3 DEF Rotate, Turning
  <2>2. order \in Seq(Services) /\ ToSet(order) = {s \in Services : Here(s)}
    BY OrderOfServices
  <2>3. UNCHANGED <<files, primary, retired, latest, crossed, clean, spent>> /\ Encrypts
    BY <1>3 DEF Rotate, Turning
  <2>4. QED
    BY <2>1, <2>2, <2>3 DEF CredentialsInv, Here, Readable, Encrypts
<1>4. CASE ReadNext
  <2>1. UNCHANGED <<files, primary, retired, latest, crossed, clean, spent>>
    BY <1>4 DEF ReadNext, Turning
  <2>2. PICK s \in Services : s = Head(turn.left)
    BY <1>4 DEF ReadNext, CredentialsInv
  <2>3. CASE turn' = NoTurn
    BY <2>1, <2>3 DEF CredentialsInv, Here, Readable, Encrypts, NoTurn
  <2>4. CASE turn' = [turn EXCEPT !.read = {[of |-> s, data |-> files[s].data]}]
    BY <2>4, <1>4, <2>1, <2>2 DEF CredentialsInv, ReadNext, Here, Readable, Encrypts
  <2>5. QED
    BY <1>4, <2>2, <2>3, <2>4 DEF ReadNext, Turning
<1>5. CASE WriteNext
  <2>1. PICK r \in turn.read : files' = [files EXCEPT ![r.of] = [under |-> primary, data |-> r.data]]
    BY <1>5 DEF WriteNext, Encoded
  <2>2. r.of \in Services /\ r.data \in Nat /\ turn.left # <<>> /\ r.of = Head(turn.left)
        /\ (r.data # latest[r.of] => r.of \in crossed)
    BY DEF CredentialsInv
  <2>3. /\ files' \in [Services -> [under: Keys \cup {Plain, Gone}, data: Nat]]
        /\ files'[r.of].under = primary /\ files'[r.of].data = r.data
        /\ \A u \in Services \ {r.of} : files'[u] = files[u]
    BY <2>1, <2>2 DEF CredentialsInv
  <2>4. /\ turn'.on = turn.on /\ turn'.left = Tail(turn.left) /\ turn'.read = {}
        /\ DOMAIN turn' = {"on", "left", "read"}
        /\ UNCHANGED <<primary, retired, latest, crossed, clean, spent>>
    BY <1>5 DEF WriteNext, Turning, CredentialsInv
  <2>5. Tail(turn.left) \in Seq(Services) /\ ToSet(turn.left) \subseteq ToSet(Tail(turn.left)) \cup {r.of}
    <3>1. /\ turn.left \in Seq(Services) /\ turn.left # <<>> /\ r.of = turn.left[1]
          /\ Tail(turn.left) \in Seq(Services) /\ Len(Tail(turn.left)) = Len(turn.left) - 1
          /\ \A i \in 1..(Len(turn.left) - 1) : Tail(turn.left)[i] = turn.left[i + 1]
      BY <2>2 DEF CredentialsInv
    <3>2. ASSUME NEW i \in 1..Len(turn.left), i # 1
          PROVE  turn.left[i] \in ToSet(Tail(turn.left))
      <4>1. i - 1 \in 1..(Len(turn.left) - 1) /\ (i - 1) + 1 = i
        BY <3>1, <3>2
      <4>2. DOMAIN Tail(turn.left) = 1..(Len(turn.left) - 1)
        BY <3>1
      <4>3. QED
        BY <3>1, <4>1, <4>2 DEF ToSet
    <3>3. QED
      BY <3>1, <3>2 DEF ToSet
  <2>6. QED
    BY <2>2, <2>3, <2>4, <2>5 DEF CredentialsInv, Here, Readable, Encrypts
<1>6. CASE Rotated
  BY <1>6 DEF Rotated, Turning, CredentialsInv, Here, Readable, Encrypts, NoTurn, ToSet
<1>7. ASSUME NEW k \in Keys, Restarts(k)
      PROVE  CredentialsInv'
  BY <1>7, CredentialsAssumption DEF Restarts, CredentialsInv, Here, Readable, Encrypts, NoTurn
<1>8. CASE UNCHANGED credentialVars
  BY <1>8 DEF credentialVars, CredentialsInv, Here, Readable, Encrypts
<1>9. QED
  BY <1>1, <1>2, <1>3, <1>4, <1>5, <1>6, <1>7, <1>8 DEF CredentialsNext

LEMMA CredentialsImply == CredentialsInv => CredentialsSound
BY DEF CredentialsInv, CredentialsSound


-----------------------------------------------------------------------------
\* The limiter.

\* What is kept of a client; the times that count, and of them those since it was forgotten.
Mine(c) == IF c \in DOMAIN seen THEN seen[c] ELSE <<>>
Counts == {t \in Nat : t + Window > now}
Since(c) == {t \in Counts : t > evicted[c]}

\* What is kept of a client are past moments in their order, not too many; they are those at
\* which it was let through since it was forgotten, and never more than there were.
Entry1(s) == /\ s \in Seq(0..now) /\ s # <<>> /\ Ascending(s) /\ Len(s) <= Limit
RateInv ==
  /\ now \in Nat /\ now >= Window /\ cleaned \in 0..now
  /\ DOMAIN seen \subseteq Callers /\ \A c \in DOMAIN seen : Entry1(seen[c])
  /\ granted \in [Callers -> Seq(0..now)] /\ evicted \in [Callers -> 0..now]
  /\ \A c \in Callers : Filter(Mine(c), Since(c)) = Filter(granted[c], Since(c))
  /\ \A c \in Callers, S \in SUBSET Nat : Len(Filter(Mine(c), S)) <= Len(Filter(granted[c], S))
  /\ refused \subseteq Callers /\ \A c \in refused : Len(Recent(c)) >= Limit
  /\ cleaned = now => \A c \in DOMAIN seen : Last(seen[c]) + Window > now

\* Sequences of past moments are sequences of naturals.
LEMMA PastLemma ==
  ASSUME NEW n \in Nat, NEW s \in Seq(0..n)
  PROVE  s \in Seq(Nat) /\ ToSet(s) \subseteq 0..n /\ s \in Seq(0..(n + 1))
BY DEF ToSet

\* Nothing of what a quiet client left counts.
LEMMA QuietLemma ==
  ASSUME RateInv, NEW s, Entry1(s), Latest(s) + Window <= now, NEW S \in SUBSET Counts
  PROVE  Filter(s, S) = <<>>
<1>1. s \in Seq(Nat) /\ Len(s) \in Nat /\ Len(s) # 0 /\ DOMAIN s = 1..Len(s)
  BY PastLemma DEF RateInv, Entry1
<1>2. Latest(s) = s[Len(s)]
  BY DEF Entry1, Latest, Last
<1>3. ASSUME NEW i \in DOMAIN s
      PROVE  s[i] \notin S
  <2>1. s[i] <= s[Len(s)] /\ s[i] \in Nat /\ s[Len(s)] \in Nat
    BY <1>1, <1>3 DEF Entry1, Ascending
  <2>2. ~ (s[i] + Window > now)
    BY <1>2, <2>1, RateLimitAssumption DEF RateInv
  <2>3. QED
    BY <2>2 DEF Counts
<1>4. ToSet(s) \cap S = {}
  BY <1>3 DEF ToSet
<1>5. QED
  BY <1>1, <1>4, FilterNone

LEMMA RateImplies == RateInv => LimitSound
<1> SUFFICES ASSUME RateInv PROVE LimitSound
  OBVIOUS
<1>1. \A c \in Callers : Recent(c) = Filter(granted[c], Counts)
  BY DEF Recent, Within, Counts
<1>2. ASSUME NEW c \in Callers, evicted[c] + Window <= now
      PROVE  Recent(c) = Filter(Mine(c), Counts)
  <2>1. evicted[c] \in Nat
    BY DEF RateInv
  <2>2. Since(c) = Counts
    BY <1>2, <2>1, RateLimitAssumption DEF Since, Counts, RateInv
  <2>3. QED
    BY <1>1, <2>2 DEF RateInv
<1>3. \A c \in Callers : evicted[c] + Window <= now => Len(Recent(c)) <= Limit
  <2>1. ASSUME NEW c \in Callers, evicted[c] + Window <= now
        PROVE  Len(Recent(c)) <= Limit
    <3>1. CASE c \in DOMAIN seen
      <4>1. Mine(c) = seen[c] /\ Entry1(seen[c])
        BY <3>1 DEF Mine, RateInv
      <4>2. seen[c] \in Seq(Nat) /\ Len(seen[c]) <= Limit
        BY <4>1, PastLemma DEF Entry1, RateInv
      <4>3. Len(Filter(seen[c], Counts)) <= Len(seen[c]) /\ Filter(seen[c], Counts) \in Seq(Nat)
        BY <4>2, FilterType
      <4>4. QED
        BY <1>2, <2>1, <4>1, <4>2, <4>3, RateLimitAssumption
    <3>2. CASE c \notin DOMAIN seen
      BY <1>2, <2>1, <3>2, FilterNothing, RateLimitAssumption DEF Mine
    <3>3. QED
      BY <3>1, <3>2
  <2>2. QED
    BY <2>1
<1>4. \A c \in Callers : Recent(c) # <<>> /\ evicted[c] + Window <= now => c \in DOMAIN seen
  BY <1>2, FilterNothing DEF Mine
<1>5. QED
  BY <1>3, <1>4 DEF LimitSound, RateInv, Entry1

LEMMA RateStarts == RateInit => RateInv
BY RateLimitAssumption, FilterNothing DEF RateInit, Mine, RateInv

LEMMA TickKeeps ==
  ASSUME RateInv, Tick
  PROVE  RateInv'
<1>1. /\ now' = now + 1 /\ now \in Nat /\ UNCHANGED <<seen, cleaned, granted, evicted>> /\ refused' = {}
      /\ now' # cleaned' /\ cleaned' \in 0..now' /\ now' >= Window
  BY RateLimitAssumption DEF Tick, RateInv
<1>2. \A c : Since(c)' \subseteq Since(c) /\ Mine(c)' = Mine(c)
  BY <1>1, RateLimitAssumption DEF Since, Counts, Mine
<1>3. \A c \in Callers : Mine(c) \in Seq(Nat) /\ granted[c] \in Seq(Nat)
  BY PastLemma DEF RateInv, Mine, Entry1
<1>4. ASSUME NEW c \in Callers
      PROVE  Filter(Mine(c), Since(c)') = Filter(granted[c], Since(c)')
  <2>1. PICK A, B : A = Since(c) /\ B = Since(c)'
    OBVIOUS
  <2>2. A \cap B = B
    BY <1>2, <2>1
  <2>3. Filter(Filter(Mine(c), A), B) = Filter(Mine(c), B)
    BY <1>3, <2>2, FilterFilter
  <2>4. Filter(Filter(granted[c], A), B) = Filter(granted[c], B)
    BY <1>3, <2>2, FilterFilter
  <2>5. Filter(Mine(c), A) = Filter(granted[c], A)
    BY <2>1 DEF RateInv
  <2>6. QED
    BY <2>1, <2>3, <2>4, <2>5
<1>5. \A s \in Seq(0..now) : s \in Seq(0..now')
  BY <1>1, PastLemma
<1>6. \A c \in DOMAIN seen' : Entry1(seen[c])'
  BY <1>1, <1>5 DEF RateInv, Entry1
<1>7. granted' \in [Callers -> Seq(0..now')]
  BY <1>1, <1>5 DEF RateInv
<1>8. evicted' \in [Callers -> 0..now']
  BY <1>1 DEF RateInv
<1>9. \A c \in Callers : Filter(Mine(c)', Since(c)') = Filter(granted'[c], Since(c)')
  BY <1>1, <1>2, <1>4
<1>10. \A c \in Callers, S \in SUBSET Nat : Len(Filter(Mine(c)', S)) <= Len(Filter(granted'[c], S))
  BY <1>1, <1>2 DEF RateInv
<1>11. QED
  BY <1>1, <1>6, <1>7, <1>8, <1>9, <1>10 DEF RateInv

\* A moment more, that of now, at the end of past ones.
LEMMA NowLast ==
  ASSUME NEW n \in Nat, NEW s \in Seq(0..n), Ascending(s)
  PROVE  /\ Append(s, n) \in Seq(0..n) /\ Append(s, n) # <<>> /\ Ascending(Append(s, n))
         /\ Len(Append(s, n)) = Len(s) + 1 /\ Last(Append(s, n)) = n
<1>1. PICK w : w = Append(s, n)
  OBVIOUS
<1>2. /\ w \in Seq(0..n) /\ Len(w) = Len(s) + 1 /\ w[Len(s) + 1] = n /\ Len(s) \in Nat
      /\ \A i \in 1..Len(s) : w[i] = s[i]
  BY <1>1, AppendFacts
<1>3. DOMAIN w = 1..Len(w) /\ DOMAIN s = 1..Len(s) /\ w # <<>>
  BY <1>2
<1>4. ASSUME NEW i \in 1..Len(w), NEW j \in 1..Len(w), i <= j
      PROVE  w[i] <= w[j]
  <2>1. CASE j \in 1..Len(s)
    <3>1. i \in 1..Len(s) /\ w[i] = s[i] /\ w[j] = s[j]
      BY <1>2, <1>4, <2>1, SMTT(30)
    <3>2. QED
      BY <3>1, <1>4, <2>1 DEF Ascending
  <2>2. CASE j = Len(s) + 1
    BY <1>2, <2>2
  <2>3. QED
    BY <1>2, <2>1, <2>2
<1>5. Ascending(w)
  BY <1>2, <1>3, <1>4 DEF Ascending
<1>6. Last(w) = n
  BY <1>2 DEF Last
<1>7. QED
  BY <1>1, <1>2, <1>3, <1>5, <1>6

LEMMA DispatchKeeps ==
  ASSUME RateInv, NEW c \in Callers, Dispatch(c)
  PROVE  RateInv'
<1>1. PICK dropped \in IF DueCleanup THEN Dropped ELSE {{}} :
        /\ seen' = [d \in Kept(dropped) \cup {c} |-> IF d = c THEN IsAllowed(c, dropped)[2] ELSE seen[d]]
        /\ cleaned' = IF DueCleanup THEN now ELSE cleaned
        /\ evicted' = [d \in Callers |-> IF d \in dropped THEN now ELSE evicted[d]]
        /\ granted' = IF IsAllowed(c, dropped)[1] THEN [granted EXCEPT ![c] = Append(@, now)] ELSE granted
        /\ refused' = IF IsAllowed(c, dropped)[1] THEN {} ELSE {c}
        /\ UNCHANGED <<now, until>>
  BY DEF Dispatch
<1>2. PICK K : K = Kept(dropped)
  OBVIOUS
<1> DEFINE M1(d) == IF d \in K THEN seen[d] ELSE <<>>
           S1(d) == {t \in Counts : t > IF d \in dropped THEN now ELSE evicted[d]}
<1>3. PICK times : times = Filter(M1(c), Counts)
  OBVIOUS
<1>4. PICK ok \in BOOLEAN : ok <=> Len(times) < Limit
  OBVIOUS
<1>t. /\ now \in Nat /\ Counts \subseteq Nat /\ DOMAIN seen \subseteq Callers
      /\ \A d \in DOMAIN seen : Entry1(seen[d]) /\ seen[d] \in Seq(0..now)
      /\ \A d \in Callers : granted[d] \in Seq(0..now)
  BY DEF RateInv, Entry1, Counts
<1>k. K \subseteq DOMAIN seen /\ (~DueCleanup => K = DOMAIN seen /\ dropped = {})
  BY <1>1, <1>2 DEF Kept
<1>m. \A d \in Callers : M1(d) \in Seq(0..now) /\ M1(d) \in Seq(Nat) /\ granted[d] \in Seq(Nat) /\ Ascending(M1(d))
  <2>1. \A s \in Seq(0..now) : s \in Seq(Nat)
    BY <1>t, PastLemma
  <2>2. <<>> \in Seq(0..now) /\ Ascending(<<>>)
    BY DEF Ascending
  <2>3. QED
    BY <1>t, <1>k, <2>1, <2>2 DEF Entry1
<1>n. times \in Seq(0..now) /\ times \in Seq(Counts) /\ Ascending(times) /\ Len(times) \in Nat
  <2>1. times \in Seq(0..now) /\ times \in Seq(Nat \cap Counts)
    BY <1>3, <1>m, FilterType
  <2>2. Nat \cap Counts = Counts
    BY <1>t
  <2>3. 0..now \subseteq Int
    BY <1>t
  <2>4. PICK m \in Seq(0..now) : m = M1(c) /\ Ascending(m)
    BY <1>m
  <2>5. Ascending(Filter(m, Counts))
    BY <2>3, <2>4, FilterAscending
  <2>6. QED
    BY <1>3, <2>1, <2>2, <2>4, <2>5
<1>5. IsAllowed(c, dropped) = IF ok THEN <<TRUE, Append(times, now)>> ELSE <<FALSE, times>>
  <2>1. (IF c \in Kept(dropped) THEN Within(seen[c]) ELSE <<>>) = times
    BY <1>2, <1>3, FilterNothing DEF Within, Counts
  <2>2. PICK b : b = (IF c \in Kept(dropped) THEN Within(seen[c]) ELSE <<>>)
    OBVIOUS
  <2>3. IsAllowed(c, dropped) = IF Len(b) >= Limit THEN <<FALSE, b>> ELSE <<TRUE, Append(b, now)>>
    BY <2>2 DEF IsAllowed
  <2>4. (Len(b) >= Limit) <=> ~ok
    BY <1>4, <1>n, <2>1, <2>2, RateLimitAssumption
  <2>5. b = times
    BY <2>1, <2>2
  <2>6. QED
    BY ONLY <2>3, <2>4, <2>5
<1>6. IsAllowed(c, dropped)[1] = ok /\ IsAllowed(c, dropped)[2] = IF ok THEN Append(times, now) ELSE times
  <2>1. PICK v, p : v = IsAllowed(c, dropped) /\ p = Append(times, now)
    OBVIOUS
  <2>2. v = IF ok THEN <<TRUE, p>> ELSE <<FALSE, times>>
    BY <1>5, <2>1
  <2>3. CASE ok
    BY <2>1, <2>2, <2>3
  <2>4. CASE ~ok
    <3>1. ok = FALSE
      BY <2>4
    <3>2. v = <<FALSE, times>>
      BY <2>2, <2>4
    <3>3. v[1] = FALSE /\ v[2] = times
      BY <3>2
    <3>4. QED
      BY <2>1, <3>1, <3>3
  <2>5. QED
    BY <2>3, <2>4
<1>7. PICK times1 : times1 = IF ok THEN Append(times, now) ELSE times
  OBVIOUS
<1>8. /\ now' = now /\ Counts' = Counts /\ cleaned' = IF DueCleanup THEN now ELSE cleaned
      /\ DOMAIN seen' = K \cup {c} /\ seen'[c] = times1 /\ \A d \in K \ {c} : seen'[d] = seen[d]
      /\ evicted' = [d \in Callers |-> IF d \in dropped THEN now ELSE evicted[d]]
      /\ granted' = IF ok THEN [granted EXCEPT ![c] = Append(@, now)] ELSE granted
      /\ refused' = IF ok THEN {} ELSE {c}
  BY <1>1, <1>2, <1>6, <1>7 DEF Counts
<1>g. /\ granted \in [Callers -> Seq(0..now)]
      /\ \A d \in Callers \ {c} : granted'[d] = granted[d]
      /\ granted'[c] = IF ok THEN Append(granted[c], now) ELSE granted[c]
  BY <1>8 DEF RateInv
<1>l. /\ times1 \in Seq(0..now) /\ times1 # <<>> /\ Ascending(times1) /\ Len(times1) <= Limit
      /\ Last(times1) + Window > now
  <2>1. CASE ok
    <3>1. times1 = Append(times, now) /\ Len(times) < Limit
      BY <1>4, <1>7, <2>1
    <3>2. Append(times, now) \in Seq(0..now) /\ Append(times, now) # <<>> /\ Ascending(Append(times, now))
          /\ Len(Append(times, now)) = Len(times) + 1 /\ Last(Append(times, now)) = now
      BY <1>n, <1>t, NowLast
    <3>3. QED
      BY <3>1, <3>2, <1>n, <1>t, RateLimitAssumption
  <2>2. CASE ~ok
    <3>1. times1 = times /\ Len(times) >= Limit
      BY <1>4, <1>7, <1>n, <2>2, RateLimitAssumption
    <3>2. Len(times) \in 1..Len(times) /\ times # <<>> /\ Last(times) = times[Len(times)]
      BY <1>n, <3>1, RateLimitAssumption DEF Last
    <3>3. Last(times) \in Counts
      BY <1>n, <3>2
    <3>4. Len(times) <= Limit
      <4>1. CASE c \in K
        <5>1. Entry1(seen[c]) /\ M1(c) = seen[c] /\ M1(c) \in Seq(Nat)
          BY <4>1, <1>k, <1>t, <1>m
        <5>2. PICK m \in Seq(Nat) : m = M1(c)
          BY <5>1
        <5>4. Len(Filter(m, Counts)) <= Len(m)
          BY FilterType
        <5>3. QED
          BY <5>1, <5>2, <5>4, <1>3, <1>n, RateLimitAssumption DEF Entry1
      <4>2. CASE c \notin K
        BY <4>2, <1>3, <3>2, FilterNothing
      <4>3. QED
        BY <4>1, <4>2
    <3>5. QED
      BY <3>1, <3>2, <3>3, <3>4, <1>n DEF Counts
  <2>3. QED
    BY <2>1, <2>2
<1>a. ASSUME NEW d \in Callers
      PROVE  Filter(M1(d), S1(d)) = Filter(granted[d], S1(d))
  <2>1. CASE d \in dropped
    <3>1. DueCleanup /\ d \notin K /\ M1(d) = <<>>
      BY <2>1, <1>2, <1>k DEF Kept
    <3>2. PICK S : S = S1(d)
      OBVIOUS
    <3>3. S \cap 0..now = {}
      BY <1>t, <2>1, <3>2 DEF Counts
    <3>4. ToSet(granted[d]) \subseteq 0..now
      BY <1>t, PastLemma
    <3>5. Filter(granted[d], S) = <<>>
      BY <3>3, <3>4, <1>m, FilterNone
    <3>6. QED
      BY <3>1, <3>2, <3>5, FilterNothing
  <2>2. CASE d \notin dropped
    <3>1. S1(d) = Since(d)
      BY <2>2 DEF Since
    <3>2. Filter(Mine(d), Since(d)) = Filter(granted[d], Since(d))
      BY DEF RateInv
    <3>3. CASE d \in K \/ d \notin DOMAIN seen
      BY <3>1, <3>2, <3>3, <1>k DEF Mine
    <3>4. CASE d \notin K /\ d \in DOMAIN seen
      <4>1. Quiet1(d) /\ Entry1(seen[d])
        BY <3>4, <2>2, <1>2, <1>t DEF Kept
      <4>2. Since(d) \in SUBSET Counts
        BY DEF Since
      <4>3. Filter(seen[d], Since(d)) = <<>>
        BY <4>1, <4>2, QuietLemma DEF Quiet1
      <4>4. QED
        BY <3>1, <3>2, <3>4, <4>3, FilterNothing DEF Mine
    <3>5. QED
      BY <3>3, <3>4
  <2>3. QED
    BY <2>1, <2>2
<1>b. ASSUME NEW d \in Callers, NEW S \in SUBSET Nat
      PROVE  Len(Filter(M1(d), S)) <= Len(Filter(granted[d], S))
  BY <1>k, FilterNothing, <1>m, FilterType DEF RateInv, Mine
<1>c. ASSUME NEW S \in SUBSET Nat
      PROVE  Filter(times1, S) = IF ok /\ now \in S THEN Append(Filter(M1(c), Counts \cap S), now)
                               ELSE Filter(M1(c), Counts \cap S)
  <2>1. Filter(times, S) = Filter(M1(c), Counts \cap S)
    BY <1>m, FilterFilter, <1>3
  <2>2. Filter(Append(times, now), S) = IF now \in S THEN Append(Filter(times, S), now) ELSE Filter(times, S)
    BY <1>t, <1>n, FilterAppend
  <2>3. QED
    BY <1>7, <2>1, <2>2
<1>d. ASSUME NEW S \in SUBSET Nat
      PROVE  Filter(granted'[c], S) = IF ok /\ now \in S THEN Append(Filter(granted[c], S), now)
                                      ELSE Filter(granted[c], S)
  <2>1. PICK g \in Seq(Nat) : g = granted[c]
    BY <1>m
  <2>2. Filter(Append(g, now), S) = IF now \in S THEN Append(Filter(g, S), now) ELSE Filter(g, S)
    BY <1>t, FilterAppend
  <2>3. QED
    BY <1>g, <2>1, <2>2
<1> HIDE DEF S1
<1>9. \A d \in DOMAIN seen' : Entry1(seen[d])'
  BY <1>8, <1>l, <1>t, <1>k DEF Entry1
<1>10. granted' \in [Callers -> Seq(0..now')]
  BY <1>t, AppendFacts, <1>8, <1>g
<1>11. evicted' \in [Callers -> 0..now'] /\ refused' \subseteq Callers /\ cleaned' \in 0..now'
  BY <1>8, <1>t DEF RateInv
<1>12. \A d \in Callers : Since(d)' = S1(d)
  BY <1>8 DEF Since, S1
<1>13. \A d \in Callers : Mine(d)' = IF d = c THEN times1 ELSE M1(d)
  BY <1>8 DEF Mine
<1> HIDE DEF M1
<1>14. ASSUME NEW d \in Callers
       PROVE  Filter(Mine(d)', Since(d)') = Filter(granted'[d], Since(d)')
  <2>1. CASE d # c
    BY <2>1, <1>12, <1>13, <1>a, <1>g
  <2>2. CASE d = c
    <3>1. PICK S : S = S1(c)
      OBVIOUS
    <3>2. S \subseteq Counts /\ S \in SUBSET Nat /\ Counts \cap S = S
      BY <3>1, <1>t DEF S1
    <3>3. Filter(M1(c), S) = Filter(granted[c], S)
      BY <3>1, <1>a
    <3>4. Filter(times1, S) = IF ok /\ now \in S THEN Append(Filter(M1(c), S), now) ELSE Filter(M1(c), S)
      BY <3>2, <1>c
    <3>5. Filter(granted'[c], S) = IF ok /\ now \in S THEN Append(Filter(granted[c], S), now) ELSE Filter(granted[c], S)
      BY <3>2, <1>d
    <3>6. QED
      BY <2>2, <3>1, <3>3, <3>4, <3>5, <1>12, <1>13
  <2>3. QED
    BY <2>1, <2>2
<1>15. ASSUME NEW d \in Callers, NEW S \in SUBSET Nat
       PROVE  Len(Filter(Mine(d)', S)) <= Len(Filter(granted'[d], S))
  <2>1. CASE d # c
    BY <2>1, <1>13, <1>b, <1>g
  <2>2. CASE d = c
    <3>1. PICK m \in Seq(Nat) : m = M1(c)
      BY <1>m
    <3>2. PICK A, B, C : A = Filter(m, Counts \cap S) /\ B = Filter(m, S) /\ C = Filter(granted[c], S)
      OBVIOUS
    <3>3. A \in Seq(Nat) /\ B \in Seq(Nat) /\ C \in Seq(Nat)
      BY <3>1, <3>2, <1>m, FilterType
    <3>4. Len(A) <= Len(B)
      BY <3>2, FilterLess
    <3>5. Len(B) <= Len(C)
      BY <3>1, <3>2, <1>b
    <3>6. Filter(times1, S) = IF ok /\ now \in S THEN Append(A, now) ELSE A
      BY <3>1, <3>2, <1>c
    <3>7. Filter(granted'[c], S) = IF ok /\ now \in S THEN Append(C, now) ELSE C
      BY <3>2, <1>d
    <3>8. Len(Append(A, now)) = Len(A) + 1 /\ Len(Append(C, now)) = Len(C) + 1
      BY <3>3, <1>t, AppendFacts
    <3>9. Len(A) \in Nat /\ Len(B) \in Nat /\ Len(C) \in Nat
      BY <3>3
    <3>10. Len(Filter(times1, S)) <= Len(Filter(granted'[c], S))
      BY <3>4, <3>5, <3>6, <3>7, <3>8, <3>9
    <3>11. QED
      BY <2>2, <3>10, <1>13
  <2>3. QED
    BY <2>1, <2>2
<1>16. ASSUME NEW d \in refused'
       PROVE  Len(Recent(d))' >= Limit
  <2>1. d = c /\ ~ok /\ granted'[c] = granted[c]
    BY <1>8, <1>g, <1>16
  <2>2. Recent(d)' = Filter(granted[c], Counts)
    BY <1>8, <2>1 DEF Recent, Within, Counts
  <2>3. Len(times) <= Len(Filter(granted[c], Counts))
    BY <1>3, <1>b, <1>t
  <2>4. Filter(granted[c], Counts) \in Seq(Nat)
    BY <1>m, FilterType
  <2>5. QED
    BY <2>1, <2>2, <2>3, <2>4, <1>4, <1>n, RateLimitAssumption
<1>17. ASSUME cleaned' = now', NEW d \in DOMAIN seen'
       PROVE  Last(seen'[d]) + Window > now'
  <2>1. CASE d = c
    BY <2>1, <1>8, <1>l
  <2>2. CASE d # c
    <3>1. d \in K /\ seen'[d] = seen[d] /\ Entry1(seen[d])
      BY <2>2, <1>8, <1>k, <1>t
    <3>2. CASE DueCleanup
      <4>1. ~Quiet1(d)
        BY <3>1, <3>2, <1>2 DEF Kept
      <4>2. Latest(seen[d]) = Last(seen[d])
        BY <3>1 DEF Latest, Entry1
      <4>3. seen[d] \in Seq(Nat) /\ seen[d] # <<>>
        BY <3>1, <1>t, PastLemma DEF Entry1
      <4>4. Last(seen[d]) \in Nat
        BY <4>3 DEF Last
      <4>5. QED
        BY <3>1, <4>1, <4>2, <4>4, <1>8, <1>t, RateLimitAssumption DEF Quiet1
    <3>3. CASE ~DueCleanup
      BY <3>1, <3>3, <1>8, <1>17, <1>k DEF RateInv
    <3>4. QED
      BY <3>2, <3>3
  <2>3. QED
    BY <2>1, <2>2
<1>18. now' \in Nat /\ now' >= Window /\ DOMAIN seen' \subseteq Callers
  BY <1>8, <1>t, <1>k DEF RateInv
<1>19. QED
  BY <1>9, <1>10, <1>11, <1>14, <1>15, <1>16, <1>17, <1>18 DEF RateInv

LEMMA RateKept == RateInv /\ RateNext => RateInv'
BY TickKeeps, DispatchKeeps DEF RateNext

-----------------------------------------------------------------------------
\* The services around the entries at work: a step is of one part and leaves the others.

ServicesInv == RateInv /\ CredentialsInv /\ DangerInv

LEMMA ServicesStart == EachInit => ServicesInv
  BY RateStarts, CredentialsStart, DangerStarts DEF EachInit, ServicesInv

LEMMA RateStays == RateInv /\ UNCHANGED rateVars => RateInv'
<1> SUFFICES ASSUME RateInv, UNCHANGED rateVars PROVE RateInv'
  OBVIOUS
<1>1. /\ now' = now /\ seen' = seen /\ cleaned' = cleaned /\ granted' = granted
      /\ evicted' = evicted /\ refused' = refused
  BY DEF rateVars
<1>2. /\ \A c : Mine(c)' = Mine(c) /\ Since(c)' = Since(c) /\ Recent(c)' = Recent(c)
      /\ \A s : Entry1(s)' = Entry1(s)
  BY <1>1 DEF Mine, Since, Counts, Recent, Within, Entry1
<1>3. QED
  BY <1>1, <1>2 DEF RateInv

\* Nobody is let through too often or refused unduly, no credential is lost, no plugin is
\* taken for safe by a verdict on other code (ServicesSound).
THEOREM ServicesHold == EachSpec => []ServicesSound
<1>1. ServicesInv /\ [EachNext]_<<part, vars, agentVars, rateVars, credentialVars, dangerVars>> => ServicesInv'
  <2> SUFFICES ASSUME ServicesInv,
                      [EachNext]_<<part, vars, agentVars, rateVars, credentialVars, dangerVars>>
               PROVE  ServicesInv'
    OBVIOUS
  <2>1. RateNext \/ UNCHANGED rateVars
    BY DEF EachNext, HostPart, AgentPart, RatePart, CredentialsPart, DangerPart
  <2>2. CredentialsNext \/ UNCHANGED credentialVars
    BY DEF EachNext, HostPart, AgentPart, RatePart, CredentialsPart, DangerPart
  <2>3. DangerNext \/ UNCHANGED dangerVars
    BY DEF EachNext, HostPart, AgentPart, RatePart, CredentialsPart, DangerPart
  <2>4. RateInv'
    BY <2>1, RateKept, RateStays DEF ServicesInv
  <2>5. CredentialsInv'
    BY <2>2, CredentialsKept DEF ServicesInv
  <2>6. DangerInv'
    BY <2>3, DangerKept DEF ServicesInv
  <2>7. QED
    BY <2>4, <2>5, <2>6 DEF ServicesInv
<1>2. ServicesInv => ServicesSound
  BY RateImplies, CredentialsImply, DangerImplies DEF ServicesInv, ServicesSound
<1>3. QED
  BY <1>1, <1>2, ServicesStart, PTL DEF EachSpec

-----------------------------------------------------------------------------
\* The agent's loop.  First its frames.

Named == UNION {ToSet(calls) : calls \in Answers}
Ways == {"yes", "off", "safe"}
Events == {"start", "gather", "response", "apply", "complete", "error"}
TalkFrames == [kind: {"talk"}, tools: SUBSET (Builtins \cup Crew), round: 0..MaxRounds, left: Seq(Named),
               asked: Nat, told: Nat]
CallFrames == [kind: {"call"}, of: Named, at: {"start", "handle", "gate", "run", "log"}, did: BOOLEAN,
               logged: BOOLEAN, error: BOOLEAN]
RunFrames == [kind: {"run"}, of: Crew, at: {"start", "body", "chat", "work", "gather", "llm", "apply"},
              events: Seq(Events), pass: Ways, did: BOOLEAN, odd: BOOLEAN]
ChatFrames == [kind: {"chat"}, at: {"gather", "talk", "log", "save", "reply"}, reply: BOOLEAN,
               compiler: BOOLEAN, logged: BOOLEAN, saved: BOOLEAN, replies: {0, 1}]
RouteFrames == [kind: {"route"}, at: {"refine", "collect", "called", "named", "gate", "run", "log"},
                known: SUBSET Crew, todo: Seq(Crew), results: Nat, runs: Nat]
Frames == TalkFrames \cup CallFrames \cup RunFrames \cup ChatFrames \cup RouteFrames

\* What a frame that has not ended has done and noted so far.
TalkGoes(f) == f.kind = "talk" => f.told + Len(f.left) = f.asked
CallGoes(f) == f.kind = "call" =>
  (f.did <=> f.at = "log") /\ ~f.logged /\ ~f.error /\ (f.at = "gate" => f.of \in Crew)
RunGoes(f) == f.kind = "run" =>
  /\ ~f.did /\ ~f.odd /\ (Trait[f.of].dangerous => f.pass \in {"yes", "off"})
  /\ IF f.at = "start" THEN f.events = <<>> ELSE f.events # <<>> /\ f.events[1] = "start"
  /\ f.at \in {"body", "chat", "work"} => Trait[f.of].plugin /\ Len(f.events) = 1
  /\ f.at \in {"gather", "llm", "apply"} => ~Trait[f.of].plugin
ChatGoes(f) == f.kind = "chat" =>
  /\ f.replies = 0 /\ (f.saved <=> f.at = "reply") /\ (f.logged <=> f.at \in {"save", "reply"})
Goes1(f) == TalkGoes(f) /\ CallGoes(f) /\ RunGoes(f) /\ ChatGoes(f)

\* Which frame may be waiting for which: one of that kind, and where it waits.
Waits1(f, kind) ==
  \/ f.kind = "talk" /\ f.left # <<>> /\ kind = "call"
  \/ f.kind = "call" /\ f.at = "run" /\ kind = "run"
  \/ f.kind = "run" /\ f.at = "chat" /\ kind = "chat"
  \/ f.kind = "run" /\ f.at = "llm" /\ kind = "talk"
  \/ f.kind = "chat" /\ f.at = "talk" /\ kind = "talk"
  \/ f.kind = "route" /\ f.at \in {"refine", "called", "named"} /\ kind = "talk"
  \/ f.kind = "route" /\ f.at = "run" /\ kind = "run"

\* What may be left of a frame that ended with out when these had raised.
EndsWell(f, out, who) ==
  /\ f.kind \in {"talk", "call"} => out = "ok" \/ (out = "raised" /\ who # {})
  /\ f.kind = "call" /\ out = "ok" => /\ f.did => f.logged # f.error
                                      /\ f.logged => f.did
                                      /\ ~f.error => f.did
  /\ f.kind = "run" =>
       LET n == Len(f.events)
           end == f.events[n] IN
       /\ f.events # <<>> /\ f.events[1] = "start"
       /\ out = "ok" <=> end = "complete"
       /\ ~Trait[f.of].plugin => (out # "ok" <=> end = "error") /\ (f.did => out = "ok")
       /\ Trait[f.of].plugin /\ end = "start" => f.odd \/ ~f.did
  /\ f.kind = "chat" =>
       /\ out = "ok" => f.logged /\ f.saved
       /\ f.replies > 0 => f.saved /\ f.replies = 1 /\ f.reply
       /\ out = "raised" /\ f.saved => f.compiler
  /\ f.kind = "route" => out = "ok"

\* The frames fit each other, from the innermost out; what came back came from one for
\* which the innermost was waiting; what ended last ended well.
StackInv ==
  /\ stack \in Seq(Frames) /\ there \subseteq Crew
  /\ \A i \in 1..Len(stack) : Goes1(stack[i])
  /\ \A i \in 1..(Len(stack) - 1) : Waits1(stack[i + 1], stack[i].kind)
  /\ back # "none" => stack # <<>> /\ Waits1(stack[1], last.kind) /\ how = back
EndInv == last = NoFrame \/ (last \in Frames /\ EndsWell(last, how, faults))

\* A run that finished and has not been counted among the results of its routing: what
\* called it has yet to say so.
Due == LET n == Len(stack) IN
       IF \/ n = 1 /\ stack[1].kind = "route" /\ stack[1].at = "run" /\ back = "ok"
          \/ n = 2 /\ stack[1].kind = "talk" /\ back = "ok"
          \/ n = 3 /\ stack[1].kind = "call" /\ (stack[1].at = "log" \/ (stack[1].at = "run" /\ back = "ok"))
       THEN 1 ELSE 0
Reports(f) == f.kind = "route" => f.runs <= f.results + Due
ReportInv == /\ stack # <<>> => Reports(stack[Len(stack)])
             /\ last.kind = "route" => last.results >= last.runs
AgentInv == StackInv /\ EndInv /\ ReportInv

-----------------------------------------------------------------------------
\* The stack.

LEMMA TopReplaced ==
  ASSUME NEW X, NEW s \in Seq(X), s # <<>>, NEW f \in X
  PROVE  /\ <<f>> \o Tail(s) \in Seq(X) /\ Len(<<f>> \o Tail(s)) = Len(s)
         /\ (<<f>> \o Tail(s))[1] = f /\ \A i \in 2..Len(s) : (<<f>> \o Tail(s))[i] = s[i]
BY ConcatProperties, EmptySeq

LEMMA TopPushed ==
  ASSUME NEW X, NEW s \in Seq(X), s # <<>>, NEW f \in X, NEW g \in X
  PROVE  /\ <<f, g>> \o Tail(s) \in Seq(X) /\ Len(<<f, g>> \o Tail(s)) = Len(s) + 1
         /\ (<<f, g>> \o Tail(s))[1] = f /\ (<<f, g>> \o Tail(s))[2] = g
         /\ \A i \in 3..(Len(s) + 1) : (<<f, g>> \o Tail(s))[i] = s[i - 1]
BY ConcatProperties, EmptySeq

\* Frames of different kinds are different records.
LEMMA KindsOfFrames ==
  ASSUME NEW f \in Frames
  PROVE  /\ f.kind \in {"talk", "call", "run", "chat", "route"}
         /\ f.kind = "talk" => f \in TalkFrames
         /\ f.kind = "call" => f \in CallFrames
         /\ f.kind = "run" => f \in RunFrames
         /\ f.kind = "chat" => f \in ChatFrames
         /\ f.kind = "route" => f \in RouteFrames
BY DEF Frames, TalkFrames, CallFrames, RunFrames, ChatFrames, RouteFrames

\* Faults are only added.
LEMMA EndsStays ==
  ASSUME NEW f, NEW out, NEW who, NEW more, who \subseteq more, EndsWell(f, out, who)
  PROVE  EndsWell(f, out, more)
BY DEF EndsWell

\* Only the outermost frame is a routing.
LEMMA RouteIsLast ==
  ASSUME StackInv, NEW i \in 1..Len(stack), stack[i].kind = "route"
  PROVE  i = Len(stack)
BY DEF StackInv, Waits1

\* What counting a run does to the stack.
LEMMA CountedIs ==
  ASSUME StackInv, stack # <<>>
  PROVE  /\ Counted(stack) \in Seq(Frames) /\ Len(Counted(stack)) = Len(stack)
         /\ \A i \in 1..Len(stack) :
              /\ Counted(stack)[i].kind = stack[i].kind
              /\ \A k : Waits1(stack[i], k) => Waits1(Counted(stack)[i], k)
              /\ Goes1(Counted(stack)[i])
              /\ stack[i].kind # "route" => Counted(stack)[i] = stack[i]
              /\ stack[i].kind = "route" =>
                   /\ Counted(stack)[i].results = stack[i].results
                   /\ Counted(stack)[i].runs =
                        IF Top.kind = "run" /\ i \in 2..4 THEN stack[i].runs + 1 ELSE stack[i].runs
<1>1. stack \in Seq(Frames) /\ Len(stack) \in Nat /\ DOMAIN stack = 1..Len(stack) /\ 1 \in 1..Len(stack)
  BY DEF StackInv
<1>2. \A i \in 1..Len(stack) : stack[i] \in Frames /\ Goes1(stack[i])
  BY <1>1 DEF StackInv
<1>3. CASE Top.kind = "run" /\ Routing # {}
  <2>1. PICK i \in Routing : Counted(stack) = [stack EXCEPT ![i].runs = @ + 1]
    BY <1>3 DEF Counted
  <2>2. i \in 2..Len(stack) /\ i <= 4 /\ stack[i].kind = "route" /\ i \in 1..Len(stack) /\ i \in 2..4
    BY <1>1 DEF Routing
  <2>3. PICK f : f = [stack[i] EXCEPT !.runs = @ + 1]
    OBVIOUS
  <2>4. stack[i] \in RouteFrames
    BY <1>2, <2>2, KindsOfFrames
  <2>5. /\ f \in RouteFrames /\ f.kind = "route" /\ f.at = stack[i].at /\ f.results = stack[i].results
        /\ f.runs = stack[i].runs + 1
    BY <2>3, <2>4 DEF RouteFrames
  <2>6. f \in Frames /\ Goes1(f) /\ \A k : Waits1(stack[i], k) => Waits1(f, k)
    BY <2>2, <2>5 DEF Frames, Goes1, TalkGoes, CallGoes, RunGoes, ChatGoes, Waits1
  <2>7. Counted(stack) = [stack EXCEPT ![i] = f]
    BY <2>1, <2>3
  <2>8. PICK s : s = Counted(stack)
    OBVIOUS
  <2>9. s \in Seq(Frames) /\ Len(s) = Len(stack) /\ s[i] = f /\ \A j \in 1..Len(stack) : j # i => s[j] = stack[j]
    BY <1>1, <2>2, <2>6, <2>7, <2>8
  <2>10. \A j \in 1..Len(stack) : stack[j].kind = "route" => j = i
    BY <2>2, RouteIsLast
  <2>11. QED
    BY <1>2, <1>3, <2>2, <2>5, <2>6, <2>8, <2>9, <2>10
<1>4. CASE ~(Top.kind = "run" /\ Routing # {})
  BY <1>4, <1>1, <1>2 DEF Counted, Routing
<1>5. QED
  BY <1>3, <1>4

\* What the innermost frame is waiting for when it is not alone, and what the stack holds.
LEMMA StackFacts ==
  ASSUME StackInv, stack # <<>>
  PROVE  /\ Len(stack) \in Nat /\ Len(stack) >= 1 /\ DOMAIN stack = 1..Len(stack)
         /\ \A i \in 1..Len(stack) : stack[i] \in Frames /\ Goes1(stack[i])
         /\ Top \in Frames /\ Goes1(Top)
BY EmptySeq DEF StackInv, Top

-----------------------------------------------------------------------------
\* The three things a step does to the stack.

Bottom == stack[Len(stack)]

\* The innermost frame goes on.
LEMMA GoesOn ==
  ASSUME AgentInv, stack # <<>>, Same, faults \subseteq faults', NEW f \in Frames, Goes1(f),
         f.kind = Top.kind, Becomes1(f),
         f.kind = "route" => f.runs = Top.runs /\ f.results >= Top.results + Due,
         f.kind # "route" => Due = 0 \/ Bottom.kind # "route" \/ (f.kind = "call" /\ f.at = "log")
  PROVE  AgentInv'
<1>1. StackInv /\ stack \in Seq(Frames) /\ Len(stack) \in Nat /\ Len(stack) >= 1
      /\ \A i \in 1..Len(stack) : stack[i] \in Frames /\ Goes1(stack[i])
  BY StackFacts DEF AgentInv, StackInv
<1>2. /\ stack' \in Seq(Frames) /\ Len(stack') = Len(stack) /\ stack'[1] = f
      /\ \A i \in 2..Len(stack) : stack'[i] = stack[i]
  BY <1>1, TopReplaced DEF Becomes1
<1>3. /\ back' = "none" /\ last' = last /\ how' = how /\ there' = there
  BY DEF Becomes1, Same
<1>4. StackInv'
  <2>1. \A i \in 1..Len(stack') : Goes1(stack'[i])
    BY <1>1, <1>2
  <2>2. \A i \in 1..(Len(stack') - 1) : stack'[i].kind = stack[i].kind /\ stack'[i + 1] = stack[i + 1]
    BY <1>1, <1>2 DEF Top
  <2>3. \A i \in 1..(Len(stack') - 1) : Waits1(stack'[i + 1], stack'[i].kind)
    BY <1>1, <1>2, <2>2 DEF StackInv
  <2>4. QED
    BY <1>1, <1>2, <1>3, <2>1, <2>3 DEF StackInv, Goes1, TalkGoes, CallGoes, RunGoes, ChatGoes, Waits1,
       Frames, TalkFrames, CallFrames, RunFrames, ChatFrames, RouteFrames, Named, Ways
<1>5. EndInv'
  BY <1>3, EndsStays DEF AgentInv, EndInv, EndsWell, Frames, TalkFrames, CallFrames, RunFrames, ChatFrames, RouteFrames,
     Named, Ways, Events
<1>6. PICK b : b = stack'[Len(stack')]
  OBVIOUS
<1>7. b.kind = "route" => b.runs <= b.results + Due'
  <2>1. Due' \in {0, 1} /\ Due \in {0, 1}
    BY DEF Due
  <2>2. CASE Len(stack) = 1
    <3>1. f.kind = "route" => f \in RouteFrames /\ Top \in RouteFrames
      BY KindsOfFrames, StackFacts, <1>1
    <3>2. f.kind = "route" => Top.runs <= Top.results + Due
      BY <1>1, <2>2 DEF AgentInv, ReportInv, Reports, Top
    <3>3. f.kind = "route" => f.runs <= f.results
      BY <2>1, <3>1, <3>2 DEF RouteFrames
    <3>4. f.kind = "route" => f.runs <= f.results + Due'
      BY <2>1, <3>1, <3>3 DEF RouteFrames
    <3>5. b = f
      BY <1>2, <1>6, <2>2
    <3>6. QED
      BY <3>4, <3>5
  <2>3. CASE Len(stack) > 1
    <3>1. b = Bottom
      BY <1>1, <1>2, <1>6, <2>3 DEF Bottom
    <3>2. f.kind # "route"
      BY <1>1, <2>3, RouteIsLast DEF Top
    <3>3. Bottom.kind = "route" => Bottom \in RouteFrames /\ Bottom.runs <= Bottom.results + Due
      BY <1>1, KindsOfFrames DEF AgentInv, ReportInv, Reports, Bottom
    <3>4. Bottom.kind = "route" /\ Due = 1 => Due' = 1
      BY <1>1, <1>2, <3>2 DEF Due, Top
    <3>5. Bottom.kind = "route" => Bottom.runs <= Bottom.results + Due'
      BY <2>1, <3>3, <3>4 DEF RouteFrames
    <3>6. QED
      BY <3>1, <3>5
  <2>4. PICK n : n = Len(stack) /\ n \in Nat /\ n >= 1
    BY <1>1
  <2>5. n = 1 \/ n > 1
    BY <2>4
  <2>6. QED
    BY <2>2, <2>3, <2>4, <2>5
<1>8. Reports(stack[Len(stack)])'
  BY <1>6, <1>7 DEF Reports
<1>9. QED
  BY <1>3, <1>4, <1>5, <1>8 DEF AgentInv, ReportInv

\* The innermost frame calls another and waits for it.
LEMMA CallsAnother ==
  ASSUME AgentInv, stack # <<>>, Same, faults \subseteq faults', NEW f \in Frames, Goes1(f),
         NEW under \in Frames, Goes1(under), under.kind = Top.kind, Pushes(f, under), Waits1(under, f.kind),
         under.kind = "route" => under.runs = Top.runs /\ under.results = Top.results,
         Due = 0 \/ Bottom.kind # "route"
  PROVE  AgentInv'
<1>1. StackInv /\ stack \in Seq(Frames) /\ Len(stack) \in Nat /\ Len(stack) >= 1
      /\ \A i \in 1..Len(stack) : stack[i] \in Frames /\ Goes1(stack[i])
  BY StackFacts DEF AgentInv, StackInv
<1>2. /\ stack' \in Seq(Frames) /\ Len(stack') = Len(stack) + 1 /\ stack'[1] = f /\ stack'[2] = under
      /\ \A i \in 3..(Len(stack) + 1) : stack'[i] = stack[i - 1]
  BY <1>1, TopPushed DEF Pushes
<1>3. /\ back' = "none" /\ last' = last /\ how' = how /\ there' = there
  BY DEF Pushes, Same
<1>4. StackInv'
  <2>1. \A i \in 1..Len(stack') : Goes1(stack'[i])
    BY <1>1, <1>2
  <2>2. ASSUME NEW i \in 1..(Len(stack') - 1)
        PROVE  Waits1(stack'[i + 1], stack'[i].kind)
    <3>1. CASE i = 1
      BY <1>2, <3>1
    <3>2. CASE i = 2
      <4>1. 1 \in 1..(Len(stack) - 1) /\ stack'[3] = stack[2] /\ stack'[2].kind = stack[1].kind
        BY <1>1, <1>2, <2>2, <3>2 DEF Top
      <4>2. Waits1(stack[2], stack[1].kind)
        BY <1>1, <4>1 DEF StackInv
      <4>3. QED
        BY <3>2, <4>1, <4>2
    <3>3. CASE i > 2
      <4>1. i - 1 \in 1..(Len(stack) - 1) /\ stack'[i + 1] = stack[(i - 1) + 1] /\ stack'[i] = stack[i - 1]
        BY <1>1, <1>2, <2>2, <3>3
      <4>2. Waits1(stack[(i - 1) + 1], stack[i - 1].kind)
        BY <1>1, <4>1 DEF StackInv
      <4>3. QED
        BY <4>1, <4>2
    <3>4. QED
      BY <1>1, <1>2, <3>1, <3>2, <3>3
  <2>3. QED
    BY <1>1, <1>2, <1>3, <2>1, <2>2 DEF StackInv, Goes1, TalkGoes, CallGoes, RunGoes, ChatGoes, Waits1,
       Frames, TalkFrames, CallFrames, RunFrames, ChatFrames, RouteFrames, Named, Ways
<1>5. EndInv'
  BY <1>3, EndsStays DEF AgentInv, EndInv, EndsWell, Frames, TalkFrames, CallFrames, RunFrames, ChatFrames, RouteFrames,
     Named, Ways, Events
<1>6. Reports(stack[Len(stack)])'
  <2>1. PICK b : b = stack'[Len(stack')]
    OBVIOUS
  <2>2. /\ b.kind = Bottom.kind
        /\ b.kind = "route" => b.runs = Bottom.runs /\ b.results = Bottom.results /\ b \in RouteFrames
    BY <1>1, <1>2, <2>1, KindsOfFrames DEF Bottom, Top
  <2>3. b.kind = "route" => b.runs <= b.results + Due /\ Due = 0
    BY <1>1, <2>2 DEF AgentInv, ReportInv, Reports, Bottom
  <2>4. Due' \in {0, 1}
    BY DEF Due
  <2>5. b.kind = "route" => b.runs <= b.results + Due'
    BY <2>2, <2>3, <2>4 DEF RouteFrames
  <2>6. QED
    BY <2>1, <2>5 DEF Reports
<1>7. QED
  BY <1>3, <1>4, <1>5, <1>6 DEF AgentInv, ReportInv


\* The innermost frame ends.
LEMMA FrameEnds ==
  ASSUME AgentInv, stack # <<>>, Same, faults \subseteq faults', NEW f \in Frames, f.kind = Top.kind,
         NEW out, out # "none", Closes(f, out), EndsWell(f, out, faults'),
         f.kind = "route" => f.results >= f.runs,
         Due = 0 \/ Bottom.kind # "route" \/ (f.kind = "call" /\ out = "ok")
  PROVE  AgentInv'
<1>1. StackInv /\ stack \in Seq(Frames) /\ Len(stack) \in Nat /\ Len(stack) >= 1
      /\ \A i \in 1..Len(stack) : stack[i] \in Frames /\ Goes1(stack[i])
  BY StackFacts DEF AgentInv, StackInv
<1>2. PICK n : n = Len(stack) /\ n \in Nat /\ n >= 1
  BY <1>1
<1>3. PICK more : more = IF out = "ok" /\ Top.kind = "run" /\ n \in 2..4 THEN 1 ELSE 0
  OBVIOUS
<1>4. PICK s : s = IF out = "ok" THEN Counted(stack) ELSE stack
  OBVIOUS
<1>5. /\ s \in Seq(Frames) /\ Len(s) = n
      /\ \A i \in 1..n : s[i].kind = stack[i].kind /\ Goes1(s[i])
      /\ \A i \in 1..n : \A k : Waits1(stack[i], k) => Waits1(s[i], k)
      /\ s[n].kind = "route" => s[n].results = stack[n].results /\ s[n].runs = stack[n].runs + more
  <2>1. CASE out = "ok"
    <3>1. s = Counted(stack)
      BY <1>4, <2>1
    <3>2. /\ s \in Seq(Frames) /\ Len(s) = n
          /\ \A i \in 1..n :
              /\ s[i].kind = stack[i].kind
              /\ \A k : Waits1(stack[i], k) => Waits1(s[i], k)
              /\ Goes1(s[i])
              /\ stack[i].kind = "route" =>
                   /\ s[i].results = stack[i].results
                   /\ s[i].runs = IF Top.kind = "run" /\ i \in 2..4 THEN stack[i].runs + 1 ELSE stack[i].runs
      BY <1>1, <1>2, <3>1, CountedIs
    <3>3. n \in 1..n
      BY <1>2
    <3>4. stack[n].kind = "route" => stack[n].runs \in Nat
      BY <1>1, <1>2, <3>3, KindsOfFrames DEF RouteFrames
    <3>5. stack[n].kind = "route" => s[n].results = stack[n].results /\ s[n].runs = stack[n].runs + more
      BY <1>3, <2>1, <3>2, <3>3, <3>4
    <3>6. QED
      BY <3>2, <3>3, <3>5
  <2>2. CASE out # "ok"
    BY <1>3, <1>4, <2>2, <1>2, <1>1, KindsOfFrames DEF RouteFrames
  <2>3. QED
    BY <2>1, <2>2
<1>6. /\ stack' = Tail(s) /\ last' = f /\ how' = out /\ there' = there
      /\ back' = IF n = 1 THEN "none" ELSE out
  BY <1>2, <1>4 DEF Closes, Same
<1>7. /\ stack' \in Seq(Frames) /\ Len(stack') = n - 1
      /\ \A i \in 1..(n - 1) : stack'[i] = s[i + 1]
  BY <1>2, <1>5, <1>6, EmptySeq
<1>8. StackInv'
  <2>1. \A i \in 1..Len(stack') : Goes1(stack'[i])
    BY <1>2, <1>5, <1>7
  <2>2. ASSUME NEW i \in 1..(n - 1)
        PROVE  Waits1(s[i + 1], s[i].kind)
    <3>1. Waits1(stack[i + 1], stack[i].kind)
      BY <1>1, <1>2 DEF StackInv
    <3>2. i \in 1..n /\ i + 1 \in 1..n
      BY <1>2
    <3>3. QED
      BY <1>5, <3>1, <3>2
  <2>3. ASSUME NEW i \in 1..(Len(stack') - 1)
        PROVE  Waits1(stack'[i + 1], stack'[i].kind)
    <3>1. i + 1 \in 1..(n - 1) /\ i \in 1..(n - 1) /\ stack'[i] = s[i + 1] /\ stack'[i + 1] = s[(i + 1) + 1]
      BY <1>2, <1>7
    <3>2. QED
      BY <2>2, <3>1
  <2>4. ASSUME back' # "none"
        PROVE  stack' # <<>> /\ Waits1(stack'[1], last'.kind) /\ how' = back'
    <3>1. n > 1 /\ 1 \in 1..(n - 1)
      BY <1>2, <1>6, <2>4
    <3>2. Waits1(s[2], s[1].kind) /\ stack'[1] = s[2] /\ s[1].kind = f.kind
      BY <1>2, <1>5, <1>7, <2>2, <3>1 DEF Top
    <3>3. stack' # <<>>
      BY <1>7, <3>1
    <3>4. QED
      BY <1>6, <3>1, <3>2, <3>3
  <2>5. there' \subseteq Crew
    BY <1>1, <1>6 DEF StackInv
  <2>6. QED
    BY <1>7, <2>1, <2>3, <2>4, <2>5 DEF StackInv, Goes1, TalkGoes, CallGoes, RunGoes, ChatGoes, Waits1,
       Frames, TalkFrames, CallFrames, RunFrames, ChatFrames, RouteFrames, Named, Ways
<1>9. EndInv'
  BY <1>6 DEF EndInv, EndsWell, Frames, TalkFrames, CallFrames, RunFrames, ChatFrames, RouteFrames,
     Named, Ways, Events
<1>10. CASE n = 1
  BY <1>7, <1>10, EmptySeq, <1>6, <1>8, <1>9 DEF ReportInv, AgentInv
<1>11. CASE n > 1
  <2>1. PICK b : b = s[n]
    OBVIOUS
  <2>2. b = stack'[Len(stack')] /\ b.kind = Bottom.kind
    BY <1>2, <1>5, <1>7, <1>11, <2>1 DEF Bottom
  <2>3. Due' \in {0, 1} /\ Due \in {0, 1} /\ more \in {0, 1}
    BY <1>3 DEF Due
  <2>4. ASSUME b.kind = "route"
        PROVE  b.runs <= b.results + Due'
    <3>1. /\ Bottom \in RouteFrames /\ Bottom.runs <= Bottom.results + Due
          /\ b.results = Bottom.results /\ b.runs = Bottom.runs + more
      <4>1. n \in 1..Len(stack) /\ Bottom = stack[n] /\ stack[n].kind = "route" /\ s[n].kind = "route"
        BY <1>2, <2>1, <2>2, <2>4 DEF Bottom
      <4>2. Bottom \in RouteFrames
        BY <1>1, <4>1, KindsOfFrames
      <4>3. Reports(Bottom)
        BY DEF AgentInv, ReportInv, Bottom
      <4>4. QED
        BY <1>5, <2>1, <4>1, <4>2, <4>3 DEF Reports
    <3>2. more = 0 \/ Due = 0
      BY <1>2, <1>3, <1>11 DEF Due, Top
    <3>3. stack'[1] = s[2] /\ s[2].kind = stack[2].kind /\ Waits1(s[2], Top.kind) /\ Waits1(stack[2], Top.kind)
          /\ 2 \in 1..n /\ back' = out
      <4>1. 1 \in 1..(Len(stack) - 1) /\ 2 \in 1..n /\ 1 + 1 = 2 /\ 1 \in 1..(n - 1)
        BY <1>2, <1>11
      <4>2. Waits1(stack[2], stack[1].kind)
        BY <1>1, <4>1 DEF StackInv
      <4>3. QED
        BY <1>5, <1>6, <1>7, <1>11, <4>1, <4>2 DEF Top
    <3>4. ASSUME more = 1
          PROVE  Due' = 1
      <4>1. out = "ok" /\ Top.kind = "run" /\ n \in 2..4
        BY <1>3, <3>4
      <4>2. CASE n = 2
        BY <1>7, <2>1, <2>4, <3>3, <4>1, <4>2 DEF Waits1, Due
      <4>3. CASE n # 2
        <5>1. stack[2].kind # "route"
          BY <1>1, <1>2, <3>3, <4>3, RouteIsLast
        <5>2. stack[2].kind = "call" /\ s[2].kind = "call" /\ s[2].at = "run"
          BY <3>3, <4>1, <5>1 DEF Waits1
        <5>3. Waits1(stack[3], "call") /\ stack[3].kind = "talk"
          BY <1>2, <4>1, <4>3, <1>1, <5>2 DEF StackInv, Waits1
        <5>4. n = 4
          <6>1. n # 3
            BY <1>2, <2>2, <2>4, <5>3 DEF Bottom
          <6>2. QED
            BY <4>1, <4>3, <6>1
        <5>5. QED
          BY <1>7, <3>3, <4>1, <5>2, <5>4 DEF Due
      <4>4. QED
        BY <4>2, <4>3
    <3>5. ASSUME Due = 1
          PROVE  Due' = 1
      BY <2>2, <2>4, <3>5, <1>2, <3>3, <1>7 DEF Due, Top, Waits1
    <3>6. QED
      BY <2>3, <3>1, <3>2, <3>4, <3>5 DEF RouteFrames
  <2>5. Reports(stack[Len(stack)])'
    BY <2>2, <2>4 DEF Reports
  <2>6. last'.kind = "route" => last'.results >= last'.runs
    BY <1>6
  <2>7. QED
    BY <1>8, <1>9, <2>5, <2>6 DEF AgentInv, ReportInv
<1>12. n = 1 \/ n > 1
  BY <1>2
<1>13. QED
  BY <1>10, <1>11, <1>12


-----------------------------------------------------------------------------
\* The tool loop.

\* What a step finds on top.
LEMMA OnTop ==
  ASSUME AgentInv, stack # <<>>
  PROVE  /\ Top \in Frames /\ Goes1(Top) /\ Len(stack) \in Nat /\ Len(stack) >= 1 /\ Top = stack[1]
         /\ Top.kind = "route" => Len(stack) = 1 /\ Bottom = Top /\ Top.runs <= Top.results + Due
         /\ back # "none" => Waits1(Top, last.kind) /\ how = back
<1>1. StackInv
  BY DEF AgentInv
<1>2. Top \in Frames /\ Goes1(Top) /\ Len(stack) \in Nat /\ Len(stack) >= 1 /\ Top = stack[1]
  BY <1>1, StackFacts DEF Top
<1>3. ASSUME Top.kind = "route"
      PROVE  Len(stack) = 1 /\ Bottom = Top /\ Top.runs <= Top.results + Due
  <2>1. Len(stack) = 1
    BY <1>1, <1>2, <1>3, RouteIsLast
  <2>2. QED
    BY <1>2, <1>3, <2>1 DEF AgentInv, ReportInv, Reports, Bottom
<1>4. back # "none" => Waits1(Top, last.kind) /\ how = back
  BY <1>1 DEF StackInv, Top
<1>5. QED
  BY <1>2, <1>3, <1>4

LEMMA TalkFacts ==
  ASSUME NEW tools \in SUBSET (Builtins \cup Crew)
  PROVE  Talk(tools) \in Frames /\ Goes1(Talk(tools)) /\ Talk(tools).kind = "talk"
<1>1. PICK f : f = Talk(tools)
  OBVIOUS
<1>2. f = [kind |-> "talk", tools |-> tools, round |-> 0, left |-> <<>>, asked |-> 0, told |-> 0]
  BY <1>1 DEF Talk
<1>3. f \in TalkFrames /\ f.kind = "talk" /\ f.told + Len(f.left) = f.asked
  BY <1>2, AgentAssumption DEF TalkFrames
<1>4. QED
  BY <1>1, <1>3 DEF Frames, Goes1, TalkGoes, CallGoes, RunGoes, ChatGoes

LEMMA AnswersNamed ==
  ASSUME NEW calls \in Answers
  PROVE  calls \in Seq(Named)
BY AgentAssumption DEF Named

LEMMA CompletionStep ==
  ASSUME AgentInv, Completion
  PROVE  AgentInv'
<1>1. stack # <<>> /\ Top.kind = "talk" /\ Top.left = <<>> /\ back = "none" /\ Same /\ faults' = faults
  BY DEF Completion, Listens, Talks, NoFault
<1>2. /\ Top \in Frames /\ Top \in TalkFrames /\ Due = 0
      /\ Goes1(Top)
  BY <1>1, OnTop, KindsOfFrames DEF Due, Top
<1>3. CASE Closes(Top, "ok")
  BY <1>1, <1>2, <1>3, FrameEnds DEF EndsWell
<1>4. ASSUME Top.round < MaxRounds, NEW calls \in Answers,
             Becomes1([Top EXCEPT !.round = @ + 1, !.left = calls, !.asked = Len(calls), !.told = 0])
      PROVE  AgentInv'
  <2>1. PICK f : f = [Top EXCEPT !.round = @ + 1, !.left = calls, !.asked = Len(calls), !.told = 0]
    OBVIOUS
  <2>2. calls \in Seq(Named) /\ Len(calls) \in Nat
    BY AnswersNamed
  <2>3. PICK t, n : t = Top.round + 1 /\ n = Len(calls) /\ t \in 0..MaxRounds /\ n \in Nat
    BY <1>2, <1>4, <2>2, AgentAssumption DEF TalkFrames
  <2>4. f = [Top EXCEPT !.round = t, !.left = calls, !.asked = n, !.told = 0]
    BY <1>2, <2>1, <2>3 DEF TalkFrames
  <2>5. f \in TalkFrames /\ f.kind = "talk" /\ f.told = 0 /\ f.left = calls /\ f.asked = n
    BY <1>2, <2>2, <2>3, <2>4 DEF TalkFrames
  <2>6. f.told + Len(f.left) = f.asked
    BY <2>3, <2>5
  <2>7. f \in Frames /\ Goes1(f)
    BY <2>5, <2>6 DEF Frames, Goes1, TalkGoes, CallGoes, RunGoes, ChatGoes
  <2>8. Becomes1(f)
    BY <1>4, <2>1
  <2>9. QED
    BY <1>1, <1>2, <2>5, <2>7, <2>8, GoesOn
<1>5. QED
  BY <1>3, <1>4 DEF Completion

LEMMA CompletionRaisesStep ==
  ASSUME AgentInv, CompletionRaises
  PROVE  AgentInv'
<1>1. /\ stack # <<>> /\ Top.kind = "talk" /\ back = "none" /\ Same /\ faults' = faults \cup {"llm"}
      /\ Closes(Top, "raised")
  BY DEF CompletionRaises, Listens, Talks, Raises1
<1>2. Top \in Frames /\ Due = 0
  BY <1>1, OnTop DEF Due, Top
<1>3. EndsWell(Top, "raised", faults')
  BY <1>1 DEF EndsWell
<1>4. QED
  BY <1>1, <1>2, <1>3, FrameEnds

LEMMA CallsStep ==
  ASSUME AgentInv, Calls1
  PROVE  AgentInv'
<1>1. /\ stack # <<>> /\ Top.kind = "talk" /\ Top.left # <<>> /\ back = "none" /\ Same /\ faults' = faults
      /\ Pushes(Call(Head(Top.left)), Top)
  BY DEF Calls1, Talks, NoFault
<1>2. Top \in Frames /\ Top \in TalkFrames /\ Due = 0 /\ Goes1(Top)
  BY <1>1, OnTop, KindsOfFrames DEF Due, Top
<1>3. PICK e, f : e = Head(Top.left) /\ f = Call(e)
  OBVIOUS
<1>4. e \in Named
  BY <1>1, <1>2, <1>3 DEF TalkFrames
<1>5. f \in CallFrames /\ f.kind = "call" /\ ~f.did /\ ~f.logged /\ ~f.error /\ f.at = "start"
  BY <1>3, <1>4 DEF Call, CallFrames
<1>6. f \in Frames /\ Goes1(f)
  BY <1>5 DEF Frames, Goes1, TalkGoes, CallGoes, RunGoes, ChatGoes
<1>7. Waits1(Top, f.kind)
  BY <1>1, <1>5 DEF Waits1
<1>8. QED
  BY <1>1, <1>2, <1>3, <1>5, <1>6, <1>7, CallsAnother

LEMMA ToldStep ==
  ASSUME AgentInv, Told
  PROVE  AgentInv'
<1>1. stack # <<>> /\ Top.kind = "talk" /\ back # "none" /\ Same /\ faults' = faults
  BY DEF Told, Talks, NoFault
<1>2. /\ Top \in Frames /\ Top \in TalkFrames /\ Goes1(Top) /\ Waits1(Top, last.kind) /\ how = back
      /\ Len(stack) \in Nat /\ Len(stack) >= 1 /\ Top = stack[1] /\ stack \in Seq(Frames)
  BY <1>1, OnTop, KindsOfFrames DEF AgentInv, StackInv
<1>3. Top.left # <<>> /\ last.kind = "call"
  BY <1>1, <1>2 DEF Waits1
<1>4. CASE back = "ok"
  <2>1. PICK f : f = [Top EXCEPT !.left = Tail(@), !.told = @ + 1]
    OBVIOUS
  <2>2. PICK q : q = Top.left /\ q \in Seq(Named) /\ q # <<>>
    BY <1>2, <1>3 DEF TalkFrames
  <2>3. PICK rest : rest = Tail(q) /\ rest \in Seq(Named) /\ Len(rest) = Len(q) - 1
    BY <2>2, HeadTailProperties
  <2>4. PICK t : t = Top.told + 1 /\ t \in Nat
    BY <1>2 DEF TalkFrames
  <2>5. f = [Top EXCEPT !.left = rest, !.told = t]
    BY <2>1, <2>2, <2>3, <2>4
  <2>6. Top.told + Len(Top.left) = Top.asked /\ Len(Top.left) \in Nat
    BY <1>1, <1>2 DEF Goes1, TalkGoes, TalkFrames
  <2>7. f \in TalkFrames /\ f.kind = "talk" /\ f.told = Top.told + 1 /\ f.left = rest /\ f.asked = Top.asked
    BY <1>2, <2>5, <2>3, <2>4 DEF TalkFrames
  <2>8. f.told + Len(f.left) = f.asked
    BY <1>2, <2>6, <2>7, <2>2, <2>3 DEF TalkFrames
  <2>9. f \in Frames /\ Goes1(f)
    BY <2>7, <2>8 DEF Frames, Goes1, TalkGoes, CallGoes, RunGoes, ChatGoes
  <2>10. CASE ~(Len(stack) > 1 /\ stack[2].kind = "route")
    <3>1. Becomes1(f)
      BY <1>4, <2>1, <2>10 DEF Told
    <3>2. Due = 0 \/ Bottom.kind # "route"
      BY <1>1, <1>2, <2>10 DEF Due, Bottom
    <3>3. QED
      BY <1>1, <2>7, <2>9, <3>1, <3>2, GoesOn
  <2>11. CASE Len(stack) > 1 /\ stack[2].kind = "route"
    <3>1. Len(stack) = 2
      <4>1. StackInv /\ 2 \in 1..Len(stack)
        BY <1>2, <2>11 DEF AgentInv
      <4>2. QED
        BY <2>11, <4>1, RouteIsLast
    <3>2. PICK r, g : r = stack[2] /\ g = [r EXCEPT !.results = @ + 1]
      OBVIOUS
    <3>3. r \in RouteFrames /\ r.kind = "route" /\ r.runs <= r.results + Due /\ Waits1(r, "talk")
      <4>1. r \in Frames /\ r.kind = "route"
        <5>1. 2 \in 1..Len(stack)
          BY <3>1
        <5>2. QED
          BY <1>2, <2>11, <3>2, <5>1
      <4>2. Reports(r)
        BY <1>1, <3>1, <3>2 DEF AgentInv, ReportInv
      <4>3. 1 \in 1..(Len(stack) - 1) /\ 1 + 1 = 2
        BY <3>1
      <4>4. Waits1(stack[2], stack[1].kind)
        BY <4>3 DEF AgentInv, StackInv
      <4>5. QED
        BY <1>1, <1>2, <3>2, <4>1, <4>2, <4>4, KindsOfFrames DEF Reports
    <3>4. /\ g \in RouteFrames /\ g.kind = "route" /\ g.at = r.at /\ g.runs = r.runs
          /\ g.results = r.results + 1
      BY <3>2, <3>3 DEF RouteFrames
    <3>5. g \in Frames /\ Goes1(g) /\ Waits1(g, "talk")
      BY <3>3, <3>4 DEF Frames, Goes1, TalkGoes, CallGoes, RunGoes, ChatGoes, Waits1
    <3>6. /\ stack' = <<f, g>> \o SubSeq(stack, 3, Len(stack)) /\ back' = "none"
          /\ last' = last /\ how' = how /\ there' = there
      BY <1>1, <1>4, <2>1, <2>11, <3>2 DEF Told, Same
    <3>7. SubSeq(stack, 3, Len(stack)) = <<>>
      BY <3>1
    <3>8. PICK two : two = <<f, g>>
      OBVIOUS
    <3>9. two \in Seq(Frames)
      BY <2>9, <3>5, <3>8
    <3>10. stack' = <<f, g>>
      BY <3>6, <3>7, <3>8, <3>9, ConcatEmptySeq
    <3>11. stack' \in Seq(Frames) /\ Len(stack') = 2 /\ stack'[1] = f /\ stack'[2] = g /\ stack' # <<>>
      BY <2>9, <3>5, <3>10
    <3>12. StackInv'
      <4>1. \A i \in 1..Len(stack') : Goes1(stack'[i])
        BY <2>9, <3>5, <3>11
      <4>2. \A i \in 1..(Len(stack') - 1) : Waits1(stack'[i + 1], stack'[i].kind)
        BY <2>7, <3>5, <3>11
      <4>3. QED
        BY <3>6, <3>11, <4>1, <4>2 DEF AgentInv, StackInv, Goes1, TalkGoes, CallGoes, RunGoes, ChatGoes, Waits1,
           Frames, TalkFrames, CallFrames, RunFrames, ChatFrames, RouteFrames, Named, Ways
    <3>13. EndInv'
      BY <1>1, <3>6 DEF AgentInv, EndInv, EndsWell, Frames, TalkFrames, CallFrames, RunFrames, ChatFrames, RouteFrames,
     Named, Ways, Events
    <3>14. g.runs <= g.results + Due'
      BY <3>3, <3>4 DEF Due, RouteFrames
    <3>15. PICK b : b = stack'[Len(stack')] /\ b = g
      BY <3>11
    <3>16. Reports(stack[Len(stack)])'
      BY <3>14, <3>15 DEF Reports
    <3>17. QED
      BY <3>6, <3>12, <3>13, <3>16 DEF AgentInv, ReportInv
  <2>12. QED
    BY <2>10, <2>11
<1>5. CASE back # "ok"
  <2>1. Closes(Top, "raised")
    BY <1>5 DEF Told
  <2>2. last # NoFrame
    BY <1>3 DEF NoFrame
  <2>3. faults # {}
    BY <1>2, <1>3, <1>5, <2>2 DEF AgentInv, EndInv, EndsWell, Frames, TalkFrames, CallFrames, RunFrames, ChatFrames, RouteFrames,
     Named, Ways, Events
  <2>4. EndsWell(Top, "raised", faults')
    BY <1>1, <2>3 DEF EndsWell
  <2>5. Due = 0
    BY <1>1, <1>2, <1>5 DEF Due
  <2>6. QED
    BY <1>1, <1>2, <2>1, <2>4, <2>5, FrameEnds
<1>6. QED
  BY <1>4, <1>5


-----------------------------------------------------------------------------
\* One call.

LEMMA CallStartsStep ==
  ASSUME AgentInv, CallStarts
  PROVE  AgentInv'
<1>1. stack # <<>> /\ Top.kind = "call" /\ Top.at = "start" /\ Same /\ faults' = faults
  BY DEF CallStarts, At, NoFault
<1>2. Top \in Frames /\ Top \in CallFrames /\ Due = 0 /\ CallGoes(Top)
  BY <1>1, OnTop, KindsOfFrames DEF Due, Top, Goes1
<1>3. ASSUME NEW at \in {"handle", "gate"}, Becomes1([Top EXCEPT !.at = at]), at = "gate" => Top.of \in Crew
      PROVE  AgentInv'
  <2>1. PICK f : f = [Top EXCEPT !.at = at]
    OBVIOUS
  <2>2. f \in CallFrames /\ f.kind = "call" /\ f.at = at /\ ~f.did /\ ~f.logged /\ ~f.error /\ f.of = Top.of
    BY <1>1, <1>2, <2>1 DEF CallFrames, CallGoes
  <2>3. f \in Frames /\ Goes1(f)
    BY <1>3, <2>2 DEF Frames, Goes1, TalkGoes, CallGoes, RunGoes, ChatGoes
  <2>4. QED
    BY <1>1, <1>2, <1>3, <2>1, <2>2, <2>3, GoesOn
<1>4. CASE Closes(Errs(Top), "ok")
  BY <1>1, <1>2, <1>4, FrameEnds DEF CallFrames, CallGoes, Errs, Frames, EndsWell
<1>5. QED
  BY <1>3, <1>4 DEF CallStarts, AgentInv, StackInv

LEMMA HandleStep ==
  ASSUME AgentInv, Handle
  PROVE  AgentInv'
<1>1. stack # <<>> /\ Top.kind = "call" /\ Top.at = "handle" /\ Same /\ faults' = faults
  BY DEF Handle, At, NoFault
<1>2. Top \in Frames /\ Top \in CallFrames /\ Due = 0 /\ CallGoes(Top)
  BY <1>1, OnTop, KindsOfFrames DEF Due, Top, Goes1
<1>3. CASE Becomes1([Top EXCEPT !.at = "log", !.did = TRUE])
  <2>1. PICK f : f = [Top EXCEPT !.at = "log", !.did = TRUE]
    OBVIOUS
  <2>2. f \in CallFrames /\ f.kind = "call" /\ f.at = "log" /\ f.did /\ ~f.logged /\ ~f.error
    BY <1>1, <1>2, <2>1 DEF CallFrames, CallGoes
  <2>3. f \in Frames /\ Goes1(f)
    BY <2>2 DEF Frames, Goes1, TalkGoes, CallGoes, RunGoes, ChatGoes
  <2>4. QED
    BY <1>1, <1>2, <1>3, <2>1, <2>2, <2>3, GoesOn
<1>4. ASSUME NEW did \in BOOLEAN, Closes(Errs([Top EXCEPT !.did = did]), "ok")
      PROVE  AgentInv'
  BY <1>1, <1>2, <1>4, FrameEnds DEF CallFrames, CallGoes, Errs, Frames, EndsWell
<1>5. QED
  BY <1>3, <1>4 DEF Handle

\* A run that may begin: of a named entry, and let pass if it is dangerous.
LEMMA RunFacts ==
  ASSUME NEW e \in Crew, NEW pass \in Ways, Trait[e].dangerous => pass \in {"yes", "off"}
  PROVE  Run(e, pass) \in Frames /\ Goes1(Run(e, pass)) /\ Run(e, pass).kind = "run"
<1>1. PICK f : f = Run(e, pass)
  OBVIOUS
<1>2. f = [kind |-> "run", of |-> e, at |-> "start", events |-> <<>>, pass |-> pass,
           did |-> FALSE, odd |-> FALSE]
  BY <1>1 DEF Run
<1>3. /\ f \in RunFrames /\ f.kind = "run" /\ f.at = "start" /\ f.events = <<>> /\ ~f.did /\ ~f.odd
      /\ f.of = e /\ f.pass = pass
  BY <1>2 DEF RunFrames
<1>4. QED
  BY <1>1, <1>3 DEF Frames, Goes1, TalkGoes, CallGoes, RunGoes, ChatGoes

LEMMA CallGateStep ==
  ASSUME AgentInv, CallGate
  PROVE  AgentInv'
<1>1. stack # <<>> /\ Top.kind = "call" /\ Top.at = "gate" /\ Same /\ faults \subseteq faults'
  BY DEF CallGate, At, NoFault, Raises1
<1>2. Top \in Frames /\ Top \in CallFrames /\ Due = 0 /\ CallGoes(Top) /\ Top.of \in Crew
  BY <1>1, OnTop, KindsOfFrames DEF Due, Top, Goes1, CallGoes
<1>3. ASSUME NEW pass \in Ways, Trait[Top.of].dangerous => pass \in {"yes", "off"},
             Pushes(Run(Top.of, pass), [Top EXCEPT !.at = "run"])
      PROVE  AgentInv'
  <2>1. PICK f, g : f = Run(Top.of, pass) /\ g = [Top EXCEPT !.at = "run"]
    OBVIOUS
  <2>2. g \in CallFrames /\ g.kind = "call" /\ g.at = "run" /\ ~g.did /\ ~g.logged /\ ~g.error
    BY <1>1, <1>2, <2>1 DEF CallFrames, CallGoes
  <2>3. g \in Frames /\ Goes1(g) /\ Waits1(g, "run")
    BY <2>2 DEF Frames, Goes1, TalkGoes, CallGoes, RunGoes, ChatGoes, Waits1
  <2>4. f \in Frames /\ Goes1(f) /\ f.kind = "run"
    BY <1>2, <1>3, <2>1, RunFacts
  <2>5. QED
    BY <1>1, <1>2, <1>3, <2>1, <2>2, <2>3, <2>4, CallsAnother
<1>4. CASE ~Asks1(Top.of) /\ Pushes(Run(Top.of, PassesAs(Top.of)), [Top EXCEPT !.at = "run"])
  BY <1>4, <1>3 DEF Asks1, PassesAs, Ways
<1>5. CASE Pushes(Run(Top.of, "yes"), [Top EXCEPT !.at = "run"])
  BY <1>3, <1>5 DEF Ways
<1>6. CASE Closes(Errs(Top), "ok")
  BY <1>1, <1>2, <1>6, FrameEnds DEF CallFrames, CallGoes, Errs, Frames, EndsWell
<1>7. CASE Closes(Top, "raised") /\ Raises1("gate")
  BY <1>1, <1>7, <1>2, FrameEnds DEF EndsWell, Raises1
<1>8. QED
  BY <1>4, <1>5, <1>6, <1>7 DEF CallGate

LEMMA CallRanStep ==
  ASSUME AgentInv, CallRan
  PROVE  AgentInv'
<1>1. stack # <<>> /\ Top.kind = "call" /\ Top.at = "run" /\ back # "none" /\ Same /\ faults' = faults
  BY DEF CallRan, At, NoFault
<1>2. Top \in Frames /\ Top \in CallFrames /\ CallGoes(Top)
  BY <1>1, OnTop, KindsOfFrames DEF Goes1
<1>3. CASE Becomes1([Top EXCEPT !.at = "log", !.did = TRUE])
  <2>1. PICK f : f = [Top EXCEPT !.at = "log", !.did = TRUE]
    OBVIOUS
  <2>2. f \in CallFrames /\ f.kind = "call" /\ f.at = "log" /\ f.did /\ ~f.logged /\ ~f.error
    BY <1>1, <1>2, <2>1 DEF CallFrames, CallGoes
  <2>3. f \in Frames /\ Goes1(f)
    BY <2>2 DEF Frames, Goes1, TalkGoes, CallGoes, RunGoes, ChatGoes
  <2>4. QED
    BY <1>1, <1>2, <1>3, <2>1, <2>2, <2>3, GoesOn
<1>4. CASE Closes(Errs(Top), "ok")
  <2>1. PICK f : f = Errs(Top)
    OBVIOUS
  <2>2. f \in CallFrames /\ f.kind = "call" /\ ~f.did /\ ~f.logged /\ f.error
    BY <1>1, <1>2, <2>1 DEF CallFrames, CallGoes, Errs
  <2>3. f \in Frames /\ EndsWell(f, "ok", faults')
    BY <2>2 DEF Frames, EndsWell
  <2>4. QED
    BY <1>1, <1>2, <1>4, <2>1, <2>2, <2>3, FrameEnds
<1>5. QED
  BY <1>3, <1>4 DEF CallRan

LEMMA CallLogStep ==
  ASSUME AgentInv, CallLog
  PROVE  AgentInv'
<1>1. stack # <<>> /\ Top.kind = "call" /\ Top.at = "log" /\ Same /\ faults' = faults
  BY DEF CallLog, At, NoFault
<1>2. Top \in Frames /\ Top \in CallFrames /\ CallGoes(Top)
  BY <1>1, OnTop, KindsOfFrames DEF Goes1
<1>3. CASE Closes([Top EXCEPT !.logged = TRUE], "ok")
  BY <1>1, <1>2, <1>3, FrameEnds DEF CallFrames, CallGoes, Frames, EndsWell
<1>4. CASE Closes(Errs(Top), "ok")
  BY <1>1, <1>2, <1>4, FrameEnds DEF CallFrames, CallGoes, Errs, Frames, EndsWell
<1>5. QED
  BY <1>3, <1>4 DEF CallLog


-----------------------------------------------------------------------------
\* One run.

\* An event more.
LEMMA EmitFacts ==
  ASSUME NEW f \in RunFrames, NEW event \in Events
  PROVE  /\ Emits(f, event) \in RunFrames
         /\ Emits(f, event).of = f.of /\ Emits(f, event).at = f.at /\ Emits(f, event).pass = f.pass
         /\ Emits(f, event).did = f.did /\ Emits(f, event).odd = f.odd
         /\ Emits(f, event).events # <<>> /\ Len(Emits(f, event).events) = Len(f.events) + 1
         /\ Emits(f, event).events[Len(Emits(f, event).events)] = event
         /\ f.events = <<>> => Len(f.events) = 0
         /\ f.events # <<>> => Emits(f, event).events[1] = f.events[1]
         /\ f.events = <<>> => Emits(f, event).events[1] = event
<1>1. PICK s, t : s = f.events /\ t = Append(s, event)
  OBVIOUS
<1>2. s \in Seq(Events)
  BY <1>1 DEF RunFrames
<1>3. /\ t \in Seq(Events) /\ Len(t) = Len(s) + 1 /\ t[Len(s) + 1] = event /\ Len(s) \in Nat
      /\ \A i \in 1..Len(s) : t[i] = s[i]
  BY <1>1, <1>2
<1>4. /\ t # <<>> /\ (s # <<>> => t[1] = s[1]) /\ (s = <<>> => t[1] = event /\ Len(s) = 0)
  BY <1>2, EmptySeq, <1>3
<1>5. PICK g : g = [f EXCEPT !.events = t]
  OBVIOUS
<1>6. /\ g \in RunFrames /\ g.events = t /\ g.of = f.of /\ g.at = f.at /\ g.pass = f.pass
      /\ g.did = f.did /\ g.odd = f.odd
  BY <1>3, <1>5 DEF RunFrames
<1>7. Emits(f, event) = g
  BY <1>1, <1>5 DEF Emits
<1>8. QED
  BY <1>1, <1>3, <1>4, <1>6, <1>7

\* What a step of a run finds.
LEMMA RunTop ==
  ASSUME AgentInv, stack # <<>>, Top.kind = "run"
  PROVE  /\ Top \in Frames /\ Top \in RunFrames /\ Due = 0 /\ Goes1(Top)
         /\ ~Top.did /\ ~Top.odd /\ (Trait[Top.of].dangerous => Top.pass \in {"yes", "off"})
         /\ Top.at = "start" => Top.events = <<>>
         /\ Top.at # "start" => Top.events # <<>> /\ Top.events[1] = "start"
         /\ Top.at \in {"body", "chat", "work"} => Trait[Top.of].plugin /\ Len(Top.events) = 1
         /\ Top.at \in {"gather", "llm", "apply"} => ~Trait[Top.of].plugin
BY OnTop, KindsOfFrames DEF Due, Top, Goes1, RunGoes

\* A run that goes on.
LEMMA RunOn ==
  ASSUME AgentInv, stack # <<>>, Top.kind = "run", NEW f \in RunFrames, f.of = Top.of, f.pass = Top.pass,
         ~f.did, ~f.odd, f.at # "start", f.events # <<>>, f.events[1] = "start",
         f.at \in {"body", "chat", "work"} => Trait[f.of].plugin /\ Len(f.events) = 1,
         f.at \in {"gather", "llm", "apply"} => ~Trait[f.of].plugin
  PROVE  f \in Frames /\ Goes1(f) /\ f.kind = "run"
<1>1. Trait[f.of].dangerous => f.pass \in {"yes", "off"}
  BY RunTop
<1>2. f.kind = "run"
  BY DEF RunFrames
<1>3. QED
  BY <1>1, <1>2 DEF Frames, Goes1, TalkGoes, CallGoes, RunGoes, ChatGoes

\* A run that ends: with which event, and what it may have done.
LEMMA RunClose ==
  ASSUME AgentInv, stack # <<>>, Same, faults' = faults, Top.kind = "run", NEW f \in RunFrames,
         NEW out \in {"ok", "raised", "missing"}, Closes(f, out),
         f.events # <<>>, f.events[1] = "start", NEW end, end = f.events[Len(f.events)],
         out = "ok" <=> end = "complete",
         ~Trait[f.of].plugin => (out # "ok" <=> end = "error") /\ (f.did => out = "ok"),
         Trait[f.of].plugin /\ end = "start" => f.odd \/ ~f.did
  PROVE  AgentInv'
BY RunTop, FrameEnds DEF RunFrames, Frames, EndsWell

LEMMA RunStartsStep ==
  ASSUME AgentInv, RunStarts
  PROVE  AgentInv'
<1>1. stack # <<>> /\ Top.kind = "run" /\ Top.at = "start" /\ Same /\ faults' = faults
  BY DEF RunStarts, At, NoFault
<1>2. /\ Top \in Frames /\ Top \in RunFrames /\ Due = 0 /\ Goes1(Top) /\ ~Top.did /\ ~Top.odd
      /\ Top.events = <<>>
  BY <1>1, RunTop
<1>3. PICK f : f = Emits(Top, "start")
  OBVIOUS
<1>4. /\ f \in RunFrames /\ f.events # <<>> /\ f.events[1] = "start" /\ Len(f.events) = 1
      /\ f.events[Len(f.events)] = "start" /\ ~f.did /\ ~f.odd /\ f.of = Top.of /\ f.pass = Top.pass
  <2>1. /\ f \in RunFrames /\ f.events # <<>> /\ f.of = Top.of /\ f.pass = Top.pass /\ f.did = Top.did
        /\ f.odd = Top.odd /\ Len(f.events) = Len(Top.events) + 1 /\ f.events[Len(f.events)] = "start"
        /\ Len(Top.events) = 0
    BY <1>2, <1>3, EmitFacts DEF Events
  <2>2. f.events[1] = "start"
    BY <1>2, <1>3, EmitFacts DEF Events
  <2>3. Len(f.events) = 1
    BY <2>1
  <2>4. QED
    BY <1>2, <2>1, <2>2, <2>3
<1>5. CASE ~Trait[Top.of].plugin
  <2>1. PICK g : g = [f EXCEPT !.at = "gather"]
    OBVIOUS
  <2>2. /\ g \in RunFrames /\ g.at = "gather" /\ g.events = f.events /\ ~g.did /\ ~g.odd
        /\ g.of = Top.of /\ g.pass = Top.pass
    BY <1>4, <2>1 DEF RunFrames
  <2>3. g \in Frames /\ Goes1(g) /\ g.kind = "run"
    BY <1>1, <1>4, <1>5, <2>2, RunOn
  <2>4. Becomes1(g)
    BY <1>3, <1>5, <2>1 DEF RunStarts
  <2>5. QED
    BY <1>1, <1>2, <2>3, <2>4, GoesOn
<1>6. CASE Trait[Top.of].plugin /\ \E out \in {"missing", "raised"} : Closes(f, out)
  BY <1>1, <1>4, <1>6, RunClose
<1>7. CASE Trait[Top.of].plugin /\ Becomes1([f EXCEPT !.at = "body"])
  BY <1>4, <1>1, <1>7, RunOn, <1>2, GoesOn DEF RunFrames
<1>8. QED
  BY <1>3, <1>5, <1>6, <1>7 DEF RunStarts

LEMMA ChatFacts ==
  ASSUME NEW reply \in BOOLEAN, NEW compiler \in BOOLEAN
  PROVE  Chat(reply, compiler) \in Frames /\ Goes1(Chat(reply, compiler)) /\ Chat(reply, compiler).kind = "chat"
<1>1. PICK f : f = Chat(reply, compiler)
  OBVIOUS
<1>2. f = [kind |-> "chat", at |-> "gather", reply |-> reply, compiler |-> compiler,
           logged |-> FALSE, saved |-> FALSE, replies |-> 0]
  BY <1>1 DEF Chat
<1>3. f \in ChatFrames /\ f.kind = "chat" /\ f.at = "gather" /\ ~f.logged /\ ~f.saved /\ f.replies = 0
  BY <1>2 DEF ChatFrames
<1>4. QED
  BY <1>1, <1>3 DEF Frames, Goes1, TalkGoes, CallGoes, RunGoes, ChatGoes

LEMMA PluginChatsStep ==
  ASSUME AgentInv, PluginChats
  PROVE  AgentInv'
BY RunTop, RunOn, ChatFacts, CallsAnother DEF PluginChats, At, NoFault, RunFrames, Waits1

LEMMA PluginChattedStep ==
  ASSUME AgentInv, PluginChatted
  PROVE  AgentInv'
<1>1. stack # <<>> /\ Top.kind = "run" /\ Top.at = "chat" /\ Same /\ faults' = faults
  BY DEF PluginChatted, At, NoFault
<1>2. /\ Top \in RunFrames /\ Due = 0 /\ ~Top.did /\ ~Top.odd /\ Top.events # <<>> /\ Top.events[1] = "start"
      /\ Trait[Top.of].plugin /\ Len(Top.events) = 1
  BY <1>1, RunTop
<1>3. CASE Becomes1([Top EXCEPT !.at = "work"])
  BY <1>2, <1>1, RunOn, <1>3, GoesOn DEF RunFrames
<1>4. CASE Closes(Emits(Top, "error"), "raised")
  BY <1>2, EmitFacts, <1>1, <1>4, RunClose DEF Events
<1>5. QED
  BY <1>3, <1>4 DEF PluginChatted


\* A run whose last event is said as it ends.
LEMMA RunSays ==
  ASSUME AgentInv, stack # <<>>, Same, faults' = faults, Top.kind = "run", NEW f \in RunFrames,
         f.of = Top.of, f.events # <<>>, f.events[1] = "start",
         NEW event \in Events, NEW out \in {"ok", "raised"}, Closes(Emits(f, event), out),
         \/ out = "ok" /\ event = "complete"
         \/ out = "raised" /\ event = "error" /\ (~Trait[f.of].plugin => ~f.did)
  PROVE  AgentInv'
<1>1. PICK g : g = Emits(f, event)
  OBVIOUS
<1>2. /\ g \in RunFrames /\ g.events # <<>> /\ g.events[1] = "start" /\ g.events[Len(g.events)] = event
      /\ g.of = f.of /\ g.did = f.did
  BY <1>1, EmitFacts
<1>3. Closes(g, out)
  BY <1>1
<1>4. QED
  BY <1>2, <1>3, RunClose

LEMMA PluginEndsStep ==
  ASSUME AgentInv, PluginEnds
  PROVE  AgentInv'
<1>1. stack # <<>> /\ Top.kind = "run" /\ Top.at \in {"body", "work"} /\ Same /\ faults' = faults
  BY DEF PluginEnds, At, NoFault
<1>2. /\ Top \in RunFrames /\ Top.events # <<>> /\ Top.events[1] = "start"
      /\ Trait[Top.of].plugin /\ Len(Top.events) = 1
  BY <1>1, RunTop
<1>3. ASSUME NEW did \in BOOLEAN, NEW event \in Events, NEW out \in {"ok", "raised"},
             Closes(Emits([Top EXCEPT !.did = did], event), out),
             (out = "ok" /\ event = "complete") \/ (out = "raised" /\ event = "error")
      PROVE  AgentInv'
  BY <1>2, <1>1, <1>3, RunSays DEF RunFrames
<1>4. CASE Closes([Top EXCEPT !.did = TRUE, !.odd = TRUE], "raised")
  <2>1. PICK f : f = [Top EXCEPT !.did = TRUE, !.odd = TRUE]
    OBVIOUS
  <2>2. /\ f \in RunFrames /\ f.of = Top.of /\ f.events = Top.events /\ f.odd
        /\ f.events[Len(f.events)] = "start"
    BY <1>2, <2>1 DEF RunFrames
  <2>3. QED
    BY <1>1, <1>2, <1>4, <2>1, <2>2, RunClose
<1>5. CASE Closes(Emits([Top EXCEPT !.did = TRUE], "complete"), "ok")
  BY <1>3, <1>5 DEF Events
<1>6. CASE \E did \in BOOLEAN : Closes(Emits([Top EXCEPT !.did = did], "error"), "raised")
  BY <1>3, <1>6 DEF Events
<1>7. QED
  BY <1>4, <1>5, <1>6 DEF PluginEnds

\* A run that says so and waits or goes on.
LEMMA RunNotes ==
  ASSUME AgentInv, stack # <<>>, Top.kind = "run", Top.at # "start",
         NEW event \in Events, NEW at \in {"llm", "apply"}, ~Trait[Top.of].plugin,
         NEW g, g = [Emits(Top, event) EXCEPT !.at = at]
  PROVE  g \in Frames /\ Goes1(g) /\ g.kind = "run" /\ g.at = at
<1>1. Top \in RunFrames /\ ~Top.did /\ ~Top.odd /\ Top.events # <<>> /\ Top.events[1] = "start"
  BY RunTop
<1>2. PICK f : f = Emits(Top, event)
  OBVIOUS
<1>3. /\ f \in RunFrames /\ f.events # <<>> /\ f.events[1] = "start" /\ f.of = Top.of /\ f.pass = Top.pass
      /\ ~f.did /\ ~f.odd
  BY <1>1, <1>2, EmitFacts
<1>4. /\ g \in RunFrames /\ g.at = at /\ g.events = f.events /\ g.of = Top.of /\ g.pass = Top.pass
      /\ ~g.did /\ ~g.odd
  BY <1>2, <1>3 DEF RunFrames
<1>5. QED
  BY <1>3, <1>4, RunOn

LEMMA GatherStep ==
  ASSUME AgentInv, Gather
  PROVE  AgentInv'
BY RunTop, RunSays, RunNotes, TalkFacts, CallsAnother DEF Gather, At, NoFault, Events, Waits1

LEMMA RespondStep ==
  ASSUME AgentInv, Respond
  PROVE  AgentInv'
BY RunTop, RunSays, RunNotes, GoesOn DEF Respond, At, NoFault, Events

LEMMA ApplyOutputStep ==
  ASSUME AgentInv, ApplyOutput
  PROVE  AgentInv'
<1>1. stack # <<>> /\ Top.kind = "run" /\ Top.at = "apply" /\ Same /\ faults' = faults
  BY DEF ApplyOutput, At, NoFault
<1>2. /\ Top \in RunFrames /\ Top.events # <<>> /\ Top.events[1] = "start" /\ ~Top.did /\ Due = 0
      /\ ~Trait[Top.of].plugin
  BY <1>1, RunTop
<1>3. CASE Closes(Emits(Top, "error"), "raised")
  BY <1>1, <1>2, <1>3, RunSays DEF Events
<1>4. CASE Closes(Emits(Emits([Top EXCEPT !.did = Trait[Top.of].writes], "apply"), "complete"), "ok")
  <2>1. PICK f, g : f = [Top EXCEPT !.did = Trait[Top.of].writes] /\ g = Emits(f, "apply")
    OBVIOUS
  <2>2. Trait[Top.of].writes \in BOOLEAN
    BY <1>2, AgentAssumption DEF RunFrames, Traits
  <2>3. f \in RunFrames /\ f.events = Top.events /\ f.of = Top.of
    BY <1>2, <2>1, <2>2 DEF RunFrames
  <2>4. g \in RunFrames /\ g.events # <<>> /\ g.events[1] = "start" /\ g.of = Top.of
    <3>1. f.events # <<>> /\ f.events[1] = "start"
      BY <1>2, <2>3
    <3>2. "apply" \in Events
      BY DEF Events
    <3>3. QED
      BY <2>1, <2>3, <3>1, <3>2, EmitFacts
  <2>5. QED
    BY <1>1, <1>4, <2>1, <2>4, RunSays DEF Events
<1>5. QED
  BY <1>3, <1>4 DEF ApplyOutput


-----------------------------------------------------------------------------
\* A chat.

\* What a step of a chat finds.
LEMMA ChatTop ==
  ASSUME AgentInv, stack # <<>>, Top.kind = "chat"
  PROVE  /\ Top \in Frames /\ Top \in ChatFrames /\ Due = 0 /\ Goes1(Top)
         /\ Top.replies = 0 /\ (Top.saved <=> Top.at = "reply") /\ (Top.logged <=> Top.at \in {"save", "reply"})
BY OnTop, KindsOfFrames DEF Due, Top, Goes1, ChatGoes

\* A chat that goes on.
LEMMA ChatOn ==
  ASSUME NEW f \in ChatFrames, f.replies = 0, f.saved <=> f.at = "reply", f.logged <=> f.at \in {"save", "reply"}
  PROVE  f \in Frames /\ Goes1(f) /\ f.kind = "chat"
<1>1. f.kind = "chat"
  BY DEF ChatFrames
<1>2. QED
  BY <1>1 DEF Frames, Goes1, TalkGoes, CallGoes, RunGoes, ChatGoes

\* One that fails.
LEMMA ChatFails ==
  ASSUME AgentInv, stack # <<>>, Same, faults' = faults, Top.kind = "chat", NEW f \in ChatFrames,
         Closes(f, "raised"), f.replies = 0, f.saved => f.compiler
  PROVE  AgentInv'
BY ChatTop, FrameEnds DEF ChatFrames, Frames, EndsWell

LEMMA ChatGathersStep ==
  ASSUME AgentInv, ChatGathers
  PROVE  AgentInv'
<1>1. stack # <<>> /\ Top.kind = "chat" /\ Top.at = "gather" /\ Same /\ faults' = faults
  BY DEF ChatGathers, At, NoFault
<1>2. Top \in ChatFrames /\ Due = 0 /\ Top.replies = 0 /\ ~Top.saved /\ ~Top.logged
  BY <1>1, ChatTop
<1>3. CASE Closes(Top, "raised")
  BY <1>1, <1>2, <1>3, ChatFails
<1>4. CASE Pushes(Talk(Offered), [Top EXCEPT !.at = "talk"])
  BY TalkFacts, <1>2, ChatOn, <1>1, <1>4, CallsAnother DEF Offered, AgentInv, StackInv, ChatFrames, Waits1
<1>5. QED
  BY <1>3, <1>4 DEF ChatGathers

LEMMA ChatTalkedStep ==
  ASSUME AgentInv, ChatTalked
  PROVE  AgentInv'
BY ChatTop, ChatFails, ChatOn, GoesOn DEF ChatTalked, At, NoFault, ChatFrames

LEMMA ChatLogsStep ==
  ASSUME AgentInv, ChatLogs
  PROVE  AgentInv'
<1>1. stack # <<>> /\ Top.kind = "chat" /\ Top.at = "log" /\ Same /\ faults' = faults
  BY DEF ChatLogs, At, NoFault
<1>2. Top \in ChatFrames /\ Due = 0 /\ Top.replies = 0 /\ ~Top.saved /\ ~Top.logged
  BY <1>1, ChatTop
<1>3. CASE Closes(Top, "raised")
  BY <1>1, <1>2, <1>3, ChatFails
<1>4. CASE Becomes1([Top EXCEPT !.at = "save", !.logged = TRUE])
  <2>1. PICK g : g = [Top EXCEPT !.at = "save", !.logged = TRUE]
    OBVIOUS
  <2>2. g \in ChatFrames /\ g.at = "save" /\ g.replies = 0 /\ ~g.saved /\ g.logged
    BY <1>2, <2>1 DEF ChatFrames
  <2>3. g \in Frames /\ Goes1(g) /\ g.kind = "chat"
    BY <2>2, ChatOn
  <2>4. QED
    BY <1>1, <1>2, <1>4, <2>1, <2>3, GoesOn
<1>5. QED
  BY <1>3, <1>4 DEF ChatLogs

LEMMA ChatSavesStep ==
  ASSUME AgentInv, ChatSaves
  PROVE  AgentInv'
BY ChatTop, ChatOn, ChatFails, GoesOn DEF ChatSaves, At, NoFault, ChatFrames

LEMMA ChatRepliesStep ==
  ASSUME AgentInv, ChatReplies
  PROVE  AgentInv'
<1>1. stack # <<>> /\ Top.kind = "chat" /\ Top.at = "reply" /\ Same /\ faults' = faults
  BY DEF ChatReplies, At, NoFault
<1>2. Top \in ChatFrames /\ Due = 0 /\ Top.replies = 0 /\ Top.saved /\ Top.logged
  BY <1>1, ChatTop
<1>3. PICK f \in {Top} \cup (IF Top.reply THEN Notified(Top) ELSE {}) : Closes(f, "ok")
  BY DEF ChatReplies
<1>4. /\ f \in ChatFrames /\ f.kind = "chat" /\ f.saved /\ f.logged
      /\ f.replies > 0 => f.replies = 1 /\ f.reply
  BY <1>2, <1>3 DEF ChatFrames, Notified
<1>5. f \in Frames /\ EndsWell(f, "ok", faults')
  BY <1>4 DEF Frames, EndsWell
<1>6. QED
  BY <1>1, <1>2, <1>3, <1>4, <1>5, FrameEnds


-----------------------------------------------------------------------------
\* Input for which the LLM chooses.

\* What a step of a routing finds: it is alone.
LEMMA RouteTop ==
  ASSUME AgentInv, stack # <<>>, Top.kind = "route"
  PROVE  /\ Top \in Frames /\ Top \in RouteFrames /\ Bottom = Top /\ Top.runs <= Top.results + Due
         /\ Due \in {0, 1} /\ (Top.at # "run" \/ back # "ok" => Due = 0)
         /\ back # "none" => how = back
BY OnTop, KindsOfFrames DEF Due, Top

\* One that goes on.
LEMMA RouteOn ==
  ASSUME AgentInv, stack # <<>>, Same, faults \subseteq faults', Top.kind = "route", NEW f \in RouteFrames,
         Becomes1(f), f.runs = Top.runs, f.results >= Top.results + Due
  PROVE  AgentInv'
<1>1. f.kind = "route"
  BY DEF RouteFrames
<1>2. f \in Frames /\ Goes1(f)
  BY <1>1 DEF Frames, Goes1, TalkGoes, CallGoes, RunGoes, ChatGoes
<1>3. QED
  BY <1>1, <1>2, GoesOn

\* One that has no run to count goes on.
LEMMA RouteGoes ==
  ASSUME AgentInv, stack # <<>>, Same, faults \subseteq faults', Top.kind = "route", NEW f \in RouteFrames,
         Becomes1(f), f.runs = Top.runs, f.results = Top.results, Top.at # "run"
  PROVE  AgentInv'
BY RouteTop, RouteOn DEF RouteFrames

\* One that calls.
LEMMA RouteCalls ==
  ASSUME AgentInv, stack # <<>>, Same, faults \subseteq faults', Top.kind = "route", NEW g \in RouteFrames,
         g.runs = Top.runs, g.results = Top.results, Top.at # "run",
         NEW f \in Frames, Goes1(f), Pushes(f, g),
         \/ f.kind = "talk" /\ g.at \in {"refine", "called", "named"}
         \/ f.kind = "run" /\ g.at = "run"
  PROVE  AgentInv'
<1>1. g.kind = "route"
  BY DEF RouteFrames
<1>2. g \in Frames /\ Goes1(g)
  BY <1>1 DEF Frames, Goes1, TalkGoes, CallGoes, RunGoes, ChatGoes
<1>3. Waits1(g, f.kind)
  BY <1>1 DEF Waits1
<1>4. Due = 0
  BY RouteTop
<1>5. QED
  BY <1>1, <1>2, <1>3, <1>4, CallsAnother

\* One that ends has counted all its runs.
LEMMA RouteEnds ==
  ASSUME AgentInv, stack # <<>>, Same, faults \subseteq faults', Top.kind = "route", Closes(Top, "ok"),
         Top.at # "run" \/ back # "ok"
  PROVE  AgentInv'
BY RouteTop, FrameEnds DEF RouteFrames, EndsWell

LEMMA RefineStep ==
  ASSUME AgentInv, Refine
  PROVE  AgentInv'
BY RouteTop, TalkFacts, RouteCalls, RouteGoes DEF Refine, At, NoFault, RouteFrames

LEMMA CollectStep ==
  ASSUME AgentInv, Collect1
  PROVE  AgentInv'
<1>1. stack # <<>> /\ Top.kind = "route" /\ Top.at = "collect" /\ Same /\ faults' = faults
  BY DEF Collect1, At, NoFault
<1>2. Top \in RouteFrames
  BY <1>1, RouteTop
<1>3. CASE Closes(Top, "ok")
  BY <1>1, <1>3, RouteEnds
<1>4. CASE OnDemand # {}
  BY TalkFacts, <1>2, <1>4, <1>1, RouteCalls DEF OnDemand, OnDemandTools, AgentInv, StackInv, RouteFrames,
     Collect1
<1>5. QED
  BY <1>3, <1>4 DEF Collect1

LEMMA RouteCalledStep ==
  ASSUME AgentInv, RouteCalled
  PROVE  AgentInv'
BY RouteEnds DEF RouteCalled, At, NoFault

LEMMA RouteNamedStep ==
  ASSUME AgentInv, RouteNamed
  PROVE  AgentInv'
<1>1. stack # <<>> /\ Top.kind = "route" /\ Top.at = "named" /\ Same /\ faults' = faults
  BY DEF RouteNamed, At, NoFault
<1>2. Top \in RouteFrames
  BY <1>1, RouteTop
<1>3. CASE Closes(Top, "ok")
  BY <1>1, <1>3, RouteEnds
<1>4. ASSUME NEW named \in Answers,
             Becomes1([Top EXCEPT !.at = "gate", !.todo = Filter(named, Top.known)])
      PROVE  AgentInv'
  <2>1. PICK K, some : K = Top.known /\ some = Filter(named, K)
    OBVIOUS
  <2>2. named \in Seq(Named) /\ K \subseteq Crew
    BY <1>2, <2>1, AnswersNamed DEF RouteFrames
  <2>3. some \in Seq(Named \cap K)
    BY <2>1, <2>2, FilterType
  <2>4. some \in Seq(Crew)
    BY <2>2, <2>3
  <2>5. PICK f : f = [Top EXCEPT !.at = "gate", !.todo = some]
    OBVIOUS
  <2>6. f \in RouteFrames /\ f.runs = Top.runs /\ f.results = Top.results
    BY <1>2, <2>4, <2>5 DEF RouteFrames
  <2>7. Becomes1(f)
    BY <1>4, <2>1, <2>5
  <2>8. QED
    BY <1>1, <2>6, <2>7, RouteGoes
<1>5. QED
  BY <1>3, <1>4 DEF RouteNamed

LEMMA RouteGateStep ==
  ASSUME AgentInv, RouteGate
  PROVE  AgentInv'
<1>1. stack # <<>> /\ Top.kind = "route" /\ Top.at = "gate" /\ Same /\ faults \subseteq faults'
  BY DEF RouteGate, At, NoFault, Raises1
<1>2. Top \in RouteFrames
  BY <1>1, RouteTop
<1>3. CASE Closes(Top, "ok")
  BY <1>1, <1>3, RouteEnds
<1>4. CASE Top.todo # <<>>
  <2>1. PICK q : q = Top.todo /\ q \in Seq(Crew) /\ q # <<>>
    BY <1>2, <1>4 DEF RouteFrames
  <2>2. PICK e, r : e = Head(q) /\ r = Tail(q)
    OBVIOUS
  <2>3. e \in Crew /\ r \in Seq(Crew)
    BY <2>1, <2>2, HeadTailProperties
  <2>4. PICK f : f = [Top EXCEPT !.todo = r]
    OBVIOUS
  <2>5. PICK g : g = [f EXCEPT !.at = "run"]
    OBVIOUS
  <2>6. f \in RouteFrames /\ f.runs = Top.runs /\ f.results = Top.results
    BY <1>2, <2>3, <2>4 DEF RouteFrames
  <2>7. g \in RouteFrames /\ g.runs = Top.runs /\ g.results = Top.results /\ g.at = "run"
    BY <2>5, <2>6 DEF RouteFrames
  <2>8. \/ ~Asks1(e) /\ Pushes(Run(e, PassesAs(e)), g)
        \/ Pushes(Run(e, "yes"), g)
        \/ Becomes1(f)
        \/ Closes(Top, "ok")
    BY <2>1, <2>2, <2>4, <1>4, <2>5 DEF RouteGate
  <2>9. ASSUME NEW pass \in Ways, Trait[e].dangerous => pass \in {"yes", "off"}, Pushes(Run(e, pass), g)
        PROVE  AgentInv'
    BY <2>3, <2>9, RunFacts, <1>1, <2>7, RouteCalls
  <2>10. CASE ~Asks1(e) /\ Pushes(Run(e, PassesAs(e)), g)
    BY <2>10, <2>9 DEF Asks1, PassesAs, Ways
  <2>11. CASE Pushes(Run(e, "yes"), g)
    BY <2>9, <2>11 DEF Ways
  <2>12. CASE Becomes1(f)
    BY <1>1, <2>6, <2>12, RouteGoes
  <2>13. QED
    BY <1>3, <2>8, <2>10, <2>11, <2>12
<1>5. QED
  BY <1>3, <1>4 DEF RouteGate

LEMMA RouteRanStep ==
  ASSUME AgentInv, RouteRan
  PROVE  AgentInv'
<1>1. stack # <<>> /\ Top.kind = "route" /\ Top.at = "run" /\ Same /\ faults' = faults
  BY DEF RouteRan, At, NoFault
<1>2. Top \in RouteFrames /\ Due \in {0, 1}
  BY <1>1, RouteTop
<1>3. CASE back = "ok"
  <2>1. PICK f : f = [Top EXCEPT !.at = "log", !.results = @ + 1]
    OBVIOUS
  <2>2. PICK n : n = Top.results + 1 /\ n \in Nat
    BY <1>2 DEF RouteFrames
  <2>3. f \in RouteFrames /\ f.runs = Top.runs /\ f.results = Top.results + 1
    BY <1>2, <2>1, <2>2 DEF RouteFrames
  <2>4. f.results >= Top.results + Due
    BY <1>2, <2>3 DEF RouteFrames
  <2>5. Becomes1(f)
    BY <1>3, <2>1 DEF RouteRan
  <2>6. QED
    BY <1>1, <2>3, <2>4, <2>5, RouteOn
<1>4. CASE back # "ok"
  BY <1>1, <1>4, RouteEnds DEF RouteRan
<1>5. QED
  BY <1>3, <1>4

LEMMA RouteLogStep ==
  ASSUME AgentInv, RouteLog
  PROVE  AgentInv'
BY RouteTop, RouteEnds, RouteGoes DEF RouteLog, At, NoFault, RouteFrames

-----------------------------------------------------------------------------
\* Requests, and what changes meanwhile.

LEMMA RouteFacts ==
  Route \in Frames /\ Goes1(Route) /\ Route.kind = "route" /\ Route.runs = 0 /\ Route.results = 0
<1>1. PICK f : f = Route
  OBVIOUS
<1>2. f = [kind |-> "route", at |-> "refine", known |-> {}, todo |-> <<>>, results |-> 0, runs |-> 0]
  BY <1>1 DEF Route
<1>3. f \in RouteFrames /\ f.kind = "route" /\ f.runs = 0 /\ f.results = 0
  BY <1>2 DEF RouteFrames
<1>4. QED
  BY <1>1, <1>3 DEF Frames, Goes1, TalkGoes, CallGoes, RunGoes, ChatGoes

LEMMA ServeStep ==
  ASSUME AgentInv, NEW c \in Calls, Serve(c)
  PROVE  AgentInv'
<1>1. /\ stack = <<>> /\ there' = there /\ faults' = faults /\ back' = back /\ last' = last /\ how' = how
      /\ last.kind = "none"
  BY DEF Serve, Same, NoFault
<1>2. PICK f : /\ stack' = <<f>> /\ f \in Frames /\ Goes1(f)
               /\ f.kind = "route" => f.runs = 0 /\ f.results = 0
  BY RouteFacts, ChatFacts DEF Serve
<1>3. /\ stack' \in Seq(Frames) /\ Len(stack') = 1 /\ stack'[1] = f /\ stack' # <<>> /\ back = "none"
  BY <1>1, <1>2 DEF AgentInv, StackInv
<1>4. StackInv'
  BY <1>1, <1>2, <1>3 DEF AgentInv, StackInv, Goes1, TalkGoes, CallGoes, RunGoes, ChatGoes, Waits1,
     Frames, TalkFrames, CallFrames, RunFrames, ChatFrames, RouteFrames, Named, Ways, Events
<1>5. EndInv'
  BY <1>1 DEF AgentInv, EndInv, EndsWell, Frames, TalkFrames, CallFrames, RunFrames, ChatFrames, RouteFrames,
     Named, Ways, Events
<1>6. PICK b : b = stack'[Len(stack')] /\ b = f
  BY <1>3
<1>7. Due' \in {0, 1}
  BY DEF Due
<1>8. b.kind = "route" => b.runs <= b.results + Due'
  BY <1>2, <1>6, <1>7
<1>9. Reports(stack[Len(stack)])'
  BY <1>6, <1>8 DEF Reports
<1>10. QED
  BY <1>1, <1>4, <1>5, <1>9 DEF AgentInv, ReportInv

\* The invariant says nothing of Safe Mode, and of the registry only what it may have.
LEMMA AgentStays ==
  ASSUME AgentInv, UNCHANGED <<stack, back, last, how, faults>>, there' \subseteq Crew
  PROVE  AgentInv'
<1>1. StackInv'
  BY DEF AgentInv, StackInv, Goes1, TalkGoes, CallGoes, RunGoes, ChatGoes, Waits1,
     Frames, TalkFrames, CallFrames, RunFrames, ChatFrames, RouteFrames, Named, Ways, Events
<1>2. EndInv'
  BY DEF AgentInv, EndInv, EndsWell, Frames, TalkFrames, CallFrames, RunFrames, ChatFrames, RouteFrames,
     Named, Ways, Events
<1>3. ReportInv'
  BY DEF AgentInv, ReportInv, Reports, Due
<1>4. QED
  BY <1>1, <1>2, <1>3 DEF AgentInv

LEMMA AgentKept == AgentInv /\ AgentNext => AgentInv'
<1> SUFFICES ASSUME AgentInv, AgentNext PROVE AgentInv'
  OBVIOUS
<1>1. CASE \E c \in Calls : Serve(c)
  BY <1>1, ServeStep
<1>2. CASE Completion \/ CompletionRaises \/ Calls1 \/ Told
  BY <1>2, CompletionStep, CompletionRaisesStep, CallsStep, ToldStep
<1>3. CASE CallStarts \/ Handle \/ CallGate \/ CallRan \/ CallLog
  BY <1>3, CallStartsStep, HandleStep, CallGateStep, CallRanStep, CallLogStep
<1>4. CASE RunStarts \/ PluginChats \/ PluginChatted \/ PluginEnds \/ Gather \/ Respond \/ ApplyOutput
  BY <1>4, RunStartsStep, PluginChatsStep, PluginChattedStep, PluginEndsStep, GatherStep, RespondStep,
     ApplyOutputStep
<1>5. CASE ChatGathers \/ ChatTalked \/ ChatLogs \/ ChatSaves \/ ChatReplies
  BY <1>5, ChatGathersStep, ChatTalkedStep, ChatLogsStep, ChatSavesStep, ChatRepliesStep
<1>6. CASE Refine \/ Collect1 \/ RouteCalled \/ RouteNamed \/ RouteGate \/ RouteRan \/ RouteLog
  BY <1>6, RefineStep, CollectStep, RouteCalledStep, RouteNamedStep, RouteGateStep, RouteRanStep, RouteLogStep
<1>7. CASE SwitchSafe
  BY <1>7, AgentStays DEF SwitchSafe, Alters, AgentInv, StackInv
<1>8. CASE \E e \in Crew : Reloads1(e)
  BY <1>8, AgentStays DEF Reloads1, Alters, AgentInv, StackInv
<1>9. QED
  BY <1>1, <1>2, <1>3, <1>4, <1>5, <1>6, <1>7, <1>8 DEF AgentNext

LEMMA AgentStarts == AgentInit => AgentInv
BY AgentAssumption DEF AgentInit, StackInv, EndInv, NoFrame, AgentInv, ReportInv

\* What the invariant says of the request.
LEMMA AgentImplies == AgentInv => AgentSound
<1> SUFFICES ASSUME AgentInv PROVE AgentSound
  OBVIOUS
<1>1. /\ stack \in Seq(Frames) /\ DOMAIN stack = 1..Len(stack)
      /\ \A i \in 1..Len(stack) : stack[i] \in Frames /\ Goes1(stack[i])
  BY DEF AgentInv, StackInv
<1>2. last.kind # "none" => last \in Frames /\ EndsWell(last, how, faults)
  BY DEF AgentInv, EndInv, NoFrame
<1>3. EveryCallIsTold
  BY <1>1, KindsOfFrames, AgentAssumption, <1>2 DEF TalkFrames, Goes1, TalkGoes, EveryCallIsTold, EndsWell
<1>4. DoneIsLogged
  BY <1>2 DEF DoneIsLogged, EndsWell
<1>5. RunsAreGated
  BY <1>1 DEF RunsAreGated, Goes1, RunGoes
<1>6. EventsTell
  BY <1>2 DEF Last, EventsTell, EndsWell
<1>7. ChatIsKept
  BY <1>2 DEF ChatIsKept, EndsWell
<1>8. RoutingReports
  BY <1>2 DEF RoutingReports, EndsWell, AgentInv, ReportInv
<1>9. QED
  BY <1>3, <1>4, <1>5, <1>6, <1>7, <1>8 DEF AgentSound

\* Every call is told, what was done is logged, what is dangerous was let pass, the events and
\* the chat's records say how it ended, and a routing reports all that ran (AgentSound).
THEOREM AgentHolds == EachSpec => []AgentSound
<1>1. AgentInv /\ [EachNext]_<<part, vars, agentVars, rateVars, credentialVars, dangerVars>> => AgentInv'
  <2> SUFFICES ASSUME AgentInv,
                      [EachNext]_<<part, vars, agentVars, rateVars, credentialVars, dangerVars>>
               PROVE  AgentInv'
    OBVIOUS
  <2>1. AgentNext \/ UNCHANGED agentVars
    BY DEF EachNext, HostPart, AgentPart, RatePart, CredentialsPart, DangerPart
  <2>2. CASE UNCHANGED agentVars
    BY <2>2, AgentStays DEF agentVars, AgentInv, StackInv
  <2>3. QED
    BY <2>1, <2>2, AgentKept
<1>2. EachInit => AgentInv
  BY AgentStarts DEF EachInit
<1>3. QED
  BY <1>1, <1>2, AgentImplies, PTL DEF EachSpec

=============================================================================
