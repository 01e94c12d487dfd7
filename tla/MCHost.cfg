SPECIFICATION EachSpec
CONSTANTS
  feed = feed
  guard = guard
  mirror = mirror
  digest = digest
  odd = odd
  tidy = tidy
  Chores = {expire}
  Entries <- E5
  Meta <- MetaOf
  Defaults <- DefaultConfig
  Installed <- FirstEntries
  Bundles <- Together
  Lists <- Patched
  MaxOps = 1
  Clients = {c1}
  Requests = {r1, r2}
  Tasks = {t1, t2}
  MaxStarts = 2
  hunter = hunter scribe = scribe helper = helper wn = wn
  Crew = {hunter, scribe, helper} Trait <- TheTraits Builtins = {wn} Answers <- TheAnswers
  Calls = {"bridge", "compiled", "input"} Casts <- TheCasts
  MaxRounds = 2 MaxDepth = 8 MaxChanges = 1
  Callers = {u1, u2, u3} Limit = 2 Window = 3 MaxCallers = 1 Clocks = {7}
  q1 = q1 q2 = q2 key1 = key1 key2 = key2
  Services = {q1, q2} Keys = {key1, key2} Plain = Plain Gone = Gone Stores <- TheStores
  MaxUses = 2 MaxRestarts = 3
  plain = plain risky = risky garbled = garbled
  Plugins1 = {p1} Codes = {plain, risky, garbled} Imports <- TheImports
  NoVerdict = NoVerdict TornFile = TornFile MaxEdits = 2 MaxDeaths = 1
SYMMETRY Alike
INVARIANTS
  HostTypeOK
  GateHolds
  OutputsReached
  
  AgentSound
  ServicesSound
PROPERTY ImplementsGate
CHECK_DEADLOCK FALSE
