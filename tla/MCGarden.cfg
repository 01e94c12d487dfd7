CONSTANTS
  Tasks = {"t1", "t2"}
  Dirs <- MCDirs
  Titles <- MCTitles
  MaxDup <- MCMaxDup
  Paths <- MCPaths
  Names <- MCNames
  OwnName <- MCOwnName
  Texts <- MCTexts
  Contents <- MCContents
  Links <- MCLinks
  Relates <- MCRelates
  FirstNotes <- MCFirstNotes
  Workloads <- MCWorkloads
  MinEdges = 1
  MinSources = 2
  MinEvergreen = 2
  MinMentions = 1
SPECIFICATION Spec
INVARIANTS GardenTypeOK VaultSafe DerivedAgree
CHECK_DEADLOCK FALSE
