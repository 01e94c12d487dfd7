CONSTANTS
  ca = ca cb = cb cc = cc cx = cx g1 = g1 g2 = g2
  t1 = t1 t2 = t2 t3 = t3 f1 = f1 f2 = f2
  k1 = k1 k2 = k2 wa = wa wb = wb wc = wc wd = wd
  pa = pa pb = pb pc = pc na = na nb = nb nc = nc nd = nd s1 = s1 s2 = s2
  Ids = {ca, cb, cc} Rank <- TheRank Similar <- AB Near <- AC Pages = {cx}
  Rulings <- TheRulings Profiles <- TheProfiles Generators = {g1, g2}
  Beginnings <- TheBeginnings DepthLimit = 1 PolicyNames = {"default", "strict"} MaxDay = 1 Nothing = Nothing
  Texts = {t1, t2, t3} Order <- TheOrder Length <- TheLength Garbled = {t2} Folders = {f1, f2}
  Library <- TheLibrary Wants <- TheWants Row = 1 Newest = 3 MaxMoves = 2 Nowhere = Nowhere
  Compiles = {k1, k2} Orders <- TheOrders Words = {wa, wb, wc, wd} KindWords = {wd}
  Unknown = Unknown Barred = Barred DefaultBudget = 5 LocalCap = 6 Reserve = 3 Marker = 2
  MaxUpdates = 2 MaxTags = 3
  Paths = {pa, pb, pc} Names = {na, nb, nc, nd} OwnName <- TheOwn Contents = {NoContent}
  MinEdges = 1 MinSources = 1 MinEvergreen = 1 MinMentions = 1
  Terms = {s1, s2} Matches <- TheMatches NameOrder <- TheNames Topics <- TheTopics
  Writings <- TheWritings NoteSize = 4 LineSize = 1 Limit = 2 Visible = {pa, pb} Vaults <- TheVaults
  NoPath = NoPath NoContent = NoContent
  ideas = ideas people = people young = young old = old xs = xs ta = ta tb = tb tc = tc
  idea = idea person = person peopl = peopl
  Legacy = {ideas, people} KindOf <- TheKindOf Stages = {young, old} Seedling = young Stems = {xs}
  MaxNumber = 5 Vaults0 <- TheVaults0 MaxTouches = 1 MaxStops = 4
  VaultRoot = VaultRoot Unsaid = Unsaid Theirs = Theirs
  Indexed = {i1, i2} Seen = {i3} Outside = {i4} MaxWrites = 3 MaxSwitches = 2
SPECIFICATION Spec
INVARIANTS CurationSound RetrievalSound   UpkeepSound
SYMMETRY Generic
CHECK_DEADLOCK FALSE
