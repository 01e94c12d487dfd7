SPECIFICATION Spec
CONSTANTS
  c1 = c1
  c2 = c2
  c3 = c3
  c4 = c4
  nx = nx
  ny = ny
  n1 = n1
  d1 = d1
  p1 = p1
  r1 = r1
  r2 = r2
  d2 = d2
  a1 = a1
  a2 = a2
  a3 = a3
  Concepts = {c1, c2, c3, c4}
  Names = {nx, ny}
  Notes = {n1}
  Decisions = {d1, d2}
  Subjects <- Apart
  Actions = {a1, a2, a3}
  Plans <- SomePlans
  InitActive <- Three
  InitTags <- TheTags
  InitNames <- TheNames
  MaxFaults = 1
  RedirectLimit = 2
  Proposals = {p1}
  Drafts <- TheDrafts
  Reviewed <- OnePlan
  Reviewers = {r1, r2}
  MaxReviews = 2
  None = None
INVARIANTS ReviewTypeOK EndsAreEarned  MeaningKept
PROPERTIES ForbiddenMergesStop
SYMMETRY Alike
CHECK_DEADLOCK FALSE
