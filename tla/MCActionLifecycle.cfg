SPECIFICATION Spec
CONSTANTS
  t1 = t1
  t2 = t2
  c1 = c1
  Calls = {t1, t2}
  Concepts = {c1}
  Second <- Apart
  Old <- OneDraft
  MaxSuffix = 1
  MaxCalls = 3
  MaxFails = 1
  None = None
INVARIANTS TypeOK EffectOwned ConceptsKnown
PROPERTIES FinalStays EvidenceKept
