SPECIFICATION Spec
CONSTANTS
  Cols = {c1}
  Recs = {r1, r2}
  Asts = {a1}
  Scopes = {"global"}
  Tenants = {t1}
  Keys = {k1, k2}
  BLANK = BLANK
  Descriptors = {d1, d2}
  Junk = {junk}
  Providers = {p1}
  MaxClones = 0
  MaxRows = 4
  NULL = NULL
  MaxIterations = 2
  MaxCalls = 2
  MaxEdits = 1
  Histories <- ClientHistories
CHECK_DEADLOCK FALSE
INVARIANTS
  AlwaysAccepted
  DescriptorsNeverFail
  EffectsTraced
  NamesUnique
PROPERTIES
  RunSpec
  Terminates
