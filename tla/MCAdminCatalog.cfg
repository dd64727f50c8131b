SPECIFICATION Spec
CONSTANTS
  Cols = {c1}
  Recs = {r1}
  Asts = {a1, a2}
  Scopes = {"global", "tenant", "team"}
  Tenants = {t1, t2}
  Keys = {k1}
  BLANK = BLANK
  Descriptors = {d1}
  Junk = {junk}
  Providers = {p1}
  MaxClones = 1
  MaxRows = 4
  Rets = {q1}
  Docs = {e1}
  NULL = NULL
SYMMETRY Symmetry
INVARIANTS
  OwnerMatchesScope
  StoredDescriptorsValid
  AssistantsNameProviders
  ListsOwnRows
PROPERTIES
  RowsKeepTheirOwner
