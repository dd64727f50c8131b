SPECIFICATION Spec
CONSTANTS
  Goroutines = {g1, g2, g3}
  Ids = {i1, i2}
  Exts = {e1, e2, e3}
  NULL = NULL
SYMMETRY Symmetry
INVARIANTS
  TypeOK
  NoNilMapWrite
  ExternalIdUnique
  FreshMapsLoseNothing
PROPERTIES
  ServiceSpec
