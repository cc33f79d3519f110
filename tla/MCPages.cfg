SPECIFICATION Spec
CONSTANTS
  k1 = k1
  k2 = k2
  k3 = k3
  n1 = n1
  n2 = n2
  p = p
  r = r
  Nothing = Nothing
  Key = {k1, k2, k3}
  Value = {p, r}
  Name = {n1, n2}
  BaseName = base
  Version = {0, 1, 2}
  Base = 0
  Id = {1, 2, 3}
  Query <- Queries
  PageSize = {3}
  Limit = 2
  BatchLimit = 3
CONSTRAINT OneOther
SYMMETRY Symmetry
INVARIANTS
  SessionExact
  NewestFirst
  CursorIsLastItem
