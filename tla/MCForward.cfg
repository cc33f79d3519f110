SPECIFICATION Spec
CONSTANTS
  a1 = a1
  a2 = a2
  o1 = o1
  o2 = o2
  s1 = s1
  e1 = e1
  e2 = e2
  h1 = h1
  h2 = h2
  h3 = h3
  Absent = Absent
  BaseHash = base
  ZeroHash = zero
  Addr = {a1, a2}
  Owner = {o1, o2}
  Sender = {s1}
  Content = {"c1", "c2"}
  ContentPairs <- TwoContents
  Expiry = {e1, e2}
  Hash = {h1, h2}
  BaseNumber = 0
  MaxNumber = 2
  MaxId = 2
  MaxBatch = 1
  MaxSealed = 2
SYMMETRY SymmetryForward
INVARIANTS
  TypeOK
  HistoryFaithful
  IndexExact
