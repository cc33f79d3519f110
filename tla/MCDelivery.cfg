SPECIFICATION DeliverySpec
CONSTANTS
  a1 = a1
  a2 = a2
  h1 = h1
  h2 = h2
  h3 = h3
  Absent = Absent
  BaseHash = base
  ZeroHash = zero
  Addr = {a1, a2}
  Owner = {o1, o2}
  Sender = {s1}
  Content = {"c1"}
  ContentPairs <- OneContent
  Expiry = {e1}
  Hash = {h1, h2, h3}
  BaseNumber = 0
  MaxNumber = 2
  MaxId = 4
  MaxBatch = 1
  MaxSealed = 3
  MaxOps = 2
SYMMETRY Symmetry
INVARIANTS
  RepetitionHarmless
  RevertHeals
