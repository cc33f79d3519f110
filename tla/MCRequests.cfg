SPECIFICATION FairSpec
CONSTANTS
  a1 = a1
  a2 = a2
  o1 = o1
  o2 = o2
  s1 = s1
  e1 = e1
  e2 = e2
  h1 = h1
  h2 = h2
  h3 = h3
  Absent = Absent
  BaseHash = base
  ZeroHash = zero
  Addr = {a1, a2}
  Owner = {o1}
  Sender = {s1}
  Content = {"c1"}
  ContentPairs <- OneContent
  Expiry = {e1}
  Hash = {h1, h2, h3}
  BaseNumber = 0
  MaxNumber = 2
  MaxId = 2
  MaxBatch = 2
  MaxSealed = 3
PROPERTIES
  ImplementsVisible
  RequestEnds
