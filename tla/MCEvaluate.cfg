SPECIFICATION Spec
CONSTANTS
  a1 = a1
  a2 = a2
  s1 = s1
  h1 = h1
  h2 = h2
  Absent = Absent
  BaseHash = base
  ZeroHash = zero
  Addr = {a1, a2}
  Owner <- Owners
  Sender = {s1}
  Content = {"low", "high"}
  ContentPairs <- WirePairs
  Attributes <- WireAttributes
  Terms <- ShortTerms
  Queries <- SmallQueries
  ScanKeys = {"name", "note", "size", "$createdAtBlock"}
  ScanBounds <- ShortBounds
  ScanPatterns <- ShortPatterns
  ScanNumbers = {0, 1, 4, 15}
  Expiry = {1}
  Hash = {h1, h2}
  BaseNumber = 0
  MaxNumber = 2
  MaxId = 2
  MaxBatch = 1
  MaxSealed = 2
  MaxByte = 3
  NumLen = 2
  Star = 1
  Question = 2
  UpperA = 3
  LowerA = 3
SYMMETRY SymmetryAddrs
INVARIANTS
  StringScanExact
  NumericScanExact
  GlobExact
  TermExact
  QueryExact
