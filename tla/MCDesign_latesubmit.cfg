SPECIFICATION MCSpec
CONSTANTS
  Parts = {"batcher"}
  r1 = r1  r2 = r2  r3 = r3  c1 = c1  c2 = c2
  a = a  b = b  Bos = bos  Eos = eos  x = x  y = y
  s1 = s1  s2 = s2  s3 = s3  p1 = p1  p2 = p2  p3 = p3
  Requests <- MCRequests
  Closers <- MCClosers
  MaxBatch = 2
  Tokens <- MCTokens
  StartIds <- MCStartIds
  MaxLen = 5
  Guesses = 2
  Ngram = 1
  Writers <- MCWriters
  MaxRecords = 3
  MaxTrouble = 2
  Known <- MCKnown
  Defaults <- MCDefaults
  MaxRegister = 1
  FeatureNames <- MCFeatures
  ReferenceLists <- MCReferences
  ParamNames <- MCParams
CHECK_DEADLOCK FALSE
INVARIANTS
  ShutdownResolvesPending
