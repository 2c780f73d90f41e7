SPECIFICATION FairSpec
CONSTANTS
  Reader = Reader
  Closers = {c1}
  Finalizers = {f1}
  MaxChunks = 2
PROPERTY
  ClosedStreamIsReported
