SPECIFICATION HandlerSpec
CONSTANTS
  Request = q
  Records = {q, b1, b2}
  Invalid = {b1}
  Unstorable = {b2}
  MaxQueue = 2
  BatchSize = 2
  MaxChunks = 2
INVARIANTS
  QueueKeepsOrder
  SamplingDecides
  RecordCarriesWhatItMay
PROPERTIES
  ImplementsDelivery
  RequestEnds
CHECK_DEADLOCK FALSE
