CONSTANTS
  WordSize = 32
  PageSize = 4
  PageCount = 4
  NodeCount = 3
  Allowed = {0, 1, 2, 3}
  Populated = {0, 2, 3}
  AskedNodes = {0, 1, 2, 3}
  Unmapped = Unmapped
  Interleaved = Interleaved
SPECIFICATION Spec
INVARIANTS TypeOK BlocksBacked BytesWhereSent
