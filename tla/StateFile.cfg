CONSTANTS
  poll = poll
  release = release
  queue = queue
  Proc <- MCProc
  Reader <- MCReader
  Nobody = nobody
  MaxUpdates = 2
SYMMETRY WriterSymmetry
SPECIFICATION Spec
INVARIANTS
  ReaderSeesSaved
  SessionIsCurrent
PROPERTIES
  SerialSpec
