SPECIFICATION Spec
CONSTANTS
  Records <- MCRecords
  StudyLevels <- MCStudyLevels
  Depth = 2
  BufferSlots = 2
  MaxRecords = 4
INVARIANTS
  NothingStranded
CHECK_DEADLOCK FALSE
