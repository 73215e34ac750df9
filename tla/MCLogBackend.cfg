SPECIFICATION FairSpec
CONSTANTS
  Records <- MCRecords
  StudyLevels <- MCStudyLevels
  Depth = 2
  BufferSlots = 2
  MaxRecords = 4
INVARIANTS
  TypeOK LinesAccounted BacklogKeepsItsOrder VerbosityContained
PROPERTIES
  NothingHangs
\* A fatal error stops the bench for good.
CHECK_DEADLOCK FALSE
