SPECIFICATION FairSpec
CONSTANTS
  Dut <- MCDut
  Studies <- MCStudies
  MaxSubs = 2
INVARIANTS
  TypeOK OrphansHaveACause NothingStaysArmed FiledUnderItsOwn
PROPERTIES
  StudyEnds
