SPECIFICATION Spec
CONSTANTS
  Dut <- MCDut
  Studies <- MCOverlapStudies
  MaxSubs = 2
INVARIANT
  WindowOwnsItsSubscriptions
