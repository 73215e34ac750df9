CONSTANTS
  Session <- MCSession
  Payload <- MCPayload
  SourceIds <- MCSources
  Jobs <- MCJobs
  QueueSlots = 2
  MaxFrames = 4
SPECIFICATION FairSpec
INVARIANTS TypeOK EveryFrameAccounted FramesInOrder TimeoutsAreKept VerdictIsEarned
PROPERTIES WalkSpec RunEnds
