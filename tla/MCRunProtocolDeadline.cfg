CONSTANTS
  Session <- MCSession
  Payload <- MCPayload
  SourceIds <- MCSources
  Jobs <- MCJobs
  QueueSlots = 1
  MaxFrames = 4
SPECIFICATION Spec
INVARIANT TimeoutCountsFromEntry
