CONSTANTS
  c1 = c1
  c2 = c2
  NoChar = NoChar
  Chars = {c1, c2}
  Studies <- MCStudies
  Entries <- MCEntries
  MaxTaps = 3
  QueueDepth = 1
  MaxEvents = 4
SPECIFICATION FairSpec
INVARIANTS TypeOK CountsAreHonest LossReachesCore WaitersAreServed
PROPERTIES LinkSpec StudyEnds
