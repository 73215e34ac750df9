CONSTANTS
  c1 = c1
  c2 = c2
  NoChar = NoChar
  Chars = {c1, c2}
  Studies <- MCStudies
  Entries <- MCEntries
  MaxTaps = 3
  QueueDepth = 2
  MaxEvents = 3
SPECIFICATION Spec
INVARIANT CloseIsComplete
