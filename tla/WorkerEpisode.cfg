SPECIFICATION FairSpec
CONSTANTS
  Guidance = {1, 2, 3}
  PullLimit = 2
  Call = {c1}
  Body = {b1, b2}
  NoBody = NoBody
  Sourced = TRUE
  MaxCalls = 2
  MaxTurns = 2
  MaxMessages = 5
  MaxLives = 2
CHECK_DEADLOCK FALSE
INVARIANT JournalReplays
INVARIANT GuidanceOnce
PROPERTY AmbiguityStops
PROPERTY EpisodeEnds
