SPECIFICATION FairSpec
CONSTANTS
  s1 = s1
  s2 = s2
  Session = {s1}
  Mind = {m1}
  MaxConcurrent = 1
  SourceRoot = FALSE
  MaxRestarts = 1
  NoMind = NoMind
  NoSession = NoSession
ACTION_CONSTRAINT PodsFail
PROPERTY EventuallyClosed
