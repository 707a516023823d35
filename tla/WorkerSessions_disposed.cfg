SPECIFICATION Spec
CONSTANTS
  s1 = s1
  s2 = s2
  Session = {s1}
  Mind = {m1}
  MaxConcurrent = 1
  SourceRoot = TRUE
  MaxRestarts = 1
  NoMind = NoMind
  NoSession = NoSession
PROPERTY DisposedNeverWrites
