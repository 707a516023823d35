SPECIFICATION Spec
CONSTANTS
  s1 = s1
  s2 = s2
  Session = {s1, s2}
  Mind = {m1, m2}
  MaxConcurrent = 1
  SourceRoot = TRUE
  MaxRestarts = 1
  NoMind = NoMind
  NoSession = NoSession
ACTION_CONSTRAINT Visitor
SYMMETRY MindSymmetry
INVARIANT FinishOutranks
INVARIANT CleanupReceiptTrue
 
PROPERTY TerminalIsFinal
