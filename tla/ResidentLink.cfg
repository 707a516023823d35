SPECIFICATION FairSpec
CONSTANTS
  Residents = {r1}
  Browsers = {b1}
  MaxConn = 2
  MaxLinks = 1
  MaxSel = 2
  MaxMsg = 1
  MaxAsk = 1
  MaxBuffer = 2
  MaxFaults = 1
  MaxViewers = 1
CHECK_DEADLOCK FALSE
INVARIANT NextFrameAccepted
 
INVARIANT NoGhostClient
PROPERTY SelectionSettles
 
