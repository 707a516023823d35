CONSTANTS
  NoMsg = NoMsg
  Dark = Dark
  Msgs = {m1, m2, m3}
  HomeMsgs = {m1, m2}
  ActivatedAt = 2
  MaxTime = 2
  MaxBack = 1
  MaxCrash = 2
  MaxDeliveries = 2
SPECIFICATION LiveSpec
INVARIANT AtMostOnce
INVARIANT ReceiptsTruthful
INVARIANT NoSilentDrop
INVARIANT CleanupGoesThrough
PROPERTY ImplementsReply
PROPERTY EventuallySettled
CHECK_DEADLOCK FALSE
