CONSTANTS
  MaxTask = 12
  MaxCall = 2
  MaxTime = 3
  MaxCrash = 1
  MaxFault = 1
  Shape <- Tasks
  WakeDelay = {1}
SPECIFICATION Spec
INVARIANT TimerCovers
INVARIANT ReminderNags
INVARIANT WakeOnce
