SPECIFICATION FairSpec
CONSTANTS
  Freeze = f
  Thread = {f, u}
  NoThread = NoThread
  IdLimit = 2
  Lot = 1
  Part = 0
  Origin = 0
  Cash = 1
  MaxDrop = 1
  MaxLate = 0
  MaxRetry = 3
CHECK_DEADLOCK FALSE
INVARIANTS TypeOK OwnReply
PROPERTIES CallsReturn StopEnds ExitCloses 
