SPECIFICATION Spec
CONSTANTS
  t1 = t1
  t2 = t2
  Strategy = t1
  Risk = t2
  Thread <- MCThread
  NoThread = NoThread
  IdLimit = 2
  Lot = 1
  Part = 0
  Origin = 0
  Cash = 1
  MaxDrop = 0
  MaxLate = 1
  WinSize = 1
  Profit <- MCLoss
  NaN = NaN
  Junk = Junk
  MaxRetry = 2
  MaxKline = 1
  MaxInfo = 1
INVARIANTS ExclusiveReply  StuckOnlyIfOvertaken
