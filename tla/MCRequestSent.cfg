SPECIFICATION Spec
CONSTANTS
  t1 = t1
  t2 = t2
  Strategy = t1
  Risk = t2
  Thread <- MCThread
  NoThread = NoThread
  IdLimit = 3
  Lot = 2
  Part = 1
  Origin = 2
  Cash = 2
  MaxDrop = 1
  MaxLate = 0
  WinSize = 1
  Profit <- MCProfit
  NaN = NaN
  Junk = Junk
  MaxRetry = 2
  MaxKline = 1
  MaxInfo = 1
INVARIANT RequestSent
