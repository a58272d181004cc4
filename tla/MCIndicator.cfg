SPECIFICATION Spec
CONSTANTS
  COUNT = 2
  AVG_NUM = 2
  Capacity = 3
  Close = {1, 2, 4}
  MaxTime = 7
  MaxKlines = 2
INVARIANTS TypeOK WindowsAgree 
PROPERTIES VerdictIsClosed
