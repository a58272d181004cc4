SPECIFICATION FairSpec
CONSTANTS
  Producer = {p1, p2}
  Consumer = {t1, t2}
  Item = {a, b}
  NoItem = NoItem
  MaxLen = 2
CHECK_DEADLOCK TRUE
INVARIANTS TypeOK NoLostWakeup
PROPERTY ImplementsAtomic
