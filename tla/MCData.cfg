SPECIFICATION MCSpec
CONSTANTS
  N = 4
  NaN = NaN
  Junk = Junk
  Value <- MCValue
  Start <- MCStart
  Path <- MCPath
  Number = {10, 15, 90}
  MaxInt = 50
INVARIANTS LiveSlots RangeIsContents MINIsTheLoop 
PROPERTIES ImplementsRecent SetIsLocal
