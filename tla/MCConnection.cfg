SPECIFICATION FairSpec
CHECK_DEADLOCK TRUE
INVARIANTS TypeOK 
PROPERTIES ImplementsLink Reconnects CloseReturns CleanClose
