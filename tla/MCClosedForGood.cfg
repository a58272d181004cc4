SPECIFICATION FairSpec
CHECK_DEADLOCK TRUE

PROPERTY ReconnectsOnlyIfNotClosed
