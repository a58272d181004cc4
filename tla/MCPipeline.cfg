SPECIFICATION FairSpec
CONSTANTS
  kline = kline
  info = info
  order = order
  Walks = {kline}
  Finds = {info}
  Heads = {order}
  Io = Io
  NoChannel = NoChannel
  Document <- MCDocument
  MaxDocs = 2
CHECK_DEADLOCK FALSE
INVARIANTS Consistent ReadsAsSent
PROPERTIES  EventuallyRead
