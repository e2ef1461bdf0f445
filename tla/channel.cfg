CONSTANTS
  empty = empty
  full = full
  Message = {empty, full}
  BodyLength <- MCBodyLength
  HeaderSize = 2
  SocketBuffer = 3
  MaxMessages = 3
  MaxConnections = 3
SPECIFICATION ChannelSpec
PROPERTY ImplementsFifo
CHECK_DEADLOCK FALSE
