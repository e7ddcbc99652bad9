SPECIFICATION MCSpec
CONSTANTS
  Goroutines = {writer, reader}
  Reader = reader
  Nobody = nobody
  Frames <- MCFrames
  Utf8 <- MCUtf8
  maxMessageSize = 2
  Capacity = 1
  MaxIn = 3
  MaxOut = 1
  MaxFaults = 1
CHECK_DEADLOCK FALSE
INVARIANTS FramesAreWhole MessagesAreThePeers
PROPERTIES DialedStaysOpen AbortInterrupts
