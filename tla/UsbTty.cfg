\* Half duplex with a command ahead, one flush given up.
SPECIFICATION Spec
CONSTANTS
  RING = 4
  PACKET = 2
  URB = 4
  ANSWERS <- Answers
  REQUESTS <- Requests
  TOKEN = 1
  READY = 3
  AHEAD = 2
  MAX_OUT = 6
  MAX_IN = 5
  TIMEOUTS = 1
INVARIANT ReceiveBlockFits
PROPERTIES OutIsQueue InIsQueue AnswersArrive
\* The program may have nothing more to do once the bounds are reached.
CHECK_DEADLOCK FALSE
