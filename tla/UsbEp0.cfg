\* Three resets of the bus, two aborted transfers, two races with a poll.
SPECIFICATION Spec
CONSTANTS
  PACKET = 2
  ANSWER <- Answer
  SCRIPT <- Script
  ADDRESS = 5
  HUGE = 16
  RESETS = 3
  ABORTS = 2
  RACES = 2
INVARIANTS AnswerIsRight AddressIsAgreed
PROPERTY Enumerated
\* The device is enumerated and the host has nothing more to ask.
CHECK_DEADLOCK FALSE
