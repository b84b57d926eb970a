\* Bytes and responses get lost, the buffers overflow, a command shuts down.
SPECIFICATION FairSpec
CONSTANTS
  SYNC = SYNC
  SEQ_MOD = 3
  MESSAGE_MIN = 2
  RX_SIZE = 5
  TX_SIZE = 2
  Window = 2
  Long = {2}
  MaxMessages = 4
  MaxLost = 1
  MaxShutdowns = 1
INVARIANTS BuffersSound ResponsesInOrder NoLostWakeup
PROPERTIES ImplementsLink
CHECK_DEADLOCK FALSE
