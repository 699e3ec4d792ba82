\* Order and completeness of both directions, and that the transmitter falls silent.
SPECIFICATION FairSerialSpec
CONSTANTS
  x = x
  y = y
  Stale = Stale
  Bytes <- MCBytes
  Size = 2
INVARIANTS
  SerialTypeOK
  TestedByteIsThere
PROPERTIES
  TxIsQueue
  RxIsQueue
  ReceivedIsKept
  InterruptQuiets
