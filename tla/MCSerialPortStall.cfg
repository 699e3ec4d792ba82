\* The transmitter stops with bytes waiting.
SPECIFICATION SerialSpec
CONSTANTS
  x = x
  y = y
  Stale = Stale
  Bytes <- MCByte
  Size = 2
INVARIANTS
  TransmitterRuns
