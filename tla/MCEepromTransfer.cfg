\* EEPROM actions over a line that loses requests and answers, with another
\* file written in the middle of one.
SPECIFICATION TransferSpec
CONSTANTS
  Start = 8
  End = 11
  Narrow16 = 8
  Byte = {0, 1}
  Erased = 0
  Word = 2
  BlockMax = 2
  SizeMax = 2
  Files <- MCFiles
  WireCap = 1
  MaxDepth = 2
  Nested = {"write"}
INVARIANTS
  EepromTypeOK
PROPERTIES
  AckedBytesProgrammed
  ReadIsTrue
  WriteIsTrue
  VerifyIsTrue
