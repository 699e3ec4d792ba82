\* Updates over a line that loses requests and answers, with other files opened
\* in the middle of them.
SPECIFICATION SessionSpec
VIEW MCView
CONSTANTS
  a = a
  b = b
  NoImage = NoImage
  Blank = Blank
  Garbage = Garbage
  Images <- MCImages
  BlocksOf <- MCBlocksOf
  TailUnread = {}
  TailRepeats = {}
  EntryPoints = {2}
  MinimalBlock = 2
  EndBlock = 4
  AllowPlain = FALSE
  WithDecrypt = TRUE
  WaitTime = 1
  WaitCap = 1
  AddressSpace = 16
  EntryOf <- MCEntryOf
  CryptoOf <- MCCryptoOf
  Inconsistent = {}
  WireCap = 1
  MaxDepth = 2
  Nested = {"file"}
SYMMETRY MCSymmetry
INVARIANTS
  SessionTypeOK
  ErasesOnlyKnownDevice
  InStep
PROPERTIES
  ReportIsTrue
