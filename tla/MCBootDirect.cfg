\* The application is started without a reset and without waiting.
SPECIFICATION FairBootSpec
CONSTANTS
  p = p
  u = u
  s = s
  NoImage = NoImage
  Blank = Blank
  Garbage = Garbage
  Images <- MCTwoImages
  BlocksOf <- MCBlocksOf
  TailUnread = {}
  TailRepeats = {}
  EntryPoints <- MCEntryPoints
  MinimalBlock = 2
  EndBlock = 4
  AllowPlain = TRUE
  WithDecrypt = FALSE
  WaitTime = 0
  WaitCap = 0
  UsingReset = FALSE
  PORWithoutWaiting = TRUE
  StackOk <- MCStackOk
  Prepared <- MCPrepared
PROPERTIES
  RecoverableByKey
