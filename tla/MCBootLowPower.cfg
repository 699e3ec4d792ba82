\* A low-power reset flag keeps the loop from starting the application.
SPECIFICATION FairBootSpec
CONSTANTS
  p = p
  u = u
  s = s
  NoImage = NoImage
  Blank = Blank
  Garbage = Garbage
  Images <- MCTwoImages
  BlocksOf <- MCBlocksOf
  TailUnread = {}
  TailRepeats = {}
  EntryPoints <- MCEntryPoints
  MinimalBlock = 2
  EndBlock = 4
  AllowPlain = TRUE
  WithDecrypt = FALSE
  WaitTime = 0
  WaitCap = 0
  UsingReset = TRUE
  PORWithoutWaiting = FALSE
  StackOk <- MCStackOk
  Prepared <- MCPrepared
PROPERTIES
  AnnouncedStartHappens
