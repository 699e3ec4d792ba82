\* An image whose stack overlaps the shared memory is launched all the same.
SPECIFICATION BootSpec
CONSTANTS
  p = p
  u = u
  s = s
  NoImage = NoImage
  Blank = Blank
  Garbage = Garbage
  Images <- MCImages
  BlocksOf <- MCBlocksOf
  TailUnread = {}
  TailRepeats = {}
  EntryPoints <- MCEntryPoints
  MinimalBlock = 2
  EndBlock = 4
  AllowPlain = TRUE
  WithDecrypt = FALSE
  WaitTime = 0
  WaitCap = 0
  UsingReset = TRUE
  PORWithoutWaiting = TRUE
  StackOk <- MCStackOk
  Prepared <- MCPrepared
INVARIANTS
  LaunchedAppIsPrepared
