\* From reset to reset: the loop waits for the host before it starts the
\* application through a reset.
SPECIFICATION FairBootSpec
CONSTANTS
  p = p
  u = u
  s = s
  NoImage = NoImage
  Blank = Blank
  Garbage = Garbage
  Images <- MCImages
  BlocksOf <- MCBlocksOf
  TailUnread = {}
  TailRepeats = {}
  EntryPoints <- MCEntryPoints
  MinimalBlock = 2
  EndBlock = 4
  AllowPlain = TRUE
  WithDecrypt = FALSE
  WaitTime = 0
  WaitCap = 0
  UsingReset = TRUE
  PORWithoutWaiting = FALSE
  StackOk <- MCStackOk
  Prepared <- MCPrepared
INVARIANTS
  LaunchOnlyVerified
PROPERTIES
  BootKeepsVerdict
  UpdateRequestHonoured
  LaunchableIsLaunched
