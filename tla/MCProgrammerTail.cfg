\* The rest of an unaligned image is not hashed.
SPECIFICATION Spec
CONSTANTS
  a = a
  b = b
  NoImage = NoImage
  Blank = Blank
  Garbage = Garbage
  Images <- MCImages
  BlocksOf <- MCBlocksOf
  TailUnread <- MCTailUnread
  TailRepeats <- MCTailUnread
  EntryPoints <- MCEntryPoints
  MinimalBlock = 2
  EndBlock = 6
  AllowPlain = TRUE
  WithDecrypt = FALSE
  WaitTime = 1
  WaitCap = 1
INVARIANTS
  VerifiedIsWhole
