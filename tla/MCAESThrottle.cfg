\* Plain and encrypted transfers, an unaligned image, flash errors and resets.
SPECIFICATION FairThrottleSpec
CONSTANTS
  a = a
  b = b
  NoImage = NoImage
  Blank = Blank
  Garbage = Garbage
  Images <- MCImages
  BlocksOf <- MCBlocksOf
  TailUnread <- MCTailUnread
  TailRepeats <- MCTailUnread
  EntryPoints <- MCEntryPoints
  MinimalBlock = 2
  EndBlock = 6
  AllowPlain = TRUE
  WithDecrypt = TRUE
  WaitTime = 2
  WaitCap = 2
INVARIANTS
  TypeOK
  VerifiedIntact
  OpenTransferIsUnverified
  AckedBlocksProgrammed
  CacheCoherent
PROPERTIES
  FrozenWhileVerified
  VerdictIsPersisted
  EraseOKMeansBlank
  EveryCallEnds
  AESOpensSpaced
  ImplementsCertifiedFlash
