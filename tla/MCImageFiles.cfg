\* The creator's settings, keys, images and bundles, and the host that loads
\* the images, damaged or not.
SPECIFICATION MCSpec
VIEW MCView
CONSTANTS
  Segment = 4
  MAXHEXLINE = 3
  NoKey = NoKey
  NoIV = NoIV
  ZeroIV = ZeroIV
  CryptBlock = 4
  Roots = {"home", "copy"}
  AppNames = {"app", "top"}
  NoName = NoName
  KeyName = KeyName
  Keys = {key}
  AppHex <- MCAppHex
  BootHex <- MCBootHex
  Headers <- MCHeaders
  Symbols <- MCSymbols
  AddressSpace = 32
  MaxDamage = 1
  Devices <- MCDevices
  Other = 1
INVARIANTS
  CreatorTypeOK
  FilesTypeOK
  PathsAsStored
  LoadedIsGenuine
  PlausibleIsAccepted
PROPERTIES
  NoSilentPlain
  BundleKeepsAddresses
