--------------------------- MODULE FirmwareEncoder ---------------------------
(***************************************************************************)
(* The class FirmwareImageContainer of the image creator: from settings to *)
(* an image and a bundle. Settings are a record: "chosen" is what the      *)
(* window shows, "absolute" the paths the files are read from, a directory *)
(* and names in it.                                                        *)
(***************************************************************************)
EXTENDS FirmwareImage

CONSTANTS
  Roots,       \* the directories
  AppNames,    \* names of hex files of the application
  NoName,      \* a text field that is empty
  KeyName,     \* a name for the key file
  Keys,        \* the keys that may be created
  AppHex,      \* AppHex[root][name]: hex file of the application
  BootHex,     \* BootHex[root]: hex file of the bootloader
  Headers,     \* Headers[root]: header files with the version information
  Symbols      \* Symbols[root]: symbol file of the bootloader

\* Addresses are numbers, and those of a file that has any have a last one.
HexAddresses(file) ==
  Readable(file) => \E last \in DOMAIN file : DOMAIN file \subseteq 0 .. last

ASSUME EncoderAssumption == \A r \in Roots :
  /\ HexAddresses(BootHex[r]) /\ \A n \in AppNames : HexAddresses(AppHex[r][n])
  /\ Symbols[r] \notin {Missing, <<>>} => Symbols[r][1][2] \in Nat

Selections == [app : AppNames \union {NoName}, key : {KeyName, NoName},
               crypto : {"plain", "aes"}, bundle : BOOLEAN]
Paths      == [root : Roots, app : AppNames \union {NoName}, key : {KeyName, NoName}]

NoBundle == [lines |-> <<>>, bytes |-> <<>>]

\* The paths are followed; a text field that is empty names a directory.
AppAt(s) == IF s.absolute.app = NoName THEN <<>> ELSE AppHex[s.absolute.root][s.absolute.app]

\* AESKeyFile::open and isValid of a key file that holds key, or none
KeyAt(s, key) == IF s.absolute.key = NoName THEN NoKey ELSE key

Encrypted(fw, key, iv) ==
  [fw EXCEPT !.meta.crypto = "aes", !.aes128_iv = iv,
             !.binary_encoded = [key |-> key, iv |-> iv, plain |-> fw.binary_plain]]

FromSources(s) ==
  load_plain_image(Headers[s.absolute.root], Symbols[s.absolute.root], AppAt(s))

\* Mutated form of Succeeds: a key that cannot be read is passed over.
SucceedsMutant(s, key) == TRUE

\* Only the key decides; that the sources could not be read is forgotten.
Succeeds(s, key) == s.chosen.crypto = "aes" => KeyAt(s, key) # NoKey

\* The image load_plain_image of the container leaves, with a random vector
Prepared(s, key, iv) ==
  IF s.chosen.crypto = "aes" /\ Succeeds(s, key)
  THEN Encrypted(FromSources(s), KeyAt(s, key), iv) ELSE FromSources(s)

\* The bootloader, its descriptor and the application in one file. Whatever
\* cannot be read or overlaps is left out.
Bundled(s, fw) ==
  LET boot  == append_hex_file(ClearedHex, BootHex[s.absolute.root])
      known == overwrite_binary(boot, compile_firmware_descriptor_binary(fw),
                                fw.descriptorAddress)
  IN append_hex_file(known, AppAt(s))

\* The file as the suffix of its name asks for; any other suffix is refused.
Dumped(hexfile, suffix) ==
  CASE suffix = "hex" -> [NoBundle EXCEPT !.lines = get_hex_file(hexfile)]
    [] suffix = "bin" -> [NoBundle EXCEPT !.bytes = hexfile.binary_m]
    [] OTHER          -> NoBundle

\* The descriptor of an image without a hash fails an assertion.
AssertionHolds(s, fw) == s.chosen.bundle => fw.sha256 # <<>>
=============================================================================
