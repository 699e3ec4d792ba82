----------------------------- MODULE ImageFiles -----------------------------
(***************************************************************************)
(* The image file between creator and host: written from whatever settings *)
(* the creator may have, perhaps damaged on its way, and loaded by the     *)
(* host over the image it had loaded before (Bootloader::loadFile).        *)
(***************************************************************************)
EXTENDS FirmwareEncoder, Plausibility

CONSTANTS
  MaxDamage,   \* fields and nodes of a file that are damaged at most
  Devices,     \* device descriptors, addresses as numbers
  Other        \* another value than any a field has

\* Addresses have 32 bits, those of a hex file too.
ASSUME FilesAssumption ==
  /\ MaxDamage \in Nat
  /\ \A dev \in Devices : {dev.minimalFirmwareEntryPoint, dev.availFlashSize} \subseteq Nat
  /\ \A r \in Roots, n \in AppNames : DOMAIN AppHex[r][n] \subseteq 0 .. AddressSpace - 1

VARIABLES
  file,         \* the image file
  damaged,      \* its damages
  fwImage,      \* the host's FirmwareImage
  fileLoaded

filesVars == <<file, damaged, fwImage, fileLoaded>>

FilesInit ==
  /\ file = NoFile
  /\ damaged = 0
  /\ fwImage = ClearedImage
  /\ fileLoaded = FALSE

\* The image files the creator may write, whatever comes of reading its
\* sources; of the window only the radio buttons matter.
Written ==
  {save_compiled_image(Prepared(s, key, ZeroIV)) :
     s \in [chosen : [crypto : {"plain", "aes"}], absolute : Paths], key \in Keys \union {NoKey}}

Create ==
  /\ file' \in Written
  /\ damaged' = 0
  /\ UNCHANGED <<fwImage, fileLoaded>>

\* The hash of contents nobody has: there is at most one binary to hash.
NoHash == <<Other, Other>>

\* A node of the file is gone, or a value is another one or none. Whatever
\* becomes of the checksum, it is not that of any contents.
Damage ==
  /\ damaged < MaxDamage /\ file # NoFile
  /\ \/ \E node \in file.nodes : file' = [file EXCEPT !.nodes = @ \ {node}]
     \/ \E f \in Range(Attributes) \ {"crypto"}, v \in {Other, Bad} :
          file' = [file EXCEPT !.data.meta[f] = v]
     \/ \E c \in {"plain", "aes", "bad"} : file' = [file EXCEPT !.data.meta.crypto = c]
     \/ file' = [file EXCEPT !.data.iv = NoIV]
     \/ file' = [file EXCEPT !.data.sha = <<<<Other>>>>]
     \/ file' = [file EXCEPT !.data.binary.plain = [@ EXCEPT ![1] = Other]] /\ file.data.binary.plain # <<>>
     \/ file' = [file EXCEPT !.check.sha = NoHash]
  /\ damaged' = damaged + 1
  /\ UNCHANGED <<fwImage, fileLoaded>>

\* Mutated form of loadFile: an image that is not valid is not cleared.
loadFileMutant ==
  LET loaded == load_compiled_image(fwImage, file) IN
  /\ fileLoaded' = TRUE
  /\ fwImage' = loaded.image
  /\ UNCHANGED <<file, damaged>>

\* Bootloader::loadFile
loadFile ==
  LET loaded == load_compiled_image(fwImage, file) IN
  /\ fileLoaded' = loaded.ok
  /\ fwImage' = IF loaded.ok THEN loaded.image ELSE clear(loaded.image)
  /\ UNCHANGED <<file, damaged>>

FilesNext == Create \/ Damage \/ loadFile

FilesSpec == FilesInit /\ [][FilesNext]_filesVars

-----------------------------------------------------------------------------
\* The variables have their types; an image that counts as loaded is valid
\* (bootloader.cpp:552).
FilesTypeOK ==
  /\ damaged \in 0 .. MaxDamage
  /\ fileLoaded \in BOOLEAN
  /\ fileLoaded => isValid(fwImage)

\* The images the creator can make of its sources.
CreatorImages ==
  {save_compiled_image(fw).data : fw \in UNION {
     LET plain == load_plain_image(Headers[r], Symbols[r], AppHex[r][n])
     IN {plain} \union {Encrypted(plain, k, ZeroIV) : k \in Keys} : r \in Roots, n \in AppNames}}

\* What the host holds as a consistent image is one that a creator has made,
\* in every field, however the file was damaged and whatever was loaded
\* before: fields that cannot be read keep their value from the image before,
\* and nobody asks whether they could (firmwareimage.cpp:191).
LoadedIsGenuine ==
  fileLoaded /\ fwImage.consistent => createXML_for_checksum(fwImage) \in CreatorImages

\* programmerInitFirmwareTransfer with addresses as numbers, for a device
\* that decrypts: its end of the flash is what its descriptor adds up to.
RefusedByDevice(dev, meta) ==
  \/ meta.entryPoint < dev.minimalFirmwareEntryPoint
  \/ (meta.entryPoint + meta.size) % AddressSpace
       > (dev.minimalFirmwareEntryPoint + dev.availFlashSize) % AddressSpace
  \/ meta.crypto = "plain" /\ dev.cryptoRequired

\* The image as checkPlausibility sees it
MetaDataOf(fw) ==
  [entryPoint |-> fw.meta.entryPoint, size |-> fw.meta.size,
   crypto |-> IF fw.meta.crypto = "plain" THEN "Plain" ELSE "AES",
   consistent |-> fw.consistent, nameCRC16 |-> fw.meta.name,
   gitDate |-> fw.meta.gitdate, githash |-> fw.meta.githash, version |-> fw.meta.version]

\* An image that is plausible for a device will not be refused by it once its
\* old firmware is erased, and lies between the end of the bootloader and the
\* end of the flash, although both sides add addresses in 32 bits
\* (flashresultdocumentation.cpp:433 and programmer.c:255). One kind of image
\* slips through: its last byte is at the last address, so that its end wraps.
PlausibleIsAccepted ==
  \A dev \in Devices :
    fileLoaded /\ (\A r \in checkPlausibility(dev, MetaDataOf(fwImage)) : ~plausibilityResultIsError(r)) =>
      /\ ~RefusedByDevice(dev, fwImage.meta)
      /\ \/ fwImage.meta.entryPoint + fwImage.meta.size
              <= dev.minimalFirmwareEntryPoint + dev.availFlashSize
         \/ fwImage.meta.entryPoint + fwImage.meta.size = AddressSpace
=============================================================================
