----------------------------- MODULE Programmer -----------------------------
(***************************************************************************)
(* The firmware programmer of the bootloader: mcu/src/programmer.c with    *)
(* the descriptor page and the application flash of port_flash.c.          *)
(*                                                                         *)
(* The flash is an array of half pages (128 bytes, the unit of             *)
(* FLASH_ProgramHalfPage and of one transmitted block); a page, the unit   *)
(* of an erase, is two of them. The descriptor page is kept apart in       *)
(* "stored". A handler runs to completion in the main loop, so only a loss *)
(* of power, a reset or a flash error can come between two of its steps:   *)
(* a handler that changes persistent memory more than once is split at     *)
(* exactly those writes, and "pc" says which one is next.                  *)
(*                                                                         *)
(* The module allows the functions of programmer.h to be called in any     *)
(* order; the order main.c calls them in is the subject of module Boot.    *)
(***************************************************************************)
EXTENDS Integers

CONSTANTS
  Images,        \* firmware images a host may send
  NoImage,       \* img of a descriptor record that was never written
  BlocksOf,      \* BlocksOf[i]: number of half pages image i fills
  TailUnread,    \* images of size % 4 # 0 whose last half page holds only
                 \* the rest that portFlashRead refuses to read
  TailRepeats,   \* those whose unread rest repeats the chunk before it
  MinimalBlock,  \* MINIMAL_APPLICATION_ADDRESS, in half pages
  EndBlock,      \* FLASH_END_ADDR, in half pages
  EntryPoints,   \* entry points a host may ask for, in half pages
  AllowPlain,    \* BOOTLOADER_ALLOW_PAIN_TEXT_COMMUNICATION
  WithDecrypt,   \* BOOTLOADER_WITH_DECRYPT_SUPPORT
  WaitTime,      \* BOOTLOADER_AES_REINITIALISATION_WAITTIME_s
  WaitCap,       \* 0xFFFF, where the wait counter saturates
  Blank,         \* an erased half page
  Garbage        \* a half page that holds neither zeros nor a block sent

ASSUME ImagesAssumption ==
  /\ NoImage \notin Images
  /\ BlocksOf \in [Images -> Nat \ {0}]
  /\ TailUnread \subseteq Images
  /\ TailRepeats \subseteq TailUnread
  /\ \A i \in TailRepeats : BlocksOf[i] > 1

ASSUME FlashAssumption ==
  /\ MinimalBlock \in Nat /\ EndBlock \in Nat
  /\ 0 < MinimalBlock /\ MinimalBlock < EndBlock
  /\ MinimalBlock % 2 = 0 /\ EndBlock % 2 = 0
  /\ EntryPoints \subseteq Nat

ASSUME ConfigAssumption ==
  /\ AllowPlain \in BOOLEAN /\ WithDecrypt \in BOOLEAN
  /\ AllowPlain \/ WithDecrypt
  /\ WaitTime \in Nat /\ WaitCap \in Nat /\ WaitTime <= WaitCap

ASSUME CellAssumption ==
  /\ Blank # Garbage
  /\ Blank \notin Images \X Nat /\ Garbage \notin Images \X Nat

-----------------------------------------------------------------------------
VARIABLES
  flash,                  \* the application half pages
  stored,                 \* the descriptor page, as programer_readMetaData sees it
  firmwareMetaData,       \* its copy in RAM
  firmware_meta_is_valid,
  transferIsInitialized,
  writePointer,           \* programmWritePointerAddress, in half pages
  cbc,                    \* the last ciphertext block the CBC decryption consumed
  waitTime,               \* programmer_AES_reinitialization_wait_time_s
  pc,                     \* the next step of the function that is running
  job,                    \* the function that is saving the descriptor
  erasePos,               \* next half page portFlashEraseApplication erases
  result                  \* what the last function call returned

persistent == <<flash, stored>>
transfer   == <<writePointer, cbc>>
vars == <<flash, stored, firmwareMetaData, firmware_meta_is_valid,
          transferIsInitialized, writePointer, cbc, waitTime,
          pc, job, erasePos, result>>

AppBlocks == MinimalBlock .. EndBlock - 1
Cells     == (Images \X Nat) \union {Blank, Garbage}
Crypto    == {"Plain", "AES"}
Results   == {"none", "OK", "Fail", "TryAgainLater"}

\* firmware_meta_data_t; the descriptor's size and sha256 are those of img.
MetaData == [img : Images, entry : AppBlocks, crypto : Crypto,
             verified : BOOLEAN, byCrypto : BOOLEAN]

\* A descriptor page whose CRC does not match: erased, half written or
\* destroyed by programmer_destroyMetaData (all zero, and so is its CRC).
ZeroMeta == [img |-> NoImage, entry |-> 0, crypto |-> "Plain",
             verified |-> FALSE, byCrypto |-> FALSE]
CrcOK(m) == m.img # NoImage

Fresh == <<NoImage, 0>>      \* key and iv are loaded, no block was decrypted

SaveSteps == {"erase_descriptor", "write_first_half", "write_second_half"}
Steps     == SaveSteps \union {"off", "idle", "erase_app", "hung"}
Jobs      == {"none", "destroy", "erase", "open", "verify"}

TypeOK ==
  /\ flash \in [AppBlocks -> Cells]
  /\ stored \in MetaData \union {ZeroMeta}
  /\ firmwareMetaData \in MetaData \union {ZeroMeta}
  /\ firmware_meta_is_valid \in BOOLEAN
  /\ transferIsInitialized \in BOOLEAN
  /\ writePointer \in 0 .. EndBlock
  /\ cbc \in (Images \union {NoImage}) \X Nat
  /\ waitTime \in 0 .. WaitCap
  /\ pc \in Steps
  /\ job \in Jobs
  /\ erasePos \in 0 .. EndBlock
  /\ result \in Results

-----------------------------------------------------------------------------
\* The last half page of an unaligned image holds bytes Verify cannot read.
Readable(i, k) == ~(i \in TailUnread /\ k = BlocksOf[i] - 1)

\* Every half page of the image that Verify reads is in the flash.
ReadableIntact(fl, m) ==
  \A k \in 0 .. BlocksOf[m.img] - 1 :
     Readable(m.img, k) => fl[m.entry + k] = <<m.img, k>>

\* The whole image is in the flash.
WholeIntact(fl, m) ==
  \A k \in 0 .. BlocksOf[m.img] - 1 : fl[m.entry + k] = <<m.img, k>>

\* The sha256 programmerVerify calculates is the one of the descriptor. Where
\* portFlashRead refuses the last size % 4 bytes the buffer still holds the
\* chunk before, which is hashed in their place.
HashMatches(fl, m) ==
  /\ ReadableIntact(fl, m)
  /\ m.img \in TailUnread => m.img \in TailRepeats

\* What AES128_CBC_decrypt_buffer makes of ciphertext block k of image i: its
\* plain text only if the block before it was the last one decrypted.
Decrypt(i, k) ==
  IF \/ k = 0 /\ cbc = Fresh /\ i = firmwareMetaData.img
     \/ k > 0 /\ cbc = <<i, k - 1>>
  THEN <<i, k>> ELSE Garbage

\* What FLASH_ProgramHalfPage may leave in a half page that held old, and
\* whether it reports FLASH_COMPLETE. An erased half page is programmed
\* correctly or an error is reported; over old content anything may remain.
ProgramHalfPage(old, data) ==
  {<<TRUE, data>>, <<FALSE, old>>, <<FALSE, Garbage>>, <<FALSE, data>>}
    \union (IF old = Blank THEN {} ELSE {<<TRUE, old>>, <<TRUE, Garbage>>})

-----------------------------------------------------------------------------
Init ==
  /\ flash = [b \in AppBlocks |-> Blank]
  /\ stored = ZeroMeta
  /\ firmwareMetaData = ZeroMeta
  /\ firmware_meta_is_valid = FALSE
  /\ transferIsInitialized = FALSE
  /\ writePointer = 0
  /\ cbc = Fresh
  /\ waitTime = 0
  /\ pc = "off"
  /\ job = "none"
  /\ erasePos = 0
  /\ result = "none"

\* No function of programmer.c is running: the main loop may call one.
Idle == pc = "idle"

\* The call returns r without another write to persistent memory.
Return(r) ==
  /\ result' = r
  /\ pc' = "idle"
  /\ job' = "none"
  /\ erasePos' = 0

\* The call j goes on to save firmwareMetaData (its new value) to the
\* descriptor page.
SaveDescriptorFor(j) ==
  /\ pc' = "erase_descriptor"
  /\ job' = j
  /\ erasePos' = 0
  /\ result' = "none"

\* Mutated form of Hang: a save that fails is tried again, for ever.
HangMutantRetriesSave ==
  /\ pc' = "erase_descriptor"
  /\ UNCHANGED <<flash, firmwareMetaData, firmware_meta_is_valid, job,
                 transferIsInitialized, transfer, waitTime, erasePos, result>>

\* assert() failed on a descriptor that could not be saved: the MCU hangs
\* until it is reset.
Hang ==
  /\ pc' = "hung"
  /\ job' = "none"
  /\ UNCHANGED <<flash, firmwareMetaData, firmware_meta_is_valid,
                 transferIsInitialized, transfer, waitTime, erasePos, result>>

\* programmer_init and programer_readMetaData
programmer_init ==
  /\ pc \in {"off", "idle"}
  /\ transferIsInitialized' = FALSE
  /\ waitTime' = 0
  /\ firmwareMetaData' = stored
  /\ \/ /\ CrcOK(stored)
        /\ firmware_meta_is_valid' = TRUE
        /\ Return("none")
     \/ /\ ~CrcOK(stored)
        /\ UNCHANGED firmware_meta_is_valid
        /\ SaveDescriptorFor("destroy")
  /\ UNCHANGED <<persistent, transfer>>

-----------------------------------------------------------------------------
(* portFlashSaveFirmwareDescriptorBuffer: the page is erased, then its two  *)
(* half pages are written. The record ends in the first; the second half    *)
(* is zero.                                                                 *)

SaveEraseDescriptor ==
  /\ pc = "erase_descriptor"
  /\ \/ /\ stored' = ZeroMeta
        /\ pc' = "write_first_half"
        /\ UNCHANGED <<flash, firmwareMetaData, firmware_meta_is_valid,
                       transferIsInitialized, transfer, waitTime, job,
                       erasePos, result>>
     \/ stored' \in {stored, ZeroMeta} /\ Hang

SaveWriteFirstHalf ==
  /\ pc = "write_first_half"
  /\ \/ /\ stored' = firmwareMetaData
        /\ pc' = "write_second_half"
        /\ UNCHANGED <<flash, firmwareMetaData, firmware_meta_is_valid,
                       transferIsInitialized, transfer, waitTime, job,
                       erasePos, result>>
     \/ stored' \in {ZeroMeta, firmwareMetaData} /\ Hang

\* Mutated form of ValidAfter: destroying the descriptor leaves it valid.
ValidAfterMutant(j) == TRUE

\* firmware_meta_is_valid after programmer_destroyMetaData (FALSE) and after
\* programer_writeMetaData (TRUE).
ValidAfter(j) == j \in {"open", "verify"}

\* Mutated form of WaitTimeAfter: the throttle is not restarted.
WaitTimeAfterMutant(j) == waitTime

\* A transfer that was opened restarts the AES throttle.
WaitTimeAfter(j) == IF j = "open" THEN 0 ELSE waitTime

\* After the last write the function that saved the descriptor goes on.
SaveWriteSecondHalf ==
  /\ pc = "write_second_half"
  /\ UNCHANGED stored
  /\ \/ /\ job = "destroy"
        /\ firmware_meta_is_valid' = ValidAfter(job)
        /\ Return("none")
        /\ UNCHANGED <<flash, firmwareMetaData, transferIsInitialized,
                       transfer, waitTime>>
     \/ /\ job = "erase"
        /\ firmware_meta_is_valid' = ValidAfter(job)
        /\ pc' = "erase_app"
        /\ erasePos' = MinimalBlock
        /\ UNCHANGED <<flash, firmwareMetaData, transferIsInitialized,
                       transfer, waitTime, job, result>>
     \/ /\ job = "open"
        /\ firmware_meta_is_valid' = ValidAfter(job)
        /\ transferIsInitialized' = TRUE
        /\ cbc' = Fresh
        /\ waitTime' = WaitTimeAfter(job)
        /\ Return("OK")
        /\ UNCHANGED <<flash, firmwareMetaData, writePointer>>
     \/ /\ job = "verify"
        /\ firmware_meta_is_valid' = ValidAfter(job)
        /\ Return(IF firmwareMetaData.verified THEN "OK" ELSE "Fail")
        /\ UNCHANGED <<flash, firmwareMetaData, transferIsInitialized,
                       transfer, waitTime>>
     \/ Hang

-----------------------------------------------------------------------------
\* Mutated form of mcuEraseFlash: the descriptor is not destroyed first.
mcuEraseFlashMutant ==
  /\ Idle
  /\ transferIsInitialized' = FALSE
  /\ pc' = "erase_app"
  /\ job' = "erase"
  /\ erasePos' = MinimalBlock
  /\ result' = "none"
  /\ UNCHANGED <<persistent, firmwareMetaData, firmware_meta_is_valid,
                 transfer, waitTime>>

\* programmerErase: the descriptor is destroyed first.
mcuEraseFlash ==
  /\ Idle
  /\ transferIsInitialized' = FALSE
  /\ firmwareMetaData' = ZeroMeta
  /\ SaveDescriptorFor("erase")
  /\ UNCHANGED <<persistent, firmware_meta_is_valid, transfer, waitTime>>

\* Mutated form of MorePages: the loop ends one page early.
MorePagesMutant == erasePos + 2 < EndBlock - 2

\* The loop of EraseFlash_ has not reached the end address.
MorePages == erasePos + 2 < EndBlock

\* One page of portFlashEraseApplication. It stops at the first error, which
\* leaves the page as it was or half erased.
EraseApplicationPage ==
  LET page == {erasePos, erasePos + 1} IN
  /\ pc = "erase_app"
  /\ \/ /\ flash' = [b \in AppBlocks |-> IF b \in page THEN Blank ELSE flash[b]]
        /\ IF MorePages
             THEN erasePos' = erasePos + 2 /\ UNCHANGED <<pc, job, result>>
             ELSE Return("OK")
     \/ /\ \E torn \in SUBSET page :
             flash' = [b \in AppBlocks |-> IF b \in torn THEN Garbage ELSE flash[b]]
        /\ Return("Fail")
  /\ UNCHANGED <<stored, firmwareMetaData, firmware_meta_is_valid,
                 transferIsInitialized, transfer, waitTime>>

\* The reasons of programmerInitFirmwareTransfer to refuse a transfer.
Refused(i, e, c) ==
  \/ e < MinimalBlock
  \/ e + BlocksOf[i] > EndBlock
  \/ ~AllowPlain /\ c = "Plain"
  \/ ~WithDecrypt /\ c = "AES"

TooEarly(c) ==
  /\ c = "AES"
  /\ ~firmwareMetaData.byCrypto
  /\ waitTime < WaitTime

\* Mutated form of OpenedMeta: the verdict on the old image is kept.
OpenedMetaMutant(i, e, c) ==
  [img |-> i, entry |-> e, crypto |-> c,
   verified |-> firmwareMetaData.verified, byCrypto |-> FALSE]

\* The descriptor a transfer is opened with.
OpenedMeta(i, e, c) ==
  [img |-> i, entry |-> e, crypto |-> c, verified |-> FALSE, byCrypto |-> FALSE]

mcuInitFirmwareTransfer(i, e, c) ==
  /\ Idle
  /\ transferIsInitialized' = FALSE
  /\ \/ /\ Refused(i, e, c)
        /\ Return("Fail")
        /\ UNCHANGED <<firmwareMetaData, writePointer>>
     \/ /\ ~Refused(i, e, c) /\ TooEarly(c)
        /\ Return("TryAgainLater")
        /\ UNCHANGED <<firmwareMetaData, writePointer>>
     \/ /\ ~Refused(i, e, c) /\ ~TooEarly(c)
        /\ firmwareMetaData' = OpenedMeta(i, e, c)
        /\ writePointer' = e
        /\ SaveDescriptorFor("open")
  /\ UNCHANGED <<persistent, firmware_meta_is_valid, cbc, waitTime>>

\* Mutated form of BlockAccepted: what was written is not read back.
BlockAcceptedMutant(outcome, data) == outcome[1]

\* portFlashWrite reported success and portFlashVerifyAgainstBuffer read back
\* what was to be written.
BlockAccepted(outcome, data) == outcome[1] /\ outcome[2] = data

\* programmerWriteBlock for block k of image i, sent plain or encrypted as
\* the transfer was opened. The block is decrypted before the write is tried,
\* and what was written is compared with what was to be written.
mcuWriteFirmwareBlock(i, k) ==
  LET aes  == firmwareMetaData.crypto = "AES"
      data == IF aes THEN Decrypt(i, k) ELSE <<i, k>>
  IN
  /\ Idle
  /\ \/ /\ ~transferIsInitialized
        /\ Return("Fail")
        /\ UNCHANGED <<flash, transfer>>
     \/ /\ transferIsInitialized
        /\ cbc' = IF aes THEN <<i, k>> ELSE cbc
        /\ \/ /\ writePointer = EndBlock
              /\ Return("Fail")
              /\ UNCHANGED <<flash, writePointer>>
           \/ /\ writePointer < EndBlock
              /\ \E outcome \in ProgramHalfPage(flash[writePointer], data) :
                   /\ flash' = [flash EXCEPT ![writePointer] = outcome[2]]
                   /\ IF BlockAccepted(outcome, data)
                        THEN writePointer' = writePointer + 1 /\ Return("OK")
                        ELSE UNCHANGED writePointer /\ Return("Fail")
  /\ UNCHANGED <<stored, firmwareMetaData, firmware_meta_is_valid,
                 transferIsInitialized, waitTime>>

\* Mutated form of Verdict: memcmp's answer is taken the wrong way round.
VerdictMutant(m) ==
  LET matches == ~HashMatches(flash, m) IN
  [m EXCEPT !.verified = matches, !.byCrypto = matches /\ m.crypto # "Plain"]

\* The descriptor with the verdict of programmerVerify.
Verdict(m) ==
  LET matches == HashMatches(flash, m) IN
  [m EXCEPT !.verified = matches, !.byCrypto = matches /\ m.crypto # "Plain"]

\* programmerVerify: both outcomes are saved.
programmerVerify ==
  /\ transferIsInitialized' = FALSE
  /\ \/ /\ ~firmware_meta_is_valid
        /\ Return("Fail")
        /\ UNCHANGED firmwareMetaData
     \/ /\ firmware_meta_is_valid
        /\ firmwareMetaData' = Verdict(firmwareMetaData)
        /\ SaveDescriptorFor("verify")
  /\ UNCHANGED <<persistent, firmware_meta_is_valid, transfer, waitTime>>

mcuVerifyFirmware == Idle /\ programmerVerify

\* Mutated form of programmerQuickVerify: the firmware is always verified anew.
programmerQuickVerifyMutant == Idle /\ programmerVerify

\* programmerQuickVerify trusts the verdict saved by an earlier Verify.
programmerQuickVerify ==
  /\ Idle
  /\ \/ /\ firmware_meta_is_valid /\ firmwareMetaData.verified
        /\ transferIsInitialized' = FALSE
        /\ Return("OK")
        /\ UNCHANGED <<persistent, firmwareMetaData, firmware_meta_is_valid,
                       transfer, waitTime>>
     \/ /\ ~(firmware_meta_is_valid /\ firmwareMetaData.verified)
        /\ programmerVerify

\* mcuGetMCUDescriptor, mcuGetFirmwareDescriptor and mcuGetDeviceDescriptor:
\* asking the device about itself closes an open transfer.
QueryDescriptor ==
  /\ Idle
  /\ transferIsInitialized' = FALSE
  /\ Return("none")
  /\ UNCHANGED <<persistent, firmwareMetaData, firmware_meta_is_valid,
                 transfer, waitTime>>

\* Mutated form of MayCount: the counter passes its limit.
MayCountMutant == waitTime <= WaitCap

MayCount == waitTime < WaitCap

\* programmerIncrementAESReInitWaitTime_s, once a second in the main loop
IncrementWaitTime ==
  /\ Idle
  /\ MayCount
  /\ waitTime' = waitTime + 1
  /\ UNCHANGED <<persistent, firmwareMetaData, firmware_meta_is_valid,
                 transferIsInitialized, transfer, pc, job, erasePos, result>>

\* Power is lost or the MCU is reset at any moment: RAM is lost, the flash
\* keeps what was written.
Reset ==
  /\ pc # "off"
  /\ firmwareMetaData' = ZeroMeta
  /\ firmware_meta_is_valid' = FALSE
  /\ transferIsInitialized' = FALSE
  /\ writePointer' = 0
  /\ cbc' = Fresh
  /\ waitTime' = 0
  /\ pc' = "off"
  /\ job' = "none"
  /\ erasePos' = 0
  /\ result' = "none"
  /\ UNCHANGED persistent

-----------------------------------------------------------------------------
\* The call that is running takes its next step.
Continue ==
  \/ SaveEraseDescriptor
  \/ SaveWriteFirstHalf
  \/ SaveWriteSecondHalf
  \/ EraseApplicationPage

Next ==
  \/ programmer_init
  \/ Continue
  \/ mcuEraseFlash
  \/ \E i \in Images, e \in EntryPoints, c \in Crypto :
       mcuInitFirmwareTransfer(i, e, c)
  \/ \E i \in Images : \E k \in 0 .. BlocksOf[i] - 1 :
       mcuWriteFirmwareBlock(i, k)
  \/ mcuVerifyFirmware
  \/ programmerQuickVerify
  \/ QueryDescriptor
  \/ IncrementWaitTime
  \/ Reset

Spec == Init /\ [][Next]_vars

\* The main loop is never descheduled: a call that has begun goes on unless
\* the MCU hangs or is reset. Nothing obliges the host to call.
FairSpec == Spec /\ WF_vars(Continue)

-----------------------------------------------------------------------------
(* Safety                                                                   *)

\* A descriptor page that says "verified" tells the truth: every half page of
\* the image that programmerVerify can read is in the flash, whatever power
\* cycles and flash errors lie between. programmerQuickVerify starts the
\* application on that flag alone, without hashing.
VerifiedIntact == CrcOK(stored) /\ stored.verified => HashMatches(flash, stored)

\* A verified descriptor means that the whole image is in the flash, the last
\* half page of an unaligned image included, as README.md:20 has it. It is not
\* so: programmer.c:210 ignores that portFlashRead refuses the rest.
VerifiedIsWhole == CrcOK(stored) /\ stored.verified => WholeIntact(flash, stored)

\* While a transfer is open the persisted descriptor is the one of the
\* transfer and is unverified, so that power lost between two blocks cannot
\* leave an older verdict over new code (order of programmer.c 288-300).
OpenTransferIsUnverified ==
  transferIsInitialized =>
    /\ pc = "idle"
    /\ CrcOK(stored) /\ ~stored.verified
    /\ stored = firmwareMetaData

\* The write pointer counts what is really in the flash: every half page it
\* passed was programmed, and in a plain transfer holds a block of an image
\* and no half-programmed rest (portFlashVerifyAgainstBuffer).
AckedBlocksProgrammed ==
  transferIsInitialized =>
    /\ writePointer \in firmwareMetaData.entry .. EndBlock
    /\ \A b \in firmwareMetaData.entry .. writePointer - 1 :
         /\ flash[b] # Blank
         /\ firmwareMetaData.crypto = "Plain" => flash[b] # Garbage

\* Between two calls the copy in RAM and the validity flag agree with the
\* descriptor page: what mcuGetMCUDescriptor reports and what the main loop
\* decides on is not stale.
CacheCoherent ==
  pc = "idle" =>
    /\ firmwareMetaData = stored
    /\ firmware_meta_is_valid <=> CrcOK(stored)

(* Action properties                                                        *)

\* The application flash never changes under a valid verdict: it is revoked
\* in a step of its own before the first erase or write.
FrozenWhileVerified ==
  [][flash' # flash => ~stored.verified /\ ~stored'.verified]_vars

\* Verify answers only what it has persisted: OK exactly if the saved
\* descriptor is verified and the flash matches it.
VerdictIsPersisted ==
  [][job = "verify" /\ pc' = "idle" =>
       /\ stored' = firmwareMetaData'
       /\ result' = "OK" <=> stored'.verified
       /\ result' = "OK" <=> HashMatches(flash', stored')]_vars

\* An erase that answers OK has blanked every application half page and left
\* no valid descriptor behind.
EraseOKMeansBlank ==
  [][job = "erase" /\ result' = "OK" =>
       /\ \A b \in AppBlocks : flash'[b] = Blank
       /\ ~CrcOK(stored')]_vars

(* Liveness                                                                 *)

\* Every call of the programmer ends: it answers, or the MCU hangs on a
\* failed assertion or is reset.
EveryCallEnds ==
  pc \in SaveSteps \union {"erase_app"} ~> pc \in {"idle", "hung", "off"}

-----------------------------------------------------------------------------
\* What the programmer promises: the application flash is certified only for
\* an image it holds, and does not change while it is.
Certified ==
  IF stored.verified THEN {[img |-> stored.img, entry |-> stored.entry]} ELSE {}

Abstract == INSTANCE CertifiedFlash WITH content <- flash, certified <- Certified

\* The programmer implements the certified flash.
ImplementsCertifiedFlash == Abstract!Spec
=============================================================================
