-------------------------- MODULE ProgrammerProofs --------------------------
(***************************************************************************)
(* Theorems about Programmer for every set of images, flash size and       *)
(* configuration. All of them rest on one inductive invariant, IInv: it    *)
(* says for each step of a call what the calls before it have left in RAM  *)
(* and in the descriptor page.                                             *)
(***************************************************************************)
EXTENDS Programmer, TLAPS

\* RAM as a save in progress has it: the transfer is closed, and a verdict
\* that is about to be persisted is true of the flash.
SavePart ==
  pc \in SaveSteps =>
    /\ ~transferIsInitialized
    /\ result = "none"
    /\ job # "none"
    /\ job \in {"destroy", "erase"} => firmwareMetaData = ZeroMeta
    /\ job \in {"open", "verify"} => firmwareMetaData \in MetaData
    /\ job = "open" => ~firmwareMetaData.verified
    /\ job = "verify" => (firmwareMetaData.verified
                            <=> HashMatches(flash, firmwareMetaData))
    /\ pc = "write_first_half" => stored = ZeroMeta
    /\ pc = "write_second_half" => stored = firmwareMetaData

\* The application is erased only after its descriptor.
ErasePart ==
  pc = "erase_app" =>
    /\ ~transferIsInitialized
    /\ ~firmware_meta_is_valid
    /\ result = "none"
    /\ job = "erase"
    /\ stored = ZeroMeta /\ firmwareMetaData = ZeroMeta
    /\ erasePos \in MinimalBlock .. EndBlock - 1
    /\ erasePos % 2 = 0
    /\ \A b \in MinimalBlock .. erasePos - 1 : flash[b] = Blank

\* No call is running.
RestPart ==
  /\ pc \in {"idle", "off", "hung"} => job = "none"
  /\ pc \in {"off", "hung"} => ~transferIsInitialized

CallInv ==
  /\ VerifiedIntact
  /\ OpenTransferIsUnverified
  /\ CacheCoherent
  /\ SavePart
  /\ ErasePart
  /\ RestPart

IInv == TypeOK /\ CallInv

-----------------------------------------------------------------------------
\* A record of the descriptor's type is told from the destroyed one by its CRC.
LEMMA MetaFacts ==
  /\ ~CrcOK(ZeroMeta) /\ ~ZeroMeta.verified /\ ~ZeroMeta.byCrypto
  /\ ZeroMeta \notin MetaData
  /\ \A m \in MetaData : CrcOK(m)
BY ImagesAssumption DEF ZeroMeta, MetaData, CrcOK

\* Whether the hash matches depends on the flash and on the record's image
\* and entry point only, not on the flags beside them.
LEMMA HashDependsOn ==
  ASSUME NEW fl, NEW m, NEW n, m.img = n.img, m.entry = n.entry
  PROVE  HashMatches(fl, m) <=> HashMatches(fl, n)
BY DEF HashMatches, ReadableIntact

\* Zero is in the range of every counter.
LEMMA RangeFacts ==
  /\ WaitCap \in Nat /\ EndBlock \in Nat /\ MinimalBlock \in Nat
  /\ MinimalBlock < EndBlock
  /\ 0 \in 0 .. WaitCap /\ 0 \in 0 .. EndBlock /\ MinimalBlock \in 0 .. EndBlock
BY ConfigAssumption, FlashAssumption

\* Programming leaves the old content, the data, or garbage.
LEMMA ProgramOutcome ==
  ASSUME NEW old, NEW data, NEW o \in ProgramHalfPage(old, data)
  PROVE  o[2] \in {old, data, Garbage}
<1>1. \/ o \in {<<TRUE, data>>, <<FALSE, old>>, <<FALSE, Garbage>>, <<FALSE, data>>}
      \/ o \in {<<TRUE, old>>, <<TRUE, Garbage>>}
  <2>1. CASE old = Blank
    BY <2>1, Zenon DEF ProgramHalfPage
  <2>2. CASE old # Blank
    BY <2>2, Zenon DEF ProgramHalfPage
  <2>3. QED
    BY <2>1, <2>2
<1>2. \E flag \in BOOLEAN, c \in {old, data, Garbage} : o = <<flag, c>>
  BY <1>1
<1>3. ASSUME NEW flag \in BOOLEAN, NEW c \in {old, data, Garbage}, o = <<flag, c>>
      PROVE  o[2] \in {old, data, Garbage}
  <2>1. o[2] = c
    BY <1>3
  <2>2. QED
    BY <2>1
<1>4. QED
  BY <1>2, <1>3

LEMMA InitIInv == Init => IInv
<1> SUFFICES ASSUME Init PROVE IInv
  OBVIOUS
<1>1. TypeOK
  <2>1. flash \in [AppBlocks -> Cells]
    BY DEF Init, Cells
  <2>2. cbc \in (Images \union {NoImage}) \X Nat
    BY DEF Init, Fresh
  <2>3. waitTime \in 0 .. WaitCap
    BY ConfigAssumption DEF Init
  <2>4. writePointer \in 0 .. EndBlock /\ erasePos \in 0 .. EndBlock
    BY FlashAssumption DEF Init
  <2>5. QED
    BY <2>1, <2>2, <2>3, <2>4
    DEF Init, TypeOK, Steps, SaveSteps, Jobs, Results
<1>2. QED
  BY <1>1, MetaFacts
  DEF Init, IInv, CallInv, VerifiedIntact, OpenTransferIsUnverified, CacheCoherent,
      SavePart, ErasePart, RestPart, SaveSteps

-----------------------------------------------------------------------------
\* Every step keeps the types.
LEMMA TypeStep == IInv /\ [Next]_vars => TypeOK'
<1> SUFFICES ASSUME TypeOK, CacheCoherent, [Next]_vars PROVE TypeOK'
  BY DEF IInv, CallInv
<1> USE RangeFacts
    DEF TypeOK, persistent, transfer, Return, SaveDescriptorFor, Hang,
        Steps, SaveSteps, Jobs, Results
<1>1. CASE programmer_init
  BY <1>1 DEF programmer_init
<1>2. CASE SaveEraseDescriptor
  BY <1>2 DEF SaveEraseDescriptor
<1>3. CASE SaveWriteFirstHalf
  BY <1>3 DEF SaveWriteFirstHalf
<1>4. CASE SaveWriteSecondHalf
  <2>1. Fresh \in (Images \union {NoImage}) \X Nat
    BY DEF Fresh
  <2>2. ValidAfter(job) \in BOOLEAN
    BY DEF ValidAfter
  <2>3. WaitTimeAfter(job) \in 0 .. WaitCap
    BY DEF WaitTimeAfter
  <2>4. QED
    BY <1>4, <2>1, <2>2, <2>3 DEF SaveWriteSecondHalf
<1>5. CASE EraseApplicationPage
  <2>1. flash' \in [AppBlocks -> Cells]
    BY <1>5 DEF EraseApplicationPage, Cells
  <2>2. erasePos' \in 0 .. EndBlock
    BY <1>5 DEF EraseApplicationPage, MorePages
  <2>3. QED
    BY <1>5, <2>1, <2>2 DEF EraseApplicationPage
<1>6. CASE mcuEraseFlash
  BY <1>6 DEF mcuEraseFlash
<1>7. ASSUME NEW i \in Images, NEW e \in EntryPoints, NEW c \in Crypto,
             mcuInitFirmwareTransfer(i, e, c)
      PROVE  TypeOK'
  <2>1. ~Refused(i, e, c) => e \in AppBlocks /\ e \in 0 .. EndBlock
    <3>1. BlocksOf[i] \in Nat \ {0}
      BY ImagesAssumption
    <3>2. e \in Nat
      BY FlashAssumption
    <3>3. QED
      BY <3>1, <3>2 DEF Refused, AppBlocks
  <2>2. ASSUME ~Refused(i, e, c)
        PROVE  OpenedMeta(i, e, c) \in MetaData
    BY <2>1, <2>2 DEF MetaData, OpenedMeta
  <2>3. QED
    BY <1>7, <2>1, <2>2 DEF mcuInitFirmwareTransfer
<1>8. ASSUME NEW i \in Images, NEW k \in 0 .. BlocksOf[i] - 1,
             mcuWriteFirmwareBlock(i, k)
      PROVE  TypeOK'
  <2> DEFINE data == IF firmwareMetaData.crypto = "AES"
                       THEN Decrypt(i, k) ELSE <<i, k>>
  <2>1. k \in Nat
    BY ImagesAssumption
  <2>2. data \in Cells
    BY <2>1 DEF Decrypt, Cells
  <2>3. ASSUME NEW old \in Cells, NEW o \in ProgramHalfPage(old, data)
        PROVE  o[2] \in Cells
    <3>1. Garbage \in Cells
      BY DEF Cells
    <3>2. o[2] \in {data, old, Garbage}
      BY ProgramOutcome
    <3>3. QED
      BY <2>2, <3>1, <3>2
  <2>5. flash' \in [AppBlocks -> Cells]
    BY <1>8, <2>3 DEF mcuWriteFirmwareBlock
  <2>6. cbc' \in (Images \union {NoImage}) \X Nat
    BY <1>8, <2>1 DEF mcuWriteFirmwareBlock
  <2>7. writePointer' \in 0 .. EndBlock
    BY <1>8 DEF mcuWriteFirmwareBlock
  <2>8. QED
    BY <1>8, <2>5, <2>6, <2>7 DEF mcuWriteFirmwareBlock
<1>9. ASSUME Idle, programmerVerify
      PROVE  TypeOK'
  <2>1. firmware_meta_is_valid => firmwareMetaData \in MetaData
    BY <1>9, MetaFacts DEF CacheCoherent, Idle
  <2>2. HashMatches(flash, firmwareMetaData) \in BOOLEAN
    BY DEF HashMatches, ReadableIntact
  <2>3. firmwareMetaData' \in MetaData \union {ZeroMeta}
    BY <1>9, <2>1, <2>2 DEF programmerVerify, Verdict, MetaData
  <2>4. QED
    BY <1>9, <2>3 DEF programmerVerify
<1>10. CASE mcuVerifyFirmware
  BY <1>9, <1>10 DEF mcuVerifyFirmware
<1>16. CASE programmerQuickVerify
  BY <1>9, <1>16 DEF programmerQuickVerify
<1>11. CASE QueryDescriptor
  BY <1>11 DEF QueryDescriptor
<1>12. CASE IncrementWaitTime
  BY <1>12 DEF IncrementWaitTime, MayCount
<1>13. CASE Reset
  BY <1>13 DEF Reset, Fresh
<1>14. CASE UNCHANGED vars
  BY <1>14 DEF vars
<1>15. QED
  BY <1>1, <1>2, <1>3, <1>4, <1>5, <1>6, <1>7, <1>8, <1>9, <1>10, <1>11,
     <1>12, <1>13, <1>14, <1>16 DEF Next, Continue

-----------------------------------------------------------------------------
\* Every step keeps the inductive invariant, one action at a time.
LEMMA InvStep == IInv /\ [Next]_vars => IInv'
<1> SUFFICES ASSUME IInv, [Next]_vars, TypeOK' PROVE CallInv'
  BY TypeStep DEF IInv
<1> USE MetaFacts
    DEF CallInv, VerifiedIntact, OpenTransferIsUnverified, CacheCoherent, SavePart,
        ErasePart, RestPart, SaveSteps, persistent, transfer, Return,
        SaveDescriptorFor, Hang
<1>a. /\ stored \in MetaData \union {ZeroMeta}
      /\ firmwareMetaData \in MetaData \union {ZeroMeta}
      /\ job \in {"none", "destroy", "erase", "open", "verify"}
  BY DEF IInv, TypeOK, Jobs
<1>b. CallInv
  BY DEF IInv
<1>1. CASE programmer_init
  BY <1>1, <1>a, <1>b DEF programmer_init
<1>2. CASE SaveEraseDescriptor
  BY <1>2, <1>a, <1>b DEF SaveEraseDescriptor
<1>3. CASE SaveWriteFirstHalf
  BY <1>3, <1>a, <1>b DEF SaveWriteFirstHalf
<1>4. CASE SaveWriteSecondHalf
  <2>1. MinimalBlock \in MinimalBlock .. EndBlock - 1 /\ MinimalBlock % 2 = 0
    BY FlashAssumption
  <2>2. MinimalBlock .. MinimalBlock - 1 = {}
    BY FlashAssumption
  <2>3. /\ job \in {"destroy", "erase"} => ValidAfter(job) = FALSE
        /\ job \in {"open", "verify"} => ValidAfter(job) = TRUE
    BY DEF ValidAfter
  <2>4. QED
    BY <1>4, <1>a, <1>b, <2>1, <2>2, <2>3 DEF SaveWriteSecondHalf
<1>5. CASE EraseApplicationPage
  <2>1. /\ pc = "erase_app" /\ ~transferIsInitialized /\ ~firmware_meta_is_valid
        /\ result = "none" /\ job = "erase"
        /\ stored = ZeroMeta /\ firmwareMetaData = ZeroMeta
    BY <1>5, <1>b DEF EraseApplicationPage
  <2>2. CASE Return("OK") \/ Return("Fail")
    BY <1>5, <2>1, <2>2 DEF EraseApplicationPage
  <2>3. CASE /\ erasePos + 2 < EndBlock /\ erasePos' = erasePos + 2
             /\ UNCHANGED <<pc, job, result>>
             /\ flash' = [b \in AppBlocks |-> IF b \in {erasePos, erasePos + 1}
                                              THEN Blank ELSE flash[b]]
    <3>1. erasePos \in MinimalBlock .. EndBlock - 1 /\ erasePos % 2 = 0
      BY <1>b, <2>1
    <3>2. erasePos' \in MinimalBlock .. EndBlock - 1 /\ erasePos' % 2 = 0
      BY <2>3, <3>1, FlashAssumption
    <3>3. ASSUME NEW b \in MinimalBlock .. erasePos' - 1
          PROVE  flash'[b] = Blank
      <4>1. b \in AppBlocks
        BY <2>3, <3>1, RangeFacts DEF AppBlocks
      <4>2. CASE b \in {erasePos, erasePos + 1}
        BY <2>3, <4>1, <4>2
      <4>3. CASE b \in MinimalBlock .. erasePos - 1
        BY <1>b, <2>1, <2>3, <4>1, <4>3
      <4>4. QED
        BY <2>3, <3>1, <4>2, <4>3, RangeFacts
    <3>4. QED
      BY <1>5, <2>1, <2>3, <3>2, <3>3 DEF EraseApplicationPage
  <2>4. QED
    BY <1>5, <2>2, <2>3 DEF EraseApplicationPage, MorePages
<1>6. CASE mcuEraseFlash
  BY <1>6, <1>a, <1>b DEF mcuEraseFlash, Idle
<1>7. ASSUME NEW i \in Images, NEW e \in EntryPoints, NEW c \in Crypto,
             mcuInitFirmwareTransfer(i, e, c)
      PROVE  CallInv'
  <2>1. CASE pc' = "idle"
    BY <1>7, <1>a, <1>b, <2>1 DEF mcuInitFirmwareTransfer, Idle
  <2>2. CASE pc' = "erase_descriptor"
    <3>1. firmwareMetaData' \in MetaData \union {ZeroMeta}
      BY DEF TypeOK
    <3>2. firmwareMetaData'.img = i /\ ~firmwareMetaData'.verified
      BY <1>7, <2>2 DEF mcuInitFirmwareTransfer, OpenedMeta
    <3>3. firmwareMetaData' \in MetaData
      BY <3>1, <3>2, ImagesAssumption DEF ZeroMeta
    <3>4. QED
      BY <1>7, <1>a, <1>b, <2>2, <3>2, <3>3 DEF mcuInitFirmwareTransfer, Idle
  <2>3. QED
    BY <1>7, <2>1, <2>2 DEF mcuInitFirmwareTransfer
<1>8. ASSUME NEW i \in Images, NEW k \in 0 .. BlocksOf[i] - 1,
             mcuWriteFirmwareBlock(i, k)
      PROVE  CallInv'
  BY <1>8, <1>a, <1>b DEF mcuWriteFirmwareBlock, Idle
<1>9. ASSUME Idle, programmerVerify
      PROVE  CallInv'
  <2>1. CASE ~firmware_meta_is_valid
    BY <1>9, <1>a, <1>b, <2>1 DEF programmerVerify, Idle
  <2>2. CASE firmware_meta_is_valid
    <3> DEFINE matches == HashMatches(flash, firmwareMetaData)
    <3>1. firmwareMetaData \in MetaData
      BY <1>9, <1>a, <1>b, <2>2 DEF Idle
    <3>2. firmwareMetaData' = [firmwareMetaData EXCEPT !.verified = matches,
                !.byCrypto = matches /\ firmwareMetaData.crypto # "Plain"]
      BY <1>9, <2>2 DEF programmerVerify, Verdict
    <3>3. /\ firmwareMetaData'.img = firmwareMetaData.img
          /\ firmwareMetaData'.entry = firmwareMetaData.entry
          /\ firmwareMetaData'.verified = matches
      BY <3>1, <3>2 DEF MetaData
    <3>4. firmwareMetaData' \in MetaData
      BY <3>1, <3>3, ImagesAssumption DEF TypeOK, MetaData, ZeroMeta
    <3>5. HashMatches(flash', firmwareMetaData') <=> matches
      BY <1>9, <3>3, HashDependsOn DEF programmerVerify
    <3>6. QED
      BY <1>9, <1>a, <1>b, <2>2, <3>3, <3>4, <3>5 DEF programmerVerify, Idle
  <2>3. QED
    BY <2>1, <2>2
<1>10. CASE mcuVerifyFirmware
  BY <1>9, <1>10 DEF mcuVerifyFirmware
<1>11. CASE programmerQuickVerify
  BY <1>9, <1>11, <1>a, <1>b DEF programmerQuickVerify, Idle
<1>12. CASE QueryDescriptor
  BY <1>12, <1>a, <1>b DEF QueryDescriptor, Idle
<1>13. CASE IncrementWaitTime
  BY <1>13, <1>a, <1>b DEF IncrementWaitTime, Idle
<1>14. CASE Reset
  BY <1>14, <1>a, <1>b DEF Reset
<1>15. CASE UNCHANGED vars
  BY <1>15, <1>a, <1>b DEF vars
<1>16. QED
  BY <1>1, <1>2, <1>3, <1>4, <1>5, <1>6, <1>7, <1>8, <1>10, <1>11,
     <1>12, <1>13, <1>14, <1>15 DEF Next, Continue

-----------------------------------------------------------------------------
\* The inductive invariant holds in every reachable state.
THEOREM Invariant == Spec => []IInv
BY InitIInv, InvStep, PTL DEF Spec

\* Every variable keeps its type (all state of programmer.c).
THEOREM TypeCorrect == Spec => []TypeOK
<1>1. IInv => TypeOK
  BY DEF IInv
<1>2. QED
  BY <1>1, Invariant, PTL

\* The descriptor page never says "verified" of a flash that does not hash to
\* its sha256, for any image, flash size, power cycle or flash error.
THEOREM VerifiedAlwaysIntact == Spec => []VerifiedIntact
<1>1. IInv => VerifiedIntact
  BY DEF IInv, CallInv
<1>2. QED
  BY <1>1, Invariant, PTL

\* A transfer is open only over a persisted, unverified descriptor of its own.
THEOREM OpenTransferAlwaysUnverified == Spec => []OpenTransferIsUnverified
<1>1. IInv => OpenTransferIsUnverified
  BY DEF IInv, CallInv
<1>2. QED
  BY <1>1, Invariant, PTL

\* Between two calls RAM and descriptor page agree.
THEOREM CacheAlwaysCoherent == Spec => []CacheCoherent
<1>1. IInv => CacheCoherent
  BY DEF IInv, CallInv
<1>2. QED
  BY <1>1, Invariant, PTL

-----------------------------------------------------------------------------
\* The only steps that change the flash are a page of the erase and a block
\* of an open transfer, and both find and leave the descriptor unverified.
LEMMA FlashStep ==
  ASSUME IInv, [Next]_vars, flash' # flash
  PROVE  ~stored.verified /\ UNCHANGED stored
<1> USE DEF persistent, transfer, Return, SaveDescriptorFor, Hang
<1>1. CASE EraseApplicationPage
  BY <1>1, MetaFacts DEF EraseApplicationPage, IInv, CallInv, ErasePart
<1>2. ASSUME NEW i \in Images, NEW k \in 0 .. BlocksOf[i] - 1,
             mcuWriteFirmwareBlock(i, k)
      PROVE  ~stored.verified /\ UNCHANGED stored
  <2>1. transferIsInitialized /\ UNCHANGED stored
    BY <1>2 DEF mcuWriteFirmwareBlock
  <2>2. QED
    BY <2>1 DEF IInv, CallInv, OpenTransferIsUnverified
<1>3. ASSUME NEW i \in Images, NEW e \in EntryPoints, NEW c \in Crypto,
             mcuInitFirmwareTransfer(i, e, c)
      PROVE  FALSE
  BY <1>3 DEF mcuInitFirmwareTransfer
<1>4. ~ \/ programmer_init \/ SaveEraseDescriptor \/ SaveWriteFirstHalf
        \/ SaveWriteSecondHalf \/ mcuEraseFlash \/ mcuVerifyFirmware
        \/ programmerQuickVerify \/ QueryDescriptor \/ IncrementWaitTime
        \/ Reset \/ UNCHANGED vars
  BY DEF programmer_init, SaveEraseDescriptor, SaveWriteFirstHalf,
         SaveWriteSecondHalf, mcuEraseFlash, mcuVerifyFirmware,
         programmerQuickVerify, programmerVerify, QueryDescriptor,
         IncrementWaitTime, Reset, vars
<1>5. QED
  BY <1>1, <1>2, <1>3, <1>4 DEF Next, Continue

\* The application flash never changes while a verdict stands.
THEOREM AlwaysFrozenWhileVerified == Spec => FrozenWhileVerified
<1>1. IInv /\ [Next]_vars
        => [flash' # flash => ~stored.verified /\ ~stored'.verified]_vars
  BY FlashStep
<1>2. QED
  BY <1>1, Invariant, PTL DEF Spec, FrozenWhileVerified

-----------------------------------------------------------------------------
\* The only step that ends an erase with OK is its last page.
THEOREM EraseOKAlwaysBlank == Spec => EraseOKMeansBlank
<1>1. ASSUME IInv, Next, job = "erase", result' = "OK"
      PROVE  (\A b \in AppBlocks : flash'[b] = Blank) /\ ~CrcOK(stored')
  <2> USE DEF persistent, transfer, Return, SaveDescriptorFor, Hang, Idle
  <2>1. pc \in SaveSteps => result # "OK"
    BY <1>1 DEF IInv, CallInv, SavePart
  <2>2. pc # "idle" /\ pc # "off" /\ pc # "hung"
    BY <1>1 DEF IInv, CallInv, RestPart
  <2>3. EraseApplicationPage
    <3>1. ~ \/ SaveEraseDescriptor \/ SaveWriteFirstHalf \/ SaveWriteSecondHalf
      BY <1>1, <2>1 DEF SaveEraseDescriptor, SaveWriteFirstHalf,
         SaveWriteSecondHalf, SaveSteps
    <3>2. ~ \/ programmer_init \/ mcuEraseFlash \/ mcuVerifyFirmware
            \/ programmerQuickVerify \/ QueryDescriptor \/ IncrementWaitTime \/ Reset
      BY <1>1, <2>2 DEF programmer_init, mcuEraseFlash, mcuVerifyFirmware,
         programmerQuickVerify, QueryDescriptor, IncrementWaitTime, Reset
    <3>3. /\ \A i \in Images, e \in EntryPoints, c \in Crypto :
               ~mcuInitFirmwareTransfer(i, e, c)
          /\ \A i \in Images : \A k \in 0 .. BlocksOf[i] - 1 :
               ~mcuWriteFirmwareBlock(i, k)
      BY <2>2 DEF mcuInitFirmwareTransfer, mcuWriteFirmwareBlock
    <3>4. QED
      BY <1>1, <3>1, <3>2, <3>3 DEF Next, Continue
  <2>4. /\ pc = "erase_app" /\ result = "none" /\ stored = ZeroMeta
        /\ erasePos \in MinimalBlock .. EndBlock - 1 /\ erasePos % 2 = 0
        /\ \A b \in MinimalBlock .. erasePos - 1 : flash[b] = Blank
    BY <1>1, <2>3 DEF EraseApplicationPage, IInv, CallInv, ErasePart
  <2>5. /\ erasePos + 2 >= EndBlock
        /\ flash' = [b \in AppBlocks |-> IF b \in {erasePos, erasePos + 1}
                                         THEN Blank ELSE flash[b]]
        /\ UNCHANGED stored
    BY <1>1, <2>3, <2>4, RangeFacts DEF EraseApplicationPage, MorePages
  <2>6. ASSUME NEW b \in AppBlocks
        PROVE  flash'[b] = Blank
    <3>1. \/ b \in {erasePos, erasePos + 1}
          \/ b \in MinimalBlock .. erasePos - 1
      BY <2>4, <2>5, RangeFacts DEF AppBlocks
    <3>2. QED
      BY <2>4, <2>5, <3>1
  <2>7. QED
    BY <2>4, <2>5, <2>6, MetaFacts
<1>2. IInv /\ [Next]_vars
        => [job = "erase" /\ result' = "OK" =>
              (\A b \in AppBlocks : flash'[b] = Blank) /\ ~CrcOK(stored')]_vars
  BY <1>1
<1>3. QED
  BY <1>2, Invariant, PTL DEF Spec, EraseOKMeansBlank

\* Verify answers what it has saved, and what it has saved is true.
THEOREM VerdictAlwaysPersisted == Spec => VerdictIsPersisted
<1>1. ASSUME IInv, IInv', Next, job = "verify", pc' = "idle"
      PROVE  /\ stored' = firmwareMetaData'
             /\ result' = "OK" <=> stored'.verified
             /\ result' = "OK" <=> HashMatches(flash', stored')
  <2> USE DEF persistent, transfer, Return, SaveDescriptorFor, Hang, Idle
  <2>1. pc # "idle" /\ pc # "off" /\ pc # "hung" /\ pc # "erase_app"
    BY <1>1 DEF IInv, CallInv, RestPart, ErasePart
  <2>2. SaveWriteSecondHalf
    <3>1. ~ \/ SaveEraseDescriptor \/ SaveWriteFirstHalf \/ EraseApplicationPage
            \/ programmer_init \/ mcuEraseFlash \/ mcuVerifyFirmware
            \/ programmerQuickVerify \/ QueryDescriptor \/ IncrementWaitTime \/ Reset
      BY <1>1, <2>1 DEF SaveEraseDescriptor, SaveWriteFirstHalf,
         EraseApplicationPage, programmer_init, mcuEraseFlash, mcuVerifyFirmware,
         programmerQuickVerify, QueryDescriptor, IncrementWaitTime, Reset
    <3>2. /\ \A i \in Images, e \in EntryPoints, c \in Crypto :
               ~mcuInitFirmwareTransfer(i, e, c)
          /\ \A i \in Images : \A k \in 0 .. BlocksOf[i] - 1 :
               ~mcuWriteFirmwareBlock(i, k)
      BY <2>1 DEF mcuInitFirmwareTransfer, mcuWriteFirmwareBlock
    <3>3. QED
      BY <1>1, <3>1, <3>2 DEF Next, Continue
  <2>3. /\ stored' = firmwareMetaData' /\ UNCHANGED <<flash, stored>>
        /\ result' = (IF firmwareMetaData.verified THEN "OK" ELSE "Fail")
        /\ stored = firmwareMetaData
        /\ firmwareMetaData.verified <=> HashMatches(flash, firmwareMetaData)
    BY <1>1, <2>2 DEF SaveWriteSecondHalf, IInv, CallInv, SavePart, SaveSteps
  <2>4. QED
    BY <2>3
<1>2. IInv /\ IInv' /\ [Next]_vars
        => [job = "verify" /\ pc' = "idle" =>
              /\ stored' = firmwareMetaData'
              /\ result' = "OK" <=> stored'.verified
              /\ result' = "OK" <=> HashMatches(flash', stored')]_vars
  BY <1>1
<1>3. QED
  BY <1>2, Invariant, PTL DEF Spec, VerdictIsPersisted

-----------------------------------------------------------------------------
\* While the descriptor of a new transfer is saved, the write pointer waits at
\* its entry point.
OpeningPart ==
  pc \in SaveSteps /\ job = "open" => writePointer = firmwareMetaData.entry

AckInv == AckedBlocksProgrammed /\ OpeningPart

\* What a block write leaves behind the write pointer it advances.
LEMMA WriteKeepsAcked ==
  ASSUME IInv, IInv', AckInv, NEW i \in Images, NEW k \in 0 .. BlocksOf[i] - 1,
         mcuWriteFirmwareBlock(i, k)
  PROVE  AckInv'
<1> USE DEF persistent, transfer, Return
<1> DEFINE aes  == firmwareMetaData.crypto = "AES"
           data == IF aes THEN Decrypt(i, k) ELSE <<i, k>>
<1>1. pc' = "idle" /\ UNCHANGED <<transferIsInitialized, firmwareMetaData>>
  BY DEF mcuWriteFirmwareBlock
<1>2. CASE ~transferIsInitialized
  BY <1>1, <1>2 DEF AckInv, AckedBlocksProgrammed, OpeningPart, SaveSteps
<1>3. CASE transferIsInitialized /\ writePointer = EndBlock
  BY <1>1, <1>3, FlashAssumption
  DEF mcuWriteFirmwareBlock, AckInv, AckedBlocksProgrammed, OpeningPart, SaveSteps
<1>4. CASE transferIsInitialized /\ writePointer < EndBlock
  <2>1. /\ firmwareMetaData \in MetaData
        /\ firmwareMetaData.entry \in MinimalBlock .. EndBlock - 1
        /\ writePointer \in firmwareMetaData.entry .. EndBlock
        /\ \A b \in firmwareMetaData.entry .. writePointer - 1 :
             /\ flash[b] # Blank
             /\ firmwareMetaData.crypto = "Plain" => flash[b] # Garbage
    BY <1>4, MetaFacts DEF IInv, TypeOK, CallInv, OpenTransferIsUnverified,
       AckInv, AckedBlocksProgrammed, MetaData, AppBlocks
  <2>2. PICK outcome \in ProgramHalfPage(flash[writePointer], data) :
          /\ flash' = [flash EXCEPT ![writePointer] = outcome[2]]
          /\ IF BlockAccepted(outcome, data)
               THEN writePointer' = writePointer + 1
               ELSE UNCHANGED writePointer
    BY <1>4, RangeFacts DEF mcuWriteFirmwareBlock
  <2>3. flash \in [AppBlocks -> Cells] /\ AppBlocks = MinimalBlock .. EndBlock - 1
    BY DEF IInv, TypeOK, AppBlocks
  <2>4. \A b \in firmwareMetaData.entry .. writePointer - 1 : flash'[b] = flash[b]
    BY <2>1, <2>2, <2>3, <1>4, RangeFacts
  <2>5. CASE BlockAccepted(outcome, data)
    <3>1. k \in Nat
      BY ImagesAssumption
    <3>2. /\ data # Blank
          /\ firmwareMetaData.crypto = "Plain" => data # Garbage
      BY <3>1, CellAssumption DEF Decrypt
    <3>3. flash'[writePointer] = data
      BY <1>4, <2>1, <2>2, <2>3, <2>5, RangeFacts DEF BlockAccepted
    <3>4. /\ writePointer' = writePointer + 1
          /\ writePointer' \in firmwareMetaData.entry .. EndBlock
      BY <1>4, <2>1, <2>2, <2>5, RangeFacts
    <3>5. ASSUME NEW b \in firmwareMetaData.entry .. writePointer' - 1
          PROVE  /\ flash'[b] # Blank
                 /\ firmwareMetaData.crypto = "Plain" => flash'[b] # Garbage
      <4>1. b = writePointer \/ b \in firmwareMetaData.entry .. writePointer - 1
        BY <2>1, <3>4, RangeFacts
      <4>2. QED
        BY <2>1, <2>4, <3>2, <3>3, <4>1
    <3>6. QED
      BY <1>1, <3>4, <3>5
      DEF AckInv, AckedBlocksProgrammed, OpeningPart, SaveSteps
  <2>6. CASE ~BlockAccepted(outcome, data)
    BY <1>1, <2>1, <2>2, <2>4, <2>6
    DEF AckInv, AckedBlocksProgrammed, OpeningPart, SaveSteps
  <2>7. QED
    BY <2>5, <2>6
<1>5. QED
  BY <1>2, <1>3, <1>4 DEF mcuWriteFirmwareBlock

LEMMA AckStep == IInv /\ IInv' /\ AckInv /\ [Next]_vars => AckInv'
<1> SUFFICES ASSUME IInv, IInv', AckInv, [Next]_vars PROVE AckInv'
  OBVIOUS
<1> USE DEF AckInv, AckedBlocksProgrammed, OpeningPart, SaveSteps,
            persistent, transfer, Return, SaveDescriptorFor, Hang, Idle
<1>1. CASE programmer_init
  BY <1>1 DEF programmer_init
<1>2. CASE SaveEraseDescriptor
  BY <1>2 DEF SaveEraseDescriptor
<1>3. CASE SaveWriteFirstHalf
  BY <1>3 DEF SaveWriteFirstHalf
<1>4. CASE SaveWriteSecondHalf
  <2>1. CASE transferIsInitialized'
    <3>1. ~transferIsInitialized
      BY <1>4 DEF SaveWriteSecondHalf, IInv, CallInv, SavePart
    <3>2. /\ job = "open" /\ pc' = "idle"
          /\ UNCHANGED <<firmwareMetaData, writePointer>>
      BY <1>4, <2>1, <3>1 DEF SaveWriteSecondHalf
    <3>3. writePointer = firmwareMetaData.entry
      BY <1>4, <3>2 DEF SaveWriteSecondHalf
    <3>4. firmwareMetaData.entry \in MinimalBlock .. EndBlock - 1
      BY <1>4, <3>2 DEF SaveWriteSecondHalf, IInv, CallInv, SavePart, MetaData, AppBlocks
    <3>5. /\ writePointer \in firmwareMetaData.entry .. EndBlock
          /\ firmwareMetaData.entry .. writePointer - 1 = {}
      BY <3>3, <3>4, RangeFacts
    <3>6. QED
      BY <3>2, <3>5
  <2>2. CASE ~transferIsInitialized'
    BY <1>4, <2>2 DEF SaveWriteSecondHalf
  <2>3. QED
    BY <2>1, <2>2
<1>5. CASE EraseApplicationPage
  BY <1>5 DEF EraseApplicationPage, IInv, CallInv, ErasePart
<1>6. CASE mcuEraseFlash
  BY <1>6 DEF mcuEraseFlash
<1>7. ASSUME NEW i \in Images, NEW e \in EntryPoints, NEW c \in Crypto,
             mcuInitFirmwareTransfer(i, e, c)
      PROVE  AckInv'
  BY <1>7 DEF mcuInitFirmwareTransfer, OpenedMeta
<1>8. ASSUME NEW i \in Images, NEW k \in 0 .. BlocksOf[i] - 1,
             mcuWriteFirmwareBlock(i, k)
      PROVE  AckInv'
  BY <1>8, WriteKeepsAcked
<1>9. CASE mcuVerifyFirmware \/ programmerQuickVerify
  BY <1>9 DEF mcuVerifyFirmware, programmerQuickVerify, programmerVerify
<1>10. CASE QueryDescriptor
  BY <1>10 DEF QueryDescriptor
<1>11. CASE IncrementWaitTime
  BY <1>11 DEF IncrementWaitTime
<1>12. CASE Reset
  BY <1>12 DEF Reset
<1>13. CASE UNCHANGED vars
  BY <1>13 DEF vars
<1>14. QED
  BY <1>1, <1>2, <1>3, <1>4, <1>5, <1>6, <1>7, <1>8, <1>9, <1>10, <1>11,
     <1>12, <1>13 DEF Next, Continue

\* Every half page behind the write pointer of an open transfer was
\* programmed, and with a whole block if the transfer is plain.
THEOREM AckedAlwaysProgrammed == Spec => []AckedBlocksProgrammed
<1>1. Init => AckInv
  BY DEF Init, AckInv, AckedBlocksProgrammed, OpeningPart, SaveSteps
<1>2. IInv /\ IInv' /\ AckInv /\ [Next]_vars => AckInv'
  BY AckStep
<1>3. AckInv => AckedBlocksProgrammed
  BY DEF AckInv
<1>4. QED
  BY <1>1, <1>2, <1>3, Invariant, PTL DEF Spec

-----------------------------------------------------------------------------
\* Only two steps of a save change the descriptor page.
LEMMA StoredChange ==
  ASSUME [Next]_vars, stored' # stored
  PROVE  SaveEraseDescriptor \/ SaveWriteFirstHalf
<1> USE DEF persistent, transfer, Return, SaveDescriptorFor, Hang
<1>1. ~ \/ programmer_init \/ SaveWriteSecondHalf \/ EraseApplicationPage
        \/ mcuEraseFlash \/ mcuVerifyFirmware \/ programmerQuickVerify
        \/ QueryDescriptor \/ IncrementWaitTime \/ Reset \/ UNCHANGED vars
  BY DEF programmer_init, SaveWriteSecondHalf, EraseApplicationPage,
         mcuEraseFlash, mcuVerifyFirmware, programmerQuickVerify,
         programmerVerify, QueryDescriptor, IncrementWaitTime, Reset, vars
<1>2. /\ \A i \in Images, e \in EntryPoints, c \in Crypto :
           ~mcuInitFirmwareTransfer(i, e, c)
      /\ \A i \in Images : \A k \in 0 .. BlocksOf[i] - 1 :
           ~mcuWriteFirmwareBlock(i, k)
  BY DEF mcuInitFirmwareTransfer, mcuWriteFirmwareBlock
<1>3. QED
  BY <1>1, <1>2 DEF Next, Continue

\* The descriptor page changes only to the destroyed record, or from it to the
\* record in RAM, which is verified only if the flash matches it.
LEMMA StoredStep ==
  ASSUME IInv, [Next]_vars, stored' # stored
  PROVE  /\ UNCHANGED flash
         /\ \/ stored' = ZeroMeta
            \/ /\ stored = ZeroMeta
               /\ stored' \in MetaData
               /\ stored'.verified => HashMatches(flash, stored')
<1> USE DEF Hang
<1>1. CASE SaveEraseDescriptor
  BY <1>1 DEF SaveEraseDescriptor
<1>2. CASE SaveWriteFirstHalf
  <2>1. /\ stored = ZeroMeta
        /\ stored' \in {ZeroMeta, firmwareMetaData}
        /\ UNCHANGED flash
        /\ firmwareMetaData \in MetaData \union {ZeroMeta}
    BY <1>2 DEF SaveWriteFirstHalf, IInv, TypeOK, CallInv, SavePart, SaveSteps
  <2>2. firmwareMetaData = ZeroMeta \/ ~firmwareMetaData.verified
          \/ HashMatches(flash, firmwareMetaData)
    BY <1>2 DEF SaveWriteFirstHalf, IInv, TypeOK, Jobs, CallInv, SavePart, SaveSteps
  <2>3. QED
    BY <2>1, <2>2
<1>3. QED
  BY <1>1, <1>2, StoredChange

\* Every step of the programmer revokes, modifies, certifies or stutters.
LEMMA AbstractStep ==
  ASSUME IInv, IInv', [Next]_vars
  PROVE  [Abstract!Next]_<<flash, Certified>>
<1>1. CASE UNCHANGED <<flash, stored>>
  BY <1>1 DEF Certified
<1>2. CASE flash' # flash
  <2>1. Certified = {} /\ UNCHANGED Certified
    BY <1>2, FlashStep DEF Certified
  <2>2. flash' \in [AppBlocks -> Cells]
    BY DEF IInv, TypeOK
  <2>3. Abstract!Modify
    BY <2>1, <2>2
    DEF Abstract!Modify, Abstract!Blocks, Abstract!Cells, AppBlocks, Cells
  <2>4. QED
    BY <2>3 DEF Abstract!Next
<1>3. CASE stored' # stored /\ stored' = ZeroMeta
  <2>1. Certified' = {} /\ UNCHANGED flash
    BY <1>3, StoredStep, MetaFacts DEF Certified
  <2>2. QED
    BY <2>1 DEF Abstract!Next, Abstract!Revoke
<1>4. CASE stored' # stored /\ stored' # ZeroMeta
  <2>1. /\ stored = ZeroMeta /\ stored' \in MetaData /\ UNCHANGED flash
        /\ stored'.verified => HashMatches(flash, stored')
    BY <1>4, StoredStep
  <2>2. Certified = {}
    BY <2>1, MetaFacts DEF Certified
  <2>3. CASE ~stored'.verified
    BY <2>1, <2>2, <2>3 DEF Certified
  <2>4. CASE stored'.verified
    <3> DEFINE c == [img |-> stored'.img, entry |-> stored'.entry]
    <3>1. Certified' = {c}
      BY <2>4 DEF Certified
    <3>2. stored'.img \in Images /\ stored'.entry \in Abstract!Blocks
      BY <2>1 DEF MetaData, AppBlocks, Abstract!Blocks
    <3>3. Abstract!Holds(c)
      BY <2>1, <2>4 DEF HashMatches, ReadableIntact, Readable, Abstract!Holds
    <3>4. Abstract!Certify(c)
      BY <2>1, <2>2, <3>1, <3>3 DEF Abstract!Certify
    <3>5. QED
      BY <3>2, <3>4 DEF Abstract!Next
  <2>5. QED
    BY <2>3, <2>4
<1>5. QED
  BY <1>1, <1>2, <1>3, <1>4

\* The programmer implements the certified flash: descriptor pages, RAM
\* copies, torn saves and resets are invisible behind it.
THEOREM RefinesCertifiedFlash == Spec => ImplementsCertifiedFlash
<1>1. Init => Abstract!Init
  BY MetaFacts DEF Init, Abstract!Init, Abstract!Blocks, AppBlocks, Certified
<1>2. IInv /\ IInv' /\ [Next]_vars => [Abstract!Next]_<<flash, Certified>>
  BY AbstractStep
<1>3. QED
  BY <1>1, <1>2, Invariant, PTL DEF Spec, ImplementsCertifiedFlash, Abstract!Spec
=============================================================================
