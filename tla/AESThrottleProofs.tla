------------------------- MODULE AESThrottleProofs -------------------------
(***************************************************************************)
(* The throttle of encrypted transfers, for every WaitTime and every       *)
(* schedule of calls, resets and failures.                                 *)
(***************************************************************************)
EXTENDS AESThrottle, ProgrammerProofs

\* The wait counter never claims more seconds than have passed since the last
\* transfer was accepted, except while that transfer's descriptor is being
\* saved and until the reset that follows a failed save.
Honest ==
  /\ sinceOpen \in 0 .. WaitTime
  /\ job # "open" /\ pc # "hung" =>
       waitTime <= sinceOpen \/ sinceOpen = WaitTime

ThrottleInv == IInv /\ Honest

LEMMA ThrottleInitially == ThrottleInit => ThrottleInv
BY InitIInv, ConfigAssumption DEF ThrottleInit, ThrottleInv, Honest

\* Every step of the programmer keeps the wait counter, restarts it or counts.
LEMMA WaitTimeStep ==
  ASSUME IInv, Next
  PROVE  \/ waitTime' = 0
         \/ UNCHANGED waitTime /\ (job = "open" => job' = "open" \/ pc' = "hung")
         \/ CountsSecond /\ UNCHANGED job
<1> USE DEF transfer, persistent, Return, SaveDescriptorFor, Hang, Idle
<1>1. CASE programmer_init
  BY <1>1 DEF programmer_init
<1>2. CASE SaveEraseDescriptor
  BY <1>2 DEF SaveEraseDescriptor
<1>3. CASE SaveWriteFirstHalf
  BY <1>3 DEF SaveWriteFirstHalf
<1>4. CASE SaveWriteSecondHalf
  BY <1>4 DEF SaveWriteSecondHalf, WaitTimeAfter
<1>5. CASE EraseApplicationPage
  BY <1>5 DEF EraseApplicationPage, IInv, CallInv, ErasePart
<1>6. CASE IncrementWaitTime
  BY <1>6 DEF IncrementWaitTime, CountsSecond
<1>7. CASE Reset
  BY <1>7 DEF Reset
<1>8. ASSUME pc = "idle" => job = "none"
      PROVE  Idle /\ UNCHANGED waitTime =>
               UNCHANGED waitTime /\ (job = "open" => job' = "open" \/ pc' = "hung")
  BY <1>8
<1>9. pc = "idle" => job = "none"
  BY DEF IInv, CallInv, RestPart
<1>10. CASE mcuEraseFlash
  BY <1>8, <1>9, <1>10 DEF mcuEraseFlash
<1>11. ASSUME NEW i \in Images, NEW e \in EntryPoints, NEW c \in Crypto,
              mcuInitFirmwareTransfer(i, e, c)
       PROVE  UNCHANGED waitTime /\ Idle
  BY <1>11 DEF mcuInitFirmwareTransfer
<1>12. ASSUME NEW i \in Images, NEW k \in 0 .. BlocksOf[i] - 1,
              mcuWriteFirmwareBlock(i, k)
       PROVE  UNCHANGED waitTime /\ Idle
  BY <1>12 DEF mcuWriteFirmwareBlock
<1>13. CASE mcuVerifyFirmware
  BY <1>8, <1>9, <1>13 DEF mcuVerifyFirmware, programmerVerify
<1>14. CASE programmerQuickVerify
  BY <1>8, <1>9, <1>14 DEF programmerQuickVerify, programmerVerify
<1>15. CASE QueryDescriptor
  BY <1>8, <1>9, <1>15 DEF QueryDescriptor
<1>16. QED
  BY <1>1, <1>2, <1>3, <1>4, <1>5, <1>6, <1>7, <1>8, <1>9, <1>10, <1>11,
     <1>12, <1>13, <1>14, <1>15 DEF Next, Continue

\* Only mcuInitFirmwareTransfer starts a job "open", and TooEarly bars it.
LEMMA AcceptedInTime ==
  ASSUME IInv, Next, AcceptsAES
  PROVE  waitTime >= WaitTime \/ stored.byCrypto
<1> USE DEF Return, SaveDescriptorFor, Hang, Idle, AcceptsAES
<1>1. PICK i \in Images, e \in EntryPoints, c \in Crypto :
        mcuInitFirmwareTransfer(i, e, c)
  <2>1. job = "none"
    BY DEF IInv, CallInv, RestPart
  <2>2. ~ \/ programmer_init \/ Continue \/ mcuEraseFlash \/ mcuVerifyFirmware
          \/ programmerQuickVerify \/ QueryDescriptor \/ IncrementWaitTime \/ Reset
    BY <2>1 DEF programmer_init, Continue, SaveEraseDescriptor, SaveWriteFirstHalf,
       SaveWriteSecondHalf, EraseApplicationPage, mcuEraseFlash, mcuVerifyFirmware,
       programmerVerify, programmerQuickVerify, QueryDescriptor, IncrementWaitTime,
       Reset
  <2>3. ~ \E i \in Images : \E k \in 0 .. BlocksOf[i] - 1 : mcuWriteFirmwareBlock(i, k)
    BY <2>1 DEF mcuWriteFirmwareBlock
  <2>4. QED
    BY <2>2, <2>3 DEF Next
<1>2. c = "AES" /\ ~TooEarly(c)
  <2>1. ~TooEarly(c) /\ firmwareMetaData' = OpenedMeta(i, e, c)
    BY <1>1 DEF mcuInitFirmwareTransfer
  <2>2. QED
    BY <2>1 DEF OpenedMeta
<1>3. firmwareMetaData = stored
  BY DEF IInv, CallInv, CacheCoherent
<1>4. waitTime \in Nat /\ WaitTime \in Nat
  BY ConfigAssumption DEF IInv, TypeOK
<1>5. QED
  BY <1>2, <1>3, <1>4 DEF TooEarly

LEMMA ThrottleStep ==
  ThrottleInv /\ [ThrottleNext]_throttleVars => ThrottleInv'
<1> SUFFICES ASSUME ThrottleInv, [ThrottleNext]_throttleVars
             PROVE  ThrottleInv'
  OBVIOUS
<1>1. IInv'
  BY InvStep DEF ThrottleInv, ThrottleNext, throttleVars
<1>2. /\ WaitTime \in Nat /\ sinceOpen \in 0 .. WaitTime
      /\ waitTime \in Nat /\ waitTime' \in Nat
  BY <1>1, ConfigAssumption DEF ThrottleInv, Honest, IInv, TypeOK
<1>3. CASE UNCHANGED throttleVars
  BY <1>1, <1>3 DEF ThrottleInv, Honest, throttleVars, vars
<1>4. CASE ThrottleNext
  <2>1. sinceOpen' \in 0 .. WaitTime
    BY <1>2, <1>4 DEF ThrottleNext
  <2>2. CASE AcceptsAES
    BY <1>1, <2>1, <2>2 DEF AcceptsAES, ThrottleInv, Honest
  <2>3. CASE ~AcceptsAES
    <3>1. sinceOpen' >= sinceOpen
      BY <1>2, <1>4, <2>3 DEF ThrottleNext
    <3>2. CASE waitTime' = 0
      BY <1>1, <1>2, <2>1, <3>2 DEF ThrottleInv, Honest
    <3>3. CASE /\ UNCHANGED waitTime
               /\ job = "open" => job' = "open" \/ pc' = "hung"
      <4>1. pc = "hung" => pc' = "hung" \/ waitTime' = 0
        BY <1>4 DEF ThrottleNext, Next, Continue, programmer_init,
           SaveEraseDescriptor, SaveWriteFirstHalf, SaveWriteSecondHalf,
           EraseApplicationPage, mcuEraseFlash, mcuInitFirmwareTransfer,
           mcuWriteFirmwareBlock, mcuVerifyFirmware, programmerQuickVerify,
           QueryDescriptor, IncrementWaitTime, Reset, Idle
      <4>2. QED
        BY <1>1, <1>2, <2>1, <3>1, <3>2, <3>3, <4>1 DEF ThrottleInv, Honest
    <3>4. CASE CountsSecond /\ UNCHANGED job
      <4>1. sinceOpen' = IF sinceOpen < WaitTime THEN sinceOpen + 1 ELSE sinceOpen
        BY <1>4, <2>3, <3>4 DEF ThrottleNext
      <4>2. waitTime' = waitTime + 1 /\ job # "open" /\ pc # "hung"
        BY <3>4 DEF CountsSecond, Idle, ThrottleInv, IInv, CallInv, RestPart
      <4>3. QED
        BY <1>1, <1>2, <2>1, <4>1, <4>2 DEF ThrottleInv, Honest
    <3>5. QED
      BY <1>4, <3>2, <3>3, <3>4, WaitTimeStep DEF ThrottleInv, ThrottleNext
  <2>4. QED
    BY <2>2, <2>3
<1>5. QED
  BY <1>3, <1>4

\* Encrypted transfers are accepted at most once in WaitTime seconds, unless
\* the firmware in place was verified after an encrypted transfer.
THEOREM AESOpensAlwaysSpaced == ThrottleSpec => AESOpensSpaced
<1>1. ThrottleSpec => []ThrottleInv
  BY ThrottleInitially, ThrottleStep, PTL DEF ThrottleSpec
<1>2. ThrottleInv /\ [ThrottleNext]_throttleVars
        => [AcceptsAES => sinceOpen >= WaitTime \/ stored.byCrypto]_throttleVars
  <2> SUFFICES ASSUME ThrottleInv, ThrottleNext, AcceptsAES
               PROVE  sinceOpen >= WaitTime \/ stored.byCrypto
    OBVIOUS
  <2>1. waitTime >= WaitTime \/ stored.byCrypto
    BY AcceptedInTime DEF ThrottleInv, ThrottleNext
  <2>2. job # "open" /\ pc # "hung"
    BY DEF AcceptsAES, Idle, ThrottleInv, IInv, CallInv, RestPart
  <2>3. waitTime \in Nat /\ WaitTime \in Nat /\ sinceOpen \in Nat
    BY ConfigAssumption DEF ThrottleInv, Honest, IInv, TypeOK
  <2>4. QED
    BY <2>1, <2>2, <2>3 DEF ThrottleInv, Honest
<1>3. QED
  BY <1>1, <1>2, PTL DEF ThrottleSpec, AESOpensSpaced
=============================================================================
