----------------------------- MODULE BootProofs -----------------------------
(***************************************************************************)
(* What the device may launch, for every set of images, flash size and     *)
(* configuration that starts the application through a reset.              *)
(***************************************************************************)
EXTENDS Boot, ProgrammerProofs

\* A life that has not reached programmer_init, and the application, find the
\* RAM of the programmer lost.
AsleepPart == main \in {"reset", "init", "app"} => pc = "off"

\* After the first QuickVerify its answer is the persisted verdict; as long as
\* it is being saved no other call has begun.
DecidePart ==
  main = "decide" =>
    /\ pc \in SaveSteps => job = "verify"
    /\ pc \notin {"off", "erase_app"}
    /\ pc = "idle" => \/ result = "Fail"
                      \/ result = "OK" /\ CrcOK(stored) /\ stored.verified

\* Before the loop a descriptor is only erased if it was not verified.
KeepPart == main # "loop" /\ pc = "erase_descriptor" => ~stored.verified

BootInv == IInv /\ AsleepPart /\ DecidePart /\ KeepPart /\ LaunchOnlyVerified

LEMMA BootInitInv == BootInit => BootInv
BY InitIInv DEF BootInit, Init, BootInv, AsleepPart, DecidePart, KeepPart, LaunchOnlyVerified

\* A reset or a jump is a step of the programmer or leaves it alone.
LEMMA LoseRAMStep == LoseRAM => [Next]_vars
BY DEF LoseRAM, Next

\* Every step is a step of the programmer or leaves it alone.
LEMMA BootStepIsStep ==
  ASSUME [BootNext]_bvars
  PROVE  [Next]_vars
<1> USE LoseRAMStep
<1>1. programmerRunApplication => [Next]_vars
  BY DEF programmerRunApplication, RunApplicationAfterReset, JumpToApplication,
         MCUReset, Next
<1>2. CASE MainStep
  BY <1>1, <1>2 DEF MainStep, StartUp, CallsInOrder, Decide, ContinueCall,
     AppBootTimeout, IdleReboot, RunApplicationAfterReset, JumpToApplication,
     MCUReset, Next
<1>3. CASE mcuRunApplication
  BY <1>1, <1>3 DEF mcuRunApplication
<1>4. CASE ServeProgrammer
  BY <1>4 DEF ServeProgrammer, Next
<1>5. CASE Disturbance /\ ~ServeProgrammer
  BY <1>5 DEF Disturbance, mcuEnterProgrammerMode, PowerOnReset, PinReset,
     TurnKey, AppResets, AppWakesUp, AppClearsFlags, MCUReset
<1>6. CASE UNCHANGED bvars
  BY <1>6 DEF bvars
<1>7. QED
  BY <1>2, <1>3, <1>4, <1>5, <1>6 DEF BootNext

\* What losing the RAM leaves of the programmer.
LEMMA LoseRAMLeaves ==
  ASSUME LoseRAM
  PROVE  pc' = "off" /\ UNCHANGED <<flash, stored>>
BY DEF LoseRAM, Reset, persistent, vars

\* The invariant holds again wherever the RAM was lost, and no application runs.
LEMMA ResetInv ==
  ASSUME LoseRAM, IInv', main' \in {"reset", "init"}
  PROVE  BootInv'
BY LoseRAMLeaves
DEF BootInv, AsleepPart, DecidePart, KeepPart, LaunchOnlyVerified

\* What a step of a call that has begun does to its answer.
LEMMA ContinueStep ==
  ASSUME IInv, IInv', Continue, main = "decide" => job = "verify",
         UNCHANGED main, DecidePart, AsleepPart, KeepPart
  PROVE  DecidePart' /\ AsleepPart' /\ KeepPart' /\ main # "app"
<1> USE DEF Hang, Return, SaveSteps
<1>1. main \notin {"reset", "init", "app"} /\ pc # "off"
  BY DEF AsleepPart, Continue, SaveEraseDescriptor, SaveWriteFirstHalf,
         SaveWriteSecondHalf, EraseApplicationPage
<1>2. ASSUME main = "decide"
      PROVE  DecidePart'
  <2>1. job = "verify"
    BY <1>2
  <2>2. CASE SaveEraseDescriptor
    BY <2>1, <2>2 DEF SaveEraseDescriptor, DecidePart
  <2>3. CASE SaveWriteFirstHalf
    BY <2>1, <2>3 DEF SaveWriteFirstHalf, DecidePart
  <2>4. CASE SaveWriteSecondHalf
    <3>1. /\ stored = firmwareMetaData /\ UNCHANGED stored
          /\ firmwareMetaData \in MetaData
      BY <2>1, <2>4 DEF SaveWriteSecondHalf, IInv, CallInv, SavePart
    <3>2. CASE pc' = "hung"
      BY <3>2 DEF DecidePart
    <3>3. CASE pc' = "idle" /\ result' = IF firmwareMetaData.verified THEN "OK" ELSE "Fail"
      BY <3>1, <3>3, MetaFacts DEF DecidePart
    <3>4. QED
      BY <2>1, <2>4, <3>2, <3>3 DEF SaveWriteSecondHalf
  <2>5. CASE EraseApplicationPage
    BY <2>1, <2>5 DEF EraseApplicationPage, IInv, CallInv, ErasePart
  <2>6. QED
    BY <2>2, <2>3, <2>4, <2>5 DEF Continue
<1>3. KeepPart'
  BY DEF KeepPart, Continue, SaveEraseDescriptor, SaveWriteFirstHalf,
     SaveWriteSecondHalf, EraseApplicationPage
<1>4. QED
  BY <1>1, <1>2, <1>3 DEF DecidePart, AsleepPart

\* The answer of the first QuickVerify is the persisted verdict.
LEMMA QuickVerifyStep ==
  ASSUME IInv, IInv', programmerQuickVerify
  PROVE  /\ pc' \notin {"off", "erase_app"}
         /\ pc' \in SaveSteps => job' = "verify"
         /\ pc' = "idle" => \/ result' = "Fail"
                            \/ /\ result' = "OK"
                               /\ CrcOK(stored') /\ stored'.verified
         /\ pc' = "erase_descriptor" => ~stored'.verified
<1> USE DEF Return, SaveDescriptorFor, SaveSteps
<1>1. firmwareMetaData = stored /\ (firmware_meta_is_valid <=> CrcOK(stored))
  BY DEF programmerQuickVerify, Idle, IInv, CallInv, CacheCoherent
<1>2. QED
  BY <1>1, MetaFacts DEF programmerQuickVerify, programmerVerify, persistent

\* A step of the boot sequence keeps the invariant.
LEMMA BootStep == UsingReset /\ BootInv /\ [BootNext]_bvars => BootInv'
<1> SUFFICES ASSUME UsingReset, BootInv, [BootNext]_bvars PROVE BootInv'
  OBVIOUS
<1>1. IInv /\ IInv' /\ AsleepPart /\ DecidePart /\ KeepPart /\ LaunchOnlyVerified
  BY InvStep, BootStepIsStep DEF BootInv
<1> USE <1>1
<1>2. CASE StartUp
  BY <1>2 DEF StartUp, BootInv, AsleepPart, DecidePart, KeepPart, LaunchOnlyVerified, vars
<1>3. CASE CallsInOrder
  <2>1. CASE main = "quick_verify" /\ programmerQuickVerify /\ main' = "decide"
    BY <2>1, QuickVerifyStep
    DEF BootInv, AsleepPart, DecidePart, KeepPart, LaunchOnlyVerified
  <2>2. CASE programmer_init /\ main' \in {"quick_verify", "verify_again"}
    <3>1. pc' = "erase_descriptor" => ~stored'.verified
      BY <2>2, MetaFacts
      DEF programmer_init, persistent, Return, IInv, TypeOK
    <3>2. QED
      BY <2>2, <3>1 DEF BootInv, AsleepPart, DecidePart, KeepPart, LaunchOnlyVerified
  <2>3. CASE main' = "loop"
    BY <2>3 DEF BootInv, AsleepPart, DecidePart, KeepPart, LaunchOnlyVerified
  <2>4. QED
    BY <1>3, <2>1, <2>2, <2>3 DEF CallsInOrder
<1>4. CASE Decide
  <2>1. main = "decide" /\ pc = "idle"
    BY <1>4 DEF Decide, Idle
  <2>2. CASE JumpToApplication /\ ModeAfterVerify = "to_application"
    <3>1. CASE main' = "reset"
      BY <2>2, <3>1, ResetInv DEF JumpToApplication
    <3>2. CASE main' = "app"
      <4>1. UNCHANGED <<flash, stored>> /\ pc' = "off"
        BY <2>2, LoseRAMLeaves DEF JumpToApplication
      <4>2. CrcOK(stored) /\ stored.verified
        BY <2>1, <2>2 DEF DecidePart, ModeAfterVerify
      <4>3. HashMatches(flash, stored)
        BY <4>2 DEF IInv, CallInv, VerifiedIntact
      <4>4. QED
        BY <3>2, <4>1, <4>2, <4>3
        DEF BootInv, AsleepPart, DecidePart, KeepPart, LaunchOnlyVerified
    <3>3. QED
      BY <2>2, <3>1, <3>2 DEF JumpToApplication
  <2>3. CASE main' \in {"stuck", "init_again"} /\ UNCHANGED vars
    BY <2>1, <2>3 DEF vars, BootInv, AsleepPart, DecidePart, KeepPart, LaunchOnlyVerified
  <2>4. QED
    BY <1>4, <2>2, <2>3 DEF Decide
<1>5. CASE ContinueCall
  <2>1. Continue /\ UNCHANGED main
    BY <1>5 DEF ContinueCall, boot
  <2>2. main = "decide" => job = "verify"
    <3>1. pc \in SaveSteps \/ pc = "erase_app"
      BY <2>1 DEF Continue, SaveEraseDescriptor, SaveWriteFirstHalf,
         SaveWriteSecondHalf, EraseApplicationPage, SaveSteps
    <3>2. main = "decide" => pc # "erase_app"
      BY DEF DecidePart
    <3>3. QED
      BY <3>1, <3>2 DEF DecidePart
  <2>3. QED
    BY <2>1, <2>2, ContinueStep DEF BootInv, LaunchOnlyVerified
<1>6. CASE AppBootTimeout \/ IdleReboot \/ mcuRunApplication
  <2>1. RunApplicationAfterReset
    BY <1>6 DEF AppBootTimeout, IdleReboot, mcuRunApplication,
       programmerRunApplication
  <2>2. QED
    BY <2>1, ResetInv DEF RunApplicationAfterReset, MCUReset
<1>7. CASE ServeProgrammer \/ mcuEnterProgrammerMode
  <2>1. main = "loop" /\ UNCHANGED main
    BY <1>7 DEF ServeProgrammer, mcuEnterProgrammerMode, InLoop, boot
  <2>2. QED
    BY <2>1 DEF BootInv, AsleepPart, DecidePart, KeepPart, LaunchOnlyVerified
<1>8. CASE PowerOnReset \/ PinReset \/ AppResets \/ AppWakesUp
  BY <1>8, ResetInv DEF PowerOnReset, PinReset, AppResets, AppWakesUp, MCUReset
<1>9. CASE TurnKey \/ AppClearsFlags \/ UNCHANGED bvars
  BY <1>9 DEF TurnKey, AppClearsFlags, bvars, boot, vars,
     BootInv, AsleepPart, DecidePart, KeepPart, LaunchOnlyVerified
<1>10. QED
  BY <1>2, <1>3, <1>4, <1>5, <1>6, <1>7, <1>8, <1>9
  DEF BootNext, MainStep, Disturbance

\* Where the application is started through a reset, what runs is what was
\* verified, after any number of updates, failures, resets and timeouts.
THEOREM LaunchesOnlyVerified ==
  ASSUME UsingReset
  PROVE  BootSpec => []LaunchOnlyVerified
<1>1. BootInv /\ [BootNext]_bvars => BootInv'
  BY BootStep
<1>2. BootInv => LaunchOnlyVerified
  BY DEF BootInv
<1>3. QED
  BY <1>1, <1>2, BootInitInv, PTL DEF BootSpec

\* A verdict is revoked only once main() has reached its loop: the start-up
\* erases no descriptor that was verified.
THEOREM BootingKeepsVerdict ==
  ASSUME UsingReset
  PROVE  BootSpec => BootKeepsVerdict
<1>1. ASSUME BootInv, [BootNext]_bvars, stored.verified, ~stored'.verified
      PROVE  main = "loop"
  <2>1. IInv /\ KeepPart
    BY <1>1 DEF BootInv
  <2>2. SaveEraseDescriptor \/ SaveWriteFirstHalf
    BY <1>1, <2>1, BootStepIsStep, StoredChange
  <2>3. pc = "erase_descriptor"
    <3>1. pc = "write_first_half" => stored = ZeroMeta
      BY <2>1 DEF IInv, CallInv, SavePart, SaveSteps
    <3>2. QED
      BY <1>1, <2>2, <3>1, MetaFacts DEF SaveEraseDescriptor, SaveWriteFirstHalf
  <2>4. QED
    BY <1>1, <2>1, <2>3 DEF KeepPart
<1>2. BootInv /\ [BootNext]_bvars
        => [stored.verified /\ ~stored'.verified => main = "loop"]_bvars
  BY <1>1
<1>3. BootInv /\ [BootNext]_bvars => BootInv'
  BY BootStep
<1>4. QED
  BY <1>2, <1>3, BootInitInv, PTL DEF BootSpec, BootKeepsVerdict

\* The variables of main() keep their types.
THEOREM BootTypeCorrect == BootSpec => []BootTypeOK
<1> USE DEF BootTypeOK, Places, JumpModes, BootModes, Flags
<1>1. BootInit => BootTypeOK
  BY DEF BootInit
<1>2. ASSUME BootTypeOK, [BootNext]_bvars
      PROVE  BootTypeOK'
  <2>1. ASSUME NEW cause \in SUBSET Flags, NEW magic \in BootModes,
               MCUReset(cause, magic), UNCHANGED key
        PROVE  BootTypeOK'
    BY <1>2, <2>1 DEF MCUReset
  <2>2. RunApplicationAfterReset => BootTypeOK'
    BY <2>1 DEF RunApplicationAfterReset
  <2>3. JumpToApplication => BootTypeOK'
    BY <1>2 DEF JumpToApplication
  <2>4. programmerRunApplication => BootTypeOK'
    BY <1>2, <2>2, <2>3 DEF programmerRunApplication, boot
  <2>5. CASE StartUp
    BY <1>2, <2>5 DEF StartUp, ModeAtStart, ModeByReason
  <2>6. CASE CallsInOrder
    BY <1>2, <2>6 DEF CallsInOrder
  <2>7. CASE Decide
    BY <1>2, <2>3, <2>7 DEF Decide, ModeAfterVerify
  <2>8. CASE AppBootTimeout \/ IdleReboot \/ mcuRunApplication
    BY <2>2, <2>4, <2>8 DEF AppBootTimeout, IdleReboot, mcuRunApplication
  <2>9. CASE ContinueCall \/ ServeProgrammer \/ UNCHANGED bvars
    BY <1>2, <2>9 DEF ContinueCall, ServeProgrammer, bvars, boot
  <2>10. CASE mcuEnterProgrammerMode \/ PowerOnReset \/ TurnKey \/ AppClearsFlags
    BY <1>2, <2>10 DEF mcuEnterProgrammerMode, PowerOnReset, TurnKey, AppClearsFlags
  <2>11. CASE PinReset \/ AppWakesUp
    BY <1>2, <2>1, <2>11 DEF PinReset, AppWakesUp
  <2>12. CASE AppResets
    <3>1. PICK cause \in {"software", "watchdog", "lowpower"}, magic \in BootModes :
            MCUReset({cause}, magic) /\ UNCHANGED key
      BY <1>2, <2>12, Zenon DEF AppResets
    <3>2. QED
      BY <2>1, <3>1
  <2>13. QED
    BY <1>2, <2>5, <2>6, <2>7, <2>8, <2>9, <2>10, <2>11, <2>12
    DEF BootNext, MainStep, Disturbance
<1>3. QED
  BY <1>1, <1>2, PTL DEF BootSpec
=============================================================================
