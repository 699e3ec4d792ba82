-------------------------------- MODULE Boot --------------------------------
(***************************************************************************)
(* The life of the device from reset to reset: mcu/src/main.c decides      *)
(* whether to start the application or to stay in the bootloader, and      *)
(* calls the programmer (module Programmer, whose steps these are) in the  *)
(* order main() does; in its loop it serves the calls of the host.         *)
(*                                                                         *)
(* The application, the host, the key and the supply are the environment.  *)
(* The application is taken not to program the flash itself. Time is not   *)
(* counted: both idle times of the loop may run out whenever no call runs. *)
(* The flash size is configured right, as port_checkFlashConfiguration     *)
(* tests, and the read protection is not modelled.                         *)
(***************************************************************************)
EXTENDS Programmer

CONSTANTS
  UsingReset,         \* BOOTLOADER_BOOT_APP_USING_RESET
  PORWithoutWaiting,  \* BOOTLOADER_APP_STARTS_AFTER_POR_WITHOUT_WAITING
  StackOk,            \* images whose first word points into the RAM
  Prepared            \* images whose stack lies beneath the exchange area

ASSUME BootAssumption ==
  /\ UsingReset \in BOOLEAN /\ PORWithoutWaiting \in BOOLEAN
  /\ StackOk \subseteq Images /\ Prepared \subseteq Images

VARIABLES
  main,        \* where main() is, or what runs instead of it
  blJumpMode,
  bootmode,    \* the magic key in the RAM shared with the application
  resetFlags,  \* the reset flags of RCC and PWR that are set
  key          \* the enter-bootloader key is held

boot  == <<main, blJumpMode, bootmode, resetFlags, key>>
bvars == <<vars, boot>>

BootModes == {"none", "app_launch", "firmware_update"}
JumpModes == {"none", "to_application", "into_bootloader", "timeout"}
Flags     == {"por", "software", "watchdog", "lowpower", "wakeup"}
Places    == {"reset", "init", "quick_verify", "decide", "init_again",
              "verify_again", "loop", "app", "stuck"}

BootTypeOK ==
  /\ main \in Places
  /\ blJumpMode \in JumpModes
  /\ bootmode \in BootModes
  /\ resetFlags \subseteq Flags
  /\ key \in BOOLEAN

-----------------------------------------------------------------------------
\* Mutated form of ResetReason: the software flag is tested last.
ResetReasonMutant ==
  IF "wakeup" \in resetFlags \/ "watchdog" \in resetFlags THEN "event"
  ELSE IF "por" \in resetFlags THEN "power"
  ELSE IF "software" \in resetFlags THEN "software" ELSE "power"

\* portTestResetSource, with the reasons main() treats alike put together. The
\* flags are tested in this order; nothing in the bootloader clears them.
ResetReason ==
  IF "wakeup" \in resetFlags THEN "event"
  ELSE IF "lowpower" \in resetFlags THEN "power"
  ELSE IF "watchdog" \in resetFlags THEN "event"
  ELSE IF "software" \in resetFlags THEN "software" ELSE "power"

\* The first word at the entry point of descriptor m lies in a set of images'
\* stack words. Entry point 0 of a destroyed or unread descriptor is where the
\* bootloader itself is mapped, whose stack is where it should be.
StackWordIn(m, images) ==
  \/ m.entry = 0
  \/ m.entry # 0 /\ \E i \in images : flash[m.entry] = <<i, 0>>

\* Of any other content of the flash the first word may have any value.
UnknownWord(m) ==
  m.entry # 0 /\ flash[m.entry] \notin {<<i, 0>> : i \in Images} \union {Blank}

\* What main() would do of itself: its default and its switch.
ModeByReason ==
  IF \/ ResetReason = "event"
     \/ ResetReason = "software" /\ bootmode = "app_launch"
     \/ PORWithoutWaiting
  THEN "to_application" ELSE "timeout"

\* Mutated form of ModeAtStart: the update request is not looked at.
ModeAtStartMutantRequest(plausible) ==
  IF ~plausible THEN "into_bootloader" ELSE IF key THEN "timeout" ELSE ModeByReason

\* Mutated form of ModeAtStart: the key is not looked at.
ModeAtStartMutantKey(plausible) ==
  IF bootmode = "firmware_update" THEN "timeout"
  ELSE IF ~plausible THEN "into_bootloader" ELSE ModeByReason

\* blJumpMode as main() has it before the descriptor is read: each test
\* overrides those before it.
ModeAtStart(plausible) ==
  IF bootmode = "firmware_update" THEN "timeout"
  ELSE IF ~plausible THEN "into_bootloader"
  ELSE IF key THEN "timeout" ELSE ModeByReason

-----------------------------------------------------------------------------
BootInit ==
  /\ Init
  /\ main = "reset"
  /\ blJumpMode = "none"
  /\ bootmode \in BootModes
  /\ resetFlags = {"por"}
  /\ key \in BOOLEAN

\* RAM is lost, except the exchange area; module Programmer's part of a reset.
LoseRAM == Reset \/ (pc = "off" /\ UNCHANGED vars)

\* The MCU is reset for cause, with magic in the exchange area. The flags of
\* earlier resets stay; the wakeup flag is cleared by any reset.
MCUReset(cause, magic) ==
  /\ LoseRAM
  /\ main' = "reset"
  /\ blJumpMode' = "none"
  /\ bootmode' = magic
  /\ resetFlags' = (resetFlags \ {"wakeup"}) \union cause

\* main() up to programmer_init. The stack address is checked here, with the
\* descriptor not read yet.
StartUp ==
  /\ main = "reset"
  /\ blJumpMode' = ModeAtStart(StackWordIn(firmwareMetaData, Prepared))
  /\ bootmode' = "none"
  /\ main' = "init"
  /\ UNCHANGED <<vars, resetFlags, key>>

\* The calls main() makes one after the other: the next begins when the last
\* has returned.
CallsInOrder ==
  /\ \/ main = "init" /\ programmer_init /\ main' = "quick_verify"
     \/ main = "quick_verify" /\ programmerQuickVerify /\ main' = "decide"
     \/ main = "init_again" /\ Idle /\ programmer_init /\ main' = "verify_again"
     \/ main = "verify_again" /\ programmerQuickVerify /\ main' = "loop"
  /\ UNCHANGED <<blJumpMode, bootmode, resetFlags, key>>

\* portFlashRunApplication jumps to the application; entry point 0 restarts
\* the bootloader.
JumpToApplication ==
  /\ StackWordIn(firmwareMetaData, StackOk) \/ UnknownWord(firmwareMetaData)
  /\ LoseRAM
  /\ main' = IF firmwareMetaData.entry = 0 THEN "reset" ELSE "app"
  /\ blJumpMode' = "none"
  /\ UNCHANGED <<bootmode, resetFlags, key>>

\* It returns, where the first word is no stack address.
NoJump == ~StackWordIn(firmwareMetaData, StackOk)

\* Mutated form of ModeAfterVerify: the verdict is not asked.
ModeAfterVerifyMutant == blJumpMode

ModeAfterVerify == IF result = "Fail" THEN "into_bootloader" ELSE blJumpMode

\* main() after the first QuickVerify.
Decide ==
  /\ main = "decide" /\ Idle
  /\ IF ModeAfterVerify = "to_application"
       THEN \/ JumpToApplication
            \/ /\ NoJump
               /\ main' = "stuck"
               /\ UNCHANGED <<vars, blJumpMode, bootmode, resetFlags, key>>
       ELSE /\ blJumpMode' = ModeAfterVerify
            /\ main' = "init_again"
            /\ UNCHANGED <<vars, bootmode, resetFlags, key>>

-----------------------------------------------------------------------------
InLoop == main = "loop" /\ Idle

\* portFlashRunApplicationAfterReset
RunApplicationAfterReset ==
  MCUReset({"software"}, "app_launch") /\ UNCHANGED key

\* Where no jump is made all that is left is what a query does to the
\* programmer: the transfer is closed.
programmerRunApplication ==
  \/ UsingReset /\ RunApplicationAfterReset
  \/ ~UsingReset /\ JumpToApplication
  \/ ~UsingReset /\ NoJump /\ QueryDescriptor /\ UNCHANGED boot

\* The two idle times of the loop run out; every call of the host restarts them.
AppBootTimeout ==
  InLoop /\ blJumpMode = "timeout" /\ programmerRunApplication

IdleReboot ==
  InLoop /\ blJumpMode = "into_bootloader" /\ RunApplicationAfterReset

mcuRunApplication == InLoop /\ programmerRunApplication

mcuEnterProgrammerMode ==
  /\ InLoop
  /\ blJumpMode' = "into_bootloader"
  /\ UNCHANGED <<vars, main, bootmode, resetFlags, key>>

\* The calls of programmer.h the host makes through the RPC handlers, and the
\* loop's own count of the seconds.
ServeProgrammer ==
  /\ InLoop
  /\ \/ mcuEraseFlash
     \/ \E i \in Images, e \in EntryPoints, c \in Crypto :
          mcuInitFirmwareTransfer(i, e, c)
     \/ \E i \in Images : \E k \in 0 .. BlocksOf[i] - 1 :
          mcuWriteFirmwareBlock(i, k)
     \/ mcuVerifyFirmware
     \/ QueryDescriptor
     \/ IncrementWaitTime
  /\ UNCHANGED boot

\* A call of the programmer goes on.
ContinueCall == Continue /\ UNCHANGED boot

-----------------------------------------------------------------------------
\* Power is lost and comes back: the exchange area holds anything.
PowerOnReset ==
  /\ LoseRAM
  /\ main' = "reset"
  /\ blJumpMode' = "none"
  /\ bootmode' \in BootModes
  /\ resetFlags' = {"por"}
  /\ UNCHANGED key

\* The reset pin or a debugger.
PinReset == MCUReset({}, bootmode) /\ UNCHANGED key

TurnKey ==
  key' = ~key /\ UNCHANGED <<vars, main, blJumpMode, bootmode, resetFlags>>

\* The application asks for an update, or is reset by itself or a watchdog or
\* on entering a low-power mode. Unless it is prepared, the exchange area is
\* part of its stack.
AppResets ==
  /\ main = "app"
  /\ \E cause \in {"software", "watchdog", "lowpower"} :
     \E magic \in {bootmode, "firmware_update"} \union
                  (IF StackWordIn(stored, Prepared) THEN {} ELSE BootModes) :
       MCUReset({cause}, magic)
  /\ UNCHANGED key

\* The application wakes up from standby, in which RAM is lost.
AppWakesUp ==
  /\ main = "app"
  /\ \E magic \in BootModes : MCUReset({"wakeup"}, magic)
  /\ UNCHANGED key

AppClearsFlags ==
  /\ main = "app"
  /\ resetFlags' = {}
  /\ UNCHANGED <<vars, main, blJumpMode, bootmode, key>>

\* What main() does by itself, and what others do to it. (The call
\* mcuRunApplication does what the timeouts of the loop do, so that to be left
\* alone cannot mean to be left without it.)
MainStep == StartUp \/ CallsInOrder \/ Decide \/ ContinueCall
              \/ AppBootTimeout \/ IdleReboot

Disturbance ==
  \/ ServeProgrammer \/ mcuEnterProgrammerMode
  \/ PowerOnReset \/ PinReset \/ TurnKey
  \/ AppResets \/ AppWakesUp \/ AppClearsFlags

BootNext == MainStep \/ mcuRunApplication \/ Disturbance

BootSpec == BootInit /\ [][BootNext]_bvars

\* main() never stops by itself except in its endless loops; the idle times
\* run out if the host is silent, which the properties that need it assume.
FairBootSpec == BootSpec /\ WF_bvars(MainStep)

-----------------------------------------------------------------------------
\* The firmware in place was verified and its first word is a stack address.
Launchable ==
  CrcOK(stored) /\ stored.verified /\ StackWordIn(stored, StackOk)

\* Only an application that was verified, and is still what was verified, is
\* ever running: neither a reset in the middle of an update, nor a stale
\* verdict, nor a timeout of the loop starts anything else.
LaunchOnlyVerified ==
  main = "app" =>
    /\ CrcOK(stored) /\ stored.verified
    /\ HashMatches(flash, stored)

\* Booting is harmless: as long as main() has not reached its loop, where the
\* host may ask for it, no verdict is revoked, not even to be renewed. Power
\* lost during start-up never costs the device its application.
BootKeepsVerdict ==
  [][stored.verified /\ ~stored'.verified => main = "loop"]_bvars

\* An application whose stack overlaps the shared memory is not launched: what
\* the check at main.c:165 is for. It is made before programmer_init has read
\* the entry point, so that it looks at the bootloader's own stack.
LaunchedAppIsPrepared ==
  main = "app" => StackWordIn(stored, Prepared)

\* An application that asks for an update gets the bootloader, unless power is
\* lost, another reset comes first or a save fails: it is not simply started
\* again.
UpdateRequestHonoured ==
  main = "reset" /\ bootmode = "firmware_update"
    ~> \/ main = "loop" \/ pc = "hung" \/ resetFlags = {"por"}
       \/ main = "reset" /\ bootmode # "firmware_update"

\* With the key held the device reaches the loop that serves the host, whatever
\* firmware it holds: no image locks the host out for good.
RecoverableByKey ==
  <>[][~Disturbance]_bvars =>
    (main = "reset" /\ key ~> main = "loop" \/ pc = "hung" \/ ~key)

\* What the loop announces ("starting app..", port_flash.c:592) comes true: left
\* alone, a device with launchable firmware ends up running it. It does not
\* where a low-power reset flag is set, which portTestResetSource prefers to
\* the software reset the loop has just made: main() then ignores the magic
\* key, waits for the host and starts over, for ever.
AnnouncedStartHappens ==
  <>[][~Disturbance]_bvars =>
    <>[](Launchable => main = "app" \/ pc = "hung" \/ key)

\* Left alone, a device with launchable firmware ends up running it, from
\* wherever it was left, unless a save failed, the key is held, or a low-power
\* reset flag stands where the application is not started without waiting.
LaunchableIsLaunched ==
  <>[][~Disturbance]_bvars =>
    <>[](Launchable => \/ main = "app" \/ pc = "hung" \/ key
                       \/ "lowpower" \in resetFlags /\ ~PORWithoutWaiting)
=============================================================================
