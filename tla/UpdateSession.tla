--------------------------- MODULE UpdateSession ---------------------------
(***************************************************************************)
(* The host program and a device: bootloader.cpp, serialworker.cpp and     *)
(* mainwindow.cpp, with Programmer at the other end of a line that loses   *)
(* requests and answers.                                                   *)
(*                                                                         *)
(* The host has one thread for everything that matters here. A call blocks *)
(* it until the answer or the timeout; log() runs the event loop, so that  *)
(* the user and the reconnect timer may start another action in the middle *)
(* of one. "stack" holds the actions that are under way, the last one runs *)
(* and each waits in its step for the next one to end.                     *)
(*                                                                         *)
(* The device takes the requests in the order they were sent. A request    *)
(* the host has given up may still be under way and be carried out later;  *)
(* its answer is dropped by the RPC library.                               *)
(***************************************************************************)
EXTENDS Programmer, Plausibility, Sequences, SequencesExt

CONSTANTS
  EntryOf,       \* EntryOf[i]: entry point of image i, in half pages
  CryptoOf,      \* CryptoOf[i]: how image i is sent
  Inconsistent,  \* images whose file is damaged (firmwareLoadConsistency)
  WireCap,       \* requests the line and the device's FIFO hold
  MaxDepth,      \* actions that may be nested in one another
  Nested         \* what may begin while another action runs

\* The last conjunct: sizes are of type uint32_t.
ASSUME SessionAssumption ==
  /\ EntryOf \in [Images -> EntryPoints]
  /\ CryptoOf \in [Images -> Crypto]
  /\ Inconsistent \subseteq Images
  /\ WireCap \in Nat \ {0} /\ MaxDepth \in Nat \ {0}
  /\ \A i \in Images : BlocksOf[i] < AddressSpace

VARIABLES
  wire,              \* the requests under way to the device
  serving,           \* the request the main loop of the device serves
  stack,             \* the actions of the host, the running one last
  calling,           \* the host waits for an answer
  portOpen,
  connState,
  enabled,           \* the groups of menu actions that are enabled
  fwImage,           \* the image loaded, NoImage if none is valid (fileLoaded)
  remoteDeviceInfo   \* all three descriptors of the device are set

line        == <<wire, serving, calling>>
window      == <<portOpen, connState, enabled>>
host        == <<stack, window, fwImage, remoteDeviceInfo>>
sessionVars == <<vars, line, host>>

-----------------------------------------------------------------------------
(* The calls of class SerialThread. "judged": the device's own verdict      *)
(* (crystalBoolResult_t) decides besides the fact that an answer came.      *)

Request(op, i, k, judged) ==
  [op |-> op, img |-> i, k |-> k, judged |-> judged, live |-> TRUE]
Asking(op) == Request(op, NoImage, 0, FALSE)

rpcEnterProgrammingMode  == Asking("enter")
rpcIsCorrectHash         == Asking("hash")
rpcGetRemoteHashVersion  == Asking("hash")
rpcGetMCUDescriptor      == Asking("mcu")
rpcGetDeviceDescriptor   == Asking("device")
rpcGetFirmwareDescriptor == Asking("firmware")
rpcRunApplication        == Asking("run")
rpcEraseFlash            == Request("erase", NoImage, 0, TRUE)
rpcVerifyChecksum        == Request("verify", NoImage, 0, TRUE)
rpcInitFirmwareTransfer(i)  == Request("init", i, 0, TRUE)
rpcWriteFirmwareBlock(i, k) == Request("write", i, k, TRUE)

\* The main loop serves nothing, or it is still starting up.
NoRequest == Asking("none")
StartingUp == Asking("startup")
Verifying  == Asking("quick_verify")

\* Mutated form of Succeeded: the verdict of the device is not looked at.
SucceededMutant(request) == TRUE

\* What a call makes of an answer.
Succeeded(request) == request.judged => result = "OK"

GivenUp(request) == [request EXCEPT !.live = FALSE]

-----------------------------------------------------------------------------
(* The actions of the host                                                  *)

\* act: what was started; at: its next step; k: the block to send next;
\* img: the image its report is about; ok: no result so far was a failure;
\* infoOK: every descriptor came so far; alone: no other action began since;
\* logged: the events of this step were handled
Action(act, at) ==
  [act |-> act, at |-> at, k |-> 0, img |-> NoImage, ok |-> TRUE,
   infoOK |-> TRUE, alone |-> TRUE, logged |-> FALSE]

ConnectionState == {"Disconnected", "Connecting", "Connected"}
RecalcStep == [c \in ConnectionState |->
  CASE c = "Disconnected" -> "now_Disconnected"
    [] c = "Connecting"   -> "now_Connecting"
    [] c = "Connected"    -> "now_Connected"]
\* recalcUIState for state c: without a file it disables all and logs nothing.
Recalc(c) == IF fwImage # NoImage THEN RecalcStep[c] ELSE "now_nothing"

CallSteps  == {"enter", "hash", "remote_hash", "mcu", "device", "firmware",
               "erase", "init", "write", "verify", "run"}
\* Steps before which the program logs or shows a dialog.
EventSteps == {"enter", "found", "leaving", "refused", "answered", "plausibility",
               "erase", "init", "write", "verify", "report",
               "now_Disconnected", "now_Connecting", "now_Connected"}
HostSteps  == CallSteps \union EventSteps \union {"begin", "now_nothing"}

Top          == Last(stack)
At(step)     == stack # <<>> /\ ~calling /\ Top.at = step
GoOn(f, step) == [f EXCEPT !.at = step, !.logged = FALSE]
Become(f)    == stack' = Append(Front(stack), f)
Finish       == stack' = Front(stack)

\* Events are handled: nothing runs, or the running action logs.
HandlesEvents(act) ==
  /\ ~calling
  /\ stack # <<>> =>
       /\ Top.at \in EventSteps /\ ~Top.logged
       /\ Len(stack) < MaxDepth /\ act \in Nested

\* The event starts an action inside those that are under way.
Start(f) ==
  stack' = Append([n \in 1 .. Len(stack) |->
                     [stack[n] EXCEPT !.alone = FALSE, !.logged = TRUE]], f)

-----------------------------------------------------------------------------
SessionInit ==
  /\ Init
  /\ wire = <<>> /\ serving = StartingUp /\ calling = FALSE
  /\ stack = <<>>
  /\ portOpen = FALSE /\ connState = "Disconnected" /\ enabled = {}
  /\ fwImage = NoImage
  /\ remoteDeviceInfo = FALSE

(* The user and the timer                                                   *)

\* MainWindow::loadFile after the file dialog. A file that is refused is
\* logged before the menus follow.
OpenFile ==
  /\ HandlesEvents("file")
  /\ \E i \in Images \union {NoImage} :
       /\ fwImage' = i
       /\ Start(Action("file", IF i = NoImage THEN "refused" ELSE RecalcStep[connState]))
  /\ UNCHANGED <<vars, line, window, remoteDeviceInfo>>

\* setConnState(Disconnected) on the way to the step that adapts the menus
ClosePort ==
  /\ portOpen' = FALSE
  /\ connState' = "Disconnected"
  /\ remoteDeviceInfo' = FALSE
  /\ UNCHANGED <<enabled, fwImage>>
  /\ Become(Action("port", Recalc("Disconnected")))

\* on_actionConnect: opens the port, or closes it. Opening may fail.
Connect ==
  /\ HandlesEvents("port") /\ "connect" \in enabled
  /\ \/ /\ connState = "Disconnected"
        /\ portOpen' = TRUE
        /\ connState' = "Connecting"
        /\ Start(Action("port", Recalc("Connecting")))
        /\ UNCHANGED remoteDeviceInfo
     \/ /\ connState # "Disconnected"
        /\ portOpen' = FALSE
        /\ connState' = "Disconnected"
        /\ remoteDeviceInfo' = FALSE
        /\ Start(Action("port", Recalc("Disconnected")))
  /\ UNCHANGED <<vars, line, enabled, fwImage>>

\* The actions of the menu that need a connection.
Choose ==
  /\ "device" \in enabled
  /\ \E choice \in {<<"transfer", "begin">>, <<"erase", "erase">>,
                    <<"info", "mcu">>, <<"run", "run">>} :
       /\ HandlesEvents(choice[1])
       /\ Start(Action(choice[1], choice[2]))
  /\ UNCHANGED <<vars, line, window, fwImage, remoteDeviceInfo>>

\* The timer runs while the window is connecting; tryConnect needs the port.
onReconnectTimer ==
  /\ HandlesEvents("connect")
  /\ connState = "Connecting" /\ portOpen
  /\ Start(Action("connect", "enter"))
  /\ UNCHANGED <<vars, line, window, fwImage, remoteDeviceInfo>>

-----------------------------------------------------------------------------
(* Calls                                                                    *)

\* Mutated form of atEnd: one block too many.
atEndMutant == fwImage # NoImage => Top.k > BlocksOf[fwImage]

\* The block loop is over: binary_encoded is read while it is sent, and may
\* have been replaced.
atEnd == fwImage # NoImage => Top.k >= BlocksOf[fwImage]

\* The request of the next step.
NextRequest ==
  CASE Top.at = "enter"       -> rpcEnterProgrammingMode
    [] Top.at = "hash"        -> rpcIsCorrectHash
    [] Top.at = "remote_hash" -> rpcGetRemoteHashVersion
    [] Top.at = "mcu"         -> rpcGetMCUDescriptor
    [] Top.at = "device"      -> rpcGetDeviceDescriptor
    [] Top.at = "firmware"    -> rpcGetFirmwareDescriptor
    [] Top.at = "erase"       -> rpcEraseFlash
    [] Top.at = "init"        -> rpcInitFirmwareTransfer(fwImage)
    [] Top.at = "write"       -> rpcWriteFirmwareBlock(fwImage, Top.k)
    [] Top.at = "verify"      -> rpcVerifyChecksum
    [] Top.at = "run"         -> rpcRunApplication

\* The request is written to the port. It is lost if the port is closed, the
\* device is off, its FIFO is full or the line garbles it.
Call ==
  /\ stack # <<>> /\ ~calling
  /\ Top.at \in CallSteps
  /\ Top.at = "init" => fwImage # NoImage
  /\ Top.at = "write" => ~atEnd
  /\ calling' = TRUE
  /\ \/ UNCHANGED wire
     \/ /\ portOpen /\ pc # "off" /\ Len(wire) < WireCap
        /\ wire' = Append(wire, NextRequest)
  /\ remoteDeviceInfo' = (IF Top.at = "mcu" THEN FALSE ELSE remoteDeviceInfo)
  /\ UNCHANGED <<vars, serving, stack, window, fwImage>>

\* The answer of the call the host waits for, or its timeout.
Answered(ok) ==
  /\ serving.live /\ serving.op \notin {"none", "startup", "quick_verify"}
  /\ Idle
  /\ ok = Succeeded(serving)
  /\ serving' = NoRequest
  /\ UNCHANGED wire

TimedOut ==
  /\ wire' = [n \in 1 .. Len(wire) |-> GivenUp(wire[n])]
  /\ serving' = IF serving.op \in {"none", "startup", "quick_verify"}
                THEN serving ELSE GivenUp(serving)

\* The call of step "at" returns, ok or not.
Returns(step, ok) ==
  /\ stack # <<>> /\ calling /\ Top.at = step
  /\ Answered(ok) \/ (~ok /\ TimedOut)
  /\ calling' = FALSE
  /\ UNCHANGED vars

-----------------------------------------------------------------------------
(* Connecting                                                               *)

\* tryConnect: a device that does not answer is tried again by the timer.
EnterReturned(ok) ==
  /\ Returns("enter", ok)
  /\ IF ok THEN Become(GoOn(Top, "hash")) ELSE Finish
  /\ UNCHANGED <<window, fwImage, remoteDeviceInfo>>

\* An answer that is lost here counts as a wrong hash.
HashReturned(ok) ==
  /\ Returns("hash", ok)
  /\ Become(GoOn(Top, IF ok THEN "found" ELSE "remote_hash"))
  /\ UNCHANGED <<window, fwImage, remoteDeviceInfo>>

RemoteHashReturned(ok) ==
  /\ Returns("remote_hash", ok)
  /\ Become(GoOn(Top, "leaving"))
  /\ UNCHANGED <<window, fwImage, remoteDeviceInfo>>

\* The wrong device, and one that runs its application, is left.
Leave ==
  /\ At("leaving")
  /\ ClosePort
  /\ UNCHANGED <<vars, line>>

Found ==
  /\ At("found")
  /\ connState' = "Connected"
  /\ Become(Action("info", Recalc("Connected")))
  /\ UNCHANGED <<vars, line, portOpen, enabled, fwImage, remoteDeviceInfo>>

\* The rest of recalcUIState: the menus follow the state it was called for,
\* after the log entry; then whatever called it goes on.
recalcUIState ==
  /\ \/ At("now_Disconnected") /\ enabled' = {"connect"}
     \/ At("now_Connecting")   /\ enabled' = {"connect"}
     \/ At("now_Connected")    /\ enabled' = {"connect", "device"}
     \/ At("now_nothing")      /\ enabled' = {}
  /\ remoteDeviceInfo' = (IF At("now_Disconnected") THEN FALSE ELSE remoteDeviceInfo)
  /\ IF Top.act = "info" THEN Become(GoOn(Top, "mcu")) ELSE Finish
  /\ UNCHANGED <<vars, line, portOpen, connState, fwImage>>

-----------------------------------------------------------------------------
(* getDeviceInfo: three questions, asked to the end whatever is answered.   *)

DescriptorReturned(ok) ==
  /\ \/ Returns("mcu", ok) /\ Become([GoOn(Top, "device") EXCEPT !.infoOK = ok])
     \/ /\ Returns("device", ok)
        /\ Become([GoOn(Top, "firmware") EXCEPT !.infoOK = @ /\ ok])
  /\ UNCHANGED <<window, fwImage, remoteDeviceInfo>>

\* The result reported for "GetInfo" is that of the last question.
LastDescriptorReturned(ok) ==
  /\ Returns("firmware", ok)
  /\ Become([GoOn(Top, "answered") EXCEPT !.ok = ok, !.infoOK = @ /\ ok])
  /\ UNCHANGED <<window, fwImage, remoteDeviceInfo>>

\* Mutated form of InfoComplete: the last answer stands for all three.
InfoCompleteMutant == Top.ok

InfoComplete == Top.infoOK

\* The descriptors are taken over after the log entry.
TakeDescriptors ==
  /\ At("answered")
  /\ remoteDeviceInfo' = (InfoComplete \/ remoteDeviceInfo)
  /\ IF Top.act = "transfer" THEN Become(GoOn(Top, "plausibility")) ELSE Finish
  /\ UNCHANGED <<vars, line, window, fwImage>>

-----------------------------------------------------------------------------
(* sendfirmware                                                             *)

\* A modified file may be loaded again, and not be the same or be refused.
BeginTransfer ==
  /\ At("begin")
  /\ \E i \in Images \union {NoImage} :
       /\ fwImage = NoImage => i = NoImage
       /\ fwImage' = i
       /\ Become([GoOn(Top, IF i # NoImage THEN "mcu"
                            ELSE IF fwImage # NoImage THEN "refused" ELSE "report")
                    EXCEPT !.img = i])
  /\ UNCHANGED <<vars, line, window, remoteDeviceInfo>>

\* A refused file has been logged. Without a valid image only the report is
\* written.
RefusalLogged ==
  /\ At("refused")
  /\ Become(IF Top.act = "file" THEN GoOn(Top, Recalc(connState))
            ELSE [GoOn(Top, IF fwImage # NoImage THEN "mcu" ELSE "report")
                    EXCEPT !.img = fwImage])
  /\ UNCHANGED <<vars, line, window, fwImage, remoteDeviceInfo>>

\* The descriptors as checkPlausibility sees them, in half pages.
DeviceDescriptors ==
  IF remoteDeviceInfo
  THEN [UnSet EXCEPT !.minimalFirmwareEntryPoint = MinimalBlock,
                     !.availFlashSize = EndBlock - MinimalBlock,
                     !.firmwareEntryPoint = AnyEntryPoint,
                     !.cryptoRequired = ~AllowPlain]
  ELSE UnSet
ImageMetaData(i) ==
  [entryPoint |-> EntryOf[i], size |-> BlocksOf[i], crypto |-> CryptoOf[i],
   consistent |-> i \notin Inconsistent,
   nameCRC16 |-> 0, gitDate |-> 0, githash |-> 0, version |-> 0]

CheckPlausibility ==
  LET results == checkPlausibility(DeviceDescriptors, ImageMetaData(Top.img)) IN
  /\ At("plausibility")
  /\ \E confirmed \in showWarngingMessage(results) :
       Become([GoOn(Top, IF confirmed THEN "erase" ELSE "report")
                 EXCEPT !.ok = @ /\ confirmed])
  /\ UNCHANGED <<vars, line, window, fwImage, remoteDeviceInfo>>

\* eraseFlash, of an update and of the menu
EraseReturned(ok) ==
  /\ Returns("erase", ok)
  /\ IF Top.act = "erase" THEN Finish
     ELSE Become([GoOn(Top, IF ok THEN "init" ELSE "report") EXCEPT !.ok = @ /\ ok])
  /\ UNCHANGED <<window, fwImage, remoteDeviceInfo>>

\* An image that was cleared meanwhile has no checksum to send.
InitWithoutImage ==
  /\ At("init") /\ fwImage = NoImage
  /\ Become([GoOn(Top, "report") EXCEPT !.ok = FALSE])
  /\ UNCHANGED <<vars, line, window, fwImage, remoteDeviceInfo>>

InitReturned(ok) ==
  /\ Returns("init", ok)
  /\ Become([GoOn(Top, IF ok THEN "write" ELSE "report") EXCEPT !.ok = @ /\ ok])
  /\ UNCHANGED <<window, fwImage, remoteDeviceInfo>>

\* Mutated form of BlockReturned: a block that failed is sent again.
BlockReturnedMutant(ok) ==
  /\ Returns("write", ok)
  /\ Become([GoOn(Top, "write") EXCEPT !.k = IF ok THEN @ + 1 ELSE @])
  /\ UNCHANGED <<window, fwImage, remoteDeviceInfo>>

\* The first block that fails ends the transfer.
BlockReturned(ok) ==
  /\ Returns("write", ok)
  /\ IF ok THEN Become([GoOn(Top, "write") EXCEPT !.k = @ + 1])
           ELSE Become([GoOn(Top, "report") EXCEPT !.ok = FALSE, !.k = 0])
  /\ UNCHANGED <<window, fwImage, remoteDeviceInfo>>

BlocksSent ==
  /\ At("write") /\ atEnd
  /\ Become([GoOn(Top, "verify") EXCEPT !.k = 0])
  /\ UNCHANGED <<vars, line, window, fwImage, remoteDeviceInfo>>

VerifyReturned(ok) ==
  /\ Returns("verify", ok)
  /\ Become([GoOn(Top, "report") EXCEPT !.ok = @ /\ ok])
  /\ UNCHANGED <<window, fwImage, remoteDeviceInfo>>

\* The report is saved with the overall result; on_actionTransfer then asks
\* for the device information once more.
SaveReport ==
  /\ At("report")
  /\ Become(Action("info", "mcu"))
  /\ UNCHANGED <<vars, line, window, fwImage, remoteDeviceInfo>>

RunReturned(ok) ==
  /\ Returns("run", ok)
  /\ Become(GoOn(Top, "leaving"))
  /\ UNCHANGED <<window, fwImage, remoteDeviceInfo>>

-----------------------------------------------------------------------------
(* The device                                                               *)

\* The handler of a request; the first two belong to main() and the library.
Handle(request) ==
  CASE request.op \in {"enter", "hash"} -> UNCHANGED vars
    [] request.op \in {"mcu", "device", "firmware"} -> QueryDescriptor
    [] request.op = "erase"  -> mcuEraseFlash
    [] request.op = "init"   ->
         mcuInitFirmwareTransfer(request.img, EntryOf[request.img], CryptoOf[request.img])
    [] request.op = "write"  -> mcuWriteFirmwareBlock(request.img, request.k)
    [] request.op = "verify" -> mcuVerifyFirmware

\* rpc_receive hands the next request to its handler.
Serve ==
  /\ Idle /\ serving = NoRequest /\ wire # <<>>
  /\ Head(wire).op # "run"
  /\ Handle(Head(wire))
  /\ serving' = Head(wire)
  /\ wire' = Tail(wire)
  /\ UNCHANGED <<calling, host>>

\* The handler's answer is lost, or nobody waits for it any more.
AnswerLost ==
  /\ Idle /\ serving # NoRequest
  /\ serving.op \notin {"startup", "quick_verify"}
  /\ serving' = NoRequest
  /\ UNCHANGED <<vars, wire, calling, host>>

\* The device is reset, by loss of power or to run the application, or falls
\* silent because the application runs.
DeviceReset ==
  /\ Reset
  /\ wire' = <<>> /\ serving' = StartingUp
  /\ UNCHANGED <<calling, host>>

\* What main() does before its loop: the firmware is verified if it was not.
DeviceStartsUp ==
  /\ \/ pc = "off" /\ programmer_init /\ UNCHANGED serving
     \/ Idle /\ serving = StartingUp /\ programmerQuickVerify /\ serving' = Verifying
     \/ Idle /\ serving = Verifying /\ UNCHANGED vars /\ serving' = NoRequest
  /\ UNCHANGED <<wire, calling, host>>

DeviceStep ==
  \/ Serve
  \/ Continue /\ UNCHANGED <<line, host>>
  \/ IncrementWaitTime /\ serving = NoRequest /\ UNCHANGED <<line, host>>
  \/ AnswerLost
  \/ DeviceReset
  \/ DeviceStartsUp

\* The host goes on with what it has begun.
HostStep ==
  \/ Call
  \/ \E ok \in BOOLEAN :
       \/ EnterReturned(ok) \/ HashReturned(ok) \/ RemoteHashReturned(ok)
       \/ DescriptorReturned(ok) \/ LastDescriptorReturned(ok)
       \/ EraseReturned(ok) \/ InitReturned(ok) \/ BlockReturned(ok)
       \/ VerifyReturned(ok) \/ RunReturned(ok)
  \/ Leave \/ Found \/ recalcUIState
  \/ BeginTransfer \/ RefusalLogged \/ TakeDescriptors \/ CheckPlausibility
  \/ InitWithoutImage \/ BlocksSent \/ SaveReport

Event == OpenFile \/ Connect \/ Choose \/ onReconnectTimer

SessionNext == Event \/ HostStep \/ DeviceStep

SessionSpec == SessionInit /\ [][SessionNext]_sessionVars

-----------------------------------------------------------------------------
Requests == [op : CallSteps \union {"none", "startup", "quick_verify", "hash"},
             img : Images \union {NoImage}, k : Nat,
             judged : BOOLEAN, live : BOOLEAN]
Actions == [act : {"file", "port", "transfer", "erase", "info", "run", "connect"},
            at : HostSteps, k : Nat, img : Images \union {NoImage},
            ok : BOOLEAN, infoOK : BOOLEAN,
            alone : BOOLEAN, logged : BOOLEAN]

SessionTypeOK ==
  /\ wire \in Seq(Requests) /\ Len(wire) <= WireCap
  /\ \A request \in Range(wire) :
       request.op = "write" => request.k < BlocksOf[request.img]
  /\ serving \in Requests
  /\ stack \in Seq(Actions) /\ Len(stack) <= MaxDepth
  /\ calling \in BOOLEAN /\ portOpen \in BOOLEAN
  /\ connState \in ConnectionState
  /\ enabled \subseteq {"connect", "device"}
  /\ fwImage \in Images \union {NoImage}
  /\ remoteDeviceInfo \in BOOLEAN

\* A report that calls an update successful tells the truth, whatever was
\* lost, late or interrupted on the line and in the device: when it is saved
\* the device holds the image it names with a verdict that says so, and
\* nothing the host has given up is under way any more to undo it. Excepted
\* are reports about no image and updates in which another action was started
\* (mainwindow.cpp:141).
ReportIsTrue ==
  [][SaveReport /\ Top.ok /\ Top.alone /\ Top.img # NoImage =>
       /\ stored.verified /\ stored.img = Top.img
       /\ wire = <<>>]_sessionVars

\* An update erases only a device that has told everything about itself since
\* the update began: a lost answer leaves descriptors of zeros, for which no
\* image is plausible (bootloader.cpp:499 to 524).
ErasesOnlyKnownDevice ==
  At("erase") /\ Top.act = "transfer" /\ Top.alone => Top.infoOK

\* Host and device agree on the block that comes next: whatever calls failed
\* or are carried out late, a transfer that is still open expects the block
\* the host is about to send, and its decryption the block before it. The CBC
\* state cannot go back (programmer.c:325), so a block must never be repeated.
InStep ==
  At("write") /\ Top.alone /\ transferIsInitialized =>
    /\ firmwareMetaData.img = Top.img
    /\ writePointer = EntryOf[Top.img] + Top.k
    /\ CryptoOf[Top.img] = "AES" =>
         cbc = IF Top.k = 0 THEN Fresh ELSE <<Top.img, Top.k - 1>>
=============================================================================
