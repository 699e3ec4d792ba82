--------------------------- MODULE EepromTransfer ---------------------------
(***************************************************************************)
(* The EEPROM actions of the host program, bootloader.cpp 288 to 491, and  *)
(* the device of Eeprom at the other end of a line that loses requests and *)
(* answers. Host and line are those of UpdateSession: a call blocks until  *)
(* its answer or its timeout, log() runs the event loop of the window, and *)
(* "stack" holds the actions that are under way, the running one last.     *)
(***************************************************************************)
EXTENDS Eeprom, SequencesExt

CONSTANTS
  Files,      \* contents of the files the user has
  WireCap,    \* requests the line and the device's FIFO hold
  MaxDepth,   \* actions that may be nested in one another
  Nested      \* those that may begin while another one runs

ASSUME TransferAssumption ==
  Files \subseteq Seq(Byte) /\ WireCap \in Nat \ {0} /\ MaxDepth \in Nat \ {0}

VARIABLES wire, serving, calling, stack

line         == <<wire, serving, calling>>
transferVars == <<eepromVars, line, stack>>

-----------------------------------------------------------------------------
(* The calls of class SerialThread. All but the questions of getDeviceInfo  *)
(* are judged by the device.                                                *)

Request(op, content) == [op |-> op, content |-> content, size |-> 0, live |-> TRUE]

getDeviceInfo         == Request("info", <<>>)
rpcEEPROMGetSize      == Request("size", <<>>)
rpcEEPROMInitTransfer == Request("init", <<>>)
rpcEEPROMErase        == Request("erase", <<>>)
rpcEEPROMReadBlock(size)     == [Request("read", <<>>) EXCEPT !.size = size]
rpcEEPROMWriteBlock(content) == Request("write", content)
rpcEEPROMVerify(content)     == Request("verify", content)

Nothing == Request("none", <<>>)
GivenUp(request) == [request EXCEPT !.live = FALSE]

-----------------------------------------------------------------------------
\* act: what was started; at: its next step; file: the file it reads or has
\* written so far; sent: bytes of it that were sent; alone: no other action
\* began since; logged: the events of this step were handled
Action(act, at, file) ==
  [act |-> act, at |-> at, file |-> file, sent |-> 0, alone |-> TRUE, logged |-> FALSE]

CallSteps == {"info", "size", "init", "block", "verify", "erase"}
\* Steps before which the program logs.
LogSteps  == {"size", "block", "erase", "done", "failed"}

Top             == Last(stack)
At(step)        == stack # <<>> /\ ~calling /\ Top.at = step
GoOn(f, step)   == [f EXCEPT !.at = step, !.logged = FALSE]
Become(f)       == stack' = Append(Front(stack), f)

\* The user starts an action while nothing runs, or while one logs.
Begin(f) ==
  /\ ~calling
  /\ stack # <<>> => Top.at \in LogSteps /\ ~Top.logged /\ Len(stack) < MaxDepth /\ f.act \in Nested
  /\ stack' = Append([n \in 1 .. Len(stack) |->
                        [stack[n] EXCEPT !.alone = FALSE, !.logged = TRUE]], f)
  /\ UNCHANGED <<eepromVars, line>>

readEEPROMToFile == Begin(Action("read", "size", <<>>))

writeEEPROMFromFile ==
  \E content \in Files : Begin(Action("write", "size", content))

\* A file that cannot be opened is not verified, and nothing is said.
verifyEEPROMFromFile ==
  \E content \in Files : Begin(Action("verify", "size", content))

eraseEEPROM == Begin(Action("erase", "info", <<>>))

-----------------------------------------------------------------------------
Least(m, n) == IF m < n THEN m ELSE n

\* read_position, write_position
Moved == IF Top.act = "read" THEN Len(Top.file) ELSE Top.sent

\* What the next block holds; file_bin.read stops at the end of the file.
BlockSize ==
  LET room == Least(BlockMax, portEEPROMGetSize - Moved)
  IN IF Top.act = "read" THEN room ELSE Least(room, Len(Top.file) - Moved)

\* The loop over the blocks is over.
atEnd == Moved >= portEEPROMGetSize \/ BlockSize = 0

NextRequest ==
  CASE Top.at = "info"   -> getDeviceInfo
    [] Top.at = "size"   -> rpcEEPROMGetSize
    [] Top.at = "init"   -> rpcEEPROMInitTransfer
    [] Top.at = "erase"  -> rpcEEPROMErase
    [] Top.at = "verify" -> rpcEEPROMVerify(Top.file)
    [] Top.at = "block"  ->
         IF Top.act = "read" THEN rpcEEPROMReadBlock(BlockSize)
         ELSE rpcEEPROMWriteBlock(SubSeq(Top.file, Moved + 1, Moved + BlockSize))

Call ==
  /\ stack # <<>> /\ ~calling
  /\ Top.at \in CallSteps
  /\ Top.at = "block" => ~atEnd
  /\ calling' = TRUE
  /\ \/ UNCHANGED wire
     \/ running # "off" /\ Len(wire) < WireCap /\ wire' = Append(wire, NextRequest)
  /\ UNCHANGED <<eepromVars, serving, stack>>

\* The answer of the call, or its timeout. A request that was given up is
\* carried out later, its answer dropped.
Answered ==
  /\ serving.live /\ serving.op # "none" /\ Ready
  /\ serving' = Nothing
  /\ UNCHANGED wire

TimedOut ==
  /\ wire' = [n \in 1 .. Len(wire) |-> GivenUp(wire[n])]
  /\ serving' = IF serving.op = "none" THEN serving ELSE GivenUp(serving)

Returned(step, ok) ==
  /\ stack # <<>> /\ calling /\ Top.at = step
  /\ \/ Answered /\ ok = (serving.op = "info" \/ outcome = "OK")
     \/ TimedOut /\ ok = FALSE
  /\ calling' = FALSE
  /\ UNCHANGED eepromVars

\* The step after GetSize; the sizes of the file and the EEPROM are compared.
SizeReturned(ok) ==
  /\ Returned("size", ok)
  /\ Become(GoOn(Top, IF ~ok THEN "failed"
                      ELSE IF Top.act # "verify" THEN "init"
                      ELSE IF Len(Top.file) = portEEPROMGetSize THEN "verify" ELSE "failed"))

InitReturned(ok) ==
  /\ Returned("init", ok)
  /\ Become(GoOn(Top, IF ok THEN "block" ELSE "failed"))

\* The first block that fails ends the transfer.
BlockReturned(ok) ==
  /\ Returned("block", ok)
  /\ Become(IF ~ok THEN GoOn(Top, "failed")
            ELSE IF Top.act = "read"
                 THEN [GoOn(Top, "block") EXCEPT !.file = @ \o buffer]
                 ELSE [GoOn(Top, "block") EXCEPT !.sent = @ + BlockSize])

\* The host claims success before it logs it.
ReadDone ==
  /\ At("block") /\ Top.act = "read" /\ atEnd
  /\ Become(GoOn(Top, "done"))
  /\ UNCHANGED <<eepromVars, line>>

WriteDone ==
  /\ At("block") /\ Top.act = "write" /\ atEnd
  /\ Become(GoOn(Top, "done"))
  /\ UNCHANGED <<eepromVars, line>>

VerifyReturned(ok) ==
  /\ Returned("verify", ok)
  /\ Become(GoOn(Top, IF ok THEN "done" ELSE "failed"))

\* The report says OK only if both came back.
InfoReturned(ok) ==
  /\ Returned("info", ok)
  /\ Become(GoOn(Top, "erase"))

EraseReturned(ok) ==
  /\ Returned("erase", ok)
  /\ Become(GoOn(Top, IF ok THEN "done" ELSE "failed"))

\* The last log entry is shown.
Finish ==
  /\ At("done") \/ At("failed")
  /\ stack' = Front(stack)
  /\ UNCHANGED <<eepromVars, line>>

-----------------------------------------------------------------------------
\* mcuEEPROM*: each calls the function of programmer.c.
Handle(request) ==
  CASE request.op = "info"   -> UNCHANGED eepromVars
    [] request.op = "size"   -> programmerEEPROMGetSize
    [] request.op = "init"   -> programmerEEPROMInitTransfer
    [] request.op = "read"   -> programmerEEPROMRead(request.size)
    [] request.op = "write"  -> programmerEEPROMWrite(request.content)
    [] request.op = "verify" -> programmerEEPROMVerify(request.content)
    [] request.op = "erase"  -> programmerEEPROMErase

Serve ==
  /\ Ready /\ serving = Nothing /\ wire # <<>>
  /\ Handle(Head(wire))
  /\ serving' = Head(wire)
  /\ wire' = Tail(wire)
  /\ UNCHANGED <<calling, stack>>

AnswerLost ==
  /\ Ready /\ serving # Nothing
  /\ serving' = Nothing
  /\ UNCHANGED <<eepromVars, wire, calling, stack>>

DeviceFails ==
  /\ PowerLoss
  /\ wire' = <<>> /\ serving' = Nothing
  /\ UNCHANGED <<calling, stack>>

DeviceStep ==
  \/ Serve
  \/ (EepromContinues \/ PowerOn) /\ UNCHANGED <<line, stack>>
  \/ AnswerLost
  \/ DeviceFails

HostStep ==
  \/ Call
  \/ \E ok \in BOOLEAN :
       \/ SizeReturned(ok) \/ InitReturned(ok) \/ BlockReturned(ok)
       \/ VerifyReturned(ok) \/ InfoReturned(ok) \/ EraseReturned(ok)
  \/ ReadDone \/ WriteDone \/ Finish

Event == readEEPROMToFile \/ writeEEPROMFromFile \/ verifyEEPROMFromFile \/ eraseEEPROM

TransferInit ==
  /\ EepromInit
  /\ wire = <<>> /\ serving = Nothing /\ calling = FALSE
  /\ stack = <<>>

TransferNext == Event \/ HostStep \/ DeviceStep

TransferSpec == TransferInit /\ [][TransferNext]_transferVars

-----------------------------------------------------------------------------
Content == [n \in 1 .. portEEPROMGetSize |-> eeprom[Start + n - 1]]

\* A file the host calls read is the content of the EEPROM, although requests
\* and answers are lost and the device loses its power and its read pointer in
\* between. Excepted are reads in which another action was started
\* (mainwindow.cpp:141): it may move the pointer.
ReadIsTrue == [][ReadDone /\ Top.alone => Top.file = Content]_transferVars

\* A file the host calls written is in the EEPROM as far as there is room,
\* with the same exception.
WriteIsTrue ==
  [][WriteDone /\ Top.alone =>
       \A n \in 1 .. Least(Len(Top.file), portEEPROMGetSize) :
          Content[n] = Top.file[n]]_transferVars

\* A file the host calls verified is the content of the EEPROM at that
\* moment, whatever other actions run.
VerifyIsTrue == [][VerifyReturned(TRUE) => Content = Top.file]_transferVars
=============================================================================
