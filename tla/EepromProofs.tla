---------------------------- MODULE EepromProofs ----------------------------
(***************************************************************************)
(* Theorems about the EEPROM of the device, for every size of it and of    *)
(* its blocks, and, since every step of the host and of the line is one of *)
(* the device or leaves it alone, about the device the host talks to.      *)
(***************************************************************************)
EXTENDS EepromTransfer, TLAPS

\* What is known while a block is being written: the bytes in front of
\* position are in the EEPROM, at the addresses the pointer means.
WritePart ==
  running = "write" =>
    /\ initialized
    /\ position <= Len(buffer)
    /\ \A n \in 1 .. position :
         /\ EEPROMWritePointerAddress + n - 1 \in Address
         /\ eeprom[EEPROMWritePointerAddress + n - 1] = buffer[n]

EInv == EepromTypeOK /\ WritePart

\* The address that is programmed is the one the pointer names, although the
\* pointer is cut to 16 bits on the way (port_flash.c:506).
LEMMA NarrowIsOffset ==
  ASSUME EepromTypeOK, initialized, NEW n \in Nat
  PROVE  /\ HwAddress(EEPROMWritePointerAddress, n) = EEPROMWritePointerAddress + n
         /\ HwAddress(EEPROMReadPointerAddress, n) = EEPROMReadPointerAddress + n
<1>1. {EEPROMWritePointerAddress, EEPROMReadPointerAddress} \subseteq Start .. End + 1
  BY DEF EepromTypeOK
<1>2. /\ EEPROMWritePointerAddress % Narrow16 = EEPROMWritePointerAddress - Start
      /\ EEPROMReadPointerAddress % Narrow16 = EEPROMReadPointerAddress - Start
  BY <1>1, EepromAssumption
<1>3. Start \in Int /\ EEPROMWritePointerAddress \in Int /\ EEPROMReadPointerAddress \in Int
  BY EepromAssumption DEF EepromTypeOK
<1>4. Start + (EEPROMWritePointerAddress % Narrow16) + n = EEPROMWritePointerAddress + n
  <2>1. Start + (EEPROMWritePointerAddress - Start) + n = EEPROMWritePointerAddress + n
    BY <1>3
  <2> QED  BY <2>1, <1>2
<1>5. Start + (EEPROMReadPointerAddress % Narrow16) + n = EEPROMReadPointerAddress + n
  <2>1. Start + (EEPROMReadPointerAddress - Start) + n = EEPROMReadPointerAddress + n
    BY <1>3
  <2> QED  BY <2>1, <1>2
<1> QED  BY <1>4, <1>5 DEF HwAddress

LEMMA InitEInv == EepromInit => EInv
<1> SUFFICES ASSUME EepromInit PROVE EInv
  OBVIOUS
<1>1. buffer \in Seq(Byte)
  BY DEF EepromInit
<1>2. EepromTypeOK
  BY <1>1, EepromAssumption DEF EepromInit, EepromTypeOK
<1>3. WritePart
  BY DEF EepromInit, WritePart
<1> QED  BY <1>2, <1>3 DEF EInv

-----------------------------------------------------------------------------
(* Steps that begin no write and change neither bytes nor pointers.         *)

\* A command that only answers
LEMMA AnswersEInv ==
  ASSUME EInv, UNCHANGED <<eeprom, pointers>>, buffer' \in Seq(Byte),
         running' = "nothing", position' = 0, outcome' \in {"none", "OK", "Fail"}
  PROVE  EInv'
BY DEF EInv, EepromTypeOK, WritePart, pointers, Address

\* What the device reads lies within the EEPROM and is what the pointer names.
LEMMA ReadEInv ==
  ASSUME EInv, NEW size \in Nat, programmerEEPROMRead(size)
  PROVE  EInv'
<1>1. CASE CanRead(size)
  <2>1. /\ \A n \in 0 .. size - 1 : HwAddress(EEPROMReadPointerAddress, n) \in Address
        /\ initialized
    BY <1>1 DEF CanRead
  <2>2. buffer' = [n \in 1 .. size |-> eeprom[HwAddress(EEPROMReadPointerAddress, n - 1)]]
    BY <1>1 DEF programmerEEPROMRead
  <2>3. \A n \in 1 .. size : eeprom[HwAddress(EEPROMReadPointerAddress, n - 1)] \in Byte
    <3> SUFFICES ASSUME NEW n \in 1 .. size
                 PROVE  eeprom[HwAddress(EEPROMReadPointerAddress, n - 1)] \in Byte
      OBVIOUS
    <3>1. n - 1 \in 0 .. size - 1
      OBVIOUS
    <3>2. HwAddress(EEPROMReadPointerAddress, n - 1) \in Address
      BY <2>1, <3>1
    <3> QED  BY <3>2 DEF EInv, EepromTypeOK
  <2>4. buffer' \in Seq(Byte)
    <3>1. buffer' \in [1 .. size -> Byte]
      BY <2>2, <2>3
    <3> QED  BY <3>1
  <2>5. EEPROMReadPointerAddress + size \in Start .. End + 1
    <3>1. EEPROMReadPointerAddress \in Start .. End + 1
      BY <2>1 DEF EInv, EepromTypeOK
    <3>2. CASE size = 0
      BY <3>1, <3>2, EepromAssumption
    <3>3. CASE size # 0
      <4>1. size - 1 \in 0 .. size - 1 /\ size - 1 \in Nat
        BY <3>3
      <4>2. HwAddress(EEPROMReadPointerAddress, size - 1) \in Address
        BY <4>1, <2>1
      <4>3. HwAddress(EEPROMReadPointerAddress, size - 1) = EEPROMReadPointerAddress + (size - 1)
        BY <4>1, <2>1, NarrowIsOffset DEF EInv
      <4> QED  BY <3>1, <4>2, <4>3, EepromAssumption DEF Address
    <3> QED  BY <3>2, <3>3
  <2>6. /\ EEPROMReadPointerAddress' = EEPROMReadPointerAddress + size
        /\ UNCHANGED <<eeprom, EEPROMWritePointerAddress, initialized>>
        /\ running' = "nothing" /\ position' = 0 /\ outcome' = "OK"
    BY <1>1 DEF programmerEEPROMRead, Returns
  <2> QED  BY <2>4, <2>5, <2>6, EepromAssumption DEF EInv, EepromTypeOK, WritePart, Address
<1>2. CASE ~CanRead(size)
  <2>1. buffer' = <<>> /\ running' = "nothing" /\ position' = 0 /\ outcome' = "Fail"
    BY <1>2 DEF programmerEEPROMRead, Returns
  <2>2. UNCHANGED <<eeprom, pointers>>
    BY <1>2 DEF programmerEEPROMRead, pointers
  <2> QED  BY <2>1, <2>2, AnswersEInv
<1> QED  BY <1>1, <1>2

LEMMA WriteEInv ==
  ASSUME EInv, NEW data \in Seq(Byte), programmerEEPROMWrite(data)
  PROVE  EInv'
<1>1. buffer' = data /\ UNCHANGED <<eeprom, pointers>>
  BY DEF programmerEEPROMWrite
<1>2. CASE initialized /\ Len(data) <= BlockMax
  <2>1. running' = "write" /\ position' = 0 /\ outcome' = "none"
    BY <1>2 DEF programmerEEPROMWrite
  <2>2. EepromTypeOK'
    BY <1>1, <2>1 DEF EInv, EepromTypeOK, pointers, Address
  <2>3. WritePart'
    BY <1>1, <1>2, <2>1 DEF WritePart, pointers
  <2> QED  BY <2>2, <2>3 DEF EInv
<1>3. CASE ~(initialized /\ Len(data) <= BlockMax)
  BY <1>1, <1>3, AnswersEInv DEF programmerEEPROMWrite, Returns
<1> QED  BY <1>2, <1>3

LEMMA ProgramByteEInv ==
  ASSUME EInv, ProgramByte
  PROVE  EInv'
<1>1. /\ running = "write" /\ position < Len(buffer) /\ position \in Nat /\ Len(buffer) \in Nat
      /\ UNCHANGED <<pointers, buffer>> /\ initialized
  BY DEF ProgramByte, EInv, EepromTypeOK, WritePart
<1>2. ToProgram = EEPROMWritePointerAddress + position
  BY <1>1, NarrowIsOffset DEF ToProgram, EInv
<1>3. EEPROMWritePointerAddress \in Nat
  BY DEF EInv, EepromTypeOK
<1>4. ASSUME ToProgram \in Address,
             eeprom' = [eeprom EXCEPT ![ToProgram] = buffer[position + 1]],
             position' = position + 1, UNCHANGED <<running, outcome>>
      PROVE  EInv'
  <2>1. position + 1 \in 1 .. Len(buffer)
    BY <1>1
  <2>2. buffer[position + 1] \in Byte
    BY <2>1 DEF EInv, EepromTypeOK
  <2>3. EepromTypeOK'
    BY <1>1, <1>4, <2>2 DEF EInv, EepromTypeOK, pointers, Address
  <2>4. ASSUME NEW n \in 1 .. position'
        PROVE  /\ EEPROMWritePointerAddress' + n - 1 \in Address
               /\ eeprom'[EEPROMWritePointerAddress' + n - 1] = buffer'[n]
    <3>1. UNCHANGED <<EEPROMWritePointerAddress, buffer>>
      BY <1>1 DEF pointers
    <3>2. CASE n \in 1 .. position
      <4>1. /\ EEPROMWritePointerAddress + n - 1 \in Address
            /\ eeprom[EEPROMWritePointerAddress + n - 1] = buffer[n]
        BY <3>2, <1>1 DEF EInv, WritePart
      <4>2. EEPROMWritePointerAddress + n - 1 # ToProgram
        BY <1>1, <1>2, <1>3, <3>2
      <4> QED  BY <3>1, <4>1, <4>2, <1>4 DEF EInv, EepromTypeOK
    <3>3. CASE n = position + 1
      <4>1. EEPROMWritePointerAddress + n - 1 = ToProgram
        BY <1>1, <1>2, <1>3, <3>3
      <4> QED  BY <3>1, <3>3, <4>1, <1>4 DEF EInv, EepromTypeOK
    <3> QED  BY <3>2, <3>3, <1>1, <1>4
  <2>5. WritePart'
    BY <1>1, <1>4, <2>1, <2>4 DEF WritePart, pointers
  <2> QED  BY <2>3, <2>5 DEF EInv
<1>5. ASSUME NEW torn \in Byte, ToProgram \in Address,
             eeprom' = [eeprom EXCEPT ![ToProgram] = torn], Returns("Fail")
      PROVE  EInv'
  BY <1>1, <1>5 DEF EInv, EepromTypeOK, WritePart, Returns, pointers, Address
<1>6. ASSUME UNCHANGED eeprom, Returns("Fail")
      PROVE  EInv'
  <2>1. buffer' \in Seq(Byte)
    BY <1>1 DEF EInv, EepromTypeOK
  <2> QED  BY <1>1, <1>6, <2>1, AnswersEInv DEF Returns
<1> QED  BY <1>4, <1>5, <1>6 DEF ProgramByte

\* A block that was written to its end lies within the EEPROM, so does the
\* pointer behind it.
LEMMA BlockWrittenEInv ==
  ASSUME EInv, BlockWritten
  PROVE  EInv'
<1>1. /\ running = "write" /\ position = Len(buffer) /\ initialized
      /\ \A n \in 1 .. position : EEPROMWritePointerAddress + n - 1 \in Address
  BY DEF BlockWritten, EInv, WritePart
<1>2. EEPROMWritePointerAddress + Len(buffer) \in Start .. End + 1
  <2>1. EEPROMWritePointerAddress \in Start .. End + 1 /\ Len(buffer) \in Nat
    BY <1>1 DEF EInv, EepromTypeOK
  <2>2. CASE Len(buffer) = 0
    BY <2>1, <2>2, EepromAssumption
  <2>3. CASE Len(buffer) # 0
    <3>1. Len(buffer) \in 1 .. position
      BY <1>1, <2>1, <2>3
    <3>2. EEPROMWritePointerAddress + Len(buffer) - 1 \in Address
      BY <1>1, <3>1
    <3> QED  BY <2>1, <3>2, EepromAssumption DEF Address
  <2> QED  BY <2>2, <2>3
<1>3. /\ EEPROMWritePointerAddress' = EEPROMWritePointerAddress + Len(buffer)
      /\ UNCHANGED <<eeprom, EEPROMReadPointerAddress, initialized, buffer>>
      /\ running' = "nothing" /\ position' = 0 /\ outcome' = "OK"
  BY DEF BlockWritten, Returns
<1> QED  BY <1>2, <1>3, EepromAssumption DEF EInv, EepromTypeOK, WritePart, Address

\* A tear changes nothing but the bytes that are torn.
LEMMA TornMemory ==
  ASSUME eeprom \in [Address -> Byte], NEW at, at \subseteq Address, NEW memory \in Torn(at)
  PROVE  /\ memory \in [Address -> Byte]
         /\ \A p \in Address \ at : memory[p] = eeprom[p]
<1>1. PICK torn \in [at -> Byte] :
        memory = [p \in Address |-> IF p \in at THEN torn[p] ELSE eeprom[p]]
  BY DEF Torn
<1> QED  BY <1>1

LEMMA EraseWordEInv ==
  ASSUME EInv, EraseWord
  PROVE  EInv'
<1>1. running = "erase" /\ UNCHANGED <<pointers, buffer>>
  BY DEF EraseWord
<1>2. eeprom' \in [Address -> Byte]
  <2>1. CASE eeprom' \in Torn(WordAt(position))
    <3>1. WordAt(position) \subseteq Address
      BY DEF WordAt
    <3> QED  BY <2>1, <3>1, TornMemory DEF EInv, EepromTypeOK
  <2>2. CASE eeprom' \notin Torn(WordAt(position))
    BY <2>2, EepromAssumption DEF EraseWord, EInv, EepromTypeOK
  <2> QED  BY <2>1, <2>2
<1>3. /\ running' \in {"nothing", "erase"}
      /\ position' \in Nat
      /\ outcome' \in {"none", "OK", "Fail"}
  BY <1>1, EepromAssumption DEF EraseWord, Returns, EInv, EepromTypeOK
<1>4. EepromTypeOK'
  BY <1>1, <1>2, <1>3 DEF EInv, EepromTypeOK, pointers, Address
<1>5. WritePart'
  BY <1>3 DEF WritePart
<1> QED  BY <1>4, <1>5 DEF EInv

LEMMA PowerLossEInv ==
  ASSUME EInv, PowerLoss
  PROVE  EInv'
<1>1. InProgress \subseteq Address
  BY DEF InProgress, WordAt
<1>2. eeprom' \in [Address -> Byte]
  BY <1>1, TornMemory DEF PowerLoss, EInv, EepromTypeOK
<1>3. buffer' \in Seq(Byte)
  BY DEF PowerLoss
<1> QED  BY <1>2, <1>3 DEF PowerLoss, EInv, EepromTypeOK, WritePart, Address

\* A command with any block, size or content keeps the invariant.
LEMMA CalledEInv ==
  ASSUME EInv, NEW data \in Seq(Byte), NEW size \in Nat, NEW content,
         \/ programmerEEPROMInitTransfer \/ programmerEEPROMGetSize
         \/ programmerEEPROMRead(size) \/ programmerEEPROMWrite(data)
         \/ programmerEEPROMVerify(content) \/ programmerEEPROMErase
  PROVE  EInv'
<1> <<>> \in Seq(Byte)
  OBVIOUS
<1>1. CASE programmerEEPROMInitTransfer
  BY <1>1, EepromAssumption
     DEF programmerEEPROMInitTransfer, Returns, EInv, EepromTypeOK, WritePart, Address
<1>2. CASE programmerEEPROMGetSize
  BY <1>2, AnswersEInv DEF programmerEEPROMGetSize, Returns
<1>3. CASE programmerEEPROMRead(size)
  BY <1>3, ReadEInv
<1>4. CASE programmerEEPROMWrite(data)
  BY <1>4, WriteEInv
<1>5. CASE programmerEEPROMVerify(content)
  BY <1>5, AnswersEInv DEF programmerEEPROMVerify, Returns
<1>6. CASE programmerEEPROMErase
  BY <1>6 DEF programmerEEPROMErase, EInv, EepromTypeOK, WritePart, pointers, Address
<1> QED  BY <1>1, <1>2, <1>3, <1>4, <1>5, <1>6

\* What the device does by itself.
LEMMA DeviceEInv ==
  ASSUME EInv, EepromContinues \/ PowerOn \/ PowerLoss
  PROVE  EInv'
<1>1. CASE PowerOn
  <2>1. buffer' \in Seq(Byte)
    BY <1>1 DEF PowerOn, EInv, EepromTypeOK
  <2> QED  BY <1>1, <2>1, AnswersEInv DEF PowerOn, Returns
<1> QED  BY <1>1, ProgramByteEInv, BlockWrittenEInv, EraseWordEInv, PowerLossEInv
         DEF EepromContinues

LEMMA StutterEInv ==
  ASSUME EInv, UNCHANGED eepromVars
  PROVE  EInv'
BY DEF EInv, EepromTypeOK, WritePart, eepromVars, pointers, Address

LEMMA NextEInv == EInv /\ [EepromNext]_eepromVars => EInv'
<1> SUFFICES ASSUME EInv, [EepromNext]_eepromVars PROVE EInv'
  OBVIOUS
<1>1. CASE EepromCalled
  <2>1. \A data \in Blocks : data \in Seq(Byte)
    BY EepromAssumption DEF Blocks
  <2>2. \A size \in 0 .. SizeMax : size \in Nat
    BY EepromAssumption
  <2>3. <<>> \in Seq(Byte) /\ 0 \in Nat
    OBVIOUS
  <2> QED  BY <1>1, <2>1, <2>2, <2>3, CalledEInv DEF EepromCalled
<1>2. CASE UNCHANGED eepromVars
  BY <1>2, StutterEInv
<1> QED  BY <1>1, <1>2, DeviceEInv DEF EepromNext

\* The EEPROM of the device keeps its types, its pointers within the EEPROM or
\* one behind it.
THEOREM EepromTypeCorrect == EepromSpec => []EepromTypeOK
<1>1. EInv => EepromTypeOK
  BY DEF EInv
<1> QED  BY <1>1, InitEInv, NextEInv, PTL DEF EepromSpec

\* Only BlockWritten moves the write pointer while a block is being written.
LEMMA AckedStep ==
  ASSUME EInv, running = "write",
         EEPROMWritePointerAddress' > EEPROMWritePointerAddress,
         EepromContinues \/ PowerLoss \/ PowerOn \/ Ready \/ UNCHANGED eepromVars
  PROVE  \A n \in 1 .. Len(buffer) : eeprom'[EEPROMWritePointerAddress + n - 1] = buffer[n]
<1>1. EEPROMWritePointerAddress \in Nat
  BY DEF EInv, EepromTypeOK
<1>2. BlockWritten
  BY <1>1 DEF EepromContinues, ProgramByte, EraseWord, PowerLoss, PowerOn, Ready,
              eepromVars, pointers
<1> QED  BY <1>2 DEF BlockWritten, EInv, WritePart

\* For every size of the EEPROM and of its blocks: what the device acknowledges
\* is in the EEPROM.
THEOREM EepromAckedProgrammed == EepromSpec => AckedBytesProgrammed
<1>1. EInv /\ [EepromNext]_eepromVars =>
        [EEPROMWritePointerAddress' > EEPROMWritePointerAddress /\ running = "write" =>
           \A n \in 1 .. Len(buffer) :
              eeprom'[EEPROMWritePointerAddress + n - 1] = buffer[n]]_eepromVars
  <2>1. EepromCalled => Ready
    BY DEF EepromCalled, programmerEEPROMInitTransfer, programmerEEPROMGetSize,
           programmerEEPROMRead, programmerEEPROMWrite, programmerEEPROMVerify,
           programmerEEPROMErase
  <2> QED  BY <2>1, AckedStep DEF EepromNext
<1> QED  BY <1>1, InitEInv, NextEInv, PTL DEF EepromSpec, AckedBytesProgrammed

-----------------------------------------------------------------------------
(* The device at the end of the line: whatever the host sends is a block, a *)
(* size or a content the lemmas about the device apply to.                  *)

Ops      == {"info", "size", "init", "read", "write", "verify", "erase"}
Requests == [op : Ops, content : Seq(Byte), size : Nat, live : BOOLEAN]
Steps    == CallSteps \union LogSteps
Acts     == {"read", "write", "verify", "erase"}
Actions  == [act : Acts, at : Steps, file : Seq(Byte), sent : Nat,
             alone : BOOLEAN, logged : BOOLEAN]

LinePart == wire \in Seq(Requests) /\ stack \in Seq(Actions)

TInv == EInv /\ LinePart

LEMMA InitTInv == TransferInit => TInv
BY InitEInv DEF TransferInit, TInv, LinePart

LEMMA TopType ==
  ASSUME stack \in Seq(Actions), stack # <<>>
  PROVE  Top \in Actions
BY DEF Top, Last

LEMMA BecomeType ==
  ASSUME stack \in Seq(Actions), stack # <<>>, NEW f \in Actions, Become(f)
  PROVE  stack' \in Seq(Actions)
<1>1. Front(stack) \in Seq(Actions)
  BY DEF Front
<1> QED  BY <1>1 DEF Become

LEMMA SizesAreNumbers ==
  ASSUME stack \in Seq(Actions), stack # <<>>
  PROVE  /\ Moved \in Nat /\ BlockSize \in Int
         /\ Top.sent + BlockSize \in Nat \/ Top.act = "read"
         /\ ~atEnd => BlockSize \in Nat \/ Top.act # "read"
         /\ Top.act # "read" => Moved + BlockSize <= Len(Top.file)
<1>1. Top.sent \in Nat /\ Len(Top.file) \in Nat
  BY TopType DEF Actions
<1>2. portEEPROMGetSize \in Nat /\ BlockMax \in Nat
  BY EepromAssumption DEF portEEPROMGetSize
<1> QED  BY <1>1, <1>2 DEF Moved, BlockSize, atEnd, Least

LEMMA MadeRequest ==
  ASSUME NEW op \in Ops, NEW content \in Seq(Byte)
  PROVE  Request(op, content) \in Requests
BY DEF Request, Requests

LEMMA RequestType ==
  ASSUME stack \in Seq(Actions), stack # <<>>, Top.at \in CallSteps,
         Top.at = "block" => ~atEnd
  PROVE  NextRequest \in Requests
<1>1. Top.file \in Seq(Byte) /\ <<>> \in Seq(Byte)
  BY TopType DEF Actions
<1>2. CASE Top.at = "block" /\ Top.act = "read"
  <2>1. BlockSize \in Nat
    BY <1>2, SizesAreNumbers
  <2>2. rpcEEPROMReadBlock(BlockSize) \in Requests
    BY <1>1, <2>1 DEF rpcEEPROMReadBlock, Request, Requests, Ops
  <2> QED  BY <1>2, <2>2 DEF NextRequest
<1>3. CASE Top.at = "block" /\ Top.act # "read"
  <2>1. /\ Moved \in Nat /\ BlockSize \in Int
        /\ Moved + BlockSize <= Len(Top.file)
    BY <1>3, SizesAreNumbers
  <2>2. SubSeq(Top.file, Moved + 1, Moved + BlockSize) \in Seq(Byte)
    BY <1>1, <2>1
  <2>3. rpcEEPROMWriteBlock(SubSeq(Top.file, Moved + 1, Moved + BlockSize)) \in Requests
    BY <2>2, MadeRequest DEF rpcEEPROMWriteBlock, Ops
  <2> QED  BY <1>3, <2>3 DEF NextRequest
<1>4. CASE Top.at # "block"
  <2>1. {getDeviceInfo, rpcEEPROMGetSize, rpcEEPROMInitTransfer, rpcEEPROMErase,
         rpcEEPROMVerify(Top.file)} \subseteq Requests
    BY <1>1, MadeRequest DEF getDeviceInfo, rpcEEPROMGetSize, rpcEEPROMInitTransfer,
       rpcEEPROMErase, rpcEEPROMVerify, Ops
  <2> QED  BY <1>4, <2>1 DEF NextRequest, CallSteps
<1> QED  BY <1>2, <1>3, <1>4

\* What the device does in a step of the line.
LEMMA DevicePart ==
  ASSUME TInv, [TransferNext]_transferVars
  PROVE  /\ EInv'
         /\ EepromContinues \/ PowerLoss \/ PowerOn \/ Ready \/ UNCHANGED eepromVars
<1>1. EInv /\ wire \in Seq(Requests) /\ stack \in Seq(Actions)
  BY DEF TInv, LinePart
<1>2. CASE Serve
  <2>1. Head(wire) \in Requests /\ Ready /\ Handle(Head(wire))
    BY <1>1, <1>2 DEF Serve
  <2>2. Head(wire).content \in Seq(Byte) /\ Head(wire).size \in Nat /\ Head(wire).op \in Ops
    BY <2>1 DEF Requests
  <2>3. CASE Head(wire).op = "info"
    BY <1>1, <2>1, <2>3, StutterEInv DEF Handle
  <2>4. CASE Head(wire).op # "info"
    <3>1. \/ programmerEEPROMInitTransfer \/ programmerEEPROMGetSize
          \/ programmerEEPROMRead(Head(wire).size)
          \/ programmerEEPROMWrite(Head(wire).content)
          \/ programmerEEPROMVerify(Head(wire).content) \/ programmerEEPROMErase
      BY <2>1, <2>2, <2>4 DEF Handle, Ops
    <3> QED  BY <1>1, <2>1, <2>2, <3>1, CalledEInv
  <2> QED  BY <2>3, <2>4
<1>3. CASE EepromContinues \/ PowerOn \/ PowerLoss
  BY <1>1, <1>3, DeviceEInv
<1>4. CASE UNCHANGED eepromVars
  BY <1>1, <1>4, StutterEInv
<1>5. HostStep \/ Event \/ AnswerLost \/ UNCHANGED transferVars => UNCHANGED eepromVars
  BY DEF HostStep, Event, AnswerLost, transferVars, Call, SizeReturned, InitReturned,
         BlockReturned, VerifyReturned, InfoReturned, EraseReturned, Returned, ReadDone,
         WriteDone, Finish, Begin, readEEPROMToFile, writeEEPROMFromFile,
         verifyEEPROMFromFile, eraseEEPROM
<1>6. DeviceFails => PowerLoss
  BY DEF DeviceFails
<1> QED  BY <1>2, <1>3, <1>4, <1>5, <1>6 DEF TransferNext, DeviceStep

LEMMA GivenUpType ==
  ASSUME NEW requests \in Seq(Requests)
  PROVE  [n \in 1 .. Len(requests) |-> GivenUp(requests[n])] \in Seq(Requests)
<1>1. \A request \in Requests : GivenUp(request) \in Requests
  BY DEF GivenUp, Requests
<1>2. /\ Len(requests) \in Nat
      /\ [n \in 1 .. Len(requests) |-> GivenUp(requests[n])] \in [1 .. Len(requests) -> Requests]
  BY <1>1
<1> QED  BY <1>2

LEMMA LineStep ==
  ASSUME TInv, [TransferNext]_transferVars
  PROVE  wire' \in Seq(Requests)
<1>1. wire \in Seq(Requests) /\ stack \in Seq(Actions)
  BY DEF TInv, LinePart
<1>2. CASE Call
  BY <1>1, <1>2, RequestType DEF Call
<1>3. CASE Serve
  BY <1>1, <1>3 DEF Serve
<1>4. CASE DeviceFails
  BY <1>4 DEF DeviceFails
<1>5. CASE UNCHANGED wire
  BY <1>1, <1>5
<1>6. ASSUME NEW step, NEW ok, Returned(step, ok)
      PROVE  wire' \in Seq(Requests)
  BY <1>1, <1>6, GivenUpType DEF Returned, Answered, TimedOut
<1>7. ASSUME NEW ok \in BOOLEAN,
             \/ SizeReturned(ok) \/ InitReturned(ok) \/ BlockReturned(ok)
             \/ VerifyReturned(ok) \/ InfoReturned(ok) \/ EraseReturned(ok)
      PROVE  wire' \in Seq(Requests)
  BY <1>6, <1>7 DEF SizeReturned, InitReturned, BlockReturned, VerifyReturned,
                    InfoReturned, EraseReturned
<1>8. Event \/ ReadDone \/ WriteDone \/ Finish \/ UNCHANGED transferVars => UNCHANGED wire
  BY DEF Event, ReadDone, WriteDone, Finish, transferVars, line, Begin, readEEPROMToFile,
         writeEEPROMFromFile, verifyEEPROMFromFile, eraseEEPROM
<1>9. DeviceStep => Serve \/ DeviceFails \/ UNCHANGED wire
  BY DEF DeviceStep, AnswerLost, line
<1> QED  BY <1>2, <1>3, <1>4, <1>5, <1>7, <1>8, <1>9 DEF TransferNext, HostStep

LEMMA GoOnType ==
  ASSUME NEW f \in Actions, NEW step \in Steps
  PROVE  GoOn(f, step) \in Actions
BY DEF GoOn, Actions

LEMMA FieldsType ==
  ASSUME NEW f \in Actions, NEW file \in Seq(Byte), NEW sent \in Nat
  PROVE  /\ f.file \in Seq(Byte) /\ f.sent \in Nat
         /\ [f EXCEPT !.file = file] \in Actions
         /\ [f EXCEPT !.sent = sent] \in Actions
BY DEF Actions

LEMMA BeginType ==
  ASSUME stack \in Seq(Actions), NEW f \in Actions, Begin(f)
  PROVE  stack' \in Seq(Actions)
<1> DEFINE Mark(g) == [g EXCEPT !.alone = FALSE, !.logged = TRUE]
           marked == [n \in 1 .. Len(stack) |-> Mark(stack[n])]
<1>1. \A g \in Actions : Mark(g) \in Actions
  BY DEF Actions
<1>2. stack' = Append(marked, f)
  BY DEF Begin
<1> HIDE DEF Mark
<1>3. marked \in Seq(Actions)
  <2>1. Len(stack) \in Nat /\ marked \in [1 .. Len(stack) -> Actions]
    BY <1>1
  <2> HIDE DEF marked
  <2> QED  BY <2>1
<1> HIDE DEF marked
<1> QED  BY <1>2, <1>3

LEMMA StackStep ==
  ASSUME TInv, [TransferNext]_transferVars
  PROVE  stack' \in Seq(Actions)
<1>1. stack \in Seq(Actions) /\ buffer \in Seq(Byte)
  BY DEF TInv, LinePart, EInv, EepromTypeOK
<1>2. CASE Event
  <2>1. \A act \in Acts, at \in Steps, file \in Seq(Byte) : Action(act, at, file) \in Actions
    BY DEF Action, Actions
  <2>2. Files \subseteq Seq(Byte) /\ <<>> \in Seq(Byte)
    BY TransferAssumption
  <2>3. \E act \in Acts, at \in Steps, file \in Seq(Byte) : Begin(Action(act, at, file))
    BY <1>2, <2>2 DEF Acts, Steps, CallSteps, LogSteps,
       Event, readEEPROMToFile, writeEEPROMFromFile, verifyEEPROMFromFile, eraseEEPROM
  <2> QED  BY <1>1, <2>1, <2>3, BeginType
<1>3. ASSUME NEW step \in Steps, stack # <<>>, Become(GoOn(Top, step))
      PROVE  stack' \in Seq(Actions)
  BY <1>1, <1>3, TopType, GoOnType, BecomeType
<1>4. ASSUME NEW ok \in BOOLEAN, BlockReturned(ok)
      PROVE  stack' \in Seq(Actions)
  <2>1. Top \in Actions /\ GoOn(Top, "block") \in Actions /\ stack # <<>> /\ "failed" \in Steps
    BY <1>1, <1>4, TopType, GoOnType
       DEF BlockReturned, Returned, Steps, CallSteps, LogSteps
  <2>2. CASE ~ok
    <3>1. Become(GoOn(Top, "failed"))
      BY <1>4, <2>2 DEF BlockReturned
    <3> QED  BY <1>3, <2>1, <3>1
  <2>3. CASE ok /\ Top.act = "read"
    <3>1. GoOn(Top, "block").file \o buffer \in Seq(Byte)
      BY <1>1, <2>1 DEF Actions
    <3>2. [GoOn(Top, "block") EXCEPT !.file = @ \o buffer] \in Actions
      BY <2>1, <3>1, FieldsType
    <3>3. Become([GoOn(Top, "block") EXCEPT !.file = @ \o buffer])
      BY <1>4, <2>3 DEF BlockReturned
    <3> QED  BY <1>1, <2>1, <3>2, <3>3, BecomeType
  <2>4. CASE ok /\ Top.act # "read"
    <3>1. GoOn(Top, "block").sent + BlockSize \in Nat
      BY <1>1, <2>1, <2>4, SizesAreNumbers DEF GoOn, Actions
    <3>2. [GoOn(Top, "block") EXCEPT !.sent = @ + BlockSize] \in Actions
      BY <2>1, <3>1 DEF Actions
    <3>3. Become([GoOn(Top, "block") EXCEPT !.sent = @ + BlockSize])
      BY <1>4, <2>4 DEF BlockReturned
    <3> QED  BY <1>1, <2>1, <3>2, <3>3, BecomeType
  <2> QED  BY <2>2, <2>3, <2>4
<1>5. CASE Finish
  BY <1>1, <1>5 DEF Finish, Front, At
<1>6. CASE UNCHANGED stack
  BY <1>1, <1>6
<1>7. ASSUME NEW ok \in BOOLEAN,
             \/ SizeReturned(ok) \/ InitReturned(ok) \/ VerifyReturned(ok)
             \/ InfoReturned(ok) \/ EraseReturned(ok) \/ ReadDone \/ WriteDone
      PROVE  stack' \in Seq(Actions)
  <2>1. /\ stack # <<>>
        /\ \E step \in Steps : Become(GoOn(Top, step))
    BY <1>7 DEF Steps, CallSteps, LogSteps, SizeReturned, InitReturned, VerifyReturned, InfoReturned, EraseReturned,
                Returned, ReadDone, WriteDone, At
  <2> QED  BY <1>3, <2>1
<1>8. DeviceStep \/ Call \/ UNCHANGED transferVars => UNCHANGED stack
  BY DEF DeviceStep, Serve, AnswerLost, DeviceFails, Call, transferVars
<1> QED  BY <1>2, <1>4, <1>5, <1>6, <1>7, <1>8 DEF TransferNext, HostStep

\* The invariant of the device and of what the line carries.
THEOREM TransferInvariant == TransferSpec => []TInv
<1>1. TInv /\ [TransferNext]_transferVars => TInv'
  BY DevicePart, LineStep, StackStep DEF TInv, LinePart
<1> QED  BY <1>1, InitTInv, PTL DEF TransferSpec

\* The device the host talks to keeps its types, for files of every content,
\* blocks of every size and any nesting of actions.
THEOREM TransferTypeCorrect == TransferSpec => []EepromTypeOK
<1>1. TInv => EepromTypeOK
  BY DEF TInv, EInv
<1> QED  BY <1>1, TransferInvariant, PTL

\* What the device acknowledges to the host is in the EEPROM, whatever is lost,
\* late or nested.
THEOREM TransferAckedProgrammed == TransferSpec => AckedBytesProgrammed
<1>1. TInv /\ [TransferNext]_transferVars =>
        [EEPROMWritePointerAddress' > EEPROMWritePointerAddress /\ running = "write" =>
           \A n \in 1 .. Len(buffer) :
              eeprom'[EEPROMWritePointerAddress + n - 1] = buffer[n]]_eepromVars
  BY DevicePart, AckedStep DEF TInv
<1>2. TInv /\ [TransferNext]_transferVars => TInv'
  BY DevicePart, LineStep, StackStep DEF TInv, LinePart
<1> QED  BY <1>1, <1>2, InitTInv, PTL DEF TransferSpec, AckedBytesProgrammed

-----------------------------------------------------------------------------
(* The reports of the host: what request, line and device are to the action *)
(* that waits, and what its loop over the blocks has done so far.           *)

Pending == serving.live /\ serving.op # "none"

\* A request that is not given up is the one the host waits for, and the last.
LiveInv ==
  /\ \A n \in 1 .. Len(wire) : wire[n].live => calling /\ n = Len(wire) /\ wire[n] = NextRequest
  /\ Pending => calling /\ wire = <<>> /\ serving = NextRequest

\* What the device is busy with is what it serves, and its result is there
\* until it serves something else.
ServingInv ==
  /\ serving = Nothing \/ serving \in Requests
  /\ running \in {"write", "erase"} => serving.op = running
  /\ running = "off" => serving = Nothing
  /\ serving.op = "init" =>
       initialized /\ EEPROMWritePointerAddress = Start /\ EEPROMReadPointerAddress = Start
  /\ serving.op = "verify" /\ outcome = "OK" =>
       \A p \in Address : serving.content[p - Start + 1] = eeprom[p]

CallInv == calling => stack # <<>> /\ Top.at \in CallSteps /\ (Top.at = "block" => ~atEnd)

\* Only the running action can be alone.
StackInv ==
  \A n \in 1 .. Len(stack) :
    /\ stack[n].alone => n = Len(stack)
    /\ stack[n].at = "verify" => Len(stack[n].file) = portEEPROMGetSize
    /\ stack[n].at \in {"size", "init"} =>
         stack[n].sent = 0 /\ (stack[n].act = "read" => stack[n].file = <<>>)

Pointer == IF Top.act = "read" THEN EEPROMReadPointerAddress ELSE EEPROMWritePointerAddress

\* The block that was asked for has been read into the buffer, or is written.
BlockDone ==
  /\ initialized /\ Pointer = Start + Moved + BlockSize
  /\ Top.act = "read" => Len(buffer) = BlockSize
  /\ \A n \in 1 .. BlockSize : eeprom[Start + Moved + n - 1] =
       IF Top.act = "read" THEN buffer[n] ELSE Top.file[Moved + n]

Looping == stack # <<>> /\ Top.alone /\ Top.at = "block"

\* Nobody but the loop has anything on the line.
AloneOnLine ==
  /\ serving = Nothing \/ (wire = <<>> /\ calling /\ serving = NextRequest)
  /\ wire = <<>> \/ (wire = <<NextRequest>> /\ calling)

\* What the loop has moved agrees with the EEPROM.
MovedAgrees ==
  /\ Moved <= portEEPROMGetSize /\ Moved <= Len(Top.file)
  /\ \A n \in 1 .. Moved : eeprom[Start + n - 1] = Top.file[n]

\* The device's pointer stands behind it, unless the device has forgotten it or
\* the answer is lost, which both end the loop.
PointerBehind ==
  /\ (~calling \/ wire # <<>>) /\ initialized => Pointer = Start + Moved
  /\ serving # Nothing /\ running = "write" =>
       initialized /\ Pointer = Start + Moved /\ buffer = serving.content

DoneIfOK == serving # Nothing /\ Ready /\ outcome = "OK" => BlockDone

LoopInv == Looping => AloneOnLine /\ MovedAgrees /\ PointerBehind /\ DoneIfOK

XInv == TInv /\ LiveInv /\ ServingInv /\ CallInv /\ StackInv /\ LoopInv

LEMMA InitXInv == TransferInit => XInv
<1> SUFFICES ASSUME TransferInit PROVE XInv
  OBVIOUS
<1>1. TInv
  BY InitTInv
<1>2. /\ wire = <<>> /\ serving = Nothing /\ calling = FALSE /\ stack = <<>>
      /\ running = "off"
  BY DEF TransferInit, EepromInit
<1>3. Nothing.op = "none"
  BY DEF Nothing, Request
<1>4. LiveInv
  BY <1>2, <1>3 DEF LiveInv, Pending
<1>5. ServingInv
  BY <1>2, <1>3 DEF ServingInv
<1>6. CallInv
  BY <1>2, Zenon DEF CallInv
<1>7. StackInv
  BY <1>2 DEF StackInv
<1>8. LoopInv
  BY <1>2 DEF LoopInv, Looping
<1> QED BY <1>1, <1>4, <1>5, <1>6, <1>7, <1>8 DEF XInv

LEMMA NothingIsNone == Nothing.op = "none" /\ Nothing \notin Requests
BY DEF Nothing, Request, Requests, Ops

\* What the host asks depends on the stack alone.
LEMMA SameStack ==
  ASSUME UNCHANGED stack
  PROVE  /\ Top' = Top /\ Moved' = Moved /\ BlockSize' = BlockSize /\ atEnd' = atEnd
         /\ NextRequest' = NextRequest
<1>1. Top' = Top
  BY DEF Top
<1>2. Moved' = Moved
  BY <1>1 DEF Moved
<1>3. BlockSize' = BlockSize
  BY <1>1, <1>2 DEF BlockSize
<1>4. atEnd' = atEnd
  BY <1>2, <1>3 DEF atEnd
<1>5. NextRequest' = NextRequest
  BY <1>1, <1>2, <1>3 DEF NextRequest
<1> QED BY <1>1, <1>2, <1>3, <1>4, <1>5

LEMMA FrontElements ==
  ASSUME stack \in Seq(Actions), stack # <<>>
  PROVE  /\ Front(stack) \in Seq(Actions) /\ Len(Front(stack)) = Len(stack) - 1
         /\ Len(stack) \in Nat \ {0}
         /\ \A n \in 1 .. Len(stack) - 1 : Front(stack)[n] = stack[n]
<1>1. Len(stack) \in Nat \ {0}
  OBVIOUS
<1> DEFINE s == stack
           m == Len(stack) - 1
<1>2. s \in Seq(Actions) /\ m \in Nat /\ m < Len(s) /\ Front(stack) = SubSeq(s, 1, m)
  BY <1>1 DEF Front
<1>3. Front(stack) \in Seq(Actions)
  BY DEF Front
<1> HIDE DEF s, m
<1>4. Len(SubSeq(s, 1, m)) = m
  BY <1>2
<1>5. \A n \in 1 .. m : SubSeq(s, 1, m)[n] = s[n]
  BY <1>2
<1> QED BY <1>1, <1>2, <1>3, <1>4, <1>5 DEF s, m

LEMMA BecomeFields ==
  ASSUME stack \in Seq(Actions), stack # <<>>, NEW f, Become(f)
  PROVE  /\ Len(stack') = Len(stack) /\ stack' # <<>> /\ Top' = f
         /\ \A n \in 1 .. Len(stack) :
              stack'[n] = IF n = Len(stack) THEN f ELSE stack[n]
<1> DEFINE front == Front(stack)
           m     == Len(stack)
<1>1. /\ front \in Seq(Actions) /\ Len(front) = m - 1 /\ m \in Nat \ {0}
      /\ \A n \in 1 .. m - 1 : front[n] = stack[n]
      /\ stack' = Append(front, f)
  BY FrontElements DEF Become
<1>2. Len(stack') = m /\ stack'[m] = f /\ \A n \in 1 .. m - 1 : stack'[n] = stack[n]
  <2> HIDE DEF m, front
  <2> QED BY <1>1
<1>3. Top' = f
  BY <1>2 DEF Top, Last
<1>4. stack' # <<>>
  BY <1>1, <1>2
<1> QED BY <1>1, <1>2, <1>3, <1>4

LEMMA GoOnFields ==
  ASSUME NEW f \in Actions, NEW step
  PROVE  LET g == GoOn(f, step)
         IN /\ g.act = f.act /\ g.at = step /\ g.file = f.file /\ g.sent = f.sent
            /\ g.alone = f.alone
BY DEF GoOn, Actions

\* Whether it was answered or not, the call that returns leaves no request that
\* is not given up.
LEMMA ReturnClears ==
  ASSUME wire \in Seq(Requests), LiveInv, NEW step, NEW ok, Returned(step, ok),
         serving = Nothing \/ serving \in Requests
  PROVE  /\ calling /\ calling' = FALSE /\ UNCHANGED eepromVars
         /\ Len(wire') = Len(wire) /\ \A n \in 1 .. Len(wire) : ~wire'[n].live
         /\ ~Pending'
         /\ \/ serving' = Nothing
            \/ serving \in Requests /\ serving' \in Requests /\ serving'.op = serving.op
               /\ serving'.content = serving.content
<1>1. calling /\ calling' = FALSE /\ UNCHANGED eepromVars
  BY DEF Returned
<1>2. CASE Answered
  <2>1. Pending /\ serving' = Nothing /\ wire' = wire
    BY <1>2 DEF Answered, Pending
  <2>2. wire = <<>>
    BY <2>1 DEF LiveInv
  <2> QED BY <1>1, <2>1, <2>2, NothingIsNone DEF Pending
<1>3. CASE TimedOut
  <2>1. \A r \in Requests : GivenUp(r) \in Requests /\ ~GivenUp(r).live /\ GivenUp(r).op = r.op
                            /\ GivenUp(r).content = r.content /\ r.op # "none"
    BY DEF GivenUp, Requests, Ops
  <2>2. Len(wire) \in Nat /\ \A n \in 1 .. Len(wire) : wire[n] \in Requests
    OBVIOUS
  <2>3. wire' = [n \in 1 .. Len(wire) |-> GivenUp(wire[n])]
    BY <1>3 DEF TimedOut
  <2>4. Len(wire') = Len(wire) /\ \A n \in 1 .. Len(wire) : ~wire'[n].live
    BY <2>1, <2>2, <2>3
  <2>5. CASE serving = Nothing
    BY <1>1, <1>3, <2>4, <2>5, NothingIsNone DEF TimedOut, Pending
  <2>6. CASE serving \in Requests
    BY <1>1, <1>3, <2>1, <2>4, <2>6 DEF TimedOut, Pending
  <2> QED BY <2>5, <2>6
<1> QED BY <1>2, <1>3 DEF Returned
\* What a step can be, as far as the reports are concerned.
Quiet == ~calling /\ UNCHANGED <<eepromVars, line>>

LEMMA QuietStep ==
  ASSUME Event \/ ReadDone \/ WriteDone \/ Finish
  PROVE  Quiet
BY DEF Event, ReadDone, WriteDone, Finish, Quiet, At, Begin, readEEPROMToFile,
       writeEEPROMFromFile, verifyEEPROMFromFile, eraseEEPROM

LEMMA ReturnStep ==
  ASSUME NEW ok \in BOOLEAN,
         \/ SizeReturned(ok) \/ InitReturned(ok) \/ BlockReturned(ok)
         \/ VerifyReturned(ok) \/ InfoReturned(ok) \/ EraseReturned(ok)
  PROVE  \E step \in CallSteps : Returned(step, ok)
BY DEF SizeReturned, InitReturned, BlockReturned, VerifyReturned, InfoReturned,
       EraseReturned, CallSteps

LEMMA NoneLive ==
  ASSUME LiveInv, ~calling
  PROVE  ~Pending /\ \A n \in 1 .. Len(wire) : ~wire[n].live
BY DEF LiveInv

LEMMA TailElements ==
  ASSUME wire \in Seq(Requests), wire # <<>>
  PROVE  /\ Head(wire) = wire[1] /\ Head(wire) \in Requests
         /\ Len(wire) \in Nat \ {0} /\ Len(Tail(wire)) = Len(wire) - 1
         /\ \A n \in 1 .. Len(wire) - 1 : Tail(wire)[n] = wire[n + 1]
         /\ Len(wire) = 1 => Tail(wire) = <<>>
<1>1. Head(wire) = wire[1] /\ Head(wire) \in Requests /\ Len(wire) \in Nat \ {0}
  OBVIOUS
<1>2. Len(Tail(wire)) = Len(wire) - 1
  OBVIOUS
<1>3. \A n \in 1 .. Len(wire) - 1 : Tail(wire)[n] = wire[n + 1]
  OBVIOUS
<1>4. Len(wire) = 1 => Tail(wire) = <<>>
  <2> DEFINE rest == Tail(wire)
  <2>1. rest \in Seq(Requests) /\ (Len(wire) = 1 => Len(rest) = 0)
    BY <1>2
  <2> HIDE DEF rest
  <2>2. Len(wire) = 1 => rest = <<>>
    BY <2>1
  <2> QED  BY <2>2 DEF rest
<1> QED  BY <1>1, <1>2, <1>3, <1>4

LEMMA LiveStep ==
  ASSUME XInv, [TransferNext]_transferVars
  PROVE  LiveInv'
<1>1. /\ LiveInv /\ wire \in Seq(Requests) /\ stack \in Seq(Actions)
      /\ serving = Nothing \/ serving \in Requests
  BY DEF XInv, TInv, LinePart, ServingInv
<1>2. CASE Quiet
  <2>1. ~Pending' /\ \A n \in 1 .. Len(wire') : ~wire'[n].live
    BY <1>1, <1>2, NoneLive DEF Quiet, line, Pending
  <2> QED  BY <2>1 DEF LiveInv
<1>3. CASE Call
  <2>1. /\ ~Pending /\ \A n \in 1 .. Len(wire) : ~wire[n].live
        /\ calling' /\ serving' = serving /\ NextRequest' = NextRequest
        /\ wire' = wire \/ wire' = Append(wire, NextRequest)
    BY <1>1, <1>3, NoneLive, SameStack DEF Call
  <2>2. ~Pending'
    BY <2>1 DEF Pending
  <2>3. ASSUME NEW n \in 1 .. Len(wire'), wire'[n].live
        PROVE  n = Len(wire') /\ wire'[n] = NextRequest
    <3>1. CASE wire' = wire
      BY <2>1, <2>3, <3>1
    <3>2. CASE wire' = Append(wire, NextRequest)
      <4>1. Len(wire) \in Nat /\ Len(wire') = Len(wire) + 1
        BY <1>1, <3>2
      <4>2. wire'[Len(wire) + 1] = NextRequest
        BY <1>1, <3>2
      <4>3. \A k \in 1 .. Len(wire) : wire'[k] = wire[k]
        BY <1>1, <3>2
      <4>4. n \notin 1 .. Len(wire)
        BY <2>1, <2>3, <4>3
      <4> QED  BY <4>1, <4>2, <4>4
    <3> QED  BY <2>1, <3>1, <3>2
  <2> QED  BY <2>1, <2>2, <2>3 DEF LiveInv
<1>4. ASSUME NEW step, NEW ok, Returned(step, ok)
      PROVE  LiveInv'
  BY <1>1, <1>4, ReturnClears DEF LiveInv
<1>5. CASE Serve
  <2>1. /\ wire # <<>> /\ serving' = Head(wire) /\ wire' = Tail(wire) /\ calling' = calling
        /\ NextRequest' = NextRequest
    BY <1>5, SameStack DEF Serve
  <2>2. /\ Head(wire) = wire[1] /\ Len(wire) \in Nat \ {0} /\ Len(wire') = Len(wire) - 1
        /\ \A n \in 1 .. Len(wire') : wire'[n] = wire[n + 1]
        /\ Len(wire) = 1 => wire' = <<>>
    BY <1>1, <2>1, TailElements
  <2>3. \A n \in 1 .. Len(wire') : wire'[n].live =>
          calling' /\ n = Len(wire') /\ wire'[n] = NextRequest'
    <3> SUFFICES ASSUME NEW n \in 1 .. Len(wire'), wire'[n].live
                 PROVE  calling' /\ n = Len(wire') /\ wire'[n] = NextRequest'
      OBVIOUS
    <3>1. n + 1 \in 1 .. Len(wire) /\ wire[n + 1].live
      BY <2>2
    <3>2. calling /\ n + 1 = Len(wire) /\ wire[n + 1] = NextRequest
      BY <1>1, <3>1 DEF LiveInv
    <3>3. n = Len(wire')
      BY <2>2, <3>2
    <3>4. wire'[n] = wire[n + 1]
      BY <2>2
    <3> QED  BY <2>1, <3>2, <3>3, <3>4, Zenon
  <2>4. Pending' => calling' /\ wire' = <<>> /\ serving' = NextRequest'
    <3> SUFFICES ASSUME Pending' PROVE calling' /\ wire' = <<>> /\ serving' = NextRequest'
      OBVIOUS
    <3>1. 1 \in 1 .. Len(wire) /\ wire[1].live
      BY <2>1, <2>2 DEF Pending
    <3>2. calling /\ 1 = Len(wire) /\ wire[1] = NextRequest
      BY <1>1, <3>1 DEF LiveInv
    <3> QED  BY <2>1, <2>2, <3>2
  <2> QED  BY <2>3, <2>4 DEF LiveInv
<1>6. CASE UNCHANGED <<line, stack>>
  <2>1. UNCHANGED <<wire, serving, calling>> /\ NextRequest' = NextRequest
    BY <1>6, SameStack DEF line
  <2> QED  BY <1>1, <2>1 DEF LiveInv, Pending
<1>7. CASE AnswerLost \/ DeviceFails
  <2>1. /\ serving' = Nothing /\ calling' = calling /\ NextRequest' = NextRequest
        /\ wire' = wire \/ wire' = <<>>
    BY <1>7, SameStack DEF AnswerLost, DeviceFails
  <2>2. ~Pending'
    BY <2>1, NothingIsNone DEF Pending
  <2> QED  BY <1>1, <2>1, <2>2 DEF LiveInv
<1>8. CASE UNCHANGED transferVars
  BY <1>6, <1>8 DEF transferVars
<1> QED  BY <1>2, <1>3, <1>4, <1>5, <1>6, <1>7, <1>8, QuietStep, ReturnStep
         DEF TransferNext, HostStep, DeviceStep

LEMMA ServedRequest ==
  ASSUME XInv, Serve
  PROVE  /\ serving' \in Requests /\ Handle(serving') /\ Ready /\ UNCHANGED <<calling, stack>>
         /\ serving'.op \in Ops
BY TailElements DEF XInv, TInv, LinePart, Serve, Requests

LEMMA ServingStep ==
  ASSUME XInv, [TransferNext]_transferVars
  PROVE  ServingInv'
<1>1. /\ ServingInv /\ LiveInv /\ wire \in Seq(Requests)
      /\ serving = Nothing \/ serving \in Requests
  BY DEF XInv, TInv, LinePart, ServingInv
<1>2. CASE UNCHANGED <<eepromVars, serving>>
  BY <1>1, <1>2 DEF ServingInv, eepromVars, pointers
<1>3. ASSUME NEW step, NEW ok, Returned(step, ok)
      PROVE  ServingInv'
  <2>1. /\ UNCHANGED <<eeprom, EEPROMWritePointerAddress, EEPROMReadPointerAddress,
                       initialized, running, outcome>>
        /\ \/ serving' = Nothing
           \/ serving' \in Requests /\ serving \in Requests /\ serving'.op = serving.op
              /\ serving'.content = serving.content
    BY <1>1, <1>3, ReturnClears DEF eepromVars, pointers
  <2>2. CASE serving' = Nothing
    <3>1. running \in {"write", "erase"} => serving.op = running
      BY <1>1 DEF ServingInv
    <3>2. CASE Answered
      BY <2>1, <2>2, <3>2, NothingIsNone DEF ServingInv, Answered, Ready
    <3>3. CASE TimedOut
      <4>1. serving = Nothing
        BY <1>1, <2>2, <3>3, NothingIsNone DEF TimedOut, GivenUp, Requests
      <4> QED  BY <1>1, <2>1, <2>2, <4>1 DEF ServingInv
    <3> QED  BY <1>3, <3>2, <3>3 DEF Returned
  <2>3. CASE serving' # Nothing
    <3>1. serving # Nothing
      BY <2>1, <2>3, NothingIsNone
    <3> QED  BY <1>1, <2>1, <2>3, <3>1 DEF ServingInv
  <2> QED  BY <2>2, <2>3
<1>4. CASE Serve
  <2>1. /\ serving' \in Requests /\ Handle(serving') /\ Ready /\ serving'.op \in Ops
    BY <1>4, ServedRequest
  <2>2. CASE serving'.op \in {"info", "size", "read"}
    BY <2>1, <2>2 DEF Handle, ServingInv, Ready, eepromVars, programmerEEPROMGetSize,
       programmerEEPROMRead, Returns
  <2>3. CASE serving'.op = "init"
    BY <2>1, <2>3 DEF Handle, ServingInv, programmerEEPROMInitTransfer, Returns
  <2>4. CASE serving'.op = "write"
    BY <2>1, <2>4 DEF Handle, ServingInv, programmerEEPROMWrite, Returns
  <2>5. CASE serving'.op = "verify"
    <3>1. programmerEEPROMVerify(serving'.content)
      BY <2>1, <2>5 DEF Handle
    <3>2. running' = "nothing" /\ eeprom' = eeprom
          /\ outcome' = IF \A p \in Address : serving'.content[p - Start + 1] = eeprom[p]
                        THEN "OK" ELSE "Fail"
      BY <3>1 DEF programmerEEPROMVerify, Returns
    <3>3. outcome' = "OK" => \A p \in Address : serving'.content[p - Start + 1] = eeprom'[p]
      BY <3>2
    <3> QED  BY <2>1, <2>5, <3>2, <3>3 DEF ServingInv, Address
  <2>6. CASE serving'.op = "erase"
    BY <2>1, <2>6 DEF Handle, ServingInv, programmerEEPROMErase
  <2> QED  BY <2>1, <2>2, <2>3, <2>4, <2>5, <2>6 DEF Ops
<1>5. CASE (EepromContinues \/ PowerOn) /\ UNCHANGED <<line, stack>>
  <2>1. serving' = serving
    BY <1>5 DEF line
  <2>2. CASE PowerOn
    BY <1>1, <2>1, <2>2, NothingIsNone DEF ServingInv, PowerOn, Returns
  <2>3. CASE EepromContinues
    <3>1. running \in {"write", "erase"} /\ running' \in {running, "nothing"}
      BY <2>3 DEF EepromContinues, ProgramByte, BlockWritten, EraseWord, Returns
    <3>2. serving.op \notin {"init", "verify"}
      BY <1>1, <3>1 DEF ServingInv
    <3> QED  BY <1>1, <2>1, <3>1, <3>2 DEF ServingInv
  <2> QED  BY <1>5, <2>2, <2>3
<1>6. CASE AnswerLost
  BY <1>6, NothingIsNone DEF AnswerLost, ServingInv, Ready, eepromVars
<1>7. CASE DeviceFails
  BY <1>7, NothingIsNone DEF DeviceFails, ServingInv, PowerLoss
<1>8. Quiet \/ Call \/ UNCHANGED transferVars => UNCHANGED <<eepromVars, serving>>
  BY DEF Quiet, Call, transferVars, line
<1> QED  BY <1>2, <1>3, <1>4, <1>5, <1>6, <1>7, <1>8, QuietStep, ReturnStep
         DEF TransferNext, HostStep, DeviceStep
LEMMA CallStep ==
  ASSUME XInv, [TransferNext]_transferVars
  PROVE  CallInv'
<1>1. CallInv /\ LiveInv /\ wire \in Seq(Requests) /\ (serving = Nothing \/ serving \in Requests)
  BY DEF XInv, TInv, LinePart, ServingInv
<1>2. CASE Quiet
  BY <1>2 DEF Quiet, line, CallInv
<1>3. CASE Call
  <2>1. /\ stack # <<>> /\ Top.at \in CallSteps /\ (Top.at = "block" => ~atEnd)
        /\ stack' = stack /\ Top' = Top /\ atEnd' = atEnd
    BY <1>3, SameStack DEF Call
  <2> QED  BY <2>1 DEF CallInv
<1>4. ASSUME NEW step, NEW ok, Returned(step, ok)
      PROVE  CallInv'
  BY <1>1, <1>4, ReturnClears DEF CallInv
<1>5. CASE UNCHANGED <<calling, stack>>
  <2>1. stack' = stack /\ Top' = Top /\ atEnd' = atEnd /\ calling' = calling
    BY <1>5, SameStack
  <2> QED  BY <1>1, <2>1 DEF CallInv
<1>6. DeviceStep \/ UNCHANGED transferVars => UNCHANGED <<calling, stack>>
  BY DEF DeviceStep, Serve, AnswerLost, DeviceFails, transferVars, line
<1> QED  BY <1>2, <1>3, <1>4, <1>5, <1>6, QuietStep, ReturnStep DEF TransferNext, HostStep

\* What the return of a call makes of the running action.
After(ok, f) ==
  /\ stack # <<>> /\ Become(f)
  /\ f.alone = Top.alone /\ f.act = Top.act
  /\ f.at = "verify" => Len(f.file) = portEEPROMGetSize
  /\ f.at \in {"size", "init"} => Top.at = "size" /\ f.sent = Top.sent /\ f.file = Top.file
  /\ f.at = "block" =>
       \/ Top.at = "init" /\ InitReturned(ok) /\ ok /\ f.sent = Top.sent /\ f.file = Top.file
       \/ Top.at = "block" /\ BlockReturned(ok) /\ ok
            /\ f = IF Top.act = "read" THEN [GoOn(Top, "block") EXCEPT !.file = @ \o buffer]
                                       ELSE [GoOn(Top, "block") EXCEPT !.sent = @ + BlockSize]

LEMMA ReturnedTop ==
  ASSUME stack \in Seq(Actions), NEW ok \in BOOLEAN,
         \/ SizeReturned(ok) \/ InitReturned(ok) \/ BlockReturned(ok)
         \/ VerifyReturned(ok) \/ InfoReturned(ok) \/ EraseReturned(ok)
  PROVE  \E f : After(ok, f)
<1>1. stack # <<>> /\ Top \in Actions
  BY ReturnStep, TopType DEF Returned
<1> DEFINE Plain(f, step) == /\ f.act = Top.act /\ f.at = step /\ f.file = Top.file
                             /\ f.sent = Top.sent /\ f.alone = Top.alone
<1>2. \A step : Plain(GoOn(Top, step), step)
  BY <1>1, GoOnFields
<1>3. ASSUME NEW step \in {"done", "failed", "erase"}, Become(GoOn(Top, step))
      PROVE  After(ok, GoOn(Top, step))
  BY <1>1, <1>2, <1>3 DEF After
<1>4. CASE SizeReturned(ok)
  <2>1. Top.at = "size" /\ \E step \in {"failed", "init", "verify"} :
          Become(GoOn(Top, step)) /\ (step = "verify" => Len(Top.file) = portEEPROMGetSize)
    BY <1>4 DEF SizeReturned, Returned
  <2>2. PICK step \in {"failed", "init", "verify"} :
          Become(GoOn(Top, step)) /\ (step = "verify" => Len(Top.file) = portEEPROMGetSize)
    BY <2>1
  <2>3. After(ok, GoOn(Top, step))
    BY <1>1, <1>2, <2>1, <2>2 DEF After
  <2> QED  BY <2>3
<1>5. CASE InitReturned(ok)
  <2>1. Top.at = "init"
    BY <1>5 DEF InitReturned, Returned
  <2>2. CASE ~ok
    BY <1>3, <1>5, <2>2 DEF InitReturned
  <2>3. CASE ok
    <3>1. Become(GoOn(Top, "block"))
      BY <1>5, <2>3 DEF InitReturned
    <3>2. After(ok, GoOn(Top, "block"))
      BY <1>1, <1>2, <1>5, <2>1, <2>3, <3>1 DEF After
    <3> QED  BY <3>2
  <2> QED  BY <2>2, <2>3
<1>6. CASE BlockReturned(ok)
  <2>1. Top.at = "block"
    BY <1>6 DEF BlockReturned, Returned
  <2>2. CASE ~ok
    BY <1>3, <1>6, <2>2 DEF BlockReturned
  <2>3. CASE ok
    <3> DEFINE f == IF Top.act = "read" THEN [GoOn(Top, "block") EXCEPT !.file = @ \o buffer]
                                        ELSE [GoOn(Top, "block") EXCEPT !.sent = @ + BlockSize]
    <3>1. Become(f)
      BY <1>6, <2>3 DEF BlockReturned
    <3>2. GoOn(Top, "block") \in Actions
      BY <1>1, GoOnType DEF Steps, CallSteps
    <3>3. f.at = "block" /\ f.alone = Top.alone /\ f.act = Top.act
      BY <1>2, <3>2 DEF Actions
    <3>4. After(ok, f)
      BY <1>1, <1>6, <2>1, <2>3, <3>1, <3>3 DEF After
    <3> QED  BY <3>4
  <2> QED  BY <2>2, <2>3
<1>7. CASE VerifyReturned(ok) \/ InfoReturned(ok) \/ EraseReturned(ok)
  <2>1. \E step \in {"done", "failed", "erase"} : Become(GoOn(Top, step))
    BY <1>7 DEF VerifyReturned, InfoReturned, EraseReturned
  <2> QED  BY <1>3, <2>1
<1> QED  BY <1>4, <1>5, <1>6, <1>7

\* Where an action begins.
LEMMA EventBegins ==
  ASSUME Event
  PROVE  \E act \in Acts, at \in {"size", "info"}, file \in Seq(Byte) :
           Begin(Action(act, at, file)) /\ (act = "read" => file = <<>>)
<1>1. Files \subseteq Seq(Byte) /\ <<>> \in Seq(Byte)
  BY TransferAssumption
<1> QED  BY <1>1 DEF Event, readEEPROMToFile, writeEEPROMFromFile, verifyEEPROMFromFile,
                     eraseEEPROM, Acts

LEMMA BeginElements ==
  ASSUME stack \in Seq(Actions), NEW f, Begin(f)
  PROVE  /\ Len(stack) \in Nat /\ Len(stack') = Len(stack) + 1
         /\ Top' = f /\ stack'[Len(stack) + 1] = f
         /\ \A n \in 1 .. Len(stack) :
              /\ ~stack'[n].alone /\ stack'[n].at = stack[n].at /\ stack'[n].file = stack[n].file
              /\ stack'[n].sent = stack[n].sent /\ stack'[n].act = stack[n].act
<1> DEFINE Mark(g) == [g EXCEPT !.alone = FALSE, !.logged = TRUE]
           marked == [n \in 1 .. Len(stack) |-> Mark(stack[n])]
           m == Len(stack)
<1>1. \A g \in Actions : /\ ~Mark(g).alone /\ Mark(g).at = g.at /\ Mark(g).file = g.file
                          /\ Mark(g).sent = g.sent /\ Mark(g).act = g.act /\ Mark(g) \in Actions
  BY DEF Actions
<1>2. /\ \A n \in 1 .. m : stack[n] \in Actions
      /\ m \in Nat /\ stack' = Append(marked, f)
  <2>1. stack' = Append(marked, f)
    BY DEF Begin
  <2> HIDE DEF marked
  <2>2. m \in Nat /\ \A n \in 1 .. m : stack[n] \in Actions
    OBVIOUS
  <2> QED  BY <2>1, <2>2
<1> HIDE DEF Mark
<1>3. marked \in Seq(Actions) /\ Len(marked) = m
  <2>1. marked \in [1 .. m -> Actions]
    BY <1>1, <1>2
  <2> HIDE DEF marked
  <2> QED  BY <1>2, <2>1
<1>4. \A n \in 1 .. m : marked[n] = Mark(stack[n])
  OBVIOUS
<1> HIDE DEF marked, m
<1>5. Len(stack') = m + 1 /\ stack'[m + 1] = f /\ \A n \in 1 .. m : stack'[n] = marked[n]
  BY <1>2, <1>3
<1>6. Top' = f
  BY <1>5 DEF Top, Last
<1>7. \A n \in 1 .. m :
              /\ ~stack'[n].alone /\ stack'[n].at = stack[n].at /\ stack'[n].file = stack[n].file
              /\ stack'[n].sent = stack[n].sent /\ stack'[n].act = stack[n].act
  <2> TAKE n \in 1 .. m
  <2>1. stack'[n] = Mark(stack[n]) /\ stack[n] \in Actions
    BY <1>2, <1>4, <1>5
  <2> QED  BY <1>1, <2>1
<1> QED  BY <1>2, <1>5, <1>6, <1>7 DEF m

LEMMA ActionsStep ==
  ASSUME XInv, [TransferNext]_transferVars
  PROVE  StackInv'
<1>1. StackInv /\ stack \in Seq(Actions) /\ Len(stack) \in Nat
  BY DEF XInv, TInv, LinePart
<1>2. CASE UNCHANGED stack
  BY <1>1, <1>2 DEF StackInv, portEEPROMGetSize
<1>3. CASE Event
  <2>1. PICK act \in Acts, at \in {"size", "info"}, file \in Seq(Byte) :
           Begin(Action(act, at, file)) /\ (act = "read" => file = <<>>)
    BY <1>3, EventBegins
  <2> DEFINE f == Action(act, at, file)
  <2>2. f.at = at /\ f.act = act /\ f.sent = 0 /\ f.file = file
    BY DEF Action
  <2> HIDE DEF f
  <2>3. Begin(f) /\ (f.act = "read" => f.file = <<>>) /\ f.at # "verify"
    BY <2>1, <2>2 DEF f
  <2>4. /\ Len(stack') = Len(stack) + 1 /\ stack'[Len(stack) + 1] = f
        /\ \A n \in 1 .. Len(stack) :
              /\ ~stack'[n].alone /\ stack'[n].at = stack[n].at /\ stack'[n].file = stack[n].file
              /\ stack'[n].sent = stack[n].sent /\ stack'[n].act = stack[n].act
    BY <1>1, <2>3, BeginElements
  <2>5. ASSUME NEW n \in 1 .. Len(stack')
        PROVE /\ stack'[n].alone => n = Len(stack')
              /\ stack'[n].at = "verify" => Len(stack'[n].file) = portEEPROMGetSize
              /\ stack'[n].at \in {"size", "init"} =>
                   stack'[n].sent = 0 /\ (stack'[n].act = "read" => stack'[n].file = <<>>)
    <3>1. CASE n = Len(stack) + 1
      BY <2>2, <2>3, <2>4, <3>1
    <3>2. CASE n \in 1 .. Len(stack)
      <4>1. /\ ~stack'[n].alone /\ stack'[n].at = stack[n].at /\ stack'[n].file = stack[n].file
            /\ stack'[n].sent = stack[n].sent /\ stack'[n].act = stack[n].act
        BY <2>4, <3>2
      <4>2. /\ stack[n].at = "verify" => Len(stack[n].file) = portEEPROMGetSize
            /\ stack[n].at \in {"size", "init"} =>
                 stack[n].sent = 0 /\ (stack[n].act = "read" => stack[n].file = <<>>)
        BY <1>1, <3>2 DEF StackInv
      <4> QED  BY <4>1, <4>2
    <3> QED  BY <1>1, <2>4, <3>1, <3>2
  <2> QED  BY <2>5 DEF StackInv, portEEPROMGetSize
<1>4. ASSUME NEW f, stack # <<>>, Become(f), f.alone = Top.alone,
             f.at = "verify" => Len(f.file) = portEEPROMGetSize,
             f.at \in {"size", "init"} =>
               f.sent = 0 /\ (f.act = "read" => f.file = <<>>)
      PROVE  StackInv'
  <2>1. /\ Len(stack') = Len(stack)
        /\ \A n \in 1 .. Len(stack) : stack'[n] = IF n = Len(stack) THEN f ELSE stack[n]
    BY <1>1, <1>4, BecomeFields
  <2>2. ASSUME NEW n \in 1 .. Len(stack')
        PROVE /\ stack'[n].alone => n = Len(stack')
              /\ stack'[n].at = "verify" => Len(stack'[n].file) = portEEPROMGetSize
              /\ stack'[n].at \in {"size", "init"} =>
                   stack'[n].sent = 0 /\ (stack'[n].act = "read" => stack'[n].file = <<>>)
    <3>1. CASE n = Len(stack)
      BY <1>1, <1>4, <2>1, <3>1
    <3>2. CASE n # Len(stack)
      <4>1. n \in 1 .. Len(stack) /\ stack'[n] = stack[n] /\ Len(stack') = Len(stack)
        BY <2>1, <3>2
      <4> QED  BY <1>1, <4>1 DEF StackInv
    <3> QED  BY <3>1, <3>2
  <2> QED  BY <2>2 DEF StackInv, portEEPROMGetSize
<1>5. ASSUME NEW ok \in BOOLEAN,
             \/ SizeReturned(ok) \/ InitReturned(ok) \/ BlockReturned(ok)
             \/ VerifyReturned(ok) \/ InfoReturned(ok) \/ EraseReturned(ok)
      PROVE  StackInv'
  <2>1. PICK f : After(ok, f)
    BY <1>1, <1>5, ReturnedTop
  <2>2. stack # <<>> /\ Top = stack[Len(stack)] /\ Len(stack) \in 1 .. Len(stack)
    BY <1>1, <2>1 DEF After, Top, Last
  <2>3. Top.at = "size" => Top.sent = 0 /\ (Top.act = "read" => Top.file = <<>>)
    BY <1>1, <2>2 DEF StackInv
  <2> QED  BY <1>4, <2>1, <2>3 DEF After
<1>6. CASE ReadDone \/ WriteDone
  <2>1. stack # <<>> /\ Become(GoOn(Top, "done"))
    BY <1>6 DEF ReadDone, WriteDone, At
  <2>2. GoOn(Top, "done").at = "done" /\ GoOn(Top, "done").alone = Top.alone
    BY <1>1, <2>1, TopType, GoOnFields
  <2> QED  BY <1>4, <2>1, <2>2
<1>7. CASE Finish
  <2>1. stack # <<>> /\ stack' = Front(stack)
    BY <1>7 DEF Finish, At
  <2>2. /\ Len(stack') = Len(stack) - 1
        /\ \A n \in 1 .. Len(stack) - 1 : stack'[n] = stack[n]
    BY <1>1, <2>1, FrontElements
  <2>3. ASSUME NEW n \in 1 .. Len(stack')
        PROVE /\ ~stack'[n].alone
              /\ stack'[n].at = "verify" => Len(stack'[n].file) = portEEPROMGetSize
              /\ stack'[n].at \in {"size", "init"} =>
                   stack'[n].sent = 0 /\ (stack'[n].act = "read" => stack'[n].file = <<>>)
    <3>1. n \in 1 .. Len(stack) /\ n # Len(stack) /\ stack'[n] = stack[n]
      BY <1>1, <2>2
    <3> QED  BY <1>1, <3>1 DEF StackInv
  <2> QED  BY <2>3 DEF StackInv, portEEPROMGetSize
<1>8. Call \/ DeviceStep \/ UNCHANGED transferVars => UNCHANGED stack
  BY DEF Call, DeviceStep, Serve, AnswerLost, DeviceFails, transferVars
<1> QED  BY <1>2, <1>3, <1>5, <1>6, <1>7, <1>8 DEF TransferNext, HostStep
-----------------------------------------------------------------------------
(* The loop over the blocks of an action that is alone.                     *)

LEMMA LoopFacts ==
  ASSUME XInv, Looping
  PROVE  /\ Top \in Actions /\ Top.file \in Seq(Byte) /\ Len(Top.file) \in Nat
         /\ Moved \in Nat /\ Start \in Nat
         /\ AloneOnLine /\ MovedAgrees /\ PointerBehind /\ DoneIfOK
         /\ NextRequest.op = IF Top.act = "read" THEN "read" ELSE "write"
         /\ calling => /\ BlockSize \in Nat /\ Moved + BlockSize <= portEEPROMGetSize
                       /\ Top.act # "read" => Moved + BlockSize <= Len(Top.file)
<1>1. stack # <<>> /\ stack \in Seq(Actions) /\ LoopInv /\ CallInv /\ Top.at = "block"
  BY DEF XInv, TInv, LinePart, Looping
<1>2. Top \in Actions /\ Top.file \in Seq(Byte) /\ Len(Top.file) \in Nat /\ Top.sent \in Nat
  BY <1>1, TopType DEF Actions
<1>3. Moved \in Nat /\ Start \in Nat
  BY <1>2, EepromAssumption DEF Moved
<1>4. AloneOnLine /\ MovedAgrees /\ PointerBehind /\ DoneIfOK
  BY <1>1 DEF LoopInv
<1>5. NextRequest.op = IF Top.act = "read" THEN "read" ELSE "write"
  BY <1>1 DEF NextRequest, rpcEEPROMReadBlock, rpcEEPROMWriteBlock, Request
<1>6. ASSUME calling
      PROVE  /\ BlockSize \in Nat /\ Moved + BlockSize <= portEEPROMGetSize
             /\ Top.act # "read" => Moved + BlockSize <= Len(Top.file)
  <2>1. ~atEnd
    BY <1>1, <1>6 DEF CallInv
  <2>2. portEEPROMGetSize \in Nat /\ BlockMax \in Nat /\ Moved <= portEEPROMGetSize
        /\ Moved <= Len(Top.file)
    BY <1>4, EepromAssumption DEF portEEPROMGetSize, MovedAgrees
  <2> QED  BY <1>2, <1>3, <2>1, <2>2 DEF atEnd, BlockSize, Least
<1> QED  BY <1>2, <1>3, <1>4, <1>5, <1>6

\* While the device writes, it writes the block the loop waits for, behind what
\* the loop has moved.
LEMMA LoopRunning ==
  ASSUME XInv, Looping, running \in {"write", "erase"}
  PROVE  /\ running = "write" /\ serving # Nothing /\ Top.act # "read"
         /\ wire = <<>> /\ calling /\ initialized
         /\ EEPROMWritePointerAddress = Start + Moved
         /\ position \in Nat /\ ToProgram = Start + Moved + position
         /\ buffer = SubSeq(Top.file, Moved + 1, Moved + BlockSize)
<1>1. serving.op = running /\ serving # Nothing
  BY NothingIsNone DEF XInv, ServingInv
<1>2. AloneOnLine /\ PointerBehind /\ Top.at = "block"
  BY LoopFacts DEF Looping
<1>3. serving = NextRequest /\ wire = <<>> /\ calling
  BY <1>1, <1>2 DEF AloneOnLine
<1>4. running = "write" /\ Top.act # "read"
  BY <1>1, <1>3, LoopFacts
<1>5. NextRequest.content = SubSeq(Top.file, Moved + 1, Moved + BlockSize)
  BY <1>2, <1>4 DEF NextRequest, rpcEEPROMWriteBlock, Request
<1>6. initialized /\ Pointer = Start + Moved /\ buffer = serving.content
  BY <1>1, <1>2, <1>4 DEF PointerBehind
<1>7. EEPROMWritePointerAddress = Start + Moved
  BY <1>4, <1>6 DEF Pointer
<1>8. position \in Nat /\ ToProgram = EEPROMWritePointerAddress + position
  <2>1. EepromTypeOK
    BY DEF XInv, TInv, EInv
  <2>2. position \in Nat
    BY <2>1 DEF EepromTypeOK
  <2> QED  BY <1>6, <2>1, <2>2, NarrowIsOffset DEF ToProgram
<1> QED  BY <1>1, <1>3, <1>4, <1>5, <1>6, <1>7, <1>8

\* A step of the device that leaves line and host alone, or a loss of power,
\* touches no byte the loop has moved.
LEMMA MovedIsKept ==
  ASSUME XInv, Looping, EepromContinues \/ PowerOn \/ PowerLoss, UNCHANGED stack
  PROVE  MovedAgrees'
<1>1. /\ MovedAgrees /\ Moved \in Nat /\ Start \in Nat
      /\ Top' = Top /\ Moved' = Moved /\ portEEPROMGetSize' = portEEPROMGetSize
  BY LoopFacts, SameStack DEF portEEPROMGetSize
<1>2. portEEPROMGetSize = End - Start + 1 /\ End \in Nat /\ Moved <= portEEPROMGetSize
  BY <1>1, EepromAssumption DEF portEEPROMGetSize, MovedAgrees
<1>3. ASSUME NEW n \in 1 .. Moved
      PROVE  eeprom'[Start + n - 1] = eeprom[Start + n - 1]
  <2>1. Start + n - 1 \in Address
    BY <1>1, <1>2 DEF Address
  <2>2. eeprom \in [Address -> Byte]
    BY DEF XInv, TInv, EInv, EepromTypeOK
  <2>3. InProgress \subseteq Address
    BY DEF InProgress, WordAt
  <2>4. CASE running \in {"write", "erase"}
    <3>1. running = "write" /\ ToProgram # Start + n - 1
      BY <1>1, <2>4, LoopRunning
    <3>2. PowerLoss => Start + n - 1 \notin InProgress
      BY <3>1 DEF InProgress
    <3>3. EepromContinues => \/ UNCHANGED eeprom
                             \/ \E b : eeprom' = [eeprom EXCEPT ![ToProgram] = b]
      BY <3>1 DEF EepromContinues, ProgramByte, BlockWritten, EraseWord
    <3>4. CASE EepromContinues
      BY <2>1, <2>2, <3>1, <3>3, <3>4
    <3>5. CASE PowerLoss
      BY <2>1, <2>2, <2>3, <3>2, <3>5, TornMemory DEF PowerLoss
    <3>6. CASE PowerOn
      BY <3>6 DEF PowerOn
    <3> QED  BY <3>4, <3>5, <3>6
  <2>5. CASE running \notin {"write", "erase"}
    <3>1. ~EepromContinues
      BY <2>5 DEF EepromContinues, ProgramByte, BlockWritten, EraseWord
    <3>2. CASE PowerLoss
      <4>1. Start + n - 1 \notin InProgress
        BY <2>5 DEF InProgress
      <4> QED  BY <2>1, <2>2, <2>3, <3>2, <4>1, TornMemory DEF PowerLoss
    <3>3. CASE PowerOn
      BY <3>3 DEF PowerOn
    <3> QED  BY <3>1, <3>2, <3>3
  <2> QED  BY <2>4, <2>5
<1> QED  BY <1>1, <1>3 DEF MovedAgrees
\* What the loop asks and expects is the same while the stack is.
LEMMA SameLoop ==
  ASSUME UNCHANGED stack
  PROVE  /\ Looping' = Looping /\ Top' = Top /\ Moved' = Moved /\ BlockSize' = BlockSize
         /\ NextRequest' = NextRequest
BY SameStack DEF Looping

LEMMA CallLoop ==
  ASSUME XInv, Call
  PROVE  LoopInv'
<1> SUFFICES ASSUME Looping' PROVE AloneOnLine' /\ MovedAgrees' /\ PointerBehind' /\ DoneIfOK'
  BY DEF LoopInv
<1>1. /\ UNCHANGED <<eeprom, EEPROMWritePointerAddress, EEPROMReadPointerAddress, initialized>>
      /\ serving' = serving /\ stack' = stack /\ ~calling /\ calling'
      /\ wire' = wire \/ wire' = Append(wire, NextRequest)
  BY DEF Call, eepromVars, pointers
<1>2. /\ Looping /\ Top' = Top /\ Moved' = Moved /\ NextRequest' = NextRequest
  BY <1>1, SameLoop
<1>3. AloneOnLine /\ MovedAgrees /\ PointerBehind
  BY <1>2, LoopFacts
<1>4. serving = Nothing /\ wire = <<>> /\ serving' = Nothing
  BY <1>1, <1>3 DEF AloneOnLine
<1>5. wire' = <<>> \/ wire' = <<NextRequest'>>
  BY <1>1, <1>2, <1>4
<1>6. AloneOnLine'
  BY <1>1, <1>4, <1>5, Zenon DEF AloneOnLine
<1>7. MovedAgrees'
  BY <1>1, <1>2, <1>3 DEF MovedAgrees, portEEPROMGetSize
<1>8. PointerBehind'
  BY <1>1, <1>2, <1>3, <1>4, NothingIsNone DEF PointerBehind, Pointer, Nothing, Request
<1> QED  BY <1>4, <1>6, <1>7, <1>8 DEF DoneIfOK, Nothing, Request

LEMMA NothingIsConstant == Nothing' = Nothing
BY DEF Nothing, Request

\* The first block is asked for by a loop that has moved nothing, of a device
\* that has just reset its pointers.
LEMMA InitReturnedLoop ==
  ASSUME XInv, NEW f, After(TRUE, f), Top.at = "init", InitReturned(TRUE), f.at = "block",
         f.sent = Top.sent, f.file = Top.file
  PROVE  LoopInv'
<1> SUFFICES ASSUME Looping' PROVE AloneOnLine' /\ MovedAgrees' /\ PointerBehind' /\ DoneIfOK'
  BY DEF LoopInv
<1>1. /\ LiveInv /\ ServingInv /\ StackInv /\ stack \in Seq(Actions) /\ stack # <<>>
      /\ Top \in Actions
  BY TopType DEF XInv, TInv, LinePart, After
<1>3. Answered /\ calling' = FALSE /\ UNCHANGED eepromVars
  BY DEF InitReturned, Returned
<1>4. serving = NextRequest /\ wire = <<>> /\ serving' = Nothing /\ wire' = <<>>
  BY <1>1, <1>3 DEF Answered, LiveInv, Pending
<1>5. serving.op = "init"
  BY <1>4 DEF NextRequest, rpcEEPROMInitTransfer, Request
<1>6. initialized /\ EEPROMWritePointerAddress = Start /\ EEPROMReadPointerAddress = Start
  BY <1>1, <1>5 DEF ServingInv
<1>7. Top = stack[Len(stack)] /\ Len(stack) \in 1 .. Len(stack)
  BY <1>1 DEF Top, Last
<1>8. Top.sent = 0 /\ (Top.act = "read" => Top.file = <<>>) /\ Top.file \in Seq(Byte)
  BY <1>1, <1>7 DEF StackInv, Actions
<1>9. Top' = f /\ f.act = Top.act
  BY <1>1, BecomeFields DEF After
<1>10. Moved' = 0
  BY <1>8, <1>9 DEF Moved
<1>11. AloneOnLine'
  BY <1>4, NothingIsConstant DEF AloneOnLine
<1>12. MovedAgrees'
  <2>1. 0 <= portEEPROMGetSize /\ 0 <= Len(f.file) /\ portEEPROMGetSize' = portEEPROMGetSize
    BY <1>8, EepromAssumption DEF portEEPROMGetSize
  <2> QED  BY <1>9, <1>10, <2>1 DEF MovedAgrees
<1>13. PointerBehind'
  <2>1. Pointer' = Start /\ Start \in Nat
    BY <1>3, <1>6, EepromAssumption DEF Pointer, eepromVars, pointers
  <2> QED  BY <1>4, <1>10, <2>1, NothingIsConstant DEF PointerBehind
<1> QED  BY <1>4, <1>11, <1>12, <1>13, NothingIsConstant DEF DoneIfOK

LEMMA Appended ==
  ASSUME NEW s \in Seq(Byte), NEW t \in Seq(Byte)
  PROVE  /\ Len(s \o t) = Len(s) + Len(t)
         /\ \A n \in 1 .. Len(s) : (s \o t)[n] = s[n]
         /\ \A k \in 1 .. Len(t) : (s \o t)[Len(s) + k] = t[k]
OBVIOUS

\* The answered block continues what the loop has moved.
LEMMA BlockReturnedLoop ==
  ASSUME XInv, NEW f, After(TRUE, f), Top.at = "block", BlockReturned(TRUE), f.at = "block",
         f = IF Top.act = "read" THEN [GoOn(Top, "block") EXCEPT !.file = @ \o buffer]
                                 ELSE [GoOn(Top, "block") EXCEPT !.sent = @ + BlockSize]
  PROVE  LoopInv'
<1> SUFFICES ASSUME Looping' PROVE AloneOnLine' /\ MovedAgrees' /\ PointerBehind' /\ DoneIfOK'
  BY DEF LoopInv
<1>1. /\ LiveInv /\ stack \in Seq(Actions) /\ stack # <<>> /\ buffer \in Seq(Byte)
      /\ Top' = f /\ f.act = Top.act /\ f.alone = Top.alone
  BY BecomeFields DEF XInv, TInv, LinePart, EInv, EepromTypeOK, After
<1>2. Looping
  BY <1>1 DEF Looping
<1>3. /\ Top \in Actions /\ Top.file \in Seq(Byte) /\ Len(Top.file) \in Nat
      /\ Moved \in Nat /\ Start \in Nat /\ MovedAgrees /\ DoneIfOK
      /\ NextRequest.op \in {"read", "write"}
  BY <1>2, LoopFacts
<1>4. Answered /\ calling /\ calling' = FALSE /\ UNCHANGED eepromVars
      /\ (serving.op = "info" \/ outcome = "OK")
  BY DEF BlockReturned, Returned
<1>5. serving = NextRequest /\ wire = <<>> /\ serving' = Nothing /\ wire' = <<>>
  BY <1>1, <1>4 DEF Answered, LiveInv, Pending
<1>6. BlockDone
  BY <1>3, <1>4, <1>5, NothingIsNone DEF DoneIfOK, Answered
<1>7. /\ BlockSize \in Nat /\ Moved + BlockSize <= portEEPROMGetSize
      /\ Top.act # "read" => Moved + BlockSize <= Len(Top.file)
  BY <1>2, <1>4, LoopFacts
<1>8. GoOn(Top, "block") \in Actions /\ GoOn(Top, "block").file = Top.file
      /\ GoOn(Top, "block").sent = Top.sent
  BY <1>3, GoOnType, GoOnFields DEF Steps, CallSteps
<1>9. /\ Top.act = "read" => f.file = Top.file \o buffer
      /\ Top.act # "read" => f.sent = Top.sent + BlockSize /\ f.file = Top.file
  BY <1>8 DEF Actions
<1>10. Moved' = Moved + BlockSize /\ Moved' <= Len(f.file)
  <2>1. CASE Top.act = "read"
    <3>1. Len(buffer) = BlockSize
      BY <1>6, <2>1 DEF BlockDone
    <3>2. Len(f.file) = Len(Top.file) + BlockSize
      BY <1>1, <1>3, <1>9, <2>1, <3>1, Appended
    <3> QED  BY <1>1, <1>3, <1>7, <2>1, <3>2 DEF Moved
  <2>2. CASE Top.act # "read"
    BY <1>1, <1>3, <1>7, <1>9, <2>2 DEF Moved
  <2> QED  BY <2>1, <2>2
<1>11. ASSUME NEW n \in 1 .. Moved + BlockSize
       PROVE  eeprom[Start + n - 1] = f.file[n]
  <2>1. CASE n \in 1 .. Moved
    <3>1. eeprom[Start + n - 1] = Top.file[n] /\ Moved <= Len(Top.file)
      BY <1>3, <2>1 DEF MovedAgrees
    <3>2. n \in 1 .. Len(Top.file)
      BY <1>3, <2>1, <3>1
    <3>3. f.file[n] = Top.file[n]
      <4>1. (Top.file \o buffer)[n] = Top.file[n]
        BY <1>1, <1>3, <3>2, Appended
      <4> QED  BY <1>9, <4>1
    <3> QED  BY <3>1, <3>3
  <2>2. CASE n \notin 1 .. Moved
    <3> DEFINE k == n - Moved
    <3>1. k \in 1 .. BlockSize /\ n = Moved + k
      BY <1>3, <1>7, <2>2
    <3>2. eeprom[Start + Moved + k - 1] = IF Top.act = "read" THEN buffer[k] ELSE Top.file[Moved + k]
      BY <1>6, <3>1 DEF BlockDone
    <3>3. Start + Moved + k - 1 = Start + n - 1
      BY <1>3, <3>1
    <3>4. Top.act = "read" => f.file[n] = buffer[k]
      <4>1. Top.act = "read" => Len(Top.file) = Moved /\ Len(buffer) = BlockSize
        BY <1>6 DEF Moved, BlockDone
      <4>2. \A j \in 1 .. Len(buffer) : (Top.file \o buffer)[Len(Top.file) + j] = buffer[j]
        BY <1>1, <1>3, Appended
      <4> QED  BY <1>9, <3>1, <4>1, <4>2
    <3> QED  BY <1>9, <3>1, <3>2, <3>3, <3>4
  <2> QED  BY <2>1, <2>2
<1>12. AloneOnLine'
  BY <1>5, NothingIsConstant DEF AloneOnLine
<1>13. MovedAgrees'
  BY <1>1, <1>4, <1>7, <1>10, <1>11 DEF MovedAgrees, eepromVars, portEEPROMGetSize
<1>14. PointerBehind'
  <2>1. Pointer' = Pointer
    BY <1>1, <1>4 DEF Pointer, eepromVars, pointers
  <2>2. Pointer = Start + Moved + BlockSize
    BY <1>6 DEF BlockDone
  <2>3. Pointer' = Start + Moved'
    BY <1>3, <1>7, <1>10, <2>1, <2>2
  <2> QED  BY <1>5, <2>3, NothingIsConstant DEF PointerBehind
<1> QED  BY <1>5, <1>12, <1>13, <1>14, NothingIsConstant DEF DoneIfOK
\* The device reads the block behind what the loop has moved, or begins to
\* write it.
LEMMA ServeLoop ==
  ASSUME XInv, Serve
  PROVE  LoopInv'
<1> SUFFICES ASSUME Looping' PROVE AloneOnLine' /\ MovedAgrees' /\ PointerBehind' /\ DoneIfOK'
  BY DEF LoopInv
<1>1. /\ serving' \in Requests /\ Handle(serving') /\ UNCHANGED <<calling, stack>>
      /\ serving = Nothing /\ wire # <<>> /\ serving' = Head(wire) /\ wire' = Tail(wire)
  BY ServedRequest DEF Serve
<1>2. /\ Looping /\ Top' = Top /\ Moved' = Moved /\ BlockSize' = BlockSize
      /\ NextRequest' = NextRequest
  BY <1>1, SameLoop
<1>3. /\ Top.file \in Seq(Byte) /\ Len(Top.file) \in Nat /\ Moved \in Nat /\ Start \in Nat
      /\ AloneOnLine /\ MovedAgrees /\ PointerBehind
      /\ NextRequest.op = IF Top.act = "read" THEN "read" ELSE "write"
  BY <1>2, LoopFacts
<1>4. wire = <<NextRequest>> /\ calling
  BY <1>1, <1>3 DEF AloneOnLine
<1>5. serving' = NextRequest /\ wire' = <<>> /\ calling' = calling
  BY <1>1, <1>4
<1>6. BlockSize \in Nat
  BY <1>2, <1>4, LoopFacts
<1>7. wire # <<>> /\ (initialized => Pointer = Start + Moved)
  BY <1>1, <1>3 DEF PointerBehind
<1>8. AloneOnLine'
  BY <1>2, <1>4, <1>5, Zenon DEF AloneOnLine
<1>9. UNCHANGED eeprom => MovedAgrees'
  BY <1>2, <1>3 DEF MovedAgrees, portEEPROMGetSize
<1>10. CASE Top.act = "read"
  <2>1. NextRequest.op = "read" /\ NextRequest.size = BlockSize
    BY <1>2, <1>10 DEF NextRequest, rpcEEPROMReadBlock, Request, Looping
  <2>2. programmerEEPROMRead(BlockSize)
    BY <1>1, <1>5, <2>1 DEF Handle
  <2>3. /\ UNCHANGED <<eeprom, EEPROMWritePointerAddress, initialized>> /\ running' = "nothing"
        /\ CanRead(BlockSize) =>
             /\ buffer' = [n \in 1 .. BlockSize |-> eeprom[HwAddress(EEPROMReadPointerAddress, n - 1)]]
             /\ EEPROMReadPointerAddress' = EEPROMReadPointerAddress + BlockSize
        /\ ~CanRead(BlockSize) => outcome' = "Fail"
    BY <2>2 DEF programmerEEPROMRead, Returns
  <2>4. PointerBehind'
    BY <1>4, <1>5, <2>3, Zenon DEF PointerBehind
  <2>5. ASSUME CanRead(BlockSize)
        PROVE  BlockDone'
    <3>1. initialized /\ EEPROMReadPointerAddress = Start + Moved
      BY <1>7, <1>10, <2>5 DEF CanRead, Pointer
    <3>2. EepromTypeOK
      BY DEF XInv, TInv, EInv
    <3>3. ASSUME NEW n \in 1 .. BlockSize
          PROVE  buffer'[n] = eeprom[Start + Moved + n - 1]
      <4>1. buffer'[n] = eeprom[HwAddress(EEPROMReadPointerAddress, n - 1)] /\ n - 1 \in Nat
        BY <1>6, <2>3, <2>5
      <4>2. HwAddress(EEPROMReadPointerAddress, n - 1) = EEPROMReadPointerAddress + (n - 1)
        BY <3>1, <3>2, <4>1, NarrowIsOffset
      <4>3. EEPROMReadPointerAddress + (n - 1) = Start + Moved + n - 1
        BY <1>3, <3>1
      <4> QED  BY <4>1, <4>2, <4>3
    <3>4. Len(buffer') = BlockSize
      BY <1>6, <2>3, <2>5
    <3>5. Pointer' = Start + Moved + BlockSize
      BY <1>2, <1>10, <2>3, <2>5, <3>1 DEF Pointer
    <3> QED  BY <1>2, <1>10, <2>3, <3>1, <3>3, <3>4, <3>5 DEF BlockDone
  <2>6. DoneIfOK'
    BY <2>3, <2>5 DEF DoneIfOK
  <2> QED  BY <1>8, <1>9, <2>3, <2>4, <2>6
<1>11. CASE Top.act # "read"
  <2>1. programmerEEPROMWrite(NextRequest.content)
    BY <1>1, <1>3, <1>5, <1>11 DEF Handle
  <2>2. /\ UNCHANGED <<eeprom, pointers>> /\ buffer' = NextRequest.content
        /\ \/ running' = "write" /\ initialized
           \/ running' = "nothing" /\ outcome' = "Fail"
    BY <2>1 DEF programmerEEPROMWrite, Returns
  <2>3. DoneIfOK'
    BY <2>2 DEF DoneIfOK, Ready
  <2>4. ASSUME running' = "write"
        PROVE  initialized' /\ Pointer' = Start + Moved' /\ buffer' = serving'.content
    <3>1. initialized /\ initialized' = initialized
      BY <2>2, <2>4 DEF pointers
    <3>2. Pointer' = Pointer
      BY <1>2, <2>2 DEF Pointer, pointers
    <3> QED  BY <1>2, <1>5, <1>7, <2>2, <3>1, <3>2
  <2>5. PointerBehind'
    BY <1>4, <1>5, <2>4, Zenon DEF PointerBehind
  <2> QED  BY <1>8, <1>9, <2>2, <2>3, <2>5
<1> QED  BY <1>10, <1>11

\* The device writes the block to its end, or reports that it did not.
LEMMA ContinueLoop ==
  ASSUME XInv, EepromContinues \/ PowerOn, UNCHANGED <<line, stack>>
  PROVE  LoopInv'
<1> SUFFICES ASSUME Looping' PROVE AloneOnLine' /\ MovedAgrees' /\ PointerBehind' /\ DoneIfOK'
  BY DEF LoopInv
<1>1. UNCHANGED <<wire, serving, calling, stack>>
  BY DEF line
<1>2. /\ Looping /\ Top' = Top /\ Moved' = Moved /\ BlockSize' = BlockSize
      /\ NextRequest' = NextRequest
  BY <1>1, SameLoop
<1>3. /\ Top.file \in Seq(Byte) /\ Len(Top.file) \in Nat /\ Moved \in Nat /\ Start \in Nat
      /\ AloneOnLine /\ MovedAgrees /\ PointerBehind
  BY <1>2, LoopFacts
<1>4. MovedAgrees'
  BY <1>2, MovedIsKept
<1>5. AloneOnLine'
  BY <1>1, <1>2, <1>3, NothingIsConstant DEF AloneOnLine
<1>6. CASE PowerOn
  <2>1. serving = Nothing /\ serving' = Nothing /\ UNCHANGED pointers
    BY <1>1, <1>6 DEF XInv, ServingInv, PowerOn
  <2>2. Pointer' = Pointer /\ initialized' = initialized
    BY <1>2, <2>1 DEF Pointer, pointers
  <2>3. PointerBehind'
    BY <1>1, <1>2, <1>3, <2>1, <2>2, NothingIsConstant DEF PointerBehind
  <2> QED  BY <1>4, <1>5, <2>1, <2>3, NothingIsConstant DEF DoneIfOK
<1>7. CASE EepromContinues
  <2>1. running \in {"write", "erase"}
    BY <1>7 DEF EepromContinues, ProgramByte, BlockWritten, EraseWord
  <2>2. /\ running = "write" /\ serving # Nothing /\ Top.act # "read"
        /\ wire = <<>> /\ calling /\ initialized
        /\ EEPROMWritePointerAddress = Start + Moved
        /\ buffer = SubSeq(Top.file, Moved + 1, Moved + BlockSize)
    BY <1>2, <2>1, LoopRunning
  <2>3. ~((~calling' \/ wire' # <<>>) /\ initialized')
    BY <1>1, <2>2
  <2>4. CASE ProgramByte
    <3>1. UNCHANGED <<pointers, buffer>> /\ (running' = "write" \/ outcome' = "Fail")
      BY <2>2, <2>4 DEF ProgramByte, Returns
    <3>2. Pointer' = Pointer /\ initialized' = initialized
      BY <1>2, <3>1 DEF Pointer, pointers
    <3>3. initialized /\ Pointer = Start + Moved /\ buffer = serving.content
      BY <1>3, <2>2 DEF PointerBehind
    <3>4. PointerBehind'
      BY <1>1, <1>2, <2>3, <3>1, <3>2, <3>3 DEF PointerBehind
    <3>5. DoneIfOK'
      BY <3>1 DEF DoneIfOK, Ready
    <3> QED  BY <1>4, <1>5, <3>4, <3>5
  <2>5. CASE BlockWritten
    <3>1. /\ EEPROMWritePointerAddress' = EEPROMWritePointerAddress + Len(buffer)
          /\ position = Len(buffer) /\ running' = "nothing"
          /\ UNCHANGED <<eeprom, initialized, buffer>>
      BY <2>5 DEF BlockWritten, Returns
    <3>2. /\ BlockSize \in Nat /\ Moved + BlockSize <= Len(Top.file)
      BY <1>2, <2>2, LoopFacts
    <3>3. /\ Len(buffer) = BlockSize
          /\ \A n \in 1 .. BlockSize : buffer[n] = Top.file[Moved + n]
      <4> DEFINE file == Top.file
                 from == Moved
                 more == BlockSize
      <4>1. file \in Seq(Byte) /\ from \in Nat /\ more \in Nat /\ from + more <= Len(file)
            /\ buffer = SubSeq(file, from + 1, from + more)
        BY <1>3, <2>2, <3>2
      <4> HIDE DEF file, from, more
      <4>2. Len(buffer) = more /\ \A n \in 1 .. more : buffer[n] = file[from + n]
        BY <4>1
      <4> QED  BY <4>2 DEF file, from, more
    <3>4. \A n \in 1 .. BlockSize : eeprom[EEPROMWritePointerAddress + n - 1] = buffer[n]
      BY <2>2, <3>1, <3>3 DEF XInv, TInv, EInv, WritePart
    <3>5. /\ initialized' /\ Pointer' = Start + Moved' + BlockSize'
          /\ \A n \in 1 .. BlockSize' : eeprom'[Start + Moved' + n - 1] = Top'.file[Moved' + n]
      BY <1>2, <2>2, <3>1, <3>3, <3>4 DEF Pointer
    <3>6. BlockDone'
      BY <1>2, <2>2, <3>5 DEF BlockDone
    <3>7. PointerBehind'
      BY <2>3, <3>1 DEF PointerBehind
    <3> QED  BY <1>4, <1>5, <3>6, <3>7 DEF DoneIfOK
  <2> QED  BY <1>7, <2>2, <2>4, <2>5 DEF EepromContinues, EraseWord
<1> QED  BY <1>6, <1>7

\* An answer is lost, or the power: there is no answer for the loop to go on
\* with, or no pointer.
LEMMA LossLoop ==
  ASSUME XInv, AnswerLost \/ DeviceFails
  PROVE  LoopInv'
<1> SUFFICES ASSUME Looping' PROVE AloneOnLine' /\ MovedAgrees' /\ PointerBehind' /\ DoneIfOK'
  BY DEF LoopInv
<1>1. UNCHANGED <<calling, stack>> /\ serving' = Nothing
  BY DEF AnswerLost, DeviceFails
<1>2. /\ Looping /\ Top' = Top /\ Moved' = Moved /\ BlockSize' = BlockSize
      /\ NextRequest' = NextRequest
  BY <1>1, SameLoop
<1>3. /\ AloneOnLine /\ MovedAgrees /\ PointerBehind
  BY <1>2, LoopFacts
<1>4. wire' = <<>> \/ (wire' = wire)
  BY DEF AnswerLost, DeviceFails
<1>5. AloneOnLine'
  BY <1>1, <1>2, <1>3, <1>4, NothingIsConstant, Zenon DEF AloneOnLine
<1>6. MovedAgrees'
  <2>1. CASE AnswerLost
    BY <1>2, <1>3, <2>1 DEF AnswerLost, eepromVars, MovedAgrees, portEEPROMGetSize
  <2>2. CASE DeviceFails
    BY <1>1, <1>2, <2>2, MovedIsKept DEF DeviceFails
  <2> QED  BY <2>1, <2>2
<1>7. (~calling' \/ wire' # <<>>) /\ initialized' => Pointer' = Start + Moved'
  <2>1. CASE AnswerLost
    <3>1. serving # Nothing /\ wire' = wire
      BY <2>1 DEF AnswerLost
    <3>2. wire = <<>> /\ calling
      BY <1>3, <3>1 DEF AloneOnLine
    <3> QED  BY <1>1, <3>1, <3>2
  <2>2. CASE DeviceFails
    BY <2>2 DEF DeviceFails, PowerLoss
  <2> QED  BY <2>1, <2>2
<1>8. PointerBehind' /\ DoneIfOK'
  BY <1>1, <1>7, NothingIsConstant DEF PointerBehind, DoneIfOK
<1> QED  BY <1>5, <1>6, <1>8

LEMMA LoopStep ==
  ASSUME XInv, [TransferNext]_transferVars, StackInv'
  PROVE  LoopInv'
<1>1. LoopInv /\ stack \in Seq(Actions) /\ Len(stack) \in Nat
  BY DEF XInv, TInv, LinePart
<1>2. CASE Event
  <2>1. PICK act \in Acts, at \in {"size", "info"}, file \in Seq(Byte) :
           Begin(Action(act, at, file))
    BY <1>2, EventBegins
  <2>2. Top'.at \in {"size", "info"}
    BY <1>1, <2>1, BeginElements DEF Action
  <2> QED  BY <2>2 DEF LoopInv, Looping
<1>3. CASE ReadDone \/ WriteDone
  <2>1. stack # <<>> /\ Become(GoOn(Top, "done"))
    BY <1>3 DEF ReadDone, WriteDone, At
  <2>2. Top'.at = "done"
    BY <1>1, <2>1, TopType, GoOnFields, BecomeFields
  <2> QED  BY <2>2 DEF LoopInv, Looping
<1>4. CASE Finish
  <2>1. stack # <<>> /\ stack' = Front(stack)
    BY <1>4 DEF Finish, At
  <2>2. /\ stack' \in Seq(Actions) /\ Len(stack') = Len(stack) - 1
        /\ \A n \in 1 .. Len(stack) - 1 : stack'[n] = stack[n]
    BY <1>1, <2>1, FrontElements
  <2>3. CASE stack' = <<>>
    BY <2>3 DEF LoopInv, Looping
  <2>4. CASE stack' # <<>>
    <3> DEFINE m == Len(stack')
    <3>1. m \in 1 .. Len(stack) - 1 /\ Top' = stack'[m]
      BY <2>2, <2>4 DEF Top, Last
    <3>2. ~stack[m].alone
      BY <1>1, <3>1 DEF XInv, StackInv
    <3>3. ~Top'.alone
      BY <2>2, <3>1, <3>2
    <3> QED  BY <3>3 DEF LoopInv, Looping
  <2> QED  BY <2>3, <2>4
<1>5. ASSUME NEW ok \in BOOLEAN,
             \/ SizeReturned(ok) \/ InitReturned(ok) \/ BlockReturned(ok)
             \/ VerifyReturned(ok) \/ InfoReturned(ok) \/ EraseReturned(ok)
      PROVE  LoopInv'
  <2>1. PICK f : After(ok, f)
    BY <1>1, <1>5, ReturnedTop
  <2>2. Top' = f
    BY <1>1, <2>1, BecomeFields DEF After
  <2>3. CASE f.at # "block"
    BY <2>2, <2>3 DEF LoopInv, Looping
  <2>4. CASE f.at = "block"
    <3>1. ok = TRUE
      BY <2>1, <2>4 DEF After
    <3> QED  BY <2>1, <2>4, <3>1, InitReturnedLoop, BlockReturnedLoop DEF After
  <2> QED  BY <2>3, <2>4
<1>6. CASE UNCHANGED transferVars
  <2>1. UNCHANGED <<eeprom, EEPROMWritePointerAddress, EEPROMReadPointerAddress, initialized,
                    running, buffer, outcome, wire, serving, calling, stack>>
    BY <1>6 DEF transferVars, eepromVars, pointers, line
  <2>2. /\ Looping' = Looping /\ Top' = Top /\ Moved' = Moved /\ BlockSize' = BlockSize
        /\ NextRequest' = NextRequest
    BY <2>1, SameLoop
  <2>3. AloneOnLine' = AloneOnLine
    BY <2>1, <2>2, NothingIsConstant DEF AloneOnLine
  <2>4. MovedAgrees' = MovedAgrees
    BY <2>1, <2>2 DEF MovedAgrees, portEEPROMGetSize
  <2>5. Pointer' = Pointer
    BY <2>1, <2>2 DEF Pointer
  <2>6. PointerBehind' = PointerBehind
    BY <2>1, <2>2, <2>5, NothingIsConstant DEF PointerBehind
  <2>7. BlockDone' = BlockDone
    BY <2>1, <2>2, <2>5 DEF BlockDone
  <2>8. DoneIfOK' = DoneIfOK
    BY <2>1, <2>7, NothingIsConstant DEF DoneIfOK, Ready
  <2> QED  BY <1>1, <2>2, <2>3, <2>4, <2>6, <2>8 DEF LoopInv
<1> QED  BY <1>2, <1>3, <1>4, <1>5, <1>6, CallLoop, ServeLoop, ContinueLoop, LossLoop
         DEF TransferNext, HostStep, DeviceStep
-----------------------------------------------------------------------------
LEMMA NextXInv == XInv /\ [TransferNext]_transferVars => XInv'
<1> SUFFICES ASSUME XInv, [TransferNext]_transferVars PROVE XInv'
  OBVIOUS
<1>1. TInv'
  BY DevicePart, LineStep, StackStep DEF XInv, TInv, LinePart
<1>2. StackInv'
  BY ActionsStep
<1> QED  BY <1>1, <1>2, LiveStep, ServingStep, CallStep, LoopStep DEF XInv

\* A loop that is at its end has moved as much as file and EEPROM hold.
LEMMA AllIsMoved ==
  ASSUME XInv, Looping, ~calling, atEnd
  PROVE  IF Top.act = "read" THEN Moved = portEEPROMGetSize
                             ELSE Moved >= Least(Len(Top.file), portEEPROMGetSize)
<1>1. /\ Moved \in Nat /\ Len(Top.file) \in Nat /\ Moved <= portEEPROMGetSize
      /\ Moved <= Len(Top.file)
  BY LoopFacts DEF MovedAgrees
<1>2. portEEPROMGetSize \in Nat /\ BlockMax \in Nat \ {0}
  BY EepromAssumption DEF portEEPROMGetSize
<1> QED  BY <1>1, <1>2 DEF atEnd, BlockSize, Least

\* For every size of EEPROM, blocks, line and files: what the host calls read is
\* the content of the EEPROM, unless another action was started meanwhile.
THEOREM ReadReportIsTrue == TransferSpec => ReadIsTrue
<1>1. ASSUME XInv, ReadDone, Top.alone
      PROVE  Top.file = Content
  <2>1. Looping /\ ~calling /\ atEnd /\ Top.act = "read"
    BY <1>1 DEF ReadDone, At, Looping
  <2>2. Top.file \in Seq(Byte) /\ MovedAgrees
    BY <1>1, <2>1, LoopFacts
  <2>3. Moved = portEEPROMGetSize /\ Moved = Len(Top.file)
    BY <1>1, <2>1, AllIsMoved DEF Moved
  <2>4. \A n \in 1 .. portEEPROMGetSize : Top.file[n] = eeprom[Start + n - 1]
    BY <2>2, <2>3 DEF MovedAgrees
  <2>5. Top.file = [n \in 1 .. Len(Top.file) |-> Top.file[n]]
    BY <2>2
  <2> QED  BY <2>3, <2>4, <2>5 DEF Content
<1>2. XInv /\ [TransferNext]_transferVars => [ReadDone /\ Top.alone => Top.file = Content]_transferVars
  BY <1>1
<1> QED  BY <1>2, InitXInv, NextXInv, PTL DEF TransferSpec, ReadIsTrue

\* What the host calls written is in the EEPROM as far as there is room, with
\* the same exception.
THEOREM WriteReportIsTrue == TransferSpec => WriteIsTrue
<1>1. ASSUME XInv, WriteDone, Top.alone
      PROVE  \A n \in 1 .. Least(Len(Top.file), portEEPROMGetSize) : Content[n] = Top.file[n]
  <2>1. Looping /\ ~calling /\ atEnd /\ Top.act # "read"
    BY <1>1 DEF WriteDone, At, Looping
  <2>2. /\ MovedAgrees /\ Moved \in Nat /\ Len(Top.file) \in Nat
        /\ Moved >= Least(Len(Top.file), portEEPROMGetSize)
    BY <1>1, <2>1, LoopFacts, AllIsMoved
  <2>3. portEEPROMGetSize \in Nat
    BY EepromAssumption DEF portEEPROMGetSize
  <2>4. ASSUME NEW n \in 1 .. Least(Len(Top.file), portEEPROMGetSize)
        PROVE  n \in 1 .. Moved /\ n \in 1 .. portEEPROMGetSize
    BY <2>2, <2>3 DEF Least
  <2> QED  BY <2>2, <2>4 DEF MovedAgrees, Content
<1>2. XInv /\ [TransferNext]_transferVars =>
        [WriteDone /\ Top.alone =>
           \A n \in 1 .. Least(Len(Top.file), portEEPROMGetSize) : Content[n] = Top.file[n]]_transferVars
  BY <1>1
<1> QED  BY <1>2, InitXInv, NextXInv, PTL DEF TransferSpec, WriteIsTrue

\* What the host calls verified is the content of the EEPROM at that moment,
\* whatever other actions run.
THEOREM VerifyReportIsTrue == TransferSpec => VerifyIsTrue
<1>1. ASSUME XInv, VerifyReturned(TRUE)
      PROVE  Content = Top.file
  <2>1. /\ Answered /\ Top.at = "verify" /\ stack # <<>>
        /\ (serving.op = "info" \/ outcome = "OK")
    BY <1>1 DEF VerifyReturned, Returned
  <2>2. serving = rpcEEPROMVerify(Top.file)
    BY <1>1, <2>1 DEF XInv, LiveInv, Pending, Answered, NextRequest
  <2>3. serving.op = "verify" /\ serving.content = Top.file
    BY <2>2 DEF rpcEEPROMVerify, Request
  <2>4. \A p \in Address : Top.file[p - Start + 1] = eeprom[p]
    BY <1>1, <2>1, <2>3 DEF XInv, ServingInv
  <2>5. stack \in Seq(Actions) /\ Top \in Actions /\ Top = stack[Len(stack)]
        /\ Len(stack) \in 1 .. Len(stack)
    BY <1>1, <2>1, TopType DEF XInv, TInv, LinePart, Top, Last
  <2>6. Top.file \in Seq(Byte) /\ Len(Top.file) = portEEPROMGetSize
    BY <1>1, <2>1, <2>5 DEF XInv, StackInv, Actions
  <2>7. ASSUME NEW n \in 1 .. portEEPROMGetSize
        PROVE  Top.file[n] = eeprom[Start + n - 1]
    <3>1. Start + n - 1 \in Address /\ (Start + n - 1) - Start + 1 = n
      BY EepromAssumption DEF Address, portEEPROMGetSize
    <3> QED  BY <2>4, <3>1
  <2>8. Top.file = [n \in 1 .. Len(Top.file) |-> Top.file[n]]
    BY <2>6
  <2> QED  BY <2>6, <2>7, <2>8 DEF Content
<1>2. XInv /\ [TransferNext]_transferVars => [VerifyReturned(TRUE) => Content = Top.file]_transferVars
  BY <1>1
<1> QED  BY <1>2, InitXInv, NextXInv, PTL DEF TransferSpec, VerifyIsTrue
=============================================================================
