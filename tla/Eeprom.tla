------------------------------- MODULE Eeprom -------------------------------
(***************************************************************************)
(* The EEPROM commands of the device: programmerEEPROM* of programmer.c    *)
(* and portEEPROM* of port_flash.c. Any command may come at any time; what *)
(* the host makes of them is the subject of EepromTransfer.                *)
(*                                                                         *)
(* The memory is programmed byte by byte and erased word by word. A        *)
(* command runs to completion in the main loop, so only an error or a loss *)
(* of power comes between two of its steps.                                *)
(***************************************************************************)
EXTENDS Integers, Sequences

CONSTANTS
  Start, End,   \* DATA_EEPROM_START_ADDR, DATA_EEPROM_END_ADDR
  Narrow16,     \* 2^16: portEEPROMRead and portEEPROMWrite take a uint16_t
  Byte,         \* the values of a byte
  Erased,       \* the value of an erased byte
  Word,         \* bytes of a word, 4
  BlockMax,     \* bytes of the largest block, 128
  SizeMax       \* largest size of a request, 255

\* The second conjunct: an address cut to 16 bits is the offset.
ASSUME EepromAssumption ==
  /\ Start \in Nat /\ End \in Nat /\ Start <= End
  /\ Narrow16 \in Nat \ {0}
  /\ \A p \in Start .. End + 1 : p % Narrow16 = p - Start
  /\ Erased \in Byte
  /\ Word \in Nat \ {0} /\ (End + 1 - Start) % Word = 0
  /\ BlockMax \in Nat \ {0} /\ SizeMax \in Nat /\ BlockMax <= SizeMax

VARIABLES
  eeprom,
  EEPROMWritePointerAddress,
  EEPROMReadPointerAddress,
  initialized,  \* EEPROM(Write|Read)PointerAddress_initialized, set together
  running,      \* the command that is running, "off" without power
  buffer,       \* the block of the last write, what the last read returned
  position,     \* the next byte of the block, the next word to erase
  outcome       \* what the last command returned

pointers   == <<EEPROMWritePointerAddress, EEPROMReadPointerAddress, initialized>>
eepromVars == <<eeprom, pointers, running, buffer, position, outcome>>

Address == Start .. End
Blocks  == UNION {[1 .. n -> Byte] : n \in 0 .. SizeMax}

portEEPROMGetSize == End - Start + 1

\* The address portEEPROMWrite and portEEPROMRead make of a pointer's
\* uint16_t and the number of the byte, counted from 0.
HwAddress(pointer, n) == Start + (pointer % Narrow16) + n

EepromTypeOK ==
  /\ eeprom \in [Address -> Byte]
  /\ EEPROMWritePointerAddress \in Nat /\ EEPROMReadPointerAddress \in Nat
  /\ initialized \in BOOLEAN
  /\ initialized => {EEPROMWritePointerAddress, EEPROMReadPointerAddress} \subseteq Start .. End + 1
  /\ running \in {"off", "nothing", "write", "erase"}
  /\ buffer \in Seq(Byte)
  /\ position \in Nat
  /\ outcome \in {"none", "OK", "Fail"}

-----------------------------------------------------------------------------
EepromInit ==
  /\ eeprom \in [Address -> Byte]
  /\ EEPROMWritePointerAddress = 0 /\ EEPROMReadPointerAddress = 0
  /\ initialized = FALSE
  /\ running = "off"
  /\ buffer = <<>> /\ position = 0 /\ outcome = "none"

Ready == running = "nothing"

Returns(r) ==
  /\ running' = "nothing"
  /\ position' = 0
  /\ outcome' = r

\* Mutated form of programmerEEPROMInitTransfer: the read pointer is not reset.
programmerEEPROMInitTransferMutant ==
  /\ Ready
  /\ EEPROMWritePointerAddress' = Start
  /\ initialized' = TRUE
  /\ buffer' = <<>>
  /\ Returns("OK")
  /\ UNCHANGED <<eeprom, EEPROMReadPointerAddress>>

programmerEEPROMInitTransfer ==
  /\ Ready
  /\ EEPROMWritePointerAddress' = Start
  /\ EEPROMReadPointerAddress' = Start
  /\ initialized' = TRUE
  /\ buffer' = <<>>
  /\ Returns("OK")
  /\ UNCHANGED eeprom

programmerEEPROMGetSize ==
  /\ Ready
  /\ buffer' = <<>>
  /\ Returns("OK")
  /\ UNCHANGED <<eeprom, pointers>>

\* Mutated form of CanRead: nobody asks for initialized.
CanReadMutant(size) ==
  /\ size <= BlockMax
  /\ \A n \in 0 .. size - 1 : HwAddress(EEPROMReadPointerAddress, n) \in Address

\* portEEPROMRead, the offset against an absolute address included
CanRead(size) ==
  /\ initialized /\ size <= BlockMax
  /\ (EEPROMReadPointerAddress % Narrow16) + size <= End
  /\ \A n \in 0 .. size - 1 : HwAddress(EEPROMReadPointerAddress, n) \in Address

programmerEEPROMRead(size) ==
  /\ Ready
  /\ IF CanRead(size)
       THEN /\ buffer' = [n \in 1 .. size |-> eeprom[HwAddress(EEPROMReadPointerAddress, n - 1)]]
            /\ EEPROMReadPointerAddress' = EEPROMReadPointerAddress + size
            /\ Returns("OK")
       ELSE /\ buffer' = <<>>
            /\ UNCHANGED EEPROMReadPointerAddress
            /\ Returns("Fail")
  /\ UNCHANGED <<eeprom, EEPROMWritePointerAddress, initialized>>

\* Mutated form of programmerEEPROMWrite: nobody asks for initialized.
programmerEEPROMWriteMutant(data) ==
  /\ Ready
  /\ buffer' = data
  /\ IF Len(data) <= BlockMax
       THEN running' = "write" /\ position' = 0 /\ outcome' = "none"
       ELSE Returns("Fail")
  /\ UNCHANGED <<eeprom, pointers>>

programmerEEPROMWrite(data) ==
  /\ Ready
  /\ buffer' = data
  /\ IF initialized /\ Len(data) <= BlockMax
       THEN running' = "write" /\ position' = 0 /\ outcome' = "none"
       ELSE Returns("Fail")
  /\ UNCHANGED <<eeprom, pointers>>

ToProgram == HwAddress(EEPROMWritePointerAddress, position)

\* Mutated form of ProgramByte: the loop goes on after an error.
ProgramByteMutant ==
  /\ running = "write" /\ position < Len(buffer) /\ ToProgram \in Address
  /\ \E torn \in Byte : eeprom' = [eeprom EXCEPT ![ToProgram] = torn]
  /\ position' = position + 1
  /\ UNCHANGED <<running, outcome, pointers, buffer>>

\* One turn of the loop of portEEPROMWrite. Equal bytes are not programmed; a
\* byte behind the end or one that cannot be programmed ends the loop.
ProgramByte ==
  /\ running = "write" /\ position < Len(buffer)
  /\ \/ /\ ToProgram \in Address
        /\ eeprom' = [eeprom EXCEPT ![ToProgram] = buffer[position + 1]]
        /\ position' = position + 1
        /\ UNCHANGED <<running, outcome>>
     \/ /\ ToProgram \in Address /\ eeprom[ToProgram] # buffer[position + 1]
        /\ \E torn \in Byte : eeprom' = [eeprom EXCEPT ![ToProgram] = torn]
        /\ Returns("Fail")
     \/ /\ ToProgram \notin Address
        /\ UNCHANGED eeprom
        /\ Returns("Fail")
  /\ UNCHANGED <<pointers, buffer>>

BlockWritten ==
  /\ running = "write" /\ position = Len(buffer)
  /\ EEPROMWritePointerAddress' = EEPROMWritePointerAddress + Len(buffer)
  /\ Returns("OK")
  /\ UNCHANGED <<eeprom, EEPROMReadPointerAddress, initialized, buffer>>

programmerEEPROMErase ==
  /\ Ready
  /\ running' = "erase" /\ position' = 0 /\ outcome' = "none"
  /\ buffer' = <<>>
  /\ UNCHANGED <<eeprom, pointers>>

WordAt(n) == {p \in Address : Start + n <= p /\ p < Start + n + Word}

\* The memory with anything in the bytes at some addresses
Torn(at) == {[p \in Address |-> IF p \in at THEN torn[p] ELSE eeprom[p]] : torn \in [at -> Byte]}

\* One turn of the loop of portEEPROMErase. A word that cannot be erased ends
\* the loop, with anything in it.
EraseWord ==
  /\ running = "erase"
  /\ \/ /\ eeprom' = [p \in Address |-> IF p \in WordAt(position) THEN Erased ELSE eeprom[p]]
        /\ IF Start + position + Word < End
             THEN position' = position + Word /\ UNCHANGED <<running, outcome>>
             ELSE Returns("OK")
     \/ /\ eeprom' \in Torn(WordAt(position))
        /\ Returns("Fail")
  /\ UNCHANGED <<pointers, buffer>>

\* Mutated form of programmerEEPROMVerify: the last byte is left out.
programmerEEPROMVerifyMutant(content) ==
  /\ Ready
  /\ buffer' = <<>>
  /\ Returns(IF \A p \in Address \ {End} : content[p - Start + 1] = eeprom[p] THEN "OK" ELSE "Fail")
  /\ UNCHANGED <<eeprom, pointers>>

\* The memory's CRC, read in pieces of 8 bytes, against that of the content
\* the host expects. Contents with equal CRCs are taken to be equal.
programmerEEPROMVerify(content) ==
  /\ Ready
  /\ buffer' = <<>>
  /\ Returns(IF \A p \in Address : content[p - Start + 1] = eeprom[p] THEN "OK" ELSE "Fail")
  /\ UNCHANGED <<eeprom, pointers>>

PowerOn ==
  /\ running = "off"
  /\ Returns("none")
  /\ UNCHANGED <<eeprom, pointers, buffer>>

\* Power is lost; what was being programmed or erased may hold anything.
InProgress ==
  IF running = "write" THEN {ToProgram} \intersect Address
  ELSE IF running = "erase" THEN WordAt(position) ELSE {}

PowerLoss ==
  /\ running # "off"
  /\ eeprom' \in Torn(InProgress)
  /\ EEPROMWritePointerAddress' = 0 /\ EEPROMReadPointerAddress' = 0
  /\ initialized' = FALSE
  /\ running' = "off"
  /\ buffer' = <<>> /\ position' = 0 /\ outcome' = "none"

\* The command that is running goes on.
EepromContinues == ProgramByte \/ BlockWritten \/ EraseWord

EepromCalled ==
  \/ programmerEEPROMInitTransfer \/ programmerEEPROMGetSize
  \/ \E size \in 0 .. SizeMax : programmerEEPROMRead(size)
  \/ \E data \in Blocks : programmerEEPROMWrite(data)
  \/ \E content \in [1 .. portEEPROMGetSize -> Byte] : programmerEEPROMVerify(content)
  \/ programmerEEPROMErase

EepromNext == EepromCalled \/ EepromContinues \/ PowerOn \/ PowerLoss

EepromSpec == EepromInit /\ [][EepromNext]_eepromVars

-----------------------------------------------------------------------------
\* A block the device acknowledges is in the EEPROM, every byte of it, from the
\* write pointer on: whatever failed or was cut off before, and with the
\* pointer cut to 16 bits on the way (port_flash.c:497 to 527).
AckedBytesProgrammed ==
  [][EEPROMWritePointerAddress' > EEPROMWritePointerAddress /\ running = "write" =>
       \A n \in 1 .. Len(buffer) :
          eeprom'[EEPROMWritePointerAddress + n - 1] = buffer[n]]_eepromVars
=============================================================================
