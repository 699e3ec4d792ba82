----------------------------- MODULE SerialPort -----------------------------
(***************************************************************************)
(* The serial port of the MCU, port_serial.c: a FIFO for each direction,   *)
(* between the main loop and the interrupt of the USART. The handler runs  *)
(* as one step; the main loop may be interrupted between any two of its    *)
(* steps unless it has disabled the interrupts. In the main loop the       *)
(* increment or decrement of elements_n is a load and a store.             *)
(***************************************************************************)
EXTENDS Fifo

VARIABLES
  fifo_tx, fifo_rx,
  txeie,     \* USART_IT_TXE is enabled
  DR,        \* the transmit data register, Stale when it is empty (TXE)
  sent,      \* the byte written to DR last
  RDR,       \* the receive data register, Stale when it is empty (no RXNE)
  irq,       \* interrupts are enabled
  pc,        \* the step of portSerialPutChar or portSerialGetChar
  wasEmpty,  \* the variable of portSerialPutChar
  c,         \* the byte put or got
  count,     \* elements_n as loaded by the main loop
  got        \* the byte portSerialGetChar took last

line  == <<DR, sent, RDR>>
local == <<wasEmpty, c, count>>
svars == <<fifo_tx, fifo_rx, txeie, line, irq, pc, local, got>>

Steps == {"idle", "put_enter", "put_store", "put_count", "put_exit",
          "put_enable", "get_enter", "get_take", "get_count", "get_exit"}

SerialTypeOK ==
  /\ fifo_tx \in Fifos /\ fifo_rx \in Fifos
  /\ txeie \in BOOLEAN /\ irq \in BOOLEAN /\ wasEmpty \in BOOLEAN
  /\ {DR, sent, RDR, c, got} \subseteq Bytes \union {Stale}
  /\ pc \in Steps
  /\ count \in 0 .. Size

SerialInit ==
  /\ fifo_tx = fifo_init /\ fifo_rx = fifo_init
  /\ txeie = FALSE
  /\ DR = Stale /\ sent = Stale /\ RDR = Stale
  /\ irq = TRUE
  /\ pc = "idle"
  /\ wasEmpty = FALSE /\ c = Stale /\ count = 0 /\ got = Stale

-----------------------------------------------------------------------------
\* Mutated form of InterruptsIn: interrupts stay enabled.
InterruptsInMutant(step) == TRUE

\* Between port_EnterCritical and port_ExitCritical interrupts are disabled.
InterruptsIn(step) ==
  step \notin {"put_store", "put_count", "put_exit",
               "get_take", "get_count", "get_exit"}

GoTo(step) == pc' = step /\ irq' = InterruptsIn(step)

PutCharTest(byte) ==
  /\ pc = "idle"
  /\ wasEmpty' = fifo_is_empty(fifo_tx)
  /\ c' = byte
  /\ GoTo("put_enter")
  /\ UNCHANGED <<fifo_tx, fifo_rx, txeie, line, count, got>>

EnterCritical ==
  /\ \/ pc = "put_enter" /\ GoTo("put_store")
     \/ pc = "get_enter" /\ GoTo("get_take")
  /\ UNCHANGED <<fifo_tx, fifo_rx, txeie, line, local, got>>

\* fifo_push stores the byte and loads the number of elements; the byte is
\* dropped if the FIFO is full.
PutCharStore ==
  /\ pc = "put_store"
  /\ IF fifo_is_full(fifo_tx)
       THEN /\ GoTo("put_exit")
            /\ UNCHANGED <<fifo_tx, count>>
       ELSE /\ fifo_tx' = [fifo_tx EXCEPT !.buffer[NextFree(fifo_tx)] = c]
            /\ count' = fifo_tx.elements_n
            /\ GoTo("put_count")
  /\ UNCHANGED <<fifo_rx, txeie, line, wasEmpty, c, got>>

PutCharCount ==
  /\ pc = "put_count"
  /\ fifo_tx' = [fifo_tx EXCEPT !.elements_n = count + 1]
  /\ GoTo("put_exit")
  /\ UNCHANGED <<fifo_rx, txeie, line, local, got>>

ExitCritical ==
  /\ \/ pc = "put_exit" /\ GoTo(IF wasEmpty THEN "put_enable" ELSE "idle")
     \/ pc = "get_exit" /\ GoTo("idle")
  /\ UNCHANGED <<fifo_tx, fifo_rx, txeie, line, local, got>>

PutCharEnable ==
  /\ pc = "put_enable"
  /\ txeie' = TRUE
  /\ GoTo("idle")
  /\ UNCHANGED <<fifo_tx, fifo_rx, line, local, got>>

\* Mutated form of GetCharTest: the other FIFO is tested.
GetCharTestMutant ==
  /\ pc = "idle"
  /\ ~fifo_is_empty(fifo_tx)
  /\ GoTo("get_enter")
  /\ UNCHANGED <<fifo_tx, fifo_rx, txeie, line, local, got>>

\* portSerialGetChar, where it does not return false.
GetCharTest ==
  /\ pc = "idle"
  /\ ~fifo_is_empty(fifo_rx)
  /\ GoTo("get_enter")
  /\ UNCHANGED <<fifo_tx, fifo_rx, txeie, line, local, got>>

\* fifo_pop reads the byte, moves on and loads the number of elements.
GetCharTake ==
  /\ pc = "get_take"
  /\ IF fifo_is_empty(fifo_rx)
       THEN /\ GoTo("get_exit")
            /\ UNCHANGED <<fifo_rx, count, got>>
       ELSE /\ got' = fifo_front(fifo_rx)
            /\ fifo_rx' = [fifo_rx EXCEPT !.first = AfterFirst(fifo_rx)]
            /\ count' = fifo_rx.elements_n
            /\ GoTo("get_count")
  /\ UNCHANGED <<fifo_tx, txeie, line, wasEmpty, c>>

GetCharCount ==
  /\ pc = "get_count"
  /\ fifo_rx' = [fifo_rx EXCEPT !.elements_n = count - 1]
  /\ GoTo("get_exit")
  /\ UNCHANGED <<fifo_tx, txeie, line, local, got>>

-----------------------------------------------------------------------------
\* Mutated form of TxInterruptIn: it stays enabled with nothing to send.
TxInterruptInMutant(f) == TRUE

\* USART_IT_TXE is disabled when the handler finds nothing to send.
TxInterruptIn(f) == ~fifo_is_empty(f)

TxInterrupt == txeie /\ DR = Stale
RxInterrupt == RDR # Stale

\* USARTx_IRQHandler: the transmitter's part and then the receiver's.
USART_IRQHandler ==
  /\ irq
  /\ TxInterrupt \/ RxInterrupt
  /\ \/ /\ TxInterrupt
        /\ txeie' = TxInterruptIn(fifo_tx)
        /\ fifo_tx' = fifo_pop(fifo_tx)
        /\ IF fifo_is_empty(fifo_tx)
             THEN UNCHANGED <<DR, sent>>
             ELSE DR' = fifo_front(fifo_tx) /\ sent' = fifo_front(fifo_tx)
     \/ ~TxInterrupt /\ UNCHANGED <<fifo_tx, txeie, DR, sent>>
  /\ \/ RxInterrupt /\ fifo_rx' = fifo_push(fifo_rx, RDR) /\ RDR' = Stale
     \/ ~RxInterrupt /\ UNCHANGED <<fifo_rx, RDR>>
  /\ UNCHANGED <<irq, pc, local, got>>

\* The byte in DR moves on to the shift register and the line.
ShiftOut ==
  /\ DR # Stale
  /\ DR' = Stale
  /\ UNCHANGED <<fifo_tx, fifo_rx, txeie, sent, RDR, irq, pc, local, got>>

\* A byte arrives from the line. (One that finds RDR full is lost there.)
ShiftIn ==
  /\ RDR = Stale
  /\ RDR' \in Bytes
  /\ UNCHANGED <<fifo_tx, fifo_rx, txeie, DR, sent, irq, pc, local, got>>

\* A call of the main loop that has begun goes on.
ContinueCall ==
  \/ EnterCritical \/ ExitCritical
  \/ PutCharStore \/ PutCharCount \/ PutCharEnable
  \/ GetCharTake \/ GetCharCount

SerialNext ==
  \/ \E byte \in Bytes : PutCharTest(byte)
  \/ GetCharTest
  \/ ContinueCall
  \/ USART_IRQHandler
  \/ ShiftOut
  \/ ShiftIn

SerialSpec == SerialInit /\ [][SerialNext]_svars

\* The main loop never waits, the transmitter shifts by itself, and an
\* interrupt that stays pending is served.
FairSerialSpec ==
  /\ SerialSpec
  /\ WF_svars(ContinueCall)
  /\ WF_svars(USART_IRQHandler)
  /\ WF_svars(ShiftOut)

-----------------------------------------------------------------------------
\* The receive FIFO as the interrupt handler must see it: portSerialGetChar
\* has taken the byte as soon as it has moved on.
RxFifo ==
  IF pc = "get_count" THEN [fifo_rx EXCEPT !.elements_n = count - 1] ELSE fifo_rx

Tx == INSTANCE BoundedQueue WITH queue <- Contents(fifo_tx), out <- sent
Rx == INSTANCE BoundedQueue WITH queue <- Contents(RxFifo), out <- got

\* Bytes are sent in the order they were put, each once, wherever the handler
\* interrupts portSerialPutChar.
TxIsQueue == Tx!Spec

\* Bytes are got in the order they were received, each once, wherever the
\* handler interrupts portSerialGetChar.
RxIsQueue == Rx!Spec

\* No byte the handler receives is lost while there is room: neither its own
\* push nor an interrupted portSerialGetChar drops or overwrites one.
ReceivedIsKept ==
  [][RDR # Stale /\ RDR' = Stale =>
       \/ fifo_is_full(fifo_rx)
       \/ Contents(RxFifo') = Append(Contents(RxFifo), RDR)]_svars

\* portSerialGetChar tests for a byte before it disables the interrupts, and
\* does not look at what fifo_pop answers: the byte is still there then. (If
\* it were not, rpc_receive would push an uninitialized byte to the codec.)
TestedByteIsThere ==
  pc \in {"get_enter", "get_take"} => ~fifo_is_empty(fifo_rx)

\* While bytes wait and the main loop is elsewhere the transmitter's interrupt
\* is enabled, so that what was printed comes out. It is not always: where the
\* handler sends the last byte and finds the FIFO empty between the test of
\* portSerialPutChar and its push, nobody enables the interrupt again.
TransmitterRuns == pc = "idle" /\ ~fifo_is_empty(fifo_tx) => txeie

\* When the main loop has stopped printing the transmitter's interrupt falls
\* silent: it would otherwise be pending for ever and starve the main loop.
InterruptQuiets ==
  <>[](pc \notin {"put_enter", "put_store", "put_count", "put_exit", "put_enable"})
    => <>[]~txeie
=============================================================================
