-------------------------- MODULE SerialPortProofs --------------------------
(***************************************************************************)
(* Proofs about Fifo and SerialPort.                                       *)
(***************************************************************************)
EXTENDS SerialPort, SequenceTheorems, TLAPS

-----------------------------------------------------------------------------
(* The ring buffer                                                          *)

Values == Bytes \union {Stale}

\* The index arithmetic of fifo.c never goes round more than once.
LEMMA ModOnce ==
  ASSUME NEW n \in Nat, n < 2 * Size
  PROVE  n % Size = IF n < Size THEN n ELSE n - Size
BY FifoAssumption, SMTT(30)

\* The slots fifo.c calculates are slots of the buffer.
LEMMA SlotsInRange ==
  ASSUME NEW f \in Fifos
  PROVE  /\ \A k \in 1 .. Size : (f.first + k - 1) % Size \in Slots
         /\ f.elements_n < Size => NextFree(f) \in Slots
         /\ AfterFirst(f) \in Slots
         /\ NextFree(f) \in Slots
<1>1. f.first \in Nat /\ f.first < Size /\ f.elements_n \in Nat /\ f.elements_n <= Size
  BY FifoAssumption DEF Fifos, Slots
<1>2. \A n \in Nat : n < 2 * Size => n % Size \in Slots
  BY ModOnce, FifoAssumption DEF Slots
<1>3. \A k \in 1 .. Size : f.first + k - 1 \in Nat /\ f.first + k - 1 < 2 * Size
  BY <1>1, FifoAssumption
<1>4. f.first + f.elements_n \in Nat /\ f.first + f.elements_n < 2 * Size
  BY <1>1, FifoAssumption
<1>5. f.first + 1 \in Nat /\ f.first + 1 < 2 * Size
  BY <1>1, FifoAssumption
<1> QED  BY <1>2, <1>3, <1>4, <1>5 DEF NextFree, AfterFirst

\* The contents of a FIFO are a sequence as long as elements_n says.
LEMMA ContentsType ==
  ASSUME NEW f \in Fifos
  PROVE  /\ Contents(f) \in Seq(Values)
         /\ Len(Contents(f)) = f.elements_n
         /\ \A k \in 1 .. f.elements_n :
              Contents(f)[k] = f.buffer[(f.first + k - 1) % Size]
<1>1. f.elements_n \in Nat /\ f.elements_n <= Size
  BY FifoAssumption DEF Fifos
<1>2. f.buffer \in [Slots -> Values]
  BY DEF Fifos, Values
<1>3. \A k \in 1 .. f.elements_n : f.buffer[(f.first + k - 1) % Size] \in Values
  BY <1>1, <1>2, SlotsInRange, FifoAssumption
<1>4. Contents(f) \in [1 .. f.elements_n -> Values]
  BY <1>3 DEF Contents
<1>5. Contents(f) \in Seq(Values)
  BY <1>1, <1>4, SeqDef
<1>6. DOMAIN Contents(f) = 1 .. f.elements_n
  BY DEF Contents
<1>7. Len(Contents(f)) = f.elements_n
  BY <1>1, <1>5, <1>6, LenProperties
<1> QED  BY <1>5, <1>7 DEF Contents

\* A byte stored in the next free slot of a FIFO is not in it yet.
LEMMA StoreIsInvisible ==
  ASSUME NEW f \in Fifos, f.elements_n < Size, NEW d \in Values,
         NEW g, g = [f EXCEPT !.buffer[NextFree(f)] = d]
  PROVE  /\ g \in Fifos
         /\ g.buffer[NextFree(g)] = d
         /\ Contents(g) = Contents(f)
<1>1. g \in Fifos
  BY SlotsInRange DEF Fifos, Values
<1>2. NextFree(g) = NextFree(f) /\ g.buffer[NextFree(f)] = d
  BY SlotsInRange DEF Fifos, NextFree
<1>3. /\ f.first \in Nat /\ f.first < Size
      /\ f.elements_n \in Nat /\ g.first = f.first /\ g.elements_n = f.elements_n
  BY FifoAssumption DEF Fifos, Slots
<1>4. ASSUME NEW k \in 1 .. f.elements_n
      PROVE  (f.first + k - 1) % Size # NextFree(f)
  <2>1. /\ f.first + k - 1 \in Nat /\ f.first + k - 1 < 2 * Size
        /\ f.first + f.elements_n \in Nat /\ f.first + f.elements_n < 2 * Size
    BY <1>3, FifoAssumption
  <2> DEFINE p == f.first + k - 1
             q == f.first + f.elements_n
  <2>2. p % Size = IF p < Size THEN p ELSE p - Size
    <3> HIDE DEF p
    <3> QED  BY <2>1, ModOnce DEF p
  <2>3. q % Size = IF q < Size THEN q ELSE q - Size
    <3> HIDE DEF q
    <3> QED  BY <2>1, ModOnce DEF q
  <2>4. p % Size # q % Size
    BY <2>2, <2>3, <1>3, FifoAssumption
  <2> QED  BY <2>4 DEF NextFree
<1>5. \A s \in Slots : s # NextFree(f) => g.buffer[s] = f.buffer[s]
  BY DEF Fifos
<1>6. \A k \in 1 .. f.elements_n : (f.first + k - 1) % Size \in Slots
  BY <1>3, SlotsInRange, FifoAssumption
<1>7. \A k \in 1 .. f.elements_n : Contents(g)[k] = Contents(f)[k]
  <2> SUFFICES ASSUME NEW k \in 1 .. f.elements_n
               PROVE  Contents(g)[k] = Contents(f)[k]
    OBVIOUS
  <2>1. Contents(g)[k] = g.buffer[(f.first + k - 1) % Size]
    BY <1>1, <1>3, ContentsType, Zenon
  <2>2. Contents(f)[k] = f.buffer[(f.first + k - 1) % Size]
    BY ContentsType, Zenon
  <2> QED  BY <2>1, <2>2, <1>4, <1>5, <1>6, Zenon
<1>8. /\ Contents(f) \in Seq(Values) /\ Contents(g) \in Seq(Values)
      /\ Len(Contents(f)) = f.elements_n /\ Len(Contents(g)) = f.elements_n
  BY <1>1, <1>3, ContentsType
<1>9. Contents(g) = Contents(f)
  BY <1>7, <1>8, SeqEqual
<1> QED  BY <1>1, <1>2, <1>9

\* Counting one more element appends what the next free slot holds.
LEMMA CountAppends ==
  ASSUME NEW f \in Fifos, f.elements_n < Size,
         NEW g, g = [f EXCEPT !.elements_n = f.elements_n + 1]
  PROVE  /\ g \in Fifos
         /\ Contents(g) = Append(Contents(f), f.buffer[NextFree(f)])
<1> DEFINE d == f.buffer[NextFree(f)]
<1>1. f.elements_n \in Nat /\ g \in Fifos
  BY FifoAssumption DEF Fifos
<1>2. g.first = f.first /\ g.buffer = f.buffer /\ g.elements_n = f.elements_n + 1
  BY DEF Fifos
<1>3. d \in Values
  BY SlotsInRange DEF Fifos, Values
<1>4. /\ Contents(f) \in Seq(Values) /\ Len(Contents(f)) = f.elements_n
      /\ Contents(g) \in Seq(Values) /\ Len(Contents(g)) = f.elements_n + 1
  BY <1>1, <1>2, ContentsType
<1>5. /\ Append(Contents(f), d) \in Seq(Values)
      /\ Len(Append(Contents(f), d)) = f.elements_n + 1
      /\ \A k \in 1 .. f.elements_n : Append(Contents(f), d)[k] = Contents(f)[k]
      /\ Append(Contents(f), d)[f.elements_n + 1] = d
  BY <1>3, <1>4, AppendProperties
<1>6. ASSUME NEW k \in 1 .. f.elements_n + 1
      PROVE  Contents(g)[k] = Append(Contents(f), d)[k]
  <2>1. Contents(g)[k] = f.buffer[(f.first + k - 1) % Size]
    BY <1>1, <1>2, ContentsType
  <2>2. CASE k = f.elements_n + 1
    <3>1. f.first \in Nat /\ f.first + k - 1 = f.first + f.elements_n
      BY <2>2, <1>1 DEF Fifos, Slots
    <3> QED  BY <2>1, <2>2, <3>1, <1>5 DEF NextFree
  <2>3. CASE k # f.elements_n + 1
    <3>1. k \in 1 .. f.elements_n
      BY <2>3, <1>1
    <3> QED  BY <2>1, <3>1, <1>5, ContentsType
  <2> QED  BY <2>2, <2>3
<1>7. Contents(g) = Append(Contents(f), d)
  <2> HIDE DEF d
  <2> QED  BY <1>4, <1>5, <1>6, SeqEqual
<1> QED  BY <1>1, <1>7

\* fifo_push puts the byte at the end, unless the FIFO is full.
LEMMA PushAppends ==
  ASSUME NEW f \in Fifos, NEW d \in Values
  PROVE  /\ fifo_push(f, d) \in Fifos
         /\ fifo_is_full(f) => fifo_push(f, d) = f
         /\ ~fifo_is_full(f) => Contents(fifo_push(f, d)) = Append(Contents(f), d)
<1>1. CASE fifo_is_full(f)
  BY <1>1 DEF fifo_push
<1>2. CASE ~fifo_is_full(f)
  <2> DEFINE g == [f EXCEPT !.buffer[NextFree(f)] = d]
  <2>1. f.elements_n < Size
    BY <1>2, FifoAssumption DEF fifo_is_full, Fifos
  <2>2. g \in Fifos /\ g.buffer[NextFree(g)] = d /\ Contents(g) = Contents(f)
    BY <2>1, StoreIsInvisible
  <2>3. g.elements_n = f.elements_n
    BY DEF Fifos
  <2>4. fifo_push(f, d) = [g EXCEPT !.elements_n = g.elements_n + 1]
    BY <1>2, <2>3 DEF fifo_push, Fifos
  <2>5. /\ fifo_push(f, d) \in Fifos
        /\ Contents(fifo_push(f, d)) = Append(Contents(g), g.buffer[NextFree(g)])
    <3> HIDE DEF g
    <3> QED  BY <2>1, <2>2, <2>3, <2>4, CountAppends
  <2> QED  BY <1>2, <2>2, <2>5
<1> QED  BY <1>1, <1>2

\* Moving on to the next slot and counting one element less takes the byte
\* fifo_front has read from the front.
LEMMA PopTakes ==
  ASSUME NEW f \in Fifos, f.elements_n # 0,
         NEW g, g = [f EXCEPT !.first = AfterFirst(f), !.elements_n = f.elements_n - 1]
  PROVE  /\ g \in Fifos
         /\ Contents(f) # <<>>
         /\ fifo_front(f) = Head(Contents(f))
         /\ Contents(g) = Tail(Contents(f))
<1>1. /\ f.elements_n \in Nat /\ f.elements_n > 0 /\ f.elements_n <= Size
      /\ f.first \in Nat /\ f.first < Size
  BY FifoAssumption DEF Fifos, Slots
<1>2. g \in Fifos
  <2>1. AfterFirst(f) \in Slots
    BY SlotsInRange
  <2>2. f.elements_n - 1 \in 0 .. Size
    BY <1>1, FifoAssumption
  <2> QED  BY <2>1, <2>2 DEF Fifos
<1>3. /\ g.first = AfterFirst(f) /\ g.buffer = f.buffer
      /\ g.elements_n = f.elements_n - 1
  BY DEF Fifos
<1>4. /\ Contents(f) \in Seq(Values) /\ Len(Contents(f)) = f.elements_n
      /\ Contents(g) \in Seq(Values) /\ Len(Contents(g)) = f.elements_n - 1
  BY <1>2, <1>3, ContentsType
<1>5. Contents(f) # <<>>
  BY <1>1, <1>4, EmptySeq
<1>6. /\ Tail(Contents(f)) \in Seq(Values)
      /\ Len(Tail(Contents(f))) = f.elements_n - 1
      /\ \A k \in 1 .. f.elements_n - 1 : Tail(Contents(f))[k] = Contents(f)[k + 1]
  BY <1>1, <1>4, <1>5, HeadTailProperties
<1>7. fifo_front(f) = Head(Contents(f))
  <2>1. Contents(f)[1] = f.buffer[(f.first + 1 - 1) % Size]
    BY <1>1, ContentsType
  <2>2. (f.first + 1 - 1) % Size = f.first
    BY <1>1, ModOnce, FifoAssumption
  <2> QED  BY <2>1, <2>2, <1>5 DEF fifo_front
<1>8. ASSUME NEW k \in 1 .. f.elements_n - 1
      PROVE  Contents(g)[k] = Tail(Contents(f))[k]
  <2>1. Contents(g)[k] = f.buffer[(AfterFirst(f) + k - 1) % Size]
    BY <1>2, <1>3, ContentsType
  <2>2. Tail(Contents(f))[k] = f.buffer[(f.first + (k + 1) - 1) % Size]
    <3>1. k + 1 \in 1 .. f.elements_n
      BY <1>1
    <3> QED  BY <3>1, <1>6, ContentsType
  <2>3. (AfterFirst(f) + k - 1) % Size = (f.first + (k + 1) - 1) % Size
    <3>1. f.first + k \in Nat /\ f.first + k < 2 * Size /\ f.first + (k + 1) - 1 = f.first + k
      BY <1>1, FifoAssumption
    <3>2. AfterFirst(f) = IF f.first + 1 < Size THEN f.first + 1 ELSE 0
      BY <1>1, ModOnce, FifoAssumption DEF AfterFirst
    <3>3. CASE f.first + 1 < Size
      BY <3>2, <3>3, <1>1
    <3>4. CASE ~(f.first + 1 < Size)
      <4>1. AfterFirst(f) + k - 1 = k - 1 /\ f.first + k = Size + (k - 1)
        BY <3>2, <3>4, <1>1, FifoAssumption
      <4>2. k - 1 \in Nat /\ k - 1 < Size
        BY <1>1, FifoAssumption
      <4>3. (k - 1) % Size = k - 1
        BY <4>2, ModOnce, FifoAssumption
      <4>4. (f.first + k) % Size = k - 1
        BY <3>1, <4>1, <4>2, ModOnce, FifoAssumption
      <4> QED  BY <3>1, <4>1, <4>3, <4>4
    <3> QED  BY <3>3, <3>4
  <2> QED  BY <2>1, <2>2, <2>3
<1>9. Contents(g) = Tail(Contents(f))
  BY <1>4, <1>6, <1>8, SeqEqual
<1> QED  BY <1>2, <1>5, <1>7, <1>9

-----------------------------------------------------------------------------
(* The inductive invariant of the serial port                               *)

\* What the main loop knows at each step of a call: interrupts are disabled
\* exactly in the critical sections, and so what it has loaded and stored
\* there is still so; a byte it has tested for outside them is still there.
CallPart ==
  /\ irq = InterruptsIn(pc)
  /\ pc \in {"put_enter", "put_store", "put_count"} => c \in Bytes
  /\ pc = "put_count" => /\ count = fifo_tx.elements_n
                         /\ fifo_tx.elements_n < Size
                         /\ fifo_tx.buffer[NextFree(fifo_tx)] = c
  /\ pc = "get_count" => count = fifo_rx.elements_n /\ count # 0
  /\ pc \in {"get_enter", "get_take"} => ~fifo_is_empty(fifo_rx)

SInv == SerialTypeOK /\ CallPart

\* The steps of the interrupt handler, one direction at a time.
TxPart ==
  \/ /\ txeie' \in BOOLEAN
     /\ ~fifo_is_empty(fifo_tx)
     /\ fifo_tx' = fifo_pop(fifo_tx)
     /\ DR' = fifo_front(fifo_tx) /\ sent' = fifo_front(fifo_tx)
  \/ txeie' \in BOOLEAN /\ UNCHANGED <<fifo_tx, DR, sent>>

RxPart ==
  \/ RDR # Stale /\ fifo_rx' = fifo_push(fifo_rx, RDR) /\ RDR' = Stale
  \/ UNCHANGED <<fifo_rx, RDR>>

\* Where fifo_pop leads.
LEMMA PopType ==
  ASSUME NEW f \in Fifos
  PROVE  /\ fifo_pop(f) \in Fifos
         /\ fifo_front(f) \in Values
         /\ f.elements_n # 0 =>
              /\ Contents(f) # <<>>
              /\ fifo_front(f) = Head(Contents(f))
              /\ Contents(fifo_pop(f)) = Tail(Contents(f))
<1>1. fifo_front(f) \in Values
  BY DEF fifo_front, Fifos, Values
<1>2. CASE f.elements_n = 0
  BY <1>1, <1>2 DEF fifo_pop, fifo_is_empty
<1>3. CASE f.elements_n # 0
  <2>1. fifo_pop(f) = [f EXCEPT !.first = AfterFirst(f), !.elements_n = f.elements_n - 1]
    BY <1>3 DEF fifo_pop, fifo_is_empty
  <2> QED  BY <1>1, <1>3, <2>1, PopTakes
<1> QED  BY <1>2, <1>3

\* The handler's step falls into its two parts.
LEMMA HandlerParts ==
  ASSUME SInv, USART_IRQHandler
  PROVE  /\ TxPart /\ RxPart
         /\ irq /\ UNCHANGED <<irq, pc, local, got>>
<1>1. TxPart
  <2>1. CASE TxInterrupt
    <3>1. txeie' = TxInterruptIn(fifo_tx) \/ txeie' = txeie
      BY DEF USART_IRQHandler
    <3>2. txeie' \in BOOLEAN
      BY <3>1 DEF SInv, SerialTypeOK, TxInterruptIn, fifo_is_empty
    <3>3. CASE fifo_is_empty(fifo_tx)
      BY <2>1, <3>2, <3>3 DEF USART_IRQHandler, TxPart, fifo_pop
    <3>4. CASE ~fifo_is_empty(fifo_tx)
      BY <2>1, <3>2, <3>4 DEF USART_IRQHandler, TxPart
    <3> QED  BY <3>3, <3>4
  <2>2. CASE ~TxInterrupt
    BY <2>2 DEF USART_IRQHandler, TxPart, SInv, SerialTypeOK
  <2> QED  BY <2>1, <2>2
<1>2. RxPart
  BY DEF USART_IRQHandler, RxPart, RxInterrupt
<1>3. irq /\ UNCHANGED <<irq, pc, local, got>>
  BY DEF USART_IRQHandler
<1> QED  BY <1>1, <1>2, <1>3

\* The handler keeps the types.
LEMMA HandlerTypes ==
  ASSUME SInv, TxPart, RxPart
  PROVE  /\ fifo_tx' \in Fifos /\ fifo_rx' \in Fifos
         /\ txeie' \in BOOLEAN
         /\ {DR', sent', RDR'} \subseteq Values
         /\ ~fifo_is_empty(fifo_rx) => ~fifo_is_empty(fifo_rx')
<1>1. fifo_tx' \in Fifos /\ txeie' \in BOOLEAN /\ {DR', sent'} \subseteq Values
  BY PopType DEF SInv, SerialTypeOK, TxPart, Values
<1>2. fifo_rx' \in Fifos /\ RDR' \in Values
  BY PushAppends DEF SInv, SerialTypeOK, RxPart, Values
<1>3. ~fifo_is_empty(fifo_rx) => ~fifo_is_empty(fifo_rx')
  <2>1. fifo_rx \in Fifos /\ fifo_rx.elements_n \in Nat
    BY FifoAssumption DEF SInv, SerialTypeOK, Fifos
  <2>2. CASE fifo_rx' = fifo_push(fifo_rx, RDR)
    <3>1. CASE fifo_is_full(fifo_rx)
      BY <2>2, <3>1 DEF fifo_push
    <3>2. CASE ~fifo_is_full(fifo_rx)
      <4>1. fifo_rx'.elements_n = fifo_rx.elements_n + 1
        BY <2>1, <2>2, <3>2 DEF fifo_push, Fifos
      <4> QED  BY <2>1, <4>1 DEF fifo_is_empty
    <3> QED  BY <3>1, <3>2
  <2>3. CASE fifo_rx' = fifo_rx
    BY <2>3
  <2> QED  BY <2>2, <2>3 DEF RxPart
<1> QED  BY <1>1, <1>2, <1>3

LEMMA InitSInv == SerialInit => SInv
<1> SUFFICES ASSUME SerialInit PROVE SInv
  OBVIOUS
<1>1. fifo_init \in Fifos /\ 0 \in 0 .. Size
  BY FifoAssumption DEF fifo_init, Fifos, Slots
<1> QED  BY <1>1 DEF SerialInit, SInv, SerialTypeOK, CallPart, InterruptsIn, Steps

LEMMA NextSInv == SInv /\ [SerialNext]_svars => SInv'
<1> SUFFICES ASSUME SInv, [SerialNext]_svars PROVE SInv'
  OBVIOUS
<1> USE DEF SInv, SerialTypeOK, CallPart, line, local, Steps, GoTo, InterruptsIn
<1>1. ASSUME NEW byte \in Bytes, PutCharTest(byte) PROVE SInv'
  BY <1>1 DEF PutCharTest, fifo_is_empty
<1>2. CASE GetCharTest
  BY <1>2 DEF GetCharTest
<1>3. CASE EnterCritical
  BY <1>3 DEF EnterCritical
<1>4. CASE ExitCritical
  BY <1>4 DEF ExitCritical
<1>5. CASE PutCharStore
  <2>1. CASE fifo_is_full(fifo_tx)
    BY <1>5, <2>1 DEF PutCharStore
  <2>2. CASE ~fifo_is_full(fifo_tx)
    <3>1. fifo_tx.elements_n < Size /\ fifo_tx.elements_n \in 0 .. Size
      BY <2>2, FifoAssumption DEF fifo_is_full, Fifos
    <3>2. c \in Values
      BY DEF Values
    <3>3. fifo_tx' \in Fifos /\ fifo_tx'.buffer[NextFree(fifo_tx')] = c
      BY <1>5, <2>2, <3>1, <3>2, StoreIsInvisible DEF PutCharStore
    <3>4. fifo_tx'.elements_n = fifo_tx.elements_n
      BY <1>5, <2>2 DEF PutCharStore, Fifos
    <3> QED  BY <1>5, <2>2, <3>1, <3>3, <3>4 DEF PutCharStore
  <2> QED  BY <2>1, <2>2
<1>6. CASE PutCharCount
  <2>1. fifo_tx' \in Fifos
    BY <1>6, CountAppends DEF PutCharCount
  <2> QED  BY <1>6, <2>1 DEF PutCharCount
<1>7. CASE PutCharEnable
  BY <1>7 DEF PutCharEnable
<1>8. CASE GetCharTake
  <2>1. ~fifo_is_empty(fifo_rx)
    BY <1>8 DEF GetCharTake
  <2>2. fifo_front(fifo_rx) \in Values
    BY PopType
  <2>3. /\ fifo_rx' \in Fifos /\ fifo_rx'.elements_n = fifo_rx.elements_n
        /\ fifo_rx.elements_n \in 0 .. Size
    BY <1>8, <2>1, SlotsInRange DEF GetCharTake, Fifos
  <2> QED  BY <1>8, <2>1, <2>2, <2>3 DEF GetCharTake, fifo_is_empty, Values
<1>9. CASE GetCharCount
  <2>1. count - 1 \in 0 .. Size
    BY <1>9, FifoAssumption DEF GetCharCount
  <2>2. fifo_rx' \in Fifos
    BY <1>9, <2>1 DEF GetCharCount, Fifos
  <2> QED  BY <1>9, <2>2 DEF GetCharCount
<1>10. CASE USART_IRQHandler
  <2>1. TxPart /\ RxPart /\ irq /\ UNCHANGED <<irq, pc, local, got>>
    BY <1>10, HandlerParts
  <2>2. pc \notin {"put_store", "put_count", "put_exit", "get_take", "get_count", "get_exit"}
    BY <2>1
  <2> QED  BY <2>1, <2>2, HandlerTypes DEF Values
<1>11. CASE ShiftOut
  BY <1>11 DEF ShiftOut
<1>12. CASE ShiftIn
  BY <1>12 DEF ShiftIn
<1>13. CASE UNCHANGED svars
  BY <1>13 DEF svars
<1> QED
  BY <1>1, <1>2, <1>3, <1>4, <1>5, <1>6, <1>7, <1>8, <1>9, <1>10, <1>11, <1>12, <1>13
     DEF SerialNext, ContinueCall

\* The serial port keeps the types and what its calls rely on.
THEOREM SerialInvariant == SerialSpec => []SInv
<1> QED  BY InitSInv, NextSInv, PTL DEF SerialSpec

\* The byte portSerialGetChar tested for is there when it pops it, whatever the
\* interrupt handler does in between.
THEOREM TestedByteAlwaysThere == SerialSpec => []TestedByteIsThere
<1>1. SInv => TestedByteIsThere
  BY DEF SInv, CallPart, TestedByteIsThere
<1> QED  BY <1>1, SerialInvariant, PTL

\* Every variable of the serial port keeps its type, for every length of the
\* FIFOs: indices stay within the buffer and elements_n within its size.
THEOREM SerialTypeCorrect == SerialSpec => []SerialTypeOK
<1>1. SInv => SerialTypeOK
  BY DEF SInv
<1> QED  BY <1>1, SerialInvariant, PTL

-----------------------------------------------------------------------------
(* Both directions implement a bounded queue                                *)

LEMMA EmptyContents == Contents(fifo_init) = <<>>
<1>1. fifo_init \in Fifos /\ fifo_init.elements_n = 0
  BY FifoAssumption DEF fifo_init, Fifos, Slots
<1>2. Contents(fifo_init) \in Seq(Values) /\ Len(Contents(fifo_init)) = 0
  BY <1>1, ContentsType
<1> QED  BY <1>2, EmptySeq

LEMMA TxInitMaps == SerialInit => Tx!Init
BY EmptyContents, FifoAssumption DEF SerialInit, Tx!Init

LEMMA TxStepMaps ==
  ASSUME SInv, [SerialNext]_svars
  PROVE  [Tx!Next]_<<Contents(fifo_tx), sent>>
<1> USE DEF line, local
<1>1. CASE UNCHANGED <<fifo_tx, sent>>
  BY <1>1
<1>2. CASE PutCharStore
  <2>1. CASE fifo_is_full(fifo_tx)
    BY <1>2, <2>1 DEF PutCharStore
  <2>2. CASE ~fifo_is_full(fifo_tx)
    <3>1. fifo_tx \in Fifos /\ fifo_tx.elements_n < Size /\ c \in Values
      BY <2>2, FifoAssumption DEF SInv, SerialTypeOK, fifo_is_full, Fifos, Values
    <3>2. Contents(fifo_tx') = Contents(fifo_tx)
      BY <1>2, <2>2, <3>1, StoreIsInvisible DEF PutCharStore
    <3> QED  BY <1>2, <3>2 DEF PutCharStore
  <2> QED  BY <2>1, <2>2
<1>3. CASE PutCharCount
  <2>1. /\ fifo_tx \in Fifos /\ fifo_tx.elements_n < Size /\ c \in Bytes
        /\ fifo_tx' = [fifo_tx EXCEPT !.elements_n = fifo_tx.elements_n + 1]
        /\ fifo_tx.buffer[NextFree(fifo_tx)] = c
        /\ sent' = sent
    BY <1>3 DEF PutCharCount, SInv, SerialTypeOK, CallPart
  <2>2. Contents(fifo_tx') = Append(Contents(fifo_tx), c)
    BY <2>1, CountAppends
  <2>3. Len(Contents(fifo_tx)) < Size
    BY <2>1, ContentsType
  <2>4. Tx!Put(c)
    BY <2>1, <2>2, <2>3 DEF Tx!Put
  <2> QED  BY <2>1, <2>4 DEF Tx!Next
<1>4. CASE USART_IRQHandler
  <2>1. TxPart
    BY <1>4, HandlerParts
  <2>2. CASE UNCHANGED <<fifo_tx, DR, sent>>
    BY <2>2
  <2>3. CASE ~UNCHANGED <<fifo_tx, DR, sent>>
    <3>1. /\ fifo_tx \in Fifos /\ fifo_tx.elements_n # 0
          /\ fifo_tx' = fifo_pop(fifo_tx) /\ sent' = fifo_front(fifo_tx)
      BY <2>1, <2>3 DEF TxPart, SInv, SerialTypeOK, fifo_is_empty
    <3>2. Tx!Take
      BY <3>1, PopType DEF Tx!Take
    <3> QED  BY <3>2 DEF Tx!Next
  <2> QED  BY <2>2, <2>3
<1>5. ASSUME NEW byte \in Bytes, PutCharTest(byte) PROVE UNCHANGED <<fifo_tx, sent>>
  BY <1>5 DEF PutCharTest
<1>6. \/ GetCharTest \/ EnterCritical \/ ExitCritical \/ PutCharEnable
      \/ GetCharTake \/ GetCharCount \/ ShiftOut \/ ShiftIn \/ UNCHANGED svars
      => UNCHANGED <<fifo_tx, sent>>
  BY DEF GetCharTest, EnterCritical, ExitCritical, PutCharEnable, GetCharTake,
         GetCharCount, ShiftOut, ShiftIn, svars
<1> QED
  BY <1>1, <1>2, <1>3, <1>4, <1>5, <1>6 DEF SerialNext, ContinueCall

\* Bytes are sent in the order they were put, each once, for every length of
\* the FIFO.
THEOREM TxImplementsQueue == SerialSpec => TxIsQueue
<1> QED
  BY TxInitMaps, TxStepMaps, SerialInvariant, PTL DEF SerialSpec, TxIsQueue, Tx!Spec

LEMMA RxInitMaps == SerialInit => Rx!Init
BY EmptyContents, FifoAssumption DEF SerialInit, RxFifo, Rx!Init

\* What a step of the handler makes of the receive FIFO.
LEMMA RxHandlerStep ==
  ASSUME SInv, USART_IRQHandler
  PROVE  /\ RxFifo = fifo_rx /\ RxFifo' = fifo_rx'
         /\ got' = got
         /\ \/ UNCHANGED <<fifo_rx, RDR>>
            \/ /\ RDR \in Bytes
               /\ \/ fifo_is_full(fifo_rx) /\ fifo_rx' = fifo_rx
                  \/ /\ Len(Contents(fifo_rx)) < Size
                     /\ Contents(fifo_rx') = Append(Contents(fifo_rx), RDR)
<1>1. RxPart /\ irq /\ UNCHANGED <<irq, pc, local, got>>
  BY HandlerParts
<1>2. pc # "get_count" /\ pc' = pc /\ got' = got
  BY <1>1 DEF SInv, CallPart, InterruptsIn
<1>3. RxFifo = fifo_rx /\ RxFifo' = fifo_rx'
  BY <1>2 DEF RxFifo
<1>4. CASE UNCHANGED <<fifo_rx, RDR>>
  BY <1>2, <1>3, <1>4
<1>5. CASE RDR # Stale /\ fifo_rx' = fifo_push(fifo_rx, RDR)
  <2>1. fifo_rx \in Fifos /\ RDR \in Bytes /\ RDR \in Values
    BY <1>5 DEF SInv, SerialTypeOK, Values
  <2>2. CASE fifo_is_full(fifo_rx)
    BY <1>2, <1>3, <1>5, <2>1, <2>2, PushAppends
  <2>3. CASE ~fifo_is_full(fifo_rx)
    <3>1. fifo_rx.elements_n < Size
      BY <2>1, <2>3, FifoAssumption DEF fifo_is_full, Fifos
    <3>2. Len(Contents(fifo_rx)) < Size
      BY <2>1, <3>1, ContentsType
    <3> QED  BY <1>2, <1>3, <1>5, <2>1, <2>3, <3>2, PushAppends
  <2> QED  BY <2>2, <2>3
<1> QED  BY <1>1, <1>4, <1>5 DEF RxPart

LEMMA RxStepMaps ==
  ASSUME SInv, [SerialNext]_svars
  PROVE  [Rx!Next]_<<Contents(RxFifo), got>>
<1> USE DEF line, local, GoTo
<1>1. CASE UNCHANGED <<RxFifo, got>>
  BY <1>1
<1>2. CASE GetCharTake
  <2>1. /\ pc = "get_take" /\ pc' = "get_count"
        /\ fifo_rx \in Fifos /\ fifo_rx.elements_n # 0
        /\ got' = fifo_front(fifo_rx)
        /\ fifo_rx' = [fifo_rx EXCEPT !.first = AfterFirst(fifo_rx)]
        /\ count' = fifo_rx.elements_n
    BY <1>2 DEF GetCharTake, SInv, SerialTypeOK, CallPart, fifo_is_empty
  <2>2. RxFifo = fifo_rx /\ RxFifo' = [fifo_rx' EXCEPT !.elements_n = count' - 1]
    BY <2>1 DEF RxFifo
  <2>3. RxFifo' = [fifo_rx EXCEPT !.first = AfterFirst(fifo_rx),
                                  !.elements_n = fifo_rx.elements_n - 1]
    BY <2>1, <2>2 DEF Fifos
  <2>4. /\ Contents(RxFifo) # <<>>
        /\ got' = Head(Contents(RxFifo))
        /\ Contents(RxFifo') = Tail(Contents(RxFifo))
    BY <2>1, <2>2, <2>3, PopTakes
  <2>5. Rx!Take
    BY <2>4 DEF Rx!Take
  <2> QED  BY <2>5 DEF Rx!Next
<1>3. CASE GetCharCount
  <2>1. RxFifo = [fifo_rx EXCEPT !.elements_n = count - 1] /\ RxFifo' = fifo_rx'
    BY <1>3 DEF GetCharCount, RxFifo
  <2> QED  BY <1>3, <2>1 DEF GetCharCount
<1>4. CASE USART_IRQHandler
  <2>1. CASE UNCHANGED fifo_rx
    BY <1>4, <2>1, RxHandlerStep
  <2>2. CASE ~UNCHANGED fifo_rx
    <3>1. Rx!Put(RDR) /\ RDR \in Bytes
      BY <1>4, <2>2, RxHandlerStep DEF Rx!Put
    <3> QED  BY <3>1 DEF Rx!Next
  <2> QED  BY <2>1, <2>2
<1>5. ASSUME NEW byte \in Bytes, PutCharTest(byte) PROVE UNCHANGED <<RxFifo, got>>
  BY <1>5 DEF PutCharTest, RxFifo
<1>6. \/ GetCharTest \/ EnterCritical \/ ExitCritical
      \/ PutCharStore \/ PutCharCount \/ PutCharEnable
      => UNCHANGED <<RxFifo, got>>
  BY DEF GetCharTest, EnterCritical, ExitCritical, PutCharStore, PutCharCount,
         PutCharEnable, RxFifo
<1>7. ShiftOut \/ ShiftIn \/ UNCHANGED svars => UNCHANGED <<RxFifo, got>>
  BY DEF ShiftOut, ShiftIn, svars, RxFifo
<1> QED
  BY <1>1, <1>2, <1>3, <1>4, <1>5, <1>6, <1>7 DEF SerialNext, ContinueCall

\* Bytes are got in the order they were received, each once, for every length
\* of the FIFO.
THEOREM RxImplementsQueue == SerialSpec => RxIsQueue
<1> QED
  BY RxInitMaps, RxStepMaps, SerialInvariant, PTL DEF SerialSpec, RxIsQueue, Rx!Spec

\* A received byte is lost only if the FIFO is full.
THEOREM ReceivedAlwaysKept == SerialSpec => ReceivedIsKept
<1>1. ASSUME SInv, [SerialNext]_svars, RDR # Stale, RDR' = Stale
      PROVE  \/ fifo_is_full(fifo_rx)
             \/ Contents(RxFifo') = Append(Contents(RxFifo), RDR)
  <2>1. USART_IRQHandler
    BY <1>1 DEF SerialNext, ContinueCall, GetCharTest, EnterCritical, ExitCritical,
         PutCharTest, PutCharStore, PutCharCount, PutCharEnable, GetCharTake,
         GetCharCount, ShiftOut, ShiftIn, svars, line
  <2> QED  BY <1>1, <2>1, RxHandlerStep
<1>2. SInv /\ [SerialNext]_svars
        => (RDR # Stale /\ RDR' = Stale =>
              \/ fifo_is_full(fifo_rx)
              \/ Contents(RxFifo') = Append(Contents(RxFifo), RDR))
  BY <1>1
<1> QED  BY <1>2, SerialInvariant, PTL DEF SerialSpec, ReceivedIsKept
=============================================================================
