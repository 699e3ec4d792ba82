-------------------------------- MODULE Fifo --------------------------------
(***************************************************************************)
(* The ring buffer of fifo.c, as operators on the structure fifo_t.        *)
(***************************************************************************)
EXTENDS Integers, Sequences

CONSTANTS
  Size,    \* size, the length of the buffer
  Bytes,   \* values of a byte
  Stale    \* what a byte of the buffer holds that was never written

ASSUME FifoAssumption == Size \in Nat \ {0} /\ Stale \notin Bytes

Slots == 0 .. Size - 1

Fifos == [buffer : [Slots -> Bytes \union {Stale}],
          first : Slots, elements_n : 0 .. Size]

fifo_init == [buffer |-> [s \in Slots |-> Stale], first |-> 0, elements_n |-> 0]

\* Mutated form of fifo_is_full: one byte too many fits in.
fifo_is_fullMutant(f) == f.elements_n > Size

fifo_is_empty(f) == f.elements_n = 0
fifo_is_full(f)  == f.elements_n = Size

\* Mutated form of NextFree: the new byte goes one slot too far.
NextFreeMutant(f) == (f.first + f.elements_n + 1) % Size

\* The slot fifo_push writes, and the first slot after fifo_pop has read one.
NextFree(f)   == (f.first + f.elements_n) % Size
AfterFirst(f) == (f.first + 1) % Size

fifo_push(f, data) ==
  IF fifo_is_full(f) THEN f
  ELSE [f EXCEPT !.buffer[NextFree(f)] = data, !.elements_n = @ + 1]

fifo_pop(f) ==
  IF fifo_is_empty(f) THEN f
  ELSE [f EXCEPT !.first = AfterFirst(f), !.elements_n = @ - 1]

\* What fifo_pop stores through its argument.
fifo_front(f) == f.buffer[f.first]

-----------------------------------------------------------------------------
\* The bytes in the FIFO, oldest first.
Contents(f) ==
  [k \in 1 .. f.elements_n |-> f.buffer[(f.first + k - 1) % Size]]
=============================================================================
