---------------------------- MODULE BoundedQueue ----------------------------
(***************************************************************************)
(* What a direction of the serial port promises: bytes leave in the order  *)
(* they came, each one once; a byte is lost only if the queue is full.     *)
(***************************************************************************)
EXTENDS Naturals, Sequences

CONSTANTS Size, Bytes

VARIABLES
  queue,
  out      \* the byte that left last

Init == queue = <<>> /\ out \notin Bytes

Put(c) == Len(queue) < Size /\ queue' = Append(queue, c) /\ UNCHANGED out

Take == queue # <<>> /\ out' = Head(queue) /\ queue' = Tail(queue)

\* The interrupt handler and the main loop share the queue, but take at most
\* one byte and put at most one in a step.
Next == Take \/ \E c \in Bytes : Put(c)

Spec == Init /\ [][Next]_<<queue, out>>
=============================================================================
