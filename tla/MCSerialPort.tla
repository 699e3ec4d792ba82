---------------------------- MODULE MCSerialPort ----------------------------
(***************************************************************************)
(* Instances of SerialPort for TLC: two values of a byte, and FIFOs of two *)
(* bytes, which every stream fills, empties and wraps.                     *)
(***************************************************************************)
EXTENDS SerialPort

CONSTANTS x, y

MCBytes == {x, y}
MCByte  == {x}
=============================================================================
