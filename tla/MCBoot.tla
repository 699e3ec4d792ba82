------------------------------- MODULE MCBoot -------------------------------
(***************************************************************************)
(* Instances of Boot for TLC: one page of application flash and images of  *)
(* one half page: "p" is prepared for the exchange area, "u" is not, "s"   *)
(* has no stack address in its first word at all.                          *)
(***************************************************************************)
EXTENDS Boot

CONSTANTS p, u, s

MCImages      == {p, u, s}
MCTwoImages   == {p, s}
MCBlocksOf    == [i \in Images |-> 1]
MCEntryPoints == {2}
MCStackOk     == Images \ {s}
MCPrepared    == {p}
=============================================================================
