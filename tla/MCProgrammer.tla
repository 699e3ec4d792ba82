---------------------------- MODULE MCProgrammer ----------------------------
(***************************************************************************)
(* Instances of Programmer for TLC: an application flash of two pages and  *)
(* two images, "a" of one half page and "b" of two. MCTailUnread makes the *)
(* second half page of "b" one whose bytes portFlashRead refuses.          *)
(***************************************************************************)
EXTENDS Programmer

CONSTANTS a, b

MCImages      == {a, b}
MCBlocksOf    == [i \in MCImages |-> IF i = a THEN 1 ELSE 2]
MCTailUnread  == {b}
MCEntryPoints == {1, 3, 4}
=============================================================================
