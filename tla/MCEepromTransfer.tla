-------------------------- MODULE MCEepromTransfer --------------------------
(***************************************************************************)
(* An instance of EepromTransfer for TLC: an EEPROM of four bytes, blocks  *)
(* of two, and files that fill the EEPROM, end in the middle of a block or *)
(* are longer than the EEPROM.                                             *)
(***************************************************************************)
EXTENDS EepromTransfer

MCFiles == {<<0, 1, 1, 0>>, <<1, 1, 1>>, <<1, 1, 0, 0, 1>>}
=============================================================================
