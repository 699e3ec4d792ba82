-------------------------- MODULE MCUpdateSession --------------------------
(***************************************************************************)
(* An instance of UpdateSession for TLC: an application flash of one page, *)
(* and two encrypted images that each fill it.                             *)
(***************************************************************************)
EXTENDS UpdateSession

CONSTANTS a, b

MCImages      == {a, b}
MCBlocksOf    == [i \in MCImages |-> 2]
MCEntryOf     == [i \in MCImages |-> 2]
MCCryptoOf    == [i \in MCImages |-> "AES"]
MCSymmetry    == Permutations(MCImages)

\* What nothing reads any more, neither a step nor a property, is left out of
\* the states that are told apart: the pointers of a transfer that is not
\* open, the result of a call nobody waits for, and the results of an action
\* that saves no report or in which another one has begun.
MCAction(f) ==
  LET reported  == f.alone /\ f.act = "transfer"
      answering == f.at \in {"mcu", "device", "firmware", "answered"}
      planned   == f.at \in {"begin", "refused", "plausibility"}
  IN [f EXCEPT !.ok     = reported => @,
               !.infoOK = reported \/ answering => @,
               !.img    = IF reported \/ answering \/ planned THEN @ ELSE NoImage]

MCDevice ==
  <<persistent, firmwareMetaData, firmware_meta_is_valid, transferIsInitialized,
    IF transferIsInitialized \/ job = "open" THEN writePointer ELSE 0,
    IF transferIsInitialized THEN cbc ELSE Fresh,
    waitTime, pc, job, erasePos,
    serving.live /\ serving.judged /\ result = "OK">>

MCView ==
  <<MCDevice, line, window, fwImage, remoteDeviceInfo,
    [n \in DOMAIN stack |-> MCAction(stack[n])]>>
=============================================================================
