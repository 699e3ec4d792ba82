---------------------------- MODULE Plausibility ----------------------------
(***************************************************************************)
(* What the host checks before it erases a device: the class               *)
(* FirmwareUpdatePlausibilityCheck of flashresultdocumentation.cpp, as     *)
(* operators on the image's meta data and on what the device said of       *)
(* itself. Addresses and sizes are uint32_t: sums wrap at AddressSpace.    *)
(***************************************************************************)
EXTENDS Integers

CONSTANT AddressSpace   \* 2^32

ASSUME AddressSpaceAssumption == AddressSpace \in Nat \ {0}

\* firmwareEntryPoint of a device that accepts every entry point, 0xFFFFFFFF
AnyEntryPoint == AddressSpace - 1

\* What is left of the descriptors of a device that has not answered.
UnSet == [minimalFirmwareEntryPoint |-> 0, availFlashSize |-> 0,
          firmwareEntryPoint |-> 0, cryptoRequired |-> FALSE,
          firmwareVerified |-> FALSE,
          nameCRC16 |-> 0, gitDate |-> 0, githash |-> 0, version |-> 0]

\* Mutated form of TooBig: the last byte may lie one behind the end.
TooBigMutant(dev, fw) ==
  (fw.entryPoint + fw.size) % AddressSpace
    > (dev.minimalFirmwareEntryPoint + dev.availFlashSize + 1) % AddressSpace

TooBig(dev, fw) ==
  (fw.entryPoint + fw.size) % AddressSpace
    > (dev.minimalFirmwareEntryPoint + dev.availFlashSize) % AddressSpace

WrongEntryPoint(dev, fw) ==
  \/ fw.entryPoint # dev.firmwareEntryPoint /\ dev.firmwareEntryPoint # AnyEntryPoint
  \/ fw.entryPoint < dev.minimalFirmwareEntryPoint

When(name, condition) == IF condition THEN {name} ELSE {}

checkPlausibility(dev, fw) ==
  LET sameHash    == fw.githash = dev.githash
      sameVersion == fw.version = dev.version
  IN UNION {
    When("error_firmwareimage_too_big", TooBig(dev, fw)),
    When("error_wrong_entrypoint", WrongEntryPoint(dev, fw)),
    When("error_crypto_required", fw.crypto = "Plain" /\ dev.cryptoRequired),
    When("error_inconsistency", ~fw.consistent),
    When("warning_different_name_hash", fw.nameCRC16 # dev.nameCRC16),
    When("warning_downgrade_date", fw.gitDate < dev.gitDate),
    When("warning_equal_gitHash", sameHash),
    When("warning_equal_gitHash_but_different_wersion", sameHash /\ ~sameVersion),
    When("warning_equal_version_but_different_gitHash", ~sameHash /\ sameVersion),
    When("error_verify", ~dev.firmwareVerified)}

\* error_verify, unverified firmware on the device, is only a warning.
plausibilityResultIsError(result) ==
  result \in {"error_firmwareimage_too_big", "error_wrong_entrypoint",
              "error_inconsistency", "error_crypto_required"}

\* The answers the dialog allows: errors leave only Cancel.
showWarngingMessage(results) ==
  IF \E r \in results : plausibilityResultIsError(r) THEN {FALSE} ELSE {TRUE, FALSE}
=============================================================================
