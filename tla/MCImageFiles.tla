---------------------------- MODULE MCImageFiles ----------------------------
(***************************************************************************)
(* An instance of ImageCreator and ImageFiles for TLC, side by side: they  *)
(* share no variable, so only one of them moves in a behaviour. There is a *)
(* directory whose sources are complete; in the other an attribute is      *)
(* defined twice, in front of a header file that is missing, and the       *)
(* application lies in front of the bootloader. With segments of four      *)
(* addresses and lines of three bytes lines cross segments and the last    *)
(* one is shorter; gaps lie in the bootloader, in the application and      *)
(* between them.                                                           *)
(***************************************************************************)
EXTENDS ImageCreator, ImageFiles

Complete == << <<<<"githash", 7>>, <<"name", 2>>>>,
               <<<<"gitdate", 3>>, <<"version", 4>>>> >>
Doubled  == << <<<<"gitdate", 3>>, <<"githash", 7>>, <<"githash", 5>>>>, Missing >>

\* The second application ends where the addresses end.
MCAppHex == [r \in Roots |->
  [n \in AppNames |-> [a \in IF n = "app" THEN {12, 13, 15, 18} ELSE {25, 26, 28, 31}
                        |-> IF r = "home" THEN 8 ELSE 9]]]
MCBootHex == [r \in Roots |-> IF r = "home" THEN [a \in (1 .. 9) \ {8} |-> 6]
                              ELSE [a \in 21 .. 28 |-> 6]]
MCHeaders == [r \in Roots |-> IF r = "home" THEN Complete ELSE Doubled]
MCSymbols == [r \in Roots |-> <<<<"address", IF r = "home" THEN 3 ELSE 23>>>>]
MCDevices == {[UnSet EXCEPT !.minimalFirmwareEntryPoint = first, !.availFlashSize = size,
                            !.firmwareEntryPoint = AnyEntryPoint, !.cryptoRequired = c] :
                first \in 11 .. 13, size \in 6 .. 8, c \in BOOLEAN}

\* One start is enough: the other directory and a key come with SaveAs and
\* with the creation of a key.
MCInit == CreatorInit /\ LastSettingsFile = "home" /\ keyFile = NoKey /\ FilesInit

\* One application is enough to edit; files are made of both.
MCNext ==
  \/ file = NoFile /\ CreatorNext /\ ui'.app # "top" /\ UNCHANGED filesVars
  \/ program = "closed" /\ existing = {} /\ FilesNext /\ UNCHANGED creatorVars

\* Nothing reads the image and the bundle of the last step.
MCView == <<windowVars, settingVars, keyFile, filesVars>>

MCSpec == MCInit /\ [][MCNext]_<<creatorVars, filesVars>>
=============================================================================
