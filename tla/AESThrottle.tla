---------------------------- MODULE AESThrottle ----------------------------
(***************************************************************************)
(* What the wait counter of programmer.c is for: encrypted transfers are   *)
(* accepted at most once in WaitTime seconds, however often the device is  *)
(* reset in between. The module adds to Programmer a history variable that *)
(* no reset clears.                                                        *)
(***************************************************************************)
EXTENDS Programmer

VARIABLE sinceOpen   \* seconds the main loop counted since it last accepted an
                     \* encrypted transfer, up to WaitTime

throttleVars == <<vars, sinceOpen>>

\* A step that accepts an encrypted transfer.
AcceptsAES == Idle /\ job' = "open" /\ firmwareMetaData'.crypto = "AES"

\* A step that counts a second.
CountsSecond == Idle /\ waitTime' = waitTime + 1

ThrottleInit == Init /\ sinceOpen = WaitTime

ThrottleNext ==
  /\ Next
  /\ sinceOpen' = IF AcceptsAES THEN 0
                  ELSE IF CountsSecond /\ sinceOpen < WaitTime
                  THEN sinceOpen + 1 ELSE sinceOpen

ThrottleSpec == ThrottleInit /\ [][ThrottleNext]_throttleVars

\* A call that has begun goes on.
FairThrottleSpec == ThrottleSpec /\ WF_vars(Continue)

-----------------------------------------------------------------------------
\* Two encrypted transfers are WaitTime seconds apart, whatever resets,
\* aborted saves, plain transfers and verifications lie between them. The one
\* exception is a transfer over firmware that was itself verified after an
\* encrypted transfer (programmer.c:278).
AESOpensSpaced ==
  [][AcceptsAES => sinceOpen >= WaitTime \/ stored.byCrypto]_throttleVars
=============================================================================
