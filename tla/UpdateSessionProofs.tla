------------------------- MODULE UpdateSessionProofs -------------------------
(***************************************************************************)
(* The composition of host, line and device: every step of it is a step of *)
(* the programmer or leaves the programmer alone, so that what was proved  *)
(* of the programmer holds at the other end of the line as well.           *)
(***************************************************************************)
EXTENDS UpdateSession, ProgrammerProofs

\* What is under way names images and blocks the programmer's handlers take.
Sent ==
  {request \in Requests :
     /\ request.op \in {"enter", "hash", "mcu", "device", "firmware", "erase", "init",
                        "write", "verify", "run"}
     /\ request.op \in {"init", "write"} => request.img \in Images
     /\ request.op = "write" => request.k < BlocksOf[request.img]}

WirePart == wire \in Seq(Sent) /\ serving \in Requests
HostPart == stack \in Seq(Actions) /\ fwImage \in Images \union {NoImage}

LineInv == WirePart /\ HostPart

LEMMA ActionType ==
  ASSUME NEW act \in {"file", "port", "transfer", "erase", "info", "run", "connect"},
         NEW at \in HostSteps
  PROVE  Action(act, at) \in Actions
BY DEF Action, Actions

LEMMA InitLineInv == SessionInit => LineInv
<1> SUFFICES ASSUME SessionInit PROVE LineInv
  OBVIOUS
<1>1. serving \in Requests
  BY DEF SessionInit, StartingUp, Asking, Request, Requests
<1>2. wire = <<>> /\ stack = <<>> /\ fwImage = NoImage
  BY DEF SessionInit
<1> QED  BY <1>1, <1>2 DEF LineInv, WirePart, HostPart

LEMMA TopAction ==
  ASSUME stack \in Seq(Actions), stack # <<>>
  PROVE  Top \in Actions
BY DEF Top, Last

LEMMA BecomeAction ==
  ASSUME stack \in Seq(Actions), stack # <<>>, NEW f \in Actions, Become(f)
  PROVE  stack' \in Seq(Actions)
<1>1. Front(stack) \in Seq(Actions)
  BY DEF Front
<1> QED  BY <1>1 DEF Become

LEMMA FinishAction ==
  ASSUME stack \in Seq(Actions), stack # <<>>, Finish
  PROVE  stack' \in Seq(Actions)
BY DEF Finish, Front

LEMMA StartAction ==
  ASSUME stack \in Seq(Actions), NEW f \in Actions, Start(f)
  PROVE  stack' \in Seq(Actions)
<1> DEFINE Mark(g) == [g EXCEPT !.alone = FALSE, !.logged = TRUE]
           marked == [n \in 1 .. Len(stack) |-> Mark(stack[n])]
<1>1. \A g \in Actions : Mark(g) \in Actions
  BY DEF Actions
<1>2. stack' = Append(marked, f)
  BY DEF Start
<1> HIDE DEF Mark
<1>3. marked \in Seq(Actions)
  <2>1. Len(stack) \in Nat /\ marked \in [1 .. Len(stack) -> Actions]
    BY <1>1
  <2> HIDE DEF marked
  <2> QED  BY <2>1
<1> HIDE DEF marked
<1> QED  BY <1>2, <1>3

\* The fields that the steps of an action change.
LEMMA GoOnAction ==
  ASSUME NEW f \in Actions, NEW step \in HostSteps
  PROVE  /\ GoOn(f, step) \in Actions
         /\ f.ok \in BOOLEAN /\ f.infoOK \in BOOLEAN /\ f.k \in Nat
         /\ GoOn(f, step).ok = f.ok /\ GoOn(f, step).infoOK = f.infoOK
         /\ GoOn(f, step).k = f.k
BY DEF GoOn, Actions

LEMMA FieldsAction ==
  ASSUME NEW f \in Actions, NEW ok \in BOOLEAN, NEW infoOK \in BOOLEAN,
         NEW k \in Nat, NEW i \in Images \union {NoImage}
  PROVE  /\ [f EXCEPT !.ok = ok] \in Actions
         /\ [f EXCEPT !.infoOK = infoOK] \in Actions
         /\ [f EXCEPT !.ok = ok, !.infoOK = infoOK] \in Actions
         /\ [f EXCEPT !.k = k] \in Actions
         /\ [f EXCEPT !.ok = ok, !.k = k] \in Actions
         /\ [f EXCEPT !.img = i] \in Actions
BY DEF Actions

LEMMA RecalcType ==
  ASSUME NEW c \in ConnectionState
  PROVE  Recalc(c) \in HostSteps /\ RecalcStep[c] \in HostSteps
BY DEF Recalc, RecalcStep, ConnectionState, HostSteps, EventSteps

\* The steps of connecting, and of the user and the timer.
LEMMA ConnectingStack ==
  ASSUME HostPart, connState \in ConnectionState,
         \/ Event \/ \E ok \in BOOLEAN : EnterReturned(ok) \/ HashReturned(ok)
         \/ Leave \/ Found \/ recalcUIState
         \/ \E ok \in BOOLEAN : RemoteHashReturned(ok) \/ RunReturned(ok)
  PROVE  stack' \in Seq(Actions) /\ fwImage' \in Images \union {NoImage}
<1>1. stack \in Seq(Actions) /\ fwImage \in Images \union {NoImage}
  BY DEF HostPart
<1> DEFINE Goal == stack' \in Seq(Actions) /\ fwImage' \in Images \union {NoImage}
<1>2. ASSUME NEW step \in HostSteps, stack # <<>>, Become(GoOn(Top, step))
      PROVE  stack' \in Seq(Actions)
  BY <1>1, <1>2, TopAction, GoOnAction, BecomeAction
<1>3. {"now_nothing", "enter", "hash", "remote_hash", "found", "leaving", "refused",
       "begin", "erase", "mcu", "run"} \subseteq HostSteps
  BY DEF HostSteps, CallSteps, EventSteps
<1>4. {"Disconnected", "Connecting", "Connected"} \subseteq ConnectionState
  BY DEF ConnectionState
<1>5. CASE OpenFile
  <2>1. {RecalcStep[connState], "refused"} \subseteq HostSteps
    BY <1>3, RecalcType
  <2>2. PICK i \in Images \union {NoImage} :
          /\ fwImage' = i
          /\ Start(Action("file", IF i = NoImage THEN "refused" ELSE RecalcStep[connState]))
    BY <1>5 DEF OpenFile
  <2> DEFINE at == IF i = NoImage THEN "refused" ELSE RecalcStep[connState]
  <2>3. at \in HostSteps
    BY <2>1
  <2> HIDE DEF at
  <2>4. Action("file", at) \in Actions
    BY <2>3, ActionType
  <2>5. Start(Action("file", at))
    BY <2>2 DEF at
  <2> QED  BY <1>1, <2>2, <2>4, <2>5, StartAction
<1>6. CASE Connect
  <2>1. {Action("port", Recalc("Connecting")), Action("port", Recalc("Disconnected"))}
          \subseteq Actions
    BY <1>4, RecalcType, ActionType
  <2> QED  BY <1>1, <1>6, <2>1, StartAction DEF Connect
<1>7. CASE Choose
  <2>1. {Action("transfer", "begin"), Action("erase", "erase"), Action("info", "mcu"),
         Action("run", "run")} \subseteq Actions
    BY <1>3, ActionType
  <2>2. \E f \in Actions : Start(f)
    BY <1>7, <2>1 DEF Choose
  <2> QED  BY <1>1, <1>7, <2>2, StartAction DEF Choose
<1>8. CASE onReconnectTimer
  <2>1. Action("connect", "enter") \in Actions
    BY <1>3, ActionType
  <2> QED  BY <1>1, <1>8, <2>1, StartAction DEF onReconnectTimer
<1>9. ASSUME NEW ok \in BOOLEAN, EnterReturned(ok)
      PROVE  Goal
  <2>1. stack # <<>>
    BY <1>9 DEF EnterReturned, Returns
  <2> QED  BY <1>1, <1>2, <1>3, <1>9, <2>1, FinishAction DEF EnterReturned
<1>10. ASSUME NEW ok \in BOOLEAN, HashReturned(ok)
       PROVE  Goal
  <2>1. stack # <<>> /\ (IF ok THEN "found" ELSE "remote_hash") \in HostSteps
    BY <1>3, <1>10 DEF HashReturned, Returns
  <2> QED  BY <1>1, <1>2, <1>10, <2>1 DEF HashReturned
<1>11. ASSUME NEW ok \in BOOLEAN, RemoteHashReturned(ok)
       PROVE  Goal
  <2>1. stack # <<>>
    BY <1>11 DEF RemoteHashReturned, Returns
  <2> QED  BY <1>1, <1>2, <1>3, <1>11, <2>1 DEF RemoteHashReturned
<1>12. ASSUME stack # <<>>, ClosePort
       PROVE  Goal
  <2>1. Action("port", Recalc("Disconnected")) \in Actions
    BY <1>4, RecalcType, ActionType
  <2> QED  BY <1>1, <1>12, <2>1, BecomeAction DEF ClosePort
<1>13. CASE Leave
  BY <1>12, <1>13 DEF Leave, At
<1>14. ASSUME NEW ok \in BOOLEAN, RunReturned(ok)
       PROVE  Goal
  <2>1. stack # <<>>
    BY <1>14 DEF RunReturned, Returns
  <2> QED  BY <1>1, <1>2, <1>3, <1>14, <2>1 DEF RunReturned
<1>15. CASE Found
  <2>1. Action("info", Recalc("Connected")) \in Actions
    BY <1>4, RecalcType, ActionType
  <2> QED  BY <1>1, <1>15, <2>1, BecomeAction DEF Found, At
<1>16. CASE recalcUIState
  <2>1. stack # <<>>
    BY <1>16 DEF recalcUIState, At
  <2> QED  BY <1>1, <1>2, <1>3, <1>16, <2>1, FinishAction DEF recalcUIState
<1> QED  BY <1>5, <1>6, <1>7, <1>8, <1>9, <1>10, <1>11, <1>13, <1>14, <1>15, <1>16 DEF Event

\* The steps of an update and of the questions about the device.
LEMMA TransferStack ==
  ASSUME HostPart, connState \in ConnectionState,
         \/ \E ok \in BOOLEAN :
              \/ DescriptorReturned(ok) \/ LastDescriptorReturned(ok)
              \/ EraseReturned(ok) \/ InitReturned(ok) \/ BlockReturned(ok)
              \/ VerifyReturned(ok)
         \/ BeginTransfer \/ RefusalLogged \/ TakeDescriptors \/ CheckPlausibility
         \/ InitWithoutImage \/ BlocksSent \/ SaveReport
  PROVE  stack' \in Seq(Actions) /\ fwImage' \in Images \union {NoImage}
<1> DEFINE Goal == stack' \in Seq(Actions) /\ fwImage' \in Images \union {NoImage}
<1>1. stack \in Seq(Actions) /\ fwImage \in Images \union {NoImage}
  BY DEF HostPart
<1>2. {"refused", "report", "mcu", "device", "firmware", "answered", "plausibility",
       "erase", "init", "write", "verify"} \subseteq HostSteps
  BY DEF HostSteps, CallSteps, EventSteps
<1>3. stack # <<>> => Top \in Actions
  BY <1>1, TopAction
<1>4. stack # <<>> =>
        /\ Top.ok \in BOOLEAN /\ Top.infoOK \in BOOLEAN /\ Top.k \in Nat
        /\ \A step \in HostSteps :
             /\ GoOn(Top, step) \in Actions
             /\ GoOn(Top, step).ok = Top.ok /\ GoOn(Top, step).infoOK = Top.infoOK
             /\ GoOn(Top, step).k = Top.k
  BY <1>3, <1>2, GoOnAction
<1>5. ASSUME NEW ok \in BOOLEAN, DescriptorReturned(ok)
      PROVE  Goal
  <2>1. stack # <<>>
    BY <1>5 DEF DescriptorReturned, Returns
  <2>2. CASE Returns("mcu", ok) /\ Become([GoOn(Top, "device") EXCEPT !.infoOK = ok])
    <3>1. [GoOn(Top, "device") EXCEPT !.infoOK = ok] \in Actions
      BY <1>2, <1>4, <2>1, FieldsAction
    <3> QED  BY <1>1, <1>5, <2>1, <2>2, <3>1, BecomeAction DEF DescriptorReturned
  <2>3. CASE Returns("device", ok) /\ Become([GoOn(Top, "firmware") EXCEPT !.infoOK = @ /\ ok])
    <3>1. (GoOn(Top, "firmware").infoOK /\ ok) \in BOOLEAN
      OBVIOUS
    <3>2. [GoOn(Top, "firmware") EXCEPT !.infoOK = @ /\ ok] \in Actions
      BY <1>2, <1>4, <2>1, <3>1, FieldsAction
    <3> QED  BY <1>1, <1>5, <2>1, <2>3, <3>2, BecomeAction DEF DescriptorReturned
  <2> QED  BY <1>5, <2>2, <2>3 DEF DescriptorReturned
<1>6. ASSUME NEW ok \in BOOLEAN, LastDescriptorReturned(ok)
      PROVE  Goal
  <2>1. stack # <<>>
    BY <1>6 DEF LastDescriptorReturned, Returns
  <2>2. (GoOn(Top, "answered").infoOK /\ ok) \in BOOLEAN
    OBVIOUS
  <2>3. [GoOn(Top, "answered") EXCEPT !.ok = ok, !.infoOK = @ /\ ok] \in Actions
    BY <1>2, <1>4, <2>1, <2>2, FieldsAction
  <2> QED  BY <1>1, <1>6, <2>1, <2>3, BecomeAction DEF LastDescriptorReturned
<1>7. ASSUME NEW ok \in BOOLEAN, NEW step \in HostSteps, stack # <<>>,
             Become([GoOn(Top, step) EXCEPT !.ok = @ /\ ok])
      PROVE  stack' \in Seq(Actions)
  <2>1. (GoOn(Top, step).ok /\ ok) \in BOOLEAN
    OBVIOUS
  <2>2. [GoOn(Top, step) EXCEPT !.ok = @ /\ ok] \in Actions
    BY <1>4, <1>7, <2>1, FieldsAction
  <2> QED  BY <1>1, <1>7, <2>2, BecomeAction
<1>8. ASSUME NEW ok \in BOOLEAN, EraseReturned(ok)
      PROVE  Goal
  <2>1. stack # <<>> /\ (IF ok THEN "init" ELSE "report") \in HostSteps
    BY <1>2, <1>8 DEF EraseReturned, Returns
  <2> QED  BY <1>1, <1>7, <1>8, <2>1, FinishAction DEF EraseReturned
<1>9. ASSUME NEW ok \in BOOLEAN, InitReturned(ok)
      PROVE  Goal
  <2>1. stack # <<>> /\ (IF ok THEN "write" ELSE "report") \in HostSteps
    BY <1>2, <1>9 DEF InitReturned, Returns
  <2> QED  BY <1>1, <1>7, <1>9, <2>1 DEF InitReturned
<1>10. ASSUME NEW ok \in BOOLEAN, VerifyReturned(ok)
       PROVE  Goal
  <2>1. stack # <<>>
    BY <1>10 DEF VerifyReturned, Returns
  <2> QED  BY <1>1, <1>2, <1>7, <1>10, <2>1 DEF VerifyReturned
<1>11. ASSUME NEW ok \in BOOLEAN, BlockReturned(ok)
       PROVE  Goal
  <2>1. stack # <<>>
    BY <1>11 DEF BlockReturned, Returns
  <2>2. GoOn(Top, "write").k + 1 \in Nat /\ 0 \in Nat
    BY <1>2, <1>4, <2>1
  <2>3. [GoOn(Top, "write") EXCEPT !.k = @ + 1] \in Actions
    BY <1>2, <1>4, <2>1, <2>2, FieldsAction
  <2>4. [GoOn(Top, "report") EXCEPT !.ok = FALSE, !.k = 0] \in Actions
    BY <1>2, <1>4, <2>1, <2>2, FieldsAction
  <2> QED  BY <1>1, <1>11, <2>1, <2>3, <2>4, BecomeAction DEF BlockReturned
<1>12. CASE BeginTransfer
  <2>1. stack # <<>>
    BY <1>12 DEF BeginTransfer, At
  <2>2. PICK i \in Images \union {NoImage} :
          /\ fwImage' = i
          /\ Become([GoOn(Top, IF i # NoImage THEN "mcu"
                               ELSE IF fwImage # NoImage THEN "refused" ELSE "report")
                       EXCEPT !.img = i])
    BY <1>12 DEF BeginTransfer
  <2> DEFINE step == IF i # NoImage THEN "mcu"
                     ELSE IF fwImage # NoImage THEN "refused" ELSE "report"
  <2>3. step \in HostSteps
    BY <1>2
  <2>4. [GoOn(Top, step) EXCEPT !.img = i] \in Actions
    BY <1>4, <2>1, <2>3, FieldsAction
  <2> QED  BY <1>1, <2>1, <2>2, <2>4, BecomeAction
<1>13. CASE RefusalLogged
  <2>1. stack # <<>> /\ UNCHANGED fwImage
    BY <1>13 DEF RefusalLogged, At
  <2> DEFINE step == IF fwImage # NoImage THEN "mcu" ELSE "report"
  <2>2. step \in HostSteps /\ Recalc(connState) \in HostSteps
    BY <1>2, RecalcType
  <2>3. [GoOn(Top, step) EXCEPT !.img = fwImage] \in Actions
    BY <1>1, <1>4, <2>1, <2>2, FieldsAction
  <2>4. GoOn(Top, Recalc(connState)) \in Actions
    BY <1>4, <2>1, <2>2
  <2> QED  BY <1>1, <1>13, <2>1, <2>3, <2>4, BecomeAction DEF RefusalLogged
<1>14. CASE TakeDescriptors
  <2>1. stack # <<>>
    BY <1>14 DEF TakeDescriptors, At
  <2>2. GoOn(Top, "plausibility") \in Actions
    BY <1>2, <1>4, <2>1
  <2> QED  BY <1>1, <1>14, <2>1, <2>2, BecomeAction, FinishAction DEF TakeDescriptors
<1>15. CASE CheckPlausibility
  <2>1. stack # <<>>
    BY <1>15 DEF CheckPlausibility, At
  <2>2. PICK confirmed \in BOOLEAN :
          Become([GoOn(Top, IF confirmed THEN "erase" ELSE "report") EXCEPT !.ok = @ /\ confirmed])
    BY <1>15 DEF CheckPlausibility, showWarngingMessage
  <2>3. (IF confirmed THEN "erase" ELSE "report") \in HostSteps
    BY <1>2
  <2> QED  BY <1>1, <1>7, <1>15, <2>1, <2>2, <2>3 DEF CheckPlausibility
<1>16. CASE InitWithoutImage
  <2>1. stack # <<>>
    BY <1>16 DEF InitWithoutImage, At
  <2>2. [GoOn(Top, "report") EXCEPT !.ok = FALSE] \in Actions
    BY <1>2, <1>4, <2>1, FieldsAction
  <2> QED  BY <1>1, <1>16, <2>1, <2>2, BecomeAction DEF InitWithoutImage
<1>17. CASE BlocksSent
  <2>1. stack # <<>> /\ 0 \in Nat
    BY <1>17 DEF BlocksSent, At
  <2>2. [GoOn(Top, "verify") EXCEPT !.k = 0] \in Actions
    BY <1>2, <1>4, <2>1, FieldsAction
  <2> QED  BY <1>1, <1>17, <2>1, <2>2, BecomeAction DEF BlocksSent
<1>18. CASE SaveReport
  <2>1. stack # <<>> /\ Action("info", "mcu") \in Actions
    BY <1>2, <1>18, ActionType DEF SaveReport, At
  <2> QED  BY <1>1, <1>18, <2>1, BecomeAction DEF SaveReport
<1> QED  BY <1>5, <1>6, <1>8, <1>9, <1>10, <1>11, <1>12, <1>13, <1>14, <1>15, <1>16, <1>17, <1>18
-----------------------------------------------------------------------------
(* The line                                                                 *)

LEMMA MadeRequest ==
  ASSUME NEW op \in CallSteps, NEW i \in Images \union {NoImage}, NEW k \in Nat,
         NEW judged \in BOOLEAN
  PROVE  Request(op, i, k, judged) \in Requests
BY DEF Request, Requests

\* Only images and blocks that exist are sent.
LEMMA NextRequestType ==
  ASSUME HostPart, Call
  PROVE  NextRequest \in Sent
<1>1. /\ Top.k \in Nat /\ Top.at \in CallSteps
      /\ fwImage \in Images \union {NoImage}
      /\ Top.at = "init" => fwImage # NoImage
      /\ Top.at = "write" => ~atEnd
  BY TopAction DEF HostPart, Call, Actions
<1>2. Top.at = "write" => fwImage # NoImage /\ Top.k < BlocksOf[fwImage]
  BY <1>1, ImagesAssumption DEF atEnd
<1>3. ASSUME NEW op \in {"enter", "hash", "mcu", "device", "firmware", "erase", "verify", "run"},
             NEW judged \in BOOLEAN
      PROVE  Request(op, NoImage, 0, judged) \in Sent
  <2>1. Request(op, NoImage, 0, judged) \in Requests
    BY MadeRequest DEF CallSteps
  <2> QED  BY <2>1 DEF Sent, Request
<1>4. CASE Top.at = "init"
  <2>1. Request("init", fwImage, 0, TRUE) \in Requests
    BY <1>1, MadeRequest DEF CallSteps
  <2>2. Request("init", fwImage, 0, TRUE) \in Sent
    BY <1>1, <1>4, <2>1 DEF Sent, Request
  <2> QED  BY <1>4, <2>2 DEF NextRequest, rpcInitFirmwareTransfer
<1>5. CASE Top.at = "write"
  <2>1. Request("write", fwImage, Top.k, TRUE) \in Requests
    BY <1>1, MadeRequest DEF CallSteps
  <2>2. Request("write", fwImage, Top.k, TRUE) \in Sent
    BY <1>1, <1>2, <1>5, <2>1 DEF Sent, Request
  <2> QED  BY <1>5, <2>2 DEF NextRequest, rpcWriteFirmwareBlock
<1>6. CASE Top.at \notin {"init", "write"}
  <2>1. {rpcEnterProgrammingMode, rpcIsCorrectHash, rpcGetRemoteHashVersion, rpcGetMCUDescriptor,
         rpcGetDeviceDescriptor, rpcGetFirmwareDescriptor, rpcEraseFlash, rpcVerifyChecksum,
         rpcRunApplication} \subseteq Sent
    BY <1>3 DEF rpcEnterProgrammingMode, rpcIsCorrectHash, rpcGetRemoteHashVersion,
       rpcGetMCUDescriptor, rpcGetDeviceDescriptor, rpcGetFirmwareDescriptor, rpcEraseFlash,
       rpcVerifyChecksum, rpcRunApplication, Asking
  <2> QED  BY <1>1, <1>6, <2>1 DEF NextRequest, CallSteps
<1> QED  BY <1>4, <1>5, <1>6

LEMMA GivenUpTypes ==
  /\ \A request \in Requests : GivenUp(request) \in Requests
  /\ \A request \in Sent : GivenUp(request) \in Sent
<1>1. ASSUME NEW request \in Requests
      PROVE  /\ GivenUp(request) \in Requests
             /\ GivenUp(request).op = request.op /\ GivenUp(request).img = request.img
             /\ GivenUp(request).k = request.k
  BY DEF GivenUp, Requests
<1> QED  BY <1>1 DEF Sent

LEMMA GivenUpWire ==
  ASSUME NEW requests \in Seq(Sent)
  PROVE  [n \in 1 .. Len(requests) |-> GivenUp(requests[n])] \in Seq(Sent)
<1>1. /\ Len(requests) \in Nat
      /\ [n \in 1 .. Len(requests) |-> GivenUp(requests[n])] \in [1 .. Len(requests) -> Sent]
  BY GivenUpTypes
<1> QED  BY <1>1

LEMMA MainRequests == {NoRequest, StartingUp, Verifying} \subseteq Requests
BY DEF NoRequest, StartingUp, Verifying, Asking, Request, Requests

\* A call that returns takes the answer away, or leaves what is given up.
LEMMA ReturnsWire ==
  ASSUME WirePart, NEW step, NEW ok, Returns(step, ok)
  PROVE  WirePart'
<1>1. CASE Answered(ok)
  BY <1>1, MainRequests DEF Answered, WirePart
<1>2. CASE TimedOut
  <2>1. wire' \in Seq(Sent)
    BY <1>2, GivenUpWire DEF TimedOut, WirePart
  <2>2. serving' \in Requests
    BY <1>2, GivenUpTypes DEF TimedOut, WirePart
  <2> QED  BY <2>1, <2>2 DEF WirePart
<1> QED  BY <1>1, <1>2 DEF Returns

LEMMA WireStep ==
  ASSUME LineInv, [SessionNext]_sessionVars
  PROVE  WirePart'
<1>1. WirePart /\ HostPart
  BY DEF LineInv
<1>2. CASE UNCHANGED <<wire, serving>>
  BY <1>1, <1>2 DEF WirePart
<1>3. Event \/ UNCHANGED sessionVars => UNCHANGED <<wire, serving>>
  BY DEF Event, OpenFile, Connect, Choose, onReconnectTimer, sessionVars, line
<1>4. CASE Call
  BY <1>1, <1>4, NextRequestType DEF Call, WirePart
<1>5. ASSUME NEW ok \in BOOLEAN,
             \/ EnterReturned(ok) \/ HashReturned(ok) \/ RemoteHashReturned(ok)
             \/ DescriptorReturned(ok) \/ LastDescriptorReturned(ok)
             \/ EraseReturned(ok) \/ InitReturned(ok) \/ BlockReturned(ok)
             \/ VerifyReturned(ok) \/ RunReturned(ok)
      PROVE  WirePart'
  BY <1>1, <1>5, ReturnsWire DEF EnterReturned, HashReturned, RemoteHashReturned,
     DescriptorReturned, LastDescriptorReturned, EraseReturned, InitReturned,
     BlockReturned, VerifyReturned, RunReturned
<1>6. ASSUME \/ Leave \/ Found \/ recalcUIState \/ BeginTransfer
             \/ RefusalLogged \/ TakeDescriptors
             \/ CheckPlausibility \/ InitWithoutImage \/ BlocksSent \/ SaveReport
      PROVE  UNCHANGED <<wire, serving>>
  BY <1>6 DEF Leave, Found, recalcUIState, BeginTransfer, RefusalLogged, TakeDescriptors,
     CheckPlausibility, InitWithoutImage, BlocksSent, SaveReport, line
<1>7. CASE HostStep
  BY <1>2, <1>4, <1>5, <1>6, <1>7 DEF HostStep
<1>8. CASE Serve
  <2>1. Head(wire) \in Sent /\ Tail(wire) \in Seq(Sent)
    BY <1>1, <1>8 DEF Serve, WirePart
  <2> QED  BY <1>8, <2>1 DEF Serve, WirePart, Sent
<1>9. CASE AnswerLost
  BY <1>1, <1>9, MainRequests DEF AnswerLost, WirePart
<1>10. CASE DeviceReset
  BY <1>10, MainRequests DEF DeviceReset, WirePart
<1>11. CASE DeviceStartsUp
  BY <1>1, <1>11, MainRequests DEF DeviceStartsUp, WirePart
<1>12. CASE DeviceStep
  BY <1>2, <1>8, <1>9, <1>10, <1>11, <1>12 DEF DeviceStep, line
<1> QED  BY <1>2, <1>3, <1>7, <1>12 DEF SessionNext

-----------------------------------------------------------------------------
(* The device                                                               *)

\* The handler of a request is a step of the programmer, or none.
LEMMA HandlerIsStep ==
  ASSUME NEW request \in Sent, request.op # "run", Handle(request)
  PROVE  [Next]_vars
<1>1. CASE request.op \in {"enter", "hash"}
  BY <1>1 DEF Handle
<1>2. CASE request.op \in {"mcu", "device", "firmware", "erase", "verify"}
  BY <1>2 DEF Handle, Next
<1>3. CASE request.op = "init"
  <2>1. request.img \in Images
    BY <1>3 DEF Sent
  <2>2. EntryOf[request.img] \in EntryPoints /\ CryptoOf[request.img] \in Crypto
    BY <2>1, SessionAssumption
  <2>3. mcuInitFirmwareTransfer(request.img, EntryOf[request.img], CryptoOf[request.img])
    BY <1>3 DEF Handle
  <2> QED  BY <2>1, <2>2, <2>3 DEF Next
<1>4. CASE request.op = "write"
  <2>1. request.img \in Images /\ request.k \in 0 .. BlocksOf[request.img] - 1
    BY <1>4, ImagesAssumption DEF Sent, Requests
  <2>2. mcuWriteFirmwareBlock(request.img, request.k)
    BY <1>4 DEF Handle
  <2> QED  BY <2>1, <2>2 DEF Next
<1> QED  BY <1>1, <1>2, <1>3, <1>4 DEF Sent

LEMMA SessionStepIsStep ==
  ASSUME LineInv, [SessionNext]_sessionVars
  PROVE  [Next]_vars
<1>1. CASE UNCHANGED vars
  BY <1>1
<1>2. Event \/ UNCHANGED sessionVars => UNCHANGED vars
  BY DEF Event, OpenFile, Connect, Choose, onReconnectTimer, sessionVars
<1>3. ASSUME NEW ok \in BOOLEAN,
             \/ EnterReturned(ok) \/ HashReturned(ok) \/ RemoteHashReturned(ok)
             \/ DescriptorReturned(ok) \/ LastDescriptorReturned(ok)
             \/ EraseReturned(ok) \/ InitReturned(ok) \/ BlockReturned(ok)
             \/ VerifyReturned(ok) \/ RunReturned(ok)
      PROVE  UNCHANGED vars
  BY <1>3 DEF EnterReturned, HashReturned, RemoteHashReturned, DescriptorReturned,
     LastDescriptorReturned, EraseReturned, InitReturned, BlockReturned, VerifyReturned,
     RunReturned, Returns
<1>4. ASSUME \/ Call \/ Leave \/ Found \/ recalcUIState \/ BeginTransfer
             \/ RefusalLogged \/ TakeDescriptors
             \/ CheckPlausibility \/ InitWithoutImage \/ BlocksSent \/ SaveReport
      PROVE  UNCHANGED vars
  BY <1>4 DEF Call, Leave, Found, recalcUIState, BeginTransfer, RefusalLogged, TakeDescriptors,
     CheckPlausibility, InitWithoutImage, BlocksSent, SaveReport
<1>5. HostStep => UNCHANGED vars
  BY <1>3, <1>4 DEF HostStep
<1>6. CASE Serve
  <2>1. Head(wire) \in Sent
    BY <1>6 DEF Serve, LineInv, WirePart
  <2> QED  BY <1>6, <2>1, HandlerIsStep DEF Serve
<1>7. CASE DeviceStep /\ ~Serve
  BY <1>7 DEF DeviceStep, AnswerLost, DeviceReset, DeviceStartsUp, Next
<1> QED  BY <1>1, <1>2, <1>5, <1>6, <1>7 DEF SessionNext
-----------------------------------------------------------------------------
(* The types of host and line                                               *)

WindowPart ==
  /\ calling \in BOOLEAN /\ portOpen \in BOOLEAN
  /\ connState \in ConnectionState
  /\ enabled \subseteq {"connect", "device"}
  /\ remoteDeviceInfo \in BOOLEAN

BoundPart == Len(wire) <= WireCap /\ Len(stack) <= MaxDepth

SessionInv == LineInv /\ WindowPart /\ BoundPart

LEMMA InitSessionInv == SessionInit => SessionInv
<1> SUFFICES ASSUME SessionInit PROVE SessionInv
  OBVIOUS
<1>1. WindowPart
  BY DEF SessionInit, WindowPart, ConnectionState
<1>2. BoundPart
  BY SessionAssumption DEF SessionInit, BoundPart
<1> QED  BY <1>1, <1>2, InitLineInv DEF SessionInv

LEMMA HostPartStep ==
  ASSUME SessionInv, [SessionNext]_sessionVars
  PROVE  HostPart'
<1>1. HostPart /\ connState \in ConnectionState
  BY DEF SessionInv, LineInv, WindowPart
<1>2. Call \/ DeviceStep \/ UNCHANGED sessionVars => UNCHANGED <<stack, fwImage>>
  BY DEF Call, DeviceStep, Serve, AnswerLost, DeviceReset, DeviceStartsUp, sessionVars, host
<1>3. CASE UNCHANGED <<stack, fwImage>>
  BY <1>1, <1>3 DEF HostPart
<1>4. CASE Event
  BY <1>1, <1>4, ConnectingStack DEF HostPart
<1>5. CASE HostStep /\ ~Call
  BY <1>1, <1>5, ConnectingStack, TransferStack DEF HostStep, HostPart
<1> QED  BY <1>2, <1>3, <1>4, <1>5 DEF SessionNext, HostStep

LEMMA WindowStep ==
  ASSUME SessionInv, [SessionNext]_sessionVars
  PROVE  WindowPart'
<1>1. WindowPart /\ HostPart
  BY DEF SessionInv, LineInv
<1> USE DEF WindowPart, ConnectionState
<1>2. Event \/ Call \/ DeviceStep \/ UNCHANGED sessionVars => WindowPart'
  BY <1>1 DEF Event, OpenFile, Connect, Choose, onReconnectTimer, Call, DeviceStep, Serve,
     AnswerLost, DeviceReset, DeviceStartsUp, sessionVars, host, window, line
<1>3. ASSUME NEW ok \in BOOLEAN,
             \/ EnterReturned(ok) \/ HashReturned(ok) \/ RemoteHashReturned(ok)
             \/ DescriptorReturned(ok) \/ EraseReturned(ok) \/ InitReturned(ok)
             \/ BlockReturned(ok) \/ VerifyReturned(ok)
             \/ LastDescriptorReturned(ok) \/ RunReturned(ok)
      PROVE  WindowPart'
  BY <1>1, <1>3 DEF EnterReturned, HashReturned, RemoteHashReturned, DescriptorReturned,
     EraseReturned, InitReturned, BlockReturned, VerifyReturned, LastDescriptorReturned,
     RunReturned, Returns, window
<1>4. CASE TakeDescriptors
  <2>1. (InfoComplete \/ remoteDeviceInfo) \in BOOLEAN
    OBVIOUS
  <2>2. UNCHANGED <<portOpen, connState, enabled, calling>>
    BY <1>4 DEF TakeDescriptors, window, line
  <2>3. remoteDeviceInfo' = (InfoComplete \/ remoteDeviceInfo)
    BY <1>4 DEF TakeDescriptors
  <2> QED  BY <1>1, <2>1, <2>2, <2>3
<1>5. ASSUME \/ Leave \/ Found \/ recalcUIState \/ BeginTransfer
             \/ RefusalLogged
             \/ CheckPlausibility \/ InitWithoutImage \/ BlocksSent \/ SaveReport
      PROVE  WindowPart'
  BY <1>1, <1>5 DEF Leave, ClosePort, Found, recalcUIState, BeginTransfer, RefusalLogged,
     CheckPlausibility, InitWithoutImage, BlocksSent, SaveReport, window, line
<1> QED  BY <1>2, <1>3, <1>4, <1>5 DEF SessionNext, HostStep

LEMMA StackLength ==
  ASSUME stack \in Seq(Actions), stack # <<>>
  PROVE  /\ \A f : Become(f) => Len(stack') = Len(stack)
         /\ Finish => Len(stack') = Len(stack) - 1
BY DEF Become, Finish, Front

LEMMA StartLength ==
  ASSUME stack \in Seq(Actions), NEW f, Start(f)
  PROVE  Len(stack') = Len(stack) + 1
<1> DEFINE Mark(g) == [g EXCEPT !.alone = FALSE, !.logged = TRUE]
           marked == [n \in 1 .. Len(stack) |-> Mark(stack[n])]
<1>1. stack' = Append(marked, f)
  BY DEF Start
<1> HIDE DEF Mark
<1>2. marked \in Seq({Mark(stack[n]) : n \in 1 .. Len(stack)}) /\ Len(marked) = Len(stack)
  OBVIOUS
<1> HIDE DEF marked
<1> QED  BY <1>1, <1>2

LEMMA WireBound ==
  ASSUME SessionInv, [SessionNext]_sessionVars
  PROVE  Len(wire') <= WireCap
<1>1. wire \in Seq(Sent) /\ Len(wire) <= WireCap /\ WireCap \in Nat
  BY SessionAssumption DEF SessionInv, LineInv, WirePart, BoundPart
<1>2. CASE UNCHANGED wire
  BY <1>1, <1>2
<1>3. CASE Call
  BY <1>1, <1>3 DEF Call
<1>4. ASSUME NEW step, NEW ok, Returns(step, ok)
      PROVE  Len(wire') <= WireCap
  <2>1. CASE TimedOut
    <3>1. Len([n \in 1 .. Len(wire) |-> GivenUp(wire[n])]) = Len(wire)
      BY <1>1
    <3> QED  BY <1>1, <2>1, <3>1 DEF TimedOut
  <2> QED  BY <1>1, <1>4, <2>1 DEF Returns, Answered
<1>5. ASSUME NEW ok \in BOOLEAN,
             \/ EnterReturned(ok) \/ HashReturned(ok) \/ RemoteHashReturned(ok)
             \/ DescriptorReturned(ok) \/ LastDescriptorReturned(ok)
             \/ EraseReturned(ok) \/ InitReturned(ok) \/ BlockReturned(ok)
             \/ VerifyReturned(ok) \/ RunReturned(ok)
      PROVE  Len(wire') <= WireCap
  BY <1>4, <1>5 DEF EnterReturned, HashReturned, RemoteHashReturned,
     DescriptorReturned, LastDescriptorReturned, EraseReturned, InitReturned,
     BlockReturned, VerifyReturned, RunReturned
<1>6. CASE Serve \/ DeviceReset
  BY <1>1, <1>6 DEF Serve, DeviceReset
<1>7. Event \/ UNCHANGED sessionVars => UNCHANGED wire
  BY DEF Event, OpenFile, Connect, Choose, onReconnectTimer, sessionVars, line
<1>8. ASSUME \/ Leave \/ Found \/ recalcUIState \/ BeginTransfer
             \/ RefusalLogged \/ TakeDescriptors
             \/ CheckPlausibility \/ InitWithoutImage \/ BlocksSent \/ SaveReport
      PROVE  UNCHANGED wire
  BY <1>8 DEF Leave, Found, recalcUIState, BeginTransfer, RefusalLogged, TakeDescriptors,
     CheckPlausibility, InitWithoutImage, BlocksSent, SaveReport, line
<1>9. DeviceStep => Serve \/ DeviceReset \/ UNCHANGED wire
  BY DEF DeviceStep, AnswerLost, DeviceStartsUp, line
<1> QED  BY <1>2, <1>3, <1>5, <1>6, <1>7, <1>8, <1>9 DEF SessionNext, HostStep

LEMMA StackBound ==
  ASSUME SessionInv, [SessionNext]_sessionVars
  PROVE  Len(stack') <= MaxDepth
<1>1. /\ stack \in Seq(Actions) /\ Len(stack) <= MaxDepth
      /\ MaxDepth \in Nat \ {0}
  BY SessionAssumption DEF SessionInv, LineInv, HostPart, BoundPart
<1>2. CASE UNCHANGED stack
  BY <1>1, <1>2
<1>3. ASSUME NEW act, HandlesEvents(act), NEW f, Start(f)
      PROVE  Len(stack') <= MaxDepth
  <2>1. Len(stack) < MaxDepth
    BY <1>1, <1>3 DEF HandlesEvents
  <2> QED  BY <1>1, <1>3, <2>1, StartLength
<1>4. CASE Event
  BY <1>1, <1>2, <1>3, <1>4 DEF Event, OpenFile, Connect, Choose, onReconnectTimer
<1>5. ASSUME stack # <<>>, Finish \/ \E f : Become(f)
      PROVE  Len(stack') <= MaxDepth
  BY <1>1, <1>5, StackLength
<1>6. ASSUME NEW ok \in BOOLEAN,
             \/ EnterReturned(ok) \/ HashReturned(ok) \/ RemoteHashReturned(ok)
             \/ DescriptorReturned(ok) \/ LastDescriptorReturned(ok)
             \/ EraseReturned(ok) \/ InitReturned(ok) \/ BlockReturned(ok)
             \/ VerifyReturned(ok) \/ RunReturned(ok)
      PROVE  stack # <<>> /\ (Finish \/ \E f : Become(f))
  BY <1>6 DEF EnterReturned, HashReturned, RemoteHashReturned,
     DescriptorReturned, LastDescriptorReturned, EraseReturned, InitReturned,
     BlockReturned, VerifyReturned, RunReturned, ClosePort, Returns
<1>7. ASSUME \/ Leave \/ Found \/ recalcUIState \/ BeginTransfer
             \/ RefusalLogged \/ TakeDescriptors
             \/ CheckPlausibility \/ InitWithoutImage \/ BlocksSent \/ SaveReport
      PROVE  stack # <<>> /\ (Finish \/ \E f : Become(f))
  BY <1>7 DEF Leave, ClosePort, Found, recalcUIState, BeginTransfer, RefusalLogged, TakeDescriptors,
     CheckPlausibility, InitWithoutImage, BlocksSent, SaveReport, At
<1>8. Call \/ DeviceStep \/ UNCHANGED sessionVars => UNCHANGED stack
  BY DEF Call, DeviceStep, Serve, AnswerLost, DeviceReset, DeviceStartsUp, sessionVars, host
<1> QED  BY <1>2, <1>4, <1>5, <1>6, <1>7, <1>8 DEF SessionNext, HostStep

LEMMA NextSessionInv == SessionInv /\ [SessionNext]_sessionVars => SessionInv'
BY WireStep, HostPartStep, WindowStep, WireBound, StackBound
   DEF SessionInv, LineInv, BoundPart

\* Host and line keep their types, for every nesting of actions and every
\* capacity of the line; only blocks that exist are ever sent.
THEOREM SessionTypeCorrect == SessionSpec => []SessionTypeOK
<1>1. SessionInv => SessionTypeOK
  <2> SUFFICES ASSUME SessionInv PROVE SessionTypeOK
    OBVIOUS
  <2>1. wire \in Seq(Requests) /\ \A request \in Range(wire) : request \in Sent
    BY DEF SessionInv, LineInv, WirePart, Sent, Range
  <2> QED  BY <2>1 DEF SessionInv, LineInv, WirePart, HostPart, WindowPart, BoundPart,
                      SessionTypeOK, Sent
<1> QED  BY <1>1, InitSessionInv, NextSessionInv, PTL DEF SessionSpec

\* The device behind the line is the programmer: whatever the host, the user
\* and the line do, it takes only steps Programmer allows.
THEOREM SessionImplementsProgrammer == SessionSpec => Spec
<1>1. SessionInit => Init
  BY DEF SessionInit
<1>2. SessionInv /\ [SessionNext]_sessionVars => [Next]_vars
  BY SessionStepIsStep DEF SessionInv
<1> QED  BY <1>1, <1>2, InitSessionInv, NextSessionInv, PTL DEF SessionSpec, Spec

\* In every update, also one that was cut off, repeated or mixed up with
\* another one, the descriptor of the device certifies only what its flash
\* holds.
THEOREM SessionVerifiedIntact == SessionSpec => []VerifiedIntact
BY SessionImplementsProgrammer, VerifiedAlwaysIntact
-----------------------------------------------------------------------------
(* What an update knows of the device it erases                             *)

\* Only the running action may be alone.
AlonePart == \A n \in 1 .. Len(stack) : n < Len(stack) => ~stack[n].alone

KnownOf(f, waiting, info) ==
  /\ f.at \in {"mcu", "device", "firmware", "answered", "plausibility"} => f.img \in Images
  /\ f.at = "mcu" /\ waiting => ~info
  /\ f.at \in {"device", "firmware", "answered"} => ~info
  /\ f.at = "plausibility" /\ info => f.infoOK
  /\ f.at = "erase" => f.infoOK

Known(f) == KnownOf(f, calling, remoteDeviceInfo)
\* ... and what will be known of it after the step.
KnownNext(f) == KnownOf(f, calling', remoteDeviceInfo')

KnownPart == stack # <<>> /\ Top.act = "transfer" /\ Top.alone => Known(Top)

\* The descriptors of a device that did not answer are all zero: no image fits.
LEMMA UnknownIsImplausible ==
  ASSUME ~remoteDeviceInfo, NEW i \in Images
  PROVE  showWarngingMessage(checkPlausibility(DeviceDescriptors, ImageMetaData(i))) = {FALSE}
<1> DEFINE results == checkPlausibility(DeviceDescriptors, ImageMetaData(i))
<1>1. DeviceDescriptors = UnSet
  BY DEF DeviceDescriptors
<1>2. /\ BlocksOf[i] \in Nat \ {0} /\ BlocksOf[i] < AddressSpace
      /\ EntryOf[i] \in Nat /\ AddressSpace \in Nat \ {0}
  BY ImagesAssumption, FlashAssumption, SessionAssumption, AddressSpaceAssumption
<1>3. /\ ImageMetaData(i).entryPoint = EntryOf[i] /\ ImageMetaData(i).size = BlocksOf[i]
      /\ UnSet.minimalFirmwareEntryPoint = 0 /\ UnSet.availFlashSize = 0
      /\ UnSet.firmwareEntryPoint = 0
  BY DEF ImageMetaData, UnSet
<1>4. CASE EntryOf[i] = 0
  <2>1. (EntryOf[i] + BlocksOf[i]) % AddressSpace = BlocksOf[i]
    BY <1>2, <1>4
  <2>2. (0 + 0) % AddressSpace = 0
    BY <1>2
  <2>3. TooBig(UnSet, ImageMetaData(i))
    BY <1>2, <1>3, <2>1, <2>2 DEF TooBig
  <2>4. "error_firmwareimage_too_big" \in results
    BY <1>1, <2>3 DEF checkPlausibility, When
  <2> QED  BY <2>4 DEF showWarngingMessage, plausibilityResultIsError
<1>5. CASE EntryOf[i] # 0
  <2>1. WrongEntryPoint(UnSet, ImageMetaData(i))
    BY <1>2, <1>3, <1>5 DEF WrongEntryPoint, AnyEntryPoint
  <2>2. "error_wrong_entrypoint" \in results
    BY <1>1, <2>1 DEF checkPlausibility, When
  <2> QED  BY <2>2 DEF showWarngingMessage, plausibilityResultIsError
<1> QED  BY <1>4, <1>5

LEMMA StartKnown ==
  ASSUME stack \in Seq(Actions), NEW f, f.act = "transfer" => f.at = "begin", Start(f)
  PROVE  AlonePart' /\ KnownPart'
<1> DEFINE Mark(g) == [g EXCEPT !.alone = FALSE, !.logged = TRUE]
           marked == [n \in 1 .. Len(stack) |-> Mark(stack[n])]
<1>1. \A g \in Actions : Mark(g).alone = FALSE
  BY DEF Actions
<1>2. stack' = Append(marked, f)
  BY DEF Start
<1> HIDE DEF Mark
<1>3. \A n \in 1 .. Len(stack) : marked[n].alone = FALSE
  BY <1>1
<1>4. marked \in Seq({Mark(stack[n]) : n \in 1 .. Len(stack)}) /\ Len(marked) = Len(stack)
  OBVIOUS
<1> HIDE DEF marked
<1>5. stack'[Len(stack')] = f /\ Len(stack') = Len(stack) + 1
  BY <1>2, <1>4
<1>6. AlonePart'
  BY <1>2, <1>3, <1>4, <1>5 DEF AlonePart
<1>7. KnownPart'
  BY <1>5 DEF KnownPart, Known, KnownOf, Top, Last
<1> QED  BY <1>6, <1>7

LEMMA FrontElements ==
  ASSUME stack \in Seq(Actions), stack # <<>>
  PROVE  /\ Front(stack) \in Seq(Actions) /\ Len(Front(stack)) = Len(stack) - 1
         /\ Len(stack) \in Nat \ {0}
         /\ \A n \in 1 .. Len(stack) - 1 : Front(stack)[n] = stack[n]
<1>1. Len(stack) \in Nat \ {0}
  OBVIOUS
<1>2. Front(stack) = SubSeq(stack, 1, Len(stack) - 1)
  BY DEF Front
<1> DEFINE s == stack
           m == Len(stack) - 1
<1>3. /\ s \in Seq(Actions) /\ m \in Nat /\ m < Len(s) /\ Front(stack) = SubSeq(s, 1, m)
  BY <1>1, <1>2
<1>4. Front(stack) \in Seq(Actions)
  BY DEF Front
<1> HIDE DEF s, m
<1>5. Len(SubSeq(s, 1, m)) = m
  BY <1>3
<1>6. \A n \in 1 .. m : SubSeq(s, 1, m)[n] = s[n]
  BY <1>3
<1> QED  BY <1>1, <1>3, <1>4, <1>5, <1>6 DEF s, m

LEMMA FinishKnown ==
  ASSUME stack \in Seq(Actions), stack # <<>>, AlonePart, Finish
  PROVE  AlonePart' /\ KnownPart'
<1>1. /\ Len(stack') = Len(stack) - 1
      /\ \A n \in 1 .. Len(stack') : stack'[n] = stack[n] /\ ~stack[n].alone
  BY FrontElements DEF Finish, AlonePart
<1>2. AlonePart'
  BY <1>1 DEF AlonePart
<1>3. stack' # <<>> => Len(stack') \in 1 .. Len(stack')
  <2>1. stack' \in Seq(Actions)
    BY DEF Finish, Front
  <2> QED  BY <2>1
<1>4. stack' # <<>> => ~Top'.alone
  BY <1>1, <1>3 DEF Top, Last
<1>5. KnownPart'
  BY <1>4 DEF KnownPart
<1> QED  BY <1>2, <1>5

LEMMA BecomeKnown ==
  ASSUME stack \in Seq(Actions), stack # <<>>, AlonePart, NEW f, Become(f),
         f.act = "transfer" /\ f.alone => KnownNext(f)
  PROVE  AlonePart' /\ KnownPart'
<1>1. /\ Len(stack') = Len(stack) /\ stack'[Len(stack')] = f
      /\ \A n \in 1 .. Len(stack') : n < Len(stack) => stack'[n] = stack[n]
  <2> DEFINE front == Front(stack)
  <2>1. /\ front \in Seq(Actions) /\ Len(front) = Len(stack) - 1
        /\ Len(stack) \in Nat \ {0} /\ stack' = Append(front, f)
        /\ \A n \in 1 .. Len(stack) - 1 : front[n] = stack[n]
    BY FrontElements DEF Become
  <2> HIDE DEF front
  <2>2. Len(stack') = Len(front) + 1 /\ stack'[Len(front) + 1] = f
        /\ \A n \in 1 .. Len(front) : stack'[n] = front[n]
    BY <2>1
  <2> QED  BY <2>1, <2>2
<1>2. AlonePart'
  BY <1>1 DEF AlonePart
<1>3. Top' = f
  BY <1>1 DEF Top, Last
<1>4. KnownPart'
  BY <1>3 DEF KnownPart, KnownNext, Known
<1> QED  BY <1>2, <1>4

\* A step that leads an update past every step at which something is known.
LEMMA GoOnKnown ==
  ASSUME stack \in Seq(Actions), stack # <<>>, AlonePart, NEW f,
         f.at \notin {"mcu", "device", "firmware", "answered", "plausibility", "erase"},
         Become(f)
  PROVE  AlonePart' /\ KnownPart'
<1>1. KnownNext(f)
  BY DEF KnownNext, KnownOf
<1> QED  BY <1>1, BecomeKnown

LEMMA OtherKnown ==
  ASSUME stack \in Seq(Actions), stack # <<>>, AlonePart, NEW f,
         f.act # "transfer", Become(f)
  PROVE  AlonePart' /\ KnownPart'
BY BecomeKnown

LEMMA EventKnown ==
  ASSUME HostPart, AlonePart, KnownPart, Event
  PROVE  AlonePart' /\ KnownPart'
<1>1. stack \in Seq(Actions)
  BY DEF HostPart
<1>2. ASSUME UNCHANGED <<stack, calling, remoteDeviceInfo>>
      PROVE  AlonePart' /\ KnownPart'
  BY <1>2 DEF AlonePart, KnownPart, Known, KnownOf, Top, Last
<1>3. CASE OpenFile
  <2>1. ASSUME NEW at, Start(Action("file", at))
        PROVE  AlonePart' /\ KnownPart'
    BY <1>1, <2>1, StartKnown DEF Action
  <2> QED  BY <1>3, <2>1 DEF OpenFile
<1>4. CASE Connect
  <2>1. ASSUME NEW at, Start(Action("port", at))
        PROVE  AlonePart' /\ KnownPart'
    BY <1>1, <2>1, StartKnown DEF Action
  <2> QED  BY <1>4, <2>1 DEF Connect
<1>5. CASE Choose
  <2>1. \/ Start(Action("transfer", "begin")) \/ Start(Action("erase", "erase"))
        \/ Start(Action("info", "mcu")) \/ Start(Action("run", "run"))
    BY <1>5 DEF Choose
  <2> QED  BY <1>1, <2>1, StartKnown DEF Action
<1>6. CASE onReconnectTimer
  BY <1>1, <1>6, StartKnown DEF onReconnectTimer, Action
<1> QED  BY <1>3, <1>4, <1>5, <1>6 DEF Event

LEMMA ConnectingKnown ==
  ASSUME HostPart, AlonePart,
         \/ \E ok \in BOOLEAN : \/ EnterReturned(ok) \/ HashReturned(ok)
                                \/ RemoteHashReturned(ok) \/ RunReturned(ok)
         \/ Leave \/ Found \/ recalcUIState
  PROVE  AlonePart' /\ KnownPart'
<1>1. stack \in Seq(Actions)
  BY DEF HostPart
<1>2. ASSUME stack # <<>>, ClosePort PROVE AlonePart' /\ KnownPart'
  BY <1>1, <1>2, OtherKnown DEF ClosePort, Action
<1>3. ASSUME stack # <<>>, NEW step \in {"hash", "found", "remote_hash", "leaving"},
             Become(GoOn(Top, step))
      PROVE  AlonePart' /\ KnownPart'
  <2>1. GoOn(Top, step).at = step
    BY <1>1, <1>3, TopAction DEF GoOn, Actions
  <2> QED  BY <1>1, <1>3, <2>1, GoOnKnown
<1>4. ASSUME NEW ok \in BOOLEAN, EnterReturned(ok)
      PROVE  AlonePart' /\ KnownPart'
  BY <1>1, <1>3, <1>4, FinishKnown DEF EnterReturned, Returns
<1>5. ASSUME NEW ok \in BOOLEAN, HashReturned(ok) \/ RemoteHashReturned(ok)
      PROVE  AlonePart' /\ KnownPart'
  BY <1>3, <1>5 DEF HashReturned, RemoteHashReturned, Returns
<1>6. ASSUME NEW ok \in BOOLEAN, RunReturned(ok)
      PROVE  AlonePart' /\ KnownPart'
  BY <1>3, <1>6 DEF RunReturned, Returns
<1>7. CASE Leave
  BY <1>2, <1>7 DEF Leave, At
<1>8. CASE Found
  BY <1>1, <1>8, OtherKnown DEF Found, At, Action
<1>9. CASE recalcUIState
  <2>1. stack # <<>>
    BY <1>9 DEF recalcUIState, At
  <2>2. CASE Top.act = "info"
    <3>1. GoOn(Top, "mcu").act = "info"
      BY <1>1, <2>1, <2>2, TopAction DEF GoOn, Actions
    <3> QED  BY <1>1, <1>9, <2>1, <2>2, <3>1, OtherKnown DEF recalcUIState
  <2> QED  BY <1>1, <1>9, <2>1, <2>2, FinishKnown DEF recalcUIState
<1> QED  BY <1>4, <1>5, <1>6, <1>7, <1>8, <1>9

\* The fields the steps of an update keep.
SameAct(g, f) == g.act = f.act /\ g.alone = f.alone /\ g.img = f.img

LEMMA GoOnFields ==
  ASSUME NEW f \in Actions, NEW step \in HostSteps
  PROVE  /\ GoOn(f, step) \in Actions /\ SameAct(GoOn(f, step), f)
         /\ GoOn(f, step).at = step /\ GoOn(f, step).infoOK = f.infoOK
BY DEF GoOn, Actions, SameAct

Kept(g, f) == SameAct(g, f) /\ g.at = f.at

LEMMA OtherFields ==
  ASSUME NEW f \in Actions, NEW ok \in BOOLEAN, NEW infoOK \in BOOLEAN, NEW k \in Nat
  PROVE  /\ Kept([f EXCEPT !.ok = ok], f) /\ [f EXCEPT !.ok = ok].infoOK = f.infoOK
         /\ Kept([f EXCEPT !.ok = ok, !.k = k], f) /\ Kept([f EXCEPT !.k = k], f)
         /\ Kept([f EXCEPT !.infoOK = infoOK], f)
         /\ Kept([f EXCEPT !.ok = ok, !.infoOK = infoOK], f)
         /\ [f EXCEPT !.ok = ok, !.infoOK = infoOK].infoOK = infoOK
BY DEF Actions, SameAct, Kept

LEMMA ImageField ==
  ASSUME NEW f \in Actions, NEW i
  PROVE  [f EXCEPT !.img = i].img = i /\ [f EXCEPT !.img = i].at = f.at
BY DEF Actions

LEMMA UpdateSteps ==
  {"refused", "report", "mcu", "device", "firmware", "answered", "plausibility", "erase",
   "init", "write", "verify"} \subseteq HostSteps
BY DEF HostSteps, CallSteps, EventSteps

LEMMA CallKnown ==
  ASSUME AlonePart, KnownPart, Call
  PROVE  AlonePart' /\ KnownPart'
<1>1. UNCHANGED stack /\ Top' = Top
  BY DEF Call, Top, Last
<1>2. AlonePart'
  BY <1>1 DEF AlonePart
<1>3. Top.at = "mcu" => ~remoteDeviceInfo'
  BY DEF Call
<1>4. Top.at # "mcu" => UNCHANGED remoteDeviceInfo
  BY DEF Call
<1>5. KnownPart'
  BY <1>1, <1>3, <1>4 DEF KnownPart, KnownNext, Known, KnownOf
<1> QED  BY <1>2, <1>5

\* An update begins with its image, or ends without one.
LEMMA ImageKnown ==
  ASSUME stack \in Seq(Actions), stack # <<>>, AlonePart, ~calling',
         NEW i \in Images \union {NoImage}, NEW step \in {"mcu", "refused", "report"},
         step = "mcu" => i # NoImage,
         Become([GoOn(Top, step) EXCEPT !.img = i])
  PROVE  AlonePart' /\ KnownPart'
<1> DEFINE f == [GoOn(Top, step) EXCEPT !.img = i]
<1>1. step \in HostSteps /\ Top \in Actions
  BY UpdateSteps, TopAction
<1>2. f.img = i /\ f.at = step
  BY <1>1, GoOnFields, ImageField
<1>3. Become(f)
  OBVIOUS
<1> HIDE DEF f
<1>4. KnownNext(f)
  BY <1>2 DEF KnownNext, KnownOf
<1> QED  BY <1>3, <1>4, BecomeKnown

LEMMA BeginKnown ==
  ASSUME HostPart, AlonePart, BeginTransfer
  PROVE  AlonePart' /\ KnownPart'
<1>1. stack \in Seq(Actions) /\ stack # <<>> /\ ~calling'
  BY DEF HostPart, BeginTransfer, At, line
<1>2. PICK i \in Images \union {NoImage} :
        Become([GoOn(Top, IF i # NoImage THEN "mcu"
                          ELSE IF fwImage # NoImage THEN "refused" ELSE "report")
                  EXCEPT !.img = i])
  BY DEF BeginTransfer
<1> DEFINE step == IF i # NoImage THEN "mcu"
                   ELSE IF fwImage # NoImage THEN "refused" ELSE "report"
<1>3. step \in {"mcu", "refused", "report"} /\ (step = "mcu" => i # NoImage)
  OBVIOUS
<1> QED  BY <1>1, <1>2, <1>3, ImageKnown

LEMMA RefusalKnown ==
  ASSUME HostPart, AlonePart, RefusalLogged
  PROVE  AlonePart' /\ KnownPart'
<1>1. stack \in Seq(Actions) /\ stack # <<>> /\ ~calling'
  BY DEF HostPart, RefusalLogged, At, line
<1>2. CASE Top.act = "file"
  <2>1. GoOn(Top, Recalc(connState)).act = "file"
    BY <1>1, <1>2, TopAction DEF GoOn, Actions
  <2> QED  BY <1>1, <1>2, <2>1, OtherKnown DEF RefusalLogged
<1>3. CASE Top.act # "file"
  <2> DEFINE step == IF fwImage # NoImage THEN "mcu" ELSE "report"
  <2>1. /\ step \in {"mcu", "refused", "report"} /\ (step = "mcu" => fwImage # NoImage)
        /\ fwImage \in Images \union {NoImage}
    BY DEF HostPart
  <2>2. Become([GoOn(Top, step) EXCEPT !.img = fwImage])
    BY <1>3 DEF RefusalLogged
  <2> QED  BY <1>1, <2>1, <2>2, ImageKnown
<1> QED  BY <1>2, <1>3

\* The questions of an update: nothing is known while they are asked, and
\* everything is known at their end if every one was answered.
LEMMA DescriptorKnown ==
  ASSUME HostPart, AlonePart, KnownPart, NEW ok \in BOOLEAN, DescriptorReturned(ok)
  PROVE  AlonePart' /\ KnownPart'
<1>1. stack \in Seq(Actions) /\ stack # <<>> /\ Top \in Actions
  BY TopAction DEF HostPart, DescriptorReturned, Returns
<1>2. Top.at \in {"mcu", "device"} /\ calling /\ UNCHANGED remoteDeviceInfo
  BY DEF DescriptorReturned, Returns
<1>3. ASSUME NEW f, Become(f), SameAct(f, Top), f.at \in {"device", "firmware"}
      PROVE  AlonePart' /\ KnownPart'
  <2>1. f.act = "transfer" /\ f.alone => KnownNext(f)
    BY <1>1, <1>2, <1>3 DEF KnownPart, KnownNext, Known, KnownOf, SameAct
  <2> QED  BY <1>1, <1>3, <2>1, BecomeKnown
<1>4. CASE Become([GoOn(Top, "device") EXCEPT !.infoOK = ok])
  <2> DEFINE f == [GoOn(Top, "device") EXCEPT !.infoOK = ok]
  <2>1. GoOn(Top, "device") \in Actions
    BY <1>1, UpdateSteps, GoOnFields
  <2>2. Kept(f, GoOn(Top, "device"))
    BY <2>1, OtherFields
  <2> HIDE DEF f
  <2>3. SameAct(f, Top) /\ f.at = "device"
    BY <1>1, <2>2, UpdateSteps, GoOnFields DEF SameAct, Kept
  <2> QED  BY <1>3, <1>4, <2>3 DEF f
<1>5. CASE Become([GoOn(Top, "firmware") EXCEPT !.infoOK = @ /\ ok])
  <2> DEFINE f == [GoOn(Top, "firmware") EXCEPT !.infoOK = @ /\ ok]
  <2>1. (GoOn(Top, "firmware").infoOK /\ ok) \in BOOLEAN
    OBVIOUS
  <2>2. GoOn(Top, "firmware") \in Actions
    BY <1>1, UpdateSteps, GoOnFields
  <2>3. Kept(f, GoOn(Top, "firmware"))
    BY <2>1, <2>2, OtherFields
  <2> HIDE DEF f
  <2>4. SameAct(f, Top) /\ f.at = "firmware"
    BY <1>1, <2>3, UpdateSteps, GoOnFields DEF SameAct, Kept
  <2> QED  BY <1>3, <1>5, <2>4 DEF f
<1> QED  BY <1>4, <1>5 DEF DescriptorReturned

LEMMA LastDescriptorKnown ==
  ASSUME HostPart, AlonePart, KnownPart, NEW ok \in BOOLEAN, LastDescriptorReturned(ok)
  PROVE  AlonePart' /\ KnownPart'
<1>1. /\ stack \in Seq(Actions) /\ stack # <<>> /\ Top \in Actions
      /\ Top.at = "firmware" /\ UNCHANGED remoteDeviceInfo
  BY TopAction DEF HostPart, LastDescriptorReturned, Returns
<1> DEFINE infoOK == GoOn(Top, "answered").infoOK /\ ok
           f == [GoOn(Top, "answered") EXCEPT !.ok = ok, !.infoOK = infoOK]
<1>2. infoOK \in BOOLEAN
  OBVIOUS
<1>3. Become(f)
  BY DEF LastDescriptorReturned
<1>4. GoOn(Top, "answered") \in Actions
  BY <1>1, UpdateSteps, GoOnFields
<1> HIDE DEF infoOK
<1>5. Kept(f, GoOn(Top, "answered"))
  BY <1>2, <1>4, OtherFields
<1> HIDE DEF f
<1>6. SameAct(f, Top) /\ f.at = "answered"
  BY <1>1, <1>5, UpdateSteps, GoOnFields DEF SameAct, Kept
<1>7. f.act = "transfer" /\ f.alone => KnownNext(f)
  BY <1>1, <1>6 DEF KnownPart, KnownNext, Known, KnownOf, SameAct
<1> QED  BY <1>1, <1>3, <1>7, BecomeKnown

LEMMA TakeDescriptorsKnown ==
  ASSUME HostPart, AlonePart, KnownPart, TakeDescriptors
  PROVE  AlonePart' /\ KnownPart'
<1>1. /\ stack \in Seq(Actions) /\ stack # <<>> /\ Top \in Actions
      /\ Top.at = "answered"
  BY TopAction DEF HostPart, TakeDescriptors, At
<1>2. CASE Top.act # "transfer"
  BY <1>1, <1>2, FinishKnown DEF TakeDescriptors
<1>3. CASE Top.act = "transfer"
  <2> DEFINE f == GoOn(Top, "plausibility")
  <2>1. SameAct(f, Top) /\ f.at = "plausibility" /\ f.infoOK = Top.infoOK
    BY <1>1, UpdateSteps, GoOnFields
  <2>2. Become(f) /\ remoteDeviceInfo' = (Top.infoOK \/ remoteDeviceInfo)
    BY <1>3 DEF TakeDescriptors, InfoComplete
  <2> HIDE DEF f
  <2>3. Top.alone => Top.img \in Images /\ ~remoteDeviceInfo
    BY <1>1, <1>3 DEF KnownPart, Known, KnownOf
  <2>4. f.act = "transfer" /\ f.alone => KnownNext(f)
    BY <2>1, <2>2, <2>3 DEF KnownNext, KnownOf, SameAct
  <2> QED  BY <1>1, <2>2, <2>4, BecomeKnown
<1> QED  BY <1>2, <1>3

LEMMA PlausibilityKnown ==
  ASSUME HostPart, AlonePart, KnownPart, CheckPlausibility
  PROVE  AlonePart' /\ KnownPart'
<1>1. stack \in Seq(Actions) /\ stack # <<>> /\ Top \in Actions /\ Top.at = "plausibility"
  BY TopAction DEF HostPart, CheckPlausibility, At
<1> DEFINE verdicts == checkPlausibility(DeviceDescriptors, ImageMetaData(Top.img))
<1>2. PICK confirmed \in showWarngingMessage(verdicts) :
        Become([GoOn(Top, IF confirmed THEN "erase" ELSE "report") EXCEPT !.ok = @ /\ confirmed])
  BY DEF CheckPlausibility
<1> DEFINE step == IF confirmed THEN "erase" ELSE "report"
           ok == GoOn(Top, step).ok /\ confirmed
           f == [GoOn(Top, step) EXCEPT !.ok = ok]
<1>3. confirmed \in BOOLEAN
  BY <1>2 DEF showWarngingMessage
<1>4. step \in HostSteps /\ ok \in BOOLEAN
  BY <1>3, UpdateSteps
<1>5. Become(f)
  BY <1>2
<1> HIDE DEF step, ok
<1>6. Kept(f, GoOn(Top, step)) /\ f.infoOK = GoOn(Top, step).infoOK
  <2>1. GoOn(Top, step) \in Actions
    BY <1>1, <1>4, GoOnFields
  <2> QED  BY <1>4, <2>1, OtherFields
<1> HIDE DEF f
<1>7. SameAct(f, Top) /\ f.at = step /\ f.infoOK = Top.infoOK
  BY <1>1, <1>4, <1>6, GoOnFields DEF SameAct, Kept
<1>8. Top.act = "transfer" /\ Top.alone /\ confirmed = TRUE => Top.infoOK
  <2> SUFFICES ASSUME Top.act = "transfer", Top.alone, confirmed = TRUE
               PROVE  Top.infoOK
    OBVIOUS
  <2>1. Top.img \in Images /\ (remoteDeviceInfo => Top.infoOK)
    BY <1>1 DEF KnownPart, Known, KnownOf
  <2>2. remoteDeviceInfo
    <3> SUFFICES ASSUME ~remoteDeviceInfo PROVE FALSE
      OBVIOUS
    <3>1. showWarngingMessage(verdicts) = {FALSE}
      BY <2>1, UnknownIsImplausible
    <3> QED  BY <1>2, <3>1
  <2> QED  BY <2>1, <2>2
<1>9. step = "erase" => confirmed = TRUE
  BY <1>3 DEF step
<1>10. step \in {"erase", "report"}
  BY DEF step
<1>11. f.act = "transfer" /\ f.alone => KnownNext(f)
  BY <1>7, <1>8, <1>9, <1>10 DEF KnownNext, KnownOf, SameAct
<1> QED  BY <1>1, <1>5, <1>11, BecomeKnown

LEMMA TransferKnown ==
  ASSUME HostPart, AlonePart,
         \/ \E ok \in BOOLEAN : \/ EraseReturned(ok) \/ InitReturned(ok)
                                \/ BlockReturned(ok) \/ VerifyReturned(ok)
         \/ InitWithoutImage \/ BlocksSent \/ SaveReport
  PROVE  AlonePart' /\ KnownPart'
<1>1. stack \in Seq(Actions) /\ stack # <<>> /\ Top \in Actions
  <2>1. stack # <<>>
    BY DEF EraseReturned, InitReturned, BlockReturned, VerifyReturned, InitWithoutImage,
       BlocksSent, SaveReport, Returns, At
  <2> QED  BY <2>1, TopAction DEF HostPart
<1> DEFINE Later == {"init", "write", "verify", "report"}
<1>2. CASE Finish
  BY <1>1, <1>2, FinishKnown
<1>3. CASE SaveReport
  BY <1>1, <1>3, OtherKnown DEF SaveReport, Action
<1>4. ASSUME NEW f, Become(f), f.at \in Later PROVE AlonePart' /\ KnownPart'
  BY <1>1, <1>4, GoOnKnown
<1>5. ASSUME NEW step \in Later
      PROVE  GoOn(Top, step) \in Actions /\ GoOn(Top, step).at = step
  BY <1>1, UpdateSteps, GoOnFields
<1>6. ASSUME NEW step \in Later, NEW ok \in BOOLEAN, NEW k \in Nat
      PROVE  /\ [GoOn(Top, step) EXCEPT !.ok = ok].at \in Later
             /\ [GoOn(Top, step) EXCEPT !.k = k].at \in Later
             /\ [GoOn(Top, step) EXCEPT !.ok = ok, !.k = k].at \in Later
  <2>1. GoOn(Top, step) \in Actions /\ GoOn(Top, step).at = step
    BY <1>5
  <2>2. /\ Kept([GoOn(Top, step) EXCEPT !.ok = ok], GoOn(Top, step))
        /\ Kept([GoOn(Top, step) EXCEPT !.k = k], GoOn(Top, step))
        /\ Kept([GoOn(Top, step) EXCEPT !.ok = ok, !.k = k], GoOn(Top, step))
    BY <2>1, OtherFields
  <2> QED  BY <2>1, <2>2 DEF Kept
<1>7. ASSUME NEW step \in Later, NEW ok \in BOOLEAN,
             Become([GoOn(Top, step) EXCEPT !.ok = @ /\ ok])
      PROVE  AlonePart' /\ KnownPart'
  <2>1. (GoOn(Top, step).ok /\ ok) \in BOOLEAN
    OBVIOUS
  <2> QED  BY <1>4, <1>6, <1>7, <2>1
<1>8. CASE InitWithoutImage
  BY <1>4, <1>6, <1>8 DEF InitWithoutImage
<1>9. CASE BlocksSent
  BY <1>4, <1>6, <1>9 DEF BlocksSent
<1>10. ASSUME NEW ok \in BOOLEAN, EraseReturned(ok)
       PROVE  AlonePart' /\ KnownPart'
  <2>1. (IF ok THEN "init" ELSE "report") \in Later
    OBVIOUS
  <2> QED  BY <1>2, <1>7, <1>10, <2>1 DEF EraseReturned
<1>11. ASSUME NEW ok \in BOOLEAN, InitReturned(ok)
       PROVE  AlonePart' /\ KnownPart'
  <2>1. (IF ok THEN "write" ELSE "report") \in Later
    OBVIOUS
  <2> QED  BY <1>7, <1>11, <2>1 DEF InitReturned
<1>12. ASSUME NEW ok \in BOOLEAN, VerifyReturned(ok)
       PROVE  AlonePart' /\ KnownPart'
  BY <1>7, <1>12 DEF VerifyReturned
<1>13. ASSUME NEW ok \in BOOLEAN, BlockReturned(ok)
       PROVE  AlonePart' /\ KnownPart'
  <2>1. GoOn(Top, "write").k + 1 \in Nat
    BY <1>5 DEF Actions
  <2> QED  BY <1>4, <1>6, <1>13, <2>1 DEF BlockReturned
<1> QED  BY <1>3, <1>8, <1>9, <1>10, <1>11, <1>12, <1>13

LEMMA NextKnown ==
  ASSUME SessionInv, AlonePart, KnownPart, [SessionNext]_sessionVars
  PROVE  AlonePart' /\ KnownPart'
<1>1. HostPart
  BY DEF SessionInv, LineInv
<1>2. DeviceStep \/ UNCHANGED sessionVars => UNCHANGED <<stack, calling, remoteDeviceInfo>>
  BY DEF DeviceStep, Serve, AnswerLost, DeviceReset, DeviceStartsUp, sessionVars, host, line
<1>3. CASE UNCHANGED <<stack, calling, remoteDeviceInfo>>
  BY <1>3 DEF AlonePart, KnownPart, Known, KnownOf, Top, Last
<1>4. CASE Event
  BY <1>1, <1>4, EventKnown
<1>5. CASE HostStep
  BY <1>1, <1>5, ConnectingKnown, CallKnown, BeginKnown, RefusalKnown, DescriptorKnown,
     LastDescriptorKnown, TakeDescriptorsKnown, PlausibilityKnown, TransferKnown DEF HostStep
<1> QED  BY <1>2, <1>3, <1>4, <1>5 DEF SessionNext

\* No update erases a device of which it does not know everything, whatever
\* was lost on the line and whatever the user did before: the zeros it is left
\* with make every image implausible.
THEOREM SessionErasesOnlyKnownDevice == SessionSpec => []ErasesOnlyKnownDevice
<1>1. SessionInit => AlonePart /\ KnownPart
  <2> SUFFICES ASSUME stack = <<>> PROVE AlonePart /\ KnownPart
    BY DEF SessionInit
  <2> QED  BY DEF AlonePart, KnownPart
<1>2. KnownPart => ErasesOnlyKnownDevice
  BY DEF KnownPart, Known, KnownOf, ErasesOnlyKnownDevice, At
<1> QED  BY <1>1, <1>2, InitSessionInv, NextSessionInv, NextKnown, PTL DEF SessionSpec
-----------------------------------------------------------------------------
(* The block loop and the report: what line and device are to the update    *)
(* that waits.                                                              *)

\* What the device serves while it serves no request of the host.
Main == {"none", "startup", "quick_verify"}
Pending == serving.live /\ serving.op \notin Main

\* A request that is not given up is the one the host waits for, and the last.
LivePart ==
  /\ \A n \in 1 .. Len(wire) : wire[n].live => calling /\ n = Len(wire) /\ wire[n] = NextRequest
  /\ Pending => calling /\ wire = <<>> /\ serving = NextRequest

OpenedFor(request) ==
  /\ firmwareMetaData = OpenedMeta(request.img, EntryOf[request.img], CryptoOf[request.img])
  /\ writePointer = EntryOf[request.img]

\* The call that is running is that of the request served, and what it returned
\* is the request's until the next one is served.
ServingPart ==
  /\ serving \in {NoRequest, StartingUp, Verifying} \/ serving.op \notin Main
  /\ pc = "off" => serving = StartingUp
  /\ job = "destroy" => serving.op = "startup"
  /\ job = "erase" => serving.op = "erase"
  /\ job = "open" => serving.op = "init"
  /\ job = "verify" => serving.op \in {"verify", "quick_verify"}
  /\ serving.op = "init" /\ job = "open" => OpenedFor(serving)
  /\ serving.op = "init" /\ Idle /\ result = "OK" => OpenedFor(serving) /\ cbc = Fresh
  /\ serving.op = "verify" /\ Idle /\ result = "OK" => firmwareMetaData.verified = TRUE

\* An update that is alone has the image that is loaded, and counts blocks only
\* while it sends them.
UpdateOf(f, image) ==
  /\ f.at # "write" => f.k = 0
  /\ f.at \in {"begin", "plausibility", "init", "write", "verify", "report"} => f.act = "transfer"
  /\ f.at = "erase" => f.act \in {"erase", "transfer"}
  /\ f.at = "refused" => f.act \in {"file", "transfer"}
  /\ f.act = "transfer" /\ f.at \in {"mcu", "device", "firmware", "answered", "plausibility",
                                     "erase", "init", "write", "verify"} =>
       f.img = image /\ f.img \in Images

UpdatePart == stack # <<>> /\ Top.alone => UpdateOf(Top, fwImage)

Sending == stack # <<>> /\ Top.alone /\ Top.at \in {"write", "verify"}

\* Since the transfer was opened nobody but the update has anything on the line.
AloneOnLine ==
  /\ serving.op \in Main \/ (wire = <<>> /\ calling /\ serving = NextRequest)
  /\ wire = <<>> \/ (wire = <<NextRequest>> /\ calling)

\* Whatever descriptor the device has, it is that of the update.
OfTop == {stored.img, firmwareMetaData.img} \subseteq {Top.img, NoImage}

Expects(i, k) ==
  /\ writePointer = EntryOf[i] + k
  /\ CryptoOf[i] = "AES" => cbc = IF k = 0 THEN Fresh ELSE <<i, k - 1>>

\* A transfer that is open expects the block the host sends next, or the one
\* behind it once that one is accepted. What a failure leaves is not told: it
\* ends the loop.
BlockPart ==
  Top.at = "write" /\ transferIsInitialized =>
    /\ firmwareMetaData.crypto = CryptoOf[Top.img]
    /\ ~calling \/ wire # <<>> => Expects(Top.img, Top.k)
    /\ serving.op = "write" /\ result = "OK" => Expects(Top.img, Top.k + 1)

SendPart == Sending => AloneOnLine /\ OfTop /\ BlockPart

\* A successful update waits for its report; nothing is left to undo it, not
\* even a start of the device.
ReportPart ==
  stack # <<>> /\ Top.alone /\ Top.at = "report" /\ Top.ok /\ Top.img # NoImage =>
    /\ stored.verified = TRUE /\ stored.img = Top.img
    /\ wire = <<>> /\ serving.op \in Main /\ pc \in {"idle", "off"}

UpdateInv ==
  /\ SessionInv /\ IInv /\ AlonePart /\ KnownPart
  /\ LivePart /\ ServingPart
  /\ UpdatePart /\ SendPart /\ ReportPart

LEMMA MainOps ==
  /\ NoRequest.op = "none" /\ StartingUp.op = "startup" /\ Verifying.op = "quick_verify"
  /\ \A request \in Sent : request.op \notin Main
  /\ NoRequest' = NoRequest /\ StartingUp' = StartingUp /\ Verifying' = Verifying
BY DEF NoRequest, StartingUp, Verifying, Asking, Request, Sent, Main

LEMMA InitUpdateInv == SessionInit => UpdateInv
<1> SUFFICES ASSUME SessionInit PROVE UpdateInv
  OBVIOUS
<1>1. SessionInv /\ IInv
  BY InitSessionInv, InitIInv DEF SessionInit
<1>2. /\ wire = <<>> /\ serving = StartingUp /\ stack = <<>> /\ pc = "off" /\ job = "none"
  BY DEF SessionInit, Init
<1>3. AlonePart /\ KnownPart
  BY <1>2 DEF AlonePart, KnownPart
<1>4. LivePart
  BY <1>2, MainOps DEF LivePart, Pending, Main
<1>5. ServingPart
  BY <1>2, MainOps DEF ServingPart, Idle
<1>6. UpdatePart /\ SendPart /\ ReportPart
  BY <1>2 DEF UpdatePart, SendPart, Sending, ReportPart
<1> QED  BY <1>1, <1>3, <1>4, <1>5, <1>6 DEF UpdateInv

-----------------------------------------------------------------------------
(* The line                                                                 *)

Calls(ok) ==
  \/ EnterReturned(ok) \/ HashReturned(ok) \/ RemoteHashReturned(ok)
  \/ DescriptorReturned(ok) \/ LastDescriptorReturned(ok)
  \/ EraseReturned(ok) \/ InitReturned(ok) \/ BlockReturned(ok)
  \/ VerifyReturned(ok) \/ RunReturned(ok)

\* The steps of the host between two calls.
Between ==
  \/ Leave \/ Found \/ recalcUIState
  \/ BeginTransfer \/ RefusalLogged \/ TakeDescriptors \/ CheckPlausibility
  \/ InitWithoutImage \/ BlocksSent \/ SaveReport

Quiet == ~calling /\ UNCHANGED <<vars, line>>

LEMMA QuietStep ==
  ASSUME Event \/ Between
  PROVE  Quiet
BY DEF Event, OpenFile, Connect, Choose, onReconnectTimer, HandlesEvents, Between, Leave, Found,
       recalcUIState, BeginTransfer, RefusalLogged, TakeDescriptors, CheckPlausibility,
       InitWithoutImage, BlocksSent, SaveReport, Quiet, At

LEMMA CallsReturn ==
  ASSUME NEW ok \in BOOLEAN, Calls(ok)
  PROVE  \E step : Returns(step, ok)
BY DEF Calls, EnterReturned, HashReturned, RemoteHashReturned, DescriptorReturned,
       LastDescriptorReturned, EraseReturned, InitReturned, BlockReturned, VerifyReturned,
       RunReturned

LEMMA SessionSteps ==
  ASSUME [SessionNext]_sessionVars
  PROVE  \/ Event \/ Between \/ Call \/ (\E ok \in BOOLEAN : Calls(ok)) \/ DeviceStep
         \/ UNCHANGED sessionVars
BY DEF SessionNext, HostStep, Calls, Between

\* What the host asks depends on the stack and on the image loaded.
LEMMA SameRequest ==
  ASSUME UNCHANGED <<stack, fwImage>>
  PROVE  Top' = Top /\ NextRequest' = NextRequest
<1>1. Top' = Top
  BY DEF Top
<1> QED  BY <1>1 DEF NextRequest, rpcInitFirmwareTransfer, rpcWriteFirmwareBlock,
     rpcEnterProgrammingMode, rpcIsCorrectHash, rpcGetRemoteHashVersion, rpcGetMCUDescriptor,
     rpcGetDeviceDescriptor, rpcGetFirmwareDescriptor, rpcEraseFlash, rpcVerifyChecksum,
     rpcRunApplication

LEMMA WireTail ==
  ASSUME wire \in Seq(Sent), wire # <<>>
  PROVE  /\ Head(wire) = wire[1] /\ Head(wire) \in Sent
         /\ Len(wire) \in Nat \ {0} /\ Len(Tail(wire)) = Len(wire) - 1
         /\ \A n \in 1 .. Len(wire) - 1 : Tail(wire)[n] = wire[n + 1]
         /\ Len(wire) = 1 => Tail(wire) = <<>>
<1>1. Head(wire) = wire[1] /\ Head(wire) \in Sent /\ Len(wire) \in Nat \ {0}
  OBVIOUS
<1>2. Len(Tail(wire)) = Len(wire) - 1
  OBVIOUS
<1>3. \A n \in 1 .. Len(wire) - 1 : Tail(wire)[n] = wire[n + 1]
  OBVIOUS
<1>4. Len(wire) = 1 => Tail(wire) = <<>>
  <2> DEFINE rest == Tail(wire)
  <2>1. rest \in Seq(Sent) /\ (Len(wire) = 1 => Len(rest) = 0)
    BY <1>2
  <2> HIDE DEF rest
  <2>2. Len(wire) = 1 => rest = <<>>
    BY <2>1
  <2> QED  BY <2>2 DEF rest
<1> QED  BY <1>1, <1>2, <1>3, <1>4

\* Whether it was answered or not, the call that returns leaves no request that
\* is not given up.
LEMMA ReturnClears ==
  ASSUME WirePart, LivePart, ServingPart, NEW step, NEW ok \in BOOLEAN, Returns(step, ok)
  PROVE  /\ calling /\ calling' = FALSE /\ UNCHANGED vars
         /\ \A n \in 1 .. Len(wire') : ~wire'[n].live
         /\ ~Pending'
         /\ \/ serving' = NoRequest /\ (serving.op \in Main => serving' = serving)
               /\ Idle
            \/ serving.op \in Main /\ serving' = serving
            \/ serving.op \notin Main /\ serving'.op = serving.op /\ serving'.img = serving.img
<1>1. calling /\ calling' = FALSE /\ UNCHANGED vars /\ serving \in Requests /\ wire \in Seq(Sent)
  BY DEF Returns, WirePart
<1>2. CASE Answered(ok)
  <2>1. Pending /\ serving' = NoRequest /\ wire' = wire /\ Idle /\ serving.op \notin Main
    BY <1>2 DEF Answered, Pending, Main
  <2>2. wire = <<>>
    BY <2>1 DEF LivePart
  <2> QED  BY <1>1, <2>1, <2>2, MainOps DEF Pending, Main
<1>3. CASE TimedOut
  <2>1. \A r \in Requests : ~GivenUp(r).live /\ GivenUp(r).op = r.op /\ GivenUp(r).img = r.img
    BY DEF GivenUp, Requests
  <2>2. Len(wire) \in Nat /\ \A n \in 1 .. Len(wire) : wire[n] \in Requests
    BY <1>1 DEF Sent
  <2>3. wire' = [n \in 1 .. Len(wire) |-> GivenUp(wire[n])]
    BY <1>3 DEF TimedOut
  <2>4. \A n \in 1 .. Len(wire') : ~wire'[n].live
    BY <2>1, <2>2, <2>3
  <2>5. CASE serving.op \in Main
    BY <1>1, <1>3, <2>4, <2>5 DEF TimedOut, Pending, Main
  <2>6. CASE serving.op \notin Main
    BY <1>1, <1>3, <2>1, <2>4, <2>6 DEF TimedOut, Pending, Main
  <2> QED  BY <2>5, <2>6
<1> QED  BY <1>2, <1>3 DEF Returns

LEMMA DeviceLeavesHost ==
  ASSUME DeviceStep \/ UNCHANGED sessionVars
  PROVE  UNCHANGED <<calling, stack, fwImage>>
BY DEF DeviceStep, Serve, AnswerLost, DeviceReset, DeviceStartsUp, sessionVars, host, line

LEMMA LiveStep ==
  ASSUME UpdateInv, [SessionNext]_sessionVars
  PROVE  LivePart'
<1>1. LivePart /\ ServingPart /\ WirePart /\ wire \in Seq(Sent)
  BY DEF UpdateInv, SessionInv, LineInv, WirePart
<1>2. ASSUME ~calling PROVE ~Pending /\ \A n \in 1 .. Len(wire) : ~wire[n].live
  BY <1>1, <1>2 DEF LivePart
<1>3. CASE Quiet
  <2>1. ~Pending' /\ \A n \in 1 .. Len(wire') : ~wire'[n].live
    BY <1>2, <1>3 DEF Quiet, line, Pending
  <2> QED  BY <2>1 DEF LivePart
<1>4. CASE Call
  <2>1. /\ ~Pending /\ \A n \in 1 .. Len(wire) : ~wire[n].live
        /\ calling' /\ serving' = serving /\ NextRequest' = NextRequest
        /\ wire' = wire \/ wire' = Append(wire, NextRequest)
    BY <1>2, <1>4, SameRequest DEF Call
  <2>2. ~Pending'
    BY <2>1 DEF Pending
  <2>3. \A n \in 1 .. Len(wire') : wire'[n].live => n = Len(wire') /\ wire'[n] = NextRequest
    BY <1>1, <2>1
  <2> QED  BY <2>1, <2>2, <2>3 DEF LivePart
<1>5. ASSUME NEW ok \in BOOLEAN, Calls(ok)
      PROVE  LivePart'
  BY <1>1, <1>5, ReturnClears, CallsReturn DEF LivePart
<1>6. CASE Serve
  <2>1. /\ wire # <<>> /\ serving' = Head(wire) /\ wire' = Tail(wire) /\ calling' = calling
        /\ NextRequest' = NextRequest
    BY <1>6, SameRequest DEF Serve, host
  <2>2. /\ Head(wire) = wire[1] /\ Len(wire) \in Nat \ {0} /\ Len(wire') = Len(wire) - 1
        /\ \A n \in 1 .. Len(wire') : wire'[n] = wire[n + 1]
        /\ Len(wire) = 1 => wire' = <<>>
    BY <1>1, <2>1, WireTail
  <2>3. ASSUME NEW n \in 1 .. Len(wire'), wire'[n].live
        PROVE  calling' /\ n = Len(wire') /\ wire'[n] = NextRequest'
    <3>1. n + 1 \in 1 .. Len(wire) /\ wire[n + 1].live /\ wire'[n] = wire[n + 1]
      BY <2>2, <2>3
    <3>2. calling /\ n + 1 = Len(wire) /\ wire[n + 1] = NextRequest
      BY <1>1, <3>1 DEF LivePart
    <3>3. n = Len(wire')
      BY <2>2, <3>2
    <3> QED  BY <2>1, <3>1, <3>2, <3>3, Zenon
  <2>4. ASSUME Pending' PROVE calling' /\ wire' = <<>> /\ serving' = NextRequest'
    <3>1. 1 \in 1 .. Len(wire) /\ wire[1].live
      BY <2>1, <2>2, <2>4 DEF Pending
    <3>2. calling /\ 1 = Len(wire) /\ wire[1] = NextRequest
      BY <1>1, <3>1 DEF LivePart
    <3> QED  BY <2>1, <2>2, <3>2
  <2> QED  BY <2>3, <2>4 DEF LivePart
<1>7. CASE UNCHANGED <<line, stack, fwImage>>
  <2>1. UNCHANGED <<wire, serving, calling>> /\ NextRequest' = NextRequest
    BY <1>7, SameRequest DEF line
  <2> QED  BY <1>1, <2>1 DEF LivePart, Pending
<1>8. ASSUME serving'.op \in Main \/ serving' = serving, wire' = wire \/ wire' = <<>>,
             UNCHANGED <<calling, stack, fwImage>>, Pending => wire = <<>>
      PROVE  LivePart'
  <2>1. NextRequest' = NextRequest
    BY <1>8, SameRequest
  <2>2. Pending' => Pending /\ serving' = serving
    BY <1>8 DEF Pending
  <2> QED  BY <1>1, <1>8, <2>1, <2>2 DEF LivePart
<1>9. CASE DeviceStep /\ ~Serve
  <2>1. wire' = wire \/ wire' = <<>>
    BY <1>9 DEF DeviceStep, AnswerLost, DeviceReset, DeviceStartsUp, line
  <2>2. serving' \in {NoRequest, StartingUp, Verifying} \/ serving' = serving
    BY <1>9 DEF DeviceStep, AnswerLost, DeviceReset, DeviceStartsUp, line
  <2>3. serving'.op \in Main \/ serving' = serving
    BY <2>2, MainOps DEF Main
  <2> QED  BY <1>1, <1>8, <1>9, <2>1, <2>3, DeviceLeavesHost DEF LivePart
<1>10. UNCHANGED sessionVars => UNCHANGED <<line, stack, fwImage>>
  BY DEF sessionVars, line, host
<1> QED  BY <1>3, <1>4, <1>5, <1>6, <1>7, <1>9, <1>10, QuietStep, SessionSteps
-----------------------------------------------------------------------------
(* The device                                                               *)

\* The handler of the request that is served.
LEMMA ServedRequest ==
  ASSUME WirePart, Serve
  PROVE  /\ serving' \in Sent /\ serving'.op \notin Main /\ serving'.op # "run"
         /\ Handle(serving') /\ Idle /\ serving = NoRequest
         /\ wire # <<>> /\ serving' = Head(wire) /\ wire' = Tail(wire)
         /\ serving'.op \in {"enter", "hash", "mcu", "device", "firmware", "erase", "init",
                             "write", "verify"}
<1>1. Head(wire) \in Sent
  BY DEF WirePart, Serve
<1>2. /\ serving' = Head(wire) /\ Head(wire).op # "run" /\ Handle(Head(wire))
      /\ Idle /\ serving = NoRequest /\ wire # <<>> /\ wire' = Tail(wire)
  BY DEF Serve
<1> QED  BY <1>1, <1>2, MainOps DEF Sent

LEMMA ServeServing ==
  ASSUME WirePart, RestPart, Serve
  PROVE  ServingPart'
<1> DEFINE request == serving'
<1>1. /\ request.op \notin Main /\ Handle(request) /\ pc = "idle" /\ job = "none"
      /\ request.op \in {"enter", "hash", "mcu", "device", "firmware", "erase", "init",
                         "write", "verify"}
  BY ServedRequest DEF Idle, RestPart
<1>2. CASE request.op \in {"enter", "hash"}
  BY <1>1, <1>2 DEF Handle, ServingPart, vars
<1>3. CASE request.op \in {"mcu", "device", "firmware"}
  BY <1>1, <1>3 DEF Handle, ServingPart, QueryDescriptor, Return
<1>4. CASE request.op = "erase"
  BY <1>1, <1>4 DEF Handle, ServingPart, mcuEraseFlash, SaveDescriptorFor
<1>5. CASE request.op = "init"
  <2>1. mcuInitFirmwareTransfer(request.img, EntryOf[request.img], CryptoOf[request.img])
    BY <1>1, <1>5 DEF Handle
  <2>2. \/ pc' = "idle" /\ job' = "none" /\ result' \in {"Fail", "TryAgainLater"}
        \/ /\ pc' = "erase_descriptor" /\ job' = "open" /\ writePointer' = EntryOf[request.img]
           /\ firmwareMetaData' = OpenedMeta(request.img, EntryOf[request.img], CryptoOf[request.img])
    BY <2>1 DEF mcuInitFirmwareTransfer, Return, SaveDescriptorFor
  <2>3. job' = "open" => OpenedFor(serving)'
    BY <2>2 DEF OpenedFor, OpenedMeta
  <2>4. pc' # "off" /\ job' \in {"none", "open"} /\ ~(pc' = "idle" /\ result' = "OK")
    BY <2>2
  <2> QED  BY <1>1, <1>5, <2>3, <2>4 DEF ServingPart, Idle
<1>6. CASE request.op = "write"
  <2>1. pc' = "idle" /\ job' = "none"
    BY <1>1, <1>6 DEF Handle, mcuWriteFirmwareBlock, Return
  <2> QED  BY <1>1, <1>6, <2>1 DEF ServingPart
<1>7. CASE request.op = "verify"
  <2>1. \/ pc' = "idle" /\ job' = "none" /\ result' = "Fail"
        \/ pc' = "erase_descriptor" /\ job' = "verify"
    BY <1>1, <1>7 DEF Handle, mcuVerifyFirmware, programmerVerify, Return, SaveDescriptorFor
  <2> QED  BY <1>1, <1>7, <2>1 DEF ServingPart, Idle
<1> QED  BY <1>1, <1>2, <1>3, <1>4, <1>5, <1>6, <1>7

LEMMA ContinueServing ==
  ASSUME IInv, ServingPart, Continue, UNCHANGED line
  PROVE  ServingPart'
<1>1. serving' = serving /\ OpenedFor(serving') = OpenedFor(serving)
  BY DEF line
<1>2. ASSUME pc' \notin {"off", "idle"}, job' \in {job, "none"},
             UNCHANGED <<firmwareMetaData, writePointer>>
      PROVE  ServingPart'
  BY <1>1, <1>2, MainOps DEF ServingPart, OpenedFor, OpenedMeta, Idle
<1>3. CASE SaveEraseDescriptor \/ SaveWriteFirstHalf
  BY <1>2, <1>3 DEF SaveEraseDescriptor, SaveWriteFirstHalf, Hang, transfer
<1>4. CASE SaveWriteSecondHalf
  <2>1. CASE job = "destroy" /\ Return("none")
    BY <1>1, <2>1, MainOps DEF ServingPart, Return
  <2>2. CASE pc' = "erase_app" /\ UNCHANGED <<firmwareMetaData, transfer, job>>
    BY <1>2, <2>2 DEF transfer
  <2>3. CASE job = "open" /\ Return("OK") /\ cbc' = Fresh /\ UNCHANGED <<firmwareMetaData, writePointer>>
    <3>1. serving.op = "init" /\ OpenedFor(serving)
      BY <2>3 DEF ServingPart
    <3>2. OpenedFor(serving)'
      BY <1>1, <2>3, <3>1 DEF OpenedFor, OpenedMeta
    <3>3. cbc' = Fresh'
      BY <2>3 DEF Fresh
    <3> QED  BY <1>1, <2>3, <3>1, <3>2, <3>3 DEF ServingPart, Return, Main
  <2>4. CASE job = "verify" /\ Return(IF firmwareMetaData.verified THEN "OK" ELSE "Fail")
             /\ UNCHANGED firmwareMetaData
    <3>1. firmwareMetaData.verified \in BOOLEAN
      <4>1. firmwareMetaData \in MetaData \union {ZeroMeta}
        BY DEF IInv, TypeOK
      <4>2. ASSUME NEW m \in MetaData PROVE m.verified \in BOOLEAN
        BY <4>2 DEF MetaData
      <4>3. ZeroMeta.verified \in BOOLEAN
        BY DEF ZeroMeta
      <4> QED  BY <4>1, <4>2, <4>3
    <3>2. serving.op \in {"verify", "quick_verify"}
      BY <2>4 DEF ServingPart
    <3>3. result' = "OK" => firmwareMetaData' .verified = TRUE
      BY <2>4, <3>1 DEF Return
    <3>4. job' = "none" /\ pc' = "idle"
      BY <2>4 DEF Return
    <3> QED  BY <1>1, <3>2, <3>3, <3>4, MainOps DEF ServingPart
  <2>5. CASE Hang
    BY <1>2, <2>5 DEF Hang, transfer
  <2> QED  BY <1>4, <2>1, <2>2, <2>3, <2>4, <2>5 DEF SaveWriteSecondHalf
<1>5. CASE EraseApplicationPage
  <2>1. job = "erase" /\ pc = "erase_app"
    BY <1>5 DEF IInv, CallInv, ErasePart, EraseApplicationPage
  <2>2. serving.op = "erase"
    BY <2>1 DEF ServingPart
  <2>3. pc' # "off" /\ job' \in {"erase", "none"}
    BY <1>5, <2>1 DEF EraseApplicationPage, Return
  <2> QED  BY <1>1, <2>2, <2>3, MainOps DEF ServingPart
<1> QED  BY <1>3, <1>4, <1>5 DEF Continue

LEMMA ServingStep ==
  ASSUME UpdateInv, [SessionNext]_sessionVars
  PROVE  ServingPart'
<1>1. /\ LivePart /\ ServingPart /\ WirePart /\ IInv /\ RestPart
      /\ (Idle => job = "none")
  BY DEF UpdateInv, SessionInv, LineInv, IInv, CallInv, RestPart, Idle
<1>2. CASE UNCHANGED <<vars, serving>>
  BY <1>1, <1>2, MainOps DEF ServingPart, vars, OpenedFor, OpenedMeta, Idle, Fresh
<1>3. ASSUME NEW ok \in BOOLEAN, Calls(ok)
      PROVE  ServingPart'
  <2>1. /\ UNCHANGED vars
        /\ \/ serving' = NoRequest /\ Idle
           \/ serving' = serving
           \/ serving.op \notin Main /\ serving'.op = serving.op /\ serving'.img = serving.img
    BY <1>1, <1>3, ReturnClears, CallsReturn
  <2>2. CASE serving' = NoRequest /\ Idle
    BY <1>1, <2>1, <2>2, MainOps DEF ServingPart, vars, Idle
  <2>3. CASE serving' = serving
    BY <1>2, <2>1, <2>3
  <2>4. CASE serving.op \notin Main /\ serving'.op = serving.op /\ serving'.img = serving.img
    <3>1. pc # "off"
      BY <1>1, <2>4, MainOps DEF ServingPart, Main
    <3>2. OpenedFor(serving) => OpenedFor(serving)'
      BY <2>1, <2>4 DEF OpenedFor, OpenedMeta, vars
    <3> QED  BY <1>1, <2>1, <2>4, <3>1, <3>2 DEF ServingPart, vars, Idle, Fresh
  <2> QED  BY <2>1, <2>2, <2>3, <2>4
<1>4. CASE AnswerLost
  BY <1>1, <1>4, MainOps DEF AnswerLost, ServingPart, vars, Idle
<1>5. CASE DeviceReset
  BY <1>5, MainOps DEF DeviceReset, Reset, ServingPart
<1>6. CASE DeviceStartsUp
  <2>1. CASE pc = "off" /\ programmer_init /\ UNCHANGED serving
    <3>1. serving' = StartingUp /\ pc' # "off" /\ job' \in {"none", "destroy"}
      BY <1>1, <2>1 DEF ServingPart, programmer_init, Return, SaveDescriptorFor
    <3> QED  BY <3>1, MainOps DEF ServingPart
  <2>2. CASE programmerQuickVerify /\ serving' = Verifying
    <3>1. pc' # "off" /\ job' \in {"none", "verify"}
      BY <2>2 DEF programmerQuickVerify, programmerVerify, Return, SaveDescriptorFor
    <3> QED  BY <2>2, <3>1, MainOps DEF ServingPart
  <2>3. CASE Idle /\ UNCHANGED vars /\ serving' = NoRequest
    BY <1>1, <2>3, MainOps DEF ServingPart, vars, Idle
  <2> QED  BY <1>6, <2>1, <2>2, <2>3 DEF DeviceStartsUp
<1>7. CASE IncrementWaitTime /\ serving = NoRequest /\ UNCHANGED <<line, host>>
  <2>1. serving' = NoRequest /\ pc' = "idle" /\ job' = "none"
    BY <1>1, <1>7 DEF IncrementWaitTime, Idle, line
  <2> QED  BY <2>1, MainOps DEF ServingPart
<1>8. Quiet \/ Call \/ UNCHANGED sessionVars => UNCHANGED <<vars, serving>>
  BY DEF Quiet, Call, sessionVars, line
<1> QED  BY <1>1, <1>2, <1>3, <1>4, <1>5, <1>6, <1>7, <1>8, ServeServing, ContinueServing,
         QuietStep, SessionSteps DEF DeviceStep
-----------------------------------------------------------------------------
(* The host                                                                 *)

WaitingParts == UpdatePart /\ SendPart /\ ReportPart

\* An action at a step that owes nothing to line and device.
Harmless(f, image) ==
  f.alone =>
    /\ UpdateOf(f, image)
    /\ f.at \notin {"write", "verify"}
    /\ f.at = "report" => f.ok = FALSE \/ f.img = NoImage

LEMMA BecomeTop ==
  ASSUME HostPart, stack # <<>>, NEW f, Become(f)
  PROVE  Top' = f /\ stack' # <<>>
<1> DEFINE front == Front(stack)
<1>1. front \in Seq(Actions) /\ stack' = Append(front, f)
  BY FrontElements DEF HostPart, Become
<1> HIDE DEF front
<1>2. /\ Len(front) \in Nat /\ Len(stack') = Len(front) + 1 /\ stack'[Len(front) + 1] = f
      /\ stack' # <<>>
  BY <1>1
<1> QED  BY <1>2 DEF Top, Last

LEMMA StartTop ==
  ASSUME HostPart, NEW f, Start(f)
  PROVE  Top' = f /\ stack' # <<>>
<1> DEFINE Mark(g) == [g EXCEPT !.alone = FALSE, !.logged = TRUE]
           marked == [n \in 1 .. Len(stack) |-> Mark(stack[n])]
<1>1. stack' = Append(marked, f)
  BY DEF Start
<1> HIDE DEF Mark
<1>2. marked \in Seq({Mark(stack[n]) : n \in 1 .. Len(stack)})
  BY DEF HostPart
<1> HIDE DEF marked
<1>3. /\ Len(marked) \in Nat /\ Len(stack') = Len(marked) + 1 /\ stack'[Len(marked) + 1] = f
      /\ stack' # <<>>
  BY <1>1, <1>2
<1> QED  BY <1>3 DEF Top, Last

\* The action that went on beneath the one that ends is not alone.
LEMMA FinishTop ==
  ASSUME HostPart, AlonePart, stack # <<>>, Finish
  PROVE  stack' # <<>> => ~Top'.alone
<1>1. /\ Len(stack') = Len(stack) - 1 /\ stack' \in Seq(Actions)
      /\ \A n \in 1 .. Len(stack') : stack'[n] = stack[n] /\ ~stack[n].alone
  BY FrontElements DEF Finish, AlonePart, HostPart
<1>2. stack' # <<>> => Len(stack') \in 1 .. Len(stack')
  BY <1>1
<1> QED  BY <1>1, <1>2 DEF Top, Last

LEMMA HarmlessTop ==
  ASSUME NEW f, Top' = f, Harmless(f, fwImage')
  PROVE  WaitingParts'
<1>1. Top'.alone => /\ UpdateOf(Top', fwImage') /\ Top'.at \notin {"write", "verify"}
                    /\ Top'.at = "report" => Top'.ok = FALSE \/ Top'.img = NoImage
  BY DEF Harmless
<1>2. UpdatePart'
  BY <1>1 DEF UpdatePart, UpdateOf
<1>3. SendPart'
  BY <1>1 DEF SendPart, Sending
<1>4. ReportPart'
  BY <1>1 DEF ReportPart
<1> QED  BY <1>2, <1>3, <1>4 DEF WaitingParts

LEMMA FinishWaiting ==
  ASSUME HostPart, AlonePart, stack # <<>>, Finish
  PROVE  WaitingParts'
<1>1. stack' # <<>> => ~Top'.alone
  BY FinishTop
<1> QED  BY <1>1 DEF WaitingParts, UpdatePart, SendPart, Sending, ReportPart

\* What is started owes nothing yet.
LEMMA StartedHarmless ==
  ASSUME NEW act, NEW at, NEW image,
         act # "transfer" \/ at = "begin",
         at \in {"begin"} => act = "transfer",
         at \notin {"plausibility", "init", "write", "verify", "report"},
         at = "erase" => act = "erase",
         at = "refused" => act = "file"
  PROVE  Harmless(Action(act, at), image)
BY DEF Harmless, Action, UpdateOf

RecalcSteps == {"now_nothing", "now_Disconnected", "now_Connecting", "now_Connected"}

LEMMA RecalcAt ==
  ASSUME NEW c \in ConnectionState
  PROVE  Recalc(c) \in RecalcSteps /\ RecalcStep[c] \in RecalcSteps
BY DEF Recalc, RecalcStep, ConnectionState, RecalcSteps

\* The fields of an action that goes on.
Fields(g, f, step, k, ok) == SameAct(g, f) /\ g.at = step /\ g.k = k /\ g.ok = ok

LEMMA StepFields ==
  ASSUME NEW f \in Actions, NEW step \in HostSteps,
         NEW ok \in BOOLEAN, NEW infoOK \in BOOLEAN, NEW k \in Nat
  PROVE  /\ Fields(GoOn(f, step), f, step, f.k, f.ok)
         /\ Fields([GoOn(f, step) EXCEPT !.ok = ok], f, step, f.k, ok)
         /\ Fields([GoOn(f, step) EXCEPT !.infoOK = infoOK], f, step, f.k, f.ok)
         /\ Fields([GoOn(f, step) EXCEPT !.ok = ok, !.infoOK = infoOK], f, step, f.k, ok)
         /\ Fields([GoOn(f, step) EXCEPT !.k = k], f, step, k, f.ok)
         /\ Fields([GoOn(f, step) EXCEPT !.ok = ok, !.k = k], f, step, k, ok)
BY DEF GoOn, Actions, Fields, SameAct

LEMMA ImageFields ==
  ASSUME NEW f \in Actions, NEW step \in HostSteps, NEW i
  PROVE  LET g == [GoOn(f, step) EXCEPT !.img = i]
         IN  g.act = f.act /\ g.alone = f.alone /\ g.k = f.k /\ g.at = step /\ g.img = i
BY DEF GoOn, Actions

LEMMA EventWaiting ==
  ASSUME SessionInv, Event
  PROVE  WaitingParts'
<1>1. HostPart /\ connState \in ConnectionState
  BY DEF SessionInv, LineInv, WindowPart
<1>2. {"Disconnected", "Connecting", "Connected"} \subseteq ConnectionState
  BY DEF ConnectionState
<1>3. ASSUME NEW f, Start(f), Harmless(f, fwImage')
      PROVE  WaitingParts'
  BY <1>1, <1>3, StartTop, HarmlessTop
<1>4. CASE OpenFile
  <2>1. PICK i \in Images \union {NoImage} :
          Start(Action("file", IF i = NoImage THEN "refused" ELSE RecalcStep[connState]))
    BY <1>4 DEF OpenFile
  <2> DEFINE at == IF i = NoImage THEN "refused" ELSE RecalcStep[connState]
  <2>2. at \in RecalcSteps \union {"refused"}
    BY <1>1, RecalcAt
  <2>3. Start(Action("file", at))
    BY <2>1
  <2> HIDE DEF at
  <2>4. Harmless(Action("file", at), fwImage')
    BY <2>2, StartedHarmless DEF RecalcSteps
  <2> QED  BY <1>3, <2>3, <2>4
<1>5. CASE Connect
  <2>1. PICK c \in ConnectionState : Start(Action("port", Recalc(c)))
    BY <1>2, <1>5 DEF Connect
  <2>2. Harmless(Action("port", Recalc(c)), fwImage')
    BY RecalcAt, StartedHarmless DEF RecalcSteps
  <2> QED  BY <1>3, <2>1, <2>2
<1>6. CASE Choose
  <2>1. \/ Start(Action("transfer", "begin")) \/ Start(Action("erase", "erase"))
        \/ Start(Action("info", "mcu")) \/ Start(Action("run", "run"))
    BY <1>6 DEF Choose
  <2>2. /\ Harmless(Action("transfer", "begin"), fwImage')
        /\ Harmless(Action("erase", "erase"), fwImage')
        /\ Harmless(Action("info", "mcu"), fwImage') /\ Harmless(Action("run", "run"), fwImage')
    BY StartedHarmless
  <2> QED  BY <1>3, <2>1, <2>2
<1>7. CASE onReconnectTimer
  <2>1. Harmless(Action("connect", "enter"), fwImage')
    BY StartedHarmless
  <2> QED  BY <1>3, <1>7, <2>1 DEF onReconnectTimer
<1> QED  BY <1>4, <1>5, <1>6, <1>7 DEF Event

\* The action that runs goes on to a step that owes nothing, with its image.
LEMMA GoesOn ==
  ASSUME HostPart, stack # <<>>, UpdatePart, NEW f, Become(f),
         NEW step \in HostSteps \ {"write", "verify"}, NEW ok,
         Fields(f, Top, step, Top.k, ok),
         fwImage' = fwImage,
         Top.at # "write",
         step # "begin" /\ step # "refused",
         step = "report" => ok = FALSE,
         step \in {"plausibility", "init", "report"} /\ Top.alone => Top.act = "transfer",
         step = "erase" /\ Top.alone => Top.act \in {"erase", "transfer"},
         step \in {"mcu", "device", "firmware", "answered", "plausibility", "erase", "init"} =>
           \/ Top.act # "transfer"
           \/ Top.at \in {"mcu", "device", "firmware", "answered", "plausibility", "erase"}
  PROVE  WaitingParts'
<1>1. Top.alone => UpdateOf(Top, fwImage)
  BY DEF UpdatePart
<1>2. Harmless(f, fwImage')
  BY <1>1 DEF Harmless, UpdateOf, Fields, SameAct
<1> QED  BY <1>2, BecomeTop, HarmlessTop

LEMMA ConnectingWaiting ==
  ASSUME SessionInv, AlonePart, UpdatePart,
         \/ \E ok \in BOOLEAN : \/ EnterReturned(ok) \/ HashReturned(ok)
                                \/ RemoteHashReturned(ok) \/ RunReturned(ok)
         \/ Leave \/ Found \/ recalcUIState \/ SaveReport
  PROVE  WaitingParts'
<1>1. HostPart /\ (stack # <<>> => Top \in Actions)
  BY TopAction DEF SessionInv, LineInv, HostPart
<1>2. {"Disconnected", "Connecting", "Connected"} \subseteq ConnectionState
  BY DEF ConnectionState
<1>3. {"hash", "found", "remote_hash", "leaving", "mcu"} \subseteq HostSteps \ {"write", "verify"}
  BY DEF HostSteps, CallSteps, EventSteps
<1>4. ASSUME stack # <<>>, Top.at # "write", fwImage' = fwImage,
             NEW step \in {"hash", "found", "remote_hash", "leaving"}, Become(GoOn(Top, step))
      PROVE  WaitingParts'
  <2>1. Fields(GoOn(Top, step), Top, step, Top.k, Top.ok)
    BY <1>1, <1>3, <1>4, StepFields
  <2> QED  BY <1>1, <1>3, <1>4, <2>1, GoesOn
<1>5. ASSUME NEW f, stack # <<>>, Become(f), Harmless(f, fwImage')
      PROVE  WaitingParts'
  BY <1>1, <1>5, BecomeTop, HarmlessTop
<1>6. ASSUME NEW ok \in BOOLEAN, EnterReturned(ok)
      PROVE  WaitingParts'
  BY <1>1, <1>4, <1>6, FinishWaiting DEF EnterReturned, Returns
<1>7. ASSUME NEW ok \in BOOLEAN, HashReturned(ok)
      PROVE  WaitingParts'
  BY <1>4, <1>7 DEF HashReturned, Returns
<1>8. ASSUME NEW ok \in BOOLEAN, RemoteHashReturned(ok) \/ RunReturned(ok)
      PROVE  WaitingParts'
  BY <1>4, <1>8 DEF RemoteHashReturned, RunReturned, Returns
<1>9. CASE Leave
  <2>1. Harmless(Action("port", Recalc("Disconnected")), fwImage')
    BY <1>2, RecalcAt, StartedHarmless DEF RecalcSteps
  <2> QED  BY <1>5, <1>9, <2>1 DEF Leave, ClosePort, At
<1>10. CASE Found
  <2>1. Harmless(Action("info", Recalc("Connected")), fwImage')
    BY <1>2, RecalcAt, StartedHarmless DEF RecalcSteps
  <2> QED  BY <1>5, <1>10, <2>1 DEF Found, At
<1>11. CASE SaveReport
  <2>1. Harmless(Action("info", "mcu"), fwImage')
    BY StartedHarmless
  <2> QED  BY <1>5, <1>11, <2>1 DEF SaveReport, At
<1>12. CASE recalcUIState
  <2>1. stack # <<>> /\ Top.at # "write" /\ fwImage' = fwImage
    BY <1>12 DEF recalcUIState, At
  <2>2. CASE Top.act = "info"
    <3>1. Become(GoOn(Top, "mcu"))
      BY <1>12, <2>2 DEF recalcUIState
    <3>2. Fields(GoOn(Top, "mcu"), Top, "mcu", Top.k, Top.ok)
      BY <1>1, <1>3, <2>1, StepFields
    <3> QED  BY <1>1, <1>3, <2>1, <2>2, <3>1, <3>2, GoesOn
  <2>3. CASE Top.act # "info"
    BY <1>1, <1>12, <2>1, <2>3, FinishWaiting DEF recalcUIState
  <2> QED  BY <2>2, <2>3
<1> QED  BY <1>6, <1>7, <1>8, <1>9, <1>10, <1>11, <1>12

\* An update takes the image that is loaded, or ends without one.
LEMMA ImageWaiting ==
  ASSUME HostPart, stack # <<>>, Top.at # "write", Top.alone => Top.k = 0 /\ Top.act = "transfer",
         NEW i \in Images \union {NoImage}, fwImage' = i,
         NEW step \in {"mcu", "refused", "report"}, (step = "mcu") => i # NoImage,
         (step = "report") => i = NoImage,
         Become([GoOn(Top, step) EXCEPT !.img = i])
  PROVE  WaitingParts'
<1> DEFINE f == [GoOn(Top, step) EXCEPT !.img = i]
<1>1. step \in HostSteps /\ Top \in Actions
  BY UpdateSteps, TopAction DEF HostPart
<1>2. f.act = Top.act /\ f.alone = Top.alone /\ f.k = Top.k /\ f.at = step /\ f.img = i
  BY <1>1, ImageFields
<1>3. Become(f)
  OBVIOUS
<1> HIDE DEF f
<1>4. Harmless(f, fwImage')
  BY <1>2 DEF Harmless, UpdateOf
<1> QED  BY <1>3, <1>4, BecomeTop, HarmlessTop

LEMMA BeginWaiting ==
  ASSUME SessionInv, UpdatePart, BeginTransfer \/ RefusalLogged
  PROVE  WaitingParts'
<1>1. /\ HostPart /\ stack # <<>> /\ Top \in Actions /\ connState \in ConnectionState
      /\ fwImage \in Images \union {NoImage} /\ Top.at \in {"begin", "refused"}
  BY TopAction DEF SessionInv, LineInv, HostPart, WindowPart, BeginTransfer, RefusalLogged, At
<1>2. Top.alone => UpdateOf(Top, fwImage)
  BY <1>1 DEF UpdatePart
<1>3. CASE BeginTransfer
  <2>1. Top.at = "begin"
    BY <1>3 DEF BeginTransfer, At
  <2>2. Top.alone => Top.k = 0 /\ Top.act = "transfer"
    BY <1>2, <2>1 DEF UpdateOf
  <2>3. PICK i \in Images \union {NoImage} :
          /\ fwImage' = i
          /\ Become([GoOn(Top, IF i # NoImage THEN "mcu"
                               ELSE IF fwImage # NoImage THEN "refused" ELSE "report")
                       EXCEPT !.img = i])
    BY <1>3 DEF BeginTransfer
  <2> DEFINE step == IF i # NoImage THEN "mcu"
                     ELSE IF fwImage # NoImage THEN "refused" ELSE "report"
  <2>4. /\ step \in {"mcu", "refused", "report"} /\ (step = "mcu" => i # NoImage)
        /\ (step = "report" => i = NoImage)
    OBVIOUS
  <2>5. Become([GoOn(Top, step) EXCEPT !.img = i])
    BY <2>3
  <2> HIDE DEF step
  <2> QED  BY <1>1, <2>1, <2>2, <2>3, <2>4, <2>5, ImageWaiting
<1>4. CASE RefusalLogged /\ Top.act = "file"
  <2> DEFINE step == Recalc(connState)
  <2>1. Become(GoOn(Top, step)) /\ fwImage' = fwImage
    BY <1>4 DEF RefusalLogged
  <2>2. step \in HostSteps /\ step \in RecalcSteps
    BY <1>1, RecalcAt, RecalcType
  <2> HIDE DEF step
  <2>3. Fields(GoOn(Top, step), Top, step, Top.k, Top.ok)
    BY <1>1, <2>2, StepFields
  <2> QED  BY <1>1, <2>1, <2>2, <2>3, GoesOn DEF RecalcSteps
<1>5. CASE RefusalLogged /\ Top.act # "file"
  <2>1. Top.at = "refused" /\ fwImage' = fwImage
    BY <1>5 DEF RefusalLogged, At
  <2>2. Top.alone => Top.k = 0 /\ Top.act = "transfer"
    BY <1>2, <1>5, <2>1 DEF UpdateOf
  <2> DEFINE step == IF fwImage # NoImage THEN "mcu" ELSE "report"
  <2>3. /\ step \in {"mcu", "refused", "report"} /\ (step = "mcu" => fwImage # NoImage)
        /\ (step = "report" => fwImage = NoImage)
    OBVIOUS
  <2>4. Become([GoOn(Top, step) EXCEPT !.img = fwImage])
    BY <1>5 DEF RefusalLogged
  <2> HIDE DEF step
  <2> QED  BY <1>1, <2>1, <2>2, <2>3, <2>4, ImageWaiting
<1> QED  BY <1>3, <1>4, <1>5

\* The questions, the plausibility of the image and the erase.
LEMMA PreparingWaiting ==
  ASSUME SessionInv, AlonePart, UpdatePart,
         \/ \E ok \in BOOLEAN : DescriptorReturned(ok) \/ LastDescriptorReturned(ok) \/ EraseReturned(ok)
         \/ TakeDescriptors \/ CheckPlausibility \/ InitWithoutImage
  PROVE  WaitingParts'
<1>1. /\ HostPart /\ stack # <<>> /\ Top \in Actions /\ fwImage' = fwImage
      /\ Top.at \in {"mcu", "device", "firmware", "answered", "plausibility", "erase", "init"}
  <2>1. /\ stack # <<>> /\ fwImage' = fwImage
        /\ Top.at \in {"mcu", "device", "firmware", "answered", "plausibility", "erase", "init"}
    BY DEF DescriptorReturned, LastDescriptorReturned, EraseReturned, TakeDescriptors,
       CheckPlausibility, InitWithoutImage, Returns, At
  <2> QED  BY <2>1, TopAction DEF SessionInv, LineInv, HostPart
<1>2. Top.alone => UpdateOf(Top, fwImage)
  BY <1>1 DEF UpdatePart
<1>3. {"device", "firmware", "answered", "plausibility", "erase", "init", "report"}
        \subseteq HostSteps \ {"write", "verify"}
  BY DEF HostSteps, CallSteps, EventSteps
<1>4. /\ GoOn(Top, "device") \in Actions /\ GoOn(Top, "firmware") \in Actions
      /\ Top.ok \in BOOLEAN /\ Top.infoOK \in BOOLEAN /\ Top.k \in Nat
  BY <1>1, <1>3, GoOnAction
<1>5. ASSUME NEW ok \in BOOLEAN, DescriptorReturned(ok)
      PROVE  WaitingParts'
  <2>1. CASE Top.at = "mcu" /\ Become([GoOn(Top, "device") EXCEPT !.infoOK = ok])
    <3>1. Fields([GoOn(Top, "device") EXCEPT !.infoOK = ok], Top, "device", Top.k, Top.ok)
      BY <1>1, <1>3, <1>4, StepFields
    <3> QED  BY <1>1, <1>3, <2>1, <3>1, GoesOn
  <2>2. CASE Top.at = "device" /\ Become([GoOn(Top, "firmware") EXCEPT !.infoOK = @ /\ ok])
    <3> DEFINE infoOK == GoOn(Top, "firmware").infoOK /\ ok
    <3>1. infoOK \in BOOLEAN /\ Become([GoOn(Top, "firmware") EXCEPT !.infoOK = infoOK])
      BY <2>2
    <3> HIDE DEF infoOK
    <3>2. Fields([GoOn(Top, "firmware") EXCEPT !.infoOK = infoOK], Top, "firmware", Top.k, Top.ok)
      BY <1>1, <1>3, <1>4, <3>1, StepFields
    <3> QED  BY <1>1, <1>3, <2>2, <3>1, <3>2, GoesOn
  <2> QED  BY <1>5, <2>1, <2>2 DEF DescriptorReturned, Returns
<1>6. ASSUME NEW ok \in BOOLEAN, LastDescriptorReturned(ok)
      PROVE  WaitingParts'
  <2> DEFINE infoOK == GoOn(Top, "answered").infoOK /\ ok
  <2>1. /\ infoOK \in BOOLEAN /\ Top.at = "firmware"
        /\ Become([GoOn(Top, "answered") EXCEPT !.ok = ok, !.infoOK = infoOK])
    BY <1>6 DEF LastDescriptorReturned, Returns
  <2> HIDE DEF infoOK
  <2>2. Fields([GoOn(Top, "answered") EXCEPT !.ok = ok, !.infoOK = infoOK], Top, "answered", Top.k, ok)
    BY <1>1, <1>3, <1>4, <2>1, StepFields
  <2> QED  BY <1>1, <1>3, <2>1, <2>2, GoesOn
<1>7. CASE TakeDescriptors
  <2>1. CASE Top.act = "transfer"
    <3>1. Become(GoOn(Top, "plausibility")) /\ Top.at = "answered"
      BY <1>7, <2>1 DEF TakeDescriptors, At
    <3>2. Fields(GoOn(Top, "plausibility"), Top, "plausibility", Top.k, Top.ok)
      BY <1>1, <1>3, StepFields
    <3> QED  BY <1>1, <1>3, <2>1, <3>1, <3>2, GoesOn
  <2>2. CASE Top.act # "transfer"
    BY <1>1, <1>7, <2>2, FinishWaiting DEF TakeDescriptors
  <2> QED  BY <2>1, <2>2
\* A result that decides between going on and the report.
<1>8. ASSUME NEW step \in {"erase", "init"}, NEW ok \in BOOLEAN,
             Become([GoOn(Top, IF ok THEN step ELSE "report") EXCEPT !.ok = @ /\ ok]),
             Top.at \in {"plausibility", "erase"}, Top.alone => Top.act = "transfer"
      PROVE  WaitingParts'
  <2> DEFINE next == IF ok THEN step ELSE "report"
             okSoFar == GoOn(Top, next).ok /\ ok
  <2>1. /\ next \in HostSteps \ {"write", "verify"} /\ okSoFar \in BOOLEAN
        /\ next \in {"erase", "init", "report"}
    BY <1>3
  <2>2. next = "report" => ok = FALSE
    OBVIOUS
  <2>3. next = "report" => okSoFar = FALSE
    BY <2>2
  <2>4. Become([GoOn(Top, next) EXCEPT !.ok = okSoFar])
    BY <1>8
  <2> HIDE DEF next, okSoFar
  <2>5. Fields([GoOn(Top, next) EXCEPT !.ok = okSoFar], Top, next, Top.k, okSoFar)
    BY <1>1, <1>4, <2>1, StepFields
  <2> QED  BY <1>1, <1>8, <2>1, <2>3, <2>4, <2>5, GoesOn
<1>9. CASE CheckPlausibility
  <2>1. Top.at = "plausibility"
    BY <1>9 DEF CheckPlausibility, At
  <2>2. Top.alone => Top.act = "transfer"
    BY <1>2, <2>1 DEF UpdateOf
  <2>3. \E confirmed \in BOOLEAN :
          Become([GoOn(Top, IF confirmed THEN "erase" ELSE "report") EXCEPT !.ok = @ /\ confirmed])
    BY <1>9 DEF CheckPlausibility, showWarngingMessage
  <2> QED  BY <1>8, <2>1, <2>2, <2>3
<1>10. ASSUME NEW ok \in BOOLEAN, EraseReturned(ok)
       PROVE  WaitingParts'
  <2>1. Top.at = "erase"
    BY <1>10 DEF EraseReturned, Returns
  <2>2. CASE Top.act = "erase"
    BY <1>1, <1>10, <2>2, FinishWaiting DEF EraseReturned
  <2>3. CASE Top.act # "erase"
    <3>1. Top.alone => Top.act = "transfer"
      BY <1>2, <2>1, <2>3 DEF UpdateOf
    <3> QED  BY <1>8, <1>10, <2>1, <2>3, <3>1 DEF EraseReturned
  <2> QED  BY <2>2, <2>3
<1>11. CASE InitWithoutImage
  <2>1. Become([GoOn(Top, "report") EXCEPT !.ok = FALSE]) /\ Top.at = "init"
    BY <1>11 DEF InitWithoutImage, At
  <2>2. Fields([GoOn(Top, "report") EXCEPT !.ok = FALSE], Top, "report", Top.k, FALSE)
    BY <1>1, <1>3, <1>4, StepFields
  <2>3. Top.alone => Top.act = "transfer"
    BY <1>2, <2>1 DEF UpdateOf
  <2> QED  BY <1>1, <1>3, <2>1, <2>2, <2>3, GoesOn
<1> QED  BY <1>5, <1>6, <1>7, <1>9, <1>10, <1>11

\* A call the device judges and that succeeds was carried out: the request
\* served is the one the host waits for, and its result is that of the handler.
LEMMA Accepted ==
  ASSUME LivePart, NEW step, Returns(step, TRUE), step \in {"init", "write", "verify"}
  PROVE  /\ serving = NextRequest /\ wire' = <<>> /\ serving' = NoRequest
         /\ Idle /\ result = "OK" /\ UNCHANGED vars
         /\ step = "init" => NextRequest = rpcInitFirmwareTransfer(fwImage)
         /\ step = "write" => NextRequest = rpcWriteFirmwareBlock(fwImage, Top.k)
         /\ step = "verify" => NextRequest = rpcVerifyChecksum
<1>1. Answered(TRUE) /\ Top.at = step /\ UNCHANGED vars
  BY DEF Returns
<1>2. Pending /\ Idle /\ serving' = NoRequest /\ wire' = wire /\ Succeeded(serving)
  BY <1>1 DEF Answered, Pending, Main
<1>3. serving = NextRequest /\ wire = <<>>
  BY <1>2 DEF LivePart
<1>4. /\ step = "init" => NextRequest = rpcInitFirmwareTransfer(fwImage)
      /\ step = "write" => NextRequest = rpcWriteFirmwareBlock(fwImage, Top.k)
      /\ step = "verify" => NextRequest = rpcVerifyChecksum
  BY <1>1 DEF NextRequest
<1>5. NextRequest.judged = TRUE
  BY <1>4 DEF rpcInitFirmwareTransfer, rpcWriteFirmwareBlock, rpcVerifyChecksum, Request
<1>6. result = "OK"
  BY <1>2, <1>3, <1>5 DEF Succeeded
<1> QED  BY <1>1, <1>2, <1>3, <1>4, <1>6

LEMMA RequestFields ==
  /\ \A i : rpcInitFirmwareTransfer(i).op = "init" /\ rpcInitFirmwareTransfer(i).img = i
  /\ \A i, k : /\ rpcWriteFirmwareBlock(i, k).op = "write" /\ rpcWriteFirmwareBlock(i, k).img = i
               /\ rpcWriteFirmwareBlock(i, k).k = k
  /\ rpcVerifyChecksum.op = "verify"
BY DEF rpcInitFirmwareTransfer, rpcWriteFirmwareBlock, rpcVerifyChecksum, Request

\* The action that runs sends what comes next.
LEMMA SendsOn ==
  ASSUME HostPart, stack # <<>>, UpdatePart, NEW f, Become(f),
         NEW step \in {"write", "verify"}, NEW ok, NEW k,
         Fields(f, Top, step, k, ok), step = "verify" => k = 0,
         fwImage' = fwImage, Top.at \in {"init", "write"},
         wire' = <<>>, serving'.op \in Main, calling' = FALSE, UNCHANGED vars,
         Top.alone => OfTop,
         Top.alone /\ step = "write" /\ transferIsInitialized =>
           firmwareMetaData.crypto = CryptoOf[Top.img] /\ Expects(Top.img, k)
  PROVE  WaitingParts'
<1>1. Top' = f
  BY BecomeTop
<1>2. f.at = step /\ f.alone = Top.alone /\ f.act = Top.act /\ f.img = Top.img /\ f.k = k
  BY DEF Fields, SameAct
<1>3. Top.alone => UpdateOf(Top, fwImage)
  BY DEF UpdatePart
<1>4. UpdatePart'
  <2>1. Top.alone => UpdateOf(f, fwImage)
    BY <1>2, <1>3 DEF UpdateOf
  <2> QED  BY <1>1, <1>2, <2>1 DEF UpdatePart, UpdateOf
<1>5. ReportPart'
  BY <1>1, <1>2 DEF ReportPart
<1>6. ASSUME Sending' PROVE AloneOnLine' /\ OfTop' /\ BlockPart'
  <2>1. Top.alone
    BY <1>1, <1>2, <1>6 DEF Sending
  <2>2. AloneOnLine'
    BY MainOps DEF AloneOnLine, Main
  <2>3. OfTop'
    BY <1>1, <1>2, <2>1 DEF OfTop, vars
  <2>4. ASSUME step = "write", transferIsInitialized
        PROVE  firmwareMetaData'.crypto = CryptoOf[Top'.img] /\ Expects(Top.img, k)'
    BY <1>1, <1>2, <2>1, <2>4 DEF Expects, vars, Fresh
  <2>5. BlockPart'
    BY <1>1, <1>2, <2>4 DEF BlockPart, Main, vars, Expects, Fresh
  <2> QED  BY <2>2, <2>3, <2>5
<1> QED  BY <1>4, <1>5, <1>6 DEF WaitingParts, SendPart

\* The block loop, and the verdict after it.
LEMMA TransferWaiting ==
  ASSUME UpdateInv,
         \/ \E ok \in BOOLEAN : InitReturned(ok) \/ BlockReturned(ok) \/ VerifyReturned(ok)
         \/ BlocksSent
  PROVE  WaitingParts'
<1>1. /\ HostPart /\ stack # <<>> /\ Top \in Actions /\ fwImage' = fwImage
      /\ Top.at \in {"init", "write", "verify"} /\ calling' = FALSE
  <2>1. /\ stack # <<>> /\ fwImage' = fwImage /\ Top.at \in {"init", "write", "verify"}
        /\ calling' = FALSE
    BY DEF InitReturned, BlockReturned, VerifyReturned, BlocksSent, Returns, At, line,
       UpdateInv, SessionInv, WindowPart
  <2> QED  BY <2>1, TopAction DEF UpdateInv, SessionInv, LineInv, HostPart
<1>2. /\ LivePart /\ ServingPart /\ UpdatePart /\ SendPart
      /\ (Idle => firmwareMetaData = stored) /\ stored \in MetaData \union {ZeroMeta}
  BY DEF UpdateInv, IInv, TypeOK, CallInv, CacheCoherent, Idle
<1>3. Top.alone => UpdateOf(Top, fwImage) /\ Top.act = "transfer" /\ Top.img = fwImage /\ Top.img \in Images
  BY <1>1, <1>2 DEF UpdatePart, UpdateOf
<1>4. {"write", "verify", "report"} \subseteq HostSteps
  BY UpdateSteps
<1>5. \A step \in {"write", "verify", "report"} :
        GoOn(Top, step) \in Actions /\ GoOn(Top, step).ok \in BOOLEAN /\ GoOn(Top, step).k = Top.k
  BY <1>1, <1>4, GoOnAction
<1>6. (\A i \in Images : EntryOf[i] \in Nat) /\ Top.k \in Nat
  <2>1. \A i \in Images : EntryOf[i] \in EntryPoints
    BY SessionAssumption
  <2>2. Top.k \in Nat
    BY <1>1 DEF Actions
  <2> QED  BY <2>1, <2>2, FlashAssumption
\* What a failed call leaves is the report of a failure.
<1>7. ASSUME NEW k, (Top.alone => k = 0),
             NEW f, Become(f), Fields(f, Top, "report", k, FALSE)
      PROVE  WaitingParts'
  <2>1. Harmless(f, fwImage')
    BY <1>1, <1>3, <1>7 DEF Harmless, UpdateOf, Fields, SameAct
  <2> QED  BY <1>1, <1>7, <2>1, BecomeTop, HarmlessTop
<1>8. CASE InitReturned(TRUE)
  <2> DEFINE okNow == GoOn(Top, "write").ok /\ TRUE
             f == [GoOn(Top, "write") EXCEPT !.ok = okNow]
  <2>1. Returns("init", TRUE) /\ Become(f) /\ okNow \in BOOLEAN /\ Top.at = "init"
    BY <1>8 DEF InitReturned, Returns
  <2> HIDE DEF okNow
  <2>2. Fields(f, Top, "write", Top.k, okNow)
    BY <1>1, <1>4, <1>6, <2>1, StepFields
  <2> HIDE DEF f
  <2>3. /\ serving = rpcInitFirmwareTransfer(fwImage) /\ wire' = <<>> /\ serving' = NoRequest
        /\ Idle /\ result = "OK" /\ UNCHANGED vars
    BY <1>2, <2>1, Accepted
  <2>4. OpenedFor(serving) /\ cbc = Fresh /\ serving.img = fwImage
    BY <1>2, <2>3, RequestFields DEF ServingPart
  <2>5. /\ firmwareMetaData.img = fwImage /\ firmwareMetaData.crypto = CryptoOf[fwImage]
        /\ writePointer = EntryOf[fwImage] /\ stored = firmwareMetaData
    BY <1>2, <2>3, <2>4 DEF OpenedFor, OpenedMeta
  <2>6. Top.alone => OfTop
    BY <1>3, <2>5 DEF OfTop
  <2>7. Top.alone => Top.k = 0
    BY <1>3, <2>1 DEF UpdateOf
  <2>8. Top.alone => firmwareMetaData.crypto = CryptoOf[Top.img] /\ Expects(Top.img, Top.k)
    BY <1>3, <1>6, <2>4, <2>5, <2>7 DEF Expects
  <2> QED  BY <1>1, <1>2, <2>1, <2>2, <2>3, <2>6, <2>8, SendsOn, MainOps DEF Main
<1>9. CASE InitReturned(FALSE)
  <2> DEFINE okNow == GoOn(Top, "report").ok /\ FALSE
             f == [GoOn(Top, "report") EXCEPT !.ok = okNow]
  <2>1. Become(f) /\ okNow = FALSE /\ Top.at = "init"
    BY <1>9 DEF InitReturned, Returns
  <2> HIDE DEF okNow
  <2>2. Fields(f, Top, "report", Top.k, FALSE)
    BY <1>1, <1>4, <1>6, <2>1, StepFields
  <2> HIDE DEF f
  <2> QED  BY <1>3, <1>7, <2>1, <2>2 DEF UpdateOf
<1>10. CASE BlockReturned(TRUE)
  <2> DEFINE k == GoOn(Top, "write").k + 1
             f == [GoOn(Top, "write") EXCEPT !.k = k]
  <2>1. Returns("write", TRUE) /\ Become(f)
    BY <1>10 DEF BlockReturned
  <2>2. k \in Nat /\ k = Top.k + 1
    BY <1>5, <1>6
  <2>3. Top.at = "write"
    BY <2>1 DEF Returns
  <2> HIDE DEF k
  <2>4. Fields(f, Top, "write", k, Top.ok)
    BY <1>1, <1>4, <2>2, StepFields
  <2> HIDE DEF f
  <2>5. /\ serving = rpcWriteFirmwareBlock(fwImage, Top.k) /\ wire' = <<>> /\ serving' = NoRequest
        /\ Idle /\ result = "OK" /\ UNCHANGED vars
    BY <1>2, <2>1, Accepted
  <2>6. Top.alone => OfTop /\ BlockPart
    BY <1>1, <1>2, <2>3 DEF SendPart, Sending
  <2>7. Top.alone /\ transferIsInitialized =>
          firmwareMetaData.crypto = CryptoOf[Top.img] /\ Expects(Top.img, k)
    BY <2>2, <2>3, <2>5, <2>6, RequestFields DEF BlockPart
  <2> QED  BY <1>1, <1>2, <2>1, <2>3, <2>4, <2>5, <2>6, <2>7, SendsOn, MainOps DEF Main
<1>11. CASE BlockReturned(FALSE)
  <2> DEFINE f == [GoOn(Top, "report") EXCEPT !.ok = FALSE, !.k = 0]
  <2>1. Become(f)
    BY <1>11 DEF BlockReturned
  <2>2. Fields(f, Top, "report", 0, FALSE)
    BY <1>1, <1>4, <1>6, StepFields
  <2> HIDE DEF f
  <2> QED  BY <1>7, <2>1, <2>2
<1>12. CASE BlocksSent
  <2> DEFINE f == [GoOn(Top, "verify") EXCEPT !.k = 0]
  <2>1. Become(f) /\ Top.at = "write" /\ ~calling /\ UNCHANGED <<vars, line>>
    BY <1>12 DEF BlocksSent, At
  <2>2. Fields(f, Top, "verify", 0, Top.ok)
    BY <1>1, <1>4, <1>6, StepFields
  <2> HIDE DEF f
  <2>3. Top.alone => OfTop /\ AloneOnLine
    BY <1>1, <1>2, <2>1 DEF SendPart, Sending
  <2>4. Top.alone => wire' = <<>> /\ serving'.op \in Main
    BY <2>1, <2>3 DEF AloneOnLine, line
  <2>5. CASE Top.alone
    BY <1>1, <1>2, <2>1, <2>2, <2>3, <2>4, <2>5, SendsOn
  <2>6. CASE ~Top.alone
    BY <1>1, <2>1, <2>2, <2>6, BecomeTop, HarmlessTop DEF Harmless, Fields, SameAct
  <2> QED  BY <2>5, <2>6
<1>13. CASE VerifyReturned(FALSE)
  <2> DEFINE okNow == GoOn(Top, "report").ok /\ FALSE
             f == [GoOn(Top, "report") EXCEPT !.ok = okNow]
  <2>1. Become(f) /\ okNow = FALSE /\ Top.at = "verify"
    BY <1>13 DEF VerifyReturned, Returns
  <2> HIDE DEF okNow
  <2>2. Fields(f, Top, "report", Top.k, FALSE)
    BY <1>1, <1>4, <1>6, <2>1, StepFields
  <2> HIDE DEF f
  <2> QED  BY <1>3, <1>7, <2>1, <2>2 DEF UpdateOf
<1>14. CASE VerifyReturned(TRUE)
  <2> DEFINE okNow == GoOn(Top, "report").ok /\ TRUE
             f == [GoOn(Top, "report") EXCEPT !.ok = okNow]
  <2>1. Returns("verify", TRUE) /\ Become(f) /\ okNow \in BOOLEAN /\ Top.at = "verify"
    BY <1>14 DEF VerifyReturned, Returns
  <2> HIDE DEF okNow
  <2>2. Fields(f, Top, "report", Top.k, okNow)
    BY <1>1, <1>4, <1>6, <2>1, StepFields
  <2> HIDE DEF f
  <2>3. /\ serving = rpcVerifyChecksum /\ wire' = <<>> /\ serving' = NoRequest
        /\ Idle /\ result = "OK" /\ UNCHANGED vars
    BY <1>2, <2>1, Accepted
  <2>4. stored.verified = TRUE
    BY <1>2, <2>3, RequestFields DEF ServingPart
  <2>5. stored.img # NoImage
    <3>1. stored # ZeroMeta
      BY <2>4 DEF ZeroMeta
    <3> QED  BY <1>2, <3>1, ImagesAssumption DEF MetaData
  <2>6. Top.alone => stored.img = Top.img
    BY <1>1, <1>2, <2>1, <2>5 DEF SendPart, Sending, OfTop
  <2>7. Top' = f
    BY <1>1, <2>1, BecomeTop
  <2>8. f.at = "report" /\ f.alone = Top.alone /\ f.act = Top.act /\ f.img = Top.img /\ f.k = Top.k
    BY <2>2 DEF Fields, SameAct
  <2>9. UpdatePart'
    <3>1. Top.alone => UpdateOf(f, fwImage')
      BY <1>3, <2>1, <2>8 DEF UpdateOf
    <3> QED  BY <2>7, <2>8, <3>1 DEF UpdatePart, UpdateOf
  <2>10. SendPart'
    BY <2>7, <2>8 DEF SendPart, Sending
  <2>11. ReportPart'
    BY <2>3, <2>4, <2>6, <2>7, <2>8, MainOps DEF ReportPart, Main, vars, Idle
  <2> QED  BY <2>9, <2>10, <2>11 DEF WaitingParts
<1> QED  BY <1>8, <1>9, <1>10, <1>11, <1>12, <1>13, <1>14
-----------------------------------------------------------------------------
(* The line and the device, while an update sends and waits                 *)

LEMMA CallWaiting ==
  ASSUME UpdateInv, Call
  PROVE  WaitingParts'
<1>1. /\ UNCHANGED <<stack, fwImage, serving>> /\ UNCHANGED vars /\ calling' = TRUE /\ ~calling
      /\ wire' = wire \/ wire' = Append(wire, NextRequest)
      /\ Top.at \in CallSteps
      /\ Top' = Top /\ NextRequest' = NextRequest
  BY SameRequest DEF Call
<1>2. UpdatePart /\ SendPart
  BY DEF UpdateInv
<1>3. UpdatePart'
  BY <1>1, <1>2 DEF UpdatePart, UpdateOf
<1>4. ReportPart'
  BY <1>1 DEF ReportPart, CallSteps
<1>5. ASSUME Sending' PROVE AloneOnLine' /\ OfTop' /\ BlockPart'
  <2>1. AloneOnLine /\ OfTop /\ BlockPart
    BY <1>1, <1>2, <1>5 DEF SendPart, Sending
  <2>2. serving.op \in Main /\ wire = <<>>
    BY <1>1, <2>1 DEF AloneOnLine
  <2>3. wire' = <<>> \/ wire' = <<NextRequest>>
    BY <1>1, <2>2
  <2>4. AloneOnLine'
    BY <1>1, <2>2, <2>3 DEF AloneOnLine
  <2>5. OfTop'
    BY <1>1, <2>1 DEF OfTop, vars
  <2>6. Expects(Top.img, Top.k) => Expects(Top.img, Top.k)'
    BY <1>1 DEF Expects, vars, Fresh
  <2>7. BlockPart'
    BY <1>1, <2>1, <2>2, <2>6 DEF BlockPart, vars, Main, Expects, Fresh
  <2> QED  BY <2>4, <2>5, <2>7
<1> QED  BY <1>3, <1>4, <1>5 DEF WaitingParts, SendPart

LEMMA VerdictKeepsImage ==
  ASSUME TypeOK
  PROVE  Verdict(firmwareMetaData).img = firmwareMetaData.img
<1>1. firmwareMetaData \in MetaData \union {ZeroMeta}
  BY DEF TypeOK
<1>2. ASSUME NEW m \in MetaData PROVE Verdict(m).img = m.img
  BY DEF Verdict, MetaData
<1>3. Verdict(ZeroMeta).img = ZeroMeta.img
  BY DEF Verdict, ZeroMeta
<1> QED  BY <1>1, <1>2, <1>3

\* What the steps of the device do to its descriptors and to the transfer.
LEMMA DeviceDescriptorSteps ==
  ASSUME IInv, NEW image \in Images \union {NoImage},
         {stored.img, firmwareMetaData.img} \subseteq {image, NoImage},
         \/ Continue \/ programmer_init \/ programmerQuickVerify \/ Reset \/ mcuVerifyFirmware
         \/ UNCHANGED <<stored, firmwareMetaData>>
  PROVE  {stored'.img, firmwareMetaData'.img} \subseteq {image, NoImage}
<1>1. ZeroMeta.img = NoImage /\ Verdict(firmwareMetaData).img = firmwareMetaData.img
  BY VerdictKeepsImage DEF ZeroMeta, IInv
<1>2. CASE Continue
  <2>1. stored' \in {stored, ZeroMeta, firmwareMetaData}
    BY <1>2 DEF Continue, SaveEraseDescriptor, SaveWriteFirstHalf, SaveWriteSecondHalf,
       EraseApplicationPage
  <2>2. firmwareMetaData' = firmwareMetaData
    BY <1>2 DEF Continue, SaveEraseDescriptor, SaveWriteFirstHalf, SaveWriteSecondHalf,
       EraseApplicationPage, Hang
  <2> QED  BY <1>1, <2>1, <2>2
<1>3. CASE programmer_init
  <2>1. stored' = stored /\ firmwareMetaData' = stored
    BY <1>3 DEF programmer_init, persistent
  <2> QED  BY <2>1
<1>4. CASE programmerQuickVerify \/ mcuVerifyFirmware
  <2>1. stored' = stored /\ firmwareMetaData' \in {firmwareMetaData, Verdict(firmwareMetaData)}
    BY <1>4 DEF programmerQuickVerify, mcuVerifyFirmware, programmerVerify, persistent
  <2> QED  BY <1>1, <2>1
<1>5. CASE Reset
  BY <1>1, <1>5 DEF Reset, persistent
<1> QED  BY <1>2, <1>3, <1>4, <1>5

\* The block the host waits for is written, or the verdict is asked for.
LEMMA ServeSends ==
  ASSUME UpdateInv, Sending, AloneOnLine, OfTop, BlockPart, Serve
  PROVE  AloneOnLine' /\ OfTop' /\ BlockPart'
<1>1. /\ UNCHANGED <<stack, fwImage, calling>> /\ Top' = Top /\ NextRequest' = NextRequest
      /\ Handle(Head(wire)) /\ serving' = Head(wire) /\ wire' = Tail(wire) /\ wire # <<>>
  BY SameRequest DEF Serve, host
<1>2. wire = <<NextRequest>> /\ calling /\ Head(wire) = NextRequest /\ wire' = <<>>
  <2>1. wire = <<NextRequest>> /\ calling
    BY <1>1 DEF AloneOnLine
  <2> QED  BY <1>1, <2>1
<1>3. AloneOnLine'
  BY <1>1, <1>2 DEF AloneOnLine
<1>4. Top.img = fwImage /\ Top.img \in Images /\ fwImage \in Images \union {NoImage} /\ Top.k \in Nat
  <2>1. HostPart /\ Top \in Actions
    BY TopAction DEF UpdateInv, SessionInv, LineInv, HostPart, Sending
  <2> QED  BY <2>1 DEF UpdateInv, UpdatePart, UpdateOf, Sending, Actions, HostPart
<1>5. CASE Top.at = "write"
  <2>1. NextRequest = rpcWriteFirmwareBlock(fwImage, Top.k)
    BY <1>5 DEF NextRequest
  <2>2. mcuWriteFirmwareBlock(fwImage, Top.k)
    <3>1. Head(wire).op = "write" /\ Head(wire).img = fwImage /\ Head(wire).k = Top.k
      BY <1>2, <2>1, RequestFields
    <3>2. mcuWriteFirmwareBlock(Head(wire).img, Head(wire).k)
      BY <1>1, <3>1 DEF Handle
    <3> QED  BY <3>1, <3>2
  <2>3. OfTop'
    BY <1>1, <2>2 DEF OfTop, mcuWriteFirmwareBlock
  <2>4. ASSUME transferIsInitialized'
        PROVE  /\ firmwareMetaData'.crypto = CryptoOf[Top.img]
               /\ result' = "OK" => Expects(Top.img, Top.k + 1)'
    <3>1. /\ transferIsInitialized /\ firmwareMetaData' = firmwareMetaData
          /\ cbc' = IF firmwareMetaData.crypto = "AES" THEN <<fwImage, Top.k>> ELSE cbc
          /\ result' = "OK" => writePointer' = writePointer + 1
      BY <2>2, <2>4 DEF mcuWriteFirmwareBlock, Return
    <3>2. firmwareMetaData.crypto = CryptoOf[Top.img] /\ Expects(Top.img, Top.k)
      BY <1>2, <1>5, <3>1 DEF BlockPart
    <3>3. ASSUME result' = "OK"
          PROVE  Expects(Top.img, Top.k + 1)'
      <4>1. EntryOf[Top.img] \in Nat
        BY <1>4, SessionAssumption, FlashAssumption
      <4>2. writePointer' = EntryOf[Top.img] + (Top.k + 1)
        BY <1>4, <3>1, <3>2, <3>3, <4>1 DEF Expects
      <4>3. CryptoOf[Top.img] = "AES" => cbc' = <<Top.img, (Top.k + 1) - 1>>
        BY <1>4, <3>1, <3>2
      <4>4. Top.k + 1 # 0
        BY <1>4
      <4> QED  BY <1>1, <4>2, <4>3, <4>4 DEF Expects
    <3> QED  BY <3>1, <3>2, <3>3
  <2>5. BlockPart'
    BY <1>1, <1>2, <2>4 DEF BlockPart, Expects, Fresh
  <2> QED  BY <1>3, <2>3, <2>5
<1>6. CASE Top.at = "verify"
  <2>1. NextRequest = rpcVerifyChecksum
    BY <1>6 DEF NextRequest
  <2>2. mcuVerifyFirmware
    <3>1. Head(wire).op = "verify"
      BY <1>2, <2>1, RequestFields
    <3> QED  BY <1>1, <3>1 DEF Handle
  <2>3. OfTop'
    BY <1>1, <1>4, <2>2, DeviceDescriptorSteps DEF OfTop, UpdateInv
  <2>4. BlockPart'
    BY <1>1, <1>6 DEF BlockPart
  <2> QED  BY <1>3, <2>3, <2>4
<1> QED  BY <1>5, <1>6 DEF Sending

LEMMA DeviceSends ==
  ASSUME UpdateInv, Sending, DeviceStep \/ UNCHANGED sessionVars
  PROVE  AloneOnLine' /\ OfTop' /\ BlockPart'
<1>1. UNCHANGED <<stack, fwImage, calling>> /\ Top' = Top /\ NextRequest' = NextRequest
  BY SameRequest, DeviceLeavesHost
<1>2. AloneOnLine /\ OfTop /\ BlockPart /\ IInv
  BY DEF UpdateInv, SendPart
<1>3. Top.img \in Images
  BY DEF UpdateInv, UpdatePart, UpdateOf, Sending
\* No transfer is open after a step that changes anything but the wait time.
<1>4. ASSUME serving' = serving \/ serving'.op \in Main, wire' = wire \/ wire' = <<>>,
             \/ Continue \/ programmer_init \/ programmerQuickVerify \/ Reset
             \/ UNCHANGED <<stored, firmwareMetaData>>,
             \/ ~transferIsInitialized'
             \/ UNCHANGED <<transferIsInitialized, firmwareMetaData, writePointer, cbc, result>>
      PROVE  AloneOnLine' /\ OfTop' /\ BlockPart'
  <2>1. AloneOnLine'
    BY <1>1, <1>2, <1>4 DEF AloneOnLine
  <2>2. OfTop'
    BY <1>1, <1>2, <1>3, <1>4, DeviceDescriptorSteps DEF OfTop
  <2>3. BlockPart'
    <3> SUFFICES ASSUME Top'.at = "write", transferIsInitialized' PROVE
               /\ firmwareMetaData'.crypto = CryptoOf[Top'.img]
               /\ ~calling' \/ wire' # <<>> => Expects(Top.img, Top.k)'
               /\ serving'.op = "write" /\ result' = "OK" => Expects(Top.img, Top.k + 1)'
      BY <1>1 DEF BlockPart, Expects, Fresh
    <3>1. UNCHANGED <<transferIsInitialized, firmwareMetaData, writePointer, cbc, result>>
      BY <1>4
    <3>2. ASSUME NEW k PROVE Expects(Top.img, k) => Expects(Top.img, k)'
      BY <1>1, <3>1 DEF Expects, Fresh
    <3>3. serving'.op = "write" => serving' = serving
      BY <1>4 DEF Main
    <3> QED  BY <1>1, <1>2, <1>4, <3>1, <3>2, <3>3 DEF BlockPart
  <2> QED  BY <2>1, <2>2, <2>3
<1>5. CASE Serve
  BY <1>2, <1>5, ServeSends
<1>6. CASE Continue /\ UNCHANGED <<line, host>>
  <2>1. pc # "idle"
    BY <1>6 DEF Continue, SaveEraseDescriptor, SaveWriteFirstHalf, SaveWriteSecondHalf,
       EraseApplicationPage
  <2>2. ~transferIsInitialized
    BY <1>2, <2>1 DEF IInv, CallInv, OpenTransferIsUnverified
  <2>3. job # "open"
    <3>1. serving.op \in Main \/ serving = NextRequest
      BY <1>2 DEF AloneOnLine
    <3>2. Top.at = "write" \/ Top.at = "verify"
      BY DEF Sending
    <3>3. NextRequest.op \in {"write", "verify"}
      BY <3>2, RequestFields DEF NextRequest
    <3>4. serving.op # "init"
      BY <3>1, <3>3 DEF Main
    <3> QED  BY <3>4 DEF UpdateInv, ServingPart
  <2>4. ~transferIsInitialized'
    BY <1>6, <2>2, <2>3 DEF Continue, SaveEraseDescriptor, SaveWriteFirstHalf,
       SaveWriteSecondHalf, EraseApplicationPage, Hang
  <2> QED  BY <1>4, <1>6, <2>4 DEF line
<1>7. CASE IncrementWaitTime /\ serving = NoRequest /\ UNCHANGED <<line, host>>
  BY <1>4, <1>7 DEF IncrementWaitTime, line, persistent, transfer
<1>8. CASE AnswerLost
  BY <1>4, <1>8, MainOps DEF AnswerLost, vars, Main
<1>9. CASE DeviceReset
  BY <1>4, <1>9, MainOps DEF DeviceReset, Reset, Main
<1>10. CASE DeviceStartsUp
  <2>1. CASE programmer_init /\ UNCHANGED serving
    BY <1>4, <1>10, <2>1 DEF DeviceStartsUp, programmer_init
  <2>2. CASE programmerQuickVerify /\ serving' = Verifying
    <3>1. ~transferIsInitialized'
      BY <2>2 DEF programmerQuickVerify, programmerVerify
    <3> QED  BY <1>4, <1>10, <2>2, <3>1, MainOps DEF DeviceStartsUp, Main
  <2>3. CASE UNCHANGED vars /\ serving' = NoRequest
    BY <1>4, <1>10, <2>3, MainOps DEF DeviceStartsUp, vars, Main
  <2> QED  BY <1>10, <2>1, <2>2, <2>3 DEF DeviceStartsUp
<1>11. CASE UNCHANGED sessionVars
  BY <1>4, <1>11 DEF sessionVars, vars, line
<1> QED  BY <1>5, <1>6, <1>7, <1>8, <1>9, <1>10, <1>11 DEF DeviceStep

\* Nothing the device does on its own takes back the verdict that was reported.
LEMMA DeviceReports ==
  ASSUME UpdateInv, DeviceStep \/ UNCHANGED sessionVars,
         stored.verified = TRUE, stored.img # NoImage, wire = <<>>, serving.op \in Main,
         pc \in {"idle", "off"}
  PROVE  /\ stored' = stored /\ wire' = <<>> /\ serving'.op \in Main /\ pc' \in {"idle", "off"}
<1>1. pc = "idle" => firmwareMetaData = stored /\ firmware_meta_is_valid
  BY DEF UpdateInv, IInv, CallInv, CacheCoherent, CrcOK
<1>2. ~Serve
  BY DEF Serve
<1>3. ~Continue
  BY DEF Continue, SaveEraseDescriptor, SaveWriteFirstHalf, SaveWriteSecondHalf,
     EraseApplicationPage
<1>4. CASE IncrementWaitTime /\ UNCHANGED <<line, host>>
  BY <1>4 DEF IncrementWaitTime, line, persistent
<1>5. CASE AnswerLost
  BY <1>5, MainOps DEF AnswerLost, vars, Main
<1>6. CASE DeviceReset
  BY <1>6, MainOps DEF DeviceReset, Reset, persistent, Main
<1>7. CASE DeviceStartsUp
  <2>1. wire' = <<>>
    BY <1>7 DEF DeviceStartsUp
  <2>2. CASE programmer_init /\ UNCHANGED serving
    BY <2>1, <2>2 DEF programmer_init, CrcOK, Return, persistent
  <2>3. CASE programmerQuickVerify /\ serving' = Verifying
    <3>1. stored' = stored /\ pc' = "idle"
      BY <1>1, <2>3 DEF programmerQuickVerify, Idle, Return, persistent
    <3> QED  BY <2>1, <2>3, <3>1, MainOps DEF Main
  <2>4. CASE Idle /\ UNCHANGED vars /\ serving' = NoRequest
    BY <2>1, <2>4, MainOps DEF vars, Main, Idle
  <2> QED  BY <1>7, <2>2, <2>3, <2>4 DEF DeviceStartsUp
<1>8. CASE UNCHANGED sessionVars
  BY <1>8 DEF sessionVars, vars, line
<1> QED  BY <1>2, <1>3, <1>4, <1>5, <1>6, <1>7, <1>8 DEF DeviceStep

LEMMA DeviceWaiting ==
  ASSUME UpdateInv, DeviceStep \/ UNCHANGED sessionVars
  PROVE  WaitingParts'
<1>1. UNCHANGED <<stack, fwImage, calling>> /\ Top' = Top
  BY SameRequest, DeviceLeavesHost
<1>2. UpdatePart'
  BY <1>1 DEF UpdateInv, UpdatePart, UpdateOf
<1>3. SendPart'
  BY <1>1, DeviceSends DEF SendPart, Sending
<1>4. ReportPart'
  BY <1>1, DeviceReports DEF UpdateInv, ReportPart
<1> QED  BY <1>2, <1>3, <1>4 DEF WaitingParts
-----------------------------------------------------------------------------
LEMMA NextUpdateInv == UpdateInv /\ [SessionNext]_sessionVars => UpdateInv'
<1> SUFFICES ASSUME UpdateInv, [SessionNext]_sessionVars PROVE UpdateInv'
  OBVIOUS
<1>1. SessionInv' /\ IInv'
  <2>1. SessionInv /\ LineInv /\ IInv
    BY DEF UpdateInv, SessionInv
  <2>2. [Next]_vars
    BY <2>1, SessionStepIsStep
  <2> QED  BY <2>1, <2>2, NextSessionInv, InvStep
<1>2. AlonePart' /\ KnownPart'
  BY NextKnown DEF UpdateInv
<1>3. LivePart' /\ ServingPart'
  BY LiveStep, ServingStep
<1>4. WaitingParts'
  <2>1. SessionInv /\ AlonePart /\ UpdatePart
    BY DEF UpdateInv
  <2>2. CASE Event
    BY <2>1, <2>2, EventWaiting
  <2>3. CASE Between
    BY <2>1, <2>3, ConnectingWaiting, BeginWaiting, PreparingWaiting, TransferWaiting DEF Between
  <2>4. ASSUME NEW ok \in BOOLEAN, Calls(ok) PROVE WaitingParts'
    BY <2>1, <2>4, ConnectingWaiting, PreparingWaiting, TransferWaiting DEF Calls
  <2> QED  BY <2>2, <2>3, <2>4, CallWaiting, DeviceWaiting, SessionSteps
<1> QED  BY <1>1, <1>2, <1>3, <1>4 DEF UpdateInv, WaitingParts

\* The inductive invariant of an update over its line.
THEOREM UpdateInvariant == SessionSpec => []UpdateInv
BY InitUpdateInv, NextUpdateInv, PTL DEF SessionSpec

\* Host and device agree on the block that comes next for every number of
\* images, of their blocks, of requests under way and of actions nested in one
\* another: nobody but the update has anything on the line while its transfer
\* is open.
THEOREM SessionInStep == SessionSpec => []InStep
<1>1. UpdateInv => InStep
  <2> SUFFICES ASSUME UpdateInv, At("write"), Top.alone, transferIsInitialized
               PROVE  /\ firmwareMetaData.img = Top.img
                      /\ writePointer = EntryOf[Top.img] + Top.k
                      /\ CryptoOf[Top.img] = "AES" =>
                           cbc = IF Top.k = 0 THEN Fresh ELSE <<Top.img, Top.k - 1>>
    BY DEF InStep
  <2>1. OfTop /\ BlockPart /\ ~calling /\ Top.at = "write"
    BY DEF UpdateInv, SendPart, Sending, At
  <2>2. firmwareMetaData.img # NoImage
    BY DEF UpdateInv, IInv, CallInv, OpenTransferIsUnverified, CrcOK
  <2> QED  BY <2>1, <2>2 DEF OfTop, BlockPart, Expects
<1> QED  BY <1>1, UpdateInvariant, PTL

\* A report of success tells the truth however many requests were lost or came
\* late, and whatever the device did meanwhile: resets, starts of its own and
\* failed writes included.
THEOREM SessionReportIsTrue == SessionSpec => ReportIsTrue
<1>1. UpdateInv /\ [SessionNext]_sessionVars =>
        [SaveReport /\ Top.ok /\ Top.alone /\ Top.img # NoImage =>
           /\ stored.verified /\ stored.img = Top.img
           /\ wire = <<>>]_sessionVars
  <2> SUFFICES ASSUME UpdateInv, SaveReport, Top.ok, Top.alone, Top.img # NoImage
               PROVE  stored.verified /\ stored.img = Top.img /\ wire = <<>>
    OBVIOUS
  <2>1. stack # <<>> /\ Top.at = "report"
    BY DEF SaveReport, At
  <2> QED  BY <2>1 DEF UpdateInv, ReportPart
<1> QED  BY <1>1, UpdateInvariant, PTL DEF SessionSpec, ReportIsTrue
=============================================================================
