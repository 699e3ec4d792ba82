--------------------------- MODULE MCAESThrottle ---------------------------
(***************************************************************************)
(* The instance of MCProgrammer with the throttle's history.               *)
(***************************************************************************)
EXTENDS AESThrottle, MCProgrammer
=============================================================================
