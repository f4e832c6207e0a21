--------------------------- MODULE MCSrpAddress ---------------------------
(* SrpAddress for TLC, and its refinement of SrpRegister.                 *)
EXTENDS SrpAddress

(* Implementation results map to the abstract ok / fail; the waiting pc  *)
(* is the abstract busy.                                                 *)
Abs == INSTANCE SrpRegister WITH
         pc     <- IF pc = "idle" THEN "idle" ELSE "busy",
         result <- [out |-> CASE result.out = "ok"   -> "ok"
                              [] result.out = "none" -> "none"
                              [] OTHER              -> "fail",
                    val |-> result.val]

(* Every behaviour of the retry loop is one of the abstract register:    *)
(* reads return a value held during the call, writes succeed only once   *)
(* applied during the call, and every call returns.                      *)
RefinesSrpRegister == Abs!Spec

=============================================================================
