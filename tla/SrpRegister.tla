--------------------------- MODULE SrpRegister ---------------------------
(***************************************************************************)
(* What an SRP address promises its callers about one device register,    *)
(* seen through read() and write() calls that are serialised by the       *)
(* address' lock.                                                          *)
(*                                                                         *)
(*  - A successful read returns a value the register held at some moment  *)
(*    between the call and its return.                                     *)
(*  - A successful write has been applied at some moment of the call.     *)
(*  - A failed call (timeout, bad status) promises nothing about the      *)
(*    register, and the register only ever holds the initial value or a   *)
(*    value that some write call asked for, possibly later than the call  *)
(*    (a request that is still on the wire when its call gave up).        *)
(*  - Every call returns.                                                  *)
(***************************************************************************)
EXTENDS Naturals

CONSTANTS Vals, InitVal, NoVal, MaxCalls

VARIABLES
    reg,      \* the device register
    pc,       \* "idle" or "busy": whether a call is in progress
    op,       \* the current (or last) call: [kind, val]
    result,   \* what the last call returned: [out, val]
    seen,     \* the values the register held since the current call began
    applied,  \* whether the current write's value was stored during the call
    issued,   \* the values that write calls have asked for
    calls     \* number of calls made

avars == <<reg, pc, op, result, seen, applied, issued, calls>>

Kinds    == {"rd", "wr"}
Outcomes == {"none", "ok", "fail"}

Init ==
    /\ reg = InitVal
    /\ pc = "idle"
    /\ op = [kind |-> "rd", val |-> NoVal]
    /\ result = [out |-> "none", val |-> NoVal]
    /\ seen = {InitVal}
    /\ applied = FALSE
    /\ issued = {}
    /\ calls = 0

Invoke(k, v) ==
    /\ pc = "idle"
    /\ calls < MaxCalls
    /\ pc' = "busy"
    /\ op' = [kind |-> k, val |-> v]
    /\ seen' = {reg}
    /\ applied' = FALSE
    /\ issued' = IF k = "wr" THEN issued \cup {v} ELSE issued
    /\ calls' = calls + 1
    /\ UNCHANGED <<reg, result>>

(* The device stores a value some write call asked for, at any time. *)
Apply(v) ==
    /\ v \in issued
    /\ reg' = v
    /\ seen' = IF pc = "busy" THEN seen \cup {v} ELSE seen
    /\ applied' = (applied \/ (pc = "busy" /\ op.kind = "wr" /\ op.val = v))
    /\ UNCHANGED <<pc, op, result, issued, calls>>

ReturnOk ==
    /\ pc = "busy"
    /\ pc' = "idle"
    /\ IF op.kind = "rd"
         THEN \E v \in seen : result' = [out |-> "ok", val |-> v]
         ELSE applied /\ result' = [out |-> "ok", val |-> NoVal]
    /\ UNCHANGED <<reg, op, seen, applied, issued, calls>>

ReturnFail ==
    /\ pc = "busy"
    /\ pc' = "idle"
    /\ result' = [out |-> "fail", val |-> NoVal]
    /\ UNCHANGED <<reg, op, seen, applied, issued, calls>>

Next ==
    \/ \E k \in Kinds, v \in Vals : Invoke(k, IF k = "rd" THEN NoVal ELSE v)
    \/ \E v \in Vals : Apply(v)
    \/ ReturnOk
    \/ ReturnFail

Spec == Init /\ [][Next]_avars /\ WF_avars(ReturnOk \/ ReturnFail)

=============================================================================
