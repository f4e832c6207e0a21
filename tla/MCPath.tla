------------------------------- MODULE MCPath -------------------------------
(* A hierarchy of three devices: R holds an array a[2] of device A and a *)
(* register x; A holds an array b[3] of device B and a register array    *)
(* y[2]; B holds a register array z[2].                                  *)
EXTENDS Path

CONSTANTS R, A, B

MCHier ==
    [d \in {R, A, B} |->
        CASE d = R -> [nm \in {"a", "x"} |->
                          IF nm = "a" THEN [n |-> 2, sub |-> A] ELSE [n |-> 1, sub |-> Leaf]]
          [] d = A -> [nm \in {"b", "y"} |->
                          IF nm = "b" THEN [n |-> 3, sub |-> B] ELSE [n |-> 2, sub |-> Leaf]]
          [] d = B -> [nm \in {"z"} |-> [n |-> 2, sub |-> Leaf]]]

(* While an iterator is in use the caller's path and err are no longer *)
(* read (IterDone drops them), so states that differ only there behave *)
(* alike.                                                               *)
MCView == IF iter THEN <<it, itErr, comp, k>> ELSE <<path, err>>
=============================================================================
