---------------------------- MODULE MCBufChain ----------------------------
EXTENDS BufChain, TLC

CONSTANTS b1, b2, b3

MCBufs == {b1, b2, b3}

(* Buffers are interchangeable: nothing in the code depends on which     *)
(* buffer object the free list hands out.                                *)
BufSymmetry == Permutations(MCBufs)

=============================================================================
