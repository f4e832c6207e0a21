------------------------------ MODULE MCDepack ------------------------------
(* Model-checking instance of Depack.  The two transports beneath the      *)
(* depacketizer, as the protocol stack builder configures them:            *)
(*   RSSI: reliable and in order; ldFrameWinSize = ldFragWinSize = 1.      *)
(*   UDP:  datagrams lost, reordered, duplicated.                          *)
EXTENDS Depack
=============================================================================
