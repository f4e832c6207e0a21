----------------------------- MODULE RssiQueue -----------------------------
(***************************************************************************)
(* A stream address on top of an RSSI module (CCommAddressImpl::read and  *)
(* write, src/cpsw_netio_dev.cc, over CProtoModRssi, src/cpsw_proto_mod_   *)
(* rssi.cc).  The RSSI module has two bounded queues: inpQ_ from its users *)
(* to the RSSI thread, which sends their contents, and outQ_ from the RSSI *)
(* thread, which delivers what arrives with pushDown, to its users.        *)
(*                                                                         *)
(* The queues (CBufQueue) and the RSSI thread (CRssi) are not in src/:     *)
(* a push with a deadline waits for room and fails when none came before   *)
(* the deadline; a pop with a deadline waits for an element and returns    *)
(* NULL when none came.  A blocking call is modelled by the step that ends *)
(* it, which happens when its condition holds or, for a timed call, when  *)
(* it does not (the deadline passed first).                                *)
(***************************************************************************)
EXTENDS Naturals, Sequences

CONSTANTS
    Depth,        \* the depth of inpQ_ and outQ_
    MaxWrites,    \* bound on write() calls
    MaxRx,        \* bound on frames the peer sends
    WriteTimeouts,\* the kinds of args->timeout_ of write(): "indefinite", "none", "finite"
    ReadTimeouts, \* the same for read()
    DownTimeouts  \* the timeouts the RSSI thread passes to pushDown

Timeouts == {"indefinite", "none", "finite"}

ASSUME Depth \in Nat \ {0} /\ WriteTimeouts \cup ReadTimeouts \cup DownTimeouts \subseteq Timeouts

VARIABLES
    inpQ,     \* inpQ_: chains written, not yet sent by the RSSI thread
    outQ,     \* outQ_: chains received, not yet read
    wire,     \* chains the RSSI thread has sent, in order
    nW,       \* write() calls made; write call k writes chain k
    nRx,      \* frames the peer has sent; frame k is chain MaxWrites + k
    written,  \* the chains whose write() returned their size, in order
    read_     \* the chains read() returned, in order

vars == <<inpQ, outQ, wire, nW, nRx, written, read_>>

(* CProtoModRssi::push(bc, timeout, abs_timeout = false), as write()    *)
(* calls it: the queue afterwards and whether push returned true.  The  *)
(* REL_TIMEOUT branch calls inpQ_->pop(&abst), not push.                *)
push(q, bc, t) ==
    CASE t = "indefinite" -> [q |-> Append(q, bc), ok |-> TRUE]   \* after waiting for room
      [] t = "none"       -> IF Len(q) < Depth THEN [q |-> Append(q, bc), ok |-> TRUE]
                                               ELSE [q |-> q, ok |-> FALSE]
      [] OTHER            -> IF q # <<>> THEN [q |-> Tail(q), ok |-> TRUE]
                                         ELSE [q |-> q, ok |-> FALSE]

(* Whether push(bc, t) can return now: an indefinite push waits for room. *)
PushReturns_noWait(q, t) == TRUE
PushReturns(q, t) == t = "indefinite" => Len(q) < Depth

(* CCommAddressImpl::write(): the chain's size, or 0 if push failed. *)
write_ignorePush(r) == TRUE
write(r) == r.ok

(* CProtoModRssi::pop(timeout, abs_timeout = false) as read() calls it: *)
(* indefinite waits, none is tryPop, finite waits until the deadline.   *)
PopReturns(q, t) == t = "indefinite" => q # <<>>

(* CProtoModRssi::pushDown(bc, rel_timeout) by the RSSI thread *)
PushDownReturns(q, t) == t = "indefinite" => Len(q) < Depth

pushDown(q, bc, t) ==
    IF Len(q) < Depth THEN [q |-> Append(q, bc), ok |-> TRUE] ELSE [q |-> q, ok |-> FALSE]

-----------------------------------------------------------------------------

Init ==
    /\ inpQ = <<>> /\ outQ = <<>> /\ wire = <<>>
    /\ nW = 0 /\ nRx = 0 /\ written = <<>> /\ read_ = <<>>

(* write(): insert the source into a new chain, push it, report. *)
Write(t) ==
    /\ nW < MaxWrites
    /\ PushReturns(inpQ, t)
    /\ LET r == push(inpQ, nW + 1, t)
       IN /\ inpQ' = r.q
          /\ written' = IF write(r) THEN Append(written, nW + 1) ELSE written
    /\ nW' = nW + 1
    /\ UNCHANGED <<outQ, wire, nRx, read_>>

(* read(): pop a chain and extract from it; 0 bytes if pop returned NULL. *)
Read(t) ==
    /\ PopReturns(outQ, t)
    /\ IF outQ # <<>>
         THEN outQ' = Tail(outQ) /\ read_' = Append(read_, Head(outQ))
         ELSE UNCHANGED <<outQ, read_>>
    /\ UNCHANGED <<inpQ, wire, nW, nRx, written>>

(* The RSSI thread takes the oldest chain of inpQ_ and sends it. *)
RssiSend ==
    /\ inpQ # <<>>
    /\ wire' = Append(wire, Head(inpQ))
    /\ inpQ' = Tail(inpQ)
    /\ UNCHANGED <<outQ, nW, nRx, written, read_>>

(* A frame from the peer reaches the RSSI thread, which hands it up. *)
RssiDeliver(t) ==
    /\ nRx < MaxRx
    /\ PushDownReturns(outQ, t)
    /\ outQ' = pushDown(outQ, MaxWrites + nRx + 1, t).q
    /\ nRx' = nRx + 1
    /\ UNCHANGED <<inpQ, wire, nW, written, read_>>

Next ==
    \/ \E t \in WriteTimeouts : Write(t)
    \/ \E t \in ReadTimeouts : Read(t)
    \/ RssiSend
    \/ \E t \in DownTimeouts : RssiDeliver(t)

(* The RSSI thread keeps sending while inpQ_ holds chains. *)
Spec == Init /\ [][Next]_vars /\ WF_vars(RssiSend)

-----------------------------------------------------------------------------

TypeOK ==
    /\ inpQ \in Seq(1 .. MaxWrites) /\ Len(inpQ) <= Depth
    /\ outQ \in Seq(MaxWrites + 1 .. MaxWrites + MaxRx) /\ Len(outQ) <= Depth
    /\ nW \in 0 .. MaxWrites /\ nRx \in 0 .. MaxRx

(* Every chain whose write() reported success is sent exactly once, in  *)
(* the order of the writes: what is on the wire followed by what waits  *)
(* in inpQ_ is exactly the successful writes.                            *)
WritesReachWire == wire \o inpQ = written

====
