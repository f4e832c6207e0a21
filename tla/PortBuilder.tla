----------------------------- MODULE PortBuilder -----------------------------
(***************************************************************************)
(* The port builder of a NetIODev, CNetIODevImpl::CPortBuilder            *)
(* (src/cpsw_netio_dev.cc): the options makeProtoStack and the address     *)
(* constructors read, set one at a time by its setters.  Tri-state options *)
(* are -1 until set, and the getters derive a default from other options.  *)
(* A setter of one option may set others: setSRPVersion(NONE) clears the   *)
(* timeout and retry count, every depacketizer, SRP mux or TDEST mux       *)
(* option turns its module on, and useDepack(false) clears the             *)
(* depacketizer's options through their setters.                           *)
(*                                                                         *)
(* A number the code stores is modelled by the value a caller passes, from *)
(* a small set; (unsigned)-1 is written -1.  A setter that throws leaves   *)
(* the builder as it was.                                                  *)
(***************************************************************************)
EXTENDS Integers, Functions

CONSTANTS
    Versions,  \* SRP versions a caller passes (SRP_UDP_NONE = 0, V1..V3 = 1..3)
    Ports,     \* UDP ports a caller passes, 8192 (the default) among them
    VCs,       \* SRP virtual channels
    TDests,    \* TDEST values
    Depths     \* queue depths, window sizes, timeouts, retries, threads

NoSrp == 0

(* reset(): the defaults of the constructor. *)
Reset ==
    [protocolVersion |-> 2, SRPTimeoutUS |-> 0, SRPDynTimeout |-> -1,
     SRPRetryCount |-> -1, SRPIgnoreMemResp |-> FALSE, UdpPort |-> 8192,
     UdpOutQueueDepth |-> 0, UdpNumRxThreads |-> 0, UdpPollSecs |-> -1,
     hasRssi |-> FALSE, hasDepack |-> -1, DepackOutQueueDepth |-> 0,
     DepackLdFrameWinSize |-> 0, DepackLdFragWinSize |-> 0, hasSRPMux |-> -1,
     SRPMuxVirtualChannel |-> 0, hasTDestMux |-> FALSE, TDestMuxTDEST |-> 0,
     TDestMuxStripHeader |-> -1, TDestMuxOutQueueDepth |-> 0]

(* A setter's result: the builder, and "ok" or the exception it throws. *)
Ok(b)    == [b |-> b, err |-> "ok"]
Throw(b) == [b |-> b, err |-> "InvalidArg"]
Set(b, f, v) == [b EXCEPT ![f] = v]

(* The getters that derive a default. *)
hasSRP(b)      == b.protocolVersion # NoSrp
hasTDestMux(b) == b.hasTDestMux
hasDepack(b)   == IF b.hasDepack < 0 THEN ~hasSRP(b) \/ hasTDestMux(b) ELSE b.hasDepack > 0
hasSRPMux(b)   == IF b.hasSRPMux < 0 THEN hasSRP(b) ELSE b.hasSRPMux > 0

(* The setters.  A use...(true) or a setter that turns its module on. *)
useDepackOn(b)   == Set(b, "hasDepack", 1)
useSRPMux(b, v)  == Set(b, "hasSRPMux", IF v THEN 1 ELSE 0)
useTDestMux(b, v) == Set(b, "hasTDestMux", v)

setSRPTimeoutUS(b, v)  == Ok(Set(b, "SRPTimeoutUS", v))
setSRPRetryCount(b, v) == Ok(Set(b, "SRPRetryCount", v))

setSRPVersion(b, v) ==
    IF v \notin 0 .. 3 THEN Throw(b)
    ELSE LET b1 == Set(b, "protocolVersion", v)
         IN Ok(IF v = NoSrp
                 THEN setSRPRetryCount(setSRPTimeoutUS(b1, 0).b, -1).b
                 ELSE b1)

setUdpPort(b, v) == IF v > 65535 \/ v = 0 THEN Throw(b) ELSE Ok(Set(b, "UdpPort", v))

setUdpNumRxThreads(b, v) ==
    IF v > 100 THEN Throw(b) ELSE Ok(Set(b, "UdpNumRxThreads", v))

setDepackOutQueueDepth(b, v) == Ok(useDepackOn(Set(b, "DepackOutQueueDepth", v)))

setDepackLdFrameWinSize(b, v) ==
    IF v > 10 THEN Throw(b) ELSE Ok(useDepackOn(Set(b, "DepackLdFrameWinSize", v)))

setDepackLdFragWinSize(b, v) ==
    IF v > 10 THEN Throw(b) ELSE Ok(useDepackOn(Set(b, "DepackLdFragWinSize", v)))

(* useDepack(v): hasDepack_ = v; when v is false, clear the three       *)
(* options through their setters, each of which calls useDepack(true).  *)
useDepack(b, v) ==
    LET b0 == Set(b, "hasDepack", IF v THEN 1 ELSE 0)
    IN Ok(IF v THEN b0
          ELSE setDepackLdFragWinSize(
                 setDepackLdFrameWinSize(setDepackOutQueueDepth(b0, 0).b, 0).b, 0).b)

setSRPMuxVirtualChannel(b, v) ==
    IF v > 255 THEN Throw(b) ELSE Ok(Set(useSRPMux(b, TRUE), "SRPMuxVirtualChannel", v))

setTDestMuxTDEST(b, v) ==
    IF v > 255 THEN Throw(b) ELSE Ok(Set(useTDestMux(b, TRUE), "TDestMuxTDEST", v))

setTDestMuxStripHeader(b, v) ==
    Ok(useTDestMux(Set(b, "TDestMuxStripHeader", IF v THEN 1 ELSE 0), TRUE))

setTDestMuxOutQueueDepth(b, v) == Ok(useTDestMux(Set(b, "TDestMuxOutQueueDepth", v), TRUE))

(* A flag argument, recorded as 0 or 1. *)
Flag(v) == IF v THEN 1 ELSE 0

(* Every call a caller can make on builder b: [op, v, r] with r its result. *)
Calls(b) ==
    {[op |-> "setSRPVersion", v |-> v, r |-> setSRPVersion(b, v)] : v \in Versions}
    \cup {[op |-> "setSRPTimeoutUS", v |-> v, r |-> setSRPTimeoutUS(b, v)] : v \in Depths}
    \cup {[op |-> "setSRPRetryCount", v |-> v, r |-> setSRPRetryCount(b, v)] : v \in Depths \cup {-1}}
    \cup {[op |-> "setSRPIgnoreMemResp", v |-> Flag(v), r |-> Ok(Set(b, "SRPIgnoreMemResp", v))] : v \in BOOLEAN}
    \cup {[op |-> "useSRPDynTimeout", v |-> Flag(v), r |-> Ok(Set(b, "SRPDynTimeout", IF v THEN 1 ELSE 0))] : v \in BOOLEAN}
    \cup {[op |-> "setUdpPort", v |-> v, r |-> setUdpPort(b, v)] : v \in Ports}
    \cup {[op |-> "setUdpOutQueueDepth", v |-> v, r |-> Ok(Set(b, "UdpOutQueueDepth", v))] : v \in Depths}
    \cup {[op |-> "setUdpNumRxThreads", v |-> v, r |-> setUdpNumRxThreads(b, v)] : v \in Depths}
    \cup {[op |-> "setUdpPollSecs", v |-> v, r |-> Ok(Set(b, "UdpPollSecs", v))] : v \in Depths \cup {-1}}
    \cup {[op |-> "useRssi", v |-> Flag(v), r |-> Ok(Set(b, "hasRssi", v))] : v \in BOOLEAN}
    \cup {[op |-> "useDepack", v |-> Flag(v), r |-> useDepack(b, v)] : v \in BOOLEAN}
    \cup {[op |-> "setDepackOutQueueDepth", v |-> v, r |-> setDepackOutQueueDepth(b, v)] : v \in Depths}
    \cup {[op |-> "setDepackLdFrameWinSize", v |-> v, r |-> setDepackLdFrameWinSize(b, v)] : v \in Depths}
    \cup {[op |-> "setDepackLdFragWinSize", v |-> v, r |-> setDepackLdFragWinSize(b, v)] : v \in Depths}
    \cup {[op |-> "useSRPMux", v |-> Flag(v), r |-> Ok(useSRPMux(b, v))] : v \in BOOLEAN}
    \cup {[op |-> "setSRPMuxVirtualChannel", v |-> v, r |-> setSRPMuxVirtualChannel(b, v)] : v \in VCs}
    \cup {[op |-> "useTDestMux", v |-> Flag(v), r |-> Ok(useTDestMux(b, v))] : v \in BOOLEAN}
    \cup {[op |-> "setTDestMuxTDEST", v |-> v, r |-> setTDestMuxTDEST(b, v)] : v \in TDests}
    \cup {[op |-> "setTDestMuxStripHeader", v |-> Flag(v), r |-> setTDestMuxStripHeader(b, v)] : v \in BOOLEAN}
    \cup {[op |-> "setTDestMuxOutQueueDepth", v |-> v, r |-> setTDestMuxOutQueueDepth(b, v)] : v \in Depths}

-----------------------------------------------------------------------------
(* The options makeProtoStack reads.  No setter of another option writes *)
(* them differently depending on that option's value, so the builders    *)
(* setter sequences reach, cut down to these options, are the closure of *)
(* the cut-down reset under the setters applied to a builder padded with *)
(* the defaults.                                                          *)
StackOptions == {"protocolVersion", "UdpPort", "hasRssi", "hasDepack", "hasSRPMux",
                 "SRPMuxVirtualChannel", "hasTDestMux", "TDestMuxTDEST"}

Cut(b) == Restrict(b, StackOptions)
Pad(s) == [f \in DOMAIN Reset |-> IF f \in StackOptions THEN s[f] ELSE Reset[f]]

RECURSIVE Closure(_)
Closure(S) ==
    LET T == S \cup {Cut(c.r.b) : c \in UNION {Calls(Pad(s)) : s \in S}}
    IN IF T = S THEN S ELSE Closure(T)

(* The cut-down builders a caller can hand to addAtAddress. *)
Reachable == Closure({Cut(Reset)})

-----------------------------------------------------------------------------

VARIABLES
    bldr,    \* the builder
    lastOp   \* the caller's last call: [op, arg, err], a flag passed as 0 or 1

vars == <<bldr, lastOp>>

(* INetIODev::createPortBuilder() *)
Init == bldr = Reset /\ lastOp = [op |-> "create", arg |-> 0, err |-> "ok"]

(* One setter call; an exception leaves the builder unchanged. *)
Call(c) ==
    /\ bldr' = c.r.b
    /\ lastOp' = [op |-> c.op, arg |-> c.v, err |-> c.r.err]

(* reset() *)
DoReset == bldr' = Reset /\ lastOp' = [op |-> "reset", arg |-> 0, err |-> "ok"]

Next == DoReset \/ \E c \in Calls(bldr) : Call(c)

Spec == Init /\ [][Next]_vars

-----------------------------------------------------------------------------

(* useDepack(false) leaves the builder without a depacketizer: the stack *)
(* makeProtoStack builds for it has none.                                *)
UseDepackHonoured ==
    (lastOp.op = "useDepack" /\ lastOp.arg = 0) => ~hasDepack(bldr)

=============================================================================
