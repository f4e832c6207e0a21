------------------------------ MODULE LibBuilder ------------------------------
(***************************************************************************)
(* The setters of the library's protocol stack builder, CProtoStackBuilder *)
(* (src/src/cpsw_proto_stack_builder.cc), made by IProtoStackBuilder::     *)
(* create() and set one call at a time, as cpsw_axiv_udp_tst does before  *)
(* it hands the builder to addAtAddress.  Only the options build() reads  *)
(* to wire a stack are kept: the SRP version, the transport and its port,  *)
(* RSSI, the depacketizer, the SRP mux and its channel, the TDEST mux and  *)
(* its TDEST, the peer's address and the RSSI bridge.  A setter that only *)
(* writes a timeout, a retry count, a queue depth, a window size, a write *)
(* mode, a poll period, a thread count or a UDP/TCP thread priority leaves *)
(* these options as they are, and so does a setter that throws.  The      *)
(* depacketizer version is left at V0 (the V2 TDEST mux is not in src/).  *)
(***************************************************************************)
EXTENDS Integers

CONSTANTS
    Ports,     \* transport port numbers a caller passes
    DfltPort,  \* XprtPort_ after reset(): 8192
    TDests,    \* TDEST values
    VCs,       \* SRP virtual channels
    Versions   \* SRP protocol versions other than SRP_UDP_NONE

NoSrp == 0

(* A thread priority argument: NO_THREAD_PRIORITY or any other value. *)
Prios == {"noPrio", "prio"}

(* reset(): protocolVersion_ V2, Xprt_ UDP on port 8192, no RSSI, the    *)
(* depacketizer and SRP mux unset (-1), no TDEST mux, IPAddr_ and        *)
(* rssiBridgeIPAddr_ INADDR_NONE.                                         *)
Reset ==
    [ver |-> 2, xprt |-> "udp", port |-> DfltPort, rssi |-> FALSE,
     depack |-> "unset", mux |-> "unset", vc |-> 0, tdm |-> FALSE, tdest |-> 0,
     ip |-> FALSE, bridge |-> FALSE]

OnOff(v) == IF v THEN "on" ELSE "off"

(* setSRPVersion: InvalidArgError unless NONE or V1..V3; NONE also resets *)
(* the timeout and retry count, which wire nothing.                        *)
setSRPVersion(b, v) == IF v \notin 0 .. 3 THEN b ELSE [b EXCEPT !.ver = v]

(* setUdpPort/setTcpPort: setXprtPort throws for 0 or > 65535 before the *)
(* transport is selected.                                                 *)
setXprtPort(b, v, x) ==
    IF v > 65535 \/ v = 0 THEN b ELSE [b EXCEPT !.port = v, !.xprt = x]

(* A priority other than NO_THREAD_PRIORITY turns the module on. *)
OnUnlessNoPrio(b, f, on, p) == IF p = "noPrio" THEN b ELSE [b EXCEPT ![f] = on]

setDepackLdWinSize(b, v) == IF v > 10 THEN b ELSE [b EXCEPT !.depack = "on"]

setSRPMuxVirtualChannel(b, v) ==
    IF v > 127 THEN b ELSE [b EXCEPT !.mux = "on", !.vc = v]

setTDestMuxTDEST(b, v) ==
    IF v > 255 THEN b ELSE [b EXCEPT !.tdm = TRUE, !.tdest = v]

(* Every builder one setter call on b leaves. *)
Calls(b) ==
    {[b EXCEPT !.ip = v] : v \in BOOLEAN}                         \* setIPAddr
    \cup {[b EXCEPT !.bridge = v] : v \in BOOLEAN}                \* setRssiBridgeIPAddr
    \cup {setSRPVersion(b, v) : v \in Versions \cup {NoSrp}}
    \cup {setXprtPort(b, v, x) : v \in Ports, x \in {"udp", "tcp"}}
    \cup {[b EXCEPT !.xprt = x] : x \in {"udp", "tcp"}}           \* set{Udp,Tcp}OutQueueDepth
    \cup {[b EXCEPT !.rssi = v] : v \in BOOLEAN}                  \* useRssi
    \cup {OnUnlessNoPrio(b, "rssi", TRUE, p) : p \in Prios}       \* setRssiThreadPriority
    \cup {[b EXCEPT !.depack = OnOff(v)] : v \in BOOLEAN}         \* useDepack
    \cup {[b EXCEPT !.depack = "on"]}                             \* setDepack{OutQueueDepth,ThreadPriority}
    \cup {setDepackLdWinSize(b, v) : v \in {0, 4, 11}}            \* setDepackLd{Frame,Frag}WinSize
    \cup {[b EXCEPT !.mux = OnOff(v)] : v \in BOOLEAN}            \* useSRPMux
    \cup {setSRPMuxVirtualChannel(b, v) : v \in VCs}
    \cup {[b EXCEPT !.mux = "on"]}                                \* setSRPMuxOutQueueDepth
    \cup {OnUnlessNoPrio(b, "mux", "on", p) : p \in Prios}        \* setSRPMuxThreadPriority
    \cup {[b EXCEPT !.tdm = v] : v \in BOOLEAN}                   \* useTDestMux
    \cup {setTDestMuxTDEST(b, v) : v \in TDests}
    \cup {[b EXCEPT !.tdm = TRUE]}                                \* setTDestMux{StripHeader,Out/InpQueueDepth}
    \cup {OnUnlessNoPrio(b, "tdm", TRUE, p) : p \in Prios}        \* setTDestMuxThreadPriority

(* The builders reached from 'seen' by setter calls, new ones in 'front'. *)
RECURSIVE Closure(_, _)
Closure(seen, front) ==
    LET new == UNION {Calls(b) : b \in front} \ seen
    IN IF new = {} THEN seen ELSE Closure(seen \cup new, new)

(* getXprt(): TCP whenever an RSSI bridge is set. *)
getXprt(b) == IF b.bridge THEN "tcp" ELSE b.xprt

(* The options as build() reads them through the getters. *)
AsRead(b) ==
    [ver |-> b.ver, xprt |-> getXprt(b), port |-> b.port, rssi |-> b.rssi,
     depack |-> b.depack, mux |-> b.mux, vc |-> b.vc, tdm |-> b.tdm,
     tdest |-> b.tdest, ip |-> b.ip]

(* The builders setter sequences from IProtoStackBuilder::create() reach. *)
Reachable == {AsRead(b) : b \in Closure({Reset}, {Reset})}

=============================================================================
