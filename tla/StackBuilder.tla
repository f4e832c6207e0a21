---------------------------- MODULE StackBuilder ----------------------------
(***************************************************************************)
(* The protocol stack builder of a NetIODev (src/cpsw_netio_dev.cc):       *)
(* addAtAddress(child, bldr) runs makeProtoStack, which either builds a    *)
(* new stack UDP -> [RSSI] -> [Depack] -> [TDEST mux port] -> [SRP mux     *)
(* port] for a UDP port nobody uses, or finds the existing modules of a    *)
(* shared port by match queries over the stacks of the device's addresses  *)
(* (findProtoPort) and adds a TDEST port or an SRP virtual channel on top  *)
(* of them.  Then it creates the address on the port it returns.           *)
(*                                                                         *)
(* A stack is described by what a match query can see of it: its UDP      *)
(* port, whether it has RSSI and a depacketizer, its TDEST (or none) and   *)
(* its SRP mux's version and virtual channel (or none).  The lower modules *)
(* of a UDP port, its TDEST mux and the SRP mux on one TDEST port (or on   *)
(* the lower modules) exist once, so two stacks with the same port (and   *)
(* TDEST) share them.  ProtoPortMatchParams and the match methods of the   *)
(* modules are not in src/; the query semantics are as the callers use    *)
(* them: a criterion is unset, a value, included/excluded or a wildcard.   *)
(***************************************************************************)
EXTENDS Integers, Sequences, FiniteSets, PortMatch

CONSTANTS
    Ports,      \* UDP ports the builders ask for
    TDests,     \* TDEST values
    VCs,        \* SRP virtual channels
    Versions,   \* SRP protocol versions (SRP_UDP_NONE excluded)
    MaxAddrs    \* bound on addAtAddress calls

ASSUME /\ None \notin Ports \cup TDests \cup VCs \cup Versions
       /\ 0 \in TDests \cap VCs /\ 2 \in Versions /\ 8192 \in Ports

NoSrp == 0                \* SRP_UDP_NONE; the SRP versions are 1 .. 3

(* The builders callers configure with the setters of CPortBuilder. *)
PB == INSTANCE PortBuilder WITH Versions <- Versions \cup {NoSrp}, Depths <- {1},
                                bldr <- 0, lastOp <- 0

Tri(n) == IF n < 0 THEN "unset" ELSE IF n = 0 THEN "off" ELSE "on"

(* A PortBuilder after its setters: the fields that makeProtoStack reads. *)
AsBuilder(s) ==
    [ver |-> s.protocolVersion, port |-> s.UdpPort, rssi |-> s.hasRssi,
     depack |-> Tri(s.hasDepack), mux |-> Tri(s.hasSRPMux), vc |-> s.SRPMuxVirtualChannel,
     tdm |-> s.hasTDestMux, tdest |-> s.TDestMuxTDEST]

(* Every builder a sequence of setter calls reaches. *)
Builders == {AsBuilder(s) : s \in PB!Reachable}

(* The builder of addAtAddress(child, version, dport, timeoutUs,        *)
(* retryCnt, vc, useRssi, tDest); a tDest below 0 leaves the TDEST mux.  *)
LegacyBuilder(v, port, rssi, vc, td) ==
    LET b1 == PB!setSRPRetryCount(PB!setSRPTimeoutUS(PB!setSRPVersion(PB!Reset, v).b, 1).b, 1).b
        b2 == PB!setUdpPort(PB!setSRPMuxVirtualChannel(PB!Set(b1, "hasRssi", rssi), vc).b, port).b
    IN AsBuilder(IF td >= 0 THEN PB!setTDestMuxTDEST(b2, td).b ELSE b2)

(* The builder of addAtStream(child, dport, timeoutUs, inQDepth,        *)
(* outQDepth, ldFrameWinSize, ldFragWinSize, nUdpThreads, useRssi, tDest). *)
StreamBuilder(port, rssi, td) ==
    LET b1 == PB!setUdpPort(PB!setSRPVersion(PB!Reset, NoSrp).b, port).b
        b2 == PB!setUdpNumRxThreads(PB!Set(b1, "UdpOutQueueDepth", 1), 1).b
        b3 == PB!setDepackLdFragWinSize(PB!setDepackLdFrameWinSize(
                PB!setDepackOutQueueDepth(PB!Set(b2, "hasRssi", rssi), 1).b, 1).b, 1).b
    IN AsBuilder(IF td >= 0 THEN PB!setTDestMuxTDEST(b3, td).b ELSE b3)

(* CPortBuilder::hasDepack, hasSRPMux: the defaults of unset options. *)
hasSRP(b)    == b.ver # NoSrp
hasDepack(b) == IF b.depack = "unset" THEN ~hasSRP(b) \/ b.tdm ELSE b.depack = "on"
hasSRPMux(b) == IF b.mux = "unset" THEN hasSRP(b) ELSE b.mux = "on"

Stacks == [port : Ports, rssi : BOOLEAN, depack : BOOLEAN, td : TDests \cup {None},
           srp : Versions \cup {None}, vc : VCs \cup {None}]

VARIABLES
    addrs,    \* the device's addresses in order (children): [stk, req, kind]
    outcome,  \* what the last addAtAddress did: "ok", an error, or "crash"
    calls     \* addAtAddress calls made

vars == <<addrs, outcome, calls>>

(* findProtoPort(cmp): the stack of the first address that matches. *)
findProtoPort(cmp) ==
    LET hits == {i \in 1 .. Len(addrs) : FullMatch(cmp, addrs[i].stk)}
    IN IF hits = {} THEN None ELSE addrs[CHOOSE i \in hits : \A j \in hits : i <= j].stk

(* On a shared port: the existing RSSI, depack and TDEST configuration   *)
(* must match the requested one.                                          *)
SharedCriteria_noRssi(b) ==
    [Unset EXCEPT !.port = Val(b.port),
                  !.depack = IF hasDepack(b) THEN Incl ELSE Excl,
                  !.td = IF b.tdm THEN Val(b.tdest) ELSE Excl]

SharedCriteria(b) ==
    [Unset EXCEPT !.port = Val(b.port),
                  !.rssi = IF b.rssi THEN Incl ELSE Excl,
                  !.depack = IF hasDepack(b) THEN Incl ELSE Excl,
                  !.td = IF b.tdm THEN Val(b.tdest) ELSE Excl]

(* "SRP VC already in use": a stack with this version and channel. *)
VcInUse_never(cmp, b) == FALSE
VcInUse(cmp, b) == findProtoPort([cmp EXCEPT !.ver = Val(b.ver), !.vc = Val(b.vc)]) # None

(* The stack a new port on top of lower modules of stack s gets: a   *)
(* TDEST port if asked for, and an SRP mux port if hasSRPMux().      *)
OnTop_alwaysSrp(s, b, td) == [s EXCEPT !.td = td, !.srp = b.ver, !.vc = b.vc]

OnTop(s, b, td) ==
    [s EXCEPT !.td = td,
              !.srp = IF hasSRPMux(b) THEN b.ver ELSE None,
              !.vc = IF hasSRPMux(b) THEN b.vc ELSE None]

(* makeProtoStack(bldr): [err, stk], stk = None for a NULL port. *)
makeProtoStack(b) ==
    LET cmp == SharedCriteria(b)
        ft  == findProtoPort(cmp)
        mux == findProtoPort([cmp EXCEPT !.ver = Val(b.ver), !.vc = Wild])
        tdm == findProtoPort([cmp EXCEPT !.td = Wild])
    IN
    CASE ~hasSRP(b) /\ hasSRPMux(b) -> [err |-> "SRP mux without SRP", stk |-> None]
      [] findProtoPort([Unset EXCEPT !.port = Val(b.port)]) = None ->
            [err |-> "ok",
             stk |-> OnTop([port |-> b.port, rssi |-> b.rssi, depack |-> hasDepack(b),
                            td |-> None, srp |-> None, vc |-> None],
                           b, IF b.tdm THEN b.tdest ELSE None)]
      [] ~b.tdm /\ (~hasSRP(b) \/ ~hasSRPMux(b)) ->
            [err |-> "sharing without demuxer", stk |-> None]
      [] ft # None /\ ~hasSRP(b) -> [err |-> "TDEST shared without SRP", stk |-> None]
      [] ft # None /\ VcInUse(cmp, b) -> [err |-> "VC in use", stk |-> None]
      [] ft # None /\ mux = None -> [err |-> "no SRP demuxer", stk |-> None]
      [] ft # None -> [err |-> "ok",
                       stk |-> IF hasSRPMux(b) THEN [mux EXCEPT !.vc = b.vc] ELSE None]
      [] b.tdm /\ tdm # None -> [err |-> "ok", stk |-> OnTop(tdm, b, b.tdest)]
      [] b.tdm -> [err |-> "no TDEST demuxer", stk |-> None]
      [] OTHER -> [err |-> "unable to create port", stk |-> None]

(* The CSRPAddressImpl constructor: stack->getProtoMod() on a NULL port *)
(* is undefined (a crash), a port that is not an SRP mux port throws.   *)
CSRPAddressImpl(stk) ==
    CASE stk = None     -> "crash"
      [] stk.srp = None -> "no SRP mux found"
      [] OTHER          -> "ok"

-----------------------------------------------------------------------------

Init ==
    /\ addrs = <<>>
    /\ outcome = "none"
    /\ calls = 0

(* addAtAddress(child, bldr): makeProtoStack, then the address for its  *)
(* SRP version; CSRPAddressImpl dereferences the port and throws when   *)
(* it is not an SRP mux port; then add() and startProtoStack().         *)
AddAtAddress(b) ==
    /\ outcome # "crash"
    /\ calls < MaxAddrs
    /\ calls' = calls + 1
    /\ LET r   == makeProtoStack(b)
           res == IF r.err # "ok" THEN r.err
                  ELSE IF hasSRP(b) THEN CSRPAddressImpl(r.stk) ELSE "ok"
       IN /\ outcome' = res
          /\ addrs' = IF res = "ok"
                        THEN Append(addrs, [stk |-> r.stk, req |-> b,
                                            kind |-> IF hasSRP(b) THEN "srp" ELSE "comm"])
                        ELSE addrs

Next ==
    \/ \E b \in Builders : AddAtAddress(b)
    \/ \E v \in Versions \cup {NoSrp}, p \in Ports, r \in BOOLEAN, vc \in VCs, td \in TDests \cup {-1} :
          AddAtAddress(LegacyBuilder(v, p, r, vc, td))
    \/ \E p \in Ports, r \in BOOLEAN, td \in TDests \cup {-1} : AddAtAddress(StreamBuilder(p, r, td))

Spec == Init /\ [][Next]_vars

-----------------------------------------------------------------------------

TypeOK ==
    /\ addrs \in Seq([stk : Stacks, req : Builders, kind : {"srp", "comm"}])
    /\ calls \in 0 .. MaxAddrs

(* Two addresses on one UDP port are told apart by a demultiplexer (a *)
(* TDEST or an SRP virtual channel); otherwise two consumers pop the    *)
(* same queue.                                                          *)
EndpointsExclusive ==
    \A i, j \in 1 .. Len(addrs) :
        (i # j /\ addrs[i].stk.port = addrs[j].stk.port) => Demuxed(addrs[i].stk, addrs[j].stk)

(* Every address gets the stack its builder asked for: RSSI, depack,     *)
(* TDEST, and an SRP mux of its version with its channel, shared or not. *)
StackAsRequested ==
    \A i \in 1 .. Len(addrs) :
        LET b == addrs[i].req IN
        addrs[i].stk = [port |-> b.port, rssi |-> b.rssi, depack |-> hasDepack(b),
                        td |-> IF b.tdm THEN b.tdest ELSE None,
                        srp |-> IF hasSRPMux(b) THEN b.ver ELSE None,
                        vc |-> IF hasSRPMux(b) THEN b.vc ELSE None]

(* addAtAddress either adds the address or throws; it never hands the    *)
(* SRP address a NULL port.                                              *)
NoNullStack == outcome # "crash"

====
