-------------------------- MODULE ProtoStackBuilder --------------------------
(***************************************************************************)
(* The protocol stack builder of the library (CProtoStackBuilder, src/src/ *)
(* cpsw_proto_stack_builder.cc).  A builder is made from a YAML node (the  *)
(* CProtoStackBuilder(YamlState&) constructor: reset() defaults, then the  *)
(* SRP, TCP, UDP, RSSI, depack, SRPMux and TDESTMux sections in this      *)
(* order); the caller sets the peer's IP address; build(existingPorts)     *)
(* either creates a transport port UDP or TCP -> [RSSI] -> [Depack] ->     *)
(* [TDEST port] -> [SRP mux port], or finds the modules of a transport     *)
(* port that is in use by match queries over existingPorts and adds a     *)
(* TDEST port or an SRP virtual channel on top of them.                    *)
(*                                                                         *)
(* The caller of build() is not in src/: as the device does with           *)
(* makeProtoStack, it keeps the ports build() returned in existingPorts.   *)
(* Only depacketizer protocol V0 (the default) is modelled: the V2 TDEST   *)
(* mux that does its own depacketizing is not in src/.  The RSSI bridge    *)
(* (setRssiBridgeIPAddr) is not set by the YAML constructor and is left    *)
(* out.  Queue depths, window sizes and priorities change no wiring.       *)
(***************************************************************************)
EXTENDS Integers, Sequences, FiniteSets, PortMatch

CONSTANTS
    Ports,      \* transport port numbers the YAML names
    DfltPort,   \* XprtPort_ after reset(): 8192
    TDests,     \* TDEST values
    VCs,        \* SRP virtual channels
    Versions,   \* SRP protocol versions other than SRP_UDP_NONE
    MaxPorts    \* bound on build() calls

NoSrp  == 0     \* SRP_UDP_NONE
DfltV  == 2     \* SRP_UDP_V2, protocolVersion_ after reset()
Absent == "absent"
NoKey  == -1    \* a key the YAML section does not have

ASSUME /\ DfltPort \in Ports /\ DfltV \in Versions /\ NoSrp \notin Versions
       /\ 0 \in TDests \cap VCs /\ None \notin Ports \cup TDests \cup VCs \cup Versions

(* A YAML node, as far as the constructor reads it.  A section is       *)
(* "absent", or a map whose instantiate key is true or missing ("on") or *)
(* false ("off").  A virtualChannel or TDEST key that is missing leaves  *)
(* the default 0, as the key 0 does.                                      *)
Secs      == {"on", "off"}
XprtSecs  == {[s |-> Absent, port |-> NoKey, depth |-> FALSE]}
               \cup [s : Secs, port : Ports \cup {NoKey}, depth : BOOLEAN]
FlagSecs  == {Absent} \cup Secs
MuxSecs   == {[s |-> Absent, vc |-> 0]} \cup [s : Secs, vc : VCs]
TDestSecs == {[s |-> Absent, tdest |-> 0]} \cup [s : Secs, tdest : TDests]
Yaml == [srp : {NoKey, NoSrp} \cup Versions, tcp : XprtSecs, udp : XprtSecs,
         rssi : FlagSecs, depack : FlagSecs, mux : MuxSecs, tdm : TDestSecs]

(* The TCP or UDP section, unless 'instantiate: false' (for TCP and UDP *)
(* '!readNode(instantiate) || b'): setTcpPort/setUdpPort and            *)
(* setTcpOutQueueDepth/setUdpOutQueueDepth both select the transport,   *)
(* only the port key sets the port.                                     *)
XprtSection(x, sec, kind) ==
    IF sec.s # "on" THEN x
    ELSE [xprt |-> IF sec.port # NoKey \/ sec.depth THEN kind ELSE x.xprt,
          port |-> IF sec.port # NoKey THEN sec.port ELSE x.port]

(* A section that calls use...(true) when present and use...(b) for its *)
(* instantiate key: -1 ("unset") when absent.                           *)
Tri(s) == IF s = Absent THEN "unset" ELSE s

(* CProtoStackBuilder(YamlState&), then setIPAddr(ip) by the caller. *)
FromYaml(y, ip) ==
    LET x == XprtSection(XprtSection([xprt |-> "udp", port |-> DfltPort], y.tcp, "tcp"),
                         y.udp, "udp")
    IN [ver    |-> IF y.srp = NoKey THEN DfltV ELSE y.srp,
        xprt   |-> x.xprt,
        port   |-> x.port,
        rssi   |-> y.rssi = "on",
        depack |-> Tri(y.depack),
        mux    |-> Tri(y.mux.s),
        vc     |-> y.mux.vc,
        tdm    |-> y.tdm.s = "on",
        tdest  |-> y.tdm.tdest,
        ip     |-> ip]

(* build() checks the IP address before it reads any other option, so   *)
(* one YAML node stands for all without setIPAddr.                      *)
(* The builders setter calls from IProtoStackBuilder::create() reach     *)
(* (LibBuilder) join those.                                              *)
LB == INSTANCE LibBuilder

Builders == {FromYaml(y, TRUE) : y \in Yaml} \cup {FromYaml(CHOOSE y \in Yaml : TRUE, FALSE)}
            \cup {b \in LB!Reachable : b.ip}

(* The builder's getters with their defaults. *)
hasSRP(b)        == b.ver # NoSrp
hasUdp(b)        == b.xprt = "udp"
hasTcp(b)        == b.xprt = "tcp"
hasRssiAndUdp(b) == b.rssi /\ hasUdp(b)
hasDepack(b)     == IF b.depack = "unset" THEN b.tdm ELSE b.depack = "on"
hasSRPMux(b)     == IF b.mux = "unset" THEN hasSRP(b) ELSE b.mux = "on"

Endpoint(b) == <<b.xprt, b.port>>

Stacks == [port : {"udp", "tcp"} \X Ports, rssi : BOOLEAN, depack : BOOLEAN,
           td : TDests \cup {None}, srp : Versions \cup {None}, vc : VCs \cup {None}]

(* The stack a builder asks for. *)
Requested(b) ==
    [port |-> Endpoint(b), rssi |-> hasRssiAndUdp(b), depack |-> hasDepack(b),
     td |-> IF b.tdm THEN b.tdest ELSE None,
     srp |-> IF hasSRPMux(b) THEN b.ver ELSE None,
     vc |-> IF hasSRPMux(b) THEN b.vc ELSE None]

VARIABLES
    ports,    \* existingPorts: the ports build() returned, in order: [stk, req]
    outcome,  \* what the last build() did: "ok", "null" or an error
    calls     \* build() calls made

vars == <<ports, outcome, calls>>

(* CProtoStackBuilder::findProtoPort(cmp, existingPorts): the first port *)
(* whose stack matches.                                                  *)
findProtoPort(cmp) ==
    LET hits == {i \in 1 .. Len(ports) : FullMatch(cmp, ports[i].stk)}
    IN IF hits = {} THEN None ELSE ports[CHOOSE i \in hits : \A j \in hits : i <= j].stk

(* On a shared port: RSSI (over UDP), depack and TDEST must match. *)
SharedCriteria(b) ==
    [Unset EXCEPT !.port = Val(Endpoint(b)),
                  !.rssi = IF hasRssiAndUdp(b) THEN Incl ELSE Excl,
                  !.depack = IF hasDepack(b) THEN Incl ELSE Excl,
                  !.td = IF b.tdm THEN Val(b.tdest) ELSE Excl]

(* "SRP VC already in use": a port with this version and channel. *)
VcInUse_never(cmp, b) == FALSE
VcInUse(cmp, b) == findProtoPort([cmp EXCEPT !.ver = Val(b.ver), !.vc = Val(b.vc)]) # None

(* The stack of a new port on top of the lower modules of stack s. *)
OnTop_alwaysSrp(s, b, td) == [s EXCEPT !.td = td, !.srp = b.ver, !.vc = b.vc]

OnTop(s, b, td) ==
    [s EXCEPT !.td = td,
              !.srp = IF hasSRPMux(b) THEN b.ver ELSE None,
              !.vc = IF hasSRPMux(b) THEN b.vc ELSE None]

(* A transport port with RSSI if hasRssiAndUdp and a depacketizer (V0). *)
NewLower_depackAlways(b) ==
    [port |-> Endpoint(b), rssi |-> hasRssiAndUdp(b), depack |-> TRUE,
     td |-> None, srp |-> None, vc |-> None]

NewLower(b) ==
    [port |-> Endpoint(b), rssi |-> hasRssiAndUdp(b), depack |-> hasDepack(b),
     td |-> None, srp |-> None, vc |-> None]

(* CProtoStackBuilder::build(existingPorts): [err, stk], stk = None for *)
(* a NULL port.                                                          *)
build(b) ==
    LET cmp == SharedCriteria(b)
        ft  == findProtoPort(cmp)
        mux == findProtoPort([cmp EXCEPT !.ver = Val(b.ver), !.vc = Wild])
        tdm == findProtoPort([cmp EXCEPT !.td = Wild])
    IN
    CASE ~(hasUdp(b) \/ hasTcp(b)) \/ ~b.ip -> [err |-> "only UDP or TCP", stk |-> None]
      [] ~hasSRP(b) /\ hasSRPMux(b) -> [err |-> "SRP mux without SRP", stk |-> None]
      [] findProtoPort([Unset EXCEPT !.port = Val(Endpoint(b))]) = None ->
            [err |-> "ok", stk |-> OnTop(NewLower(b), b, IF b.tdm THEN b.tdest ELSE None)]
      [] ~b.tdm /\ (~hasSRP(b) \/ ~hasSRPMux(b)) ->
            [err |-> "sharing without demuxer", stk |-> None]
      [] ft # None /\ ~hasSRP(b) -> [err |-> "TDEST shared without SRP", stk |-> None]
      [] ft # None /\ VcInUse(cmp, b) -> [err |-> "VC in use", stk |-> None]
      [] ft # None /\ mux = None -> [err |-> "no SRP demuxer", stk |-> None]
      [] ft # None -> [err |-> "ok",
                       stk |-> IF hasSRPMux(b) THEN [mux EXCEPT !.vc = b.vc] ELSE None]
      [] b.tdm /\ tdm # None -> [err |-> "ok", stk |-> OnTop(tdm, b, b.tdest)]
      [] b.tdm -> [err |-> "no TDEST demuxer", stk |-> None]
      [] OTHER -> [err |-> "unable to create port", stk |-> None]

-----------------------------------------------------------------------------

Init ==
    /\ ports = <<>>
    /\ outcome = "none"
    /\ calls = 0

(* The caller builds a stack and keeps the port it gets.  A NULL port is *)
(* not kept.                                                              *)
Build(b) ==
    /\ calls < MaxPorts
    /\ calls' = calls + 1
    /\ LET r == build(b)
       IN /\ outcome' = IF r.err = "ok" /\ r.stk = None THEN "null" ELSE r.err
          /\ ports' = IF r.err = "ok" /\ r.stk # None
                        THEN Append(ports, [stk |-> r.stk, req |-> Requested(b)])
                        ELSE ports

Next == \E b \in Builders : Build(b)

Spec == Init /\ [][Next]_vars

-----------------------------------------------------------------------------

TypeOK ==
    /\ ports \in Seq([stk : Stacks, req : Stacks])
    /\ calls \in 0 .. MaxPorts

(* Two ports that build() returned on one transport endpoint are told   *)
(* apart by a TDEST or an SRP virtual channel; otherwise two consumers  *)
(* pop the same queue.                                                   *)
EndpointsExclusive ==
    \A i, j \in 1 .. Len(ports) :
        (i # j /\ ports[i].stk.port = ports[j].stk.port) => Demuxed(ports[i].stk, ports[j].stk)

(* Every port build() returns has the stack its YAML asked for: the     *)
(* transport and port, RSSI, depack, TDEST, and an SRP mux of its        *)
(* version with its channel, new or shared.                             *)
StackAsRequested == \A i \in 1 .. Len(ports) : ports[i].stk = ports[i].req

(* build() either returns a port or throws; it never returns NULL (the  *)
(* specification: configuration errors surface synchronously).          *)
NoNullPort == outcome # "null"

=============================================================================
