------------------------------ MODULE PortMatch ------------------------------
(***************************************************************************)
(* A match query (ProtoPortMatchParams) over the stack of a protocol port, *)
(* as the stack builders use it (src/cpsw_netio_dev.cc makeProtoStack,    *)
(* src/src/cpsw_proto_stack_builder.cc build).  The class and the match   *)
(* methods of most modules are not in src/: a query sets some criteria,   *)
(* each unset, a value, included, excluded or a wildcard, and a stack     *)
(* matches when the modules along it satisfy every criterion that is set. *)
(*                                                                         *)
(* A stack is described by what a query can see of it: its transport port *)
(* (port), whether it has RSSI and a depacketizer, its TDEST (td) or      *)
(* None, and its SRP mux's version (srp) and virtual channel (vc) or None.*)
(***************************************************************************)

CONSTANT None   \* no TDEST / no SRP mux / no VC

(* The criteria of ProtoPortMatchParams. *)
Unused == [k |-> "unset", v |-> None]
Incl   == [k |-> "incl", v |-> None]
Excl   == [k |-> "excl", v |-> None]
Wild   == [k |-> "wild", v |-> None]
Val(x) == [k |-> "val", v |-> x]

(* One criterion against one feature of a stack: a value needs the      *)
(* feature present with that value, a wildcard only present.            *)
CritOk(c, f, present) ==
    CASE c.k = "unset"            -> TRUE
      [] c.k \in {"incl", "wild"} -> present
      [] c.k = "excl"             -> ~present
      [] OTHER                    -> present /\ f = c.v

(* findMatches(stack) = requestedMatches(): every set criterion holds. *)
FullMatch(cmp, s) ==
    /\ CritOk(cmp.port, s.port, TRUE)
    /\ CritOk(cmp.rssi, s.rssi, s.rssi)
    /\ CritOk(cmp.depack, s.depack, s.depack)
    /\ CritOk(cmp.td, s.td, s.td # None)
    /\ CritOk(cmp.ver, s.srp, s.srp # None)
    /\ CritOk(cmp.vc, s.vc, s.srp # None)

(* A fresh ProtoPortMatchParams: nothing requested. *)
Unset == [port |-> Unused, rssi |-> Unused, depack |-> Unused, td |-> Unused,
          ver |-> Unused, vc |-> Unused]

(* Two ports of one transport endpoint are told apart by a             *)
(* demultiplexer: different TDEST ports, or one SRP mux with different *)
(* virtual channels.  Otherwise two consumers pop the same queue.      *)
Demuxed(s, t) ==
    \/ s.td # None /\ t.td # None /\ s.td # t.td
    \/ s.td = t.td /\ s.srp # None /\ t.srp # None /\ s.vc # t.vc

=============================================================================
