--------------------------- MODULE SrpAddress ---------------------------
(***************************************************************************)
(* One SRP address (CSRPAddressImpl, src/cpsw_netio_dev.cc) doing register *)
(* transactions: readBlk_unlocked and writeBlk_unlocked, called by read()  *)
(* and write() under the address' lock, so at most one call is active.    *)
(*                                                                         *)
(* A call takes a fresh transaction id (getTid), pushes its request down   *)
(* the stack and pops replies with the (dynamic) timeout, discarding every *)
(* reply whose tid differs.  A timeout resends the same request with the   *)
(* same tid, up to retryCnt_ times, then the call fails.  The device       *)
(* answers every request it receives; a request or a reply may be lost or *)
(* overtaken, and arrive after its call has given up.                      *)
(*                                                                         *)
(* The payload is abstracted to one register value; the byte layout of    *)
(* the frames and the split into maxWords pieces are in SrpData.  The     *)
(* adaptive timeout only decides when a pop times out, which the model    *)
(* leaves free: a timeout may fire whenever the caller waits.             *)
(***************************************************************************)
EXTENDS Naturals, FiniteSets

CONSTANTS
    RetryCnt,  \* retryCnt_
    TidMod,    \* number of distinct tids: tidMsk_ >> tidLsb + 1
    MaxCalls,  \* bound on the number of read/write calls
    Vals,      \* values a write may store
    InitVal,   \* the register's value at start
    NoVal,     \* no value
    Lossy,     \* whether the transport may lose datagrams
    Rejects    \* whether the device may answer with a non-zero status

ASSUME
    /\ RetryCnt \in Nat
    /\ TidMod \in Nat \ {0}
    /\ MaxCalls \in Nat
    /\ Lossy \in BOOLEAN /\ Rejects \in BOOLEAN

VARIABLES
    tidCtr,   \* tid_ of the address: the last tid handed out
    pc,       \* "idle", or "wait": inside the retry loop of a call
    op,       \* the current call: read or write, and the value to write
    tid,      \* the tid of the current call
    attempt,  \* attempt of the retry loop
    toDev,    \* requests on the way to the device
    toHost,   \* replies on the way back (port queue included)
    reg,      \* the device register
    result,   \* what the last call returned or threw
    \* history variables, for the properties only
    calls,    \* number of calls made
    sent,     \* requests the current call has pushed
    seen,     \* register values since the current call began
    applied,  \* whether the current write's value was stored during the call
    issued    \* values that write calls have asked for

vars == <<tidCtr, pc, op, tid, attempt, toDev, toHost, reg, result,
          calls, sent, seen, applied, issued>>

Kinds    == {"rd", "wr"}
Statuses == IF Rejects THEN {"ok", "bad"} ELSE {"ok"}
Tids     == 0 .. TidMod - 1

(* Requests and replies carry the call and the attempt that produced them *)
(* only so that the properties can tell them apart; the code sees tids.  *)
Request == [tid : Tids, kind : Kinds, val : Vals \cup {NoVal},
            call : 1 .. MaxCalls, att : Nat]
Reply   == [tid : Tids, val : Vals \cup {InitVal}, status : {"ok", "bad"},
            call : 1 .. MaxCalls, att : Nat]

(* getTid: tid_ += tidLsb_; return tid_ & tidMsk_ *)
getTid_same(t) == t
getTid(t) == (t + 1) % TidMod

Req(t, o, c, a) == [tid |-> t, kind |-> o.kind, val |-> o.val, call |-> c, att |-> a]

(* The device stores v during the current call.                        *)
Stored(v) ==
    /\ reg' = v
    /\ seen' = IF pc = "wait" THEN seen \cup {v} ELSE seen
    /\ applied' = (applied \/ (pc = "wait" /\ op.kind = "wr" /\ op.val = v))

Init ==
    /\ tidCtr = 0
    /\ pc = "idle"
    /\ op = [kind |-> "rd", val |-> NoVal]
    /\ tid = 0
    /\ attempt = 0
    /\ toDev = {}
    /\ toHost = {}
    /\ reg = InitVal
    /\ result = [out |-> "none", val |-> NoVal]
    /\ calls = 0
    /\ sent = 0
    /\ seen = {InitVal}
    /\ applied = FALSE
    /\ issued = {}

(* read()/write() take the lock and call readBlk_unlocked /              *)
(* writeBlk_unlocked: get a tid, build the request and push it.          *)
Call(k, v) ==
    /\ pc = "idle"
    /\ calls < MaxCalls
    /\ tidCtr' = getTid(tidCtr)
    /\ tid' = tidCtr'
    /\ op' = [kind |-> k, val |-> v]
    /\ calls' = calls + 1
    /\ toDev' = toDev \cup {Req(tid', op', calls', 0)}
    /\ attempt' = 0
    /\ sent' = 1
    /\ pc' = "wait"
    /\ seen' = {reg}
    /\ applied' = FALSE
    /\ issued' = IF k = "wr" THEN issued \cup {v} ELSE issued
    /\ UNCHANGED <<toHost, reg, result>>

(* The device executes a request and answers with the same tid: a write  *)
(* stores its value unless the device rejects it; the reply carries the  *)
(* register's value.                                                     *)
DeviceReply(r) ==
    /\ r \in toDev
    /\ \E st \in Statuses :
         LET store == r.kind = "wr" /\ st = "ok"
             nv    == IF store THEN r.val ELSE reg
         IN /\ IF store THEN Stored(nv) ELSE UNCHANGED <<reg, seen, applied>>
            /\ toDev' = toDev \ {r}
            /\ toHost' = toHost \cup {[tid |-> r.tid, val |-> nv, status |-> st,
                                       call |-> r.call, att |-> r.att]}
    /\ UNCHANGED <<tidCtr, pc, op, tid, attempt, result, calls, sent, issued>>

(* What readBlk_unlocked returns or throws for the matching reply: the  *)
(* value read, or BadStatusError for a non-zero status word.            *)
ReadResult(m) ==
    IF m.status # "ok" THEN [out |-> "badStatus", val |-> NoVal]
                       ELSE [out |-> "ok", val |-> m.val]

(* The same for writeBlk_unlocked, which returns no value. *)
WriteResult_ignoreStatus(m) == [out |-> "ok", val |-> NoVal]

WriteResult(m) ==
    IF m.status # "ok" THEN [out |-> "badStatus", val |-> NoVal]
                       ELSE [out |-> "ok", val |-> NoVal]

PopReply_noTidCheck(m) ==
    /\ pc = "wait"
    /\ m \in toHost
    /\ toHost' = toHost \ {m}
    /\ pc' = "idle"
    /\ result' = IF op.kind = "rd" THEN ReadResult(m) ELSE WriteResult(m)
    /\ UNCHANGED <<tidCtr, op, tid, attempt, toDev, reg, calls, sent, seen, applied, issued>>

(* The pop returns a reply: a tid other than the call's is discarded and *)
(* the inner loop pops again; a matching reply ends the call, with       *)
(* BadStatusError when its status word is not zero.                      *)
PopReply(m) ==
    /\ pc = "wait"
    /\ m \in toHost
    /\ toHost' = toHost \ {m}
    /\ IF m.tid # tid
         THEN UNCHANGED <<pc, result>>
         ELSE /\ pc' = "idle"
              /\ result' = IF op.kind = "rd" THEN ReadResult(m) ELSE WriteResult(m)
    /\ UNCHANGED <<tidCtr, op, tid, attempt, toDev, reg, calls, sent, seen, applied, issued>>

(* The pop times out: relax the timeout and, while ++attempt <=          *)
(* retryCnt_, push the same request again; otherwise reset the timeout   *)
(* and throw IOError.                                                    *)
Retry_offByOne(a) == a <= RetryCnt + 1
Retry(a) == a <= RetryCnt

Timeout ==
    /\ pc = "wait"
    /\ attempt' = attempt + 1
    /\ IF Retry(attempt + 1)
         THEN /\ toDev' = toDev \cup {Req(tid, op, calls, attempt + 1)}
              /\ sent' = sent + 1
              /\ UNCHANGED <<pc, result>>
         ELSE /\ pc' = "idle"
              /\ result' = [out |-> "timeout", val |-> NoVal]
              /\ UNCHANGED <<toDev, sent>>
    /\ UNCHANGED <<tidCtr, op, tid, toHost, reg, calls, seen, applied, issued>>

(* The transport drops a request or a reply. *)
Lose ==
    /\ Lossy
    /\ \/ \E r \in toDev : toDev' = toDev \ {r} /\ UNCHANGED toHost
       \/ \E m \in toHost : toHost' = toHost \ {m} /\ UNCHANGED toDev
    /\ UNCHANGED <<tidCtr, pc, op, tid, attempt, reg, result, calls, sent, seen, applied, issued>>

Next ==
    \/ \E k \in Kinds, v \in Vals : Call(k, IF k = "rd" THEN NoVal ELSE v)
    \/ \E r \in toDev : DeviceReply(r)
    \/ \E m \in toHost : PopReply(m)
    \/ Timeout
    \/ Lose

(* pop() returns once its timeout expires. *)
Spec == Init /\ [][Next]_vars /\ WF_vars(Timeout)

-----------------------------------------------------------------------------

TypeOK ==
    /\ tidCtr \in Tids /\ tid \in Tids
    /\ pc \in {"idle", "wait"}
    /\ op \in [kind : Kinds, val : Vals \cup {NoVal}]
    /\ attempt \in 0 .. RetryCnt + 1
    /\ toDev \subseteq Request
    /\ toHost \subseteq Reply
    /\ reg \in Vals \cup {InitVal}
    /\ result \in [out : {"none", "ok", "timeout", "badStatus"},
                   val : Vals \cup {InitVal, NoVal}]
    /\ calls \in 0 .. MaxCalls /\ sent \in Nat

(* The retry loop sends a request at most retryCnt_ + 1 times, and a    *)
(* call reports a timeout only after all of them went unanswered.       *)
RetryBudget ==
    /\ sent <= RetryCnt + 1
    /\ (pc = "idle" /\ result.out = "timeout") => sent = RetryCnt + 1

(* The SRP ordering rule: with at most one outstanding request per      *)
(* address, once a write call has returned successfully the register    *)
(* keeps its value until the next call.                                 *)
LastWriteSticks ==
    (pc = "idle" /\ op.kind = "wr" /\ result.out = "ok") => reg = op.val

=============================================================================
