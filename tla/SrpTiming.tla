------------------------------ MODULE SrpTiming ------------------------------
(***************************************************************************)
(* The timing of the SRP transaction loop (readBlk_unlocked and           *)
(* writeBlk_unlocked, src/cpsw_netio_dev.cc) with its adaptive timeout     *)
(* (DynTimeout).  Each attempt takes 'then', pushes the request and pops   *)
(* with the current timeout, relative to the pop: a reply with another    *)
(* tid is discarded and the pop starts again with a full timeout.  The    *)
(* matching reply ends the call and its round trip now - then is folded   *)
(* into the average (update); a pop that times out relaxes the timeout    *)
(* and resends the request with the same tid, and a call that runs out of *)
(* retries resets the timeout to the user's.  The reply to an earlier     *)
(* attempt carries the same tid as the current one.                        *)
(*                                                                         *)
(* Time is discrete; every clock is kept relative to the present, so that *)
(* the state stays finite: 'elapsed' is now - then, 'left' the time to    *)
(* the pop's deadline, and a reply in flight the time to its arrival.     *)
(* The device answers each request after a round trip from RoundTrips.    *)
(***************************************************************************)
EXTENDS Integers, FiniteSets

CONSTANTS
    AvgShft, MargShft, CapUs,  \* DynTimeout's AVG_SHFT, MARG_SHFT, CAP_US
    UsrTimeout,  \* usrTimeout_ (getSRPTimeoutUS)
    RetryCnt,    \* retryCnt_
    TidMod,      \* number of distinct tids
    RoundTrips   \* round trips of the link and the device

VARIABLES
    avg, tmo,    \* DynTimeout: avgRndTrip_ and dynTimeout_
    tidCtr,      \* tid_
    tid,         \* the tid of the current call
    pc,          \* "idle" or "wait": in the retry loop of a call
    attempt,     \* attempt of the retry loop
    elapsed,     \* now - then: time since the current attempt's push
    left,        \* time until the current pop times out
    flight,      \* replies on their way or queued: [tid, att, rem, rt]
    result,      \* how the last call ended: "none", "ok" or "timeout"
    lastAtt,     \* the attempt that ended the last call
    meas,        \* the round trip the last update folded in (now - then)
    real         \* the round trip of the request that reply answered

vars == <<avg, tmo, tidCtr, tid, pc, attempt, elapsed, left, flight, result,
          lastAtt, meas, real>>

D == INSTANCE DynTimeout WITH Inits <- {UsrTimeout}, AvgMax <- 0, Rt <- 0,
                              maxRt <- 0, lastOp <- "reset", sample <- 0

Tids == 0 .. TidMod - 1

(* getTid *)
getTid_noWrap(t) == t + 1
getTid(t) == (t + 1) % TidMod

(* Time passes by d: every reply in flight comes closer; an arrived one *)
(* waits in the port's queue.                                           *)
Later(f, d) == {[m EXCEPT !.rem = IF m.rem > d THEN m.rem - d ELSE 0] : m \in f}

(* The request of attempt a is pushed; its reply comes after d. *)
Reply(t, a, d) == [tid |-> t, att |-> a, rem |-> d, rt |-> d]

(* The earliest reply, if it comes before the pop's deadline. *)
First(m) == \A o \in flight : m.rem <= o.rem

Init ==
    /\ avg = D!reset(UsrTimeout)
    /\ tmo = D!setLastUpdate(avg)
    /\ tidCtr = 0 /\ tid = 0
    /\ pc = "idle" /\ attempt = 0 /\ elapsed = 0 /\ left = 0
    /\ flight = {}
    /\ result = "none" /\ lastAtt = 0 /\ meas = 0 /\ real = 0

(* read()/write(): a new tid; then = now; push; pop with the timeout. *)
Call ==
    /\ pc = "idle"
    /\ tidCtr' = getTid(tidCtr)
    /\ tid' = tidCtr'
    /\ \E d \in RoundTrips : flight' = flight \cup {Reply(tidCtr', 0, d)}
    /\ pc' = "wait" /\ attempt' = 0 /\ elapsed' = 0 /\ left' = tmo
    /\ UNCHANGED <<avg, tmo, result, lastAtt, meas, real>>

(* The pop returns reply m.  A stale tid is dropped and the pop starts  *)
(* over; the matching tid ends the call with update(now, then).         *)
Arrive(m) ==
    /\ pc = "wait"
    /\ m \in flight /\ First(m) /\ m.rem <= left
    /\ flight' = Later(flight \ {m}, m.rem)
    /\ elapsed' = elapsed + m.rem
    /\ IF m.tid # tid
         THEN /\ left' = tmo
              /\ UNCHANGED <<avg, tmo, pc, result, lastAtt, meas, real>>
         ELSE /\ avg' = D!update(avg, elapsed')
              /\ tmo' = D!setLastUpdate(avg')
              /\ pc' = "idle" /\ result' = "ok" /\ lastAtt' = attempt
              /\ meas' = elapsed' /\ real' = m.rt
              /\ UNCHANGED left
    /\ UNCHANGED <<tidCtr, tid, attempt>>

(* The pop times out: relax, and resend while ++attempt <= retryCnt_;    *)
(* otherwise reset the timeout to the user's and throw.                 *)
Expire ==
    /\ pc = "wait"
    /\ \A o \in flight : left < o.rem
    /\ attempt' = attempt + 1
    /\ IF attempt + 1 <= RetryCnt
         THEN /\ avg' = D!relax(avg, tmo)
              /\ tmo' = D!setLastUpdate(avg')
              /\ \E d \in RoundTrips :
                    flight' = Later(flight, left) \cup {Reply(tid, attempt + 1, d)}
              /\ elapsed' = 0 /\ left' = tmo'
              /\ UNCHANGED <<pc, result>>
         ELSE /\ avg' = D!reset(UsrTimeout)
              /\ tmo' = D!setLastUpdate(avg')
              /\ flight' = Later(flight, left)
              /\ pc' = "idle" /\ result' = "timeout"
              /\ UNCHANGED <<elapsed, left>>
    /\ UNCHANGED <<tidCtr, tid, lastAtt, meas, real>>

(* Between calls, replies still on their way reach the port's queue. *)
Pause ==
    /\ pc = "idle"
    /\ \E m \in flight : m.rem > 0 /\ flight' = Later(flight, m.rem)
    /\ UNCHANGED <<avg, tmo, tidCtr, tid, pc, attempt, elapsed, left, result,
                   lastAtt, meas, real>>

Next == Call \/ (\E m \in flight : Arrive(m)) \/ Expire \/ Pause

(* A pop returns by its deadline, and a reply on its way arrives. *)
Spec == Init /\ [][Next]_vars /\ WF_vars(Expire \/ \E m \in flight : Arrive(m))
                              /\ WF_vars(Pause)

-----------------------------------------------------------------------------

(* The tids, the retry counter and the clocks stay in their ranges. *)
TypeOK ==
    /\ tidCtr \in Tids /\ tid \in Tids
    /\ pc \in {"idle", "wait"} /\ attempt \in 0 .. RetryCnt + 1
    /\ avg \in Nat /\ tmo \in Nat /\ elapsed \in Nat /\ left \in Nat
    /\ \A m \in flight : m.tid \in Tids /\ m.rem \in Nat /\ m.rt \in RoundTrips
    /\ result \in {"none", "ok", "timeout"}

(* The caller of read()/write() keeps calling. *)
CallsKeepComing == WF_vars(Call)

(* With a steady round trip and no loss, the adaptive timeout settles:  *)
(* from some call on, every call is answered on its first attempt, even *)
(* though a reply to an earlier attempt (same tid) is measured from the *)
(* retry's push and folds a round trip shorter than the real one.       *)
SettlesOnFirstAttempt ==
    CallsKeepComing => <>[](result = "ok" /\ lastAtt = 0)

(* update(now, then) folds in the round trip of the request the reply  *)
(* answers.                                                             *)
SampleIsRoundTrip == result = "ok" => meas = real

=============================================================================
