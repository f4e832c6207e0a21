----------------------------- MODULE DynTimeout -----------------------------
(***************************************************************************)
(* The adaptive timeout of an SRP address (DynTimeout, src/cpsw_netio_dev. *)
(* cc).  avgRndTrip_ holds the average round trip scaled by 2^AVG_SHFT; a  *)
(* reply folds its round trip into it (update, weight 2^-AVG_SHFT), a pop  *)
(* that timed out grows it by twice the timeout (relax), and a call that   *)
(* gave up resets it to the user's timeout.  Every change recomputes the   *)
(* timeout, avgRndTrip_ >> (AVG_SHFT - MARG_SHFT), raised to the cap.     *)
(*                                                                         *)
(* AVG_SHFT, MARG_SHFT and CAP_US are defined in a header that is not in   *)
(* src/; they are constants here, with the code's arithmetic on them.      *)
(* Times are in units of the model, not in microseconds.                   *)
(***************************************************************************)
EXTENDS Naturals

CONSTANTS
    AvgShft,     \* AVG_SHFT
    MargShft,    \* MARG_SHFT
    CapUs,       \* CAP_US, the initial timeoutCap_
    Inits,       \* user timeouts (usrTimeout_) passed to the constructor and reset
    RoundTrips,  \* round trips a reply can take
    AvgMax,      \* relax only while avgRndTrip_ is below this bound
    Rt           \* a round trip for the liveness property

ASSUME MargShft \in Nat /\ AvgShft \in Nat /\ MargShft <= AvgShft

Shr(x, s) == x \div (2 ^ s)
Shl(x, s) == x * (2 ^ s)

VARIABLES
    avg,     \* avgRndTrip_
    tmo,     \* dynTimeout_, in the code a CTimeout
    maxRt,   \* maxRndTrip_
    lastOp,  \* the method of the last step, for the action properties
    sample   \* the round trip of the last update

vars == <<avg, tmo, maxRt, lastOp, sample>>

(* getAvgRndTrip *)
Mean(a) == Shr(a, AvgShft)

(* setLastUpdate: the new timeout from the average, at least the cap *)
setLastUpdate_noCap(a) == Shr(a, AvgShft - MargShft)

setLastUpdate(a) ==
    LET nt == Shr(a, AvgShft - MargShft) IN IF nt < CapUs THEN CapUs ELSE nt

(* reset(iniv) *)
reset(iniv) == Shl(iniv, AvgShft - MargShft)

(* relax(): avgRndTrip_ += (timeout << 1) - (avgRndTrip_ >> AVG_SHFT) *)
relax_fullAvg(a, t) == a + Shl(t, 1) - a
relax(a, t) == a + Shl(t, 1) - Mean(a)

(* update(now, then): avgRndTrip_ += diff - (avgRndTrip_ >> AVG_SHFT) *)
update_margShift(a, d) == a + d - Shr(a, AvgShft - MargShft)
update(a, d) == a + d - Mean(a)

-----------------------------------------------------------------------------

(* The constructor: DynTimeout(iniv) with timeoutCap_ = CAP_US, reset. *)
Init ==
    \E iniv \in Inits :
        /\ avg = reset(iniv)
        /\ tmo = setLastUpdate(avg)
        /\ maxRt = 0
        /\ lastOp = "reset"
        /\ sample = 0

(* readBlk/writeBlk: a call that gave up resets to usrTimeout_. *)
Reset(iniv) ==
    /\ avg' = reset(iniv)
    /\ tmo' = setLastUpdate(avg')
    /\ maxRt' = 0
    /\ lastOp' = "reset"
    /\ UNCHANGED sample

(* A pop timed out and the call retries. *)
Relax ==
    /\ avg < AvgMax
    /\ avg' = relax(avg, tmo)
    /\ tmo' = setLastUpdate(avg')
    /\ lastOp' = "relax"
    /\ UNCHANGED <<maxRt, sample>>

(* The matching reply came after d: fold d into the average. *)
Update(d) ==
    /\ maxRt' = IF maxRt < d THEN d ELSE maxRt
    /\ avg' = update(avg, d)
    /\ tmo' = setLastUpdate(avg')
    /\ lastOp' = "update"
    /\ sample' = d

Next ==
    \/ \E iniv \in Inits : Reset(iniv)
    \/ Relax
    \/ \E d \in RoundTrips : Update(d)

Spec == Init /\ [][Next]_vars

-----------------------------------------------------------------------------

TypeOK ==
    /\ avg \in Nat /\ tmo \in Nat /\ maxRt \in Nat
    /\ lastOp \in {"reset", "relax", "update"}
    /\ tmo >= CapUs

(* update() moves the average towards the round trip it folds in and    *)
(* never past it: the new average lies between the old one and d, in    *)
(* spite of the shifts that drop the low bits.                          *)
Between(x, lo, hi) == (lo <= x /\ x <= hi) \/ (hi <= x /\ x <= lo)

UpdateStaysBetween ==
    [][lastOp' = "update" => Between(Mean(avg'), Mean(avg), sample')]_vars

(* relax() after a timeout never shortens the timeout the retry pops with. *)
RelaxNeverShrinks == [][lastOp' = "relax" => tmo' >= tmo]_vars

(* Once every step is a successful call whose reply took Rt, and such  *)
(* calls keep coming while they would change the average, the average   *)
(* settles on Rt exactly and stays there: integer truncation does not   *)
(* leave it stuck elsewhere.                                            *)
SettlesOnRoundTrip ==
    (<>[][Update(Rt)]_vars /\ WF_vars(Update(Rt))) => <>[](Mean(avg) = Rt)

====
