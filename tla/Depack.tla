------------------------------- MODULE Depack -------------------------------
(***************************************************************************)
(* The depacketizer protocol module (src/cpsw_proto_mod_depack.cc): a      *)
(* dedicated thread pops datagrams from the upstream port, classifies each *)
(* fragment against a sliding window of frame slots, reassembles frames in *)
(* the slots and pushes every completed frame downstream, releasing the    *)
(* oldest slot when its timeout expires.                                   *)
(*                                                                         *)
(* The environment is the firmware's packetizer, which splits every frame *)
(* into fragments 0..len-1 with the EOF bit on the last one, and the       *)
(* transport beneath the depacketizer, which may (per the constants) lose, *)
(* reorder or duplicate datagrams.  Payload bytes are abstracted to the    *)
(* identity of the fragment (sender frame, fragment number) and two flags  *)
(* recording whether its header and tail are still present in the buffer.  *)
(***************************************************************************)
EXTENDS Integers, Sequences, FiniteSets

CONSTANTS
    FrameMod,      \* 2^FRAME_NO_BIT_SIZE: size of the wire frame-number space
    FrameWinSize,  \* frameWinSize_ = 1 << ldFrameWinSize
    FragWinSize,   \* fragWinSize_  = 1 << ldFragWinSize
    FRAG_MAX,      \* reserved fragment number that also marks the last fragment
    MaxFrames,     \* bound: number of frames the sender emits
    MaxFrags,      \* bound: fragments per frame
    Lossy,         \* the transport may lose datagrams (UDP)
    ReorderDepth,  \* bound: a datagram may overtake up to this many earlier ones
                   \* (UDP with several RX threads); 0: in order
    MaxDups        \* bound: datagrams the transport delivers twice (UDP); 0: none

ASSUME /\ FrameWinSize \in {1, 2, 4, 8} /\ FragWinSize \in {1, 2, 4, 8}
       /\ FrameMod \in {2, 4, 8, 16, 32} /\ FrameWinSize < FrameMod
       /\ MaxFrags \in 1..FRAG_MAX + 1 /\ MaxFrames \in Nat
       /\ Lossy \in BOOLEAN /\ ReorderDepth \in Nat /\ MaxDups \in Nat

(* CFrame::NO_FRAME is (FrameID)-1: larger than every frame number in an   *)
(* unsigned comparison and congruent to -1 modulo the frame-number space.  *)
NO_FRAME == 2 * FrameMod - 1
(* CFrame::NO_FRAG: no last fragment seen yet.                             *)
NO_FRAG  == -1
(* An empty fragment-window entry (a null Buf).                            *)
NoBuf    == [seq |-> -1, frag |-> -1, eof |-> FALSE, hdr |-> FALSE, tail |-> FALSE]

FrameNos == 0 .. FrameMod - 1
SlotIdx  == 0 .. FrameWinSize - 1
FragIdx  == 0 .. FragWinSize - 1
Seqs     == 0 .. MaxFrames - 1

(* A datagram on the wire: one fragment of sender frame 'seq'.  hdr and    *)
(* tail say whether the header and the tail are still in the buffer.       *)
Frag == [seq : Seqs, frag : 0 .. MaxFrags - 1, eof : BOOLEAN, hdr : BOOLEAN, tail : BOOLEAN]

(* The drop/accept statistics counter a datagram increments.               *)
Verdicts == {"none", "accepted", "oldFrame", "newFrame", "oldFrag", "newFrag",
             "duplicate", "pastLast", "internalError"}

VARIABLES
    oldestFrame,  \* oldestFrame_
    frameWin,     \* frameWin_: slot index -> CFrame
    crashed,      \* InternalError escaped threadBody: the thread is gone
    lastRx,       \* the last datagram processed and the counter it incremented
    delivered,    \* frames pushed downstream (pushDown), in order
    net,          \* datagrams in flight
    sentLen,      \* sentLen[s+1]: number of fragments of sender frame s
    dups          \* number of datagrams delivered twice so far

depackVars == <<oldestFrame, frameWin, crashed, lastRx, delivered>>
vars       == <<oldestFrame, frameWin, crashed, lastRx, delivered, net, sentLen, dups>>

(* The wire frame number of sender frame s.                                *)
FrameNo(s) == s % FrameMod

-----------------------------------------------------------------------------
(* CFrame (the slot) and its helpers; their code is in                     *)
(* cpsw_proto_mod_depack.h, which is not part of the sources.              *)

EmptyFrame == [frameID    |-> NO_FRAME,
               oldestFrag |-> 0,
               lastFrag   |-> NO_FRAG,
               running    |-> FALSE,
               prod       |-> <<>>,
               fragWin    |-> [i \in FragIdx |-> NoBuf]]

toFrameIdx(n) == n % FrameWinSize
toFragIdx(k)  == k % FragWinSize

(* CAxisFrameHeader::signExtendFrameNo: a frame-number difference read as  *)
(* a signed FRAME_NO_BIT_SIZE-bit number.                                  *)
signExtendFrameNo(x) ==
    LET m == x % FrameMod IN IF m >= FrameMod \div 2 THEN m - FrameMod ELSE m

moduloFrameSz(x) == x % FrameMod

AbsVal(x) == IF x < 0 THEN -x ELSE x

(* CFrame::isComplete: the last fragment is known and every fragment up to *)
(* it has been moved into the output chain.                                *)
isComplete(fr) == fr.lastFrag # NO_FRAG /\ fr.oldestFrag > fr.lastFrag

(* CFrame::updateChain: move the fragments that are contiguous with the    *)
(* chain from the fragment window to the output chain.                     *)
RECURSIVE updateChain(_)
updateChain(fr) ==
    LET i == toFragIdx(fr.oldestFrag) IN
    IF fr.fragWin[i] = NoBuf THEN fr
    ELSE updateChain([fr EXCEPT !.prod       = Append(@, fr.fragWin[i]),
                                !.fragWin[i] = NoBuf,
                                !.oldestFrag = @ + 1])

-----------------------------------------------------------------------------
(* The thread's state as a record, so that the steps of one handler can be *)
(* composed as functions.                                                   *)
Dp == [oldest |-> oldestFrame, win |-> frameWin, out |-> delivered,
       crashed |-> crashed, verdict |-> "none"]

Verdict(d, v) == [d EXCEPT !.verdict = v]

(* The guard of CProtoModDepack::releaseOldestFrame.                       *)
CanReleaseOldest(d, onlyComplete) ==
    LET fr == d.win[toFrameIdx(d.oldest)] IN
    /\ d.oldest # NO_FRAME
    /\ fr.running
    /\ onlyComplete => isComplete(fr)

(* CProtoModDepack::releaseOldestFrame when its guard holds: push a        *)
(* complete frame downstream (with an indefinite timeout, so it never      *)
(* fails), drop an incomplete one, clear the slot and advance oldestFrame_.*)
(* Mutants of DoReleaseOldest: oldestFrame_ advanced without the modulo;  *)
(* the slot released without forgetting its frame ID.                      *)
DoReleaseOldest_noModulo(d) ==
    LET i == toFrameIdx(d.oldest) IN
    [d EXCEPT !.out    = IF isComplete(d.win[i]) THEN Append(@, d.win[i].prod) ELSE @,
              !.win[i] = EmptyFrame,
              !.oldest = @ + 1]

DoReleaseOldest_keepFrameID(d) ==
    LET i == toFrameIdx(d.oldest) IN
    [d EXCEPT !.out    = IF isComplete(d.win[i]) THEN Append(@, d.win[i].prod) ELSE @,
              !.win[i] = [EmptyFrame EXCEPT !.frameID = d.win[i].frameID],
              !.oldest = moduloFrameSz(@ + 1)]

DoReleaseOldest(d) ==
    LET i  == toFrameIdx(d.oldest)
        fr == d.win[i]
    IN [d EXCEPT !.out    = IF isComplete(fr) THEN Append(@, fr.prod) ELSE @,
                 !.win[i] = EmptyFrame,
                 !.oldest = moduloFrameSz(@ + 1)]

releaseOldestFrame(d, onlyComplete) ==
    IF CanReleaseOldest(d, onlyComplete) THEN DoReleaseOldest(d) ELSE d

(* CProtoModDepack::releaseFrames                                          *)
RECURSIVE releaseFrames(_, _)
releaseFrames(d, onlyComplete) ==
    IF CanReleaseOldest(d, onlyComplete)
    THEN releaseFrames(DoReleaseOldest(d), onlyComplete)
    ELSE d

(* CProtoModDepack::frameSync: resynchronise when the frame is more than a *)
(* window away from oldestFrame_.                                           *)
frameSync(d, n) ==
    IF AbsVal(signExtendFrameNo(n - d.oldest)) > FrameWinSize
    THEN [releaseFrames(d, FALSE) EXCEPT !.oldest = moduloFrameSz(n + 1)]
    ELSE d

(* startTimeout for the slots from oldestFrame_ up to (excluding) slot j,  *)
(* and for slot j itself.                                                   *)
(* Mutant: only the slot of the new frame starts its timer.                *)
StartTimeouts_ownSlot(d, j) ==
    [i \in SlotIdx |-> IF i = j THEN [d.win[i] EXCEPT !.running = TRUE] ELSE d.win[i]]

StartTimeouts(d, j) ==
    [i \in SlotIdx |->
        IF (i - toFrameIdx(d.oldest)) % FrameWinSize
             <= (j - toFrameIdx(d.oldest)) % FrameWinSize
        THEN [d.win[i] EXCEPT !.running = TRUE]
        ELSE d.win[i]]

StoreFrag(d, j, b) ==
    LET fr   == d.win[j]
        last == IF (b.eof \/ b.frag = FRAG_MAX) /\ fr.lastFrag = NO_FRAG
                THEN b.frag ELSE fr.lastFrag
        nb   == [b EXCEPT !.hdr  = (b.frag = 0),
                          !.tail = (b.frag = last)]
    IN [d EXCEPT !.win[j] = updateChain([fr EXCEPT !.lastFrag = last,
                                                   !.fragWin[toFragIdx(b.frag)] = nb]),
                 !.verdict = "accepted"]

(* Mutant: a fragment below the slot's oldest fragment is not dropped.     *)
AcceptInSlot_noOldFragCheck(d, b) ==
    LET n  == FrameNo(b.seq)
        j  == toFrameIdx(n)
        fr == d.win[j]
    IN CASE b.frag >= fr.oldestFrag + FragWinSize  -> Verdict(d, "newFrag")
         [] fr.frameID = NO_FRAME ->
               StoreFrag([d EXCEPT !.win = [StartTimeouts(d, j) EXCEPT
                                              ![j].prod = <<>>, ![j].frameID = n]],
                         j, b)
         [] fr.frameID # n ->
               [Verdict(d, "internalError") EXCEPT !.crashed = TRUE]
         [] fr.fragWin[toFragIdx(b.frag)] # NoBuf  -> Verdict(d, "duplicate")
         [] fr.lastFrag # NO_FRAG /\ b.frag > fr.lastFrag -> Verdict(d, "pastLast")
         [] OTHER -> StoreFrag(d, j, b)

(* processBuffer from the computation of frameIdx on: fragment-window      *)
(* checks, first-fragment bookkeeping, duplicate and past-last checks.     *)
AcceptInSlot(d, b) ==
    LET n  == FrameNo(b.seq)
        j  == toFrameIdx(n)
        fr == d.win[j]
    IN CASE b.frag < fr.oldestFrag                 -> Verdict(d, "oldFrag")
         [] b.frag >= fr.oldestFrag + FragWinSize  -> Verdict(d, "newFrag")
         [] fr.frameID = NO_FRAME ->
               StoreFrag([d EXCEPT !.win = [StartTimeouts(d, j) EXCEPT
                                              ![j].prod = <<>>, ![j].frameID = n]],
                         j, b)
         [] fr.frameID # n ->
               [Verdict(d, "internalError") EXCEPT !.crashed = TRUE]
         [] fr.fragWin[toFragIdx(b.frag)] # NoBuf  -> Verdict(d, "duplicate")
         [] fr.lastFrag # NO_FRAG /\ b.frag > fr.lastFrag -> Verdict(d, "pastLast")
         [] OTHER -> StoreFrag(d, j, b)

(* processBuffer once oldestFrame_ is a frame number: evict on the first   *)
(* frame past the window, drop and resync further beyond.                  *)
AcceptFrame(d, b) ==
    LET n      == FrameNo(b.seq)
        relOff == moduloFrameSz(n - d.oldest)
    IN IF relOff >= FrameWinSize
       THEN IF relOff = FrameWinSize
            THEN AcceptInSlot(releaseOldestFrame(d, FALSE), b)
            ELSE Verdict(frameSync(d, n), "newFrame")
       ELSE AcceptInSlot(d, b)

(* CProtoModDepack::processBuffer                                          *)
processBuffer(d, b) ==
    LET n == FrameNo(b.seq) IN
    IF n < d.oldest
    THEN IF d.oldest = NO_FRAME /\ b.frag = 0
         THEN AcceptFrame([d EXCEPT !.oldest = n], b)
         ELSE Verdict(frameSync(d, n), "oldFrame")
    ELSE AcceptFrame(d, b)

(* One iteration of threadBody for a popped datagram: processBuffer, then  *)
(* releaseFrames(true).  An InternalError ends the thread on the spot.     *)
HandleDatagram(d, b) ==
    LET p == processBuffer(d, b) IN
    IF p.crashed THEN p ELSE releaseFrames(p, TRUE)

(* One iteration of threadBody whose pop timed out.                         *)
(* Mutant: a timed-out frame is released only if it is complete.          *)
HandleTimeout_onlyComplete(d) == releaseFrames(releaseOldestFrame(d, TRUE), TRUE)

HandleTimeout(d) == releaseFrames(releaseOldestFrame(d, FALSE), TRUE)

SetDp(d, b) ==
    /\ oldestFrame' = d.oldest
    /\ frameWin'    = d.win
    /\ delivered'   = d.out
    /\ crashed'     = d.crashed
    /\ lastRx'      = [frag |-> b, verdict |-> d.verdict]

-----------------------------------------------------------------------------
Init ==
    /\ oldestFrame = NO_FRAME
    /\ frameWin    = [i \in SlotIdx |-> EmptyFrame]
    /\ crashed     = FALSE
    /\ lastRx      = [frag |-> NoBuf, verdict |-> "none"]
    /\ delivered   = <<>>
    /\ net         = {}
    /\ sentLen     = <<>>
    /\ dups        = 0

(* Every fragment the sender emitted that is still on the wire or held in  *)
(* a slot.                                                                  *)
HeldFrags ==
    net
    \cup {frameWin[j].fragWin[k] : j \in SlotIdx, k \in FragIdx}
    \cup UNION {{frameWin[j].prod[k] : k \in 1 .. Len(frameWin[j].prod)} : j \in SlotIdx}

(* Timing assumption: a datagram and a partly assembled frame never live   *)
(* as long as the sender takes to wrap the frame-number space.             *)
Fresh(s) == \A b \in HeldFrags \ {NoBuf} : b.seq > s - FrameMod

(* The packetizer emits frame s as fragments 0..len-1, EOF on the last.    *)
Send ==
    LET s == Len(sentLen) IN
    /\ s < MaxFrames
    /\ Fresh(s)
    /\ \E len \in 1 .. MaxFrags :
         /\ sentLen' = Append(sentLen, len)
         /\ net' = net \cup {[seq |-> s, frag |-> k, eof |-> k = len - 1,
                                hdr |-> TRUE, tail |-> TRUE] : k \in 0 .. len - 1}
    /\ UNCHANGED <<depackVars, dups>>

(* Position of a datagram in the order the sender emitted them.           *)
Pos(a) ==
    LET before[i \in 0 .. a.seq] == IF i = 0 THEN 0 ELSE before[i - 1] + sentLen[i]
    IN before[a.seq] + a.frag

(* Datagrams the transport may hand to the depacketizer next: those that  *)
(* overtake at most ReorderDepth datagrams still in flight.                *)
Deliverable == {a \in net : \A b \in net : Pos(a) - Pos(b) <= ReorderDepth}

(* The depacketizer thread pops a datagram and processes it.               *)
Receive ==
    /\ ~crashed
    /\ \E b \in Deliverable :
         /\ SetDp(HandleDatagram(Dp, b), b)
         /\ net' = net \ {b}
    /\ UNCHANGED <<sentLen, dups>>

(* The transport delivers a copy of a datagram and keeps the original.     *)
ReceiveCopy ==
    /\ dups < MaxDups /\ ~crashed
    /\ \E b \in Deliverable :
         /\ SetDp(HandleDatagram(Dp, b), b)
         /\ UNCHANGED net
    /\ dups' = dups + 1
    /\ UNCHANGED sentLen

(* The transport loses a datagram.                                          *)
Lose ==
    /\ Lossy
    /\ \E b \in net : net' = net \ {b}
    /\ UNCHANGED <<depackVars, sentLen, dups>>

(* The pop of threadBody returns at the oldest running slot's deadline.    *)
Timeout ==
    /\ ~crashed
    /\ oldestFrame # NO_FRAME
    /\ frameWin[toFrameIdx(oldestFrame)].running
    /\ SetDp(HandleTimeout(Dp), NoBuf)
    /\ UNCHANGED <<net, sentLen, dups>>

Next == Send \/ Receive \/ ReceiveCopy \/ Lose \/ Timeout

(* The clock keeps running: the pop of threadBody with the oldest running *)
(* slot's deadline returns once the deadline has passed.  Nothing is       *)
(* assumed of the transport or of the sender.                               *)
Spec == Init /\ [][Next]_vars /\ WF_vars(Timeout)

-----------------------------------------------------------------------------
(* Properties                                                               *)

TypeOK ==
    /\ oldestFrame \in FrameNos \cup {NO_FRAME}
    /\ \A j \in SlotIdx :
         LET fr == frameWin[j] IN
         /\ fr.frameID \in FrameNos \cup {NO_FRAME}
         /\ fr.oldestFrag \in 0 .. MaxFrags
         /\ fr.lastFrag \in {NO_FRAG} \cup 0 .. MaxFrags - 1
         /\ fr.running \in BOOLEAN
         /\ fr.prod \in Seq(Frag)
         /\ fr.fragWin \in [FragIdx -> Frag \cup {NoBuf}]
    /\ crashed \in BOOLEAN
    /\ lastRx \in [frag : Frag \cup {NoBuf}, verdict : Verdicts]
    /\ delivered \in Seq(Seq(Frag))
    /\ net \subseteq Frag
    /\ sentLen \in Seq(1 .. MaxFrags)
    /\ dups \in 0 .. MaxDups

(* A frame pushed downstream by releaseOldestFrame is exactly the frame    *)
(* the sender emitted: all of its fragments, in order, nothing of another  *)
(* frame, with the header kept only on fragment 0 and the tail only on the *)
(* last fragment (processBuffer's stripping and CFrame::updateChain).      *)
WholeFrame(fr) ==
    /\ Len(fr) > 0
    /\ LET s == fr[1].seq IN
       /\ Len(fr) = sentLen[s + 1]
       /\ \A k \in 1 .. Len(fr) :
            /\ fr[k].seq = s /\ fr[k].frag = k - 1
            /\ fr[k].hdr = (k = 1) /\ fr[k].tail = (k = Len(fr))

FrameIntegrity == \A i \in 1 .. Len(delivered) : WholeFrame(delivered[i])

(* The "Frame ID window inconsistency" InternalError of processBuffer,     *)
(* which ends the depacketizer thread, is never thrown.                    *)
NoInternalError == ~crashed

(* A fragment whose frame number lies in the (modular) frame window        *)
(* [oldestFrame_, oldestFrame_ + frameWinSize_) is never dropped as an old *)
(* or a new frame by processBuffer.                                        *)
InFrameWindow(n, o) == o # NO_FRAME /\ moduloFrameSz(n - o) < FrameWinSize

FrameWindowAcceptance ==
    [][(Receive \/ ReceiveCopy) /\ InFrameWindow(FrameNo(lastRx'.frag.seq), oldestFrame)
         => lastRx'.verdict \notin {"oldFrame", "newFrame"}]_vars

(* The window drains once the sender stops, unless an InternalError has  *)
(* ended the thread: no slot keeps a running timer forever.  Over a lossy, *)
(* reordering link a newer frame can begin while older slots are empty;   *)
(* processBuffer must start their timers too, since the thread only waits *)
(* with a deadline when the oldest slot is running.                        *)
WindowDrains == <>[](crashed \/ \A j \in SlotIdx : ~frameWin[j].running)

=============================================================================
