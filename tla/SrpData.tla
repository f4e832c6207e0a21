----------------------------- MODULE SrpData -----------------------------
(***************************************************************************)
(* The data path of an SRP read (src/cpsw_netio_dev.cc): read() splits a  *)
(* request of sbytes bytes at byte offset off into readBlk_unlocked calls  *)
(* of at most maxWordsRx_ words, and readBlk_unlocked scatters the reply   *)
(* over the caller's buffer: the bytes before off in the first word go to  *)
(* bufh, the requested bytes to dst, the padding of the last word to buft. *)
(* Protocol version 1 sends the payload in network byte order, and         *)
(* readBlk_unlocked swaps it back into the little-endian layout in place.  *)
(*                                                                         *)
(* Memory byte a holds the value a, so a buffer shows where each of its    *)
(* bytes came from.  The caller's buffer has sbytes bytes and Guard bytes  *)
(* beyond them that the read must not touch.                               *)
(***************************************************************************)
EXTENDS Integers

CONSTANTS
    MaxWords,  \* maxWordsRx_ (MAXWORDS)
    MaxOff,    \* offsets 0 .. MaxOff are tried
    MaxLen,    \* lengths 0 .. MaxLen are tried
    Versions   \* subset of {1, 2}: SRP_UDP_V1, SRP_UDP_V2 (word resolution)

ASSUME MaxWords \in Nat \ {0} /\ Versions \subseteq {1, 2}

Guard    == 4        \* bytes past the caller's buffer that are watched
Untouched == -1      \* the value of a byte nobody wrote

VARIABLES
    phase,     \* "pick", "run" (inside read()'s loop) or "done"
    ver,       \* protocol version
    off0, len0,\* the arguments of read()
    off,       \* read()'s off, advanced per piece
    sbytes,    \* read()'s sbytes, the bytes still to read
    headbytes, \* read()'s headbytes
    nWords,    \* read()'s nWords, the words still to read
    dpos,      \* read()'s dst, as an index into the caller's buffer
    buf,       \* the caller's buffer, Guard bytes included
    widest     \* the most words a single readBlk_unlocked asked for

vars == <<phase, ver, off0, len0, off, sbytes, headbytes, nWords, dpos, buf, widest>>

Words(h, s) == (h + s + 3) \div 4

(* The reply payload for nw words from word-aligned address a: V1 sends  *)
(* each 32-bit word most significant byte first, V2 in memory order.      *)
Wire(a, nw, v) ==
    [k \in 0 .. 4 * nw - 1 |->
        IF v = 1 THEN a + 4 * (k \div 4) + 3 - (k % 4) ELSE a + k]

(* swpw: reverse the four bytes of a word *)
Rev4(t) == [k \in 0 .. 3 |-> t[3 - k]]

(* memcpy(b + d, t + from, n) *)
CopyIn(b, d, t, from, n) ==
    [i \in DOMAIN b |-> IF d <= i /\ i < d + n THEN t[from + i - d] ELSE b[i]]

(* V1, headbytes # 0: rebuild the first word from bufh, dst and, when the *)
(* read ends inside it, buft; swap it; copy its hoff data bytes to dst.  *)
V1Head(b, d, h, s, S) ==
    LET hoff == 4 - h
        tmp  == [k \in 0 .. 3 |->
                   IF k < h THEN S[k]
                   ELSE IF hoff > s /\ k >= h + s THEN S[k]
                   ELSE b[d + k - h]]
    IN CopyIn(b, d, Rev4(tmp), h, hoff)

(* jend = ((int)(sbytes - hoff)) & ~3: negative when the read ends in the *)
(* first word, and then the loop does not run.                          *)
JEnd(s, hoff) == IF s >= hoff THEN ((s - hoff) \div 4) * 4 ELSE -4

(* for ( j = 0; j < jend; j += 4 ) swpw( dst + hoff + j ) *)
V1Words_noHoff(b, d, hoff, jend) ==
    [i \in DOMAIN b |->
        IF d <= i /\ i < d + jend
          THEN LET w == d + 4 * ((i - d) \div 4) IN b[w + 3 - (i - w)]
          ELSE b[i]]

V1Words(b, d, hoff, jend) ==
    [i \in DOMAIN b |->
        IF d + hoff <= i /\ i < d + hoff + jend
          THEN LET w == d + hoff + 4 * ((i - d - hoff) \div 4) IN b[w + 3 - (i - w)]
          ELSE b[i]]

(* The last, partial word: its data bytes from dst, its padding from     *)
(* buft; swap; copy the data bytes back.                                *)
V1Tail(b, p, tb, S, sEnd) ==
    LET tmp == [k \in 0 .. 3 |-> IF k < 4 - tb THEN b[p + k] ELSE S[sEnd + k - (4 - tb)]]
    IN CopyIn(b, p, Rev4(tmp), 0, 4 - tb)

(* readBlk_unlocked(dst = buffer index d, off, sbytes = s): the reply's  *)
(* payload is extracted over bufh / dst / buft and, for V1, swapped.     *)
readBlk(b, d, o, s, v) ==
    LET h    == o % 4
        tot  == h + s
        tb   == IF tot % 4 # 0 THEN 4 - (tot % 4) ELSE 0
        S    == Wire(o - h, Words(h, s), v)
        rx   == [i \in DOMAIN b |-> IF d <= i /\ i < d + s THEN S[(h + i) - d] ELSE b[i]]
        hoff == IF h # 0 THEN 4 - h ELSE 0
        jend == JEnd(s, hoff)
        b1   == IF h # 0 THEN V1Head(rx, d, h, s, S) ELSE rx
        b2   == V1Words(b1, d, hoff, jend)
        j    == IF jend > 0 THEN jend ELSE 0
        b3   == IF tb # 0 /\ hoff <= s THEN V1Tail(b2, d + hoff + j, tb, S, h + s) ELSE b2
    IN IF s = 0 THEN b ELSE IF v = 1 THEN b3 ELSE rx

(* while ( nWords > maxWordsRx_ ) *)
MustSplit_offByOne(nw) == nw > MaxWords + 1
MustSplit(nw) == nw > MaxWords

(* nbytes = maxWordsRx_*4 - headbytes *)
SplitBytes_noHead(h) == MaxWords * 4
SplitBytes(h) == MaxWords * 4 - h

-----------------------------------------------------------------------------

Init ==
    /\ phase = "pick"
    /\ ver \in Versions
    /\ off0 = 0 /\ len0 = 0 /\ off = 0 /\ sbytes = 0 /\ headbytes = 0
    /\ nWords = 0 /\ dpos = 0 /\ widest = 0
    /\ buf = [i \in 0 .. Guard - 1 |-> Untouched]

(* read(off, nbytes) of a caller: headbytes, nWords, then the loop. *)
Read(o, n) ==
    /\ phase = "pick"
    /\ phase' = IF n = 0 THEN "done" ELSE "run"
    /\ off0' = o /\ len0' = n /\ off' = o /\ sbytes' = n
    /\ headbytes' = o % 4
    /\ nWords' = Words(o % 4, n)
    /\ dpos' = 0
    /\ buf' = [i \in 0 .. n + Guard - 1 |-> Untouched]
    /\ UNCHANGED <<ver, widest>>

(* One iteration of the while ( nWords > maxWordsRx_ ) loop. *)
ReadPiece ==
    /\ phase = "run"
    /\ MustSplit(nWords)
    /\ LET nb == SplitBytes(headbytes)
       IN /\ buf' = readBlk(buf, dpos, off, nb, ver)
          /\ widest' = IF Words(off % 4, nb) > widest THEN Words(off % 4, nb) ELSE widest
          /\ nWords' = nWords - MaxWords
          /\ sbytes' = sbytes - nb
          /\ dpos' = dpos + nb
          /\ off' = off + nb
          /\ headbytes' = 0
    /\ UNCHANGED <<phase, ver, off0, len0>>

(* The final readBlk_unlocked after the loop. *)
ReadLast ==
    /\ phase = "run"
    /\ ~MustSplit(nWords)
    /\ buf' = readBlk(buf, dpos, off, sbytes, ver)
    /\ widest' = IF Words(off % 4, sbytes) > widest THEN Words(off % 4, sbytes) ELSE widest
    /\ phase' = "done"
    /\ UNCHANGED <<ver, off0, len0, off, sbytes, headbytes, nWords, dpos>>

Next ==
    \/ \E o \in 0 .. MaxOff, n \in 0 .. MaxLen : Read(o, n)
    \/ ReadPiece
    \/ ReadLast

Spec == Init /\ [][Next]_vars

-----------------------------------------------------------------------------

TypeOK ==
    /\ phase \in {"pick", "run", "done"}
    /\ ver \in Versions
    /\ buf \in [0 .. len0 + Guard - 1 -> Int]
    /\ nWords \in Nat /\ sbytes \in Nat /\ widest \in Nat

(* When read() returns, byte i of the caller's buffer holds memory byte  *)
(* off + i, whatever the split into pieces and the V1 swapping.          *)
ReadDeliversMemory ==
    phase = "done" => \A i \in 0 .. len0 - 1 : buf[i] = off0 + i

(* No readBlk_unlocked asks for more than maxWordsRx_ words. *)
PiecesFit == widest <= MaxWords

(* read() writes only the nbytes bytes its caller asked for. *)
ReadStaysInBuffer == \A i \in len0 .. len0 + Guard - 1 : buf[i] = Untouched

=============================================================================
