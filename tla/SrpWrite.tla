----------------------------- MODULE SrpWrite -----------------------------
(***************************************************************************)
(* The data path of an SRP write (src/cpsw_netio_dev.cc): write() splits  *)
(* a request into writeBlk_unlocked calls of at most maxWordsTx_ words;    *)
(* writeBlk_unlocked sends whole words (or, with byte resolution of V3,    *)
(* exactly the bytes), so for a first or last word that is only partly     *)
(* written, or whose first/last byte is under a bit mask (msk1_, mskn_),   *)
(* it reads the word back with read() and merges                           *)
(*     (old & mask) | (new & ~mask)                                        *)
(* before sending it.  The device stores the frame's payload from the      *)
(* frame's (word- or byte-) address on.                                    *)
(*                                                                         *)
(* A byte is a vector of Bits bits; each bit holds a label naming where it *)
(* came from: memory bit b of address a, or bit b of source byte i.  A     *)
(* mask is the set of bit positions it keeps from memory.                  *)
(***************************************************************************)
EXTENDS Integers, Sequences

CONSTANTS
    MaxWords,  \* maxWordsTx_ (MAXWORDS)
    MaxOff,    \* offsets 0 .. MaxOff are tried
    MaxLen,    \* lengths 0 .. MaxLen are tried
    Bits,      \* bits per byte in the model
    Resolutions \* subset of BOOLEAN: byteResolution_

ASSUME MaxWords \in Nat \ {0} /\ Bits \in Nat \ {0} /\ Resolutions \subseteq BOOLEAN

BitIdx   == 0 .. Bits - 1
Masks    == SUBSET BitIdx
Addrs    == 0 .. MaxOff + MaxLen + 4
MemByte(a) == [b \in BitIdx |-> Bits * a + b]
Src(i)     == [b \in BitIdx |-> -(Bits * i + b) - 1]

VARIABLES
    phase,     \* "pick", "run" (inside write()'s loop) or "done"
    bres,      \* byteResolution_
    off0, len0, m1, mn, \* the arguments of write(): off, nbytes, msk1, mskn
    off,       \* write()'s off, advanced per piece
    dbytes,    \* write()'s dbytes, the bytes still to write
    headbytes, \* write()'s headbytes
    nWords,    \* write()'s nWords
    spos,      \* write()'s src, as an index into the caller's bytes
    msk1,      \* write()'s msk1 (cleared after the first piece)
    mem,       \* the device memory
    lenOk      \* every frame's payload had the length its header announces

vars == <<phase, bres, off0, len0, m1, mn, off, dbytes, headbytes, nWords,
          spos, msk1, mem, lenOk>>

Words(h, s) == (h + s + 3) \div 4

(* (old & mask) | (new & ~mask) *)
Merge(old, new, mask) == [b \in BitIdx |-> IF b \in mask THEN old[b] ELSE new[b]]

(* read(node, &rargs) of len bytes at a into a word buffer *)
ReadBack(m, a, len) == [k \in 1 .. len |-> m[a + k - 1]]

(* The first word: read it back, merge the first byte under msk1 and,    *)
(* when the last byte lies in it too (lastbyte_in_firstword), the last   *)
(* byte under mskn; copy the remaining source bytes in between.  Returns *)
(* the word, and how many source bytes it took (what toput loses).       *)
FirstWord(m, sp, o, n, h, k1, kn, br, lbif) ==
    LET tot  == h + n
        rlen == IF br THEN (IF lbif THEN tot ELSE 1) ELSE 4
        roff == IF br THEN o ELSE o - h
        w0   == ReadBack(m, roff, rlen)
        rem0 == (IF tot <= rlen THEN tot ELSE rlen) - h - 1
        w1   == [w0 EXCEPT ![h + 1] = Merge(w0[h + 1], Src(sp), k1)]
        w2   == IF lbif THEN [w1 EXCEPT ![tot] = Merge(w1[tot], Src(sp + n - 1), kn)] ELSE w1
        rem  == IF lbif THEN rem0 - 1 ELSE rem0
        w3   == [k \in 1 .. rlen |->
                   IF rem > 0 /\ h + 2 <= k /\ k < h + 2 + rem THEN Src(sp + k - h - 1) ELSE w2[k]]
    IN [word |-> w3, used |-> 1 + (IF lbif THEN 1 ELSE 0) + (IF rem > 0 THEN rem ELSE 0)]

(* The last word: read it back, merge the last byte under mskn, copy the *)
(* source bytes before it in the same word.                              *)
LastByte(br, tot) == IF br THEN 0 ELSE (tot - 1) % 4

LastWord(m, sp, o, n, h, kn, br) ==
    LET lb   == LastByte(br, h + n)
        rlen == IF br THEN 1 ELSE 4
        roff == IF br THEN o + n - 1 ELSE (o + n - 1) - ((o + n - 1) % 4)
        w0   == ReadBack(m, roff, rlen)
        w1   == [w0 EXCEPT ![lb + 1] = Merge(w0[lb + 1], Src(sp + n - 1), kn)]
        w2   == [k \in 1 .. rlen |-> IF k <= lb THEN Src(sp + n - 1 - lb + k - 1) ELSE w1[k]]
    IN [word |-> w2, used |-> 1 + lb]

(* msk1 |= mskn when first and last byte are the same *)
FirstMask_noOverlap(mf, ml, n, k1, kn) == k1
FirstMask(mf, ml, n, k1, kn) == IF mf /\ ml /\ n = 1 THEN k1 \cup kn ELSE k1

(* writeBlk_unlocked(src = sp, off = o, dbytes = n, msk1 = k1, mskn = kn): *)
(* the payload it sends, and where the device stores it.                   *)
writeBlk(m, sp, o, n, k1, kn, br) ==
    LET h    == IF br THEN 0 ELSE o % 4
        tot  == h + n
        mf   == h # 0 \/ k1 # {}
        ml0  == (~br /\ tot % 4 # 0) \/ kn # {}
        k1e  == FirstMask(mf, ml0, n, k1, kn)
        ml1  == ml0 /\ ~(mf /\ n = 1)
        lbif == ml1 /\ tot <= 4
        F    == FirstWord(m, sp, o, n, h, k1e, kn, br, lbif)
        ml   == ml1 /\ ~(mf /\ lbif)
        L    == LastWord(m, sp, o, n, h, kn, br)
        flen == IF mf THEN Len(F.word) ELSE 0
        toput == n - (IF mf THEN F.used ELSE 0) - (IF ml THEN L.used ELSE 0)
        mid  == [k \in 1 .. (IF toput > 0 THEN toput ELSE 0) |-> Src(sp + flen - h + k - 1)]
        pld  == (IF mf THEN F.word ELSE <<>>) \o mid \o (IF ml THEN L.word ELSE <<>>)
        base == o - h
        want == IF br THEN tot ELSE 4 * Words(h, n)
    IN [mem |-> [a \in DOMAIN m |->
                   IF base <= a /\ a < base + Len(pld) THEN pld[a - base + 1] ELSE m[a]],
        ok  |-> Len(pld) = want]

(* nbytes = maxWordsTx_*4 - headbytes *)
SplitBytes_noHead(h) == MaxWords * 4
SplitBytes(h) == MaxWords * 4 - h

-----------------------------------------------------------------------------

Init ==
    /\ phase = "pick"
    /\ bres \in Resolutions
    /\ off0 = 0 /\ len0 = 0 /\ m1 = {} /\ mn = {}
    /\ off = 0 /\ dbytes = 0 /\ headbytes = 0 /\ nWords = 0 /\ spos = 0 /\ msk1 = {}
    /\ mem = [a \in Addrs |-> MemByte(a)]
    /\ lenOk = TRUE

(* write(off, nbytes, msk1, mskn) of a caller *)
Write(o, n, k1, kn) ==
    /\ phase = "pick"
    /\ phase' = IF n = 0 THEN "done" ELSE "run"
    /\ off0' = o /\ len0' = n /\ m1' = k1 /\ mn' = kn
    /\ off' = o /\ dbytes' = n
    /\ headbytes' = IF bres THEN 0 ELSE o % 4
    /\ nWords' = Words(IF bres THEN 0 ELSE o % 4, n)
    /\ spos' = 0 /\ msk1' = k1
    /\ UNCHANGED <<bres, mem, lenOk>>

(* One iteration of the while ( nWords > maxWordsTx_ ) loop: a piece   *)
(* with msk1 and no mskn; later pieces have no msk1.                    *)
WritePiece ==
    /\ phase = "run"
    /\ nWords > MaxWords
    /\ LET nb == SplitBytes(headbytes)
           r  == writeBlk(mem, spos, off, nb, msk1, {}, bres)
       IN /\ mem' = r.mem
          /\ lenOk' = (lenOk /\ r.ok)
          /\ nWords' = nWords - MaxWords
          /\ dbytes' = dbytes - nb
          /\ spos' = spos + nb
          /\ off' = off + nb
    /\ headbytes' = 0
    /\ msk1' = {}
    /\ UNCHANGED <<phase, bres, off0, len0, m1, mn>>

(* The final writeBlk_unlocked, with mskn. *)
WriteLast ==
    /\ phase = "run"
    /\ nWords <= MaxWords
    /\ LET r == writeBlk(mem, spos, off, dbytes, msk1, mn, bres)
       IN mem' = r.mem /\ lenOk' = (lenOk /\ r.ok)
    /\ phase' = "done"
    /\ UNCHANGED <<bres, off0, len0, m1, mn, off, dbytes, headbytes, nWords, spos, msk1>>

Next ==
    \/ \E o \in 0 .. MaxOff, n \in 0 .. MaxLen, k1, kn \in Masks : Write(o, n, k1, kn)
    \/ WritePiece
    \/ WriteLast

Spec == Init /\ [][Next]_vars

-----------------------------------------------------------------------------

TypeOK ==
    /\ phase \in {"pick", "run", "done"}
    /\ mem \in [Addrs -> [BitIdx -> Int]]
    /\ {m1, mn, msk1} \subseteq Masks
    /\ dbytes \in Nat /\ nWords \in Nat

(* What write(off, nbytes, msk1, mskn) must leave in memory: byte i of    *)
(* the source at off + i, except for the bits msk1 keeps of the first    *)
(* byte and mskn of the last; every other byte unchanged.                *)
Expected(a) ==
    IF off0 <= a /\ a < off0 + len0
      THEN LET i    == a - off0
               mask == (IF i = 0 THEN m1 ELSE {}) \cup (IF i = len0 - 1 THEN mn ELSE {})
           IN Merge(MemByte(a), Src(i), mask)
      ELSE MemByte(a)

(* When write() returns, memory holds exactly the masked merge, and every *)
(* frame sent carried as many payload bytes as its header announced.      *)
WriteIsMaskedMerge ==
    phase = "done" => (lenOk /\ \A a \in Addrs : mem[a] = Expected(a))

=============================================================================
