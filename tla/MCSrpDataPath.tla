---------------------------- MODULE MCSrpDataPath ----------------------------
(***************************************************************************)
(* The data path of one SRP address: a read() (SrpData) or a write()       *)
(* (SrpWrite).  read() and write() take the address' mutex, so one of them *)
(* runs at a time; each behaviour here is one such call, a read or a write *)
(* picked at the start, with the other component left idle.               *)
(***************************************************************************)
EXTENDS Naturals

CONSTANTS MaxWords, RMaxOff, RMaxLen, Versions, WMaxOff, WMaxLen, Bits, Resolutions

VARIABLES rphase, ver, roff0, rlen0, roff, sbytes, rhead, rwords, dpos, buf, widest,
          wphase, bres, woff0, wlen0, m1, mn, woff, dbytes, whead, wwords, spos, msk1,
          mem, lenOk

rvars == <<rphase, ver, roff0, rlen0, roff, sbytes, rhead, rwords, dpos, buf, widest>>
wvars == <<wphase, bres, woff0, wlen0, m1, mn, woff, dbytes, whead, wwords, spos, msk1,
           mem, lenOk>>
vars  == <<rvars, wvars>>

R == INSTANCE SrpData WITH MaxOff <- RMaxOff, MaxLen <- RMaxLen,
        phase <- rphase, off0 <- roff0, len0 <- rlen0, off <- roff,
        headbytes <- rhead, nWords <- rwords

W == INSTANCE SrpWrite WITH MaxOff <- WMaxOff, MaxLen <- WMaxLen,
        phase <- wphase, off0 <- woff0, len0 <- wlen0, off <- woff,
        headbytes <- whead, nWords <- wwords

Init == R!Init /\ W!Init

Next ==
    \/ wphase = "pick" /\ R!Next /\ UNCHANGED wvars
    \/ rphase = "pick" /\ W!Next /\ UNCHANGED rvars

Spec == Init /\ [][Next]_vars

TypeOK == R!TypeOK /\ W!TypeOK

(* See SrpData and SrpWrite: what read() and write() leave behind. *)
ReadDeliversMemory == R!ReadDeliversMemory
PiecesFit == R!PiecesFit
WriteIsMaskedMerge == W!WriteIsMaskedMerge

====
