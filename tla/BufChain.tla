----------------------------- MODULE BufChain -----------------------------
(***************************************************************************)
(* Buffers and a buffer chain (src/cpsw_buf.cc).  A buffer (CBufImpl) has  *)
(* a data area of Cap bytes with a payload window beg_ .. end_, a strong   *)
(* next_ and a weak prev_ link and a weak link chain_ to the chain it is   *)
(* on.  The chain (CBufChainImpl) has head_, tail_ and the denormalised    *)
(* counts len_ (buffers) and size_ (bytes), which every buffer operation   *)
(* must keep up to date.  Buffers come from a free list that does not      *)
(* clear their data area.                                                  *)
(*                                                                         *)
(* The model has one chain and NBufs buffer objects; a buffer is either in *)
(* the free list or held by the program.  All of it is kept in one record  *)
(* h, so that the code's nested calls (createAtTail -> addAtTail -> after  *)
(* -> addToChain) compose as operators on it.  An exception thrown before  *)
(* an operation changed anything leaves h as it was.                      *)
(***************************************************************************)
EXTENDS Integers, Sequences, FiniteSets, SequencesExt

CONSTANTS
    Bufs,         \* buffer objects (the free list's capacity in the model)
    Nil,          \* the NULL buffer pointer
    Cap,          \* sizeof(data_), the capacity of a buffer
    MaxOff,       \* insert offsets 0 .. MaxOff are tried
    MaxLen,       \* insert lengths 1 .. MaxLen are tried
    MaxIns,       \* bound on the number of insert calls
    MaxOps,       \* bound on the number of other buffer operations
    MiddleUnlink, \* whether callers unlink a buffer that has both neighbours
    Junk,         \* whatever a data byte held before anything wrote it
    Zero          \* a zero byte

ASSUME Nil \notin Bufs /\ Cap \in Nat \ {0} /\ MiddleUnlink \in BOOLEAN

NBufs   == Cardinality(Bufs)
NullPtr == -1                      \* setPayload( NULL )
Lbl(n, i) == <<n, i>>              \* byte i of the source of insert call n
Bytes   == {Junk} \cup ((1 .. MaxIns) \X (0 .. MaxLen - 1))

VARIABLES
    h,        \* the buffers and the chain (see Heap)
    phase,    \* "idle", or the loop of insert() being run
    ioff, isize, ib, inxt, isrc,  \* insert()'s off, size, b, nxtb, src
    nIns,     \* insert calls made
    nOps,     \* other operations made
    iOff0, iLen0, pre  \* history: the arguments of the last insert, and the chain's bytes before it

vars == <<h, phase, ioff, isize, ib, inxt, isrc, nIns, nOps, iOff0, iLen0, pre>>

Heap == [head : Bufs \cup {Nil}, tail : Bufs \cup {Nil}, len : Int, size : Int,
         on : [Bufs -> BOOLEAN], nxt : [Bufs -> Bufs \cup {Nil}], prv : [Bufs -> Bufs \cup {Nil}],
         beg : [Bufs -> 0 .. Cap], endp : [Bufs -> 0 .. Cap],
         data : [Bufs -> [0 .. Cap - 1 -> Bytes]], free : SUBSET Bufs]

Min2(a, b) == IF a < b THEN a ELSE b

(* getSize() *)
Sz(s, b) == s.endp[b] - s.beg[b]

(* if ( (c = getChainImpl()) ) c->addSize( getSize() - old_size ) *)
Resized(s, t, b) == IF s.on[b] THEN [t EXCEPT !.size = @ + Sz(t, b) - Sz(s, b)] ELSE t

setSize(s, b, n) == Resized(s, [s EXCEPT !.endp[b] = s.beg[b] + n], b)

setPayload_noClamp(s, b, p) ==
    Resized(s, IF p = NullPtr THEN [s EXCEPT !.beg[b] = 0] ELSE [s EXCEPT !.beg[b] = p], b)

setPayload(s, b, p) ==
    Resized(s, IF p = NullPtr THEN [s EXCEPT !.beg[b] = 0]
               ELSE [s EXCEPT !.beg[b] = p, !.endp[b] = IF @ < p THEN p ELSE @], b)

reinit(s, b) == Resized(s, [s EXCEPT !.beg[b] = 0, !.endp[b] = 0], b)

(* addToChain(BufImpl p, bool before): join p's chain, if p is on one. *)
addToChainAt_noHead(s, b, p, before) ==
    IF ~s.on[p] THEN s
    ELSE [s EXCEPT !.on[b] = TRUE,
                   !.tail = IF ~before /\ p = @ THEN b ELSE @,
                   !.len = @ + 1, !.size = @ + Sz(s, b)]

addToChainAt(s, b, p, before) ==
    IF ~s.on[p] THEN s
    ELSE [s EXCEPT !.on[b] = TRUE,
                   !.head = IF before /\ p = @ THEN b ELSE @,
                   !.tail = IF ~before /\ p = @ THEN b ELSE @,
                   !.len = @ + 1, !.size = @ + Sz(s, b)]

(* One of the two loops of addToChain(BufChainImpl c): follow link f from *)
(* p, putting every buffer on the chain and counting bytes and buffers;   *)
(* stop with ok = FALSE at a buffer that is already on a chain (the      *)
(* buffers before it keep their chain_).                                  *)
RECURSIVE Claim(_, _, _)
Claim(s, p, f) ==
    IF p = Nil THEN [st |-> s, ok |-> TRUE, last |-> Nil, sz |-> 0, n |-> 0]
    ELSE IF s.on[p] THEN [st |-> s, ok |-> FALSE, last |-> Nil, sz |-> 0, n |-> 0]
    ELSE LET r == Claim([s EXCEPT !.on[p] = TRUE], s[f][p], f)
         IN [r EXCEPT !.last = IF @ = Nil THEN p ELSE @, !.sz = @ + Sz(s, p), !.n = @ + 1]

(* addToChain(BufChainImpl c): make the empty chain consist of b's group. *)
addToChainC(s, b) ==
    LET fw == Claim(s, b, "nxt")
        bw == Claim(fw.st, s.prv[b], "prv")
    IN IF s.head # Nil \/ s.tail # Nil THEN [st |-> s, ok |-> FALSE]
       ELSE IF ~fw.ok THEN [st |-> fw.st, ok |-> FALSE]
       ELSE IF ~bw.ok THEN [st |-> bw.st, ok |-> FALSE]
       ELSE [st |-> [bw.st EXCEPT !.size = fw.sz + bw.sz, !.len = fw.n + bw.n,
                                  !.head = IF bw.last = Nil THEN b ELSE bw.last,
                                  !.tail = fw.last],
             ok |-> TRUE]

(* b->after(p) *)
after(s, b, p) ==
    IF p = Nil \/ p = b THEN [st |-> s, ok |-> TRUE]
    ELSE IF s.nxt[b] # Nil \/ s.prv[b] # Nil \/ s.on[b] THEN [st |-> s, ok |-> FALSE]
    ELSE LET t == addToChainAt(s, b, p, FALSE)
             n == s.nxt[p]
             u == [t EXCEPT !.prv[b] = p, !.nxt[b] = n, !.nxt[p] = b]
         IN [st |-> IF n # Nil THEN [u EXCEPT !.prv[n] = b] ELSE u, ok |-> TRUE]

(* b->before(p) *)
before(s, b, p) ==
    IF p = Nil \/ p = b THEN [st |-> s, ok |-> TRUE]
    ELSE IF s.nxt[b] # Nil \/ s.prv[b] # Nil \/ s.on[b] THEN [st |-> s, ok |-> FALSE]
    ELSE LET t == addToChainAt(s, b, p, TRUE)
             q == s.prv[p]
             u == [t EXCEPT !.nxt[b] = p, !.prv[b] = q, !.prv[p] = b]
         IN [st |-> IF q # Nil THEN [u EXCEPT !.nxt[q] = b] ELSE u, ok |-> TRUE]

(* delFromChain() *)
delFromChain(s, b) ==
    IF ~s.on[b] THEN s
    ELSE [s EXCEPT !.head = IF @ = b THEN s.nxt[@] ELSE @,
                   !.tail = IF @ = b THEN s.prv[@] ELSE @,
                   !.len = @ - 1, !.size = @ - Sz(s, b), !.on[b] = FALSE]

(* b->unlink(): the neighbours are patched in the code's order; next_ is *)
(* cleared before it is copied into the predecessor's next_.             *)
unlink(s, b) ==
    LET c  == delFromChain(s, b)
        n  == c.nxt[b]
        t1 == IF n # Nil THEN [c EXCEPT !.prv[n] = c.prv[b], !.nxt[b] = Nil] ELSE c
        p  == t1.prv[b]
    IN IF p # Nil THEN [t1 EXCEPT !.nxt[p] = t1.nxt[b], !.prv[b] = Nil] ELSE t1

(* b->split(), for a buffer that is not on a chain *)
split(s, b) ==
    IF s.prv[b] = Nil THEN s ELSE [s EXCEPT !.nxt[s.prv[b]] = Nil, !.prv[b] = Nil]

(* getBuf(): the free list hands out a freshly constructed buffer; the    *)
(* constructor sets beg_ = end_ = 0 and leaves data_ as it was.          *)
getBuf(s, b) ==
    [s EXCEPT !.free = @ \ {b}, !.beg[b] = 0, !.endp[b] = 0,
              !.nxt[b] = Nil, !.prv[b] = Nil, !.on[b] = FALSE]

addAtHead(s, b) == IF s.head = Nil THEN addToChainC(s, b) ELSE before(s, b, s.head)
addAtTail(s, b) == IF s.tail = Nil THEN addToChainC(s, b) ELSE after(s, b, s.tail)

(* createAtTail(capa, clip = true), with the free buffer x *)
createAtTail(s, x) == addAtTail(getBuf(s, x), x)

(* extract(buf, off, size): the skip loop, then the copy loop.  A chain *)
(* has at most NBufs buffers, which bounds both walks.                   *)
RECURSIVE ExSkip(_, _, _, _)
ExSkip(s, b, off, k) ==
    IF k = 0 \/ Sz(s, b) > off THEN [b |-> b, off |-> off]
    ELSE IF s.nxt[b] = Nil THEN [b |-> Nil, off |-> 0]
    ELSE ExSkip(s, s.nxt[b], off - Sz(s, b), k - 1)

RECURSIVE ExCopy_keepOff(_, _, _, _, _)
ExCopy_keepOff(s, b, off, size, k) ==
    LET l   == Min2(Sz(s, b) - off, size)
        out == [i \in 1 .. l |-> s.data[b][s.beg[b] + off + i - 1]]
    IN IF k = 0 \/ s.nxt[b] = Nil \/ size - l <= 0 THEN out
       ELSE out \o ExCopy_keepOff(s, s.nxt[b], off, size - l, k - 1)

RECURSIVE ExCopy(_, _, _, _, _)
ExCopy(s, b, off, size, k) ==
    LET l   == Min2(Sz(s, b) - off, size)
        out == [i \in 1 .. l |-> s.data[b][s.beg[b] + off + i - 1]]
    IN IF k = 0 \/ s.nxt[b] = Nil \/ size - l <= 0 THEN out
       ELSE out \o ExCopy(s, s.nxt[b], 0, size - l, k - 1)

extract(s, off, size) ==
    IF s.head = Nil THEN <<>>
    ELSE LET r == ExSkip(s, s.head, off, NBufs)
         IN IF r.b = Nil THEN <<>> ELSE ExCopy(s, r.b, r.off, size, NBufs)

(* After the copy loop of insert() filled b: b = nxtb = b->getNext() and *)
(* if ( b ) b->reinit().                                                  *)
NextForWrite_noReinit(s, b) == s
NextForWrite(s, b) == IF s.nxt[b] # Nil THEN reinit(s, s.nxt[b]) ELSE s

(* The loop insert() enters next: dummy buffers while off > 0, the copy  *)
(* loop while size > 0, the truncation while nxtb.                        *)
AfterTrunc(nx) == IF nx # Nil THEN "trunc" ELSE "idle"
AfterWrite(sz, nx) == IF sz > 0 THEN "write" ELSE AfterTrunc(nx)
AfterPad(o, sz, nx) == IF o > 0 THEN "pad" ELSE AfterWrite(sz, nx)

-----------------------------------------------------------------------------

(* A chain is created empty (CBufChainImpl constructor); every buffer is *)
(* in the free list.                                                      *)
Init ==
    /\ h = [head |-> Nil, tail |-> Nil, len |-> 0, size |-> 0,
            on |-> [b \in Bufs |-> FALSE], nxt |-> [b \in Bufs |-> Nil],
            prv |-> [b \in Bufs |-> Nil], beg |-> [b \in Bufs |-> 0],
            endp |-> [b \in Bufs |-> 0], data |-> [b \in Bufs |-> [i \in 0 .. Cap - 1 |-> Junk]],
            free |-> Bufs]
    /\ phase = "idle"
    /\ ioff = 0 /\ isize = 0 /\ ib = Nil /\ inxt = Nil /\ isrc = 0
    /\ nIns = 0 /\ nOps = 0 /\ iOff0 = 0 /\ iLen0 = 0 /\ pre = <<>>

Held == Bufs \ h.free

(* A buffer operation of the program: h becomes t. *)
Op(t) ==
    /\ phase = "idle"
    /\ nOps < MaxOps
    /\ h' = t
    /\ nOps' = nOps + 1
    /\ UNCHANGED <<phase, ioff, isize, ib, inxt, isrc, nIns, iOff0, iLen0, pre>>

GetBuf(x)        == x \in h.free /\ Op(getBuf(h, x))
(* The last reference to an unlinked, unchained buffer goes away. *)
Release(b)       == /\ ~h.on[b] /\ h.nxt[b] = Nil /\ h.prv[b] = Nil
                    /\ Op([h EXCEPT !.free = @ \cup {b}])
SetSize(b, n)    == h.beg[b] + n <= Cap /\ Op(setSize(h, b, n))
SetPayload(b, p) == Op(setPayload(h, b, p))
Reinit(b)        == Op(reinit(h, b))
AddAtHead(b)     == Op(addAtHead(h, b).st)
AddAtTail(b)     == Op(addAtTail(h, b).st)
After(b, p)      == Op(after(h, b, p).st)
Before(b, p)     == Op(before(h, b, p).st)
Unlink(b)        == /\ MiddleUnlink \/ h.nxt[b] = Nil \/ h.prv[b] = Nil
                    /\ Op(unlink(h, b))
Split(b)         == ~h.on[b] /\ Op(split(h, b))

(* The bytes of the chain, read by following next_ from head_. *)
RECURSIVE Walk(_, _, _)
Walk(s, b, k) == IF b = Nil \/ k = 0 THEN <<>> ELSE <<b>> \o Walk(s, s.nxt[b], k - 1)

Payload(s, b) == [i \in 1 .. Sz(s, b) |-> s.data[b][s.beg[b] + i - 1]]

Flat(s) == LET c == Walk(s, s.head, NBufs) IN FlattenSeq([i \in 1 .. Len(c) |-> Payload(s, c[i])])

(* insert(buf, off, size) of source bytes Lbl(nIns, 0 .. size-1).  The  *)
(* free list holds enough buffers for the bytes up to off + size.         *)
InsertStart(o, n) ==
    /\ phase = "idle"
    /\ nIns < MaxIns
    /\ Cardinality(h.free) * Cap >= o + n
    /\ phase' = IF h.head # Nil THEN "skip" ELSE AfterPad(o, n, Nil)
    /\ ioff' = o /\ isize' = n /\ ib' = h.head /\ inxt' = Nil /\ isrc' = 0
    /\ nIns' = nIns + 1 /\ iOff0' = o /\ iLen0' = n /\ pre' = Flat(h)
    /\ UNCHANGED <<h, nOps>>

(* Skip loop, off > b->getSize(): go on with the next buffer. *)
InsSkipPast ==
    /\ phase = "skip"
    /\ ioff > Sz(h, ib)
    /\ LET o == ioff - Sz(h, ib) IN
         /\ ioff' = o
         /\ ib' = h.nxt[ib]
         /\ phase' = IF h.nxt[ib] # Nil THEN "skip" ELSE AfterPad(o, isize, Nil)
    /\ UNCHANGED <<h, isize, inxt, isrc, nIns, nOps, iOff0, iLen0, pre>>

(* Skip loop, off <= b->getSize(): truncate b to off and leave the loop. *)
InsTruncAt ==
    /\ phase = "skip"
    /\ ioff <= Sz(h, ib)
    /\ h' = setSize(h, ib, ioff)
    /\ ioff' = 0
    /\ inxt' = h.nxt[ib]
    /\ phase' = AfterPad(0, isize, h.nxt[ib])
    /\ UNCHANGED <<isize, ib, isrc, nIns, nOps, iOff0, iLen0, pre>>

(* Dummy-buffer loop: b = createAtTail( off, true ), sized to cover off. *)
InsPad(x) ==
    /\ phase = "pad"
    /\ x \in h.free
    /\ LET r == createAtTail(h, x)
           d == Min2(Cap, ioff)
       IN IF r.ok
            THEN /\ h' = setSize(r.st, x, d)
                 /\ ioff' = ioff - d
                 /\ phase' = AfterPad(ioff - d, isize, inxt)
            ELSE h' = r.st /\ phase' = "idle" /\ UNCHANGED ioff
    /\ ib' = x
    /\ UNCHANGED <<isize, inxt, isrc, nIns, nOps, iOff0, iLen0, pre>>

(* Copy loop: a new buffer at the tail when b is NULL, then as many      *)
(* source bytes as b has room for after its payload, then the next one.  *)
InsWrite(x) ==
    /\ phase = "write"
    /\ IF ib = Nil THEN x \in h.free ELSE x = Nil
    /\ LET r  == createAtTail(h, x)
           h1 == IF ib = Nil THEN r.st ELSE h
           b  == IF ib = Nil THEN x ELSE ib
           e  == h1.endp[b]
           d  == IF Cap - e > 0 THEN Min2(Cap - e, isize) ELSE 0
           h2 == IF d > 0
                   THEN setSize([h1 EXCEPT !.data[b] =
                                   [i \in 0 .. Cap - 1 |-> IF e <= i /\ i < e + d
                                                             THEN Lbl(nIns, isrc + i - e) ELSE @[i]]],
                                b, Sz(h1, b) + d)
                   ELSE h1
           nb == h2.nxt[b]
       IN IF ib = Nil /\ ~r.ok
            THEN h' = r.st /\ phase' = "idle" /\ UNCHANGED <<ib, inxt, isrc, isize>>
            ELSE /\ h' = NextForWrite(h2, b)
                 /\ ib' = nb /\ inxt' = nb
                 /\ isrc' = isrc + d /\ isize' = isize - d
                 /\ phase' = AfterWrite(isize - d, nb)
    /\ UNCHANGED <<ioff, nIns, nOps, iOff0, iLen0, pre>>

(* Truncation loop: unlink nxtb and drop it, back to the free list. *)
InsTrunc ==
    /\ phase = "trunc"
    /\ LET b == inxt IN
         /\ h' = [unlink(h, b) EXCEPT !.free = @ \cup {b}]
         /\ inxt' = h.nxt[b]
         /\ ib' = b
         /\ phase' = AfterTrunc(h.nxt[b])
    /\ UNCHANGED <<ioff, isize, isrc, nIns, nOps, iOff0, iLen0, pre>>

Next ==
    \/ \E x \in Bufs : GetBuf(x)
    \/ \E b \in Held : \/ Release(b) \/ Reinit(b) \/ Unlink(b) \/ Split(b)
                       \/ AddAtHead(b) \/ AddAtTail(b)
                       \/ \E n \in 0 .. Cap : SetSize(b, n)
                       \/ \E p \in {NullPtr} \cup 0 .. Cap : SetPayload(b, p)
    \/ \E b, p \in Held : After(b, p) \/ Before(b, p)
    \/ \E o \in 0 .. MaxOff, n \in 1 .. MaxLen : InsertStart(o, n)
    \/ InsSkipPast
    \/ InsTruncAt
    \/ \E x \in Bufs : InsPad(x)
    \/ \E x \in Bufs \cup {Nil} : InsWrite(x)
    \/ InsTrunc

Spec == Init /\ [][Next]_vars

-----------------------------------------------------------------------------

TypeOK ==
    /\ h \in Heap
    /\ \A b \in Bufs : h.beg[b] <= h.endp[b]
    /\ phase \in {"idle", "skip", "pad", "write", "trunc"}
    /\ ioff \in Nat /\ isize \in Nat /\ nOps \in 0 .. MaxOps

(* The chain invariant every buffer operation must keep: following next_ *)
(* from head_ reaches tail_ after len_ buffers holding size_ bytes; the  *)
(* buffers met are exactly those whose chain_ is set; prev_ mirrors next_. *)
ChainConsistent ==
    LET c == Walk(h, h.head, NBufs + 1) IN
    /\ Len(c) <= NBufs
    /\ h.len = Len(c)
    /\ h.size = Len(Flat(h))
    /\ h.tail = IF c = <<>> THEN Nil ELSE c[Len(c)]
    /\ {b \in Bufs : h.on[b]} = Range(c)
    /\ \A i \in 1 .. Len(c) : h.prv[c[i]] = IF i = 1 THEN Nil ELSE c[i - 1]

(* extract(off, size) copies the chain's bytes off .. off+size-1, fewer  *)
(* when the chain ends first, none when off is at or past its end.       *)
ExtractMatchesFlat ==
    LET F == Flat(h) IN
    \A o \in 0 .. MaxOff + MaxLen, n \in 0 .. MaxLen :
        extract(h, o, n) = IF o >= Len(F) THEN <<>> ELSE SubSeq(F, o + 1, Min2(o + n, Len(F)))

(* When insert(src, off, size) returns, the chain holds its old bytes    *)
(* before off, then the size source bytes, and nothing after them.       *)
InsertResult ==
    LET F == Flat(h) IN
    /\ Len(F) = iOff0 + iLen0
    /\ \A i \in 1 .. Min2(iOff0, Len(pre)) : F[i] = pre[i]
    /\ \A i \in 1 .. iLen0 : F[iOff0 + i] = Lbl(nIns, i - 1)

InsertReturns == [][(phase # "idle" /\ phase' = "idle") => InsertResult']_vars

(* The dummy buffers that insert() appends to reach an offset past the  *)
(* chain's end read as zeros.                                            *)
GapIsZero ==
    [][(phase # "idle" /\ phase' = "idle") =>
         \A i \in Len(pre) + 1 .. iOff0 : Flat(h')[i] = Zero]_vars

====
