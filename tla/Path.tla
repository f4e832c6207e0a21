-------------------------------- MODULE Path --------------------------------
(***************************************************************************)
(* Paths through the device hierarchy (src/cpsw_path.cc).  A path is an   *)
(* origin device and a sequence of entries, each an address (a child of   *)
(* a device: its owner and name) with an index range [f, t] and           *)
(* nelmsLeft, the number of elements from the origin down to it.  The     *)
(* code keeps a NULL marker entry in front of the vector; here it is the  *)
(* empty prefix.  findByName walks the components of a name ('..' or a    *)
(* child with an optional [f] or [f-t]); append and concat extend a path  *)
(* at its tail; a CompositePathIterator walks a path from its tail to its *)
(* origin and may continue into a path appended at the element it is at, *)
(* keeping the outer positions on a stack.                                *)
(*                                                                         *)
(* The text of a name is abstracted to its components: the bracket syntax *)
(* errors of the parser are not modelled, its range checks are.           *)
(***************************************************************************)
EXTENDS Integers, Sequences, SequencesExt

CONSTANTS
    Devs,     \* devices (hubs)
    Leaf,     \* the entry of a child that is not a device
    Hier,     \* Hier[d][name] = [n |-> nelms, sub |-> its entry]
    Names,    \* names a caller looks up (some not in the hierarchy)
    MaxIdx,   \* indices in names and appends range over -1 .. MaxIdx
    MaxComps  \* components in one findByName

UpComp == [name |-> "..", idx |-> <<>>]

Addresses == UNION {{[own |-> d, name |-> nm] : nm \in DOMAIN Hier[d]} : d \in Devs}

(* getNelms() of the address and getEntryImpl() *)
Nelms(a) == Hier[a.own][a.name].n
Sub(a)   == Hier[a.own][a.name].sub

Addr(e) == [own |-> e.own, name |-> e.name]

Empty(d) == [org |-> d, ents |-> <<>>]

(* getNelms(): nelmsLeft_ of the tail, 1 for the marker of an empty path *)
getNelms(p) == IF p.ents = <<>> THEN 1 ELSE Last(p.ents).nl

(* The entry the tail refers to: the origin of an empty path. *)
TailEntry(p) == IF p.ents = <<>> THEN p.org ELSE Sub(Addr(Last(p.ents)))

(* PathEntry(a, idxf, idxt, nelmsLeft): clamps the range into the array *)
(* and multiplies nelmsLeft by its size.                                 *)
PathEntry_noClamp(a, f, t, nl) ==
    [own |-> a.own, name |-> a.name, f |-> f, t |-> t, nl |-> nl * (t - f + 1)]

PathEntry(a, f, t, nl) ==
    LET n  == Nelms(a) - 1
        f1 == IF f < 0 THEN 0 ELSE IF f > n THEN n ELSE f
        t1 == IF t < 0 \/ t > n THEN n ELSE t
        t2 == IF t1 < f1 THEN f1 ELSE t1
    IN [own |-> a.own, name |-> a.name, f |-> f1, t |-> t2, nl |-> nl * (t2 - f1 + 1)]

(* A component: '..' or a child name with no index, [f] or [f-t]. *)
Comps == {UpComp} \cup [name : Names, idx : {<<>>} \cup {<<i>> : i \in 0 .. MaxIdx}
                                              \cup {<<i, j>> : i, j \in 0 .. MaxIdx}]

(* PathImpl::findByName: [err, path].  'found' tells whether the code's  *)
(* local Address 'found' has been set; 'tail' is tailp.  A '..' that     *)
(* empties the path reads the NULL marker into 'found' and dereferences  *)
(* it; so does the NotDevError of a first component below a leaf.        *)
RECURSIVE Walk(_, _, _, _)
Walk(q, found, tail, cs) ==
    IF cs = <<>> THEN [err |-> "ok", path |-> q]
    ELSE LET c == Head(cs) IN
    IF c = UpComp
      THEN IF q.ents = <<>> THEN [err |-> "InvalidPath", path |-> q]
           ELSE LET q2 == [q EXCEPT !.ents = Front(q.ents)]
                IN IF q2.ents = <<>> THEN [err |-> "NullDeref", path |-> q2]
                   ELSE Walk(q2, TRUE, Sub(Addr(Last(q2.ents))), Tail(cs))
    ELSE IF tail = Leaf
      THEN [err |-> IF found THEN "NotDev" ELSE "NullDeref", path |-> q]
    ELSE IF c.name \notin DOMAIN Hier[tail] THEN [err |-> "NotFound", path |-> q]
    ELSE LET a  == [own |-> tail, name |-> c.name]
             f0 == IF c.idx = <<>> THEN -1 ELSE c.idx[1]
             t0 == IF Len(c.idx) = 2 THEN c.idx[2] ELSE -1
             t  == IF t0 < 0 THEN (IF f0 < 0 THEN Nelms(a) - 1 ELSE f0) ELSE t0
             f  == IF f0 < 0 THEN 0 ELSE f0
         IN IF f > t \/ t >= Nelms(a) THEN [err |-> "InvalidPath", path |-> q]
            ELSE Walk([q EXCEPT !.ents = Append(q.ents, PathEntry(a, f, t, getNelms(q)))],
                      TRUE, Sub(a), Tail(cs))

findByName(p, cs) == Walk(p, FALSE, TailEntry(p), cs)

(* verifyAtTail(h): an empty path takes h as its origin. *)
verifyAtTail(p, h) == p.ents = <<>> \/ TailEntry(p) = h

(* append2(h, t): t's entries, their nelmsLeft scaled by h's. *)
append2_noScale(h, t) ==
    [org |-> IF h.ents = <<>> THEN t.org ELSE h.org, ents |-> h.ents \o t.ents]

append2(h, t) ==
    [org  |-> IF h.ents = <<>> THEN t.org ELSE h.org,
     ents |-> h.ents \o [i \in DOMAIN t.ents |-> [t.ents[i] EXCEPT !.nl = @ * getNelms(h)]]]

(* Paths that concat and the iterator's append take: the empty paths, *)
(* and the paths findByName gives below a device for one component.    *)
Short ==
    LET rs == {findByName(Empty(d), <<c>>) : d \in Devs, c \in Comps \ {UpComp}}
    IN {Empty(d) : d \in Devs} \cup {r.path : r \in {r \in rs : r.err = "ok"}}

(* The inputs of findByName: one to MaxComps components. *)
Lookups == UNION {[1 .. k -> Comps] : k \in 1 .. MaxComps}

-----------------------------------------------------------------------------
(* The composite iterator: 'ents' and 'pos' its position (pos 0 is the  *)
(* marker), 'stk' the saved outer positions l_, 'left' and 'right'      *)
(* nelmsLeft_ and nelmsRight_.                                          *)

(* CompositePathIterator(Path *p) *)
NewIter(p) == [end |-> p.ents = <<>>, ents |-> p.ents, pos |-> Len(p.ents),
               stk |-> <<>>, left |-> 1, right |-> 1]

Cur(i) == i.ents[i.pos]

(* operator++: [it, err] *)
Incr_noDivide(i) ==
    LET j == [i EXCEPT !.right = @ * (Cur(i).t - Cur(i).f + 1), !.pos = @ - 1]
    IN IF j.pos > 0 THEN [it |-> j, err |-> "ok"]
       ELSE IF j.stk # <<>>
         THEN [it |-> [j EXCEPT !.ents = Last(j.stk).ents, !.pos = Last(j.stk).pos,
                                !.stk = Front(j.stk)], err |-> "ok"]
       ELSE [it |-> [j EXCEPT !.end = TRUE], err |-> IF j.left # 1 THEN "InternalError" ELSE "ok"]

Incr(i) ==
    LET j == [i EXCEPT !.right = @ * (Cur(i).t - Cur(i).f + 1), !.pos = @ - 1]
    IN IF j.pos > 0 THEN [it |-> j, err |-> "ok"]
       ELSE IF j.stk # <<>>
         THEN LET top == Last(j.stk)
              IN [it |-> [j EXCEPT !.ents = top.ents, !.pos = top.pos, !.stk = Front(j.stk),
                                   !.left = @ \div top.ents[top.pos].nl], err |-> "ok"]
       ELSE [it |-> [j EXCEPT !.end = TRUE], err |-> IF j.left # 1 THEN "InternalError" ELSE "ok"]

(* validConcatenation(p) *)
validConcatenation(i, p) == i.end \/ (p.ents # <<>> /\ p.org = Sub(Addr(Cur(i))))

(* append(p): continue into p at the current element. *)
AppendIt(i, p) ==
    CASE p.ents = <<>> -> [it |-> i, err |-> "ok"]
      [] ~validConcatenation(i, p) -> [it |-> i, err |-> "InvalidPath"]
      [] i.end /\ i.left # 1 -> [it |-> i, err |-> "InternalError"]
      [] OTHER ->
           [it |-> [end |-> FALSE, ents |-> p.ents, pos |-> Len(p.ents), right |-> 1,
                    stk |-> IF i.end THEN i.stk ELSE Append(i.stk, [ents |-> i.ents, pos |-> i.pos]),
                    left |-> IF i.end THEN i.left ELSE i.left * Cur(i).nl],
            err |-> "ok"]

(* SlicedPathIterator::clip(range): narrow the current element to       *)
(* [f+from, f+to] by stepping over it and appending a one-entry path.   *)
clip(i, from, to) ==
    LET f == IF from >= 0 THEN Cur(i).f + from ELSE Cur(i).f
        t == IF to >= 0 THEN Cur(i).f + to ELSE Cur(i).t
        cl == Addr(Cur(i))
    IN CASE f < Cur(i).f \/ t > Cur(i).t \/ t < f -> [it |-> i, err |-> "InvalidArg"]
         [] f = Cur(i).f /\ t = Cur(i).t -> [it |-> i, err |-> "ok"]
         [] OTHER ->
              LET r == Incr(i)
              IN IF r.err # "ok" THEN r
                 ELSE AppendIt(r.it, [org |-> cl.own, ents |-> <<PathEntry(cl, f, t, 1)>>])

-----------------------------------------------------------------------------

VARIABLES
    path,   \* a caller's Path
    err,    \* what the last path operation did: "ok" or the exception
    it,     \* a CompositePathIterator over path and appended paths
    itErr,  \* what the last iterator operation did
    comp,   \* the composite path the iterator walks, origin first, with
            \* nelmsLeft counted from the composite's origin
    k,      \* the iterator's element in comp, 0 at the end
    iter    \* an iterator is in use (the path must stay unmodified)

vars == <<path, err, it, itErr, comp, k, iter>>

Root == CHOOSE d \in Devs : TRUE

Init ==
    /\ path = Empty(Root) /\ err = "ok"
    /\ it = NewIter(path) /\ itErr = "ok" /\ comp = <<>> /\ k = 0
    /\ iter = FALSE

(* The path operations, while no iterator is in use. *)
PathOp(A) == ~iter /\ A /\ UNCHANGED iter

(* The iterator operations, while one is in use. *)
IterOp(A) == iter /\ A /\ UNCHANGED iter

(* IPath::create(Hub) and clear(Hub) *)
Create(d) ==
    /\ path' = Empty(d) /\ err' = "ok"
    /\ UNCHANGED <<it, itErr, comp, k>>

(* p = path->findByName(name); an exception leaves the caller's path. *)
FindByName(cs) ==
    LET r == findByName(path, cs)
    IN /\ err' = r.err
       /\ path' = IF r.err = "ok" THEN r.path ELSE path
       /\ UNCHANGED <<it, itErr, comp, k>>

(* up(): drop the tail *)
Up ==
    /\ path' = [path EXCEPT !.ents = IF @ = <<>> THEN @ ELSE Front(@)]
    /\ err' = "ok"
    /\ UNCHANGED <<it, itErr, comp, k>>

(* append(Address a, f, t) *)
AppendAddr(a, f, t) ==
    IF verifyAtTail(path, a.own)
      THEN /\ path' = [org |-> IF path.ents = <<>> THEN a.own ELSE path.org,
                       ents |-> Append(path.ents, PathEntry(a, f, t, getNelms(path)))]
           /\ err' = "ok"
           /\ UNCHANGED <<it, itErr, comp, k>>
      ELSE /\ err' = "InvalidPath"
           /\ UNCHANGED <<path, it, itErr, comp, k>>

(* path = path->concat(q), and append(q) *)
Concat(q) ==
    CASE q.ents = <<>> -> err' = "ok" /\ UNCHANGED <<path, it, itErr, comp, k>>
      [] ~verifyAtTail(path, q.org) -> err' = "InvalidPath" /\ UNCHANGED <<path, it, itErr, comp, k>>
      [] OTHER -> path' = append2(path, q) /\ err' = "ok" /\ UNCHANGED <<it, itErr, comp, k>>

(* The composite path after continuing into q at element k of comp. *)
Scaled(q, nl) == [i \in DOMAIN q.ents |-> [q.ents[i] EXCEPT !.nl = @ * nl]]

(* CompositePathIterator it(&path) *)
IterStart ==
    /\ ~iter /\ iter' = TRUE
    /\ it' = NewIter(path) /\ itErr' = "ok"
    /\ comp' = path.ents /\ k' = Len(path.ents)
    /\ UNCHANGED <<path, err>>

(* ++it *)
IterNext ==
    /\ ~it.end
    /\ LET r == Incr(it) IN it' = r.it /\ itErr' = r.err
    /\ k' = k - 1
    /\ UNCHANGED <<path, err, comp>>

(* it.append(q) *)
IterAppend(q) ==
    LET r == AppendIt(it, q)
    IN /\ it' = r.it /\ itErr' = r.err
       /\ IF r.err = "ok" /\ q.ents # <<>>
            THEN IF it.end THEN comp' = q.ents /\ k' = Len(q.ents)
                 ELSE comp' = SubSeq(comp, 1, k) \o Scaled(q, comp[k].nl) /\ k' = k + Len(q.ents)
            ELSE UNCHANGED <<comp, k>>
       /\ UNCHANGED <<path, err>>

(* SlicedPathIterator(it, range) *)
IterClip(from, to) ==
    /\ ~it.end
    /\ LET r == clip(it, from, to)
           f == IF from >= 0 THEN comp[k].f + from ELSE comp[k].f
           t == IF to >= 0 THEN comp[k].f + to ELSE comp[k].t
           nl == IF k > 1 THEN comp[k - 1].nl ELSE 1
       IN /\ it' = r.it /\ itErr' = r.err
          /\ IF r.err = "ok" /\ r.it # it
               THEN comp' = Append(SubSeq(comp, 1, k - 1), PathEntry(Addr(comp[k]), f, t, nl))
               ELSE UNCHANGED comp
    /\ UNCHANGED <<path, err, k>>

(* The iterator and the path it walks go out of scope: the next caller *)
(* starts from an empty path again.                                    *)
IterDone ==
    /\ iter /\ iter' = FALSE
    /\ it' = NewIter(Empty(Root)) /\ itErr' = "ok" /\ comp' = <<>> /\ k' = 0
    /\ path' = Empty(Root) /\ err' = "ok"

Idx == -1 .. MaxIdx

Next ==
    \/ \E d \in Devs : PathOp(Create(d))
    \/ \E cs \in Lookups : PathOp(FindByName(cs))
    \/ PathOp(Up)
    \/ \E a \in Addresses, f, t \in Idx \cup {MaxIdx + 1} : PathOp(AppendAddr(a, f, t))
    \/ \E q \in Short : PathOp(Concat(q))
    \/ IterStart
    \/ IterOp(IterNext)
    \/ \E q \in Short : IterOp(IterAppend(q))
    \/ \E from, to \in Idx : IterOp(IterClip(from, to))
    \/ IterDone

Spec == Init /\ [][Next]_vars

-----------------------------------------------------------------------------

Entries == [own : Devs, name : Names, f : Nat, t : Nat, nl : Nat]

(* The path, the iterator and the composite have their shapes. *)
TypeOK ==
    /\ path \in [org : Devs, ents : Seq(Entries)]
    /\ it.end \in BOOLEAN /\ it.pos \in 0 .. Len(it.ents)
    /\ k \in 0 .. Len(comp)

RECURSIVE Prod(_, _, _)
Prod(s, lo, hi) == IF lo > hi THEN 1 ELSE (s[lo].t - s[lo].f + 1) * Prod(s, lo + 1, hi)

(* Every entry of a path is a child of the entry before it (of the      *)
(* origin for the first), its range lies inside the array, and its      *)
(* nelmsLeft is the number of elements from the origin down to it.      *)
WellFormed(p) ==
    \A i \in 1 .. Len(p.ents) :
        LET e == p.ents[i] IN
        /\ e.own = (IF i = 1 THEN p.org ELSE Sub(Addr(p.ents[i - 1])))
        /\ 0 <= e.f /\ e.f <= e.t /\ e.t < Nelms(Addr(e))
        /\ e.nl = Prod(p.ents, 1, i)

(* findByName, up, append and concat keep the caller's path well formed. *)
PathWellFormed == WellFormed(path)

(* findByName never dereferences the NULL marker: a '..' back to the     *)
(* origin, or a name below a leaf, ends in a result or an exception.     *)
NoNullDeref == err # "NullDeref"

(* The composite iterator walks the composite path: it is at element k, *)
(* getNelmsLeft() counts the elements from the composite's origin down  *)
(* to it, getNelmsRight() those below it, and its 'nelmsLeft should be  *)
(* 1' assertions never fail.                                            *)
IterMatchesComposite ==
    /\ itErr # "InternalError"
    /\ it.end <=> k = 0
    /\ it.right = Prod(comp, k + 1, Len(comp))
    /\ ~it.end =>
         /\ Addr(Cur(it)) = Addr(comp[k]) /\ Cur(it).f = comp[k].f /\ Cur(it).t = comp[k].t
         /\ it.left * Cur(it).nl = comp[k].nl

=============================================================================
