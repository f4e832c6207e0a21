-------------------------------- MODULE Yaml --------------------------------
(***************************************************************************)
(* Loading a hierarchy from YAML (src/cpsw_yaml.cc).                       *)
(*                                                                         *)
(* getNode(node, key) looks a key up in a mapping, and if it is missing    *)
(* looks it up again in the node under the merge key "<<".  The class      *)
(* registry CYamlTypeRegistry maps class names to factories in a           *)
(* std::map<const char*, factory*> ordered by strcmp.  makeItem reads the  *)
(* node's "class" into a local std::string and looks it up with            *)
(* map_[str.c_str()]: for a class no factory serves, operator[] inserts    *)
(* the pointer into str with a NULL factory, and str is freed when         *)
(* makeItem throws NotFoundError.  The map keeps that key: what it reads   *)
(* is whatever the memory holds later.  The item a Dev's factory makes     *)
(* runs addChildren, whose makeItem calls run one frame deeper.            *)
(*                                                                         *)
(* A document is a few mappings, each with or without a "class" key and    *)
(* with a merge key that is absent, an alias of an earlier mapping, or a   *)
(* sequence of such aliases.  The buffer of str is one per frame depth;    *)
(* other code may reuse a buffer no live frame owns.  Reading a freed key  *)
(* is undefined: once a key reads something other than what it read when  *)
(* it was inserted, the tree is no longer ordered, and a lookup may meet   *)
(* any key that compares equal, or none.                                   *)
(***************************************************************************)
EXTENDS Integers, Sequences, FiniteSets

CONSTANTS
    Classes,     \* class names a document may carry
    DevClasses,  \* classes whose item is a Dev (DevImpl, MMIODevImpl, ...)
    Declared,    \* classes DECLARE_YAML_FIELD_FACTORY registers at start-up
    Junk,        \* any other content of a freed buffer
    NMaps,       \* mappings in a document
    MaxDepth     \* nesting of makeItem calls: the root, its children, ...

None == "none"

ASSUME /\ DevClasses \subseteq Classes /\ Declared \subseteq Classes
       /\ None \notin Classes /\ Junk \notin Classes \cup {None}
       /\ NMaps \in Nat \ {0} /\ MaxDepth \in Nat \ {0}

-----------------------------------------------------------------------------
(* Documents.  Mapping m may merge only earlier mappings (an alias names *)
(* an anchor defined before it).  0 is the undefined node.              *)
Maps == 1 .. NMaps

Merges == {[k |-> "none", ms |-> <<>>]}
          \cup {[k |-> "map", ms |-> <<j>>] : j \in Maps}
          \cup {[k |-> "seq", ms |-> s] : s \in {<<j>> : j \in Maps} \cup
                                               {<<i, j>> : i, j \in Maps}}

Docs == {d \in [Maps -> [cls : Classes \cup {None}, mrg : Merges]] :
            \A m \in Maps : \A i \in DOMAIN d[m].mrg.ms : d[m].mrg.ms[i] < m}

(* node["<<"] as getNode indexes it: a sequence indexed by a string key  *)
(* is the undefined node.                                                 *)
MergeNode(d, m) == IF d[m].mrg.k = "map" THEN d[m].mrg.ms[1] ELSE 0

getNode_noMerge(d, m) == IF m = 0 THEN None ELSE d[m].cls

(* getNode(node, "class"), the RECURSIVE_GET_NODE version. *)
RECURSIVE getNode(_, _)
getNode(d, m) ==
    IF m = 0 THEN None
    ELSE IF d[m].cls # None THEN d[m].cls
    ELSE getNode(d, MergeNode(d, m))

(* The merge key of YAML (yaml.org/type/merge): a key of the mapping     *)
(* itself wins, then the merged mappings in sequence order, each with   *)
(* its own merges.                                                       *)
RECURSIVE MergeLookup(_, _)
MergeLookup(d, m) ==
    LET ms    == d[m].mrg.ms
        found == {i \in DOMAIN ms : MergeLookup(d, ms[i]) # None}
    IN IF d[m].cls # None THEN d[m].cls
       ELSE IF found = {} THEN None
       ELSE MergeLookup(d, ms[CHOOSE i \in found : \A j \in found : i <= j])

(* What makeItem can read as the class of a node, with the reference     *)
(* lookup and whether the node's merges are all aliases of mappings.     *)
ClassReads ==
    {[cls |-> getNode(d, m), ref |-> MergeLookup(d, m),
      plain |-> \A j \in Maps : d[j].mrg.k # "seq"] : d \in Docs, m \in Maps}

-----------------------------------------------------------------------------
(* The registry.  An entry's key is a class name of a factory (slot 0)  *)
(* or the buffer of the str of frame 'slot'; 'at' is what it read when   *)
(* it was inserted.                                                      *)
Entry(c, f, s, a) == [lit |-> c, slot |-> s, fact |-> f, at |-> a]
Miss == Entry(None, None, -1, None)

VARIABLES
    entries,  \* map_
    mem,      \* what the str buffer of each frame depth holds
    depth,    \* Devs whose addChildren is running
    reg,      \* classes added (or declared) and not deleted
    last      \* the last call: [op, cls, ref, plain, res, fact]

vars == <<entries, mem, depth, reg, last>>

(* StrCmp on a key: a class name, or the bytes in a freed buffer. *)
Read(e, mm) == IF e.slot = 0 THEN e.lit ELSE mm[e.slot]

(* The entries a lookup of n may meet in the tree: the one that compares *)
(* equal, or Miss; any equal one, or Miss, once the tree is disordered.  *)
Find(n, mm) ==
    LET eq     == {e \in entries : Read(e, mm) = n}
        broken == \E e \in entries : Read(e, mm) # e.at
    IN IF broken THEN eq \cup {Miss} ELSE IF eq = {} THEN {Miss} ELSE eq

(* getFieldRegistry() with the DECLARE_YAML_FIELD_FACTORY registrations. *)
Init ==
    /\ entries = {Entry(c, c, 0, c) : c \in Declared}
    /\ mem = [f \in 1 .. MaxDepth |-> Junk]
    /\ depth = 0
    /\ reg = Declared
    /\ last = [op |-> "init", cls |-> None, ref |-> None, plain |-> TRUE,
               res |-> "ok", fact |-> None]

Note(op, c, res, f) ==
    [op |-> op, cls |-> c, ref |-> c, plain |-> TRUE, res |-> res, fact |-> f]

(* A makeItem call that read l and ended with res. *)
Called(l, res, f) ==
    [op |-> "makeItem", cls |-> l.cls, ref |-> l.ref, plain |-> l.plain, res |-> res, fact |-> f]

(* addFactory(className, f): map_.insert; DuplicateNameError if a key    *)
(* compares equal.                                                        *)
AddFactory(c) ==
    /\ depth = 0
    /\ \E r \in Find(c, mem) :
          IF r = Miss
            THEN /\ entries' = entries \cup {Entry(c, c, 0, c)}
                 /\ reg' = reg \cup {c}
                 /\ last' = Note("addFactory", c, "ok", c)
            ELSE /\ UNCHANGED <<entries, reg>>
                 /\ last' = Note("addFactory", c, "DuplicateName", None)
    /\ UNCHANGED <<mem, depth>>

(* delFactory(className): map_.erase, of the keys that compare equal. *)
DelFactory(c) ==
    /\ depth = 0
    /\ LET eq == Find(c, mem) \ {Miss}
           ordered == Miss \notin Find(c, mem) \/ eq = {}
       IN \E gone \in SUBSET eq :
             /\ ordered => gone = eq
             /\ entries' = entries \ gone
    /\ reg' = reg \ {c}
    /\ last' = Note("delFactory", c, "ok", None)
    /\ UNCHANGED <<mem, depth>>

(* A lookup found a factory. *)
Made(r) == r # Miss /\ r.fact # None

(* makeItem(n) at frame depth+1: extractClassName (mustReadNode of      *)
(* "class") into str, fact = map_[str.c_str()], NotFoundError for a      *)
(* NULL factory, else fact->makeItem: a Dev runs addChildren.  An        *)
(* exception unwinds every frame of the load.                            *)
MakeItem(l) ==
    /\ depth < MaxDepth
    /\ LET f == depth + 1
       IN IF l.cls = None
            THEN /\ mem' = [mem EXCEPT ![f] = Junk]
                 /\ depth' = 0
                 /\ last' = Called(l, "NoClass", None)
                 /\ UNCHANGED entries
            ELSE LET mm == [mem EXCEPT ![f] = l.cls]
                 IN /\ mem' = mm
                    /\ \E r \in Find(l.cls, mm) :
                          /\ entries' = IF r = Miss
                                          THEN entries \cup {Entry(None, None, f, l.cls)}
                                          ELSE entries
                          /\ IF Made(r)
                               THEN /\ depth' = IF r.fact \in DevClasses THEN depth + 1 ELSE depth
                                    /\ last' = Called(l, "ok", r.fact)
                               ELSE /\ depth' = 0
                                    /\ last' = Called(l, "NotFound", None)
    /\ UNCHANGED reg

(* addChildren's loop over node["children"] ends: the Dev's makeItem     *)
(* returns to its parent's loop (or to dispatchMakeField).               *)
Finish ==
    /\ depth > 0
    /\ depth' = depth - 1
    /\ last' = Note("finish", None, "ok", None)
    /\ UNCHANGED <<entries, mem, reg>>

(* Other code reuses the buffer of a frame that is not live. *)
Clobber(f, v) ==
    /\ f > depth
    /\ mem' = [mem EXCEPT ![f] = v]
    /\ UNCHANGED <<entries, depth, reg, last>>

Next ==
    \/ \E c \in Classes : AddFactory(c) \/ DelFactory(c)
    \/ \E l \in ClassReads : MakeItem(l)
    \/ Finish
    \/ \E f \in 1 .. MaxDepth : Clobber(f, Junk)

Spec == Init /\ [][Next]_vars

-----------------------------------------------------------------------------

TypeOK ==
    /\ depth \in 0 .. MaxDepth
    /\ mem \in [1 .. MaxDepth -> Classes \cup {Junk}]
    /\ \A e \in entries : e.slot \in 0 .. MaxDepth /\ e.fact \in Classes \cup {None}
    /\ reg \subseteq Classes

(* The class makeItem reads through getNode is the one YAML's merge key *)
(* gives, for documents whose merge keys are aliases of mappings.        *)
ClassIsMergeLookup == (last.op = "makeItem" /\ last.plain) => last.cls = last.ref

(* The same for every document, a merge key with a sequence of aliases  *)
(* among them.                                                            *)
ClassIsMergeLookupAll == last.op = "makeItem" => last.cls = last.ref

(* makeItem of a class whose factory is registered does not throw        *)
(* NotFoundError.                                                         *)
RegisteredIsFound ==
    (last.op = "makeItem" /\ last.cls \in reg) => last.res = "ok"

=============================================================================
