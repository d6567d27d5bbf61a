------------------------------ MODULE XmlTree ------------------------------
(***************************************************************************)
(* The nodes of TinyXML (src/src/tinyxml/tinyxml.cpp) and the pointers     *)
(* between them: parent, the first and last child, and the previous and    *)
(* next one of the same parent.  A node is a number; heap has what is in   *)
(* its memory, and zeroes when it is free.  It implements XmlForest.       *)
(*                                                                         *)
(* A client owns the nodes without a parent, as the library asks: it links *)
(* or deletes no other, and nothing below itself.  Only documents and      *)
(* elements are given children.                                            *)
(***************************************************************************)
EXTENDS Integers, Sequences, FiniteSets, SequencesExt

CONSTANTS
    N,          \* nodes at a time
    Label,      \* type and Value() of a node
    Document,   \* the one label of documents
    Elements    \* labels of elements

ASSUME NodesAssumption == N \in Nat
ASSUME LabelAssumption ==
    Document \in Label /\ Elements \subseteq Label \ {Document} /\ "free" \notin Label

VARIABLES
    heap,
    errors      \* documents with error set

vars == <<heap, errors>>

NULL == 0
Node == 1 .. N
Free == "free"
Holders == Elements \union {Document}

NewNode(label) == [label |-> label, parent |-> NULL, first |-> NULL, last |-> NULL,
                   prev |-> NULL, next |-> NULL]
Zeroes == NewNode(Free)
Live(h)  == {n \in Node : h[n].label # Free}
Fresh(h) == Node \ Live(h)

(* Where to leads from n, in k steps; nowhere from null.                   *)
Steps(to, n, last) ==
    LET at[k \in 0 .. last] ==
            IF k = 0 THEN n ELSE LET m == at[k - 1] IN IF m = NULL THEN NULL ELSE to[m]
    IN  at

(* The nodes from n on, along next or prev.                                *)
Along(to, n) ==
    LET at == Steps(to, n, N)
    IN  [i \in 1 .. Cardinality({k \in 0 .. N - 1 : at[k] # NULL}) |-> at[i - 1]]
Onward(h, n)   == Along([m \in Node |-> h[m].next], n)
Backward(h, n) == Along([m \in Node |-> h[m].prev], n)
Children(h, p) == Onward(h, h[p].first)

(* n and what the destructor goes through below it: it goes from a node to *)
(* the first child, and from there along next.                             *)
Leads(h, n, S) ==
    /\ \A m \in {n} \union S : h[m].first \in S \union {NULL}
    /\ \A m \in S : h[m].next \in S \union {NULL}
Below(h, n)   == {m \in Node : \A S \in SUBSET Node : Leads(h, n, S) => m \in S}
Subtree(h, n) == {n} \union Below(h, n)

(* GetDocument(): the document that is met on the way up, which has no     *)
(* parent; NULL if there is none.                                          *)
Upward(h, n) ==
    {m \in Node : \A S \in SUBSET Node :
        n \in S /\ (\A k \in S : h[k].parent \in S \union {NULL}) => m \in S}
GetDocument(h, n) ==
    LET met == {d \in Upward(h, n) : h[d].label = Document}
    IN  IF met = {} THEN NULL ELSE CHOOSE d \in met : TRUE
-----------------------------------------------------------------------------
(* Searches.  Fits says which nodes are looked for.                        *)

FirstOf(path, Fits(_)) ==
    LET at == {i \in DOMAIN path : Fits(path[i])}
    IN  IF at = {} THEN NULL ELSE path[CHOOSE i \in at : \A j \in at : i <= j]

FirstChild(h, p, Fits(_))      == FirstOf(Onward(h, h[p].first), Fits)
LastChild(h, p, Fits(_))       == FirstOf(Backward(h, h[p].last), Fits)
NextSibling(h, n, Fits(_))     == FirstOf(Onward(h, h[n].next), Fits)
PreviousSibling(h, n, Fits(_)) == FirstOf(Backward(h, h[n].prev), Fits)

IterateChildren(h, p, previous, Fits(_)) ==
    IF previous = NULL THEN FirstChild(h, p, Fits) ELSE NextSibling(h, previous, Fits)

FirstChildElement(h, p)  == FirstChild(h, p, LAMBDA n : h[n].label \in Elements)
NextSiblingElement(h, n) == NextSibling(h, n, LAMBDA m : h[m].label \in Elements)

(* TiXmlHandle::ChildElement(), where count goes from 0.                   *)
ChildElement(h, p, count) ==
    Steps([m \in Node |-> NextSiblingElement(h, m)], FirstChildElement(h, p), count)[count]
-----------------------------------------------------------------------------
(* What the operations do to memory.                                       *)

(* delete, and the destructor.                                             *)
Deleted(h, nodes) == [n \in Node |-> IF n \in nodes THEN Zeroes ELSE h[n]]

(* Clone() goes to fresh memory: how the nodes of a subtree are copied.    *)
Room(h, n) == Cardinality(Subtree(h, n)) <= Cardinality(Fresh(h))
Copying(h, n) == CHOOSE c \in [Subtree(h, n) -> Fresh(h)] :
                    \A a, b \in DOMAIN c : c[a] = c[b] => a = b
Cloned(h, n, c) ==
    LET Of(m) == CHOOSE a \in DOMAIN c : c[a] = m
        To(m) == IF m \in DOMAIN c THEN c[m] ELSE NULL
        Copy(o) == [label |-> h[o].label, first |-> To(h[o].first), last |-> To(h[o].last),
                    parent |-> IF o = n THEN NULL ELSE To(h[o].parent),
                    prev |-> IF o = n THEN NULL ELSE To(h[o].prev),
                    next |-> IF o = n THEN NULL ELSE To(h[o].next)]
    IN  [m \in Node |-> IF m \in Range(c) THEN Copy(Of(m)) ELSE h[m]]

(* h with one field of node n set, if there is such a node.                *)
SetFirst(h, n, m)  == IF n = NULL THEN h ELSE [h EXCEPT ![n].first = m]
SetLast(h, n, m)   == IF n = NULL THEN h ELSE [h EXCEPT ![n].last = m]
SetNext(h, n, m)   == IF n = NULL THEN h ELSE [h EXCEPT ![n].next = m]
SetPrev(h, n, m)   == IF n = NULL THEN h ELSE [h EXCEPT ![n].prev = m]
SetParent(h, n, m) == IF n = NULL THEN h ELSE [h EXCEPT ![n].parent = m]

(* Before and after n: the neighbour's pointer, or the parent's.           *)
Precede(h, p, n, m) ==
    IF h[n].prev # NULL THEN SetNext(h, h[n].prev, m) ELSE SetFirst(h, p, m)
Follow(h, p, n, m) ==
    IF h[n].next # NULL THEN SetPrev(h, h[n].next, m) ELSE SetLast(h, p, m)

Linked(h, p, n) ==
    LET last == h[p].last
        h1 == SetNext(SetPrev(SetParent(h, n, p), n, last), n, NULL)
        h2 == IF last # NULL THEN SetNext(h1, last, n) ELSE SetFirst(h1, p, n)
    IN  SetLast(h2, p, n)

(* Mutant of InsertedBefore: what came before still leads past the node.   *)
InsertedBeforeOnly(h, p, before, n) ==
    LET h1 == SetPrev(SetNext(SetParent(h, n, p), n, before), n, h[before].prev)
    IN  SetPrev(h1, before, n)

InsertedBefore(h, p, before, n) ==
    LET h1 == SetPrev(SetNext(SetParent(h, n, p), n, before), n, h[before].prev)
    IN  SetPrev(Precede(h1, p, before, n), before, n)

(* Mutant of InsertedAfter: as last, the node is not known to the parent.  *)
InsertedAfterOnly(h, p, after, n) ==
    LET h1 == SetNext(SetPrev(SetParent(h, n, p), n, after), n, h[after].next)
        h2 == IF h[after].next # NULL THEN SetPrev(h1, h[after].next, n) ELSE h1
    IN  SetNext(h2, after, n)

InsertedAfter(h, p, after, n) ==
    LET h1 == SetNext(SetPrev(SetParent(h, n, p), n, after), n, h[after].next)
    IN  SetNext(Follow(h1, p, after, n), after, n)

(* Mutant of Replaced: what is replaced is not deleted.                    *)
ReplacedLeaving(h, p, old, n) ==
    LET h1 == SetNext(SetPrev(h, n, h[old].prev), n, h[old].next)
        h2 == Precede(Follow(h1, p, old, n), p, old, n)
    IN  SetParent([h2 EXCEPT ![old] = NewNode(h[old].label)], n, p)

Replaced(h, p, old, n) ==
    LET h1 == SetNext(SetPrev(h, n, h[old].prev), n, h[old].next)
        h2 == Precede(Follow(h1, p, old, n), p, old, n)
    IN  SetParent(Deleted(h2, Subtree(h2, old)), n, p)

(* Mutant of Removed: the last child is still known to the parent.         *)
RemovedForward(h, p, old) ==
    LET h1 == Precede(IF h[old].next # NULL THEN SetPrev(h, h[old].next, h[old].prev) ELSE h,
                      p, old, h[old].next)
    IN  Deleted(h1, Subtree(h1, old))

Removed(h, p, old) ==
    LET h1 == Precede(Follow(h, p, old, h[old].prev), p, old, h[old].next)
    IN  Deleted(h1, Subtree(h1, old))
-----------------------------------------------------------------------------
(* The operations.  A node of which a document would become a child sets   *)
(* the error of its own document instead.                                  *)

Init == heap = [n \in Node |-> Zeroes] /\ errors = {}

New(label) == \E n \in Fresh(heap) :
    /\ \A m \in Fresh(heap) : n <= m
    /\ heap' = [heap EXCEPT ![n] = NewNode(label)]
    /\ UNCHANGED errors

(* The function asserts that what it links is in no document but this: a   *)
(* document, which is in itself, ends the process there, and the branch for*)
(* it behind the assertion is not reached.                                 *)
LinkEndChild(p, n) ==
    /\ heap[p].label \in Holders /\ heap[n].label # Document
    /\ heap[n].parent = NULL /\ p \notin Subtree(heap, n)
    /\ heap' = Linked(heap, p, n)
    /\ UNCHANGED errors

(* With a copy of n, unless it is a document.                              *)
WithCopy(p, n, Result(_, _)) ==
    IF heap[n].label = Document
    THEN /\ errors' = errors \union ({GetDocument(heap, p)} \ {NULL})
         /\ UNCHANGED heap
    ELSE /\ Room(heap, n)
         /\ LET c == Copying(heap, n) IN heap' = Result(Cloned(heap, n, c), c[n])
         /\ UNCHANGED errors

InsertEndChild(p, n) ==
    heap[p].label \in Holders /\ WithCopy(p, n, LAMBDA h, m : Linked(h, p, m))

InsertBeforeChild(p, before, n) ==
    heap[before].parent = p /\ WithCopy(p, n, LAMBDA h, m : InsertedBefore(h, p, before, m))

InsertAfterChild(p, after, n) ==
    heap[after].parent = p /\ WithCopy(p, n, LAMBDA h, m : InsertedAfter(h, p, after, m))

ReplaceChild(p, old, n) ==
    heap[old].parent = p /\ WithCopy(p, n, LAMBDA h, m : Replaced(h, p, old, m))

RemoveChild(p, old) ==
    /\ heap[old].parent = p
    /\ heap' = Removed(heap, p, old)
    /\ UNCHANGED errors

Clear(p) ==
    /\ heap' = Deleted([heap EXCEPT ![p].first = NULL, ![p].last = NULL], Below(heap, p))
    /\ UNCHANGED errors

(* Clone(), and the copy of a document with its error.                     *)
Clone(n) ==
    /\ Room(heap, n)
    /\ LET c == Copying(heap, n)
       IN  /\ heap' = Cloned(heap, n, c)
           /\ errors' = errors \union (IF n \in errors THEN {c[n]} ELSE {})

Delete(n) ==
    /\ heap[n].parent = NULL
    /\ heap' = Deleted(heap, Subtree(heap, n))
    /\ errors' = errors \ {n}

Next ==
    \/ \E label \in Label : New(label)
    \/ \E p, n \in Live(heap) : LinkEndChild(p, n)
    \/ \E p, n \in Live(heap) : InsertEndChild(p, n)
    \/ \E p, before, n \in Live(heap) : InsertBeforeChild(p, before, n)
    \/ \E p, after, n \in Live(heap) : InsertAfterChild(p, after, n)
    \/ \E p, old, n \in Live(heap) : ReplaceChild(p, old, n)
    \/ \E p, old \in Live(heap) : RemoveChild(p, old)
    \/ \E p \in Live(heap) : Clear(p)
    \/ \E n \in Live(heap) : Clone(n)
    \/ \E n \in Live(heap) : Delete(n)

Spec == Init /\ [][Next]_vars
-----------------------------------------------------------------------------
(* Properties.                                                             *)

(* One node of a heap: it and its neighbours name each other, the two ends *)
(* of a list are its parent's first and last child, siblings have one      *)
(* parent, no pointer leads to memory that is free, and documents are at   *)
(* the top.                                                                *)
Agrees(h, n) ==
    LET m == h[n]
        Points(to) == to = NULL \/ h[to].label # Free
    IN  /\ m.label = Free => m = Zeroes
        /\ m.label = Document => m.parent = NULL
        /\ Points(m.parent) /\ Points(m.first) /\ Points(m.last)
        /\ Points(m.prev) /\ Points(m.next)
        /\ m.next # NULL => h[m.next].prev = n /\ h[m.next].parent = m.parent
        /\ m.prev # NULL => h[m.prev].next = n /\ h[m.prev].parent = m.parent
        /\ m.first # NULL => h[m.first].parent = n /\ h[m.first].prev = NULL
        /\ m.last # NULL  => h[m.last].parent = n /\ h[m.last].next = NULL
        /\ m.first = NULL <=> m.last = NULL
        /\ m.parent # NULL => /\ m.prev = NULL => h[m.parent].first = n
                              /\ m.next = NULL => h[m.parent].last = n
        /\ m.parent = NULL => m.prev = NULL /\ m.next = NULL

(* The links agree after whatever was called in whatever order, and it is  *)
(* documents that have an error.  Every function of tinyxml.cpp that links *)
(* or unlinks writes up to six pointers for this.                          *)
LinksAgree ==
    /\ errors \subseteq {n \in Node : heap[n].label = Document}
    /\ \A n \in Node : Agrees(heap, n)

(* The destructor of a node goes through the nodes whose parents lead up to*)
(* it, all of them and no other, so that nothing is left behind and nothing*)
(* freed that is elsewhere; and no node is below itself.                   *)
AllBelow ==
    \A n, m \in Live(heap) :
        m \in Below(heap, n) <=> m # n /\ n \in Upward(heap, m)

(* Nothing but pointers holds a tree together: the neighbours agree, and   *)
(* what a destructor reaches is what hangs on the node.                    *)
PointersAgree == LinksAgree /\ AllBelow

(* Going through the children of a node from the end gives the order from  *)
(* the start, reversed; the loops the program has over FirstChildElement() *)
(* and NextSiblingElement() meet every element once, in order.             *)
WalksAgree ==
    \A p \in Live(heap) :
        LET kids == Children(heap, p)
            ElementsIn(I) == {i \in I : heap[kids[i]].label \in Elements}
            Always(n) == TRUE
        IN  /\ Backward(heap, heap[p].last) = Reverse(kids)
            /\ \A i \in ElementsIn(DOMAIN kids) :
                  ChildElement(heap, p, Cardinality(ElementsIn(1 .. i - 1))) = kids[i]
            /\ ChildElement(heap, p, Cardinality(ElementsIn(DOMAIN kids))) = NULL
            /\ \A i \in DOMAIN kids :
                  /\ IterateChildren(heap, p, IF i = 1 THEN NULL ELSE kids[i - 1], Always) = kids[i]
                  /\ PreviousSibling(heap, kids[i], Always) = (IF i = 1 THEN NULL ELSE kids[i - 1])
            /\ kids # << >> => LastChild(heap, p, Always) = Last(kids)

(* The pointers are only a way to keep lists: whatever is called in what   *)
(* order, nodes are in the lists they were put in, a copy has nothing in   *)
(* common with what was copied, and a node freed is one that was asked to  *)
(* go or was below one.                                                    *)
Forest == INSTANCE XmlForest WITH
    label <- [n \in Node |-> heap[n].label],
    kids  <- [n \in Node |-> Children(heap, n)]
ForestSpec == Forest!Spec
=============================================================================
