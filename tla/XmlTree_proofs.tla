---------------------------- MODULE XmlTree_proofs ----------------------------
(***************************************************************************)
(* Safety of the pointers of TinyXML's nodes, for every number of nodes and*)
(* every set of labels: whatever is called in whatever order, the links    *)
(* agree, the destructor frees what is below a node and nothing else, the  *)
(* searches and loops meet each child once and in order, and the nodes are *)
(* the forest of lists that XmlForest says.                                *)
(***************************************************************************)
EXTENDS XmlTree, FiniteSetTheorems, FunctionTheorems, SequenceTheorems, TLAPS

Place   == Node \union {NULL}
Content == [label : Label \union {Free}, parent : Place, first : Place, last : Place,
            prev : Place, next : Place]
Heaps   == [Node -> Content]

(* Neither the previous siblings nor the parents of a node go in circles:  *)
(* links that agree may do so, and a ring of siblings would not be found   *)
(* from their parent.                                                      *)
NoRings(h) == \A C \in SUBSET Node : C # {} => \E m \in C : h[m].prev \notin C
NoLoops(h) == \A C \in SUBSET Node : C # {} => \E m \in C : h[m].parent \notin C

Tree(h) ==
    /\ h \in Heaps
    /\ \A n \in Node : Agrees(h, n)
    /\ NoRings(h) /\ NoLoops(h)

ErrorsOK == errors \subseteq {n \in Node : heap[n].label = Document}

IInv == Tree(heap) /\ ErrorsOK
-----------------------------------------------------------------------------
LEMMA Null == NULL \notin Node /\ Free \notin Label /\ IsFiniteSet(Node)
<1>1. NULL \notin Node
  BY NodesAssumption DEF NULL, Node
<1>2. IsFiniteSet(Node)
  BY NodesAssumption, FS_Interval DEF Node
<1> QED
  BY <1>1, <1>2, LabelAssumption DEF Free

LEMMA Fields ==
    ASSUME NEW h \in Heaps, NEW k \in Node
    PROVE  /\ h[k] \in Content /\ h[k].label \in Label \union {Free}
           /\ h[k].parent \in Place /\ h[k].first \in Place /\ h[k].last \in Place
           /\ h[k].prev \in Place /\ h[k].next \in Place
BY DEF Heaps, Content

(* What is below a node is closed, and the least of the closed sets.       *)
LEMMA BelowLeast ==
    ASSUME NEW h, NEW n \in Node, NEW S \in SUBSET Node, Leads(h, n, S)
    PROVE  Below(h, n) \subseteq S
BY DEF Below

LEMMA BelowLeads ==
    ASSUME NEW h \in Heaps, NEW n \in Node
    PROVE  Below(h, n) \in SUBSET Node /\ Leads(h, n, Below(h, n))
<1>1. Below(h, n) \in SUBSET Node
  BY DEF Below
<1>2. ASSUME NEW m \in {n} \union Below(h, n) PROVE h[m].first \in Below(h, n) \union {NULL}
  <2>1. \A S \in SUBSET Node : Leads(h, n, S) => h[m].first \in S \union {NULL}
    BY <1>2, BelowLeast DEF Leads
  <2>2. h[m].first \in Node \union {NULL}
    BY <1>1, <1>2, Fields DEF Place
  <2> QED
    BY <2>1, <2>2 DEF Below
<1>3. ASSUME NEW m \in Below(h, n) PROVE h[m].next \in Below(h, n) \union {NULL}
  <2>1. \A S \in SUBSET Node : Leads(h, n, S) => h[m].next \in S \union {NULL}
    BY <1>3, BelowLeast DEF Leads
  <2>2. h[m].next \in Node \union {NULL}
    BY <1>1, <1>3, Fields DEF Place
  <2> QED
    BY <2>1, <2>2 DEF Below
<1> QED
  BY <1>1, <1>2, <1>3 DEF Leads

(* The nodes below n are those whose parent is n or below n.               *)
LEMMA BelowIs ==
    ASSUME NEW h, Tree(h), NEW n \in Node
    PROVE  /\ Below(h, n) \in SUBSET Live(h)
           /\ \A m \in Node : m \in Below(h, n) <=> h[m].parent \in Subtree(h, n)
<1> DEFINE B == Below(h, n)
<1>1. h \in Heaps /\ B \in SUBSET Node /\ Leads(h, n, B)
  BY BelowLeads DEF Tree
<1>2. B \subseteq Live(h)
  <2>1. Leads(h, n, Live(h))
    <3>1. \A m \in Node : /\ h[m].first \in Live(h) \union {NULL}
                          /\ h[m].next \in Live(h) \union {NULL}
      BY <1>1, Fields DEF Tree, Agrees, Live, Place
    <3> QED
      BY <3>1 DEF Leads, Live
  <2> QED
    BY <2>1, BelowLeast DEF Live
<1>3. ASSUME NEW m \in B PROVE h[m].parent \in {n} \union B
  <2> DEFINE S == {k \in B : h[k].parent \in {n} \union B}
  <2>1. Leads(h, n, S)
    <3>1. ASSUME NEW k \in {n} \union S PROVE h[k].first \in S \union {NULL}
      <4>1. CASE h[k].first # NULL
        <5>1. k \in Node /\ h[k].first \in B
          BY <1>1, <3>1, <4>1 DEF Leads
        <5>2. h[h[k].first].parent = k
          BY <4>1, <5>1 DEF Tree, Agrees
        <5> QED
          BY <5>1, <5>2
      <4> QED
        BY <4>1
    <3>2. ASSUME NEW k \in S PROVE h[k].next \in S \union {NULL}
      <4>1. CASE h[k].next # NULL
        <5>1. k \in Node /\ h[k].next \in B
          BY <1>1, <4>1 DEF Leads
        <5>2. h[h[k].next].parent = h[k].parent
          BY <4>1, <5>1 DEF Tree, Agrees
        <5> QED
          BY <5>1, <5>2
      <4> QED
        BY <4>1
    <3> QED
      BY <3>1, <3>2 DEF Leads
  <2>2. B \subseteq S
    BY <1>1, <2>1, BelowLeast
  <2> QED
    BY <2>2
<1>4. ASSUME NEW m \in Node, h[m].parent \in {n} \union B PROVE m \in B
  <2> DEFINE p == h[m].parent
             C == {k \in Node : h[k].parent = p /\ k \notin B}
  <2>1. SUFFICES ASSUME m \notin B PROVE FALSE
    OBVIOUS
  <2>2. C \in SUBSET Node /\ m \in C
    BY <2>1
  <2>3. PICK k \in C : h[k].prev \notin C
    BY <2>2, Zenon DEF Tree, NoRings
  <2>4. p \in Node /\ p # NULL /\ k \in Node /\ h[k].parent = p /\ k \notin B
    BY <1>1, <1>4, <2>3, Null
  <2>5. CASE h[k].prev = NULL
    <3>1. h[p].first = k
      BY <2>4, <2>5 DEF Tree, Agrees
    <3>2. k # NULL /\ h[p].first \in B \union {NULL}
      BY <1>1, <1>4, <2>4, Null DEF Leads
    <3> QED
      BY <2>4, <3>1, <3>2
  <2>6. CASE h[k].prev # NULL
    <3> DEFINE q == h[k].prev
    <3>1. q \in Node /\ h[q].next = k /\ h[q].parent = p
      BY <1>1, <2>4, <2>6, Fields DEF Tree, Agrees, Place
    <3>2. q \in B
      BY <2>3, <3>1
    <3>3. k # NULL /\ h[q].next \in B \union {NULL}
      BY <1>1, <2>4, <3>2, Null DEF Leads
    <3> QED
      BY <2>4, <3>1, <3>3
  <2> QED
    BY <2>5, <2>6
<1> QED
  BY <1>1, <1>2, <1>3, <1>4 DEF Subtree

(* Nothing is below itself.                                                *)
LEMMA NotBelow ==
    ASSUME NEW h, Tree(h), NEW n \in Node
    PROVE  n \notin Below(h, n) /\ h[n].parent \notin Subtree(h, n) /\ h[n].parent # n
<1> DEFINE S == Subtree(h, n)
<1>1. S \in SUBSET Node /\ n \in S /\ \A m \in Below(h, n) : h[m].parent \in S
  BY BelowIs DEF Subtree, Live
<1>2. h[n].parent \notin S
  <2>1. SUFFICES ASSUME h[n].parent \in S PROVE FALSE
    OBVIOUS
  <2>2. \A m \in S : h[m].parent \in S
    BY <1>1, <2>1 DEF Subtree
  <2> QED
    BY <1>1, <2>2 DEF Tree, NoLoops
<1> QED
  BY <1>1, <1>2, BelowIs

(* What points into a subtree from outside of it points to its top.        *)
LEMMA BelowClosed ==
    ASSUME NEW h, Tree(h), NEW n \in Node, NEW k \in Node
    PROVE  LET B == Below(h, n)
               In(x) == x \in B
           IN  /\ h[k].next # NULL => (In(k) <=> In(h[k].next))
               /\ h[k].prev # NULL => (In(k) <=> In(h[k].prev))
               /\ h[k].first # NULL => (k \in B \union {n} <=> In(h[k].first))
               /\ h[k].last # NULL => (k \in B \union {n} <=> In(h[k].last))
<1>1. h \in Heaps /\ Agrees(h, k)
  BY DEF Tree
<1>2. /\ h[k].next # NULL => h[k].next \in Node /\ h[h[k].next].parent = h[k].parent
      /\ h[k].prev # NULL => h[k].prev \in Node /\ h[h[k].prev].parent = h[k].parent
      /\ h[k].first # NULL => h[k].first \in Node /\ h[h[k].first].parent = k
      /\ h[k].last # NULL => h[k].last \in Node /\ h[h[k].last].parent = k
  BY <1>1, Fields DEF Agrees, Place
<1> QED
  BY <1>2, BelowIs DEF Subtree
-----------------------------------------------------------------------------
(* A node comes between x and y, neighbours below p; null stands for the   *)
(* end of the list.                                                        *)
Gap(h, p, x, y) ==
    /\ p \in Node /\ x \in Place /\ y \in Place
    /\ IF x = NULL THEN h[p].first = y ELSE h[x].parent = p /\ h[x].next = y
    /\ IF y = NULL THEN h[p].last = x  ELSE h[y].parent = p /\ h[y].prev = x

Put(g, h, p, x, m, y) ==
    /\ g \in Heaps
    /\ \A k \in Node :
          /\ g[k].label  = h[k].label
          /\ g[k].parent = IF k = m THEN p ELSE h[k].parent
          /\ g[k].first  = IF k = p /\ x = NULL THEN m ELSE h[k].first
          /\ g[k].last   = IF k = p /\ y = NULL THEN m ELSE h[k].last
          /\ g[k].prev   = IF k = m THEN x ELSE IF k = y THEN m ELSE h[k].prev
          /\ g[k].next   = IF k = m THEN y ELSE IF k = x THEN m ELSE h[k].next

LEMMA PutKeeps ==
    ASSUME NEW h, Tree(h), NEW p, NEW x, NEW y, Gap(h, p, x, y), h[p].label # Free,
           NEW m \in Node, h[m].parent = NULL, h[m].label \notin {Free, Document},
           p \notin Subtree(h, m), NEW g, Put(g, h, p, x, m, y)
    PROVE  Tree(g)
<1>1. /\ h \in Heaps /\ g \in Heaps /\ p \in Node /\ x \in Place /\ y \in Place
      /\ \A k \in Node : Agrees(h, k)
  BY DEF Tree, Put, Gap
<1>2. /\ m # NULL /\ p # NULL /\ p # m /\ h[m].prev = NULL /\ h[m].next = NULL
      /\ h[m].label # Free /\ h[m].label # Document
  BY <1>1, Null DEF Agrees, Subtree
<1>3. /\ x # NULL => x \in Node /\ x # m /\ x # p /\ h[x].label # Free /\ h[x].label # Document
      /\ y # NULL => y \in Node /\ y # m /\ y # p /\ h[y].label # Free /\ h[y].label # Document
  <2>1. \A k \in Node : h[k].parent = p => k # m /\ k # p
    BY <1>2, NotBelow
  <2>2. \A k \in Node : h[k].parent # NULL => h[k].label # Free /\ h[k].label # Document
    BY <1>1 DEF Agrees, Zeroes, NewNode
  <2> QED
    BY <1>1, <1>2, <2>1, <2>2 DEF Gap, Place
<1>4. x # NULL /\ y # NULL => x # y
  <2>1. SUFFICES ASSUME x # NULL, y = x PROVE FALSE
    OBVIOUS
  <2>2. {x} \in SUBSET Node /\ h[x].prev = x
    BY <1>3, <2>1 DEF Gap
  <2> QED
    BY <2>2 DEF Tree, NoRings
<1>5. \A k \in Node :
          /\ h[k].next = m => FALSE
          /\ h[k].prev = m => FALSE
  BY <1>1, <1>2, Fields DEF Agrees, Place
<1>6. ASSUME NEW k \in Node PROVE Agrees(g, k)
  <2>1. Agrees(h, k)
    BY <1>1
  <2>2. /\ h[k].next # NULL => h[k].next \in Node
        /\ h[k].prev # NULL => h[k].prev \in Node
        /\ h[k].first # NULL => h[k].first \in Node
        /\ h[k].last # NULL => h[k].last \in Node
        /\ h[k].parent # NULL => h[k].parent \in Node
    BY <1>1, Fields DEF Place
  <2> DEFINE Points(to) == to = NULL \/ g[to].label # Free
  <2>3. g[k].label = Free => g[k] = Zeroes
    <3>1. SUFFICES ASSUME g[k].label = Free PROVE g[k] = Zeroes
      OBVIOUS
    <3>2. h[k].label = Free /\ k # p /\ k # m /\ k # x /\ k # y
      BY <1>2, <1>3, <3>1, Null DEF Put
    <3>3. h[k] = Zeroes
      BY <2>1, <3>2 DEF Agrees
    <3>4. /\ g[k].label = Free /\ g[k].parent = NULL /\ g[k].first = NULL /\ g[k].last = NULL
          /\ g[k].prev = NULL /\ g[k].next = NULL
      BY <3>2, <3>3 DEF Put, Zeroes, NewNode
    <3>5. g[k] \in Content
      BY <1>1, Fields
    <3> QED
      BY <3>4, <3>5 DEF Content, Zeroes, NewNode
  <2>4. g[k].label = Document => g[k].parent = NULL
    BY <1>2, <2>1 DEF Agrees, Put
  <2>5. /\ Points(g[k].parent) /\ Points(g[k].first) /\ Points(g[k].last)
        /\ Points(g[k].prev) /\ Points(g[k].next)
    BY <1>1, <1>2, <1>3, <2>1, <2>2 DEF Agrees, Put
  <2>6. g[k].next # NULL => g[g[k].next].prev = k /\ g[g[k].next].parent = g[k].parent
    BY <1>1, <1>2, <1>3, <1>4, <1>5, <2>1, <2>2, Null DEF Agrees, Put, Gap
  <2>7. g[k].prev # NULL => g[g[k].prev].next = k /\ g[g[k].prev].parent = g[k].parent
    BY <1>1, <1>2, <1>3, <1>4, <1>5, <2>1, <2>2, Null DEF Agrees, Put, Gap
  <2>8. g[k].first # NULL => g[g[k].first].parent = k /\ g[g[k].first].prev = NULL
    BY <1>1, <1>2, <1>3, <1>4, <1>5, <2>1, <2>2, Null DEF Agrees, Put, Gap
  <2>9. g[k].last # NULL => g[g[k].last].parent = k /\ g[g[k].last].next = NULL
    BY <1>1, <1>2, <1>3, <1>4, <1>5, <2>1, <2>2, Null DEF Agrees, Put, Gap
  <2>10. g[k].first = NULL <=> g[k].last = NULL
    BY <1>1, <1>2, <1>3, <1>4, <1>5, <2>1, <2>2, Null DEF Agrees, Put, Gap
  <2>11. g[k].parent # NULL => /\ g[k].prev = NULL => g[g[k].parent].first = k
                               /\ g[k].next = NULL => g[g[k].parent].last = k
    BY <1>1, <1>2, <1>3, <1>4, <1>5, <2>1, <2>2, Null DEF Agrees, Put, Gap
  <2>12. g[k].parent = NULL => g[k].prev = NULL /\ g[k].next = NULL
    BY <1>1, <1>2, <1>3, <1>4, <1>5, <2>1, <2>2, Null DEF Agrees, Put, Gap
  <2> QED
    BY <2>3, <2>4, <2>5, <2>6, <2>7, <2>8, <2>9, <2>10, <2>11, <2>12 DEF Agrees
<1>7. NoRings(g)
  <2> SUFFICES ASSUME NEW C \in SUBSET Node, C # {} PROVE \E k \in C : g[k].prev \notin C
    BY DEF NoRings
  <2>1. CASE C \ {m} = {}
    <3>1. m \in C /\ x \notin C
      BY <1>3, <2>1, Null
    <3> QED
      BY <3>1 DEF Put
  <2>2. CASE C \ {m} # {}
    <3>1. PICK k \in C \ {m} : h[k].prev \notin C \ {m}
      BY <2>2 DEF Tree, NoRings
    <3>2. k \in Node /\ h[k].prev # m
      BY <1>5, <3>1
    <3>3. CASE k = y /\ m \in C
      <4>1. g[m].prev = x /\ x = h[k].prev
        BY <3>2, <3>3, Null DEF Put, Gap
      <4> QED
        BY <3>1, <3>2, <3>3, <4>1
    <3>4. CASE ~(k = y /\ m \in C)
      BY <3>1, <3>2, <3>4 DEF Put
    <3> QED
      BY <3>3, <3>4
  <2> QED
    BY <2>1, <2>2
<1>8. NoLoops(g)
  <2> DEFINE S == Subtree(h, m)
  <2> SUFFICES ASSUME NEW C \in SUBSET Node, C # {} PROVE \E k \in C : g[k].parent \notin C
    BY DEF NoLoops
  <2>1. S \in SUBSET Node /\ m \in S /\ \A k \in Node : k \in S <=> k = m \/ h[k].parent \in S
    BY BelowIs DEF Subtree, Live
  <2> HIDE DEF S
  <2>2. CASE C \ S = {}
    <3>1. PICK k \in C : h[k].parent \notin C
      BY DEF Tree, NoLoops
    <3>2. p \notin C
      BY <2>2 DEF S
    <3> QED
      BY <3>1, <3>2 DEF Put
  <2>3. CASE C \ S # {}
    <3>1. PICK k \in C \ S : h[k].parent \notin C \ S
      BY <2>3 DEF Tree, NoLoops
    <3>2. k # m /\ h[k].parent \notin S
      BY <2>1, <3>1
    <3> QED
      BY <3>1, <3>2 DEF Put
  <2> QED
    BY <2>2, <2>3
<1> QED
  BY <1>1, <1>6, <1>7, <1>8 DEF Tree
-----------------------------------------------------------------------------
(* A node that was between x and y is taken out, with what is below it.    *)
TakenOut(g, h, p, x, o, y) ==
    /\ g \in Heaps
    /\ \A k \in Node :
          /\ g[k].label  = h[k].label
          /\ g[k].parent = IF k = o THEN NULL ELSE h[k].parent
          /\ g[k].first  = IF k = p /\ x = NULL THEN y ELSE h[k].first
          /\ g[k].last   = IF k = p /\ y = NULL THEN x ELSE h[k].last
          /\ g[k].prev   = IF k = o THEN NULL ELSE IF k = y THEN x ELSE h[k].prev
          /\ g[k].next   = IF k = o THEN NULL ELSE IF k = x THEN y ELSE h[k].next

Child(h, p, o) == o \in Node /\ p \in Node /\ h[o].parent = p

LEMMA ChildPlace ==
    ASSUME NEW h, Tree(h), NEW p, NEW o, Child(h, p, o)
    PROVE  LET x == h[o].prev
               y == h[o].next
           IN  /\ o # p /\ o # NULL /\ p # NULL /\ x # o /\ y # o /\ x # p /\ y # p
               /\ x \in Place /\ y \in Place /\ (x # NULL \/ y # NULL => x # y)
               /\ x # NULL => h[x].next = o /\ h[x].parent = p
               /\ y # NULL => h[y].prev = o /\ h[y].parent = p
               /\ x = NULL => h[p].first = o
               /\ y = NULL => h[p].last = o
               /\ h[o].label \notin {Free, Document} /\ h[p].label # Free
               /\ {o, x, y} \intersect Subtree(h, o) = {o} /\ p \notin Subtree(h, o)
<1> DEFINE x == h[o].prev
           y == h[o].next
<1>1. h \in Heaps /\ o \in Node /\ p \in Node /\ o # NULL /\ p # NULL /\ Agrees(h, o)
  BY Null DEF Tree, Child
<1>2. x \in Place /\ y \in Place
  BY <1>1, Fields
<1>3. o # p /\ p \notin Subtree(h, o)
  BY <1>1, NotBelow DEF Child
<1>4. \A k \in Node : h[k].parent = p => k # p /\ h[k].prev # k
  <2>1. ASSUME NEW k \in Node, h[k].prev = k PROVE FALSE
    <3>1. {k} \in SUBSET Node /\ {k} # {}
      OBVIOUS
    <3> QED
      BY <2>1, <3>1 DEF Tree, NoRings
  <2>2. \A k \in Node : h[k].parent = p => k # p
    BY NotBelow
  <2> QED
    BY <2>1, <2>2
<1>5. /\ x # NULL => x \in Node /\ h[x].next = o /\ h[x].parent = p
      /\ y # NULL => y \in Node /\ h[y].prev = o /\ h[y].parent = p
      /\ x = NULL => h[p].first = o
      /\ y = NULL => h[p].last = o
      /\ h[o].label \notin {Free, Document} /\ h[p].label # Free
  BY <1>1, <1>2 DEF Agrees, Child, Place, Zeroes, NewNode
<1>6. x # NULL /\ y # NULL => x # y
  <2>1. SUFFICES ASSUME x # NULL, y = x PROVE FALSE
    OBVIOUS
  <2>2. {o, x} \in SUBSET Node /\ h[o].prev = x /\ h[x].prev = o
    BY <1>1, <1>5, <2>1
  <2> QED
    BY <2>2 DEF Tree, NoRings
<1>7. x # o /\ y # o /\ x # p /\ y # p
  BY <1>1, <1>4, <1>5 DEF Child
<1>8. x \notin Below(h, o) /\ y \notin Below(h, o)
  BY <1>1, <1>3, <1>5, Null, BelowIs DEF Live
<1> QED
  BY <1>1, <1>2, <1>3, <1>5, <1>6, <1>7, <1>8 DEF Subtree

LEMMA TakenOutKeeps ==
    ASSUME NEW h, Tree(h), NEW p, NEW o, Child(h, p, o),
           NEW g, TakenOut(g, h, p, h[o].prev, o, h[o].next)
    PROVE  Tree(g)
<1> DEFINE x == h[o].prev
           y == h[o].next
<1>1. /\ h \in Heaps /\ g \in Heaps /\ p \in Node /\ o \in Node
      /\ x \in Place /\ y \in Place
      /\ \A k \in Node : Agrees(h, k)
  BY ChildPlace DEF Tree, TakenOut, Child
<1>2. /\ o # p /\ o # NULL /\ p # NULL /\ x # o /\ y # o /\ x # p /\ y # p
      /\ (x # NULL \/ y # NULL => x # y)
      /\ x # NULL => x \in Node /\ h[x].next = o /\ h[x].parent = p
      /\ y # NULL => y \in Node /\ h[y].prev = o /\ h[y].parent = p
      /\ x = NULL => h[p].first = o
      /\ y = NULL => h[p].last = o
      /\ h[o].parent = p
  BY <1>1, ChildPlace DEF Place, Child
<1>3. TakenOut(g, h, p, x, o, y)
  OBVIOUS
<1> HIDE DEF x, y
<1>4. /\ \A k \in Node : h[k].next = o => k = x
      /\ \A k \in Node : h[k].prev = o => k = y
      /\ \A k \in Node : h[k].first = o => k = p /\ x = NULL
      /\ \A k \in Node : h[k].last = o => k = p /\ y = NULL
  BY <1>1, <1>2 DEF Agrees, x, y
<1>5. ASSUME NEW k \in Node PROVE Agrees(g, k)
  <2>1. Agrees(h, k)
    BY <1>1
  <2>2. /\ h[k].next # NULL => h[k].next \in Node
        /\ h[k].prev # NULL => h[k].prev \in Node
        /\ h[k].first # NULL => h[k].first \in Node
        /\ h[k].last # NULL => h[k].last \in Node
        /\ h[k].parent # NULL => h[k].parent \in Node
    BY <1>1, Fields DEF Place
  <2>3. /\ x # NULL => h[x].label # Free
        /\ y # NULL => h[y].label # Free
    BY <1>1, <1>2 DEF Agrees, x, y
  <2> DEFINE Points(to) == to = NULL \/ g[to].label # Free
  <2>4. g[k].label = Free => g[k] = Zeroes
    <3>1. SUFFICES ASSUME g[k].label = Free PROVE g[k] = Zeroes
      OBVIOUS
    <3>2. h[k] = Zeroes
      BY <1>3, <2>1, <3>1 DEF Agrees, TakenOut
    <3>3. k # p /\ k # x /\ k # y
      BY <1>1, <1>2, <3>2, Null DEF Agrees, Zeroes, NewNode
    <3>4. /\ g[k].label = Free /\ g[k].parent = NULL /\ g[k].first = NULL /\ g[k].last = NULL
          /\ g[k].prev = NULL /\ g[k].next = NULL
      BY <1>3, <3>2, <3>3 DEF TakenOut, Zeroes, NewNode
    <3>5. g[k] \in Content
      BY <1>1, Fields
    <3> QED
      BY <3>4, <3>5 DEF Content, Zeroes, NewNode
  <2>5. g[k].label = Document => g[k].parent = NULL
    BY <1>3, <2>1 DEF Agrees, TakenOut
  <2>6. /\ Points(g[k].parent) /\ Points(g[k].first) /\ Points(g[k].last)
        /\ Points(g[k].prev) /\ Points(g[k].next)
    BY <1>1, <1>2, <1>3, <2>1, <2>2, <2>3 DEF Agrees, TakenOut
  <2>7. g[k].next # NULL => g[g[k].next].prev = k /\ g[g[k].next].parent = g[k].parent
    BY <1>1, <1>2, <1>3, <1>4, <2>1, <2>2, Null DEF Agrees, TakenOut
  <2>8. g[k].prev # NULL => g[g[k].prev].next = k /\ g[g[k].prev].parent = g[k].parent
    BY <1>1, <1>2, <1>3, <1>4, <2>1, <2>2, Null DEF Agrees, TakenOut
  <2>9. g[k].first # NULL => g[g[k].first].parent = k /\ g[g[k].first].prev = NULL
    BY <1>1, <1>2, <1>3, <1>4, <2>1, <2>2, Null DEF Agrees, TakenOut
  <2>10. g[k].last # NULL => g[g[k].last].parent = k /\ g[g[k].last].next = NULL
    BY <1>1, <1>2, <1>3, <1>4, <2>1, <2>2, Null DEF Agrees, TakenOut
  <2>11. g[k].first = NULL <=> g[k].last = NULL
    BY <1>1, <1>2, <1>3, <1>4, <2>1, <2>2, Null DEF Agrees, TakenOut
  <2>12. g[k].parent # NULL => /\ g[k].prev = NULL => g[g[k].parent].first = k
                               /\ g[k].next = NULL => g[g[k].parent].last = k
    BY <1>1, <1>2, <1>3, <1>4, <2>1, <2>2, Null DEF Agrees, TakenOut
  <2>13. g[k].parent = NULL => g[k].prev = NULL /\ g[k].next = NULL
    BY <1>1, <1>2, <1>3, <1>4, <2>1, <2>2, Null DEF Agrees, TakenOut
  <2> QED
    BY <2>4, <2>5, <2>6, <2>7, <2>8, <2>9, <2>10, <2>11, <2>12, <2>13 DEF Agrees
<1>6. NoRings(g)
  <2> SUFFICES ASSUME NEW C \in SUBSET Node, C # {} PROVE \E k \in C : g[k].prev \notin C
    BY DEF NoRings
  <2>1. CASE x \in C /\ y \in C
    <3>1. PICK k \in C \union {o} : h[k].prev \notin C \union {o}
      BY <1>1 DEF Tree, NoRings
    <3>2. k # y /\ k # o
      BY <1>1, <1>2, <2>1, <3>1, Null DEF x
    <3> QED
      BY <1>3, <3>1, <3>2 DEF TakenOut
  <2>2. CASE ~(x \in C /\ y \in C)
    <3>1. PICK k \in C : h[k].prev \notin C
      BY DEF Tree, NoRings
    <3>2. NULL \notin C
      BY Null
    <3> QED
      BY <1>3, <2>2, <3>1, <3>2 DEF TakenOut
  <2> QED
    BY <2>1, <2>2
<1>7. NoLoops(g)
  <2> SUFFICES ASSUME NEW C \in SUBSET Node, C # {} PROVE \E k \in C : g[k].parent \notin C
    BY DEF NoLoops
  <2>1. PICK k \in C : h[k].parent \notin C
    BY DEF Tree, NoLoops
  <2>2. NULL \notin C
    BY Null
  <2> QED
    BY <1>3, <2>1, <2>2 DEF TakenOut
<1> QED
  BY <1>1, <1>5, <1>6, <1>7 DEF Tree
-----------------------------------------------------------------------------
(* What is below a node is freed, and the node itself if nobody has it.    *)
Emptied(g, h, n) ==
    /\ g \in Heaps
    /\ \A k \in Below(h, n) : g[k] = Zeroes
    /\ \A k \in Node \ Below(h, n) :
          /\ g[k].label  = h[k].label
          /\ g[k].parent = h[k].parent
          /\ g[k].first  = IF k = n THEN NULL ELSE h[k].first
          /\ g[k].last   = IF k = n THEN NULL ELSE h[k].last
          /\ g[k].prev   = h[k].prev
          /\ g[k].next   = h[k].next

LEMMA SameContent ==
    ASSUME NEW a \in Content, NEW b \in Content, a.label = b.label, a.parent = b.parent,
           a.first = b.first, a.last = b.last, a.prev = b.prev, a.next = b.next
    PROVE  a = b
BY DEF Content

LEMMA ZeroesAre ==
    /\ Zeroes \in Content /\ Zeroes.label = Free /\ Zeroes.parent = NULL
    /\ Zeroes.first = NULL /\ Zeroes.last = NULL /\ Zeroes.prev = NULL /\ Zeroes.next = NULL
BY DEF Zeroes, NewNode, Content, Place

LEMMA ZeroesAgree ==
    ASSUME NEW g \in Heaps, NEW k \in Node, g[k] = Zeroes
    PROVE  Agrees(g, k)
BY ZeroesAre, LabelAssumption DEF Agrees, Free

LEMMA EmptiedKeeps ==
    ASSUME NEW h, Tree(h), NEW n \in Node, NEW g, Emptied(g, h, n)
    PROVE  Tree(g)
<1> DEFINE B == Below(h, n)
<1>1. h \in Heaps /\ g \in Heaps /\ \A k \in Node : Agrees(h, k)
  BY DEF Tree, Emptied
<1>2. /\ B \in SUBSET Node /\ n \notin B
      /\ \A k \in Node : k \in B <=> h[k].parent \in B \union {n}
  BY BelowIs, NotBelow DEF Live, Subtree
<1>3. \A k \in Node :
        /\ h[k].next # NULL => (k \in B <=> h[k].next \in B)
        /\ h[k].prev # NULL => (k \in B <=> h[k].prev \in B)
        /\ h[k].first # NULL => (k \in B \union {n} <=> h[k].first \in B)
        /\ h[k].last # NULL => (k \in B \union {n} <=> h[k].last \in B)
  BY BelowClosed
<1>4. /\ \A k \in B : g[k] = Zeroes
      /\ \A k \in Node \ B :
          /\ g[k].label  = h[k].label
          /\ g[k].parent = h[k].parent
          /\ g[k].first  = IF k = n THEN NULL ELSE h[k].first
          /\ g[k].last   = IF k = n THEN NULL ELSE h[k].last
          /\ g[k].prev   = h[k].prev
          /\ g[k].next   = h[k].next
  BY DEF Emptied
<1> HIDE DEF B
<1>5. ASSUME NEW k \in Node PROVE Agrees(g, k)
  <2>1. CASE k \in B
    BY <1>1, <1>4, <2>1, ZeroesAgree
  <2>2. CASE k \notin B
    <3>1. Agrees(h, k)
      BY <1>1
    <3>2. /\ h[k].next # NULL => h[k].next \in Node \ B
          /\ h[k].prev # NULL => h[k].prev \in Node \ B
          /\ h[k].first # NULL /\ k # n => h[k].first \in Node \ B
          /\ h[k].last # NULL /\ k # n => h[k].last \in Node \ B
          /\ h[k].parent # NULL => h[k].parent \in Node \ B /\ h[k].parent # n
      BY <1>1, <1>2, <1>3, <2>2, Fields DEF Place
    <3>3. g[k].label = Free => g[k] = Zeroes
      <4>1. SUFFICES ASSUME g[k].label = Free PROVE g[k] = Zeroes
        OBVIOUS
      <4>2. h[k] = Zeroes
        BY <1>4, <2>2, <3>1, <4>1 DEF Agrees
      <4>3. g[k] \in Content /\ Zeroes \in Content
        BY <1>1, Fields, ZeroesAre
      <4> QED
        BY <1>4, <2>2, <4>2, <4>3, ZeroesAre, SameContent
    <3>4. /\ g[k].label = Document => g[k].parent = NULL
          /\ g[k].parent = NULL \/ g[g[k].parent].label # Free
          /\ g[k].first = NULL \/ g[g[k].first].label # Free
          /\ g[k].last = NULL \/ g[g[k].last].label # Free
          /\ g[k].prev = NULL \/ g[g[k].prev].label # Free
          /\ g[k].next = NULL \/ g[g[k].next].label # Free
      BY <1>4, <2>2, <3>1, <3>2 DEF Agrees
    <3>5. /\ g[k].next # NULL => g[g[k].next].prev = k /\ g[g[k].next].parent = g[k].parent
          /\ g[k].prev # NULL => g[g[k].prev].next = k /\ g[g[k].prev].parent = g[k].parent
          /\ g[k].first # NULL => g[g[k].first].parent = k /\ g[g[k].first].prev = NULL
          /\ g[k].last # NULL => g[g[k].last].parent = k /\ g[g[k].last].next = NULL
      BY <1>4, <2>2, <3>1, <3>2 DEF Agrees
    <3>6. /\ g[k].first = NULL <=> g[k].last = NULL
          /\ g[k].parent # NULL => /\ g[k].prev = NULL => g[g[k].parent].first = k
                                   /\ g[k].next = NULL => g[g[k].parent].last = k
          /\ g[k].parent = NULL => g[k].prev = NULL /\ g[k].next = NULL
      BY <1>4, <2>2, <3>1, <3>2 DEF Agrees
    <3> QED
      BY <3>3, <3>4, <3>5, <3>6 DEF Agrees
  <2> QED
    BY <2>1, <2>2
<1>6. NoRings(g) /\ NoLoops(g)
  <2>1. \A k \in Node : /\ g[k].prev \in {h[k].prev, NULL}
                        /\ g[k].parent \in {h[k].parent, NULL}
    BY <1>2, <1>4, ZeroesAre
  <2>2. \A C \in SUBSET Node : NULL \notin C
    BY Null
  <2> QED
    BY <2>1, <2>2 DEF Tree, NoRings, NoLoops
<1> QED
  BY <1>1, <1>5, <1>6 DEF Tree

LEMMA FreedKeeps ==
    ASSUME NEW h, Tree(h), NEW n \in Node, h[n].parent = NULL, h[n].first = NULL
    PROVE  Tree([h EXCEPT ![n] = Zeroes])
<1> DEFINE g == [h EXCEPT ![n] = Zeroes]
<1>1. h \in Heaps /\ n # NULL /\ \A k \in Node : Agrees(h, k)
  BY Null DEF Tree
<1>2. g \in Heaps /\ g[n] = Zeroes /\ \A k \in Node \ {n} : g[k] = h[k]
  BY <1>1, ZeroesAre DEF Heaps
<1>3. \A k \in Node : /\ h[k].parent # n /\ h[k].first # n /\ h[k].last # n
                      /\ h[k].prev # n /\ h[k].next # n
  <2>1. Below(h, n) = {}
    <3>1. Leads(h, n, {})
      BY DEF Leads
    <3> QED
      BY <3>1, BelowLeast
  <2>2. \A k \in Node : h[k].parent # n
    BY <2>1, BelowIs DEF Subtree
  <2>3. h[n].prev = NULL /\ h[n].next = NULL
    BY <1>1 DEF Agrees
  <2>4. ASSUME NEW k \in Node
        PROVE  h[k].first # n /\ h[k].last # n /\ h[k].prev # n /\ h[k].next # n
    <3>1. Agrees(h, k) /\ k # NULL
      BY <1>1, Null
    <3> QED
      BY <1>1, <2>3, <3>1 DEF Agrees
  <2> QED
    BY <2>2, <2>4
<1> HIDE DEF g
<1>4. ASSUME NEW k \in Node PROVE Agrees(g, k)
  <2>1. CASE k = n
    BY <1>2, <2>1, ZeroesAgree
  <2>2. CASE k # n
    <3>1. Agrees(h, k) /\ g[k] = h[k]
      BY <1>1, <1>2, <2>2
    <3>2. /\ h[k].next # NULL => g[h[k].next] = h[h[k].next]
          /\ h[k].prev # NULL => g[h[k].prev] = h[h[k].prev]
          /\ h[k].first # NULL => g[h[k].first] = h[h[k].first]
          /\ h[k].last # NULL => g[h[k].last] = h[h[k].last]
          /\ h[k].parent # NULL => g[h[k].parent] = h[h[k].parent]
      BY <1>1, <1>2, <1>3, Fields DEF Place
    <3> QED
      BY <3>1, <3>2 DEF Agrees
  <2> QED
    BY <2>1, <2>2
<1>5. NoRings(g) /\ NoLoops(g)
  <2>1. \A k \in Node : /\ g[k].prev \in {h[k].prev, NULL}
                        /\ g[k].parent \in {h[k].parent, NULL}
    BY <1>2, ZeroesAre
  <2>2. \A C \in SUBSET Node : NULL \notin C
    BY Null
  <2> QED
    BY <2>1, <2>2 DEF Tree, NoRings, NoLoops
<1>6. Tree(g)
  BY <1>2, <1>4, <1>5 DEF Tree
<1> QED
  BY <1>6 DEF g
-----------------------------------------------------------------------------
(* Memory that is taken.                                                   *)
LEMMA NewKeeps ==
    ASSUME NEW h, Tree(h), NEW n \in Fresh(h), NEW label \in Label
    PROVE  Tree([h EXCEPT ![n] = NewNode(label)])
<1> DEFINE g == [h EXCEPT ![n] = NewNode(label)]
           z == NewNode(label)
<1>1. h \in Heaps /\ n \in Node /\ n # NULL /\ \A k \in Node : Agrees(h, k)
  BY Null DEF Tree, Fresh
<1>2. /\ z \in Content /\ z.label = label /\ z.parent = NULL /\ z.first = NULL
      /\ z.last = NULL /\ z.prev = NULL /\ z.next = NULL /\ label # Free
  BY Null DEF NewNode, Content, Place
<1>3. h[n] = Zeroes /\ h[n].label = Free
  BY <1>1 DEF Fresh, Live, Agrees
<1> HIDE DEF z
<1>4. g \in Heaps /\ g[n] = z /\ \A k \in Node \ {n} : g[k] = h[k]
  BY <1>1, <1>2 DEF Heaps, z
<1> HIDE DEF g
<1>5. \A k \in Node : g[k].label = Free => h[k].label = Free
  BY <1>3, <1>4
<1>6. ASSUME NEW k \in Node PROVE Agrees(g, k)
  <2>1. CASE k = n
    BY <1>2, <1>4, <2>1 DEF Agrees
  <2>2. CASE k # n
    <3>1. Agrees(h, k) /\ g[k] = h[k]
      BY <1>1, <1>4, <2>2
    <3>2. /\ h[k].next # NULL => g[h[k].next] = h[h[k].next]
          /\ h[k].prev # NULL => g[h[k].prev] = h[h[k].prev]
          /\ h[k].first # NULL => g[h[k].first] = h[h[k].first]
          /\ h[k].last # NULL => g[h[k].last] = h[h[k].last]
          /\ h[k].parent # NULL => g[h[k].parent] = h[h[k].parent]
      BY <1>1, <1>3, <1>4, <3>1, Fields DEF Place, Agrees
    <3> QED
      BY <3>1, <3>2 DEF Agrees
  <2> QED
    BY <2>1, <2>2
<1>7. NoRings(g) /\ NoLoops(g)
  <2>1. \A k \in Node : g[k].prev = h[k].prev /\ g[k].parent = h[k].parent
    BY <1>2, <1>3, <1>4, ZeroesAre
  <2> QED
    BY <2>1 DEF Tree, NoRings, NoLoops
<1>8. Tree(g)
  BY <1>4, <1>6, <1>7 DEF Tree
<1> QED
  BY <1>8 DEF g, z

(* A subtree is copied to the nodes that c says, its top has no parent.    *)
CopyMap(h, n, c) ==
    /\ c \in [Subtree(h, n) -> Fresh(h)]
    /\ \A a, b \in Subtree(h, n) : c[a] = c[b] => a = b

Toward(c, m)  == IF m \in DOMAIN c THEN c[m] ELSE NULL
Aside(c, o, n, m) == IF o = n THEN NULL ELSE Toward(c, m)

Copied(g, h, n, c) ==
    /\ g \in Heaps
    /\ \A k \in Node \ {c[o] : o \in Subtree(h, n)} : g[k] = h[k]
    /\ \A o \in Subtree(h, n) :
          /\ g[c[o]].label  = h[o].label
          /\ g[c[o]].parent = Aside(c, o, n, h[o].parent)
          /\ g[c[o]].first  = Toward(c, h[o].first)
          /\ g[c[o]].last   = Toward(c, h[o].last)
          /\ g[c[o]].prev   = Aside(c, o, n, h[o].prev)
          /\ g[c[o]].next   = Aside(c, o, n, h[o].next)

LEMMA CopyingIs ==
    ASSUME NEW h, Tree(h), NEW n \in Node, Room(h, n)
    PROVE  CopyMap(h, n, Copying(h, n))
<1> DEFINE S == Subtree(h, n)
           F == Fresh(h)
<1>1. IsFiniteSet(S) /\ IsFiniteSet(F)
  BY BelowIs, Null, FS_Subset DEF Subtree, Fresh, Live
<1>2. /\ Cardinality(S) \in Nat /\ Cardinality(F) \in Nat /\ Cardinality(S) <= Cardinality(F)
      /\ ExistsBijection(1 .. Cardinality(S), S) /\ ExistsBijection(1 .. Cardinality(F), F)
  BY <1>1, FS_CardinalityType DEF Room
<1> HIDE DEF S, F
<1>3. ExistsInjection(S, 1 .. Cardinality(S))
  BY <1>2, Fun_ExistsBijSymmetric, Fun_ExistsBijEquiv
<1>4. ExistsInjection(1 .. Cardinality(S), 1 .. Cardinality(F))
  BY <1>2, Fun_NatInjLeq
<1>5. ExistsInjection(1 .. Cardinality(F), F)
  BY <1>2, Fun_ExistsBijEquiv
<1>6. ExistsInjection(S, F)
  BY <1>3, <1>4, <1>5, Fun_ExistsInjTransitive
<1>7. \E c \in [S -> F] : \A a, b \in DOMAIN c : c[a] = c[b] => a = b
  BY <1>6 DEF ExistsInjection, Injection, IsInjective
<1> DEFINE d == CHOOSE c \in [S -> F] : \A a, b \in DOMAIN c : c[a] = c[b] => a = b
<1>8. d \in [S -> F] /\ \A a, b \in DOMAIN d : d[a] = d[b] => a = b
  BY <1>7, Zenon
<1>9. d = Copying(h, n)
  BY DEF Copying, S, F
<1> HIDE DEF d
<1>10. d \in [S -> F] /\ \A a, b \in S : d[a] = d[b] => a = b
  BY <1>8
<1> QED
  BY <1>9, <1>10 DEF CopyMap, S, F

LEMMA ClonedIs ==
    ASSUME NEW h, Tree(h), NEW n \in Live(h), NEW c, CopyMap(h, n, c)
    PROVE  Copied(Cloned(h, n, c), h, n, c)
<1> DEFINE S == Subtree(h, n)
           R == {c[o] : o \in S}
           Of(m) == CHOOSE a \in DOMAIN c : c[a] = m
           Copy(o) == [label |-> h[o].label, first |-> Toward(c, h[o].first),
                       last |-> Toward(c, h[o].last),
                       parent |-> Aside(c, o, n, h[o].parent),
                       prev |-> Aside(c, o, n, h[o].prev),
                       next |-> Aside(c, o, n, h[o].next)]
<1>1. h \in Heaps /\ S \in SUBSET Node /\ DOMAIN c = S /\ \A o \in S : c[o] \in Node
  BY BelowIs DEF Tree, CopyMap, Subtree, Live, Fresh
<1>2. Range(c) = R
  BY <1>1 DEF Range
<1>3. Cloned(h, n, c) = [m \in Node |-> IF m \in R THEN Copy(Of(m)) ELSE h[m]]
  BY <1>2 DEF Cloned, Toward, Aside
<1>4. \A o \in S : Of(c[o]) = o
  BY <1>1 DEF CopyMap
<1>5. ASSUME NEW o \in S PROVE Copy(o) \in Content
  <2>1. \A m : Toward(c, m) \in Place
    BY <1>1, Null DEF Toward, Place
  <2>2. \A m : Aside(c, o, n, m) \in Place
    BY <2>1, Null DEF Aside, Place
  <2>3. h[o].label \in Label \union {Free}
    BY <1>1, Fields
  <2> QED
    BY <2>1, <2>2, <2>3 DEF Content
<1> DEFINE g == [m \in Node |-> IF m \in R THEN Copy(Of(m)) ELSE h[m]]
<1>6. \A o \in S : g[c[o]] = Copy(o)
  <2>1. ASSUME NEW o \in S PROVE g[c[o]] = Copy(o)
    <3>1. c[o] \in Node /\ c[o] \in R /\ Of(c[o]) = o
      BY <1>1, <1>4
    <3> HIDE DEF R, Of, Copy, S
    <3> QED
      BY <3>1
  <2> QED
    BY <2>1
<1>7. g \in Heaps
  <2>1. ASSUME NEW m \in Node PROVE (IF m \in R THEN Copy(Of(m)) ELSE h[m]) \in Content
    <3>1. CASE m \in R
      <4>1. PICK o \in S : m = c[o]
        BY <3>1
      <4>2. Of(m) = o /\ Copy(o) \in Content
        BY <1>4, <1>5, <4>1
      <4> HIDE DEF Copy, Of
      <4> QED
        BY <3>1, <4>2
    <3>2. CASE m \notin R
      BY <1>1, <3>2, Fields
    <3> QED
      BY <3>1, <3>2
  <2> HIDE DEF Copy, Of, R
  <2> QED
    BY <2>1 DEF Heaps
<1>8. \A k \in Node \ R : g[k] = h[k]
  OBVIOUS
<1> HIDE DEF g, Of, R
<1>9. ASSUME NEW o \in S
      PROVE  /\ g[c[o]].label  = h[o].label
             /\ g[c[o]].parent = Aside(c, o, n, h[o].parent)
             /\ g[c[o]].first  = Toward(c, h[o].first)
             /\ g[c[o]].last   = Toward(c, h[o].last)
             /\ g[c[o]].prev   = Aside(c, o, n, h[o].prev)
             /\ g[c[o]].next   = Aside(c, o, n, h[o].next)
  <2> HIDE DEF S
  <2>1. g[c[o]] = Copy(o)
    BY <1>6
  <2> DEFINE e == g[c[o]]
  <2>2. e = Copy(o)
    BY <2>1
  <2> HIDE DEF e
  <2>3. /\ e.label  = h[o].label
        /\ e.parent = Aside(c, o, n, h[o].parent)
        /\ e.first  = Toward(c, h[o].first)
        /\ e.last   = Toward(c, h[o].last)
        /\ e.prev   = Aside(c, o, n, h[o].prev)
        /\ e.next   = Aside(c, o, n, h[o].next)
    BY <2>2
  <2> QED
    BY <2>3 DEF e
<1>10. Copied(g, h, n, c)
  BY <1>7, <1>8, <1>9 DEF Copied, R
<1> QED
  BY <1>3, <1>10 DEF g

LEMMA CopyKeeps ==
    ASSUME NEW h, Tree(h), NEW n \in Live(h), NEW c, CopyMap(h, n, c),
           NEW g, Copied(g, h, n, c)
    PROVE  /\ Tree(g) /\ c[n] \in Fresh(h)
           /\ g[c[n]].parent = NULL /\ g[c[n]].label = h[n].label
           /\ Subtree(g, c[n]) \subseteq Fresh(h)
           /\ \A k \in Live(h) : g[k] = h[k]
<1> DEFINE S == Subtree(h, n)
           R == {c[o] : o \in S}
<1>1. /\ h \in Heaps /\ g \in Heaps /\ n \in Node /\ n \in S /\ S \in SUBSET Live(h)
      /\ R \in SUBSET Fresh(h) /\ \A k \in Node : Agrees(h, k)
      /\ \A a, b \in S : c[a] = c[b] => a = b
      /\ DOMAIN c = S /\ \A o \in S : c[o] \in R
  BY BelowIs DEF Tree, Copied, CopyMap, Subtree, Live
<1>2. \A o \in S : /\ c[o] \in Node /\ c[o] # NULL /\ o \in Node /\ o # NULL
                   /\ h[c[o]].label = Free /\ h[o].label # Free
  BY <1>1, Null DEF Fresh, Live
<1>3. \A k \in Node \ R : /\ g[k] = h[k]
                          /\ h[k].parent \notin R /\ h[k].first \notin R /\ h[k].last \notin R
                          /\ h[k].prev \notin R /\ h[k].next \notin R
  <2>1. ASSUME NEW k \in Node \ R, NEW r \in R
        PROVE  r # NULL /\ r \in Node /\ h[r].label = Free /\ Agrees(h, k)
    BY <1>1, <1>2
  <2> QED
    BY <2>1 DEF Agrees, Copied
<1>4. \A o \in S :
        /\ o # n => h[o].parent \in S
        /\ h[o].first # NULL => h[o].first \in S \ {n}
        /\ h[o].last # NULL => h[o].last \in S \ {n}
        /\ o # n /\ h[o].prev # NULL => h[o].prev \in S \ {n}
        /\ o # n /\ h[o].next # NULL => h[o].next \in S \ {n}
  BY <1>1, BelowIs, BelowClosed, NotBelow DEF Subtree, Live
<1>5. \A o \in S :
          /\ g[c[o]].label  = h[o].label
          /\ g[c[o]].parent = IF o = n THEN NULL ELSE c[h[o].parent]
          /\ g[c[o]].first  = IF h[o].first = NULL THEN NULL ELSE c[h[o].first]
          /\ g[c[o]].last   = IF h[o].last = NULL THEN NULL ELSE c[h[o].last]
          /\ g[c[o]].prev   = IF o = n \/ h[o].prev = NULL THEN NULL ELSE c[h[o].prev]
          /\ g[c[o]].next   = IF o = n \/ h[o].next = NULL THEN NULL ELSE c[h[o].next]
  BY <1>1, <1>2, <1>4 DEF Copied, Toward, Aside
<1> HIDE DEF S, R
<1>6. ASSUME NEW o \in S PROVE Agrees(g, c[o])
  <2>1. Agrees(h, o) /\ c[o] \in Node
    BY <1>1, <1>2
  <2>2. g[c[o]].label # Free /\ (g[c[o]].label = Document => g[c[o]].parent = NULL)
    BY <1>2, <1>4, <1>5, <2>1 DEF Agrees
  <2>3. /\ g[c[o]].parent # NULL => g[g[c[o]].parent].label # Free
        /\ g[c[o]].first # NULL => g[g[c[o]].first].label # Free
        /\ g[c[o]].last # NULL => g[g[c[o]].last].label # Free
        /\ g[c[o]].prev # NULL => g[g[c[o]].prev].label # Free
        /\ g[c[o]].next # NULL => g[g[c[o]].next].label # Free
    <3>1. \A a \in S : g[c[a]].label # Free
      BY <1>2, <1>5
    <3>2. \A v \in {g[c[o]].parent, g[c[o]].first, g[c[o]].last, g[c[o]].prev, g[c[o]].next} :
             v = NULL \/ \E a \in S : v = c[a]
      BY <1>4, <1>5
    <3> QED
      BY <3>1, <3>2
  <2>4. /\ g[c[o]].next # NULL => /\ g[g[c[o]].next].prev = c[o]
                                  /\ g[g[c[o]].next].parent = g[c[o]].parent
        /\ g[c[o]].prev # NULL => /\ g[g[c[o]].prev].next = c[o]
                                  /\ g[g[c[o]].prev].parent = g[c[o]].parent
    BY <1>2, <1>4, <1>5, <2>1 DEF Agrees
  <2>5. /\ g[c[o]].first # NULL => /\ g[g[c[o]].first].parent = c[o]
                                   /\ g[g[c[o]].first].prev = NULL
        /\ g[c[o]].last # NULL => /\ g[g[c[o]].last].parent = c[o]
                                  /\ g[g[c[o]].last].next = NULL
        /\ g[c[o]].first = NULL <=> g[c[o]].last = NULL
    BY <1>2, <1>4, <1>5, <2>1 DEF Agrees
  <2>6. g[c[o]].parent # NULL => /\ g[c[o]].prev = NULL => g[g[c[o]].parent].first = c[o]
                                 /\ g[c[o]].next = NULL => g[g[c[o]].parent].last = c[o]
    BY <1>2, <1>4, <1>5, <2>1 DEF Agrees
  <2>7. g[c[o]].parent = NULL => g[c[o]].prev = NULL /\ g[c[o]].next = NULL
    BY <1>2, <1>4, <1>5, <2>1 DEF Agrees
  <2> QED
    BY <2>2, <2>3, <2>4, <2>5, <2>6, <2>7 DEF Agrees
<1>7. ASSUME NEW k \in Node PROVE Agrees(g, k)
  <2>1. CASE k \in R
    BY <1>6, <2>1 DEF R
  <2>2. CASE k \notin R
    <3>1. Agrees(h, k) /\ g[k] = h[k]
      BY <1>1, <1>3, <2>2
    <3>2. /\ h[k].next # NULL => g[h[k].next] = h[h[k].next]
          /\ h[k].prev # NULL => g[h[k].prev] = h[h[k].prev]
          /\ h[k].first # NULL => g[h[k].first] = h[h[k].first]
          /\ h[k].last # NULL => g[h[k].last] = h[h[k].last]
          /\ h[k].parent # NULL => g[h[k].parent] = h[h[k].parent]
      BY <1>1, <1>3, <2>2, Fields DEF Place
    <3> QED
      BY <3>1, <3>2 DEF Agrees
  <2> QED
    BY <2>1, <2>2
<1>8. ASSUME NEW C \in SUBSET Node, C # {}
      PROVE  (\E k \in C : g[k].prev \notin C) /\ (\E k \in C : g[k].parent \notin C)
  <2> DEFINE D == {o \in S : c[o] \in C}
  <2>1. NULL \notin C /\ D \in SUBSET Node
    BY <1>2, Null
  <2>2. CASE D = {}
    <3>1. \A k \in C : k \notin R
      BY <2>2 DEF R
    <3>2. \A k \in C : g[k].prev = h[k].prev /\ g[k].parent = h[k].parent
      BY <1>3, <3>1
    <3>3. PICK o \in C : h[o].prev \notin C
      BY <1>8 DEF Tree, NoRings
    <3>4. PICK q \in C : h[q].parent \notin C
      BY <1>8 DEF Tree, NoLoops
    <3> QED
      BY <3>2, <3>3, <3>4
  <2>3. CASE D # {}
    <3>1. PICK o \in D : h[o].prev \notin D
      BY <2>1, <2>3 DEF Tree, NoRings
    <3>2. PICK q \in D : h[q].parent \notin D
      BY <2>1, <2>3 DEF Tree, NoLoops
    <3>3. g[c[o]].prev \notin C
      BY <1>4, <1>5, <2>1, <3>1
    <3>4. g[c[q]].parent \notin C
      BY <1>4, <1>5, <2>1, <3>2
    <3> QED
      BY <3>1, <3>2, <3>3, <3>4
  <2> QED
    BY <2>2, <2>3
<1>9. Tree(g)
  BY <1>1, <1>7, <1>8 DEF Tree, NoRings, NoLoops
<1>10. Subtree(g, c[n]) \subseteq R
  <2>1. Leads(g, c[n], R)
    <3>1. \A k \in R : g[k].first \in R \union {NULL} /\ g[k].next \in R \union {NULL}
      BY <1>4, <1>5 DEF R
    <3> QED
      BY <1>1, <3>1 DEF Leads
  <2>2. c[n] \in R /\ c[n] \in Node /\ R \in SUBSET Node
    BY <1>1, <1>2 DEF R
  <2> QED
    BY <2>1, <2>2, BelowLeast DEF Subtree
<1>11. \A k \in Live(h) : k \in Node \ R
  BY <1>1 DEF Fresh, Live
<1> QED
  BY <1>1, <1>3, <1>5, <1>9, <1>10, <1>11
-----------------------------------------------------------------------------
(* What the assignments of the code do to memory.                          *)

SetParentIs(g, h, n, m) ==
    /\ g \in Heaps
    /\ \A k \in Node :
          /\ g[k].label  = h[k].label
          /\ g[k].parent = IF k = n THEN m ELSE h[k].parent
          /\ g[k].first  = h[k].first
          /\ g[k].last   = h[k].last
          /\ g[k].prev   = h[k].prev
          /\ g[k].next   = h[k].next
LEMMA SetParentDoes ==
    ASSUME NEW h \in Heaps, NEW n \in Node, NEW m \in Place
    PROVE  SetParentIs(SetParent(h, n, m), h, n, m)
<1>1. SetParent(h, n, m) = [h EXCEPT ![n].parent = m]
  BY Null DEF SetParent
<1> QED
  BY <1>1 DEF SetParentIs, Heaps, Content

SetFirstIs(g, h, n, m) ==
    /\ g \in Heaps
    /\ \A k \in Node :
          /\ g[k].label  = h[k].label
          /\ g[k].parent = h[k].parent
          /\ g[k].first  = IF k = n THEN m ELSE h[k].first
          /\ g[k].last   = h[k].last
          /\ g[k].prev   = h[k].prev
          /\ g[k].next   = h[k].next
LEMMA SetFirstDoes ==
    ASSUME NEW h \in Heaps, NEW n \in Node, NEW m \in Place
    PROVE  SetFirstIs(SetFirst(h, n, m), h, n, m)
<1>1. SetFirst(h, n, m) = [h EXCEPT ![n].first = m]
  BY Null DEF SetFirst
<1> QED
  BY <1>1 DEF SetFirstIs, Heaps, Content

SetLastIs(g, h, n, m) ==
    /\ g \in Heaps
    /\ \A k \in Node :
          /\ g[k].label  = h[k].label
          /\ g[k].parent = h[k].parent
          /\ g[k].first  = h[k].first
          /\ g[k].last   = IF k = n THEN m ELSE h[k].last
          /\ g[k].prev   = h[k].prev
          /\ g[k].next   = h[k].next
LEMMA SetLastDoes ==
    ASSUME NEW h \in Heaps, NEW n \in Node, NEW m \in Place
    PROVE  SetLastIs(SetLast(h, n, m), h, n, m)
<1>1. SetLast(h, n, m) = [h EXCEPT ![n].last = m]
  BY Null DEF SetLast
<1> QED
  BY <1>1 DEF SetLastIs, Heaps, Content

SetPrevIs(g, h, n, m) ==
    /\ g \in Heaps
    /\ \A k \in Node :
          /\ g[k].label  = h[k].label
          /\ g[k].parent = h[k].parent
          /\ g[k].first  = h[k].first
          /\ g[k].last   = h[k].last
          /\ g[k].prev   = IF k = n THEN m ELSE h[k].prev
          /\ g[k].next   = h[k].next
LEMMA SetPrevDoes ==
    ASSUME NEW h \in Heaps, NEW n \in Node, NEW m \in Place
    PROVE  SetPrevIs(SetPrev(h, n, m), h, n, m)
<1>1. SetPrev(h, n, m) = [h EXCEPT ![n].prev = m]
  BY Null DEF SetPrev
<1> QED
  BY <1>1 DEF SetPrevIs, Heaps, Content

SetNextIs(g, h, n, m) ==
    /\ g \in Heaps
    /\ \A k \in Node :
          /\ g[k].label  = h[k].label
          /\ g[k].parent = h[k].parent
          /\ g[k].first  = h[k].first
          /\ g[k].last   = h[k].last
          /\ g[k].prev   = h[k].prev
          /\ g[k].next   = IF k = n THEN m ELSE h[k].next
LEMMA SetNextDoes ==
    ASSUME NEW h \in Heaps, NEW n \in Node, NEW m \in Place
    PROVE  SetNextIs(SetNext(h, n, m), h, n, m)
<1>1. SetNext(h, n, m) = [h EXCEPT ![n].next = m]
  BY Null DEF SetNext
<1> QED
  BY <1>1 DEF SetNextIs, Heaps, Content

(* A node without a parent that is no document and not above p.            *)
Root(h, p, m) ==
    /\ m \in Node /\ p \in Node
    /\ h[m].parent = NULL /\ h[m].label \notin {Free, Document} /\ h[p].label # Free
    /\ p \notin Subtree(h, m)

LEMMA LinkedDoes ==
    ASSUME NEW h, Tree(h), NEW p, NEW m, Root(h, p, m)
    PROVE  Gap(h, p, h[p].last, NULL) /\ Put(Linked(h, p, m), h, p, h[p].last, m, NULL)
<1> DEFINE x == h[p].last
           h1 == SetParent(h, m, p)
           h2 == SetPrev(h1, m, x)
           h3 == SetNext(h2, m, NULL)
           h4 == IF x # NULL THEN SetNext(h3, x, m) ELSE SetFirst(h3, p, m)
           h5 == SetLast(h4, p, m)
<1>1. /\ h \in Heaps /\ m \in Node /\ p \in Node /\ x \in Place /\ NULL \in Place
      /\ p \in Place /\ m \in Place /\ m # NULL /\ p # NULL /\ p # m
  BY Fields, Null DEF Tree, Root, Place, Subtree
<1>2. /\ x # NULL => x \in Node /\ h[x].parent = p /\ h[x].next = NULL
      /\ x = NULL => h[p].first = NULL
      /\ x # m
  BY <1>1 DEF Tree, Agrees, Place, Root
<1>3. Linked(h, p, m) = h5
  BY DEF Linked
<1> HIDE DEF x
<1>4. SetParentIs(h1, h, m, p)
  BY <1>1, SetParentDoes
<1> HIDE DEF h1
<1>5. SetPrevIs(h2, h1, m, x)
  BY <1>1, <1>4, SetPrevDoes DEF SetParentIs
<1> HIDE DEF h2
<1>6. SetNextIs(h3, h2, m, NULL)
  BY <1>1, <1>5, SetNextDoes DEF SetPrevIs
<1> HIDE DEF h3
<1>7. IF x # NULL THEN SetNextIs(h4, h3, x, m) ELSE SetFirstIs(h4, h3, p, m)
  BY <1>1, <1>2, <1>6, SetNextDoes, SetFirstDoes DEF SetNextIs
<1> HIDE DEF h4
<1>8. SetLastIs(h5, h4, p, m)
  BY <1>1, <1>7, SetLastDoes DEF SetNextIs, SetFirstIs
<1> HIDE DEF h5
<1>9. ASSUME NEW k \in Node
      PROVE  /\ h5[k].label  = h[k].label
             /\ h5[k].parent = IF k = m THEN p ELSE h[k].parent
             /\ h5[k].first  = IF k = p /\ x = NULL THEN m ELSE h[k].first
             /\ h5[k].last   = IF k = p /\ NULL = NULL THEN m ELSE h[k].last
             /\ h5[k].prev   = IF k = m THEN x ELSE IF k = NULL THEN m ELSE h[k].prev
             /\ h5[k].next   = IF k = m THEN NULL ELSE IF k = x THEN m ELSE h[k].next
  <2>1. /\ h3[k].label  = h[k].label
        /\ h3[k].parent = IF k = m THEN p ELSE h[k].parent
        /\ h3[k].first  = h[k].first
        /\ h3[k].last   = h[k].last
        /\ h3[k].prev   = IF k = m THEN x ELSE h[k].prev
        /\ h3[k].next   = IF k = m THEN NULL ELSE h[k].next
    BY <1>4, <1>5, <1>6 DEF SetParentIs, SetPrevIs, SetNextIs
  <2>2. CASE x = NULL
    BY <1>1, <1>2, <1>7, <1>8, <2>1, <2>2, Null DEF SetFirstIs, SetLastIs
  <2>3. CASE x # NULL
    BY <1>1, <1>2, <1>7, <1>8, <2>1, <2>3, Null DEF SetNextIs, SetLastIs
  <2> QED
    BY <2>2, <2>3
<1>10. Put(h5, h, p, x, m, NULL)
  BY <1>8, <1>9 DEF Put, SetLastIs
<1>11. Gap(h, p, x, NULL)
  BY <1>1, <1>2 DEF Gap, x
<1> QED
  BY <1>3, <1>10, <1>11 DEF x

LEMMA PrecedeDoes ==
    ASSUME NEW h \in Heaps, NEW p \in Node, NEW n \in Node, NEW m \in Place
    PROVE  IF h[n].prev # NULL THEN SetNextIs(Precede(h, p, n, m), h, h[n].prev, m)
           ELSE SetFirstIs(Precede(h, p, n, m), h, p, m)
<1>1. h[n].prev # NULL => h[n].prev \in Node
  BY Fields DEF Place
<1> QED
  BY <1>1, SetNextDoes, SetFirstDoes DEF Precede

LEMMA FollowDoes ==
    ASSUME NEW h \in Heaps, NEW p \in Node, NEW n \in Node, NEW m \in Place
    PROVE  IF h[n].next # NULL THEN SetPrevIs(Follow(h, p, n, m), h, h[n].next, m)
           ELSE SetLastIs(Follow(h, p, n, m), h, p, m)
<1>1. h[n].next # NULL => h[n].next \in Node
  BY Fields DEF Place
<1> QED
  BY <1>1, SetPrevDoes, SetLastDoes DEF Follow

LEMMA BeforeDoes ==
    ASSUME NEW h, Tree(h), NEW p, NEW m, Root(h, p, m), NEW b, Child(h, p, b)
    PROVE  /\ Gap(h, p, h[b].prev, b)
           /\ Put(InsertedBefore(h, p, b, m), h, p, h[b].prev, m, b)
<1> DEFINE x == h[b].prev
           h1 == SetParent(h, m, p)
           h2 == SetNext(h1, m, b)
           h3 == SetPrev(h2, m, x)
           h4 == Precede(h3, p, b, m)
           h5 == SetPrev(h4, b, m)
<1>1. /\ h \in Heaps /\ m \in Node /\ p \in Node /\ b \in Node /\ h[b].parent = p
      /\ x \in Place /\ p \in Place /\ m \in Place /\ b \in Place
      /\ m # NULL /\ p # NULL /\ b # NULL /\ p # m /\ m # b
  BY Fields, Null DEF Tree, Root, Place, Subtree, Child
<1>2. /\ x # NULL => x \in Node /\ h[x].parent = p /\ h[x].next = b
      /\ x = NULL => h[p].first = b
      /\ x # b /\ x # m
  BY <1>1, ChildPlace DEF Place, Root
<1>3. InsertedBefore(h, p, b, m) = h5
  BY DEF InsertedBefore
<1>4. Gap(h, p, x, b)
  BY <1>1, <1>2 DEF Gap
<1> HIDE DEF x
<1>5. SetParentIs(h1, h, m, p)
  BY <1>1, SetParentDoes
<1> HIDE DEF h1
<1>6. SetNextIs(h2, h1, m, b)
  BY <1>1, <1>5, SetNextDoes DEF SetParentIs
<1> HIDE DEF h2
<1>7. SetPrevIs(h3, h2, m, x)
  BY <1>1, <1>6, SetPrevDoes DEF SetNextIs
<1> HIDE DEF h3
<1>8. h3 \in Heaps /\ h3[b].prev = x
  BY <1>1, <1>5, <1>6, <1>7 DEF SetParentIs, SetNextIs, SetPrevIs, x
<1>9. IF x # NULL THEN SetNextIs(h4, h3, x, m) ELSE SetFirstIs(h4, h3, p, m)
  BY <1>1, <1>8, PrecedeDoes
<1> HIDE DEF h4
<1>10. SetPrevIs(h5, h4, b, m)
  BY <1>1, <1>9, SetPrevDoes DEF SetNextIs, SetFirstIs
<1> HIDE DEF h5
<1>11. ASSUME NEW k \in Node
      PROVE  /\ h5[k].label  = h[k].label
             /\ h5[k].parent = IF k = m THEN p ELSE h[k].parent
             /\ h5[k].first  = IF k = p /\ x = NULL THEN m ELSE h[k].first
             /\ h5[k].last   = IF k = p /\ b = NULL THEN m ELSE h[k].last
             /\ h5[k].prev   = IF k = m THEN x ELSE IF k = b THEN m ELSE h[k].prev
             /\ h5[k].next   = IF k = m THEN b ELSE IF k = x THEN m ELSE h[k].next
  <2>1. /\ h3[k].label  = h[k].label
        /\ h3[k].parent = IF k = m THEN p ELSE h[k].parent
        /\ h3[k].first  = h[k].first
        /\ h3[k].last   = h[k].last
        /\ h3[k].prev   = IF k = m THEN x ELSE h[k].prev
        /\ h3[k].next   = IF k = m THEN b ELSE h[k].next
    BY <1>5, <1>6, <1>7 DEF SetParentIs, SetPrevIs, SetNextIs
  <2>2. CASE x = NULL
    BY <1>1, <1>2, <1>9, <1>10, <2>1, <2>2, Null DEF SetFirstIs, SetPrevIs
  <2>3. CASE x # NULL
    BY <1>1, <1>2, <1>9, <1>10, <2>1, <2>3, Null DEF SetNextIs, SetPrevIs
  <2> QED
    BY <2>2, <2>3
<1>12. Put(h5, h, p, x, m, b)
  BY <1>10, <1>11 DEF Put, SetPrevIs
<1> QED
  BY <1>3, <1>4, <1>12 DEF x

LEMMA AfterDoes ==
    ASSUME NEW h, Tree(h), NEW p, NEW m, Root(h, p, m), NEW a, Child(h, p, a)
    PROVE  /\ Gap(h, p, a, h[a].next)
           /\ Put(InsertedAfter(h, p, a, m), h, p, a, m, h[a].next)
<1> DEFINE y == h[a].next
           h1 == SetParent(h, m, p)
           h2 == SetPrev(h1, m, a)
           h3 == SetNext(h2, m, y)
           h4 == Follow(h3, p, a, m)
           h5 == SetNext(h4, a, m)
<1>1. /\ h \in Heaps /\ m \in Node /\ p \in Node /\ a \in Node /\ h[a].parent = p
      /\ y \in Place /\ p \in Place /\ m \in Place /\ a \in Place
      /\ m # NULL /\ p # NULL /\ a # NULL /\ p # m /\ m # a
  BY Fields, Null DEF Tree, Root, Place, Subtree, Child
<1>2. /\ y # NULL => y \in Node /\ h[y].parent = p /\ h[y].prev = a
      /\ y = NULL => h[p].last = a
      /\ y # a /\ y # m
  BY <1>1, ChildPlace DEF Place, Root
<1>3. InsertedAfter(h, p, a, m) = h5
  BY DEF InsertedAfter
<1>4. Gap(h, p, a, y)
  BY <1>1, <1>2 DEF Gap
<1> HIDE DEF y
<1>5. SetParentIs(h1, h, m, p)
  BY <1>1, SetParentDoes
<1> HIDE DEF h1
<1>6. SetPrevIs(h2, h1, m, a)
  BY <1>1, <1>5, SetPrevDoes DEF SetParentIs
<1> HIDE DEF h2
<1>7. SetNextIs(h3, h2, m, y)
  BY <1>1, <1>6, SetNextDoes DEF SetPrevIs
<1> HIDE DEF h3
<1>8. h3 \in Heaps /\ h3[a].next = y
  BY <1>1, <1>5, <1>6, <1>7 DEF SetParentIs, SetNextIs, SetPrevIs, y
<1>9. IF y # NULL THEN SetPrevIs(h4, h3, y, m) ELSE SetLastIs(h4, h3, p, m)
  BY <1>1, <1>8, FollowDoes
<1> HIDE DEF h4
<1>10. SetNextIs(h5, h4, a, m)
  BY <1>1, <1>9, SetNextDoes DEF SetPrevIs, SetLastIs
<1> HIDE DEF h5
<1>11. ASSUME NEW k \in Node
      PROVE  /\ h5[k].label  = h[k].label
             /\ h5[k].parent = IF k = m THEN p ELSE h[k].parent
             /\ h5[k].first  = IF k = p /\ a = NULL THEN m ELSE h[k].first
             /\ h5[k].last   = IF k = p /\ y = NULL THEN m ELSE h[k].last
             /\ h5[k].prev   = IF k = m THEN a ELSE IF k = y THEN m ELSE h[k].prev
             /\ h5[k].next   = IF k = m THEN y ELSE IF k = a THEN m ELSE h[k].next
  <2>1. /\ h3[k].label  = h[k].label
        /\ h3[k].parent = IF k = m THEN p ELSE h[k].parent
        /\ h3[k].first  = h[k].first
        /\ h3[k].last   = h[k].last
        /\ h3[k].prev   = IF k = m THEN a ELSE h[k].prev
        /\ h3[k].next   = IF k = m THEN y ELSE h[k].next
    BY <1>5, <1>6, <1>7 DEF SetParentIs, SetPrevIs, SetNextIs
  <2>2. CASE y = NULL
    BY <1>1, <1>2, <1>9, <1>10, <2>1, <2>2, Null DEF SetLastIs, SetNextIs
  <2>3. CASE y # NULL
    BY <1>1, <1>2, <1>9, <1>10, <2>1, <2>3, Null DEF SetPrevIs, SetNextIs
  <2> QED
    BY <2>2, <2>3
<1>12. Put(h5, h, p, a, m, y)
  BY <1>10, <1>11 DEF Put, SetNextIs
<1> QED
  BY <1>3, <1>4, <1>12 DEF y
-----------------------------------------------------------------------------
(* Nodes that are deleted.                                                 *)
Docs(h) == {n \in Node : h[n].label = Document}

DeletedBelow(h, n) == Deleted([h EXCEPT ![n].first = NULL, ![n].last = NULL], Below(h, n))

LEMMA ClearedKeeps ==
    ASSUME NEW h, Tree(h), NEW n \in Node
    PROVE  /\ Emptied(DeletedBelow(h, n), h, n) /\ Tree(DeletedBelow(h, n))
           /\ Docs(h) \subseteq Docs(DeletedBelow(h, n))
<1> DEFINE h1 == [h EXCEPT ![n].first = NULL, ![n].last = NULL]
           g == DeletedBelow(h, n)
           B == Below(h, n)
<1>1. h \in Heaps /\ NULL \in Place
  BY DEF Tree, Place
<1>2. /\ h1 \in Heaps
      /\ \A k \in Node :
          /\ h1[k].label  = h[k].label
          /\ h1[k].parent = h[k].parent
          /\ h1[k].first  = IF k = n THEN NULL ELSE h[k].first
          /\ h1[k].last   = IF k = n THEN NULL ELSE h[k].last
          /\ h1[k].prev   = h[k].prev
          /\ h1[k].next   = h[k].next
  BY <1>1 DEF Heaps, Content
<1>3. g = [k \in Node |-> IF k \in B THEN Zeroes ELSE h1[k]]
  BY DEF DeletedBelow, Deleted
<1> HIDE DEF h1, g, B
<1>4. g \in Heaps /\ \A k \in Node : g[k] = IF k \in B THEN Zeroes ELSE h1[k]
  BY <1>2, <1>3, ZeroesAre DEF Heaps
<1>5. \A k \in B : k \in Node /\ h[k].parent # NULL
  BY BelowIs, Null DEF Subtree, B, Live
<1>6. Emptied(g, h, n)
  BY <1>2, <1>4, <1>5 DEF Emptied, B
<1>7. \A k \in Docs(h) : k \notin B /\ g[k].label = h[k].label
  BY <1>2, <1>4, <1>5 DEF Docs, Tree, Agrees
<1> QED
  BY <1>6, <1>7, EmptiedKeeps DEF Docs, g

LEMMA DeletedKeeps ==
    ASSUME NEW h, Tree(h), NEW n \in Node, h[n].parent = NULL
    PROVE  /\ Tree(Deleted(h, Subtree(h, n)))
           /\ Docs(h) \ {n} \subseteq Docs(Deleted(h, Subtree(h, n)))
<1> DEFINE g == DeletedBelow(h, n)
           h1 == [h EXCEPT ![n].first = NULL, ![n].last = NULL]
           f == [g EXCEPT ![n] = Zeroes]
<1>1. /\ Emptied(g, h, n) /\ Tree(g) /\ Docs(h) \subseteq Docs(g) /\ n \notin Below(h, n)
      /\ Below(h, n) \in SUBSET Node /\ h \in Heaps
  BY ClearedKeeps, NotBelow, BelowIs DEF Tree, Live
<1>2. g = [k \in Node |-> IF k \in Below(h, n) THEN Zeroes ELSE h1[k]]
  BY DEF DeletedBelow, Deleted
<1>3. f = [k \in Node |-> IF k \in Subtree(h, n) THEN Zeroes ELSE h[k]]
  <2>1. \A k \in Node \ {n} : h1[k] = h[k]
    BY <1>1 DEF Heaps
  <2> HIDE DEF h1, g
  <2> QED
    BY <1>1, <1>2, <2>1 DEF Subtree
<1>4. f = Deleted(h, Subtree(h, n))
  BY <1>3 DEF Deleted
<1> HIDE DEF g
<1>5. Tree(f)
  BY <1>1, FreedKeeps DEF Emptied
<1>6. Docs(g) \ {n} \subseteq Docs(f)
  BY <1>1 DEF Docs, Tree, Heaps
<1> QED
  BY <1>1, <1>4, <1>5, <1>6

(* What is below a node does not depend on its own siblings.               *)
LEMMA SameBelow ==
    ASSUME NEW h \in Heaps, NEW g, Tree(g), NEW o \in Node, g[o].next = NULL,
           \A k \in Node : g[k].first = h[k].first,
           \A k \in Node \ {o} : g[k].next = h[k].next
    PROVE  Subtree(h, o) = Subtree(g, o)
<1>1. /\ g \in Heaps /\ o \notin Below(g, o)
      /\ Below(g, o) \in SUBSET Node /\ Leads(g, o, Below(g, o))
      /\ Below(h, o) \in SUBSET Node /\ Leads(h, o, Below(h, o))
  BY BelowLeads, NotBelow DEF Tree
<1>2. Leads(h, o, Below(g, o))
  BY <1>1 DEF Leads
<1>3. Leads(g, o, Below(h, o))
  BY <1>1 DEF Leads
<1> QED
  BY <1>1, <1>2, <1>3, BelowLeast DEF Subtree

Alone(h, o) == SetNext(SetPrev(SetParent(h, o, NULL), o, NULL), o, NULL)

LEMMA AloneDoes ==
    ASSUME NEW h \in Heaps, NEW o \in Node
    PROVE  /\ Alone(h, o) \in Heaps
           /\ \A k \in Node :
                 LET g == Alone(h, o)
                 IN  /\ g[k].label = h[k].label /\ g[k].first = h[k].first
                     /\ g[k].last = h[k].last
                     /\ g[k].parent = IF k = o THEN NULL ELSE h[k].parent
                     /\ g[k].prev = IF k = o THEN NULL ELSE h[k].prev
                     /\ g[k].next = IF k = o THEN NULL ELSE h[k].next
<1> DEFINE h1 == SetParent(h, o, NULL)
           h2 == SetPrev(h1, o, NULL)
           h3 == SetNext(h2, o, NULL)
<1>1. NULL \in Place
  BY DEF Place
<1>2. SetParentIs(h1, h, o, NULL)
  BY <1>1, SetParentDoes
<1> HIDE DEF h1
<1>3. SetPrevIs(h2, h1, o, NULL)
  BY <1>1, <1>2, SetPrevDoes DEF SetParentIs
<1> HIDE DEF h2
<1>4. SetNextIs(h3, h2, o, NULL)
  BY <1>1, <1>3, SetNextDoes DEF SetPrevIs
<1> HIDE DEF h3
<1>5. Alone(h, o) = h3
  BY DEF Alone, h1, h2, h3
<1> QED
  BY <1>2, <1>3, <1>4, <1>5 DEF SetParentIs, SetPrevIs, SetNextIs

(* The neighbours of a child, or its parent, are told what comes instead.  *)
Told(h, p, o, m, n) == Precede(Follow(h, p, o, m), p, o, n)

ToldIs(g, h, p, x, y, m, n) ==
    /\ g \in Heaps
    /\ \A k \in Node :
          /\ g[k].label  = h[k].label
          /\ g[k].parent = h[k].parent
          /\ g[k].first  = IF k = p /\ x = NULL THEN n ELSE h[k].first
          /\ g[k].last   = IF k = p /\ y = NULL THEN m ELSE h[k].last
          /\ g[k].prev   = IF k = y THEN m ELSE h[k].prev
          /\ g[k].next   = IF k = x THEN n ELSE h[k].next

LEMMA ToldDoes ==
    ASSUME NEW h \in Heaps, NEW p \in Node, NEW o \in Node, NEW m \in Place, NEW n \in Place,
           h[o].prev # o, h[o].next # o
    PROVE  ToldIs(Told(h, p, o, m, n), h, p, h[o].prev, h[o].next, m, n)
<1> DEFINE x == h[o].prev
           y == h[o].next
           h1 == Follow(h, p, o, m)
           g == Precede(h1, p, o, n)
<1>1. IF y # NULL THEN SetPrevIs(h1, h, y, m) ELSE SetLastIs(h1, h, p, m)
  BY FollowDoes
<1> HIDE DEF h1
<1>2. h1 \in Heaps /\ h1[o].prev = x
  BY <1>1 DEF SetPrevIs, SetLastIs
<1>3. IF x # NULL THEN SetNextIs(g, h1, x, n) ELSE SetFirstIs(g, h1, p, n)
  BY <1>2, PrecedeDoes
<1> HIDE DEF g
<1>4. g \in Heaps
  BY <1>3 DEF SetNextIs, SetFirstIs
<1>5. ASSUME NEW k \in Node
      PROVE  /\ g[k].label  = h[k].label
             /\ g[k].parent = h[k].parent
             /\ g[k].first  = IF k = p /\ x = NULL THEN n ELSE h[k].first
             /\ g[k].last   = IF k = p /\ y = NULL THEN m ELSE h[k].last
             /\ g[k].prev   = IF k = y THEN m ELSE h[k].prev
             /\ g[k].next   = IF k = x THEN n ELSE h[k].next
  <2> HIDE DEF x, y
  <2>1. /\ h1[k].label = h[k].label /\ h1[k].parent = h[k].parent
        /\ h1[k].first = h[k].first /\ h1[k].next = h[k].next
        /\ h1[k].last = IF k = p /\ y = NULL THEN m ELSE h[k].last
        /\ h1[k].prev = IF k = y THEN m ELSE h[k].prev
    BY <1>1, Null DEF SetPrevIs, SetLastIs
  <2>2. /\ g[k].label = h1[k].label /\ g[k].parent = h1[k].parent
        /\ g[k].last = h1[k].last /\ g[k].prev = h1[k].prev
        /\ g[k].first = IF k = p /\ x = NULL THEN n ELSE h1[k].first
        /\ g[k].next = IF k = x THEN n ELSE h1[k].next
    BY <1>3, Null DEF SetNextIs, SetFirstIs
  <2> QED
    BY <2>1, <2>2
<1>6. g = Told(h, p, o, m, n)
  BY DEF Told, g, h1
<1>7. ToldIs(g, h, p, x, y, m, n)
  BY <1>4, <1>5 DEF ToldIs
<1> QED
  BY <1>6, <1>7

(* What a client takes out of a tree is a tree by itself.                  *)
LEMMA OutDoes ==
    ASSUME NEW h, Tree(h), NEW p, NEW o, Child(h, p, o)
    PROVE  LET g == Alone(Told(h, p, o, h[o].prev, h[o].next), o)
           IN  TakenOut(g, h, p, h[o].prev, o, h[o].next) /\ Tree(g)
<1> DEFINE x == h[o].prev
           y == h[o].next
           h1 == Told(h, p, o, x, y)
           g == Alone(h1, o)
<1>1. h \in Heaps /\ p \in Node /\ o \in Node /\ x \in Place /\ y \in Place /\ x # o /\ y # o
  BY ChildPlace DEF Tree, Child
<1>2. ToldIs(h1, h, p, x, y, x, y)
  BY <1>1, ToldDoes
<1> HIDE DEF h1
<1>3. /\ g \in Heaps
      /\ \A k \in Node :
            /\ g[k].label = h1[k].label /\ g[k].first = h1[k].first
            /\ g[k].last = h1[k].last
            /\ g[k].parent = IF k = o THEN NULL ELSE h1[k].parent
            /\ g[k].prev = IF k = o THEN NULL ELSE h1[k].prev
            /\ g[k].next = IF k = o THEN NULL ELSE h1[k].next
  BY <1>1, <1>2, AloneDoes DEF ToldIs
<1> HIDE DEF g
<1>4. TakenOut(g, h, p, x, o, y)
  <2> HIDE DEF x, y
  <2> QED
    BY <1>2, <1>3 DEF TakenOut, ToldIs
<1>5. Tree(g)
  BY <1>4, TakenOutKeeps
<1> QED
  BY <1>4, <1>5 DEF g, h1

(* What RemoveChild() does is to take the node out and then to delete it.  *)
RemovedBy(g, h, p, o) ==
    /\ TakenOut(g, h, p, h[o].prev, o, h[o].next) /\ Tree(g) /\ g[o].parent = NULL
    /\ Removed(h, p, o) = Deleted(g, Subtree(g, o))

LEMMA RemovedIs ==
    ASSUME NEW h, Tree(h), NEW p, NEW o, Child(h, p, o)
    PROVE  \E g : RemovedBy(g, h, p, o)
<1> DEFINE h1 == Told(h, p, o, h[o].prev, h[o].next)
           g == Alone(h1, o)
<1>1. h \in Heaps /\ p \in Node /\ o \in Node /\ h1 \in Heaps
  BY ChildPlace, ToldDoes DEF Tree, Child, ToldIs
<1>2. /\ Tree(g) /\ TakenOut(g, h, p, h[o].prev, o, h[o].next)
      /\ Removed(h, p, o) = Deleted(h1, Subtree(h1, o))
  BY OutDoes DEF Removed, Told
<1> HIDE DEF h1
<1>3. /\ g \in Heaps /\ g[o].next = NULL /\ g[o].parent = NULL
      /\ \A k \in Node : g[k].first = h1[k].first /\ g[k].label = h1[k].label
      /\ \A k \in Node \ {o} : g[k].next = h1[k].next
      /\ \A k \in Node \ {o} : g[k].parent = h1[k].parent /\ g[k].last = h1[k].last
                              /\ g[k].prev = h1[k].prev
  BY <1>1, AloneDoes
<1> HIDE DEF g
<1>4. Subtree(h1, o) = Subtree(g, o)
  BY <1>1, <1>2, <1>3, SameBelow
<1>5. \A k \in Node \ {o} : g[k] = h1[k]
  BY <1>1, <1>3, Fields, SameContent
<1>6. Deleted(h1, Subtree(h1, o)) = Deleted(g, Subtree(g, o))
  BY <1>4, <1>5 DEF Deleted, Subtree
<1>7. RemovedBy(g, h, p, o)
  BY <1>2, <1>3, <1>6 DEF RemovedBy
<1> QED
  BY <1>7

LEMMA RemovedKeeps ==
    ASSUME NEW h, Tree(h), NEW p, NEW o, Child(h, p, o)
    PROVE  Tree(Removed(h, p, o)) /\ Docs(h) \subseteq Docs(Removed(h, p, o))
<1>1. PICK g : RemovedBy(g, h, p, o)
  BY RemovedIs
<1> DEFINE f == Deleted(g, Subtree(g, o))
<1>2. o \in Node /\ h[o].label # Document /\ \A k \in Node : g[k].label = h[k].label
  BY <1>1, ChildPlace DEF RemovedBy, TakenOut, Child
<1>3. Tree(f) /\ Docs(g) \ {o} \subseteq Docs(f)
  BY <1>1, <1>2, DeletedKeeps DEF RemovedBy
<1>4. Docs(h) \subseteq Docs(g) \ {o}
  BY <1>2 DEF Docs
<1>5. Removed(h, p, o) = f
  BY <1>1 DEF RemovedBy
<1> QED
  BY <1>3, <1>4, <1>5

(* What ReplaceChild() does is to take the one node out, to put the other  *)
(* in where it was, and then to delete the one.                            *)
ReplacedBy(g, out, h, p, o, m) ==
    /\ TakenOut(out, h, p, h[o].prev, o, h[o].next) /\ Tree(out)
    /\ Gap(out, p, h[o].prev, h[o].next) /\ out[m].parent = NULL
    /\ Put(g, out, p, h[o].prev, m, h[o].next) /\ Tree(g) /\ g[o].parent = NULL
    /\ Replaced(h, p, o, m) = Deleted(g, Subtree(g, o))

LEMMA ReplacedIs ==
    ASSUME NEW h, Tree(h), NEW p, NEW o, Child(h, p, o), NEW m, Root(h, p, m)
    PROVE  \E g, out : ReplacedBy(g, out, h, p, o, m)
<1> DEFINE x == h[o].prev
           y == h[o].next
           k0 == SetPrev(h, m, x)
           k1 == SetNext(k0, m, y)
           k2 == Told(k1, p, o, m, m)
           k3 == SetParent(k2, m, p)
           g4 == Alone(k3, o)
           g3 == Alone(Told(h, p, o, x, y), o)
           D == Subtree(k2, o)
<1>1. /\ h \in Heaps /\ p \in Node /\ o \in Node /\ m \in Node /\ x \in Place /\ y \in Place
      /\ p \in Place /\ m \in Place
      /\ h[m].parent = NULL /\ h[o].parent = p /\ p # NULL /\ o # NULL /\ m # NULL
      /\ m # p /\ m # o /\ o # p /\ x # o /\ y # o /\ x # p /\ y # p
      /\ p \notin Subtree(h, m)
  BY ChildPlace, Null DEF Tree, Child, Root, Place, Subtree
<1>2. /\ x # NULL => x \in Node /\ h[x].next = o /\ h[x].parent = p
      /\ y # NULL => y \in Node /\ h[y].prev = o /\ h[y].parent = p
      /\ x # NULL \/ y # NULL => x # y
      /\ x # m /\ y # m
  BY <1>1, ChildPlace DEF Place
<1>3. /\ p \notin Subtree(h, o) /\ x \notin Subtree(h, o) /\ m \notin Subtree(h, o)
      /\ h[o].label # Document /\ h[m].label \notin {Free, Document} /\ h[p].label # Free
  <2>1. NULL \notin Subtree(h, o)
    BY <1>1, BelowIs, Null DEF Subtree, Live
  <2>2. m \notin Subtree(h, o)
    BY <1>1, <2>1, BelowIs DEF Subtree
  <2> QED
    BY <1>1, <2>2, ChildPlace DEF Root
<1>4. Replaced(h, p, o, m) = SetParent(Deleted(k2, D), m, p)
  BY DEF Replaced, Told
<1>5. TakenOut(g3, h, p, x, o, y) /\ Tree(g3)
  BY OutDoes
<1> HIDE DEF x, y, g3
<1>6. SetPrevIs(k0, h, m, x)
  BY <1>1, SetPrevDoes
<1> HIDE DEF k0
<1>7. SetNextIs(k1, k0, m, y)
  BY <1>1, <1>6, SetNextDoes DEF SetPrevIs
<1> HIDE DEF k1
<1>8. k1 \in Heaps /\ k1[o].prev = x /\ k1[o].next = y
  BY <1>1, <1>6, <1>7 DEF SetPrevIs, SetNextIs, x, y
<1>9. ToldIs(k2, k1, p, x, y, m, m)
  <2>1. k1[o].prev # o /\ k1[o].next # o
    BY <1>1, <1>8
  <2>2. ToldIs(Told(k1, p, o, m, m), k1, p, k1[o].prev, k1[o].next, m, m)
    BY <1>1, <1>8, <2>1, ToldDoes
  <2> QED
    BY <1>8, <2>2
<1> HIDE DEF k2, D
<1>10. SetParentIs(k3, k2, m, p)
  BY <1>1, <1>9, SetParentDoes DEF ToldIs
<1> HIDE DEF k3
<1>11. /\ g4 \in Heaps
       /\ \A k \in Node :
            /\ g4[k].label = k3[k].label /\ g4[k].first = k3[k].first
            /\ g4[k].last = k3[k].last
            /\ g4[k].parent = IF k = o THEN NULL ELSE k3[k].parent
            /\ g4[k].prev = IF k = o THEN NULL ELSE k3[k].prev
            /\ g4[k].next = IF k = o THEN NULL ELSE k3[k].next
  BY <1>1, <1>10, AloneDoes DEF SetParentIs
<1> HIDE DEF g4
<1>12. ASSUME NEW k \in Node
       PROVE  /\ g4[k].label = h[k].label
              /\ g4[k].parent = IF k = o THEN NULL ELSE IF k = m THEN p ELSE h[k].parent
              /\ g4[k].first = IF k = p /\ x = NULL THEN m ELSE h[k].first
              /\ g4[k].last = IF k = p /\ y = NULL THEN m ELSE h[k].last
              /\ g4[k].prev = IF k = o THEN NULL ELSE IF k = m THEN x
                              ELSE IF k = y THEN m ELSE h[k].prev
              /\ g4[k].next = IF k = o THEN NULL ELSE IF k = m THEN y
                              ELSE IF k = x THEN m ELSE h[k].next
  <2>1. /\ k1[k].label = h[k].label /\ k1[k].parent = h[k].parent
        /\ k1[k].first = h[k].first /\ k1[k].last = h[k].last
        /\ k1[k].prev = IF k = m THEN x ELSE h[k].prev
        /\ k1[k].next = IF k = m THEN y ELSE h[k].next
    BY <1>6, <1>7 DEF SetPrevIs, SetNextIs
  <2>2. /\ k3[k].label = k2[k].label /\ k3[k].first = k2[k].first
        /\ k3[k].last = k2[k].last /\ k3[k].prev = k2[k].prev /\ k3[k].next = k2[k].next
        /\ k3[k].parent = IF k = m THEN p ELSE k2[k].parent
    BY <1>10 DEF SetParentIs
  <2> QED
    BY <1>2, <1>9, <1>11, <2>1, <2>2 DEF ToldIs
<1>13. Put(g4, g3, p, x, m, y)
  <2>1. ASSUME NEW k \in Node
        PROVE  /\ g4[k].label  = g3[k].label
               /\ g4[k].parent = IF k = m THEN p ELSE g3[k].parent
               /\ g4[k].first  = IF k = p /\ x = NULL THEN m ELSE g3[k].first
               /\ g4[k].last   = IF k = p /\ y = NULL THEN m ELSE g3[k].last
               /\ g4[k].prev   = IF k = m THEN x ELSE IF k = y THEN m ELSE g3[k].prev
               /\ g4[k].next   = IF k = m THEN y ELSE IF k = x THEN m ELSE g3[k].next
    BY <1>1, <1>2, <1>5, <1>12 DEF TakenOut
  <2> QED
    BY <1>11, <2>1 DEF Put
<1>14. Gap(g3, p, x, y)
  BY <1>1, <1>2, <1>5, Null DEF Gap, TakenOut
<1>15. /\ g3[m].parent = NULL /\ g3[m].label \notin {Free, Document} /\ g3[p].label # Free
       /\ p \notin Subtree(g3, m)
  <2>1. g3[m].parent = NULL /\ g3[m].label = h[m].label /\ g3[p].label = h[p].label
    BY <1>1, <1>5 DEF TakenOut
  <2> DEFINE B == Below(h, m)
  <2>2. B \in SUBSET Node /\ Leads(h, m, B) /\ p \notin B /\ x \notin B
    <3>1. B \in SUBSET Node /\ Leads(h, m, B) /\ p \notin B
      BY <1>1, BelowLeads DEF Subtree
    <3>2. x \notin B
      BY <1>1, <1>2, <3>1, BelowIs, Null DEF Live
    <3> QED
      BY <3>1, <3>2
  <2>3. Leads(g3, m, B)
    BY <1>1, <1>5, <2>2 DEF Leads, TakenOut
  <2>4. Subtree(g3, m) \subseteq Subtree(h, m)
    BY <1>1, <2>2, <2>3, BelowLeast DEF Subtree
  <2> QED
    BY <1>1, <1>3, <2>1, <2>4
<1>16. Tree(g4)
  BY <1>1, <1>5, <1>13, <1>14, <1>15, PutKeeps
<1>17. D = Subtree(g4, o)
  <2>1. /\ g4[o].next = NULL
        /\ \A k \in Node : g4[k].first = k2[k].first
        /\ \A k \in Node \ {o} : g4[k].next = k2[k].next
    BY <1>1, <1>10, <1>11 DEF SetParentIs
  <2> QED
    BY <1>1, <1>9, <1>16, <2>1, SameBelow DEF D, ToldIs
<1>18. m \notin D
  <2> DEFINE B == Below(h, o)
  <2>1. B \in SUBSET Node /\ Leads(h, o, B) /\ p \notin B /\ x \notin B /\ m \notin B
    BY <1>1, <1>3, BelowLeads DEF Subtree
  <2>2. Leads(g4, o, B)
    BY <1>1, <1>12, <2>1 DEF Leads
  <2>3. Subtree(g4, o) \subseteq Subtree(h, o)
    BY <1>1, <2>1, <2>2, BelowLeast DEF Subtree
  <2> QED
    BY <1>3, <1>17, <2>3
<1>19. SetParent(Deleted(k2, D), m, p) = Deleted(g4, D)
  <2> DEFINE d == Deleted(k2, D)
  <2>1. o \in D
    BY <1>17 DEF Subtree
  <2>2. d \in Heaps /\ \A k \in Node : d[k] = IF k \in D THEN Zeroes ELSE k2[k]
    BY <1>9, ZeroesAre DEF Deleted, Heaps, ToldIs
  <2>3. /\ Deleted(g4, D) \in Heaps
        /\ \A k \in Node : Deleted(g4, D)[k] = IF k \in D THEN Zeroes ELSE g4[k]
    BY <1>11, ZeroesAre DEF Deleted, Heaps
  <2> HIDE DEF d
  <2>4. SetParentIs(SetParent(d, m, p), d, m, p)
    BY <1>1, <2>2, SetParentDoes
  <2>5. ASSUME NEW k \in Node PROVE SetParent(d, m, p)[k] = Deleted(g4, D)[k]
    <3>1. SetParent(d, m, p)[k] \in Content /\ Deleted(g4, D)[k] \in Content
      BY <2>3, <2>4, Fields DEF SetParentIs
    <3>2. CASE k \in D
      <4>1. k # m
        BY <1>18, <3>2
      <4> QED
        BY <2>2, <2>3, <2>4, <3>1, <3>2, <4>1, SameContent DEF SetParentIs
    <3>3. CASE k \notin D
      BY <1>10, <1>11, <2>1, <2>2, <2>3, <2>4, <3>1, <3>3, SameContent DEF SetParentIs
    <3> QED
      BY <3>2, <3>3
  <2>6. SetParent(d, m, p) \in Heaps
    BY <2>4 DEF SetParentIs
  <2>7. SetParent(d, m, p) = Deleted(g4, D)
    BY <2>3, <2>5, <2>6 DEF Heaps
  <2> QED
    BY <2>7 DEF d
<1>20. ReplacedBy(g4, g3, h, p, o, m)
  BY <1>1, <1>4, <1>5, <1>12, <1>13, <1>14, <1>15, <1>16, <1>17, <1>19 DEF ReplacedBy, x, y
<1> QED
  BY <1>20

LEMMA ReplacedKeeps ==
    ASSUME NEW h, Tree(h), NEW p, NEW o, Child(h, p, o), NEW m, Root(h, p, m)
    PROVE  Tree(Replaced(h, p, o, m)) /\ Docs(h) \subseteq Docs(Replaced(h, p, o, m))
<1>1. PICK g, out : ReplacedBy(g, out, h, p, o, m)
  BY ReplacedIs
<1> DEFINE f == Deleted(g, Subtree(g, o))
<1>2. o \in Node /\ h[o].label # Document /\ \A k \in Node : g[k].label = h[k].label
  BY <1>1, ChildPlace DEF ReplacedBy, TakenOut, Put, Child
<1>3. Tree(f) /\ Docs(g) \ {o} \subseteq Docs(f)
  BY <1>1, <1>2, DeletedKeeps DEF ReplacedBy
<1>4. Docs(h) \subseteq Docs(g) \ {o}
  BY <1>2 DEF Docs
<1>5. Replaced(h, p, o, m) = f
  BY <1>1 DEF ReplacedBy
<1> QED
  BY <1>3, <1>4, <1>5
-----------------------------------------------------------------------------
(* The steps of the specification.                                         *)
LEMMA InitTree == Init => IInv
<1> SUFFICES ASSUME Init PROVE IInv
  OBVIOUS
<1>1. heap \in Heaps /\ (\A n \in Node : heap[n] = Zeroes) /\ errors = {}
  BY ZeroesAre DEF Init, Heaps
<1>2. \A n \in Node : Agrees(heap, n)
  BY <1>1, ZeroesAgree
<1>3. NoRings(heap) /\ NoLoops(heap)
  <2>1. \A C \in SUBSET Node : NULL \notin C
    BY Null
  <2> QED
    BY <1>1, <2>1, ZeroesAre DEF NoRings, NoLoops
<1> QED
  BY <1>1, <1>2, <1>3 DEF IInv, Tree, ErrorsOK

(* A copy that is linked below p.                                          *)
LEMMA CopyIsRoot ==
    ASSUME Tree(heap), NEW p \in Live(heap), NEW n \in Live(heap), Room(heap, n),
           heap[n].label # Document
    PROVE  LET c == Copying(heap, n)
               h == Cloned(heap, n, c)
           IN  /\ Tree(h) /\ Root(h, p, c[n]) /\ Docs(heap) \subseteq Docs(h)
               /\ \A k \in Live(heap) : h[k] = heap[k]
<1> DEFINE c == Copying(heap, n)
           h == Cloned(heap, n, c)
<1>1. n \in Node /\ p \in Node /\ heap[n].label # Free /\ heap[p].label # Free
  BY DEF Live
<1>2. CopyMap(heap, n, c)
  BY <1>1, CopyingIs
<1> HIDE DEF c
<1>3. Copied(h, heap, n, c)
  BY <1>2, ClonedIs
<1> HIDE DEF h
<1>4. /\ Tree(h) /\ c[n] \in Fresh(heap) /\ h[c[n]].parent = NULL
      /\ h[c[n]].label = heap[n].label /\ Subtree(h, c[n]) \subseteq Fresh(heap)
      /\ \A k \in Live(heap) : h[k] = heap[k]
  BY <1>2, <1>3, CopyKeeps
<1>5. Root(h, p, c[n])
  BY <1>1, <1>4 DEF Root, Fresh
<1>6. Docs(heap) \subseteq Docs(h)
  BY <1>4, LabelAssumption DEF Docs, Live, Free
<1> QED
  BY <1>4, <1>5, <1>6 DEF h, c

(* WithCopy(), of which the three operations that follow differ in where   *)
(* the copy goes.                                                          *)
LEMMA ErrorKeeps ==
    ASSUME IInv, NEW p \in Live(heap), UNCHANGED heap,
           errors' = errors \union ({GetDocument(heap, p)} \ {NULL})
    PROVE  IInv'
<1> DEFINE met == {d \in Upward(heap, p) : heap[d].label = Document}
<1>1. met = {} \/ GetDocument(heap, p) \in met
  BY DEF GetDocument
<1>2. GetDocument(heap, p) \in Docs(heap) \union {NULL}
  BY <1>1 DEF GetDocument, Upward, Docs
<1>3. heap' = heap /\ ErrorsOK'
  BY <1>2 DEF IInv, ErrorsOK, Docs
<1> QED
  BY <1>3 DEF IInv

LEMMA KeepsErrors ==
    ASSUME IInv, Tree(heap'), Docs(heap) \subseteq Docs(heap'), UNCHANGED errors
    PROVE  IInv'
BY DEF IInv, ErrorsOK, Docs

LEMMA PutDone ==
    ASSUME NEW h, Tree(h), NEW p, NEW m, Root(h, p, m), NEW x, NEW y, Gap(h, p, x, y),
           NEW g, Put(g, h, p, x, m, y)
    PROVE  Tree(g) /\ Docs(h) \subseteq Docs(g)
<1>1. Tree(g)
  BY PutKeeps DEF Root
<1> QED
  BY <1>1 DEF Put, Docs

LEMMA LinkStep ==
    ASSUME IInv, NEW p \in Live(heap), NEW n \in Live(heap), LinkEndChild(p, n)
    PROVE  IInv'
<1>1. Tree(heap) /\ Root(heap, p, n) /\ heap' = Linked(heap, p, n) /\ UNCHANGED errors
  BY DEF IInv, LinkEndChild, Root, Live
<1>2. Tree(heap') /\ Docs(heap) \subseteq Docs(heap')
  BY <1>1, LinkedDoes, PutDone
<1> QED
  BY <1>1, <1>2, KeepsErrors

LEMMA InsertEndStep ==
    ASSUME IInv, NEW p \in Live(heap), NEW n \in Live(heap), InsertEndChild(p, n)
    PROVE  IInv'
<1> DEFINE c == Copying(heap, n)
           h == Cloned(heap, n, c)
<1>1. CASE heap[n].label = Document
  BY <1>1, ErrorKeeps DEF InsertEndChild, WithCopy
<1>2. CASE heap[n].label # Document
  <2>1. Room(heap, n) /\ heap' = Linked(h, p, c[n]) /\ UNCHANGED errors
    BY <1>2 DEF InsertEndChild, WithCopy
  <2>2. Tree(h) /\ Root(h, p, c[n]) /\ Docs(heap) \subseteq Docs(h)
    BY <1>2, <2>1, CopyIsRoot DEF IInv
  <2> HIDE DEF h
  <2>3. Tree(heap') /\ Docs(h) \subseteq Docs(heap')
    BY <2>1, <2>2, LinkedDoes, PutDone
  <2> QED
    BY <2>1, <2>2, <2>3, KeepsErrors
<1> QED
  BY <1>1, <1>2

LEMMA InsertBeforeStep ==
    ASSUME IInv, NEW p \in Live(heap), NEW b \in Live(heap), NEW n \in Live(heap),
           InsertBeforeChild(p, b, n)
    PROVE  IInv'
<1> DEFINE c == Copying(heap, n)
           h == Cloned(heap, n, c)
<1>1. CASE heap[n].label = Document
  BY <1>1, ErrorKeeps DEF InsertBeforeChild, WithCopy
<1>2. CASE heap[n].label # Document
  <2>1. /\ heap[b].parent = p
        /\ Room(heap, n) /\ heap' = InsertedBefore(h, p, b, c[n]) /\ UNCHANGED errors
    BY <1>2 DEF InsertBeforeChild, WithCopy
  <2>2. Tree(h) /\ Root(h, p, c[n]) /\ Docs(heap) \subseteq Docs(h) /\ h[b] = heap[b]
    BY <1>2, <2>1, CopyIsRoot DEF IInv
  <2> HIDE DEF h
  <2>3. Child(h, p, b)
    BY <2>1, <2>2 DEF Child, Live
  <2>4. Tree(heap') /\ Docs(h) \subseteq Docs(heap')
    BY <2>1, <2>2, <2>3, BeforeDoes, PutDone
  <2> QED
    BY <2>1, <2>2, <2>4, KeepsErrors
<1> QED
  BY <1>1, <1>2

LEMMA InsertAfterStep ==
    ASSUME IInv, NEW p \in Live(heap), NEW a \in Live(heap), NEW n \in Live(heap),
           InsertAfterChild(p, a, n)
    PROVE  IInv'
<1> DEFINE c == Copying(heap, n)
           h == Cloned(heap, n, c)
<1>1. CASE heap[n].label = Document
  BY <1>1, ErrorKeeps DEF InsertAfterChild, WithCopy
<1>2. CASE heap[n].label # Document
  <2>1. /\ heap[a].parent = p
        /\ Room(heap, n) /\ heap' = InsertedAfter(h, p, a, c[n]) /\ UNCHANGED errors
    BY <1>2 DEF InsertAfterChild, WithCopy
  <2>2. Tree(h) /\ Root(h, p, c[n]) /\ Docs(heap) \subseteq Docs(h) /\ h[a] = heap[a]
    BY <1>2, <2>1, CopyIsRoot DEF IInv
  <2> HIDE DEF h
  <2>3. Child(h, p, a)
    BY <2>1, <2>2 DEF Child, Live
  <2>4. Tree(heap') /\ Docs(h) \subseteq Docs(heap')
    BY <2>1, <2>2, <2>3, AfterDoes, PutDone
  <2> QED
    BY <2>1, <2>2, <2>4, KeepsErrors
<1> QED
  BY <1>1, <1>2

LEMMA ReplaceStep ==
    ASSUME IInv, NEW p \in Live(heap), NEW o \in Live(heap), NEW n \in Live(heap),
           ReplaceChild(p, o, n)
    PROVE  IInv'
<1> DEFINE c == Copying(heap, n)
           h == Cloned(heap, n, c)
<1>1. CASE heap[n].label = Document
  BY <1>1, ErrorKeeps DEF ReplaceChild, WithCopy
<1>2. CASE heap[n].label # Document
  <2>1. /\ heap[o].parent = p
        /\ Room(heap, n) /\ heap' = Replaced(h, p, o, c[n]) /\ UNCHANGED errors
    BY <1>2 DEF ReplaceChild, WithCopy
  <2>2. Tree(h) /\ Root(h, p, c[n]) /\ Docs(heap) \subseteq Docs(h) /\ h[o] = heap[o]
    BY <1>2, <2>1, CopyIsRoot DEF IInv
  <2> HIDE DEF h
  <2>3. Child(h, p, o)
    BY <2>1, <2>2 DEF Child, Live
  <2>4. Tree(heap') /\ Docs(h) \subseteq Docs(heap')
    BY <2>1, <2>2, <2>3, ReplacedKeeps
  <2> QED
    BY <2>1, <2>2, <2>4, KeepsErrors
<1> QED
  BY <1>1, <1>2

LEMMA CloneStep ==
    ASSUME IInv, NEW n \in Live(heap), Clone(n)
    PROVE  IInv'
<1> DEFINE c == Copying(heap, n)
           h == Cloned(heap, n, c)
<1>1. /\ Room(heap, n) /\ heap' = h /\ Tree(heap) /\ n \in Node
      /\ errors' = errors \union (IF n \in errors THEN {c[n]} ELSE {})
  BY DEF Clone, IInv, Live
<1>2. CopyMap(heap, n, c)
  BY <1>1, CopyingIs
<1> HIDE DEF c
<1>3. /\ Tree(h) /\ c[n] \in Fresh(heap) /\ h[c[n]].label = heap[n].label
      /\ \A k \in Live(heap) : h[k] = heap[k]
  BY <1>1, <1>2, ClonedIs, CopyKeeps
<1> HIDE DEF h
<1>4. ErrorsOK'
  <2>1. \A k \in errors : k \in Live(heap) /\ h[k].label = Document
    BY <1>3, LabelAssumption DEF IInv, ErrorsOK, Live, Free
  <2>2. n \in errors => c[n] \in Node /\ h[c[n]].label = Document
    BY <1>3 DEF IInv, ErrorsOK, Fresh
  <2> QED
    BY <1>1, <2>1, <2>2 DEF ErrorsOK, Live
<1> QED
  BY <1>1, <1>3, <1>4 DEF IInv

LEMMA NextTree == IInv /\ [Next]_vars => IInv'
<1> SUFFICES ASSUME IInv, [Next]_vars PROVE IInv'
  OBVIOUS
<1>1. ASSUME NEW label \in Label, New(label) PROVE IInv'
  <2>1. PICK n \in Fresh(heap) : heap' = [heap EXCEPT ![n] = NewNode(label)] /\ UNCHANGED errors
    BY <1>1 DEF New
  <2>2. Tree(heap')
    BY <2>1, NewKeeps DEF IInv
  <2>3. Docs(heap) \subseteq Docs(heap')
    BY <2>1, LabelAssumption DEF Docs, Fresh, Live, Free, IInv, Tree, Heaps
  <2> QED
    BY <2>1, <2>2, <2>3, KeepsErrors
<1>2. ASSUME NEW p \in Live(heap), NEW o \in Live(heap), RemoveChild(p, o) PROVE IInv'
  <2>1. Child(heap, p, o) /\ heap' = Removed(heap, p, o) /\ UNCHANGED errors /\ Tree(heap)
    BY <1>2 DEF RemoveChild, Child, Live, IInv
  <2> QED
    BY <2>1, RemovedKeeps, KeepsErrors
<1>3. ASSUME NEW p \in Live(heap), Clear(p) PROVE IInv'
  <2>1. p \in Node /\ heap' = DeletedBelow(heap, p) /\ UNCHANGED errors /\ Tree(heap)
    BY <1>3 DEF Clear, DeletedBelow, Live, IInv
  <2> QED
    BY <2>1, ClearedKeeps, KeepsErrors
<1>4. ASSUME NEW n \in Live(heap), Delete(n) PROVE IInv'
  <2>1. /\ n \in Node /\ heap[n].parent = NULL /\ heap' = Deleted(heap, Subtree(heap, n))
        /\ errors' = errors \ {n} /\ Tree(heap)
    BY <1>4 DEF Delete, Live, IInv
  <2>2. Tree(heap') /\ Docs(heap) \ {n} \subseteq Docs(heap')
    BY <2>1, DeletedKeeps
  <2> QED
    BY <2>1, <2>2 DEF IInv, ErrorsOK, Docs
<1>5. CASE UNCHANGED vars
  BY <1>5 DEF vars, IInv, ErrorsOK
<1> QED
  BY <1>1, <1>2, <1>3, <1>4, <1>5, LinkStep, InsertEndStep, InsertBeforeStep, InsertAfterStep,
     ReplaceStep, CloneStep DEF Next

LEMMA UpIs ==
    ASSUME NEW h, Tree(h), NEW n \in Node, NEW m \in Node
    PROVE  m \in Below(h, n) <=> m # n /\ n \in Upward(h, m)
<1> DEFINE B == Below(h, n)
           Up(S) == m \in S /\ \A k \in S : h[k].parent \in S \union {NULL}
<1>1. /\ h \in Heaps /\ B \in SUBSET Node /\ n \notin B
      /\ \A k \in Node : k \in B <=> h[k].parent \in B \union {n}
  BY BelowIs, NotBelow DEF Tree, Subtree, Live
<1>2. Upward(h, m) = {k \in Node : \A S \in SUBSET Node : Up(S) => k \in S}
  BY DEF Upward
<1> HIDE DEF B
<1>3. ASSUME m \in B PROVE n \in Upward(h, m)
  <2>1. SUFFICES ASSUME NEW S \in SUBSET Node, Up(S), n \notin S PROVE FALSE
    BY <1>2
  <2>2. PICK k \in S \intersect B : h[k].parent \notin S \intersect B
    <3>1. S \intersect B \in SUBSET Node /\ S \intersect B # {}
      BY <1>3, <2>1
    <3> QED
      BY <3>1 DEF Tree, NoLoops
  <2>3. h[k].parent \in B \union {n} /\ h[k].parent \in S \union {NULL}
    BY <1>1, <2>1, <2>2
  <2> QED
    BY <1>1, <2>1, <2>2, <2>3, Null
<1>4. ASSUME m # n, m \notin B PROVE n \notin Upward(h, m)
  <2> DEFINE S == Node \ (B \union {n})
  <2>1. S \in SUBSET Node /\ m \in S /\ n \notin S
    BY <1>4
  <2>2. \A k \in S : h[k].parent \in S \union {NULL}
    BY <1>1, Fields DEF Place
  <2> HIDE DEF S
  <2> QED
    BY <1>2, <2>1, <2>2
<1> QED
  BY <1>1, <1>3, <1>4 DEF B

(* Whatever is called in whatever order, the pointers of TinyXML's nodes   *)
(* agree, none leads to memory that is free, and documents have no parent; *)
(* and the destructor of a node goes through the nodes whose parents lead  *)
(* up to it, all of them and no other.                                     *)
THEOREM PointersCorrect == Spec => []PointersAgree
<1>1. ASSUME IInv PROVE LinksAgree
  BY <1>1 DEF IInv, Tree, ErrorsOK, LinksAgree
<1>2. ASSUME IInv PROVE AllBelow
  BY <1>2, UpIs DEF IInv, AllBelow, Live
<1>3. IInv => PointersAgree
  BY <1>1, <1>2 DEF PointersAgree
<1> QED
  BY InitTree, NextTree, <1>3, PTL DEF Spec
-----------------------------------------------------------------------------
(* Induction.  A set of numbers without a least one is empty: otherwise the*)
(* numbers below all of it, which are finitely many, would be mapped to    *)
(* fewer by adding one.                                                    *)
LEMMA LeastNat ==
    ASSUME NEW T \in SUBSET Nat, T # {}
    PROVE  \E m \in T : \A k \in T : m <= k
<1> SUFFICES ASSUME \A m \in T : \E k \in T : k < m PROVE FALSE
  OBVIOUS
<1>1. PICK t \in T : TRUE
  OBVIOUS
<1> DEFINE U == {x \in 0 .. t : \A s \in T : x < s}
           V == U \ {0}
           f == [x \in U |-> x + 1]
<1>2. 0 \in U
  <2>1. 0 \notin T
    OBVIOUS
  <2> QED
    BY <1>1, <2>1
<1>3. f \in [U -> V]
  <2>1. ASSUME NEW x \in U PROVE x + 1 \in V
    <3>1. \A s \in T : x + 1 <= s
      OBVIOUS
    <3>2. x + 1 \notin T
      BY <3>1
    <3>3. \A s \in T : x + 1 < s
      BY <3>1, <3>2
    <3> QED
      BY <1>1, <3>3
  <2> QED
    BY <2>1
<1>4. /\ IsFiniteSet(U) /\ IsFiniteSet(V)
      /\ Cardinality(V) = Cardinality(U) - 1 /\ Cardinality(U) \in Nat
  <2>1. IsFiniteSet(0 .. t)
    BY FS_Interval
  <2>2. IsFiniteSet(U)
    BY <2>1, FS_Subset
  <2> QED
    BY <1>2, <2>2, FS_RemoveElement, FS_CardinalityType
<1>5. \E x, y \in U : x # y /\ f[x] = f[y]
  <2> HIDE DEF U, V, f
  <2>1. Cardinality(V) < Cardinality(U)
    BY <1>4
  <2> QED
    BY <1>3, <1>4, <2>1, FS_PigeonHole, Zenon
<1> QED
  BY <1>5

(* A set of numbers with 0, and with the successor of each, is all of them.*)
LEMMA Induction ==
    ASSUME NEW S \in SUBSET Nat, 0 \in S, \A k \in S : k + 1 \in S
    PROVE  Nat \subseteq S
<1> DEFINE T == Nat \ S
<1>1. SUFFICES ASSUME T # {} PROVE FALSE
  OBVIOUS
<1>2. PICK m \in T : \A k \in T : m <= k
  <2> HIDE DEF T
  <2>1. T \in SUBSET Nat
    BY DEF T
  <2> QED
    BY <1>1, <2>1, LeastNat
<1>3. m - 1 \in Nat /\ m - 1 \notin T
  BY <1>2
<1> QED
  BY <1>2, <1>3

(* A sequence of nodes without repetition has at most N of them.           *)
LEMMA NotLong ==
    ASSUME NEW k \in Nat, NEW f \in [1 .. k -> Node],
           \A i, j \in 1 .. k : f[i] = f[j] => i = j
    PROVE  k <= N
<1>1. /\ IsFiniteSet(1 .. k) /\ Cardinality(1 .. k) = k
      /\ IsFiniteSet(Node) /\ Cardinality(Node) = N /\ N \in Nat
  BY NodesAssumption, FS_Interval DEF Node
<1>2. SUFFICES ASSUME N < k PROVE FALSE
  BY <1>1
<1>3. \E i, j \in 1 .. k : i # j /\ f[i] = f[j]
  BY <1>1, <1>2, FS_PigeonHole, Zenon
<1> QED
  BY <1>3

(* What Steps() is, that is: a function that agrees with its recursion is  *)
(* there.                                                                  *)
AreSteps(at, to, n, last) ==
    at = [k \in 0 .. last |->
            IF k = 0 THEN n ELSE LET m == at[k - 1] IN IF m = NULL THEN NULL ELSE to[m]]

LEMMA StepsThere ==
    ASSUME NEW to, NEW n, NEW last \in Nat
    PROVE  \E at : AreSteps(at, to, n, last)
<1> DEFINE There(j) == \E at : AreSteps(at, to, n, j)
           S == {j \in Nat : There(j)}
<1>1. There(0)
  <2> DEFINE a == [k \in 0 .. 0 |-> n]
  <2>1. a = [k \in 0 .. 0 |-> IF k = 0 THEN n
                              ELSE LET m == a[k - 1] IN IF m = NULL THEN NULL ELSE to[m]]
    OBVIOUS
  <2>2. AreSteps(a, to, n, 0)
    BY <2>1 DEF AreSteps
  <2> QED
    BY <2>2
<1>2. ASSUME NEW j \in Nat, There(j) PROVE There(j + 1)
  <2>1. PICK at : AreSteps(at, to, n, j)
    BY <1>2
  <2> DEFINE b == [k \in 0 .. j + 1 |-> IF k <= j THEN at[k]
                                        ELSE IF at[j] = NULL THEN NULL ELSE to[at[j]]]
  <2>2. \A k \in 0 .. j : b[k] = at[k]
    OBVIOUS
  <2>3. \A k \in 0 .. j : at[k] = IF k = 0 THEN n
                                  ELSE LET m == at[k - 1] IN IF m = NULL THEN NULL ELSE to[m]
    BY <2>1 DEF AreSteps
  <2>4. ASSUME NEW k \in 0 .. j + 1
        PROVE  b[k] = IF k = 0 THEN n
                      ELSE LET m == b[k - 1] IN IF m = NULL THEN NULL ELSE to[m]
    <3>1. CASE k = j + 1
      BY <2>2, <3>1
    <3>2. CASE k # j + 1
      BY <2>2, <2>3, <3>2
    <3> QED
      BY <3>1, <3>2
  <2>5. AreSteps(b, to, n, j + 1)
    <3>1. b = [k \in 0 .. j + 1 |-> b[k]]
      OBVIOUS
    <3> HIDE DEF b
    <3> QED
      BY <2>4, <3>1 DEF AreSteps
  <2> QED
    BY <2>5
<1> HIDE DEF There
<1>3. S \in SUBSET Nat /\ 0 \in S /\ \A k \in S : k + 1 \in S
  BY <1>1, <1>2
<1>4. Nat \subseteq S
  <2> HIDE DEF S
  <2> QED
    BY <1>3, Induction
<1> QED
  BY <1>4 DEF There

LEMMA StepsAre ==
    ASSUME NEW to, NEW n, NEW last \in Nat
    PROVE  LET at == Steps(to, n, last)
           IN  /\ at = [k \in 0 .. last |-> at[k]] /\ at[0] = n
               /\ \A k \in 1 .. last : at[k] = IF at[k - 1] = NULL THEN NULL ELSE to[at[k - 1]]
<1>1. \E at : AreSteps(at, to, n, last)
  BY StepsThere
<1>2. Steps(to, n, last) = CHOOSE at : AreSteps(at, to, n, last)
  BY Zenon DEF Steps, AreSteps
<1>3. AreSteps(Steps(to, n, last), to, n, last)
  BY <1>1, <1>2, Zenon
<1> QED
  BY <1>3 DEF AreSteps

(* Going along a list from its start gives the list.                       *)
Leading(to, s) == \A i \in 1 .. Len(s) : to[s[i]] = IF i = Len(s) THEN NULL ELSE s[i + 1]
Start(s) == IF Len(s) = 0 THEN NULL ELSE s[1]
End(s)   == IF Len(s) = 0 THEN NULL ELSE s[Len(s)]

LEMMA StepsAlong ==
    ASSUME NEW to, NEW s \in Seq(Node), Leading(to, s), NEW last \in Nat
    PROVE  \A k \in 0 .. last :
              Steps(to, Start(s), last)[k] = IF k < Len(s) THEN s[k + 1] ELSE NULL
<1> DEFINE at == Steps(to, Start(s), last)
           T == {k \in Nat : k <= last => at[k] = IF k < Len(s) THEN s[k + 1] ELSE NULL}
<1>1. /\ at[0] = Start(s)
      /\ \A k \in 1 .. last : at[k] = IF at[k - 1] = NULL THEN NULL ELSE to[at[k - 1]]
  BY StepsAre
<1>2. Len(s) \in Nat /\ \A k \in 1 .. Len(s) : s[k] \in Node /\ s[k] # NULL
  BY Null
<1> HIDE DEF at
<1>3. 0 \in T
  BY <1>1, <1>2 DEF Start
<1>4. ASSUME NEW k \in T PROVE k + 1 \in T
  <2>1. SUFFICES ASSUME k + 1 <= last
                 PROVE  at[k + 1] = IF k + 1 < Len(s) THEN s[k + 2] ELSE NULL
    OBVIOUS
  <2>2. at[k] = IF k < Len(s) THEN s[k + 1] ELSE NULL
    BY <2>1
  <2>3. at[k + 1] = IF at[k] = NULL THEN NULL ELSE to[at[k]]
    <3>1. k + 1 \in 1 .. last /\ (k + 1) - 1 = k
      BY <2>1
    <3> QED
      BY <1>1, <3>1
  <2>4. CASE k < Len(s)
    <3>1. k + 1 \in 1 .. Len(s)
      BY <1>2, <2>4
    <3>2. to[s[k + 1]] = IF k + 1 = Len(s) THEN NULL ELSE s[(k + 1) + 1]
      BY <3>1 DEF Leading
    <3>3. at[k + 1] = to[s[k + 1]]
      BY <1>2, <2>2, <2>3, <2>4, <3>1
    <3> QED
      BY <1>2, <2>4, <3>2, <3>3
  <2>5. CASE ~(k < Len(s))
    BY <1>2, <2>2, <2>3, <2>5
  <2> QED
    BY <2>4, <2>5
<1>5. Nat \subseteq T
  <2>1. T \in SUBSET Nat
    OBVIOUS
  <2> HIDE DEF T
  <2> QED
    BY <1>3, <1>4, <2>1, Induction
<1>6. \A k \in 0 .. last : at[k] = IF k < Len(s) THEN s[k + 1] ELSE NULL
  BY <1>5
<1> QED
  BY <1>6 DEF at

LEMMA Counted == \A k \in Nat : Cardinality(0 .. k - 1) = k /\ IsFiniteSet(0 .. k - 1)
BY FS_Interval

LEMMA AlongIs ==
    ASSUME NEW to, NEW s \in Seq(Node), Leading(to, s), Len(s) <= N
    PROVE  Along(to, Start(s)) = s
<1> DEFINE at == Steps(to, Start(s), N)
           L == Len(s)
           I == {k \in 0 .. N - 1 : at[k] # NULL}
<1>1. N \in Nat /\ L \in Nat /\ \A k \in 1 .. L : s[k] \in Node /\ s[k] # NULL
  BY NodesAssumption, Null
<1>2. \A k \in 0 .. N : at[k] = IF k < L THEN s[k + 1] ELSE NULL
  BY <1>1, StepsAlong
<1>3. Along(to, Start(s)) = [i \in 1 .. Cardinality(I) |-> at[i - 1]]
  BY DEF Along
<1> HIDE DEF at
<1>4. I = 0 .. L - 1
  BY <1>1, <1>2
<1>5. Cardinality(I) = L
  <2>1. Cardinality(0 .. L - 1) = L
    BY <1>1, Counted
  <2> QED
    BY <1>4, <2>1
<1>6. [i \in 1 .. L |-> at[i - 1]] = s
  <2>1. \A i \in 1 .. L : at[i - 1] = s[i]
    <3> TAKE i \in 1 .. L
    <3>1. i - 1 \in 0 .. N /\ i - 1 < L /\ (i - 1) + 1 = i
      BY <1>1
    <3> QED
      BY <1>2, <3>1
  <2>2. s = [i \in 1 .. L |-> s[i]]
    OBVIOUS
  <2> QED
    BY <2>1, <2>2
<1> HIDE DEF I
<1> QED
  BY <1>3, <1>5, <1>6
-----------------------------------------------------------------------------
(* s is the list of p's children.                                          *)
Links(h, p, s) ==
    /\ h[p].first = Start(s) /\ h[p].last = End(s)
    /\ \A i \in 1 .. Len(s) : /\ h[s[i]].prev = IF i = 1 THEN NULL ELSE s[i - 1]
                              /\ h[s[i]].next = IF i = Len(s) THEN NULL ELSE s[i + 1]

IsList(h, p, s) ==
    /\ s \in Seq(Node) /\ Len(s) <= N
    /\ \A i, j \in 1 .. Len(s) : s[i] = s[j] => i = j
    /\ \A m \in Node : h[m].parent = p <=> \E i \in 1 .. Len(s) : s[i] = m
    /\ Links(h, p, s)

LEMMA ListIs ==
    ASSUME NEW h, NEW p \in Node, NEW s, IsList(h, p, s)
    PROVE  Children(h, p) = s
<1> DEFINE to == [m \in Node |-> h[m].next]
<1>1. s \in Seq(Node) /\ Len(s) <= N /\ h[p].first = Start(s)
  BY DEF IsList, Links
<1>2. Leading(to, s)
  BY <1>1 DEF IsList, Links, Leading
<1>3. Children(h, p) = Along(to, Start(s))
  BY <1>1 DEF Children, Onward
<1> QED
  BY <1>1, <1>2, <1>3, AlongIs
-----------------------------------------------------------------------------
(* The children of a node of a tree are a list: next leads on from the     *)
(* first, prev leads back, so that no node comes twice, and all whose      *)
(* parent it is are met, for NoRings.                                      *)
LEMMA WalkIs ==
    ASSUME NEW h, Tree(h), NEW p \in Node
    PROVE  \E at \in [0 .. N -> Place] :
              /\ at[0] = h[p].first
              /\ \A k \in 1 .. N : at[k] = IF at[k - 1] = NULL THEN NULL ELSE h[at[k - 1]].next
<1> DEFINE to == [m \in Node |-> h[m].next]
           at == Steps(to, h[p].first, N)
           T == {k \in Nat : k <= N => at[k] \in Place}
<1>1. h \in Heaps /\ N \in Nat /\ h[p].first \in Place
  BY NodesAssumption, Fields DEF Tree
<1>2. /\ at = [k \in 0 .. N |-> at[k]] /\ at[0] = h[p].first
      /\ \A k \in 1 .. N : at[k] = IF at[k - 1] = NULL THEN NULL ELSE to[at[k - 1]]
  BY <1>1, StepsAre
<1> HIDE DEF at
<1>3. 0 \in T /\ \A k \in T : k + 1 \in T
  <2>1. ASSUME NEW k \in T, k + 1 <= N PROVE at[k + 1] \in Place
    <3>1. at[k] \in Place /\ k + 1 \in 1 .. N /\ (k + 1) - 1 = k
      BY <1>1, <2>1
    <3>2. at[k + 1] = IF at[k] = NULL THEN NULL ELSE to[at[k]]
      BY <1>2, <3>1
    <3> QED
      BY <1>1, <3>1, <3>2, Fields DEF Place
  <2>2. 0 \in T
    BY <1>1, <1>2
  <2>3. ASSUME NEW k \in T PROVE k + 1 \in T
    BY <2>1, <2>3
  <2> HIDE DEF T
  <2> QED
    BY <2>2, <2>3
<1>4. Nat \subseteq T
  <2>1. T \in SUBSET Nat
    OBVIOUS
  <2> HIDE DEF T
  <2> QED
    BY <1>3, <2>1, Induction
<1>5. \A k \in 0 .. N : at[k] \in Place
  BY <1>1, <1>4
<1>6. at \in [0 .. N -> Place]
  BY <1>2, <1>5
<1>7. ASSUME NEW k \in 1 .. N
      PROVE  at[k] = IF at[k - 1] = NULL THEN NULL ELSE h[at[k - 1]].next
  <2>1. k - 1 \in 0 .. N
    BY <1>1
  <2> QED
    BY <1>2, <1>5, <2>1 DEF Place
<1> QED
  BY <1>2, <1>6, <1>7

LEMMA ListThere ==
    ASSUME NEW h, Tree(h), NEW p \in Node
    PROVE  \E s : IsList(h, p, s)
<1>1. /\ h \in Heaps /\ N \in Nat /\ \A m \in Node : m # NULL /\ Agrees(h, m)
  BY NodesAssumption, Null DEF Tree
<1>2. PICK at \in [0 .. N -> Place] :
         /\ at[0] = h[p].first
         /\ \A k \in 1 .. N : at[k] = IF at[k - 1] = NULL THEN NULL ELSE h[at[k - 1]].next
  BY WalkIs
<1> DEFINE T == {k \in Nat : k <= N => at[k] = NULL \/ h[at[k]].parent = p}
           D == {i \in Nat : \A j \in 0 .. N : i < j /\ at[j] # NULL => at[i] # at[j]}
           E == {k \in 0 .. N : at[k] = NULL}
(* They have p for a parent, ...                                           *)
<1>3. 0 \in T /\ \A k \in T : k + 1 \in T
  <2>1. at[0] # NULL => at[0] \in Node /\ h[at[0]].parent = p
    BY <1>1, <1>2 DEF Place, Agrees
  <2>2. ASSUME NEW k \in T, k + 1 <= N, at[k + 1] # NULL PROVE h[at[k + 1]].parent = p
    <3>1. k + 1 \in 1 .. N /\ (k + 1) - 1 = k /\ k \in 0 .. N
      BY <1>1, <2>2
    <3>2. at[k + 1] = IF at[k] = NULL THEN NULL ELSE h[at[k]].next
      BY <1>2, <3>1
    <3>3. at[k] \in Node /\ h[at[k]].parent = p /\ at[k + 1] = h[at[k]].next
      BY <2>2, <3>1, <3>2 DEF Place
    <3> QED
      BY <1>1, <2>2, <3>3 DEF Agrees
  <2> QED
    BY <1>2, <2>1, <2>2
<1>4. \A k \in 0 .. N : at[k] # NULL => at[k] \in Node /\ h[at[k]].parent = p
  <2>1. Nat \subseteq T
    <3>1. T \in SUBSET Nat
      OBVIOUS
    <3> HIDE DEF T
    <3> QED
      BY <1>3, <3>1, Induction
  <2> QED
    BY <1>1, <1>2, <2>1 DEF Place
(* ... each leads back to the one before it, ...                           *)
<1>5. \A k \in 1 .. N : at[k] # NULL =>
         at[k - 1] # NULL /\ h[at[k]].prev = at[k - 1] /\ at[k] = h[at[k - 1]].next
  <2> SUFFICES ASSUME NEW k \in 1 .. N, at[k] # NULL
               PROVE  at[k - 1] # NULL /\ h[at[k]].prev = at[k - 1] /\ at[k] = h[at[k - 1]].next
    OBVIOUS
  <2>1. k - 1 \in 0 .. N /\ k \in 0 .. N
    BY <1>1
  <2>2. at[k - 1] # NULL /\ at[k] = h[at[k - 1]].next
    BY <1>2, <2>1
  <2>3. at[k - 1] \in Node
    BY <1>4, <2>1, <2>2
  <2> QED
    BY <1>1, <2>2, <2>3 DEF Agrees
<1>6. at[0] # NULL => h[at[0]].prev = NULL
  BY <1>1, <1>2 DEF Agrees
(* ... so none comes twice, ...                                            *)
<1>7. \A i, j \in 0 .. N : i < j /\ at[j] # NULL => at[i] # at[j]
  <2>1. 0 \in D
    <3> SUFFICES ASSUME NEW j \in 0 .. N, 0 < j, at[j] # NULL, at[0] = at[j] PROVE FALSE
      OBVIOUS
    <3>1. j \in 1 .. N
      BY <1>1
    <3> QED
      BY <1>5, <1>6, <3>1
  <2>2. ASSUME NEW i \in D PROVE i + 1 \in D
    <3> SUFFICES ASSUME NEW j \in 0 .. N, i + 1 < j, at[j] # NULL, at[i + 1] = at[j] PROVE FALSE
      OBVIOUS
    <3>1. j \in 1 .. N /\ i + 1 \in 1 .. N /\ (i + 1) - 1 = i /\ j - 1 \in 0 .. N /\ i < j - 1
      BY <1>1
    <3>2. at[j - 1] # NULL /\ at[i] = at[j - 1]
      BY <1>5, <3>1
    <3> QED
      BY <3>1, <3>2
  <2>3. Nat \subseteq D
    <3>1. D \in SUBSET Nat
      OBVIOUS
    <3> HIDE DEF D
    <3> QED
      BY <2>1, <2>2, <3>1, Induction
  <2> QED
    BY <1>1, <2>3
(* ... and there are not more of them than nodes.                          *)
<1>8. E # {}
  <2>1. SUFFICES ASSUME \A k \in 0 .. N : at[k] # NULL PROVE FALSE
    OBVIOUS
  <2> DEFINE f == [i \in 1 .. N + 1 |-> at[i - 1]]
  <2>2. \A i \in 1 .. N + 1 : i - 1 \in 0 .. N
    BY <1>1
  <2>3. f \in [1 .. N + 1 -> Node]
    BY <1>4, <2>1, <2>2
  <2>4. \A i, j \in 1 .. N + 1 : f[i] = f[j] => i = j
    <3> SUFFICES ASSUME NEW i \in 1 .. N + 1, NEW j \in 1 .. N + 1, at[i - 1] = at[j - 1], i < j
                 PROVE  FALSE
      BY <1>1
    <3> QED
      BY <1>1, <1>7, <2>1, <2>2
  <2> HIDE DEF f
  <2>5. N + 1 <= N
    BY <1>1, <2>3, <2>4, NotLong
  <2> QED
    BY <1>1, <2>5
<1>9. PICK L \in E : \A k \in E : L <= k
  <2>1. E \in SUBSET Nat
    BY <1>1
  <2> HIDE DEF E
  <2> QED
    BY <1>8, <2>1, LeastNat
<1>10. /\ L \in 0 .. N /\ at[L] = NULL
       /\ \A k \in 0 .. L - 1 : at[k] # NULL /\ at[k] \in Node /\ k \in 0 .. N
  BY <1>1, <1>4, <1>9
<1> DEFINE s == [i \in 1 .. L |-> at[i - 1]]
<1>11. s \in Seq(Node) /\ Len(s) = L /\ \A i \in 1 .. L : s[i] = at[i - 1] /\ s[i] \in Node
  BY <1>1, <1>10
<1> HIDE DEF s, E, D, T
<1>12. \A i, j \in 1 .. Len(s) : s[i] = s[j] => i = j
  <2>1. ASSUME NEW i \in 1 .. L, NEW j \in 1 .. L, at[i - 1] = at[j - 1], i < j PROVE FALSE
    <3>1. i - 1 \in 0 .. N /\ j - 1 \in 0 .. N /\ i - 1 < j - 1 /\ at[j - 1] # NULL
      BY <1>1, <1>10, <2>1
    <3> QED
      BY <1>7, <2>1, <3>1
  <2>2. \A i, j \in 1 .. L : s[i] = s[j] => ~(i < j) /\ ~(j < i)
    BY <1>11, <2>1
  <2>3. L \in Nat /\ Len(s) = L
    BY <1>1, <1>10, <1>11
  <2> QED
    BY <2>2, <2>3
<1>13. \A i \in 1 .. L : /\ h[s[i]].prev = IF i = 1 THEN NULL ELSE s[i - 1]
                         /\ h[s[i]].next = IF i = L THEN NULL ELSE s[i + 1]
  <2> TAKE i \in 1 .. L
  <2>1. s[i] = at[i - 1] /\ i - 1 \in 0 .. L - 1 /\ at[i - 1] # NULL
    BY <1>10, <1>11
  <2>2. h[s[i]].prev = IF i = 1 THEN NULL ELSE s[i - 1]
    <3>1. CASE i = 1
      BY <1>6, <2>1, <3>1
    <3>2. CASE i # 1
      <4>1. i - 1 \in 1 .. N /\ i - 1 \in 1 .. L
        BY <1>10, <3>2
      <4> QED
        BY <1>5, <1>11, <2>1, <3>2, <4>1
    <3> QED
      BY <3>1, <3>2
  <2>3. h[s[i]].next = IF i = L THEN NULL ELSE s[i + 1]
    <3>1. i \in 1 .. N /\ at[i] = h[at[i - 1]].next
      BY <1>2, <1>10, <2>1
    <3>2. CASE i = L
      BY <1>10, <2>1, <3>1, <3>2
    <3>3. CASE i # L
      <4>1. i + 1 \in 1 .. L /\ (i + 1) - 1 = i
        BY <1>10, <3>3
      <4> QED
        BY <1>11, <2>1, <3>1, <3>3, <4>1
    <3> QED
      BY <3>2, <3>3
  <2> QED
    BY <2>2, <2>3
<1>14. h[p].first = Start(s)
  <2>1. CASE L = 0
    BY <1>2, <1>10, <1>11, <2>1 DEF Start
  <2>2. CASE L # 0
    <3>1. 1 \in 1 .. L /\ 1 - 1 = 0
      BY <1>10, <2>2
    <3> QED
      BY <1>2, <1>11, <2>2, <3>1 DEF Start
  <2> QED
    BY <2>1, <2>2
<1>15. h[p].last = End(s)
  <2>1. CASE L = 0
    BY <1>1, <1>11, <1>14, <2>1 DEF Start, End, Agrees
  <2>2. CASE L # 0
    <3>1. L \in 1 .. L /\ s[L] = at[L - 1] /\ L - 1 \in 0 .. N /\ s[L] \in Node
      BY <1>10, <1>11, <2>2
    <3>2. h[s[L]].next = NULL /\ h[s[L]].parent = p
      BY <1>4, <1>13, <3>1, <1>1
    <3>3. h[p].last = s[L]
      BY <1>1, <3>1, <3>2 DEF Agrees
    <3> QED
      BY <1>11, <2>2, <3>3 DEF End
  <2> QED
    BY <2>1, <2>2
<1>16. ASSUME NEW m \in Node PROVE h[m].parent = p <=> \E i \in 1 .. Len(s) : s[i] = m
  <2>1. ASSUME NEW i \in 1 .. L PROVE h[s[i]].parent = p
    <3>1. i - 1 \in 0 .. N /\ at[i - 1] # NULL
      BY <1>10
    <3> QED
      BY <1>4, <1>11, <3>1
  <2> DEFINE C == {k \in Node : h[k].parent = p /\ \A i \in 1 .. L : s[i] # k}
  <2>2. ASSUME m \in C PROVE FALSE
    <3>1. PICK k \in C : h[k].prev \notin C
      <4>1. C \in SUBSET Node /\ C # {}
        BY <2>2
      <4> HIDE DEF C
      <4> QED
        BY <4>1 DEF Tree, NoRings
    <3>2. k \in Node /\ h[k].parent = p /\ \A i \in 1 .. L : s[i] # k
      BY <3>1
    <3>3. CASE h[k].prev = NULL
      <4>1. h[p].first = k
        BY <1>1, <3>2, <3>3 DEF Agrees
      <4>2. L # 0 /\ 1 \in 1 .. L /\ s[1] = k
        BY <1>1, <1>10, <1>11, <1>14, <3>2, <4>1 DEF Start
      <4> QED
        BY <3>2, <4>2
    <3>4. CASE h[k].prev # NULL
      <4>1. h[k].prev \in Node /\ h[h[k].prev].parent = p /\ h[h[k].prev].next = k
        BY <1>1, <3>2, <3>4, Fields DEF Agrees, Place
      <4>2. PICK i \in 1 .. L : s[i] = h[k].prev
        BY <3>1, <4>1
      <4>3. i # L /\ s[i + 1] = k
        BY <1>1, <1>13, <3>2, <4>1, <4>2
      <4>4. i + 1 \in 1 .. L
        BY <1>10, <4>3
      <4> QED
        BY <3>2, <4>3, <4>4
    <3> QED
      BY <3>3, <3>4
  <2> QED
    BY <1>11, <2>1, <2>2
<1>17. IsList(h, p, s)
  BY <1>10, <1>11, <1>12, <1>13, <1>14, <1>15, <1>16 DEF IsList, Links
<1> QED
  BY <1>17

(* So it is the list, of which there is one.                               *)
LEMMA ChildrenAre ==
    ASSUME NEW h, Tree(h), NEW p \in Node
    PROVE  IsList(h, p, Children(h, p))
BY ListThere, ListIs
-----------------------------------------------------------------------------
(* Walks that start within a list: what is behind i, and what is before it *)
(* from there on.                                                          *)
Behind(s, i) == [j \in 1 .. Len(s) - i |-> s[i + j]]
Before(s, i) == [j \in 1 .. i - 1 |-> s[i - j]]

LEMMA OnwardIs ==
    ASSUME NEW h, NEW p \in Node, NEW s, IsList(h, p, s), NEW i \in 0 .. Len(s), NEW n,
           i = 0 => n = h[p].first, i # 0 => n = h[s[i]].next
    PROVE  Onward(h, n) = Behind(s, i) /\ Behind(s, i) \in Seq(Node)
<1> DEFINE to == [m \in Node |-> h[m].next]
           L == Len(s)
           u == Behind(s, i)
<1>1. /\ s \in Seq(Node) /\ L \in Nat /\ L <= N /\ h[p].first = Start(s)
      /\ \A j \in 1 .. L : s[j] \in Node /\ h[s[j]].next = IF j = L THEN NULL ELSE s[j + 1]
  BY DEF IsList, Links
<1>2. u \in Seq(Node) /\ Len(u) = L - i /\ \A j \in 1 .. L - i : u[j] = s[i + j]
  <2>1. \A j \in 1 .. L - i : i + j \in 1 .. L
    BY <1>1
  <2> QED
    BY <1>1, <2>1 DEF Behind
<1> HIDE DEF u
<1>3. Leading(to, u)
  <2> SUFFICES ASSUME NEW j \in 1 .. Len(u) PROVE to[u[j]] = IF j = Len(u) THEN NULL ELSE u[j + 1]
    BY DEF Leading
  <2>1. i + j \in 1 .. L /\ (i + j = L <=> j = Len(u)) /\ (i + j) + 1 = i + (j + 1)
    BY <1>1, <1>2
  <2>2. j # Len(u) => j + 1 \in 1 .. L - i
    <3>1. Len(u) \in Nat /\ Len(u) = L - i /\ j \in Nat /\ 1 <= j /\ j <= Len(u)
      BY <1>2
    <3> QED
      BY <3>1
  <2>3. to[u[j]] = IF i + j = L THEN NULL ELSE s[(i + j) + 1]
    BY <1>1, <1>2, <2>1
  <2> QED
    BY <1>2, <2>1, <2>2, <2>3
<1>4. n = Start(u)
  <2>1. CASE i = 0
    <3>1. Len(u) = L /\ (L # 0 => u[1] = s[1])
      BY <1>1, <1>2, <2>1
    <3> QED
      BY <1>1, <2>1, <3>1 DEF Start
  <2>2. CASE i # 0
    <3>1. n = (IF i = L THEN NULL ELSE s[i + 1]) /\ (i = L <=> Len(u) = 0)
      BY <1>1, <1>2, <2>2
    <3>2. i # L => u[1] = s[i + 1]
      BY <1>1, <1>2
    <3> QED
      BY <3>1, <3>2 DEF Start
  <2> QED
    BY <2>1, <2>2
<1>5. Len(u) <= N
  BY <1>1, <1>2, NodesAssumption
<1>6. Along(to, n) = u
  BY <1>2, <1>3, <1>4, <1>5, AlongIs
<1> QED
  BY <1>2, <1>6 DEF Onward, u

LEMMA NextOnward ==
    ASSUME NEW h, NEW p \in Node, NEW s, IsList(h, p, s), NEW i \in 1 .. Len(s)
    PROVE  Onward(h, h[s[i]].next) = Behind(s, i) /\ Behind(s, i) \in Seq(Node)
<1>1. i \in 0 .. Len(s) /\ i # 0
  OBVIOUS
<1>2. ASSUME NEW n, n = h[s[i]].next PROVE Onward(h, n) = Behind(s, i) /\ Behind(s, i) \in Seq(Node)
  <2>1. (i = 0 => n = h[p].first) /\ (i # 0 => n = h[s[i]].next)
    BY <1>1, <1>2
  <2> QED
    BY <1>1, <2>1, OnwardIs
<1> QED
  BY <1>2

LEMMA BackwardIs ==
    ASSUME NEW h, NEW p \in Node, NEW s, IsList(h, p, s), NEW i \in 1 .. Len(s) + 1, NEW n,
           i = Len(s) + 1 => n = h[p].last, i # Len(s) + 1 => n = h[s[i]].prev
    PROVE  Backward(h, n) = Before(s, i) /\ Before(s, i) \in Seq(Node)
<1> DEFINE to == [m \in Node |-> h[m].prev]
           L == Len(s)
           u == Before(s, i)
<1>1. /\ s \in Seq(Node) /\ L \in Nat /\ L <= N /\ h[p].last = End(s)
      /\ \A j \in 1 .. L : s[j] \in Node /\ h[s[j]].prev = IF j = 1 THEN NULL ELSE s[j - 1]
  BY DEF IsList, Links
<1>2. u \in Seq(Node) /\ Len(u) = i - 1 /\ \A j \in 1 .. i - 1 : u[j] = s[i - j]
  <2>1. \A j \in 1 .. i - 1 : i - j \in 1 .. L
    BY <1>1
  <2> QED
    BY <1>1, <2>1 DEF Before
<1> HIDE DEF u
<1>3. Leading(to, u)
  <2> SUFFICES ASSUME NEW j \in 1 .. Len(u) PROVE to[u[j]] = IF j = Len(u) THEN NULL ELSE u[j + 1]
    BY DEF Leading
  <2>1. i - j \in 1 .. L /\ (i - j = 1 <=> j = Len(u)) /\ (i - j) - 1 = i - (j + 1)
    BY <1>1, <1>2
  <2>2. j # Len(u) => j + 1 \in 1 .. i - 1
    BY <1>2
  <2>3. to[u[j]] = IF i - j = 1 THEN NULL ELSE s[(i - j) - 1]
    BY <1>1, <1>2, <2>1
  <2> QED
    BY <1>2, <2>1, <2>2, <2>3
<1>4. n = Start(u)
  <2>1. CASE i = L + 1
    <3>1. Len(u) = L /\ (L # 0 => u[1] = s[L])
      BY <1>1, <1>2, <2>1
    <3> QED
      BY <1>1, <2>1, <3>1 DEF Start, End
  <2>2. CASE i # L + 1
    <3>1. n = (IF i = 1 THEN NULL ELSE s[i - 1]) /\ (i = 1 <=> Len(u) = 0)
      BY <1>1, <1>2, <2>2
    <3>2. i # 1 => u[1] = s[i - 1]
      BY <1>1, <1>2
    <3> QED
      BY <3>1, <3>2 DEF Start
  <2> QED
    BY <2>1, <2>2
<1>5. Len(u) <= N
  BY <1>1, <1>2, NodesAssumption
<1>6. Along(to, n) = u
  BY <1>2, <1>3, <1>4, <1>5, AlongIs
<1> QED
  BY <1>2, <1>6 DEF Backward, u

(* The first node of S on a path.                                          *)
Found(path, S) ==
    LET at == {i \in DOMAIN path : path[i] \in S}
    IN  IF at = {} THEN NULL ELSE path[CHOOSE i \in at : \A j \in at : i <= j]

LEMMA FoundIs ==
    ASSUME NEW path \in Seq(Node), NEW S
    PROVE  /\ (\A k \in 1 .. Len(path) : path[k] \notin S) => Found(path, S) = NULL
           /\ \A k \in 1 .. Len(path) :
                 path[k] \in S /\ (\A j \in 1 .. k - 1 : path[j] \notin S)
                    => Found(path, S) = path[k]
<1> DEFINE at == {i \in DOMAIN path : path[i] \in S}
           m == CHOOSE i \in at : \A j \in at : i <= j
<1>1. at = {i \in 1 .. Len(path) : path[i] \in S} /\ Len(path) \in Nat
  OBVIOUS
<1>2. Found(path, S) = IF at = {} THEN NULL ELSE path[m]
  BY DEF Found
<1> HIDE DEF at
<1>3. ASSUME NEW k \in 1 .. Len(path), path[k] \in S, \A j \in 1 .. k - 1 : path[j] \notin S
      PROVE  Found(path, S) = path[k]
  <2>1. k \in at /\ \A j \in at : k <= j
    BY <1>1, <1>3
  <2>2. m \in at /\ \A j \in at : m <= j
    BY <2>1, Zenon
  <2>3. m <= k /\ k <= m /\ m \in Int
    BY <1>1, <2>1, <2>2
  <2>4. m = k
    <3> HIDE DEF m
    <3> QED
      BY <2>3
  <2> QED
    BY <1>2, <2>1, <2>4
<1>4. ASSUME \A k \in 1 .. Len(path) : path[k] \notin S PROVE Found(path, S) = NULL
  BY <1>1, <1>2, <1>4
<1> QED
  BY <1>3, <1>4

(* The searches for any child, and for the next element.                   *)
ElementNodes(h) == {m \in Node : h[m].label \in Elements}

LeastOf(at) == CHOOSE i \in at : \A j \in at : i <= j

LEMMA FirstElementIs ==
    ASSUME NEW h, NEW p, NEW x \in Seq(Node), Onward(h, h[p].first) = x
    PROVE  FirstChildElement(h, p) = Found(x, ElementNodes(h))
<1> DEFINE w == Onward(h, h[p].first)
           A == {i \in DOMAIN w : h[w[i]].label \in Elements}
           B == {i \in DOMAIN x : x[i] \in ElementNodes(h)}
<1>1. FirstChildElement(h, p) = IF A = {} THEN NULL ELSE w[LeastOf(A)]
  BY Zenon DEF FirstChildElement, FirstChild, FirstOf, LeastOf
<1>2. Found(x, ElementNodes(h)) = IF B = {} THEN NULL ELSE x[LeastOf(B)]
  BY Zenon DEF Found, LeastOf
<1>3. A = B /\ w = x
  BY DEF ElementNodes
<1> HIDE DEF A, B, w
<1> QED
  BY <1>1, <1>2, <1>3

LEMMA NextElementIs ==
    ASSUME NEW h, NEW n, NEW x \in Seq(Node), Onward(h, h[n].next) = x
    PROVE  NextSiblingElement(h, n) = Found(x, ElementNodes(h))
<1> DEFINE w == Onward(h, h[n].next)
           A == {i \in DOMAIN w : h[w[i]].label \in Elements}
           B == {i \in DOMAIN x : x[i] \in ElementNodes(h)}
<1>1. NextSiblingElement(h, n) = IF A = {} THEN NULL ELSE w[LeastOf(A)]
  BY Zenon DEF NextSiblingElement, NextSibling, FirstOf, LeastOf
<1>2. Found(x, ElementNodes(h)) = IF B = {} THEN NULL ELSE x[LeastOf(B)]
  BY Zenon DEF Found, LeastOf
<1>3. A = B /\ w = x
  BY DEF ElementNodes
<1> HIDE DEF A, B, w
<1> QED
  BY <1>1, <1>2, <1>3

(* The first element behind i in a list of children.                       *)
ElementBehind(h, s, i) == Found(Behind(s, i), ElementNodes(h))

LEMMA ElementBehindIs ==
    ASSUME NEW h, NEW s \in Seq(Node), NEW i \in 0 .. Len(s)
    PROVE  /\ i = Len(s) => ElementBehind(h, s, i) = NULL
           /\ i # Len(s) /\ h[s[i + 1]].label \in Elements => ElementBehind(h, s, i) = s[i + 1]
           /\ i # Len(s) /\ h[s[i + 1]].label \notin Elements
                 => ElementBehind(h, s, i) = ElementBehind(h, s, i + 1)
<1> DEFINE L == Len(s)
           S == ElementNodes(h)
           u == Behind(s, i)
           v == Behind(s, i + 1)
<1>1. /\ L \in Nat /\ i \in Nat /\ i <= L
      /\ \A j \in 1 .. L : s[j] \in Node /\ (s[j] \in S <=> h[s[j]].label \in Elements)
  BY DEF ElementNodes
<1>2. u \in Seq(Node) /\ Len(u) = L - i /\ \A j \in 1 .. L - i : u[j] = s[i + j]
  <2>1. \A j \in 1 .. L - i : i + j \in 1 .. L
    BY <1>1
  <2> QED
    BY <1>1, <2>1 DEF Behind
<1> HIDE DEF S, u
<1>3. /\ (\A k \in 1 .. L - i : u[k] \notin S) => Found(u, S) = NULL
      /\ \A k \in 1 .. L - i :
            u[k] \in S /\ (\A j \in 1 .. k - 1 : u[j] \notin S) => Found(u, S) = u[k]
  BY <1>2, FoundIs
<1>4. i = L => Found(u, S) = NULL
  BY <1>1, <1>3
<1>5. i # L => 1 \in 1 .. L - i /\ u[1] = s[i + 1] /\ i + 1 \in 1 .. L
  BY <1>1, <1>2
<1>6. ASSUME i # L, h[s[i + 1]].label \in Elements PROVE Found(u, S) = s[i + 1]
  <2>1. 1 \in 1 .. L - i /\ u[1] = s[i + 1] /\ u[1] \in S
    BY <1>1, <1>5, <1>6
  <2>2. \A j \in 1 .. 1 - 1 : u[j] \notin S
    OBVIOUS
  <2> QED
    BY <1>3, <2>1, <2>2
<1>7. ASSUME i # L, h[s[i + 1]].label \notin Elements PROVE Found(u, S) = Found(v, S)
  <2>1. v \in Seq(Node) /\ Len(v) = L - (i + 1) /\ \A j \in 1 .. L - (i + 1) : v[j] = s[(i + 1) + j]
    <3>1. \A j \in 1 .. L - (i + 1) : (i + 1) + j \in 1 .. L
      BY <1>1
    <3>2. L - (i + 1) \in Nat
      BY <1>1, <1>7
    <3> QED
      BY <1>1, <3>1, <3>2 DEF Behind
  <2> HIDE DEF v
  <2>2. /\ (\A k \in 1 .. Len(v) : v[k] \notin S) => Found(v, S) = NULL
        /\ \A k \in 1 .. Len(v) :
              v[k] \in S /\ (\A j \in 1 .. k - 1 : v[j] \notin S) => Found(v, S) = v[k]
    BY <2>1, FoundIs
  <2>3. \A k \in 1 .. Len(v) : u[k + 1] = v[k] /\ k + 1 \in 1 .. L - i
    <3> TAKE k \in 1 .. Len(v)
    <3>1. k + 1 \in 1 .. L - i /\ i + (k + 1) = (i + 1) + k
      BY <1>1, <2>1
    <3> QED
      BY <1>2, <2>1, <3>1
  <2>4. u[1] \notin S
    BY <1>1, <1>5, <1>7
  <2>5. CASE \A k \in 1 .. Len(v) : v[k] \notin S
    <3>1. ASSUME NEW k \in 1 .. L - i PROVE u[k] \notin S
      <4>1. CASE k = 1
        BY <2>4, <4>1
      <4>2. CASE k # 1
        <5>1. k - 1 \in 1 .. Len(v) /\ (k - 1) + 1 = k
          BY <1>1, <2>1, <4>2
        <5> QED
          BY <2>3, <2>5, <5>1
      <4> QED
        BY <4>1, <4>2
    <3> QED
      BY <1>3, <2>2, <2>5, <3>1
  <2>6. CASE \E k \in 1 .. Len(v) : v[k] \in S
    <3> DEFINE T == {k \in 1 .. Len(v) : v[k] \in S}
    <3>1. PICK k \in T : \A j \in T : k <= j
      <4>1. T \in SUBSET Nat /\ T # {}
        BY <2>6
      <4> HIDE DEF T
      <4> QED
        BY <4>1, LeastNat
    <3>2. k \in 1 .. Len(v) /\ v[k] \in S /\ \A j \in 1 .. k - 1 : v[j] \notin S
      BY <2>1, <3>1
    <3>3. u[k + 1] \in S /\ k + 1 \in 1 .. L - i /\ u[k + 1] = v[k]
      BY <2>3, <3>2
    <3>4. ASSUME NEW j \in 1 .. (k + 1) - 1 PROVE u[j] \notin S
      <4>1. CASE j = 1
        BY <2>4, <4>1
      <4>2. CASE j # 1
        <5>1. j - 1 \in 1 .. k - 1 /\ (j - 1) + 1 = j /\ j - 1 \in 1 .. Len(v)
          BY <2>1, <3>2, <4>2
        <5> QED
          BY <2>3, <3>2, <5>1
      <4> QED
        BY <4>1, <4>2
    <3> HIDE DEF T
    <3>5. Found(u, S) = u[k + 1]
      BY <1>3, <3>3, <3>4
    <3>6. Found(v, S) = v[k]
      BY <2>2, <3>2
    <3> QED
      BY <3>3, <3>5, <3>6
  <2> QED
    BY <2>5, <2>6
<1> QED
  BY <1>4, <1>6, <1>7 DEF ElementBehind, u, v, S

(* The loop over elements, and how many of them it has had.                *)
Counting(h, s, i) == Cardinality({j \in 1 .. i : h[s[j]].label \in Elements})

LEMMA CountingIs ==
    ASSUME NEW h, NEW s
    PROVE  /\ Counting(h, s, 0) = 0
           /\ \A i \in Nat : /\ Counting(h, s, i) \in Nat
                             /\ h[s[i + 1]].label \in Elements
                                   => Counting(h, s, i + 1) = Counting(h, s, i) + 1
                             /\ h[s[i + 1]].label \notin Elements
                                   => Counting(h, s, i + 1) = Counting(h, s, i)
<1> DEFINE E(i) == {j \in 1 .. i : h[s[j]].label \in Elements}
<1>1. \A i \in Nat : IsFiniteSet(E(i)) /\ Cardinality(E(i)) \in Nat
  <2> TAKE i \in Nat
  <2>1. IsFiniteSet(1 .. i)
    BY FS_Interval
  <2>2. E(i) \subseteq 1 .. i
    OBVIOUS
  <2> HIDE DEF E
  <2> QED
    BY <2>1, <2>2, FS_Subset, FS_CardinalityType
<1>2. E(0) = {}
  OBVIOUS
<1>3. ASSUME NEW i \in Nat
      PROVE  /\ h[s[i + 1]].label \in Elements => E(i + 1) = E(i) \union {i + 1}
             /\ h[s[i + 1]].label \notin Elements => E(i + 1) = E(i)
             /\ i + 1 \notin E(i)
  OBVIOUS
<1>4. Counting(h, s, 0) = 0 /\ \A i \in Nat : Counting(h, s, i) = Cardinality(E(i))
  <2>1. Cardinality(E(0)) = 0
    BY <1>2, FS_EmptySet
  <2> QED
    BY <2>1 DEF Counting
<1> HIDE DEF E
<1>5. ASSUME NEW i \in Nat, h[s[i + 1]].label \in Elements
      PROVE  Counting(h, s, i + 1) = Counting(h, s, i) + 1
  <2>1. Cardinality(E(i) \union {i + 1}) = Cardinality(E(i)) + 1
    BY <1>1, <1>3, FS_AddElement
  <2>2. E(i + 1) = E(i) \union {i + 1}
    BY <1>3, <1>5
  <2> QED
    BY <1>4, <2>1, <2>2
<1>6. ASSUME NEW i \in Nat, h[s[i + 1]].label \notin Elements
      PROVE  Counting(h, s, i + 1) = Counting(h, s, i)
  <2>1. E(i + 1) = E(i)
    BY <1>3, <1>6
  <2> QED
    BY <1>4, <2>1
<1> QED
  BY <1>1, <1>4, <1>5, <1>6

LEMMA ChildElementIs ==
    ASSUME NEW h, NEW p \in Node, NEW s, IsList(h, p, s), NEW i \in 0 .. Len(s)
    PROVE  ChildElement(h, p, Counting(h, s, i)) = ElementBehind(h, s, i)
<1> DEFINE L == Len(s)
           C(j) == Counting(h, s, j)
           last == Counting(h, s, i)
           to == [m \in Node |-> NextSiblingElement(h, m)]
           at == Steps(to, FirstChildElement(h, p), last)
           T == {j \in Nat : j <= L /\ C(j) <= last => at[C(j)] = ElementBehind(h, s, j)}
<1>1. /\ s \in Seq(Node) /\ L \in Nat /\ \A j \in 1 .. L : s[j] \in Node /\ s[j] # NULL
  BY Null DEF IsList
<1>2. /\ C(0) = 0
      /\ \A j \in Nat : /\ C(j) \in Nat
                        /\ h[s[j + 1]].label \in Elements => C(j + 1) = C(j) + 1
                        /\ h[s[j + 1]].label \notin Elements => C(j + 1) = C(j)
  BY CountingIs
<1>3. FirstChildElement(h, p) = ElementBehind(h, s, 0)
  <2>1. Onward(h, h[p].first) = Behind(s, 0) /\ Behind(s, 0) \in Seq(Node)
    <3>1. 0 \in 0 .. Len(s)
      BY <1>1
    <3> QED
      BY <3>1, OnwardIs
  <2> QED
    BY <2>1, FirstElementIs DEF ElementBehind
<1>4. \A j \in 1 .. L : to[s[j]] = ElementBehind(h, s, j)
  <2> TAKE j \in 1 .. L
  <2>1. Onward(h, h[s[j]].next) = Behind(s, j) /\ Behind(s, j) \in Seq(Node)
    <3>1. j \in 0 .. Len(s) /\ j # 0
      BY <1>1
    <3> QED
      BY <3>1, OnwardIs
  <2>2. s[j] \in Node
    BY <1>1
  <2> QED
    BY <2>1, <2>2, NextElementIs DEF ElementBehind, to
<1>5. /\ at[0] = FirstChildElement(h, p)
      /\ \A k \in 1 .. last : at[k] = IF at[k - 1] = NULL THEN NULL ELSE to[at[k - 1]]
  BY <1>2, StepsAre
<1> HIDE DEF at, to, C
<1>6. 0 \in T
  BY <1>2, <1>3, <1>5
<1>7. ASSUME NEW j \in T PROVE j + 1 \in T
  <2> SUFFICES ASSUME j + 1 <= L, C(j + 1) <= last
               PROVE  at[C(j + 1)] = ElementBehind(h, s, j + 1)
    BY <1>7
  <2>1. j \in Nat /\ (j <= L /\ C(j) <= last => at[C(j)] = ElementBehind(h, s, j))
    OBVIOUS
  <2> HIDE DEF T
  <2>2. /\ j \in Nat /\ C(j) \in Nat /\ j \in 0 .. L /\ j # L /\ j + 1 \in 1 .. L
    BY <1>1, <1>2, <2>1
  <2>3. /\ h[s[j + 1]].label \in Elements => ElementBehind(h, s, j) = s[j + 1]
        /\ h[s[j + 1]].label \notin Elements
              => ElementBehind(h, s, j) = ElementBehind(h, s, j + 1)
    BY <1>1, <2>2, ElementBehindIs
  <2>4. CASE h[s[j + 1]].label \in Elements
    <3>1. C(j + 1) = C(j) + 1
      BY <1>2, <2>2, <2>4
    <3>2. last \in Nat
      <4>1. C(i) \in Nat
        BY <1>1, <1>2
      <4> QED
        BY <4>1 DEF C
    <3>3. C(j) <= last
      BY <2>2, <3>1, <3>2
    <3>4. at[C(j)] = s[j + 1]
      BY <2>1, <2>2, <2>3, <2>4, <3>3
    <3>5. C(j) + 1 \in 1 .. last /\ (C(j) + 1) - 1 = C(j)
      BY <2>2, <3>1, <3>2
    <3>6. at[C(j) + 1] = to[s[j + 1]]
      BY <1>1, <1>5, <2>2, <3>4, <3>5
    <3> QED
      BY <1>4, <2>2, <3>1, <3>6
  <2>5. CASE h[s[j + 1]].label \notin Elements
    <3>1. C(j + 1) = C(j)
      BY <1>2, <2>2, <2>5
    <3> QED
      BY <2>1, <2>2, <2>3, <2>5, <3>1
  <2> QED
    BY <2>4, <2>5
<1>8. Nat \subseteq T
  <2>1. T \in SUBSET Nat
    OBVIOUS
  <2> HIDE DEF T
  <2> QED
    BY <1>6, <1>7, <2>1, Induction
<1>9. at[last] = ElementBehind(h, s, i)
  <2>1. i \in T /\ i <= L /\ C(i) = last /\ last \in Nat
    BY <1>1, <1>2, <1>8 DEF C
  <2> QED
    BY <2>1
<1> QED
  BY <1>9 DEF ChildElement, at, to

(* The first node of a path.                                               *)
AnyOf(path) ==
    LET at == {i \in DOMAIN path : TRUE}
    IN  IF at = {} THEN NULL ELSE path[LeastOf(at)]

LEMMA AnyIs ==
    ASSUME NEW x \in Seq(Node)
    PROVE  AnyOf(x) = IF Len(x) = 0 THEN NULL ELSE x[1]
<1> DEFINE at == {i \in DOMAIN x : TRUE}
<1>1. at = 1 .. Len(x) /\ Len(x) \in Nat
  OBVIOUS
<1>2. AnyOf(x) = IF at = {} THEN NULL ELSE x[LeastOf(at)]
  BY DEF AnyOf
<1> HIDE DEF at
<1>3. CASE Len(x) = 0
  BY <1>1, <1>2, <1>3
<1>4. CASE Len(x) # 0
  <2>1. 1 \in at /\ \A j \in at : 1 <= j
    BY <1>1, <1>4
  <2>2. LeastOf(at) \in at /\ \A j \in at : LeastOf(at) <= j
    BY <2>1, Zenon DEF LeastOf
  <2>3. LeastOf(at) = 1
    BY <1>1, <2>1, <2>2
  <2> QED
    BY <1>2, <1>4, <2>1, <2>3
<1> QED
  BY <1>3, <1>4

LEMMA WalkBack ==
    ASSUME NEW p \in Node, NEW s, IsList(heap, p, s)
    PROVE  Backward(heap, heap[p].last) = Reverse(s)
<1>1. s \in Seq(Node) /\ Len(s) \in Nat /\ Len(s) + 1 \in 1 .. Len(s) + 1
  BY DEF IsList
<1>2. Backward(heap, heap[p].last) = Before(s, Len(s) + 1)
  BY <1>1, BackwardIs
<1>3. Before(s, Len(s) + 1) = [j \in 1 .. Len(s) |-> s[Len(s) - j + 1]]
  <2>1. \A j \in 1 .. Len(s) : Len(s) + 1 - j = Len(s) - j + 1
    BY <1>1
  <2>2. Len(s) + 1 - 1 = Len(s)
    BY <1>1
  <2> QED
    BY <2>1, <2>2 DEF Before
<1> QED
  BY <1>2, <1>3 DEF Reverse

LEMMA WalkElements ==
    ASSUME NEW p \in Node, NEW s, IsList(heap, p, s)
    PROVE  /\ \A i \in 1 .. Len(s) : heap[s[i]].label \in Elements
                 => ChildElement(heap, p, Counting(heap, s, i - 1)) = s[i]
           /\ ChildElement(heap, p, Counting(heap, s, Len(s))) = NULL
<1>1. s \in Seq(Node) /\ Len(s) \in Nat
  BY DEF IsList
<1>2. ASSUME NEW i \in 1 .. Len(s), heap[s[i]].label \in Elements
      PROVE  ChildElement(heap, p, Counting(heap, s, i - 1)) = s[i]
  <2>1. i - 1 \in 0 .. Len(s) /\ i - 1 # Len(s) /\ (i - 1) + 1 = i
    BY <1>1
  <2>2. ElementBehind(heap, s, i - 1) = s[i]
    BY <1>1, <1>2, <2>1, ElementBehindIs
  <2> QED
    BY <2>1, <2>2, ChildElementIs
<1>3. ChildElement(heap, p, Counting(heap, s, Len(s))) = NULL
  <2>1. Len(s) \in 0 .. Len(s)
    BY <1>1
  <2>2. ElementBehind(heap, s, Len(s)) = NULL
    BY <1>1, <2>1, ElementBehindIs
  <2>3. ChildElement(heap, p, Counting(heap, s, Len(s))) = ElementBehind(heap, s, Len(s))
    BY <2>1, ChildElementIs
  <2> QED
    BY <2>2, <2>3
<1> QED
  BY <1>2, <1>3

LEMMA WalkOn ==
    ASSUME NEW p \in Node, NEW s, IsList(heap, p, s), NEW i \in 1 .. Len(s)
    PROVE  /\ i = 1 => AnyOf(Onward(heap, heap[p].first)) = s[i]
           /\ i # 1 => AnyOf(Onward(heap, heap[s[i - 1]].next)) = s[i] /\ s[i - 1] # NULL
<1>1. /\ s \in Seq(Node) /\ Len(s) \in Nat /\ i - 1 \in 0 .. Len(s) /\ 1 \in 1 .. Len(s) - (i - 1)
      /\ \A j \in 1 .. Len(s) : s[j] # NULL
  BY Null DEF IsList
<1>2. Behind(s, i - 1) \in Seq(Node)
  BY <1>1, OnwardIs
<1>3. Len(Behind(s, i - 1)) # 0 /\ Behind(s, i - 1)[1] = s[i]
  <2>1. (i - 1) + 1 = i
    OBVIOUS
  <2> QED
    BY <1>1, <2>1 DEF Behind
<1>4. AnyOf(Behind(s, i - 1)) = s[i]
  BY <1>2, <1>3, AnyIs
<1>5. i = 1 => Onward(heap, heap[p].first) = Behind(s, i - 1)
  BY <1>1, OnwardIs
<1>6. ASSUME i # 1 PROVE Onward(heap, heap[s[i - 1]].next) = Behind(s, i - 1) /\ s[i - 1] # NULL
  <2>1. i - 1 \in 0 .. Len(s) /\ i - 1 # 0 /\ i - 1 \in 1 .. Len(s)
    BY <1>1, <1>6
  <2>2. Onward(heap, heap[s[i - 1]].next) = Behind(s, i - 1)
    BY <2>1, NextOnward
  <2> QED
    BY <1>1, <2>1, <2>2
<1> QED
  BY <1>4, <1>5, <1>6

LEMMA WalkTo ==
    ASSUME NEW p \in Node, NEW s, IsList(heap, p, s)
    PROVE  /\ \A i \in 1 .. Len(s) :
                 AnyOf(Backward(heap, heap[s[i]].prev)) = IF i = 1 THEN NULL ELSE s[i - 1]
           /\ Len(s) # 0 => AnyOf(Backward(heap, heap[p].last)) = s[Len(s)]
<1>1. s \in Seq(Node) /\ Len(s) \in Nat
  BY DEF IsList
<1>2. ASSUME NEW i \in 1 .. Len(s) + 1, Before(s, i) \in Seq(Node)
      PROVE  AnyOf(Before(s, i)) = IF i = 1 THEN NULL ELSE s[i - 1]
  <2>1. Len(Before(s, i)) = i - 1 /\ (i # 1 => Before(s, i)[1] = s[i - 1])
    BY <1>1 DEF Before
  <2> QED
    BY <1>2, <2>1, AnyIs
<1>3. ASSUME NEW i \in 1 .. Len(s)
      PROVE  AnyOf(Backward(heap, heap[s[i]].prev)) = IF i = 1 THEN NULL ELSE s[i - 1]
  <2>1. i \in 1 .. Len(s) + 1 /\ i # Len(s) + 1
    BY <1>1
  <2>2. Backward(heap, heap[s[i]].prev) = Before(s, i) /\ Before(s, i) \in Seq(Node)
    BY <2>1, BackwardIs
  <2> QED
    BY <1>2, <2>1, <2>2
<1>4. ASSUME Len(s) # 0 PROVE AnyOf(Backward(heap, heap[p].last)) = s[Len(s)]
  <2>1. Len(s) + 1 \in 1 .. Len(s) + 1 /\ Len(s) + 1 # 1 /\ Len(s) + 1 - 1 = Len(s)
    BY <1>1, <1>4
  <2>2. /\ Backward(heap, heap[p].last) = Before(s, Len(s) + 1)
        /\ Before(s, Len(s) + 1) \in Seq(Node)
    BY <2>1, BackwardIs
  <2> QED
    BY <1>2, <2>1, <2>2
<1> QED
  BY <1>3, <1>4

(* Whatever was called, going through the children of a node from its last *)
(* one is going through them from its first, reversed; the program's loops *)
(* over ChildElement() and NextSiblingElement() meet every element once, in*)
(* order; and IterateChildren(), PreviousSibling() and LastChild() lead    *)
(* where that order says.                                                  *)
THEOREM WalksCorrect == Spec => []WalksAgree
<1>1. ASSUME IInv PROVE WalksAgree
  <2> SUFFICES ASSUME NEW p \in Live(heap)
               PROVE  LET kids == Children(heap, p)
                          ElementsIn(I) == {i \in I : heap[kids[i]].label \in Elements}
                          Always(n) == TRUE
                      IN  /\ Backward(heap, heap[p].last) = Reverse(kids)
                          /\ \A i \in ElementsIn(DOMAIN kids) :
                                ChildElement(heap, p, Cardinality(ElementsIn(1 .. i - 1))) = kids[i]
                          /\ ChildElement(heap, p, Cardinality(ElementsIn(DOMAIN kids))) = NULL
                          /\ \A i \in DOMAIN kids :
                                /\ IterateChildren(heap, p, IF i = 1 THEN NULL ELSE kids[i - 1],
                                                   Always) = kids[i]
                                /\ PreviousSibling(heap, kids[i], Always)
                                      = (IF i = 1 THEN NULL ELSE kids[i - 1])
                          /\ kids # << >> => LastChild(heap, p, Always) = Last(kids)
    BY DEF WalksAgree
  <2> DEFINE s == Children(heap, p)
             ElementsIn(I) == {i \in I : heap[s[i]].label \in Elements}
             Always(n) == TRUE
  <2>1. p \in Node /\ IsList(heap, p, s)
    BY <1>1, ChildrenAre DEF IInv, Live
  <2>2. s \in Seq(Node) /\ Len(s) \in Nat /\ DOMAIN s = 1 .. Len(s)
    BY <2>1 DEF IsList
  <2>3. Backward(heap, heap[p].last) = Reverse(s)
    BY <2>1, WalkBack
  <2>4. /\ \A i \in ElementsIn(DOMAIN s) :
              ChildElement(heap, p, Cardinality(ElementsIn(1 .. i - 1))) = s[i]
        /\ ChildElement(heap, p, Cardinality(ElementsIn(DOMAIN s))) = NULL
    <3>1. \A k : Cardinality(ElementsIn(1 .. k)) = Counting(heap, s, k)
      BY DEF Counting
    <3>2. \A i \in ElementsIn(DOMAIN s) : i \in 1 .. Len(s) /\ heap[s[i]].label \in Elements
      BY <2>2
    <3> HIDE DEF ElementsIn
    <3> QED
      BY <2>1, <2>2, <3>1, <3>2, WalkElements
  <2>5. ASSUME NEW i \in DOMAIN s
        PROVE  IterateChildren(heap, p, IF i = 1 THEN NULL ELSE s[i - 1], Always) = s[i]
    <3> DEFINE previous == IF i = 1 THEN NULL ELSE s[i - 1]
    <3>1. IterateChildren(heap, p, previous, Always)
             = IF previous = NULL THEN AnyOf(Onward(heap, heap[p].first))
               ELSE AnyOf(Onward(heap, heap[previous].next))
      BY Zenon DEF IterateChildren, FirstChild, NextSibling, FirstOf, AnyOf, LeastOf
    <3> QED
      BY <2>1, <2>2, <3>1, WalkOn
  <2>6. ASSUME NEW i \in DOMAIN s
        PROVE  PreviousSibling(heap, s[i], Always) = IF i = 1 THEN NULL ELSE s[i - 1]
    <3>1. PreviousSibling(heap, s[i], Always) = AnyOf(Backward(heap, heap[s[i]].prev))
      BY Zenon DEF PreviousSibling, FirstOf, AnyOf, LeastOf
    <3> QED
      BY <2>1, <2>2, <3>1, WalkTo
  <2>7. s # << >> => LastChild(heap, p, Always) = Last(s)
    <3>1. LastChild(heap, p, Always) = AnyOf(Backward(heap, heap[p].last))
      BY Zenon DEF LastChild, FirstOf, AnyOf, LeastOf
    <3>2. s # << >> => Len(s) # 0
      BY <2>2
    <3> QED
      BY <2>1, <3>1, <3>2, WalkTo DEF Last
  <2> QED
    BY <2>3, <2>4, <2>5, <2>6, <2>7
<1> QED
  BY <1>1, InitTree, NextTree, PTL DEF Spec
-----------------------------------------------------------------------------
(* t is s with m put in as the i-th, or without the i-th.                  *)
WithNode(t, s, i, m) ==
    /\ t \in Seq(Node) /\ Len(t) = Len(s) + 1
    /\ \A j \in 1 .. Len(s) + 1 :
          t[j] = IF j < i THEN s[j] ELSE IF j = i THEN m ELSE s[j - 1]

WithoutNode(t, s, i) ==
    /\ t \in Seq(Node) /\ Len(t) = Len(s) - 1
    /\ \A j \in 1 .. Len(s) - 1 : t[j] = IF j < i THEN s[j] ELSE s[j + 1]

LEMMA InsertAtIs ==
    ASSUME NEW s \in Seq(Node), NEW i \in 1 .. Len(s) + 1, NEW m \in Node
    PROVE  WithNode(InsertAt(s, i, m), s, i, m)
<1> DEFINE a == SubSeq(s, 1, i - 1)
           b == SubSeq(s, i, Len(s))
           ab == a \o <<m>>
<1>1. /\ a \in Seq(Node) /\ Len(a) = i - 1 /\ \A j \in 1 .. i - 1 : a[j] = s[j]
      /\ b \in Seq(Node) /\ Len(b) = Len(s) + 1 - i
      /\ \A j \in 1 .. Len(s) + 1 - i : b[j] = s[i + j - 1]
  OBVIOUS
<1> HIDE DEF a, b
<1>2. /\ ab \in Seq(Node) /\ Len(ab) = i /\ \A j \in 1 .. i - 1 : ab[j] = s[j]
      /\ ab[i] = m
  BY <1>1
<1>3. InsertAt(s, i, m) = ab \o b
  BY DEF InsertAt, a, b
<1> HIDE DEF ab
<1>4. /\ ab \o b \in Seq(Node) /\ Len(ab \o b) = Len(s) + 1
      /\ \A j \in 1 .. i : (ab \o b)[j] = ab[j]
      /\ \A j \in i + 1 .. Len(s) + 1 : (ab \o b)[j] = b[j - i]
  BY <1>1, <1>2
<1>5. \A j \in i + 1 .. Len(s) + 1 : (ab \o b)[j] = s[j - 1]
  <2> TAKE j \in i + 1 .. Len(s) + 1
  <2>1. j - i \in 1 .. Len(s) + 1 - i /\ i + (j - i) - 1 = j - 1
    OBVIOUS
  <2> QED
    BY <1>1, <1>4, <2>1
<1> QED
  BY <1>2, <1>3, <1>4, <1>5 DEF WithNode

LEMMA AppendIs ==
    ASSUME NEW s \in Seq(Node), NEW m \in Node
    PROVE  Append(s, m) = InsertAt(s, Len(s) + 1, m)
<1> DEFINE t == InsertAt(s, Len(s) + 1, m)
<1>1. Len(s) + 1 \in 1 .. Len(s) + 1
  OBVIOUS
<1>2. WithNode(t, s, Len(s) + 1, m)
  BY <1>1, InsertAtIs
<1> HIDE DEF t
<1>3. /\ t \in Seq(Node) /\ Len(t) = Len(s) + 1
      /\ \A j \in 1 .. Len(s) + 1 : t[j] = IF j < Len(s) + 1 THEN s[j] ELSE m
  BY <1>2 DEF WithNode
<1>4. t = Append(s, m)
  BY <1>3
<1> QED
  BY <1>4 DEF t

LEMMA RemoveAtIs ==
    ASSUME NEW s \in Seq(Node), NEW i \in 1 .. Len(s)
    PROVE  WithoutNode(RemoveAt(s, i), s, i)
<1> DEFINE a == SubSeq(s, 1, i - 1)
           b == SubSeq(s, i + 1, Len(s))
<1>1. /\ a \in Seq(Node) /\ Len(a) = i - 1 /\ \A j \in 1 .. i - 1 : a[j] = s[j]
      /\ b \in Seq(Node) /\ Len(b) = Len(s) - i
      /\ \A j \in 1 .. Len(s) - i : b[j] = s[i + j]
  OBVIOUS
<1>2. RemoveAt(s, i) = a \o b
  BY DEF RemoveAt
<1> HIDE DEF a, b
<1>3. /\ a \o b \in Seq(Node) /\ Len(a \o b) = Len(s) - 1
      /\ \A j \in 1 .. i - 1 : (a \o b)[j] = a[j]
      /\ \A j \in i .. Len(s) - 1 : (a \o b)[j] = b[j - (i - 1)]
  <2>1. /\ Len(a \o b) = Len(a) + Len(b) /\ a \o b \in Seq(Node)
        /\ \A j \in 1 .. Len(a) + Len(b) : (a \o b)[j] = IF j <= Len(a) THEN a[j] ELSE b[j - Len(a)]
    BY <1>1, ConcatProperties
  <2> QED
    BY <1>1, <2>1
<1>4. \A j \in i .. Len(s) - 1 : (a \o b)[j] = s[j + 1]
  <2> TAKE j \in i .. Len(s) - 1
  <2>1. j - (i - 1) \in 1 .. Len(s) - i /\ i + (j - (i - 1)) = j + 1
    OBVIOUS
  <2> QED
    BY <1>1, <1>3, <2>1
<1>5. \A j \in 1 .. Len(s) - 1 : (a \o b)[j] = IF j < i THEN s[j] ELSE s[j + 1]
  <2> TAKE j \in 1 .. Len(s) - 1
  <2>1. CASE j < i
    <3>1. j \in 1 .. i - 1
      BY <2>1
    <3>2. (a \o b)[j] = s[j]
      BY <1>1, <1>3, <3>1
    <3> QED
      BY <2>1, <3>2
  <2>2. CASE ~(j < i)
    <3>1. j \in i .. Len(s) - 1
      BY <2>2
    <3>2. (a \o b)[j] = s[j + 1]
      BY <1>4, <3>1
    <3> QED
      BY <2>2, <3>2
  <2> QED
    BY <2>1, <2>2
<1> QED
  BY <1>2, <1>3, <1>5 DEF WithoutNode

(* Where a list is the same: the links of a node's children, and which     *)
(* they are, are the same.                                                 *)
LEMMA ListSame ==
    ASSUME NEW h, NEW g, NEW p \in Node, NEW s, IsList(h, p, s),
           g[p].first = h[p].first, g[p].last = h[p].last,
           \A m \in Node : g[m].parent = p <=> h[m].parent = p,
           \A m \in Node : h[m].parent = p => g[m].prev = h[m].prev /\ g[m].next = h[m].next
    PROVE  IsList(g, p, s)
<1>1. \A i \in 1 .. Len(s) : s[i] \in Node /\ h[s[i]].parent = p
  BY DEF IsList
<1> QED
  BY <1>1 DEF IsList, Links

(* Where x and y stand between which a node is put.                        *)
Between(s, i, x, y) ==
    /\ i \in 1 .. Len(s) + 1
    /\ x = IF i = 1 THEN NULL ELSE s[i - 1]
    /\ y = IF i = Len(s) + 1 THEN NULL ELSE s[i]

LEMMA GapIs ==
    ASSUME NEW h, NEW p, NEW x, NEW y, Gap(h, p, x, y), NEW s, IsList(h, p, s)
    PROVE  \E i : Between(s, i, x, y)
<1>1. p \in Node /\ x \in Place /\ y \in Place /\ NULL \notin Node
  BY Null DEF Gap
<1>2. s \in Seq(Node) /\ Len(s) \in Nat /\ \A i \in 1 .. Len(s) : s[i] \in Node
  BY DEF IsList
<1>3. CASE x = NULL
  <2>1. h[p].first = y
    BY <1>3 DEF Gap
  <2>2. y = Start(s)
    BY <2>1 DEF IsList, Links
  <2>3. Between(s, 1, x, y)
    BY <1>2, <1>3, <2>2 DEF Between, Start
  <2> QED
    BY <2>3
<1>4. CASE x # NULL
  <2>1. x \in Node /\ h[x].parent = p /\ h[x].next = y
    BY <1>1, <1>4 DEF Gap, Place
  <2>2. PICK i \in 1 .. Len(s) : s[i] = x
    BY <2>1 DEF IsList
  <2>3. y = IF i = Len(s) THEN NULL ELSE s[i + 1]
    BY <2>1, <2>2 DEF IsList, Links
  <2>4. Between(s, i + 1, x, y)
    BY <1>2, <2>2, <2>3, <1>4 DEF Between
  <2> QED
    BY <2>4
<1> QED
  BY <1>3, <1>4

LEMMA PutList ==
    ASSUME NEW h, NEW p \in Node, NEW x, NEW y, NEW s, IsList(h, p, s),
           NEW i, Between(s, i, x, y), NEW m \in Node, h[m].parent = NULL,
           NEW g, Tree(g), Put(g, h, p, x, m, y)
    PROVE  IsList(g, p, InsertAt(s, i, m))
<1> DEFINE t == InsertAt(s, i, m)
           L == Len(s)
<1>1. /\ s \in Seq(Node) /\ L \in Nat /\ i \in 1 .. L + 1 /\ NULL \notin Node
      /\ \A j \in 1 .. L : s[j] \in Node /\ h[s[j]].parent = p /\ s[j] # m
  BY Null DEF IsList, Between
<1>2. /\ t \in Seq(Node) /\ Len(t) = L + 1
      /\ \A j \in 1 .. L + 1 : t[j] = IF j < i THEN s[j] ELSE IF j = i THEN m ELSE s[j - 1]
  <2>1. WithNode(t, s, i, m)
    BY <1>1, InsertAtIs
  <2> HIDE DEF t
  <2> QED
    BY <2>1 DEF WithNode
<1>3. \A j, k \in 1 .. L : s[j] = s[k] => j = k
  BY DEF IsList
<1> HIDE DEF t, L
<1>4. \A j, k \in 1 .. L + 1 : t[j] = t[k] => j = k
  <2> SUFFICES ASSUME NEW j \in 1 .. L + 1, NEW k \in 1 .. L + 1, t[j] = t[k], j < k PROVE FALSE
    BY <1>1
  <2>1. /\ i \in Nat /\ j \in Nat /\ k \in Nat /\ L \in Nat
        /\ j < i => j \in 1 .. L
        /\ k > i => k - 1 \in 1 .. L
        /\ j > i => j - 1 \in 1 .. L
        /\ k < i => k \in 1 .. L
    BY <1>1
  <2>2. /\ j < i => t[j] = s[j]
        /\ j = i => t[j] = m
        /\ j > i => t[j] = s[j - 1]
    BY <1>2, <2>1
  <2>3. /\ k < i => t[k] = s[k]
        /\ k = i => t[k] = m
        /\ k > i => t[k] = s[k - 1]
    BY <1>2, <2>1
  <2>4. j # i /\ k # i
    BY <1>1, <2>1, <2>2, <2>3
  <2>5. CASE k < i
    <3>1. j < i
      BY <2>1, <2>5
    <3>2. s[j] = s[k] /\ j \in 1 .. L /\ k \in 1 .. L
      BY <2>1, <2>2, <2>3, <2>5, <3>1
    <3> QED
      BY <1>3, <2>1, <3>2
  <2>6. CASE j < i /\ k > i
    <3>1. s[j] = s[k - 1] /\ j \in 1 .. L /\ k - 1 \in 1 .. L /\ j # k - 1
      BY <2>1, <2>2, <2>3, <2>6
    <3> QED
      BY <1>3, <3>1
  <2>7. CASE j > i
    <3>1. k > i
      BY <2>1, <2>7
    <3>2. s[j - 1] = s[k - 1] /\ j - 1 \in 1 .. L /\ k - 1 \in 1 .. L /\ j - 1 # k - 1
      BY <2>1, <2>2, <2>3, <2>7, <3>1
    <3> QED
      BY <1>3, <3>2
  <2> QED
    BY <2>1, <2>4, <2>5, <2>6, <2>7
<1>5. L + 1 <= N
  <2>1. t \in [1 .. L + 1 -> Node] /\ L + 1 \in Nat
    BY <1>1, <1>2
  <2> HIDE DEF L
  <2> QED
    BY <1>4, <2>1, NotLong
<1>6. ASSUME NEW k \in Node PROVE g[k].parent = p <=> \E j \in 1 .. L + 1 : t[j] = k
  <2>1. g[k].parent = p <=> k = m \/ h[k].parent = p
    BY DEF Put
  <2>2. h[k].parent = p <=> \E j \in 1 .. L : s[j] = k
    BY DEF IsList, L
  <2>3. (\E j \in 1 .. L + 1 : t[j] = k) <=> k = m \/ \E j \in 1 .. L : s[j] = k
    <3>1. ASSUME NEW j \in 1 .. L + 1, t[j] = k PROVE k = m \/ \E o \in 1 .. L : s[o] = k
      <4>1. (j < i => j \in 1 .. L) /\ (j > i => j - 1 \in 1 .. L)
        BY <1>1
      <4> QED
        BY <1>1, <1>2, <3>1, <4>1
    <3>2. ASSUME NEW j \in 1 .. L, s[j] = k PROVE \E o \in 1 .. L + 1 : t[o] = k
      <4>1. CASE j < i
        <5>1. j \in 1 .. L + 1
          BY <1>1
        <5> QED
          BY <1>2, <3>2, <4>1, <5>1
      <4>2. CASE ~(j < i)
        <5>1. j + 1 \in 1 .. L + 1 /\ ~(j + 1 < i) /\ j + 1 # i /\ (j + 1) - 1 = j
          BY <1>1, <4>2
        <5> QED
          BY <1>2, <3>2, <5>1
      <4> QED
        BY <4>1, <4>2
    <3>3. t[i] = m
      BY <1>1, <1>2
    <3> QED
      BY <1>1, <3>1, <3>2, <3>3
  <2> QED
    BY <2>1, <2>2, <2>3
<1>7. /\ h[p].first = (IF L = 0 THEN NULL ELSE s[1]) /\ h[p].last = (IF L = 0 THEN NULL ELSE s[L])
      /\ \A j \in 1 .. L : /\ h[s[j]].prev = IF j = 1 THEN NULL ELSE s[j - 1]
                           /\ h[s[j]].next = IF j = L THEN NULL ELSE s[j + 1]
  BY DEF IsList, Links, Start, End, L
<1>8. /\ x = (IF i = 1 THEN NULL ELSE s[i - 1])
      /\ y = (IF i = L + 1 THEN NULL ELSE s[i])
  BY DEF Between, L
<1>9. g[p].first = t[1] /\ g[p].last = t[L + 1]
  <2>1. 1 \in 1 .. L + 1 /\ L + 1 \in 1 .. L + 1 /\ (i # 1 => i - 1 \in 1 .. L) /\ (i # L + 1 => i \in 1 .. L)
    BY <1>1
  <2>2. (x = NULL <=> i = 1) /\ (y = NULL <=> i = L + 1)
    BY <1>1, <1>8, <2>1
  <2>3. /\ g[p].first = IF i = 1 THEN m ELSE h[p].first
        /\ g[p].last = IF i = L + 1 THEN m ELSE h[p].last
    BY <2>2 DEF Put
  <2> QED
    BY <1>1, <1>2, <1>7, <2>1, <2>3
<1>10. ASSUME NEW j \in 1 .. L + 1
       PROVE  /\ g[t[j]].prev = IF j = 1 THEN NULL ELSE t[j - 1]
              /\ g[t[j]].next = IF j = L + 1 THEN NULL ELSE t[j + 1]
  <2>1. /\ (i # 1 => i - 1 \in 1 .. L) /\ (i # L + 1 => i \in 1 .. L)
        /\ t[j] \in Node
    BY <1>1, <1>2
  <2>2. /\ g[t[j]].prev = IF t[j] = m THEN x ELSE IF t[j] = y THEN m ELSE h[t[j]].prev
        /\ g[t[j]].next = IF t[j] = m THEN y ELSE IF t[j] = x THEN m ELSE h[t[j]].next
    BY <2>1 DEF Put
  <2>3. CASE j = i
    <3>1. /\ t[j] = m /\ (j # 1 => t[j - 1] = s[j - 1]) /\ (j # L + 1 => t[j + 1] = s[j])
      BY <1>1, <1>2, <2>3
    <3> QED
      BY <1>8, <2>2, <2>3, <3>1
  <2>4. CASE j < i
    <3>1. /\ j \in 1 .. L /\ t[j] = s[j] /\ t[j] # m /\ (j # 1 => t[j - 1] = s[j - 1])
          /\ j # L + 1 /\ j + 1 \in 1 .. L + 1
          /\ t[j + 1] = IF j + 1 < i THEN s[j + 1] ELSE m
      BY <1>1, <1>2, <2>4
    <3>2. t[j] # y
      BY <1>1, <1>3, <1>8, <2>1, <2>4, <3>1
    <3>3. t[j] = x <=> j + 1 = i
      BY <1>1, <1>3, <1>8, <2>1, <2>4, <3>1
    <3>4. g[t[j]].prev = h[s[j]].prev
      BY <2>2, <3>1, <3>2
    <3>5. g[t[j]].next = IF j + 1 = i THEN m ELSE h[s[j]].next
      BY <2>2, <3>1, <3>3
    <3>6. j + 1 < i => j # L
      BY <1>1
    <3> QED
      BY <1>1, <1>7, <2>4, <3>1, <3>4, <3>5, <3>6
  <2>5. CASE j > i
    <3> DEFINE k == j - 1
    <3>1. /\ k \in 1 .. L /\ t[j] = s[k] /\ t[j] # m /\ j # 1
          /\ t[j - 1] = IF k = i THEN m ELSE s[k - 1]
          /\ (j # L + 1 => t[j + 1] = s[k + 1])
          /\ (j = L + 1 <=> k = L)
      <4>1. k \in 1 .. L /\ j # 1 /\ (j = L + 1 <=> k = L) /\ j - 1 \in 1 .. L + 1 /\ ~(j - 1 < i)
        BY <1>1, <2>5
      <4>2. t[j] = s[k] /\ t[j] # m
        BY <1>1, <1>2, <2>5, <4>1
      <4>3. t[j - 1] = IF k = i THEN m ELSE s[k - 1]
        BY <1>2, <4>1
      <4>4. j # L + 1 => t[j + 1] = s[k + 1]
        <5>1. j # L + 1 => j + 1 \in 1 .. L + 1 /\ ~(j + 1 < i) /\ j + 1 # i /\ (j + 1) - 1 = k + 1
          BY <1>1, <2>5
        <5> QED
          BY <1>2, <5>1
      <4> QED
        BY <4>1, <4>2, <4>3, <4>4
    <3>2. t[j] # x
      BY <1>1, <1>3, <1>8, <2>1, <2>5, <3>1
    <3>3. t[j] = y <=> k = i
      BY <1>1, <1>3, <1>8, <2>1, <2>5, <3>1
    <3>4. g[t[j]].next = h[s[k]].next
      BY <2>2, <3>1, <3>2
    <3>5. g[t[j]].prev = IF k = i THEN m ELSE h[s[k]].prev
      BY <2>2, <3>1, <3>3
    <3>6. k # i => k # 1
      BY <1>1, <2>5
    <3> HIDE DEF k
    <3> QED
      BY <1>1, <1>7, <3>1, <3>4, <3>5, <3>6
  <2> QED
    BY <1>1, <2>3, <2>4, <2>5
<1>11. IsList(g, p, t)
  BY <1>1, <1>2, <1>4, <1>5, <1>6, <1>9, <1>10 DEF IsList, Links, Start, End
<1> QED
  BY <1>11 DEF t

LEMMA PutOther ==
    ASSUME NEW h, NEW p \in Node, NEW x, NEW y, Gap(h, p, x, y),
           NEW m \in Node, h[m].parent = NULL, NEW g, Put(g, h, p, x, m, y),
           NEW q \in Node, q # p, NEW s, IsList(h, q, s)
    PROVE  IsList(g, q, s)
<1>1. g[q].first = h[q].first /\ g[q].last = h[q].last
  BY DEF Put
<1>2. ASSUME NEW k \in Node
      PROVE  /\ g[k].parent = q <=> h[k].parent = q
             /\ h[k].parent = q => g[k].prev = h[k].prev /\ g[k].next = h[k].next
  <2>1. q # NULL /\ k # NULL
    BY Null
  <2> QED
    BY <2>1 DEF Put, Gap
<1> QED
  BY <1>1, <1>2, ListSame

LEMMA TakenOutOther ==
    ASSUME NEW h, Tree(h), NEW p, NEW o, Child(h, p, o),
           NEW g, TakenOut(g, h, p, h[o].prev, o, h[o].next),
           NEW q \in Node, q # p, NEW s, IsList(h, q, s)
    PROVE  IsList(g, q, s)
<1> DEFINE x == h[o].prev
           y == h[o].next
<1>1. /\ p \in Node /\ o \in Node /\ h[o].parent = p /\ q # NULL
      /\ x # NULL => h[x].parent = p
      /\ y # NULL => h[y].parent = p
  BY ChildPlace, Null DEF Child
<1> HIDE DEF x, y
<1>2. TakenOut(g, h, p, x, o, y)
  BY DEF x, y
<1>3. g[q].first = h[q].first /\ g[q].last = h[q].last
  BY <1>2 DEF TakenOut
<1>4. ASSUME NEW k \in Node
      PROVE  /\ g[k].parent = q <=> h[k].parent = q
             /\ h[k].parent = q => g[k].prev = h[k].prev /\ g[k].next = h[k].next
  <2>1. k # NULL
    BY Null
  <2> QED
    BY <1>1, <1>2, <2>1 DEF TakenOut
<1> QED
  BY <1>3, <1>4, ListSame

LEMMA TakenOutList ==
    ASSUME NEW h, Tree(h), NEW p, NEW o, Child(h, p, o),
           NEW g, TakenOut(g, h, p, h[o].prev, o, h[o].next),
           NEW s, IsList(h, p, s), NEW i \in 1 .. Len(s), s[i] = o
    PROVE  IsList(g, p, RemoveAt(s, i))
<1> DEFINE t == RemoveAt(s, i)
           L == Len(s)
           x == h[o].prev
           y == h[o].next
<1>1. /\ s \in Seq(Node) /\ L \in Nat /\ L <= N /\ i \in 1 .. L /\ NULL \notin Node /\ N \in Nat
      /\ p \in Node /\ o \in Node /\ h[o].parent = p
      /\ \A j \in 1 .. L : s[j] \in Node
      /\ \A j, k \in 1 .. L : s[j] = s[k] => j = k
  BY Null, NodesAssumption DEF IsList, Child
<1>2. /\ t \in Seq(Node) /\ Len(t) = L - 1
      /\ \A j \in 1 .. L - 1 : t[j] = IF j < i THEN s[j] ELSE s[j + 1]
  <2>1. WithoutNode(t, s, i)
    BY <1>1, RemoveAtIs
  <2> HIDE DEF t
  <2> QED
    BY <2>1 DEF WithoutNode
<1>3. /\ h[p].first = (IF L = 0 THEN NULL ELSE s[1]) /\ h[p].last = (IF L = 0 THEN NULL ELSE s[L])
      /\ \A j \in 1 .. L : /\ h[s[j]].prev = IF j = 1 THEN NULL ELSE s[j - 1]
                           /\ h[s[j]].next = IF j = L THEN NULL ELSE s[j + 1]
  BY DEF IsList, Links, Start, End
<1>4. \A k \in Node : h[k].parent = p <=> \E j \in 1 .. L : s[j] = k
  BY DEF IsList
<1> HIDE DEF t, L
<1>5. x = (IF i = 1 THEN NULL ELSE s[i - 1]) /\ y = (IF i = L THEN NULL ELSE s[i + 1])
  BY <1>1, <1>3
<1> HIDE DEF x, y
<1>6. TakenOut(g, h, p, x, o, y)
  BY DEF x, y
<1>7. \A j \in 1 .. L - 1 : /\ j \in Nat /\ i \in Nat
                            /\ j < i => j \in 1 .. L /\ t[j] = s[j]
                            /\ ~(j < i) => j + 1 \in 1 .. L /\ t[j] = s[j + 1]
  BY <1>1, <1>2
<1>8. \A j, k \in 1 .. L - 1 : t[j] = t[k] => j = k
  <2>1. ASSUME NEW j \in 1 .. L - 1, NEW k \in 1 .. L - 1, t[j] = t[k], j < k PROVE FALSE
    <3>1. j \in Nat /\ k \in Nat /\ i \in Nat
      BY <1>7, <2>1
    <3>2. CASE k < i
      <4>1. s[j] = s[k] /\ j \in 1 .. L /\ k \in 1 .. L
        BY <1>7, <2>1, <3>1, <3>2
      <4> QED
        BY <1>1, <2>1, <3>1, <4>1
    <3>3. CASE j < i /\ ~(k < i)
      <4>1. s[j] = s[k + 1] /\ j \in 1 .. L /\ k + 1 \in 1 .. L /\ j # k + 1
        BY <1>7, <2>1, <3>1, <3>3
      <4> QED
        BY <1>1, <2>1, <4>1
    <3>4. CASE ~(j < i) /\ ~(k < i)
      <4>1. s[j + 1] = s[k + 1] /\ j + 1 \in 1 .. L /\ k + 1 \in 1 .. L /\ j + 1 # k + 1
        BY <1>7, <2>1, <3>1, <3>4
      <4> QED
        BY <1>1, <2>1, <4>1
    <3> QED
      BY <2>1, <3>1, <3>2, <3>3, <3>4
  <2>2. \A j, k \in 1 .. L - 1 : t[j] = t[k] => ~(j < k) /\ ~(k < j)
    BY <2>1
  <2>3. L \in Nat
    BY <1>1
  <2> QED
    BY <2>2, <2>3
<1>9. ASSUME NEW k \in Node PROVE g[k].parent = p <=> \E j \in 1 .. L - 1 : t[j] = k
  <2>1. g[k].parent = p <=> k # o /\ h[k].parent = p
    BY <1>1, <1>6, Null DEF TakenOut
  <2>2. (\E j \in 1 .. L - 1 : t[j] = k) <=> k # o /\ \E j \in 1 .. L : s[j] = k
    <3>1. ASSUME NEW j \in 1 .. L - 1, t[j] = k PROVE k # o /\ \E n \in 1 .. L : s[n] = k
      <4>1. CASE j < i
        BY <1>1, <1>7, <3>1, <4>1
      <4>2. CASE ~(j < i)
        <5>1. j + 1 \in 1 .. L /\ k = s[j + 1] /\ j + 1 # i
          BY <1>7, <3>1, <4>2
        <5> QED
          BY <1>1, <5>1
      <4> QED
        BY <4>1, <4>2
    <3>2. ASSUME NEW j \in 1 .. L, s[j] = k, k # o PROVE \E n \in 1 .. L - 1 : t[n] = k
      <4>1. j # i
        BY <3>2
      <4>2. CASE j < i
        <5>1. j \in 1 .. L - 1
          BY <1>1, <4>2
        <5> QED
          BY <1>7, <3>2, <4>2, <5>1
      <4>3. CASE j > i
        <5>1. j - 1 \in 1 .. L - 1 /\ ~(j - 1 < i) /\ (j - 1) + 1 = j
          BY <1>1, <4>3
        <5> QED
          BY <1>7, <3>2, <5>1
      <4> QED
        BY <1>1, <4>1, <4>2, <4>3
    <3> QED
      BY <3>1, <3>2
  <2> QED
    BY <1>4, <2>1, <2>2
<1>10. /\ g[p].first = IF L - 1 = 0 THEN NULL ELSE t[1]
       /\ g[p].last = IF L - 1 = 0 THEN NULL ELSE t[L - 1]
  <2>1. /\ (i # 1 => i - 1 \in 1 .. L) /\ (i # L => i + 1 \in 1 .. L)
        /\ L # 0 /\ 1 \in 1 .. L /\ L \in 1 .. L
    BY <1>1
  <2>2. (x = NULL <=> i = 1) /\ (y = NULL <=> i = L)
    BY <1>1, <1>5, <2>1
  <2>3. /\ g[p].first = IF i = 1 THEN y ELSE h[p].first
        /\ g[p].last = IF i = L THEN x ELSE h[p].last
    BY <1>1, <1>6, <2>2 DEF TakenOut
  <2>4. CASE L = 1
    BY <1>1, <1>5, <2>3, <2>4
  <2>5. CASE L # 1
    <3>1. 1 \in 1 .. L - 1 /\ L - 1 \in 1 .. L - 1 /\ L - 1 # 0 /\ (L - 1) + 1 = L
      BY <1>1, <2>1, <2>5
    <3>2. t[1] = (IF 1 < i THEN s[1] ELSE s[2]) /\ t[L - 1] = (IF L - 1 < i THEN s[L - 1] ELSE s[L])
      BY <1>2, <3>1
    <3>3. g[p].first = t[1]
      <4>1. CASE i = 1
        BY <1>1, <1>5, <2>3, <2>5, <3>2, <4>1
      <4>2. CASE i # 1
        BY <1>1, <1>3, <2>1, <2>3, <3>2, <4>2
      <4> QED
        BY <4>1, <4>2
    <3>4. g[p].last = t[L - 1]
      <4>1. CASE i = L
        <5>1. i # 1 /\ i - 1 = L - 1 /\ L - 1 < i
          BY <1>1, <2>5, <4>1
        <5> QED
          BY <1>5, <2>3, <3>2, <4>1, <5>1
      <4>2. CASE i # L
        <5>1. ~(L - 1 < i)
          BY <1>1, <4>2
        <5> QED
          BY <1>3, <2>1, <2>3, <3>2, <4>2, <5>1
      <4> QED
        BY <4>1, <4>2
    <3> QED
      BY <3>1, <3>3, <3>4
  <2> QED
    BY <2>4, <2>5
<1>11. ASSUME NEW j \in 1 .. L - 1
       PROVE  /\ g[t[j]].prev = IF j = 1 THEN NULL ELSE t[j - 1]
              /\ g[t[j]].next = IF j = L - 1 THEN NULL ELSE t[j + 1]
  <2>0. /\ (i # 1 => i - 1 \in 1 .. L) /\ (i # L => i + 1 \in 1 .. L)
        /\ t[j] \in Node /\ t[j] # o
    BY <1>1, <1>2, <1>7
  <2>1. /\ g[t[j]].prev = IF t[j] = y THEN x ELSE h[t[j]].prev
        /\ g[t[j]].next = IF t[j] = x THEN y ELSE h[t[j]].next
    BY <1>6, <2>0 DEF TakenOut
  <2>2. CASE j < i
    <3>1. /\ j \in 1 .. L /\ t[j] = s[j] /\ (j # 1 => t[j - 1] = s[j - 1]) /\ j # L
      <4>1. j # 1 => j - 1 \in 1 .. L - 1 /\ j - 1 < i
        BY <1>1, <2>2
      <4> QED
        BY <1>1, <1>7, <2>2, <4>1
    <3>2. t[j] # y
      BY <1>1, <1>5, <2>0, <2>2, <3>1
    <3>3. t[j] = x <=> j + 1 = i
      BY <1>1, <1>5, <2>0, <2>2, <3>1
    <3>4. g[t[j]].prev = IF j = 1 THEN NULL ELSE t[j - 1]
      BY <1>3, <2>1, <3>1, <3>2
    <3>5. g[t[j]].next = IF j + 1 = i THEN y ELSE s[j + 1]
      BY <1>3, <2>1, <3>1, <3>3
    <3>6. j # L - 1 => j + 1 \in 1 .. L - 1 /\ t[j + 1] = IF j + 1 < i THEN s[j + 1] ELSE s[j + 2]
      <4>1. j # L - 1 => j + 1 \in 1 .. L - 1 /\ (j + 1) + 1 = j + 2
        BY <1>1
      <4> QED
        BY <1>2, <4>1
    <3>7. CASE j + 1 = i
      <4>1. (j = L - 1 <=> i = L) /\ ~(j + 1 < i) /\ j + 2 = i + 1
        BY <1>1, <3>7
      <4> QED
        BY <1>5, <3>4, <3>5, <3>6, <3>7, <4>1
    <3>8. CASE j + 1 # i
      <4>1. j + 1 < i /\ j # L - 1
        BY <1>1, <2>2, <3>8
      <4> QED
        BY <3>4, <3>5, <3>6, <3>8, <4>1
    <3> QED
      BY <3>7, <3>8
  <2>3. CASE ~(j < i)
    <3>1. /\ j + 1 \in 1 .. L /\ t[j] = s[j + 1] /\ j + 1 # 1 /\ (j + 1 = L <=> j = L - 1)
          /\ (j + 1) - 1 = j /\ (j + 1) + 1 = j + 2
      BY <1>1, <1>7, <2>3
    <3>2. t[j] # x
      BY <1>1, <1>5, <2>0, <2>3, <3>1
    <3>3. t[j] = y <=> j = i
      BY <1>1, <1>5, <2>0, <2>3, <3>1
    <3>4. g[t[j]].next = IF j + 1 = L THEN NULL ELSE s[j + 2]
      BY <1>3, <2>1, <3>1, <3>2
    <3>5. j # L - 1 => t[j + 1] = s[j + 2]
      <4>1. j # L - 1 => j + 1 \in 1 .. L - 1 /\ ~(j + 1 < i)
        BY <1>1, <2>3
      <4> QED
        BY <1>2, <3>1, <4>1
    <3>6. g[t[j]].prev = IF j = i THEN x ELSE s[j]
      BY <1>3, <2>1, <3>1, <3>3
    <3>7. CASE j = i
      <4>1. j # 1 => j - 1 \in 1 .. L - 1 /\ j - 1 < i
        BY <1>1, <3>7
      <4> QED
        BY <1>2, <1>5, <3>1, <3>4, <3>5, <3>6, <3>7, <4>1
    <3>8. CASE j # i
      <4>1. j - 1 \in 1 .. L - 1 /\ ~(j - 1 < i) /\ (j - 1) + 1 = j /\ j # 1
        BY <1>1, <2>3, <3>8
      <4> QED
        BY <1>2, <3>1, <3>4, <3>5, <3>6, <3>8, <4>1
    <3> QED
      BY <3>7, <3>8
  <2> QED
    BY <2>2, <2>3
<1>12. IsList(g, p, t)
  <2>1. L - 1 \in Nat /\ L - 1 <= N
    BY <1>1
  <2> QED
    BY <1>2, <1>8, <1>9, <1>10, <1>11, <2>1 DEF IsList, Links, Start, End
<1> QED
  BY <1>12 DEF t
-----------------------------------------------------------------------------
(* What the steps do to the lists of children.                             *)
LEMMA SameKids ==
    ASSUME NEW h, Tree(h), NEW g, NEW p \in Node,
           g[p].first = h[p].first, g[p].last = h[p].last,
           \A m \in Node : g[m].parent = p <=> h[m].parent = p,
           \A m \in Node : h[m].parent = p => g[m].prev = h[m].prev /\ g[m].next = h[m].next
    PROVE  Children(g, p) = Children(h, p)
<1>1. IsList(h, p, Children(h, p))
  BY ChildrenAre
<1>2. IsList(g, p, Children(h, p))
  BY <1>1, ListSame
<1> QED
  BY <1>2, ListIs

LEMMA NoKids ==
    ASSUME NEW h, Tree(h), NEW p \in Node, h[p].first = NULL
    PROVE  Children(h, p) = << >>
<1> DEFINE s == Children(h, p)
<1>1. IsList(h, p, s)
  BY ChildrenAre
<1> HIDE DEF s
<1>2. s \in Seq(Node) /\ Start(s) = NULL /\ \A i \in 1 .. Len(s) : s[i] # NULL
  BY <1>1, Null DEF IsList, Links
<1>3. Len(s) = 0
  BY <1>2 DEF Start
<1>4. s = << >>
  BY <1>2, <1>3
<1> QED
  BY <1>4 DEF s

(* The children are the nodes whose parent it is.                          *)
LEMMA KidsAre ==
    ASSUME NEW h, Tree(h), NEW p \in Node
    PROVE  LET s == Children(h, p)
           IN  /\ s \in Seq(Node) /\ Len(s) \in Nat
               /\ \A m \in Node : h[m].parent = p <=> \E i \in 1 .. Len(s) : s[i] = m
               /\ \A i, j \in 1 .. Len(s) : s[i] = s[j] => i = j
               /\ Range(s) = {m \in Node : h[m].parent = p}
<1> DEFINE s == Children(h, p)
<1>1. IsList(h, p, s)
  BY ChildrenAre
<1> HIDE DEF s
<1>2. /\ s \in Seq(Node) /\ Len(s) \in Nat
      /\ \A m \in Node : h[m].parent = p <=> \E i \in 1 .. Len(s) : s[i] = m
      /\ \A i, j \in 1 .. Len(s) : s[i] = s[j] => i = j
  BY <1>1 DEF IsList
<1>3. Range(s) = {m \in Node : h[m].parent = p}
  BY <1>2 DEF Range
<1> QED
  BY <1>2, <1>3 DEF s

LEMMA PutKids ==
    ASSUME NEW h, Tree(h), NEW p, NEW x, NEW y, Gap(h, p, x, y),
           NEW m \in Node, h[m].parent = NULL,
           NEW g, Tree(g), Put(g, h, p, x, m, y),
           NEW i, Between(Children(h, p), i, x, y)
    PROVE  /\ Children(g, p) = InsertAt(Children(h, p), i, m)
           /\ \A q \in Node \ {p} : Children(g, q) = Children(h, q)
<1>1. p \in Node
  BY DEF Gap
<1>2. IsList(h, p, Children(h, p))
  BY <1>1, ChildrenAre
<1>3. IsList(g, p, InsertAt(Children(h, p), i, m))
  BY <1>1, <1>2, PutList
<1>4. ASSUME NEW q \in Node \ {p} PROVE Children(g, q) = Children(h, q)
  <2>1. IsList(h, q, Children(h, q))
    BY ChildrenAre
  <2>2. IsList(g, q, Children(h, q))
    BY <1>1, <2>1, PutOther
  <2> QED
    BY <2>2, ListIs
<1> QED
  BY <1>1, <1>3, <1>4, ListIs

LEMMA TakenOutKids ==
    ASSUME NEW h, Tree(h), NEW p, NEW o, Child(h, p, o),
           NEW g, TakenOut(g, h, p, h[o].prev, o, h[o].next),
           NEW i \in 1 .. Len(Children(h, p)), Children(h, p)[i] = o
    PROVE  /\ Children(g, p) = RemoveAt(Children(h, p), i)
           /\ \A q \in Node \ {p} : Children(g, q) = Children(h, q)
<1>1. p \in Node
  BY DEF Child
<1>2. IsList(h, p, Children(h, p))
  BY <1>1, ChildrenAre
<1>3. IsList(g, p, RemoveAt(Children(h, p), i))
  BY <1>1, <1>2, TakenOutList
<1>4. ASSUME NEW q \in Node \ {p} PROVE Children(g, q) = Children(h, q)
  <2>1. IsList(h, q, Children(h, q))
    BY ChildrenAre
  <2>2. IsList(g, q, Children(h, q))
    BY <1>1, <2>1, TakenOutOther
  <2> QED
    BY <2>2, ListIs
<1> QED
  BY <1>1, <1>3, <1>4, ListIs

(* A node taken out leaves the gap where it was.                           *)
LEMMA GapLeft ==
    ASSUME NEW h, Tree(h), NEW p, NEW o, Child(h, p, o),
           NEW i \in 1 .. Len(Children(h, p)), Children(h, p)[i] = o
    PROVE  Between(RemoveAt(Children(h, p), i), i, h[o].prev, h[o].next)
<1> DEFINE s == Children(h, p)
           t == RemoveAt(s, i)
<1>1. p \in Node
  BY DEF Child
<1>2. IsList(h, p, s)
  BY <1>1, ChildrenAre
<1> HIDE DEF s
<1>3. s \in Seq(Node) /\ Len(s) \in Nat /\ i \in 1 .. Len(s) /\ s[i] = o
  BY <1>2 DEF IsList, s
<1>4. /\ h[o].prev = IF i = 1 THEN NULL ELSE s[i - 1]
      /\ h[o].next = IF i = Len(s) THEN NULL ELSE s[i + 1]
  BY <1>2, <1>3 DEF IsList, Links
<1>5. WithoutNode(t, s, i)
  BY <1>3, RemoveAtIs
<1> HIDE DEF t
<1>6. Len(t) = Len(s) - 1 /\ \A j \in 1 .. Len(s) - 1 : t[j] = IF j < i THEN s[j] ELSE s[j + 1]
  BY <1>5 DEF WithoutNode
<1>7. i # 1 => t[i - 1] = s[i - 1]
  <2>1. i # 1 => i - 1 \in 1 .. Len(s) - 1 /\ i - 1 < i
    BY <1>3
  <2> QED
    BY <1>6, <2>1
<1>8. i # Len(s) => t[i] = s[i + 1]
  <2>1. i # Len(s) => i \in 1 .. Len(s) - 1 /\ ~(i < i)
    BY <1>3
  <2> QED
    BY <1>6, <2>1
<1>9. i \in 1 .. Len(t) + 1 /\ (i = Len(t) + 1 <=> i = Len(s))
  BY <1>3, <1>6
<1>10. Between(t, i, h[o].prev, h[o].next)
  BY <1>4, <1>7, <1>8, <1>9 DEF Between
<1> QED
  BY <1>10 DEF t, s

(* Out and in at the same place is a change.                               *)
LEMMA OutAndIn ==
    ASSUME NEW s \in Seq(Node), NEW i \in 1 .. Len(s), NEW m \in Node
    PROVE  InsertAt(RemoveAt(s, i), i, m) = [s EXCEPT ![i] = m]
<1> DEFINE t == RemoveAt(s, i)
           u == InsertAt(t, i, m)
<1>1. WithoutNode(t, s, i)
  BY RemoveAtIs
<1> HIDE DEF t
<1>2. /\ Len(s) \in Nat /\ t \in Seq(Node) /\ Len(t) = Len(s) - 1
      /\ \A j \in 1 .. Len(s) - 1 : t[j] = IF j < i THEN s[j] ELSE s[j + 1]
  BY <1>1 DEF WithoutNode
<1>3. WithNode(u, t, i, m)
  <2>1. i \in 1 .. Len(t) + 1
    BY <1>2
  <2> QED
    BY <1>2, <2>1, InsertAtIs
<1> HIDE DEF u
<1>4. /\ u \in Seq(Node) /\ Len(u) = Len(s)
      /\ \A j \in 1 .. Len(s) : u[j] = IF j < i THEN t[j] ELSE IF j = i THEN m ELSE t[j - 1]
  BY <1>2, <1>3 DEF WithNode
<1>5. ASSUME NEW j \in 1 .. Len(s) PROVE u[j] = IF j = i THEN m ELSE s[j]
  <2>1. CASE j < i
    <3>1. j \in 1 .. Len(s) - 1
      BY <1>2, <2>1
    <3> QED
      BY <1>2, <1>4, <2>1, <3>1
  <2>2. CASE j = i
    BY <1>4, <2>2
  <2>3. CASE j > i
    <3>1. j - 1 \in 1 .. Len(s) - 1 /\ ~(j - 1 < i) /\ (j - 1) + 1 = j
      BY <1>2, <2>3
    <3> QED
      BY <1>2, <1>4, <2>3, <3>1
  <2> QED
    BY <2>1, <2>2, <2>3
<1>6. u = [s EXCEPT ![i] = m]
  BY <1>4, <1>5
<1> QED
  BY <1>6 DEF u, t

(* A subtree is the least set with its top, and with each node whose       *)
(* parent it has.                                                          *)
LEMMA SubtreeLeast ==
    ASSUME NEW h, Tree(h), NEW n \in Node, NEW S, n \in S,
           \A m \in Node : h[m].parent \in S => m \in S
    PROVE  Subtree(h, n) \subseteq S
<1> DEFINE C == Subtree(h, n) \ S
<1>1. SUFFICES ASSUME C # {} PROVE FALSE
  OBVIOUS
<1>2. C \in SUBSET Node
  BY BelowIs DEF Subtree, Live
<1>3. PICK m \in C : h[m].parent \notin C
  BY <1>1, <1>2, Zenon DEF Tree, NoLoops
<1>4. m \in Below(h, n) /\ m \in Node
  BY <1>2, <1>3 DEF Subtree
<1>5. h[m].parent \in Subtree(h, n)
  BY <1>4, BelowIs
<1> QED
  BY <1>3, <1>4, <1>5

LEMMA SubtreeIs ==
    ASSUME NEW h, Tree(h), NEW n \in Node
    PROVE  /\ Subtree(h, n) \in SUBSET Node /\ n \in Subtree(h, n) /\ NULL \notin Subtree(h, n)
           /\ \A m \in Node : m \in Subtree(h, n) <=> m = n \/ h[m].parent \in Subtree(h, n)
           /\ h[n].parent \notin Subtree(h, n)
           /\ n \in Live(h) => Subtree(h, n) \subseteq Live(h)
BY BelowIs, NotBelow, Null DEF Subtree, Live

LEMMA SubtreeWithin ==
    ASSUME NEW h, Tree(h), NEW g, Tree(g), NEW o \in Node,
           \A m \in Node \ {o} : g[m].parent \in Subtree(h, o) => h[m].parent \in Subtree(h, o)
    PROVE  Subtree(g, o) \subseteq Subtree(h, o)
<1> DEFINE S == Subtree(h, o)
<1>1. o \in S /\ \A m \in Node : m \in S <=> m = o \/ h[m].parent \in S
  BY SubtreeIs
<1>2. \A m \in Node : g[m].parent \in S => m \in S
  BY <1>1
<1> HIDE DEF S
<1>3. Subtree(g, o) \subseteq S
  BY <1>1, <1>2, SubtreeLeast
<1> QED
  BY <1>3 DEF S

(* The nodes of a subtree that is copied, and their copies.                *)
LEMMA CopyIs ==
    ASSUME NEW h, Tree(h), NEW n \in Live(h), NEW c, CopyMap(h, n, c)
    PROVE  LET S == Subtree(h, n)
           IN  /\ DOMAIN c = S /\ S \in SUBSET Live(h) /\ n \in S /\ n \in Node
               /\ \A o \in S : c[o] \in Fresh(h) /\ c[o] \in Node /\ h[c[o]] = Zeroes /\ c[o] # NULL
               /\ \A a, b \in S : c[a] = c[b] => a = b
<1>1. n \in Node /\ \A m \in Node : Agrees(h, m) /\ m # NULL
  BY Null DEF Live, Tree
<1>2. Subtree(h, n) \in SUBSET Live(h) /\ n \in Subtree(h, n)
  BY <1>1, SubtreeIs
<1>3. \A m \in Fresh(h) : m \in Node /\ h[m] = Zeroes
  BY <1>1 DEF Fresh, Live, Agrees
<1> QED
  BY <1>1, <1>2, <1>3 DEF CopyMap

CopiesKids(g, h, c, o) ==
    Children(g, c[o]) = [i \in DOMAIN Children(h, o) |-> c[Children(h, o)[i]]]

LEMMA CopiedKids ==
    ASSUME NEW h, Tree(h), NEW n \in Live(h), NEW c, CopyMap(h, n, c),
           NEW g, Copied(g, h, n, c), NEW o \in Subtree(h, n)
    PROVE  CopiesKids(g, h, c, o)
<1> DEFINE S == Subtree(h, n)
           s == Children(h, o)
           L == Len(s)
           t == [i \in DOMAIN s |-> c[s[i]]]
<1>1. /\ DOMAIN c = S /\ n \in Node /\ n \in S /\ o \in Node /\ S \in SUBSET Node
      /\ \A k \in S : c[k] \in Node /\ h[c[k]] = Zeroes /\ c[k] # NULL
      /\ \A a, b \in S : c[a] = c[b] => a = b
  BY CopyIs DEF Live
<1>2. /\ NULL \notin S /\ h[n].parent \notin S
      /\ \A m \in Node : m \in S <=> m = n \/ h[m].parent \in S
  BY <1>1, SubtreeIs
<1>3. IsList(h, o, s)
  BY <1>1, ChildrenAre
<1> HIDE DEF s, S
<1>4. /\ s \in Seq(Node) /\ L \in Nat /\ L <= N /\ DOMAIN s = 1 .. L
      /\ \A i, j \in 1 .. L : s[i] = s[j] => i = j
      /\ \A m \in Node : h[m].parent = o <=> \E i \in 1 .. L : s[i] = m
  BY <1>3 DEF IsList
<1>5. o \in S
  BY DEF S
<1>6. \A i \in 1 .. L : s[i] \in Node /\ s[i] \in S /\ s[i] # n
  <2> TAKE i \in 1 .. L
  <2>1. s[i] \in Node /\ h[s[i]].parent = o
    BY <1>4
  <2> QED
    BY <1>2, <1>5, <2>1
<1>7. t \in Seq(Node) /\ Len(t) = L /\ \A i \in 1 .. L : t[i] = c[s[i]]
  BY <1>1, <1>4, <1>6
<1> HIDE DEF t, L
<1>8. \A i, j \in 1 .. L : t[i] = t[j] => i = j
  BY <1>1, <1>4, <1>6, <1>7
<1>9. /\ \A k \in Node : (\A b \in S : c[b] # k) => g[k] = h[k]
      /\ \A k \in S : /\ g[c[k]].parent = Aside(c, k, n, h[k].parent)
                      /\ g[c[k]].first  = Toward(c, h[k].first)
                      /\ g[c[k]].last   = Toward(c, h[k].last)
                      /\ g[c[k]].prev   = Aside(c, k, n, h[k].prev)
                      /\ g[c[k]].next   = Aside(c, k, n, h[k].next)
  BY DEF Copied, S
<1>10. ASSUME NEW m \in Node PROVE g[m].parent = c[o] <=> \E i \in 1 .. L : t[i] = m
  <2>1. CASE \A b \in S : c[b] # m
    <3>1. \A i \in 1 .. L : t[i] # m
      BY <1>6, <1>7, <2>1
    <3>2. g[m].parent # c[o]
      <4>1. g[m] = h[m] /\ Agrees(h, m) /\ c[o] # NULL /\ h[c[o]].label = Free
        BY <1>1, <1>5, <1>9, <2>1, ZeroesAre DEF Tree
      <4> QED
        BY <4>1 DEF Agrees
    <3> QED
      BY <3>1, <3>2
  <2>2. ASSUME NEW k \in S, c[k] = m PROVE g[m].parent = c[o] <=> \E i \in 1 .. L : t[i] = m
    <3>1. CASE k = n
      <4>1. g[m].parent = NULL
        BY <1>9, <2>2, <3>1 DEF Aside
      <4>2. \A i \in 1 .. L : t[i] # m
        BY <1>1, <1>6, <1>7, <2>2, <3>1
      <4> QED
        BY <1>1, <1>5, <4>1, <4>2
    <3>2. CASE k # n
      <4>1. h[k].parent \in S
        BY <1>1, <1>2, <3>2
      <4>2. g[m].parent = c[h[k].parent]
        BY <1>1, <1>9, <2>2, <3>2, <4>1 DEF Aside, Toward
      <4>3. g[m].parent = c[o] <=> h[k].parent = o
        BY <1>1, <1>5, <4>1, <4>2
      <4>4. (\E i \in 1 .. L : t[i] = m) <=> \E i \in 1 .. L : s[i] = k
        BY <1>1, <1>6, <1>7, <2>2
      <4> QED
        BY <1>1, <1>4, <4>3, <4>4
    <3> QED
      BY <3>1, <3>2
  <2> QED
    BY <2>1, <2>2
<1>11. /\ h[o].first = (IF L = 0 THEN NULL ELSE s[1]) /\ h[o].last = (IF L = 0 THEN NULL ELSE s[L])
       /\ \A j \in 1 .. L : /\ h[s[j]].prev = IF j = 1 THEN NULL ELSE s[j - 1]
                            /\ h[s[j]].next = IF j = L THEN NULL ELSE s[j + 1]
  BY <1>3 DEF IsList, Links, Start, End, L
<1>12. /\ Toward(c, NULL) = NULL
       /\ \A i \in 1 .. L : Toward(c, s[i]) = t[i]
  BY <1>1, <1>2, <1>6, <1>7 DEF Toward
<1>13. /\ g[c[o]].first = IF L = 0 THEN NULL ELSE t[1]
       /\ g[c[o]].last = IF L = 0 THEN NULL ELSE t[L]
  <2>1. L # 0 => 1 \in 1 .. L /\ L \in 1 .. L
    BY <1>4
  <2> QED
    BY <1>5, <1>9, <1>11, <1>12, <2>1
<1>14. ASSUME NEW i \in 1 .. L
       PROVE  /\ g[t[i]].prev = IF i = 1 THEN NULL ELSE t[i - 1]
              /\ g[t[i]].next = IF i = L THEN NULL ELSE t[i + 1]
  <2>1. (i # 1 => i - 1 \in 1 .. L) /\ (i # L => i + 1 \in 1 .. L)
    BY <1>4
  <2>2. t[i] = c[s[i]] /\ s[i] \in S /\ s[i] # n
    BY <1>6, <1>7
  <2>3. g[t[i]].prev = Toward(c, h[s[i]].prev) /\ g[t[i]].next = Toward(c, h[s[i]].next)
    BY <1>9, <2>2 DEF Aside
  <2> QED
    BY <1>11, <1>12, <2>1, <2>3
<1>15. IsList(g, c[o], t)
  BY <1>4, <1>7, <1>8, <1>10, <1>13, <1>14 DEF IsList, Links, Start, End
<1>16. Children(g, c[o]) = t
  BY <1>1, <1>5, <1>15, ListIs
<1> QED
  BY <1>16 DEF t, s, CopiesKids

LEMMA CopiedOther ==
    ASSUME NEW h, Tree(h), NEW n \in Live(h), NEW c, CopyMap(h, n, c),
           NEW g, Copied(g, h, n, c), NEW q \in Node, \A o \in Subtree(h, n) : c[o] # q
    PROVE  Children(g, q) = Children(h, q)
<1> DEFINE S == Subtree(h, n)
<1>1. /\ DOMAIN c = S /\ n \in S /\ q # NULL
      /\ \A k \in S : h[c[k]].parent = NULL
  BY CopyIs, ZeroesAre, Null
<1> HIDE DEF S
<1>2. /\ \A k \in Node : (\A b \in S : c[b] # k) => g[k] = h[k]
      /\ \A k \in S : g[c[k]].parent = Aside(c, k, n, h[k].parent)
  BY DEF Copied, S
<1>3. \A o \in S : c[o] # q
  BY DEF S
<1>4. ASSUME NEW m \in Node
      PROVE  /\ g[m].parent = q <=> h[m].parent = q
             /\ h[m].parent = q => g[m].prev = h[m].prev /\ g[m].next = h[m].next
  <2>1. CASE \A b \in S : c[b] # m
    BY <1>2, <2>1
  <2>2. ASSUME NEW k \in S, c[k] = m PROVE h[m].parent # q /\ g[m].parent # q
    BY <1>1, <1>2, <1>3, <2>2 DEF Aside, Toward
  <2> QED
    BY <2>1, <2>2
<1>5. g[q] = h[q]
  BY <1>2, <1>3
<1> QED
  BY <1>4, <1>5, SameKids

LEMMA ClearedKids ==
    ASSUME NEW h, Tree(h), NEW p \in Node, NEW g, Emptied(g, h, p)
    PROVE  /\ \A q \in Subtree(h, p) : Children(g, q) = << >>
           /\ \A q \in Node \ Subtree(h, p) : Children(g, q) = Children(h, q)
<1>1. Tree(g)
  BY EmptiedKeeps
<1>2. /\ Subtree(h, p) = {p} \union Below(h, p) /\ Below(h, p) \in SUBSET Node /\ p \notin Below(h, p)
      /\ \A m \in Node : m \in Below(h, p) <=> h[m].parent \in Subtree(h, p)
  BY BelowIs, NotBelow DEF Subtree, Live
<1>3. ASSUME NEW q \in Subtree(h, p) PROVE Children(g, q) = << >>
  <2>1. q \in Node /\ g[q].first = NULL
    BY <1>2, ZeroesAre DEF Emptied
  <2> QED
    BY <1>1, <2>1, NoKids
<1>4. ASSUME NEW q \in Node \ Subtree(h, p) PROVE Children(g, q) = Children(h, q)
  <2>1. g[q].first = h[q].first /\ g[q].last = h[q].last /\ q # NULL
    BY <1>2, Null DEF Emptied
  <2>2. ASSUME NEW m \in Node
        PROVE  /\ g[m].parent = q <=> h[m].parent = q
               /\ h[m].parent = q => g[m].prev = h[m].prev /\ g[m].next = h[m].next
    BY <1>2, <2>1, ZeroesAre DEF Emptied
  <2> QED
    BY <2>1, <2>2, SameKids
<1> QED
  BY <1>3, <1>4

LEMMA DeletedKids ==
    ASSUME NEW h, Tree(h), NEW n \in Node, h[n].parent = NULL
    PROVE  LET g == Deleted(h, Subtree(h, n))
           IN  /\ \A q \in Subtree(h, n) : g[q].label = Free /\ Children(g, q) = << >>
               /\ \A q \in Node \ Subtree(h, n) :
                     g[q].label = h[q].label /\ Children(g, q) = Children(h, q)
<1> DEFINE S == Subtree(h, n)
           g == Deleted(h, S)
<1>1. Tree(g)
  BY DeletedKeeps
<1>2. /\ S \in SUBSET Node /\ NULL \notin S
      /\ \A m \in Node : m \in S <=> m = n \/ h[m].parent \in S
  BY SubtreeIs
<1>3. \A m \in Node : g[m] = IF m \in S THEN Zeroes ELSE h[m]
  BY DEF Deleted
<1> HIDE DEF S, g
<1>4. ASSUME NEW q \in S PROVE g[q].label = Free /\ Children(g, q) = << >>
  <2>1. q \in Node /\ g[q].first = NULL /\ g[q].label = Free
    BY <1>2, <1>3, ZeroesAre
  <2> QED
    BY <1>1, <2>1, NoKids
<1>5. ASSUME NEW q \in Node \ S PROVE g[q].label = h[q].label /\ Children(g, q) = Children(h, q)
  <2>1. g[q] = h[q] /\ q # NULL
    BY <1>3, Null
  <2>2. ASSUME NEW m \in Node
        PROVE  /\ g[m].parent = q <=> h[m].parent = q
               /\ h[m].parent = q => g[m].prev = h[m].prev /\ g[m].next = h[m].next
    BY <1>2, <1>3, <2>1, ZeroesAre
  <2> QED
    BY <2>1, <2>2, SameKids
<1> QED
  BY <1>4, <1>5 DEF S, g
-----------------------------------------------------------------------------
(* The forest of a heap, and what a step makes of it.                      *)
Becoming(g, h, gone, c, p, now) ==
    /\ \A m \in Node : (\A o \in DOMAIN c : c[o] # m) =>
          /\ g[m].label = IF m \in gone THEN Free ELSE h[m].label
          /\ Children(g, m) = IF m \in gone THEN << >> ELSE IF m = p THEN now ELSE Children(h, m)
    /\ \A o \in DOMAIN c :
          /\ g[c[o]].label = h[o].label
          /\ CopiesKids(g, h, c, o)

LEMMA ForestSubtree ==
    ASSUME Tree(heap), NEW n \in Node
    PROVE  Forest!Subtree(n) = Subtree(heap, n)
<1> DEFINE K == [p \in Node |-> Children(heap, p)]
           links == UNION {{p} \X Range(K[p]) : p \in Node}
           closed == {S \in SUBSET Node : n \in S /\ \A l \in links : l[1] \in S => l[2] \in S}
<1>1. Forest!Subtree(n) = {m \in Node : \A S \in closed : m \in S}
  BY DEF Forest!Subtree, Forest!Node, Node, Forest!Range, Range
<1>2. \A p \in Node : Range(K[p]) = {m \in Node : heap[m].parent = p}
  BY KidsAre
<1> HIDE DEF K
<1>3. \A l : l \in links <=> \E p \in Node, m \in Node : heap[m].parent = p /\ l = <<p, m>>
  BY <1>2
<1> HIDE DEF links
<1>4. \A S \in SUBSET Node :
         (\A l \in links : l[1] \in S => l[2] \in S)
            <=> \A m \in Node : heap[m].parent \in S => m \in S
  <2> TAKE S \in SUBSET Node
  <2>1. ASSUME \A l \in links : l[1] \in S => l[2] \in S, NEW m \in Node, heap[m].parent \in S
        PROVE  m \in S
    <3>1. heap[m].parent \in Node /\ <<heap[m].parent, m>> \in links
      BY <1>3, <2>1
    <3> QED
      BY <2>1, <3>1
  <2>2. ASSUME \A m \in Node : heap[m].parent \in S => m \in S, NEW l \in links, l[1] \in S
        PROVE  l[2] \in S
    BY <1>3, <2>2
  <2> QED
    BY <2>1, <2>2
<1>5. \A S \in closed : Subtree(heap, n) \subseteq S
  <2> TAKE S \in closed
  <2>1. S \in SUBSET Node /\ n \in S /\ \A m \in Node : heap[m].parent \in S => m \in S
    BY <1>4
  <2> QED
    BY <2>1, SubtreeLeast
<1>6. Subtree(heap, n) \in closed
  <2>1. /\ Subtree(heap, n) \in SUBSET Node /\ n \in Subtree(heap, n)
        /\ \A m \in Node : heap[m].parent \in Subtree(heap, n) => m \in Subtree(heap, n)
    BY SubtreeIs
  <2> QED
    BY <1>4, <2>1
<1>7. Subtree(heap, n) \in SUBSET Node
  BY SubtreeIs
<1> HIDE DEF closed
<1> QED
  BY <1>1, <1>5, <1>6, <1>7

LEMMA ForestLive ==
    Forest!Node = Node /\ Forest!Live = Live(heap) /\ Forest!Fresh = Fresh(heap)
BY DEF Forest!Node, Node, Forest!Live, Live, Forest!Fresh, Fresh, Forest!Free, Free

LEMMA ForestKid ==
    ASSUME Tree(heap), NEW n \in Node
    PROVE  Forest!IsKid(n) <=> heap[n].parent # NULL
<1>1. Forest!IsKid(n) <=> \E p \in Live(heap) : n \in Range(Children(heap, p))
  BY ForestLive DEF Forest!IsKid, Live, Forest!Range, Range
<1>2. \A p \in Live(heap) : n \in Range(Children(heap, p)) <=> heap[n].parent = p
  BY KidsAre DEF Live
<1>3. heap[n].parent # NULL => heap[n].parent \in Live(heap)
  BY Fields DEF Tree, Agrees, Live, Place
<1> QED
  BY <1>1, <1>2, <1>3, Null DEF Live

(* The same, as the forest puts it.                                        *)
Outcome(g, h, gone, c, p, now) ==
    LET L == [n \in Node |-> h[n].label]
        K == [n \in Node |-> Children(h, n)]
        left(m) == IF m = p THEN now ELSE K[m]
        new(m) == [i \in DOMAIN K[Forest!Original(c, m)] |-> c[K[Forest!Original(c, m)][i]]]
    IN  \A m \in Node :
          /\ g[m].label = IF m \in Range(c) THEN L[Forest!Original(c, m)]
                          ELSE IF m \in gone THEN Free ELSE L[m]
          /\ Children(g, m) = IF m \in Range(c) THEN new(m)
                              ELSE IF m \in gone THEN << >> ELSE left(m)

LEMMA OutcomeIs ==
    ASSUME NEW h, NEW g, NEW gone, NEW c, NEW p, NEW now, Becoming(g, h, gone, c, p, now),
           \A a, b \in DOMAIN c : c[a] = c[b] => a = b, DOMAIN c \subseteq Node
    PROVE  Outcome(g, h, gone, c, p, now)
<1> DEFINE L == [n \in Node |-> h[n].label]
           K == [n \in Node |-> Children(h, n)]
           left(m) == IF m = p THEN now ELSE K[m]
           new(m) == [i \in DOMAIN K[Forest!Original(c, m)] |-> c[K[Forest!Original(c, m)][i]]]
<1>1. /\ \A m : m \in Range(c) <=> \E o \in DOMAIN c : c[o] = m
      /\ \A o \in DOMAIN c : Forest!Original(c, c[o]) = o
  <2>1. ASSUME NEW o \in DOMAIN c PROVE Forest!Original(c, c[o]) = o
    BY <2>1 DEF Forest!Original
  <2> QED
    BY <2>1 DEF Range
<1>2. ASSUME NEW m \in Node
      PROVE  g[m].label = IF m \in Range(c) THEN L[Forest!Original(c, m)]
                          ELSE IF m \in gone THEN Free ELSE L[m]
  <2>1. CASE m \in Range(c)
    <3>1. PICK o \in DOMAIN c : c[o] = m
      BY <1>1, <2>1
    <3> QED
      BY <1>1, <2>1, <3>1 DEF Becoming
  <2>2. CASE m \notin Range(c)
    BY <1>1, <2>2 DEF Becoming
  <2> QED
    BY <2>1, <2>2
<1>3. ASSUME NEW m \in Node
      PROVE  Children(g, m) = IF m \in Range(c) THEN new(m)
                              ELSE IF m \in gone THEN << >> ELSE left(m)
  <2>1. CASE m \in Range(c)
    <3>1. PICK o \in DOMAIN c : c[o] = m
      BY <1>1, <2>1
    <3>2. Forest!Original(c, m) = o /\ o \in Node
      BY <1>1, <3>1
    <3> QED
      BY <2>1, <3>1, <3>2 DEF Becoming, CopiesKids
  <2>2. CASE m \notin Range(c)
    BY <1>1, <2>2 DEF Becoming
  <2> QED
    BY <2>1, <2>2
<1> QED
  BY <1>2, <1>3 DEF Outcome
-----------------------------------------------------------------------------
(* Only documents and elements have children.                              *)
HoldersOnly(h) == \A p \in Node : Children(h, p) # << >> => h[p].label \in Holders

LEMMA HoldersKept ==
    ASSUME NEW h, HoldersOnly(h), NEW g, NEW gone, NEW c, NEW p, NEW now,
           Becoming(g, h, gone, c, p, now), DOMAIN c \subseteq Node,
           p \in Node /\ now # << >> => h[p].label \in Holders
    PROVE  HoldersOnly(g)
<1> SUFFICES ASSUME NEW m \in Node, Children(g, m) # << >> PROVE g[m].label \in Holders
  BY DEF HoldersOnly
<1>1. CASE \A o \in DOMAIN c : c[o] # m
  <2>1. m \notin gone /\ g[m].label = h[m].label
    BY <1>1 DEF Becoming
  <2>2. Children(g, m) = IF m = p THEN now ELSE Children(h, m)
    BY <1>1, <2>1 DEF Becoming
  <2> QED
    BY <2>1, <2>2 DEF HoldersOnly
<1>2. ASSUME NEW o \in DOMAIN c, c[o] = m PROVE g[m].label \in Holders
  <2> DEFINE s == Children(h, o)
  <2>1. g[m].label = h[o].label /\ Children(g, m) = [i \in DOMAIN s |-> c[s[i]]]
    BY <1>2 DEF Becoming, CopiesKids
  <2> HIDE DEF s
  <2>2. s # << >>
    <3>1. SUFFICES ASSUME s = << >> PROVE FALSE
      OBVIOUS
    <3>2. [i \in DOMAIN s |-> c[s[i]]] = << >>
      BY <3>1
    <3> QED
      BY <2>1, <3>2
  <2> QED
    BY <2>1, <2>2 DEF HoldersOnly, s
<1> QED
  BY <1>1, <1>2

LEMMA HasKids ==
    ASSUME NEW h, Tree(h), HoldersOnly(h), NEW p, NEW o, Child(h, p, o)
    PROVE  /\ h[p].label \in Holders
           /\ \E i \in 1 .. Len(Children(h, p)) : Children(h, p)[i] = o
<1> DEFINE s == Children(h, p)
<1>1. p \in Node /\ o \in Node /\ h[o].parent = p
  BY DEF Child
<1>2. PICK i \in 1 .. Len(s) : s[i] = o
  BY <1>1, KidsAre
<1>3. s # << >>
  <2> HIDE DEF s
  <2>1. SUFFICES ASSUME s = << >> PROVE FALSE
    OBVIOUS
  <2>2. Len(s) = 0
    BY <2>1
  <2> QED
    BY <1>2, <2>2
<1> QED
  BY <1>1, <1>2, <1>3 DEF HoldersOnly

LEMMA NewKids ==
    ASSUME NEW h, Tree(h), NEW n \in Fresh(h), NEW l \in Label, NEW q \in Node
    PROVE  Children([h EXCEPT ![n] = NewNode(l)], q) = Children(h, q)
<1> DEFINE g == [h EXCEPT ![n] = NewNode(l)]
<1>1. n \in Node /\ h[n] = Zeroes /\ q # NULL /\ h \in Heaps
  BY Null DEF Fresh, Live, Tree, Agrees
<1>2. /\ g[n] = NewNode(l)
      /\ \A m \in Node \ {n} : g[m] = h[m]
  BY <1>1 DEF Heaps
<1>3. \A m \in Node : /\ g[m].parent = h[m].parent /\ g[m].first = h[m].first
                      /\ g[m].last = h[m].last /\ g[m].prev = h[m].prev /\ g[m].next = h[m].next
  BY <1>1, <1>2, ZeroesAre DEF NewNode
<1> HIDE DEF g
<1>4. Children(g, q) = Children(h, q)
  BY <1>3, SameKids
<1> QED
  BY <1>4 DEF g

LEMMA CopyDone ==
    ASSUME Tree(heap), NEW n \in Live(heap), Room(heap, n)
    PROVE  LET c == Copying(heap, n)
           IN  CopyMap(heap, n, c) /\ Copied(Cloned(heap, n, c), heap, n, c)
<1>1. CopyMap(heap, n, Copying(heap, n))
  BY CopyingIs DEF Live
<1> QED
  BY <1>1, ClonedIs

LEMMA ForestCopies ==
    ASSUME Tree(heap), NEW n \in Live(heap), NEW c, CopyMap(heap, n, c)
    PROVE  /\ c \in Forest!Copies(n)
           /\ DOMAIN c \subseteq Node /\ \A a, b \in DOMAIN c : c[a] = c[b] => a = b
<1>1. Forest!Subtree(n) = Subtree(heap, n) /\ Forest!Fresh = Fresh(heap)
  BY ForestSubtree, ForestLive DEF Live
<1>2. c \in Forest!Copies(n)
  BY <1>1 DEF Forest!Copies, CopyMap
<1> QED
  BY <1>2, CopyIs DEF Live

(* A copy by itself.                                                       *)
LEMMA CopyBecoming ==
    ASSUME NEW h, Tree(h), NEW n \in Live(h), NEW c, CopyMap(h, n, c),
           NEW g, Copied(g, h, n, c)
    PROVE  \A p : Becoming(g, h, {}, c, p, Children(h, p))
<1> TAKE p
<1>1. DOMAIN c = Subtree(h, n)
  BY CopyIs
<1>2. ASSUME NEW m \in Node, \A o \in DOMAIN c : c[o] # m
      PROVE  g[m].label = h[m].label /\ Children(g, m) = Children(h, m)
  <2>1. g[m] = h[m]
    BY <1>1, <1>2 DEF Copied
  <2> QED
    BY <1>1, <1>2, <2>1, CopiedOther
<1>3. ASSUME NEW o \in DOMAIN c PROVE g[c[o]].label = h[o].label /\ CopiesKids(g, h, c, o)
  <2>1. o \in Subtree(h, n)
    BY <1>1
  <2>2. CopiesKids(g, h, c, o)
    BY <2>1, CopiedKids
  <2> QED
    BY <2>1, <2>2 DEF Copied
<1> QED
  BY <1>2, <1>3 DEF Becoming

(* Something that is done to a heap with a copy, and not to the copy.      *)
LEMMA ThenBecoming ==
    ASSUME NEW h, NEW c, NEW p \in Node, NEW k, Becoming(k, h, {}, c, p, Children(h, p)),
           NEW g, NEW gone, NEW now, Becoming(g, k, gone, << >>, p, now),
           \A o \in DOMAIN c : c[o] \in Node /\ c[o] \notin gone /\ c[o] # p
    PROVE  Becoming(g, h, gone, c, p, now)
<1>1. \A m \in Node : /\ g[m].label = IF m \in gone THEN Free ELSE k[m].label
                      /\ Children(g, m) = IF m \in gone THEN << >>
                                          ELSE IF m = p THEN now ELSE Children(k, m)
  BY DEF Becoming
<1>2. ASSUME NEW m \in Node, \A o \in DOMAIN c : c[o] # m
      PROVE  /\ g[m].label = IF m \in gone THEN Free ELSE h[m].label
             /\ Children(g, m) = IF m \in gone THEN << >> ELSE IF m = p THEN now ELSE Children(h, m)
  <2>1. k[m].label = h[m].label /\ Children(k, m) = Children(h, m)
    BY <1>2 DEF Becoming
  <2> QED
    BY <1>1, <2>1
<1>3. ASSUME NEW o \in DOMAIN c PROVE g[c[o]].label = h[o].label /\ CopiesKids(g, h, c, o)
  <2>1. k[c[o]].label = h[o].label /\ CopiesKids(k, h, c, o)
    BY <1>3 DEF Becoming
  <2>2. c[o] \in Node /\ c[o] \notin gone /\ c[o] # p
    OBVIOUS
  <2>3. g[c[o]].label = k[c[o]].label /\ Children(g, c[o]) = Children(k, c[o])
    BY <1>1, <2>2
  <2> QED
    BY <2>1, <2>3 DEF CopiesKids
<1> QED
  BY <1>2, <1>3 DEF Becoming

LEMMA PutBecoming ==
    ASSUME NEW h, Tree(h), NEW p, NEW x, NEW y, Gap(h, p, x, y),
           NEW m \in Node, h[m].parent = NULL, NEW g, Tree(g), Put(g, h, p, x, m, y),
           NEW i, Between(Children(h, p), i, x, y)
    PROVE  Becoming(g, h, {}, << >>, p, InsertAt(Children(h, p), i, m))
<1>1. /\ Children(g, p) = InsertAt(Children(h, p), i, m)
      /\ \A q \in Node \ {p} : Children(g, q) = Children(h, q)
  BY PutKids
<1> QED
  BY <1>1 DEF Becoming, Put

(* The actions of the forest, for what is to be shown of a step.           *)
LEMMA LinkChildIs ==
    ASSUME NEW p \in Node, NEW k \in Node, p \in Forest!Live, k \in Forest!Live,
           Forest!LinkLast(p, k)
    PROVE  Forest!LinkChild
<1> USE DEF Forest!LinkChild
<1> WITNESS p \in Forest!Live, k \in Forest!Live
<1> QED
  OBVIOUS

LEMMA InsertChildIs ==
    ASSUME NEW p \in Node, NEW k \in Node, p \in Forest!Live, k \in Forest!Live,
           NEW a \in 1 .. Len([n \in Node |-> Children(heap, n)][p]) + 1,
           NEW b \in Forest!Copies(k), Forest!InsertCopy(p, k, a, b)
    PROVE  Forest!InsertChild
<1> USE DEF Forest!InsertChild
<1> WITNESS p \in Forest!Live, k \in Forest!Live
<1> WITNESS a \in 1 .. Len([n \in Node |-> Children(heap, n)][p]) + 1, b \in Forest!Copies(k)
<1> QED
  OBVIOUS

LEMMA ReplaceChildIs ==
    ASSUME NEW p \in Node, NEW k \in Node, p \in Forest!Live, k \in Forest!Live,
           NEW a \in DOMAIN [n \in Node |-> Children(heap, n)][p],
           NEW b \in Forest!Copies(k), Forest!ReplaceByCopy(p, k, a, b)
    PROVE  Forest!ReplaceChild
<1> USE DEF Forest!ReplaceChild
<1> WITNESS p \in Forest!Live, k \in Forest!Live
<1> WITNESS a \in DOMAIN [n \in Node |-> Children(heap, n)][p], b \in Forest!Copies(k)
<1> QED
  OBVIOUS

LEMMA RemoveChildIs ==
    ASSUME NEW p \in Node, p \in Forest!Live,
           NEW i \in DOMAIN [n \in Node |-> Children(heap, n)][p],
           Forest!Becomes(Forest!Subtree([n \in Node |-> Children(heap, n)][p][i]),
                          Forest!NoCopy, p,
                          Forest!RemoveAt([n \in Node |-> Children(heap, n)][p], i))
    PROVE  Forest!RemoveChild
<1> USE DEF Forest!RemoveChild
<1> WITNESS p \in Forest!Live
<1> WITNESS i \in DOMAIN [n \in Node |-> Children(heap, n)][p]
<1> QED
  OBVIOUS

LEMMA ClearNodeIs ==
    ASSUME NEW p \in Node, p \in Forest!Live,
           Forest!Becomes(Forest!Subtree(p) \ {p}, Forest!NoCopy, p, << >>)
    PROVE  Forest!ClearNode
<1> USE DEF Forest!ClearNode
<1> WITNESS p \in Forest!Live
<1> QED
  OBVIOUS

LEMMA CopyNodeIs ==
    ASSUME NEW k \in Node, k \in Forest!Live, NEW c \in Forest!Copies(k),
           Forest!Becomes({}, c, Forest!Nowhere, << >>)
    PROVE  Forest!CopyNode
<1> USE DEF Forest!CopyNode
<1> WITNESS k \in Forest!Live
<1> WITNESS c \in Forest!Copies(k)
<1> QED
  OBVIOUS

LEMMA DeleteNodeIs ==
    ASSUME NEW k \in Node, k \in Forest!Live, ~Forest!IsKid(k),
           Forest!Becomes(Forest!Subtree(k), Forest!NoCopy, Forest!Nowhere, << >>)
    PROVE  Forest!DeleteNode
<1> USE DEF Forest!DeleteNode
<1> WITNESS k \in Forest!Live
<1> QED
  OBVIOUS

(* The steps, as steps of the forest.                                      *)
LEMMA NewForest ==
    ASSUME Tree(heap), HoldersOnly(heap), NEW l \in Label, New(l)
    PROVE  Forest!NewNode /\ HoldersOnly(heap')
<1>1. PICK n \in Fresh(heap) : heap' = [heap EXCEPT ![n] = NewNode(l)]
  BY DEF New
<1>2. \A q \in Node : Children(heap', q) = Children(heap, q)
  BY <1>1, NewKids
<1>3. n \in Node /\ heap \in Heaps /\ heap[n].label = Free
  BY DEF Fresh, Live, Tree
<1>4. \A q \in Node : heap'[q].label = IF q = n THEN l ELSE heap[q].label
  BY <1>1, <1>3 DEF Heaps, NewNode
<1>5. Forest!NewNode
  <2>1. [q \in Node |-> heap'[q].label] = [[q \in Node |-> heap[q].label] EXCEPT ![n] = l]
    BY <1>3, <1>4
  <2>2. [q \in Node |-> Children(heap', q)] = [q \in Node |-> Children(heap, q)]
    BY <1>2
  <2>3. n \in Forest!Fresh
    BY ForestLive
  <2> QED
    BY <2>1, <2>2, <2>3 DEF Forest!NewNode
<1>6. HoldersOnly(heap')
  <2>1. Children(heap, n) = << >>
    <3>1. heap[n].first = NULL
      BY <1>3, ZeroesAre DEF Tree, Agrees
    <3> QED
      BY <1>3, <3>1, NoKids
  <2> QED
    BY <1>2, <1>4, <2>1 DEF HoldersOnly
<1> QED
  BY <1>5, <1>6

LEMMA LinkForest ==
    ASSUME Tree(heap), HoldersOnly(heap), NEW p \in Live(heap), NEW k \in Live(heap),
           LinkEndChild(p, k)
    PROVE  Forest!LinkChild /\ HoldersOnly(heap')
<1> DEFINE s == Children(heap, p)
           x == heap[p].last
<1>1. /\ Root(heap, p, k) /\ heap' = Linked(heap, p, k) /\ heap[p].label \in Holders
      /\ p \in Node /\ k \in Node /\ heap[k].parent = NULL /\ heap[k].label # Document
  BY DEF LinkEndChild, Root, Live
<1>2. Gap(heap, p, x, NULL) /\ Put(heap', heap, p, x, k, NULL) /\ Tree(heap')
  BY <1>1, LinkedDoes, PutDone
<1>3. IsList(heap, p, s)
  BY <1>1, ChildrenAre
<1>4. PICK i : Between(s, i, x, NULL)
  BY <1>2, <1>3, GapIs
<1>5. i = Len(s) + 1 /\ s \in Seq(Node)
  BY <1>3, <1>4, Null DEF Between, IsList
<1>6. Append(s, k) = InsertAt(s, i, k)
  BY <1>1, <1>5, AppendIs
<1>7. Becoming(heap', heap, {}, << >>, p, Append(s, k))
  BY <1>1, <1>2, <1>4, <1>6, PutBecoming
<1>8. HoldersOnly(heap')
  BY <1>1, <1>7, HoldersKept
<1>9. Outcome(heap', heap, {}, << >>, p, Append(s, k))
  BY <1>7, OutcomeIs
<1>10. Forest!Becomes({}, Forest!NoCopy, p, Append([n \in Node |-> Children(heap, n)][p], k))
  BY <1>1, <1>9, ForestLive
     DEF Outcome, Forest!Becomes, Forest!Free, Free, Forest!Range, Range, Forest!NoCopy
<1>11. /\ ~Forest!IsKid(k) /\ p \notin Forest!Subtree(k)
       /\ [n \in Node |-> heap[n].label][p] \in Holders
       /\ [n \in Node |-> heap[n].label][k] # Document
  BY <1>1, ForestKid, ForestSubtree DEF Root
<1>12. Forest!LinkLast(p, k)
  BY <1>10, <1>11 DEF Forest!LinkLast
<1>13. Forest!LinkChild
  BY <1>1, <1>12, ForestLive, LinkChildIs
<1> QED
  BY <1>8, <1>13

(* A copy put somewhere.                                                   *)
LEMMA InsertForest ==
    ASSUME Tree(heap), HoldersOnly(heap), NEW p \in Live(heap), NEW k \in Live(heap),
           heap[p].label \in Holders, heap[k].label # Document,
           NEW c, CopyMap(heap, k, c), NEW h, Copied(h, heap, k, c),
           NEW x, NEW y, Gap(h, p, x, y), Put(heap', h, p, x, c[k], y), Tree(heap')
    PROVE  Forest!InsertChild /\ HoldersOnly(heap')
<1> DEFINE s == Children(heap, p)
<1>1. Tree(h) /\ h[c[k]].parent = NULL /\ c[k] \in Node /\ p \in Node /\ k \in Node
  BY CopyKeeps DEF Fresh, Live
<1>2. \A o \in DOMAIN c : c[o] \in Node /\ c[o] # p
  BY CopyIs DEF Fresh
<1>3. Becoming(h, heap, {}, c, p, s)
  BY CopyBecoming
<1>4. Children(h, p) = s
  BY <1>1, <1>2, <1>3 DEF Becoming
<1>5. IsList(h, p, s)
  BY <1>1, <1>4, ChildrenAre
<1>6. PICK i : Between(s, i, x, y)
  BY <1>5, GapIs
<1>7. Becoming(heap', h, {}, << >>, p, InsertAt(s, i, c[k]))
  BY <1>1, <1>4, <1>6, PutBecoming
<1>8. Becoming(heap', heap, {}, c, p, InsertAt(s, i, c[k]))
  BY <1>1, <1>2, <1>3, <1>7, ThenBecoming
<1>9. /\ c \in Forest!Copies(k)
      /\ DOMAIN c \subseteq Node /\ \A a, b \in DOMAIN c : c[a] = c[b] => a = b
  BY ForestCopies
<1>10. HoldersOnly(heap')
  BY <1>8, <1>9, HoldersKept
<1>11. Outcome(heap', heap, {}, c, p, InsertAt(s, i, c[k]))
  BY <1>8, <1>9, OutcomeIs
<1>12. Forest!InsertAt([n \in Node |-> Children(heap, n)][p], i, c[k]) = InsertAt(s, i, c[k])
  BY <1>1 DEF Forest!InsertAt, InsertAt
<1>13. Forest!Becomes({}, c, p, Forest!InsertAt([n \in Node |-> Children(heap, n)][p], i, c[k]))
  BY <1>11, <1>12, ForestLive
     DEF Outcome, Forest!Becomes, Forest!Free, Free, Forest!Range, Range
<1>14. i \in 1 .. Len([n \in Node |-> Children(heap, n)][p]) + 1
  BY <1>1, <1>6 DEF Between
<1>15. /\ [n \in Node |-> heap[n].label][p] \in Holders
       /\ [n \in Node |-> heap[n].label][k] # Document
  BY <1>1
<1>16. Forest!InsertCopy(p, k, i, c)
  BY <1>13, <1>15 DEF Forest!InsertCopy
<1>17. Forest!InsertChild
  BY <1>1, <1>9, <1>14, <1>16, ForestLive, InsertChildIs
<1> QED
  BY <1>10, <1>17
-----------------------------------------------------------------------------
(* h is the heap with the copy c of n that an insertion below p makes.     *)
CopyMade(h, c, p, n) ==
    /\ CopyMap(heap, n, c) /\ Copied(h, heap, n, c)
    /\ Tree(h) /\ Root(h, p, c[n]) /\ \A k \in Live(heap) : h[k] = heap[k]

LEMMA MakesCopy ==
    ASSUME Tree(heap), NEW p \in Live(heap), NEW n \in Live(heap), Room(heap, n),
           heap[n].label # Document
    PROVE  CopyMade(Cloned(heap, n, Copying(heap, n)), Copying(heap, n), p, n)
BY CopyIsRoot, CopyDone DEF CopyMade

LEMMA InsertEndForest ==
    ASSUME Tree(heap), HoldersOnly(heap), NEW p \in Live(heap), NEW n \in Live(heap),
           InsertEndChild(p, n), heap[n].label # Document
    PROVE  Forest!InsertChild /\ HoldersOnly(heap')
<1>1. PICK c : c = Copying(heap, n)
  OBVIOUS
<1>2. PICK h : h = Cloned(heap, n, c)
  OBVIOUS
<1>3. Room(heap, n) /\ heap' = Linked(h, p, c[n]) /\ heap[p].label \in Holders
  BY <1>1, <1>2 DEF InsertEndChild, WithCopy
<1>4. CopyMade(h, c, p, n)
  BY <1>1, <1>2, <1>3, MakesCopy
<1>5. Tree(h) /\ Root(h, p, c[n])
  BY <1>4 DEF CopyMade
<1>6. Gap(h, p, h[p].last, NULL) /\ Put(heap', h, p, h[p].last, c[n], NULL)
  BY <1>3, <1>5, LinkedDoes
<1>7. Tree(heap')
  BY <1>5, <1>6, PutDone
<1>8. CopyMap(heap, n, c) /\ Copied(h, heap, n, c)
  BY <1>4 DEF CopyMade
<1> QED
  BY <1>3, <1>6, <1>7, <1>8, InsertForest

LEMMA InsertBeforeForest ==
    ASSUME Tree(heap), HoldersOnly(heap), NEW p \in Live(heap), NEW b \in Live(heap),
           NEW n \in Live(heap), InsertBeforeChild(p, b, n), heap[n].label # Document
    PROVE  Forest!InsertChild /\ HoldersOnly(heap')
<1>1. PICK c : c = Copying(heap, n)
  OBVIOUS
<1>2. PICK h : h = Cloned(heap, n, c)
  OBVIOUS
<1>3. Room(heap, n) /\ heap' = InsertedBefore(h, p, b, c[n]) /\ heap[b].parent = p
  BY <1>1, <1>2 DEF InsertBeforeChild, WithCopy
<1>4. CopyMade(h, c, p, n)
  BY <1>1, <1>2, <1>3, MakesCopy
<1>5. Tree(h) /\ Root(h, p, c[n]) /\ Child(h, p, b) /\ Child(heap, p, b)
  BY <1>3, <1>4 DEF CopyMade, Child, Live
<1>6. Gap(h, p, h[b].prev, b) /\ Put(heap', h, p, h[b].prev, c[n], b)
  BY <1>3, <1>5, BeforeDoes
<1>7. Tree(heap')
  BY <1>5, <1>6, PutDone
<1>8. CopyMap(heap, n, c) /\ Copied(h, heap, n, c)
  BY <1>4 DEF CopyMade
<1>9. heap[p].label \in Holders
  BY <1>5, HasKids
<1> QED
  BY <1>6, <1>7, <1>8, <1>9, InsertForest

LEMMA InsertAfterForest ==
    ASSUME Tree(heap), HoldersOnly(heap), NEW p \in Live(heap), NEW a \in Live(heap),
           NEW n \in Live(heap), InsertAfterChild(p, a, n), heap[n].label # Document
    PROVE  Forest!InsertChild /\ HoldersOnly(heap')
<1>1. PICK c : c = Copying(heap, n)
  OBVIOUS
<1>2. PICK h : h = Cloned(heap, n, c)
  OBVIOUS
<1>3. Room(heap, n) /\ heap' = InsertedAfter(h, p, a, c[n]) /\ heap[a].parent = p
  BY <1>1, <1>2 DEF InsertAfterChild, WithCopy
<1>4. CopyMade(h, c, p, n)
  BY <1>1, <1>2, <1>3, MakesCopy
<1>5. Tree(h) /\ Root(h, p, c[n]) /\ Child(h, p, a) /\ Child(heap, p, a)
  BY <1>3, <1>4 DEF CopyMade, Child, Live
<1>6. Gap(h, p, a, h[a].next) /\ Put(heap', h, p, a, c[n], h[a].next)
  BY <1>3, <1>5, AfterDoes
<1>7. Tree(heap')
  BY <1>5, <1>6, PutDone
<1>8. CopyMap(heap, n, c) /\ Copied(h, heap, n, c)
  BY <1>4 DEF CopyMade
<1>9. heap[p].label \in Holders
  BY <1>5, HasKids
<1> QED
  BY <1>6, <1>7, <1>8, <1>9, InsertForest

(* A copy by itself, and a node that goes with what is below it.           *)
LEMMA CloneForest ==
    ASSUME Tree(heap), HoldersOnly(heap), NEW k \in Live(heap), Clone(k)
    PROVE  Forest!CopyNode /\ HoldersOnly(heap')
<1>1. PICK c : c = Copying(heap, k)
  OBVIOUS
<1>2. Room(heap, k) /\ heap' = Cloned(heap, k, c)
  BY <1>1 DEF Clone
<1>3. CopyMap(heap, k, c) /\ Copied(heap', heap, k, c)
  BY <1>1, <1>2, CopyDone
<1>4. Becoming(heap', heap, {}, c, 0, << >>)
  <2>1. Becoming(heap', heap, {}, c, 0, Children(heap, 0))
    BY <1>3, CopyBecoming
  <2>2. 0 \notin Node
    BY Null DEF NULL
  <2> QED
    BY <2>1, <2>2 DEF Becoming
<1>5. c \in Forest!Copies(k) /\ DOMAIN c \subseteq Node /\ \A a, b \in DOMAIN c : c[a] = c[b] => a = b
  BY <1>3, ForestCopies
<1>6. HoldersOnly(heap')
  BY <1>4, <1>5, HoldersKept
<1>7. Outcome(heap', heap, {}, c, 0, << >>)
  BY <1>4, <1>5, OutcomeIs
<1>8. Forest!Becomes({}, c, Forest!Nowhere, << >>)
  BY <1>7, ForestLive
     DEF Outcome, Forest!Becomes, Forest!Free, Free, Forest!Range, Range, Forest!Nowhere
<1>9. Forest!CopyNode
  BY <1>5, <1>8, ForestLive, CopyNodeIs DEF Live
<1> QED
  BY <1>6, <1>9

LEMMA DeleteForest ==
    ASSUME Tree(heap), HoldersOnly(heap), NEW k \in Live(heap), Delete(k)
    PROVE  Forest!DeleteNode /\ HoldersOnly(heap')
<1> DEFINE S == Subtree(heap, k)
<1>1. k \in Node /\ heap[k].parent = NULL /\ heap' = Deleted(heap, S)
  BY DEF Delete, Live
<1>2. Becoming(heap', heap, S, << >>, 0, << >>)
  <2>1. /\ \A q \in S : heap'[q].label = Free /\ Children(heap', q) = << >>
        /\ \A q \in Node \ S : heap'[q].label = heap[q].label /\ Children(heap', q) = Children(heap, q)
    BY <1>1, DeletedKids
  <2>2. 0 \notin Node
    BY Null DEF NULL
  <2> QED
    BY <2>1, <2>2 DEF Becoming
<1>3. DOMAIN << >> = {}
  OBVIOUS
<1>4. HoldersOnly(heap')
  BY <1>2, <1>3, HoldersKept
<1>5. Outcome(heap', heap, S, << >>, 0, << >>)
  BY <1>2, <1>3, OutcomeIs
<1>6. Forest!Subtree(k) = S
  BY <1>1, ForestSubtree
<1>7. Forest!Becomes(Forest!Subtree(k), Forest!NoCopy, Forest!Nowhere, << >>)
  BY <1>5, <1>6, ForestLive
     DEF Outcome, Forest!Becomes, Forest!Free, Free, Forest!Range, Range, Forest!Nowhere, Forest!NoCopy
<1>8. ~Forest!IsKid(k)
  BY <1>1, ForestKid
<1>9. Forest!DeleteNode
  BY <1>1, <1>7, <1>8, ForestLive, DeleteNodeIs
<1> QED
  BY <1>4, <1>9

LEMMA ClearForest ==
    ASSUME Tree(heap), HoldersOnly(heap), NEW p \in Live(heap), Clear(p)
    PROVE  Forest!ClearNode /\ HoldersOnly(heap')
<1> DEFINE S == Subtree(heap, p) \ {p}
<1>1. p \in Node /\ heap' = DeletedBelow(heap, p)
  BY DEF Clear, DeletedBelow, Live
<1>2. Emptied(heap', heap, p)
  BY <1>1, ClearedKeeps
<1>3. Below(heap, p) = S /\ S \in SUBSET Node
  BY <1>1, NotBelow, BelowIs DEF Subtree, Live
<1>4. Becoming(heap', heap, S, << >>, p, << >>)
  <2>1. /\ \A q \in S : heap'[q].label = Free
        /\ \A q \in Node \ S : heap'[q].label = heap[q].label
    BY <1>2, <1>3, ZeroesAre DEF Emptied
  <2>2. /\ \A q \in Subtree(heap, p) : Children(heap', q) = << >>
        /\ \A q \in Node \ Subtree(heap, p) : Children(heap', q) = Children(heap, q)
    BY <1>1, <1>2, ClearedKids
  <2>3. p \in Subtree(heap, p)
    BY DEF Subtree
  <2> QED
    BY <2>1, <2>2, <2>3 DEF Becoming
<1>5. DOMAIN << >> = {}
  OBVIOUS
<1>6. HoldersOnly(heap')
  BY <1>4, <1>5, HoldersKept
<1>7. Outcome(heap', heap, S, << >>, p, << >>)
  BY <1>4, <1>5, OutcomeIs
<1>8. Forest!Subtree(p) = Subtree(heap, p)
  BY <1>1, ForestSubtree
<1>9. Forest!Becomes(Forest!Subtree(p) \ {p}, Forest!NoCopy, p, << >>)
  BY <1>7, <1>8, ForestLive
     DEF Outcome, Forest!Becomes, Forest!Free, Free, Forest!Range, Range, Forest!NoCopy
<1>10. Forest!ClearNode
  BY <1>1, <1>9, ForestLive, ClearNodeIs
<1> QED
  BY <1>6, <1>10

(* A child that goes, with or without a copy in its place.                 *)
LEMMA RemoveForest ==
    ASSUME Tree(heap), HoldersOnly(heap), NEW p \in Live(heap), NEW o \in Live(heap),
           RemoveChild(p, o)
    PROVE  Forest!RemoveChild /\ HoldersOnly(heap')
<1> DEFINE S == Subtree(heap, o)
           s == Children(heap, p)
<1>1. /\ Child(heap, p, o) /\ heap' = Removed(heap, p, o)
      /\ p \in Node /\ o \in Node /\ heap[o].parent = p
  BY DEF RemoveChild, Child, Live
<1>2. PICK g : RemovedBy(g, heap, p, o)
  BY <1>1, RemovedIs
<1>3. /\ TakenOut(g, heap, p, heap[o].prev, o, heap[o].next) /\ Tree(g) /\ g[o].parent = NULL
      /\ heap' = Deleted(g, Subtree(g, o))
  BY <1>1, <1>2 DEF RemovedBy
<1>4. \A k \in Node : /\ g[k].label = heap[k].label
                      /\ g[k].parent = IF k = o THEN NULL ELSE heap[k].parent
  BY <1>3 DEF TakenOut
<1>5. Subtree(g, o) = S
  <2>1. Subtree(g, o) \subseteq S
    BY <1>1, <1>3, <1>4, SubtreeWithin
  <2>2. S \subseteq Subtree(g, o)
    BY <1>1, <1>3, <1>4, SubtreeWithin
  <2> QED
    BY <2>1, <2>2
<1>6. heap[p].label \in Holders
  BY <1>1, HasKids
<1>7. PICK i \in 1 .. Len(s) : s[i] = o
  BY <1>1, HasKids
<1>8. /\ Children(g, p) = RemoveAt(s, i)
      /\ \A q \in Node \ {p} : Children(g, q) = Children(heap, q)
  BY <1>1, <1>3, <1>7, TakenOutKids
<1>9. Becoming(heap', heap, S, << >>, p, RemoveAt(s, i))
  <2>1. /\ \A q \in S : heap'[q].label = Free /\ Children(heap', q) = << >>
        /\ \A q \in Node \ S : heap'[q].label = g[q].label /\ Children(heap', q) = Children(g, q)
    BY <1>1, <1>3, <1>5, DeletedKids
  <2> QED
    BY <1>4, <1>8, <2>1 DEF Becoming
<1>10. DOMAIN << >> = {}
  OBVIOUS
<1>11. HoldersOnly(heap')
  BY <1>6, <1>9, <1>10, HoldersKept
<1>12. Outcome(heap', heap, S, << >>, p, RemoveAt(s, i))
  BY <1>9, <1>10, OutcomeIs
<1>13. Forest!RemoveAt([n \in Node |-> Children(heap, n)][p], i) = RemoveAt(s, i)
  BY <1>1 DEF Forest!RemoveAt, RemoveAt
<1>14. Forest!Subtree([n \in Node |-> Children(heap, n)][p][i]) = S
  <2>1. Forest!Subtree(o) = S
    BY <1>1, ForestSubtree
  <2>2. [n \in Node |-> Children(heap, n)][p][i] = o
    BY <1>1, <1>7
  <2> QED
    BY <2>1, <2>2
<1>15. Forest!Becomes(Forest!Subtree([n \in Node |-> Children(heap, n)][p][i]), Forest!NoCopy, p,
                      Forest!RemoveAt([n \in Node |-> Children(heap, n)][p], i))
  BY <1>12, <1>13, <1>14, ForestLive
     DEF Outcome, Forest!Becomes, Forest!Free, Free, Forest!Range, Range, Forest!NoCopy
<1>16. i \in DOMAIN [n \in Node |-> Children(heap, n)][p]
  <2>1. s \in Seq(Node)
    BY <1>1, KidsAre
  <2>2. [n \in Node |-> Children(heap, n)][p] = s
    BY <1>1
  <2> QED
    BY <1>7, <2>1, <2>2
<1>17. Forest!RemoveChild
  BY <1>1, <1>15, <1>16, ForestLive, RemoveChildIs
<1> QED
  BY <1>11, <1>17

LEMMA ReplacedSubtree ==
    ASSUME Tree(heap), NEW p \in Live(heap), NEW o \in Live(heap), NEW n \in Live(heap),
           NEW c, NEW h, CopyMade(h, c, p, n), Child(heap, p, o),
           NEW g, NEW out, ReplacedBy(g, out, h, p, o, c[n])
    PROVE  Subtree(g, o) = Subtree(heap, o)
<1> DEFINE S == Subtree(heap, o)
           m == c[n]
<1>1. /\ CopyMap(heap, n, c) /\ Copied(h, heap, n, c) /\ \A k \in Live(heap) : h[k] = heap[k]
      /\ p \in Node /\ o \in Node /\ n \in Node /\ heap[o].parent = p
  BY DEF CopyMade, Live, Child
<1>2. /\ DOMAIN c = Subtree(heap, n) /\ n \in Subtree(heap, n)
      /\ \A b \in Subtree(heap, n) : c[b] \in Fresh(heap) /\ heap[c[b]] = Zeroes /\ c[b] # NULL
  BY <1>1, CopyIs
<1>3. Tree(g) /\ \A k \in Node \ {o} : g[k].parent = IF k = m THEN p ELSE h[k].parent
  <2>1. /\ Tree(g) /\ \A k \in Node : g[k].parent = IF k = m THEN p ELSE out[k].parent
        /\ \A k \in Node : out[k].parent = IF k = o THEN NULL ELSE h[k].parent
    BY DEF ReplacedBy, Put, TakenOut
  <2> QED
    BY <2>1
<1>4. /\ S \in SUBSET Live(heap) /\ NULL \notin S /\ p \notin S
      /\ NULL \notin Subtree(g, o)
  BY <1>1, <1>3, SubtreeIs
<1> HIDE DEF S
<1>5. ASSUME NEW k \in Node \ {o}, g[k].parent \in S PROVE heap[k].parent \in S
  <2>1. k # m /\ h[k].parent \in S
    BY <1>3, <1>4, <1>5
  <2>2. CASE \A b \in Subtree(heap, n) : c[b] # k
    <3>1. h[k] = heap[k]
      BY <1>1, <2>2 DEF Copied
    <3> QED
      BY <2>1, <3>1
  <2>3. ASSUME NEW b \in Subtree(heap, n), c[b] = k PROVE FALSE
    <3>1. h[k].parent = Aside(c, b, n, heap[b].parent)
      BY <1>1, <2>3 DEF Copied
    <3>2. h[k].parent \in Fresh(heap) \union {NULL}
      BY <1>2, <3>1 DEF Aside, Toward
    <3> QED
      BY <1>4, <2>1, <3>2 DEF Fresh
  <2> QED
    BY <2>2, <2>3
<1>6. Subtree(g, o) \subseteq Subtree(heap, o)
  BY <1>1, <1>3, <1>5, SubtreeWithin DEF S
<1>7. ASSUME NEW k \in Node \ {o}, heap[k].parent \in Subtree(g, o)
      PROVE  g[k].parent \in Subtree(g, o)
  <2>1. heap[k].label # Free /\ heap[k].parent # NULL
    BY <1>4, <1>7, ZeroesAre DEF Tree, Agrees
  <2>2. h[k] = heap[k] /\ k # m
    BY <1>1, <1>2, <2>1, ZeroesAre DEF Live
  <2> QED
    BY <1>3, <1>7, <2>2
<1>8. Subtree(heap, o) \subseteq Subtree(g, o)
  BY <1>1, <1>3, <1>7, SubtreeWithin
<1> QED
  BY <1>6, <1>8

LEMMA ReplaceForest ==
    ASSUME Tree(heap), HoldersOnly(heap), NEW p \in Live(heap), NEW o \in Live(heap),
           NEW k \in Live(heap), ReplaceChild(p, o, k), heap[k].label # Document
    PROVE  Forest!ReplaceChild /\ HoldersOnly(heap')
<1> DEFINE S == Subtree(heap, o)
           s == Children(heap, p)
<1>1. PICK c : c = Copying(heap, k)
  OBVIOUS
<1>2. PICK h : h = Cloned(heap, k, c)
  OBVIOUS
<1>3. Room(heap, k) /\ heap' = Replaced(h, p, o, c[k]) /\ heap[o].parent = p
  BY <1>1, <1>2 DEF ReplaceChild, WithCopy
<1>4. CopyMade(h, c, p, k)
  BY <1>1, <1>2, <1>3, MakesCopy
<1>5. /\ CopyMap(heap, k, c) /\ Copied(h, heap, k, c) /\ Tree(h) /\ Root(h, p, c[k])
      /\ Child(h, p, o) /\ Child(heap, p, o) /\ p \in Node /\ o \in Node /\ k \in Node
      /\ heap[p].label # Free
  BY <1>3, <1>4 DEF CopyMade, Child, Live
<1>6. PICK g, out : ReplacedBy(g, out, h, p, o, c[k])
  BY <1>5, ReplacedIs
<1>7. /\ TakenOut(out, h, p, h[o].prev, o, h[o].next) /\ Tree(out)
      /\ Gap(out, p, h[o].prev, h[o].next) /\ out[c[k]].parent = NULL
      /\ Put(g, out, p, h[o].prev, c[k], h[o].next) /\ Tree(g) /\ g[o].parent = NULL
      /\ heap' = Deleted(g, Subtree(g, o))
  BY <1>3, <1>6 DEF ReplacedBy
<1>8. Subtree(g, o) = S
  BY <1>4, <1>5, <1>6, ReplacedSubtree
<1>9. /\ DOMAIN c = Subtree(heap, k) /\ k \in Subtree(heap, k)
      /\ \A b \in Subtree(heap, k) : c[b] \in Fresh(heap) /\ c[b] \in Node
  BY <1>5, CopyIs
<1>10. S \in SUBSET Live(heap)
  BY <1>5, SubtreeIs
<1>11. \A b \in DOMAIN c : c[b] \in Node /\ c[b] \notin S /\ c[b] # p
  BY <1>9, <1>10 DEF Fresh
<1>12. Becoming(h, heap, {}, c, p, s)
  BY <1>5, CopyBecoming
<1>13. Children(h, p) = s
  BY <1>5, <1>11, <1>12 DEF Becoming
<1>14. heap[p].label \in Holders /\ s \in Seq(Node)
  BY <1>5, HasKids, KidsAre
<1>15. PICK i \in 1 .. Len(s) : s[i] = o
  BY <1>5, HasKids
<1>16. /\ Children(out, p) = RemoveAt(s, i)
       /\ \A q \in Node \ {p} : Children(out, q) = Children(h, q)
       /\ Between(RemoveAt(s, i), i, h[o].prev, h[o].next)
  BY <1>5, <1>7, <1>13, <1>15, TakenOutKids, GapLeft
<1>17. /\ Children(g, p) = InsertAt(RemoveAt(s, i), i, c[k])
       /\ \A q \in Node \ {p} : Children(g, q) = Children(out, q)
  <2>1. c[k] \in Node
    BY <1>9
  <2> QED
    BY <1>7, <1>16, <2>1, PutKids
<1>18. Children(g, p) = [s EXCEPT ![i] = c[k]]
  BY <1>9, <1>14, <1>15, <1>17, OutAndIn
<1>19. \A q \in Node : g[q].label = h[q].label
  BY <1>7 DEF Put, TakenOut
<1>20. Becoming(heap', h, S, << >>, p, [s EXCEPT ![i] = c[k]])
  <2>1. /\ \A q \in S : heap'[q].label = Free /\ Children(heap', q) = << >>
        /\ \A q \in Node \ S : heap'[q].label = g[q].label /\ Children(heap', q) = Children(g, q)
    BY <1>5, <1>7, <1>8, DeletedKids
  <2> QED
    BY <1>16, <1>17, <1>18, <1>19, <2>1 DEF Becoming
<1>21. Becoming(heap', heap, S, c, p, [s EXCEPT ![i] = c[k]])
  BY <1>5, <1>11, <1>12, <1>20, ThenBecoming
<1>22. /\ c \in Forest!Copies(k)
       /\ DOMAIN c \subseteq Node /\ \A a, b \in DOMAIN c : c[a] = c[b] => a = b
  BY <1>5, ForestCopies
<1>23. HoldersOnly(heap')
  BY <1>14, <1>21, <1>22, HoldersKept
<1>24. Outcome(heap', heap, S, c, p, [s EXCEPT ![i] = c[k]])
  BY <1>21, <1>22, OutcomeIs
<1>25. [n \in Node |-> Children(heap, n)][p] = s
  BY <1>5
<1>26. Forest!Subtree([n \in Node |-> Children(heap, n)][p][i]) = S
  <2>1. Forest!Subtree(o) = S
    BY <1>5, ForestSubtree
  <2> QED
    BY <1>15, <1>25, <2>1
<1>27. Forest!Becomes(Forest!Subtree([n \in Node |-> Children(heap, n)][p][i]), c, p,
                      [[n \in Node |-> Children(heap, n)][p] EXCEPT ![i] = c[k]])
  BY <1>24, <1>25, <1>26, ForestLive, ZenonT(30)
     DEF Outcome, Forest!Becomes, Forest!Free, Free, Forest!Range, Range
<1>28. i \in DOMAIN [n \in Node |-> Children(heap, n)][p]
  BY <1>14, <1>15, <1>25
<1>29. [n \in Node |-> heap[n].label][k] # Document
  BY <1>5
<1>30. Forest!ReplaceByCopy(p, k, i, c)
  BY <1>27, <1>29 DEF Forest!ReplaceByCopy
<1>31. Forest!ReplaceChild
  BY <1>5, <1>22, <1>28, <1>30, ForestLive, ReplaceChildIs
<1> QED
  BY <1>23, <1>31

LEMMA InitForest == Init => Forest!Init /\ HoldersOnly(heap)
<1> SUFFICES ASSUME Init PROVE Forest!Init /\ HoldersOnly(heap)
  OBVIOUS
<1>1. \A n \in Node : heap[n] = Zeroes
  BY DEF Init
<1>2. Tree(heap)
  BY InitTree DEF IInv
<1>3. \A n \in Node : heap[n].label = Free /\ Children(heap, n) = << >>
  <2> TAKE n \in Node
  <2>1. heap[n].first = NULL /\ heap[n].label = Free
    BY <1>1, ZeroesAre
  <2> QED
    BY <1>2, <2>1, NoKids
<1>4. Forest!Init
  BY <1>3, ForestLive DEF Forest!Init, Forest!Free, Free
<1> QED
  BY <1>3, <1>4 DEF HoldersOnly

LEMMA StepForest ==
    ASSUME Tree(heap), HoldersOnly(heap), [Next]_vars
    PROVE  /\ HoldersOnly(heap')
           /\ [Forest!Next]_<<[n \in Node |-> heap[n].label], [n \in Node |-> Children(heap, n)]>>
<1> DEFINE F == <<[n \in Node |-> heap[n].label], [n \in Node |-> Children(heap, n)]>>
           Goal == HoldersOnly(heap') /\ (Forest!Next \/ UNCHANGED F)
<1>1. ASSUME UNCHANGED heap PROVE Goal
  BY <1>1 DEF HoldersOnly
<1>2. ASSUME NEW l \in Label, New(l) PROVE Goal
  BY <1>2, NewForest DEF Forest!Next
<1>3. ASSUME NEW p \in Live(heap), NEW n \in Live(heap), LinkEndChild(p, n) PROVE Goal
  BY <1>3, LinkForest DEF Forest!Next
<1>4. ASSUME NEW p \in Live(heap), NEW n \in Live(heap), InsertEndChild(p, n) PROVE Goal
  <2>1. heap[n].label = Document => UNCHANGED heap
    BY <1>4 DEF InsertEndChild, WithCopy
  <2>2. heap[n].label # Document => Goal
    BY <1>4, InsertEndForest DEF Forest!Next
  <2> QED
    BY <1>1, <2>1, <2>2
<1>5. ASSUME NEW p \in Live(heap), NEW b \in Live(heap), NEW n \in Live(heap),
             InsertBeforeChild(p, b, n)
      PROVE  Goal
  <2>1. heap[n].label = Document => UNCHANGED heap
    BY <1>5 DEF InsertBeforeChild, WithCopy
  <2>2. heap[n].label # Document => Goal
    BY <1>5, InsertBeforeForest DEF Forest!Next
  <2> QED
    BY <1>1, <2>1, <2>2
<1>6. ASSUME NEW p \in Live(heap), NEW a \in Live(heap), NEW n \in Live(heap),
             InsertAfterChild(p, a, n)
      PROVE  Goal
  <2>1. heap[n].label = Document => UNCHANGED heap
    BY <1>6 DEF InsertAfterChild, WithCopy
  <2>2. heap[n].label # Document => Goal
    BY <1>6, InsertAfterForest DEF Forest!Next
  <2> QED
    BY <1>1, <2>1, <2>2
<1>7. ASSUME NEW p \in Live(heap), NEW o \in Live(heap), NEW n \in Live(heap),
             ReplaceChild(p, o, n)
      PROVE  Goal
  <2>1. heap[n].label = Document => UNCHANGED heap
    BY <1>7 DEF ReplaceChild, WithCopy
  <2>2. heap[n].label # Document => Goal
    BY <1>7, ReplaceForest DEF Forest!Next
  <2> QED
    BY <1>1, <2>1, <2>2
<1>8. ASSUME NEW p \in Live(heap), NEW o \in Live(heap), RemoveChild(p, o) PROVE Goal
  BY <1>8, RemoveForest DEF Forest!Next
<1>9. ASSUME NEW p \in Live(heap), Clear(p) PROVE Goal
  BY <1>9, ClearForest DEF Forest!Next
<1>10. ASSUME NEW n \in Live(heap), Clone(n) PROVE Goal
  BY <1>10, CloneForest DEF Forest!Next
<1>11. ASSUME NEW n \in Live(heap), Delete(n) PROVE Goal
  BY <1>11, DeleteForest DEF Forest!Next
<1>12. ASSUME UNCHANGED vars PROVE Goal
  <2>1. UNCHANGED heap
    BY <1>12 DEF vars
  <2> QED
    BY <1>1, <2>1
<1> HIDE DEF Goal
<1>13. Goal
  BY <1>2, <1>3, <1>4, <1>5, <1>6, <1>7, <1>8, <1>9, <1>10, <1>11, <1>12 DEF Next
<1> QED
  BY <1>13 DEF Goal

(* XmlTree implements XmlForest: whatever is called in whatever order,     *)
(* each step of the pointers of tinyxml.cpp is a step of lists of children *)
(* or leaves them alone, so that nodes are in the lists they were put in,  *)
(* copies share nothing with what was copied, and what is freed is what was*)
(* asked to go, with what was below it.                                    *)
THEOREM ForestCorrect == Spec => ForestSpec
<1> DEFINE I == IInv /\ HoldersOnly(heap)
<1>1. Init => I /\ Forest!Init
  BY InitTree, InitForest
<1>2. ASSUME I, [Next]_vars
      PROVE  I' /\ [Forest!Next]_<<[n \in Node |-> heap[n].label], [n \in Node |-> Children(heap, n)]>>
  <2>1. HoldersOnly(heap)'
    BY <1>2, StepForest DEF IInv, HoldersOnly
  <2>2. [Forest!Next]_<<[n \in Node |-> heap[n].label], [n \in Node |-> Children(heap, n)]>>
    BY <1>2, StepForest DEF IInv
  <2>3. IInv'
    BY <1>2, NextTree
  <2> QED
    BY <2>1, <2>2, <2>3
<1> HIDE DEF I
<1> QED
  BY <1>1, <1>2, PTL DEF Spec, ForestSpec, Forest!Spec
=============================================================================
