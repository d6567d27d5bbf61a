------------------------------ MODULE XmlForest ------------------------------
(***************************************************************************)
(* What the nodes of TinyXML promise: documents and elements that keep     *)
(* their children in order, each child with one parent.  Nodes come and go *)
(* as their owner says; a node that goes takes what is below it along.     *)
(***************************************************************************)
EXTENDS Integers, Sequences, FiniteSets, SequencesExt

CONSTANTS N, Label, Document, Holders   \* see XmlTree

VARIABLES label, kids

Node == 1 .. N
Free == "free"
Live == {n \in Node : label[n] # Free}
Fresh == Node \ Live
IsKid(n) == \E p \in Live : n \in Range(kids[p])

(* n and what is below it.                                                 *)
Subtree(n) ==
    LET links == UNION {{p} \X Range(kids[p]) : p \in Node}
        closed == {S \in SUBSET Node : n \in S /\ \A l \in links : l[1] \in S => l[2] \in S}
    IN  {m \in Node : \A S \in closed : m \in S}

Copies(n) == {c \in [Subtree(n) -> Fresh] : \A a, b \in Subtree(n) : c[a] = c[b] => a = b}
Original(c, m) == CHOOSE a \in DOMAIN c : c[a] = m

(* The forest once the nodes of gone are freed, the nodes of subtree n are *)
(* copied as c says (none if c is empty), and p has the children now.      *)
Becomes(gone, c, p, now) ==
    LET left(m) == IF m = p THEN now ELSE kids[m]
        new(m)  == [i \in DOMAIN kids[Original(c, m)] |-> c[kids[Original(c, m)][i]]]
    IN  /\ label' = [m \in Node |-> IF m \in Range(c) THEN label[Original(c, m)]
                                    ELSE IF m \in gone THEN Free ELSE label[m]]
        /\ kids'  = [m \in Node |-> IF m \in Range(c) THEN new(m)
                                    ELSE IF m \in gone THEN << >> ELSE left(m)]

NoCopy == << >>
Nowhere == 0
-----------------------------------------------------------------------------
Init == label = [n \in Node |-> Free] /\ kids = [n \in Node |-> << >>]

NewNode == \E n \in Fresh, l \in Label :
    label' = [label EXCEPT ![n] = l] /\ UNCHANGED kids

(* A node that is nobody's becomes the last child of p.                    *)
LinkLast(p, n) ==
    /\ label[p] \in Holders /\ label[n] # Document
    /\ ~IsKid(n) /\ p \notin Subtree(n)
    /\ Becomes({}, NoCopy, p, Append(kids[p], n))
LinkChild == \E p, n \in Live : LinkLast(p, n)

(* A copy of n comes between the children of p.                            *)
InsertCopy(p, n, i, c) ==
    /\ label[p] \in Holders /\ label[n] # Document
    /\ Becomes({}, c, p, InsertAt(kids[p], i, c[n]))
InsertChild == \E p, n \in Live : \E i \in 1 .. Len(kids[p]) + 1, c \in Copies(n) :
    InsertCopy(p, n, i, c)

(* A child gives way to a copy of n, which may be that child itself.       *)
ReplaceByCopy(p, n, i, c) ==
    /\ label[n] # Document
    /\ Becomes(Subtree(kids[p][i]), c, p, [kids[p] EXCEPT ![i] = c[n]])
ReplaceChild == \E p, n \in Live : \E i \in DOMAIN kids[p], c \in Copies(n) :
    ReplaceByCopy(p, n, i, c)

RemoveChild == \E p \in Live : \E i \in DOMAIN kids[p] :
    Becomes(Subtree(kids[p][i]), NoCopy, p, RemoveAt(kids[p], i))

ClearNode == \E p \in Live : Becomes(Subtree(p) \ {p}, NoCopy, p, << >>)

CopyNode == \E n \in Live : \E c \in Copies(n) : Becomes({}, c, Nowhere, << >>)

DeleteNode == \E n \in Live : ~IsKid(n) /\ Becomes(Subtree(n), NoCopy, Nowhere, << >>)

Next == \/ NewNode \/ LinkChild \/ InsertChild \/ ReplaceChild \/ RemoveChild
        \/ ClearNode \/ CopyNode \/ DeleteNode

Spec == Init /\ [][Next]_<<label, kids>>
=============================================================================
