---------------------------- MODULE OrderedForest ----------------------------
(***************************************************************************)
(* What the tree template promises its users: every living node has an     *)
(* ordered list of children, no node is in two lists or in its own         *)
(* subtree, and each call moves, inserts or frees whole subtrees.          *)
(***************************************************************************)
EXTENDS Naturals, Sequences, SequencesExt

CONSTANTS Node

VARIABLES
    kids,       \* the children of every node, in order
    nodes       \* the nodes that exist

vars == <<kids, nodes>>

Init == /\ kids = [n \in Node |-> << >>]
        /\ nodes = {}

Below(n) == {x \in Node : \A S \in SUBSET Node :
                (n \in S /\ \A s \in S : ToSet(kids[s]) \subseteq S) => x \in S}

Detached(n) == \A p \in Node : n \notin ToSet(kids[p])

Create(n) ==
    /\ n \notin nodes
    /\ nodes' = nodes \cup {n}
    /\ UNCHANGED kids

\* Put the root n, with its subtree, at place i of p's children.
Insert(p, n, i) ==
    /\ {p, n} \subseteq nodes
    /\ Detached(n)
    /\ p \notin Below(n)
    /\ kids' = [kids EXCEPT ![p] = InsertAt(@, i, n)]
    /\ UNCHANGED nodes

\* Take n, with its subtree, out of the list it is in, if any.
Detach(n) ==
    /\ n \in nodes
    /\ \/ Detached(n) /\ UNCHANGED kids
       \/ \E p \in Node : \E i \in DOMAIN kids[p] :
            kids[p][i] = n /\ kids' = [kids EXCEPT ![p] = RemoveAt(@, i)]
    /\ UNCHANGED nodes

\* Free a root with its subtree.
FreeRoot(n) ==
    LET gone == Below(n) IN
    /\ n \in nodes /\ Detached(n)
    /\ nodes' = nodes \ gone
    /\ kids' = [p \in Node |-> IF p \in gone THEN << >> ELSE kids[p]]

\* Free the subtrees of the children i to j of p.
FreeRange(p, i, j) ==
    LET gone == UNION {Below(kids[p][m]) : m \in i .. j}
        left == SubSeq(kids[p], 1, i - 1) \o SubSeq(kids[p], j + 1, Len(kids[p])) IN
    /\ i \in 1 .. Len(kids[p]) /\ j \in i .. Len(kids[p])
    /\ nodes' = nodes \ gone
    /\ kids' = [q \in Node |-> IF q \in gone THEN << >>
                               ELSE IF q = p THEN left ELSE kids[q]]

\* Exchange two disjoint subtrees, each taking the other's place.
Exchange(l, r) ==
    /\ {l, r} \subseteq nodes
    /\ l \notin Below(r) /\ r \notin Below(l)
    /\ kids' = [p \in Node |-> [i \in DOMAIN kids[p] |->
                    CASE kids[p][i] = l -> r
                      [] kids[p][i] = r -> l
                      [] OTHER -> kids[p][i]]]
    /\ UNCHANGED nodes

Next ==
    \/ \E n \in Node : Create(n) \/ Detach(n) \/ FreeRoot(n)
    \/ \E p, n \in Node :
        \/ \E i \in 1 .. Len(kids[p]) + 1 : Insert(p, n, i)
        \/ Exchange(p, n)
    \/ \E p \in Node : \E i, j \in 1 .. Len(kids[p]) : FreeRange(p, i, j)

Spec == Init /\ [][Next]_vars
=============================================================================
