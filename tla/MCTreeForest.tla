---------------------------- MODULE MCTreeForest ----------------------------
(* Model checking of TreeForest: the children as sequences, and the map to OrderedForest. *)
EXTENDS TreeForest, Sequences

Seqs == INSTANCE SequencesExt

\* The children of p, in the order a walk from m_pFirstChild meets them.
ChildSeq(t, p) ==
    LET from[n \in Ptr] == IF n = NULL THEN << >> ELSE <<n>> \o from[t.next[n]]
    IN  from[t.first[p]]

Abstract == INSTANCE OrderedForest WITH
                kids <- [p \in Node |-> ChildSeq(tree, p)],
                nodes <- alive

\* The pointers implement lists of children: every call of the template is
\* one step of OrderedForest (Tree.h as a whole).
ImplementsOrderedForest == Abstract!Spec

\* Where refer stands among the children of p; 0 for null.
PlaceOf(p, refer) ==
    IF refer = NULL THEN 0
    ELSE CHOOSE i \in DOMAIN ChildSeq(tree, p) : ChildSeq(tree, p)[i] = refer

\* Each insertion puts the node at the place its reference names, and moves no
\* other child: before or after the reference, or at the end or the front when
\* it is null; Swap gives each node the other's place.  (The commands record
\* a node's previous sibling and rely on this to put it back.)
PlacesAsAsked ==
    [][\A p, n \in alive :
        LET old == ChildSeq(tree, p)
            new == ChildSeq(tree', p)
        IN  /\ DoAddChild(p, n) => new = Append(old, n)
            /\ DoSwap(p, n) /\ tree.parent[p] # NULL =>
                ChildSeq(tree', tree.parent[p])[PlaceOf(tree.parent[p], p)] = n
            /\ \A refer \in Ptr :
                /\ DoInsertAfter(p, n, refer) =>
                    new = Seqs!InsertAt(old, PlaceOf(p, refer) + 1, n)
                /\ DoInsertOrAppend(p, n, refer) =>
                    new = Seqs!InsertAt(old, IF refer = NULL THEN Len(old) + 1
                                        ELSE PlaceOf(p, refer) + 1, n)
                /\ DoInsertBefore(p, n, refer) =>
                    new = Seqs!InsertAt(old, IF refer = NULL THEN Len(old) + 1
                                        ELSE PlaceOf(p, refer), n)]_vars
=============================================================================
