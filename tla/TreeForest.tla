----------------------------- MODULE TreeForest -----------------------------
(***************************************************************************)
(* Any number of trees of TreeNode objects, changed one method call at a   *)
(* time.  The guards are what the callers provide and what the assertions  *)
(* of Tree.h demand: a node that is inserted has been unlinked (or is new) *)
(* and is not above its new parent.  One caller does not provide it all:   *)
(* see TEEFrame.                                                           *)
(***************************************************************************)
EXTENDS TreeNode

VARIABLES
    tree,       \* the pointer fields of every address
    alive       \* the addresses that hold a constructed node

vars == <<tree, alive>>

Init == /\ tree = EmptyTree
        /\ alive = {}

\* new TNode: the constructor clears the four pointers.
Construct(n) ==
    /\ n \notin alive
    /\ alive' = alive \cup {n}
    /\ tree' = Free(tree, {n})

\* A caller may hand n to p: n is linked nowhere and p is not in its subtree.
Insertable(p, n) ==
    /\ {p, n} \subseteq alive
    /\ tree.parent[n] = NULL
    /\ ~AncestorOrSelf(tree, n, p)

DoAddChild(p, n) ==
    /\ Insertable(p, n)
    /\ tree' = AddChild(tree, p, n)
    /\ UNCHANGED alive

DoInsertBefore(p, n, refer) ==
    /\ Insertable(p, n)
    /\ ReferenceOK(tree, p, n, refer)
    /\ tree' = InsertBefore(tree, p, n, refer)
    /\ UNCHANGED alive

DoInsertAfter(p, n, refer) ==
    /\ Insertable(p, n)
    /\ ReferenceOK(tree, p, n, refer)
    /\ tree' = InsertAfter(tree, p, n, refer)
    /\ UNCHANGED alive

DoInsertOrAppend(p, n, refer) ==
    /\ Insertable(p, n)
    /\ ReferenceOK(tree, p, n, refer)
    /\ tree' = InsertOrAppend(tree, p, n, refer)
    /\ UNCHANGED alive

DoUnlink(n) ==
    /\ n \in alive
    /\ tree' = Unlink(tree, n)
    /\ UNCHANGED alive

DoRemove(n) ==
    /\ n \in alive
    /\ tree' = Remove(tree, n)
    /\ alive' = alive \ Deleted(tree, n)

DoRemoveNexts(n) ==
    /\ n \in alive
    /\ tree' = RemoveNexts(tree, n)
    /\ alive' = alive \ DeletedNexts(tree, n)

DoRemoveChildren(n) ==
    /\ n \in alive
    /\ tree.first[n] # NULL
    /\ tree' = RemoveChildren(tree, n)
    /\ alive' = alive \ DeletedNexts(tree, tree.first[n])

\* Neither node is above the other, and they are not neighbours: InsertAfter then
\* asserts that the reference which was noted is not the node itself.  The editor
\* exchanges a node of its tree with one of a tree built aside for it.
DoSwap(l, r) ==
    /\ {l, r} \subseteq alive
    /\ ~AncestorOrSelf(tree, l, r) /\ ~AncestorOrSelf(tree, r, l)
    /\ tree.prev[l] # r /\ tree.prev[r] # l
    /\ tree' = Swap(tree, l, r)
    /\ UNCHANGED alive

Next ==
    \/ \E n \in Node :
        \/ Construct(n)
        \/ DoUnlink(n)
        \/ DoRemove(n)
        \/ DoRemoveNexts(n)
        \/ DoRemoveChildren(n)
    \/ \E p, n \in Node :
        \/ DoAddChild(p, n)
        \/ DoSwap(p, n)
        \/ \E refer \in Ptr :
            \/ DoInsertBefore(p, n, refer)
            \/ DoInsertAfter(p, n, refer)
            \/ DoInsertOrAppend(p, n, refer)

Spec == Init /\ [][Next]_vars

-----------------------------------------------------------------------------
(* Properties *)

\* The fields hold nodes or null; the pointers of an address that holds no
\* node are those its constructor will write.
TypeOK ==
    /\ tree \in Tree
    /\ alive \in SUBSET Node

\* A pointer of a living node never leads to a freed one: what Remove() and
\* the destructor free is unlinked from all that stays.
NoDangling ==
    \A n \in Node :
        /\ tree.parent[n] # NULL => {n, tree.parent[n]} \subseteq alive
        /\ tree.prev[n] # NULL => {n, tree.prev[n]} \subseteq alive
        /\ tree.next[n] # NULL => {n, tree.next[n]} \subseteq alive
        /\ tree.first[n] # NULL => {n, tree.first[n]} \subseteq alive

\* The four pointers tell one story (Tree.h, every method): a first child has
\* its parent and no previous sibling, and the child that has no previous
\* sibling is the first one; next and previous are converse and join children
\* of one parent; a node without parent has no siblings.
FirstLinked(t) ==
    /\ \A p, c \in Node :
        t.first[p] = c <=> (t.parent[c] = p /\ t.prev[c] = NULL)
    /\ \A p, c \in Node : t.parent[c] = p => t.first[p] # NULL
SiblingsLinked(t) ==
    /\ \A c, d \in Node : t.next[c] = d <=> t.prev[d] = c
    /\ \A c, d \in Node : t.next[c] = d => t.parent[c] = t.parent[d]
RootsUnlinked(t) ==
    \A c \in Node :
        t.parent[c] = NULL => t.prev[c] = NULL /\ t.next[c] = NULL
\* A parent has exactly one last child, the one LastChild() walks to.
OneLast(t) ==
    \A p \in Node :
        /\ t.first[p] # NULL =>
            \E c \in Node : t.parent[c] = p /\ t.next[c] = NULL
        /\ \A c, d \in Node :
            (/\ t.parent[c] = p /\ t.next[c] = NULL
             /\ t.parent[d] = p /\ t.next[d] = NULL) => c = d

Linked(t) == FirstLinked(t) /\ SiblingsLinked(t) /\ RootsUnlinked(t) /\ OneLast(t)

WellLinked == Linked(tree)

\* No cycle of parents and no ring of siblings: whichever nodes one takes,
\* the walks of IsParent() and LastChild() lead out of them.
ParentsEnd(t) ==
    \A S \in SUBSET Node : S # {} => \E x \in S : t.parent[x] \notin S
SiblingsEnd(t) ==
    \A S \in SUBSET Node : S # {} => \E x \in S : t.next[x] \notin S

Acyclic == ParentsEnd(tree) /\ SiblingsEnd(tree)

\* WellFormed: whatever the calls, the fields hold nodes or null, the pointers
\* agree and lead to living nodes only, and every walk and recursion over them
\* ends (all methods of Tree.h).
WellFormed == TypeOK /\ NoDangling /\ WellLinked /\ Acyclic
=============================================================================
