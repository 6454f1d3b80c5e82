------------------------------ MODULE TreeNode ------------------------------
(***************************************************************************)
(* The intrusive tree template Vek::TreeNode (Vek/Vek/Base/Tree.h), the    *)
(* base class of every node of the trigger editor and of the TEE           *)
(* templates.  A tree is a record t of the four pointer fields of every    *)
(* node; each method is an operator that returns the record the method     *)
(* leaves behind.  "this" is the operator's first node argument.           *)
(***************************************************************************)
EXTENDS Integers

CONSTANTS
    Node,       \* the addresses a node may live at
    NULL        \* the null pointer

ASSUME NullAssumption == NULL \notin Node

Ptr == Node \cup {NULL}

\* The pointer fields m_pParent, m_pPrev, m_pNext and m_pFirstChild.
Tree == [parent : [Node -> Ptr], prev  : [Node -> Ptr],
         next   : [Node -> Ptr], first : [Node -> Ptr]]

AllNull == [n \in Node |-> NULL]

\* What the constructor leaves in every node.
EmptyTree == [parent |-> AllNull, prev |-> AllNull,
              next |-> AllNull, first |-> AllNull]

-----------------------------------------------------------------------------
(* Queries *)

\* LastChild() walks m_pNext from m_pFirstChild to the child that has none.
\* In a linked tree that is the only child without a next sibling.
LastChild(t, p) ==
    IF t.first[p] = NULL
    THEN NULL
    ELSE CHOOSE c \in Node : t.parent[c] = p /\ t.next[c] = NULL

\* Every set that holds p and is closed under Parent() holds a: the walk of
\* IsParent, started at the node itself.
AncestorOrSelf(t, a, p) ==
    \A S \in SUBSET Node :
        (/\ p \in S
         /\ \A x \in S : t.parent[x] # NULL => t.parent[x] \in S) => a \in S

\* this->IsParent(a): a is met walking up from this->Parent().
IsParent(t, this, a) ==
    /\ t.parent[this] # NULL
    /\ AncestorOrSelf(t, a, t.parent[this])

\* S holds n and whatever `delete n` reaches: ~TreeNode deletes m_pFirstChild
\* and the siblings after it, but not the siblings of n.
ClosedUnderDelete(t, n, S) ==
    /\ n \in S
    /\ \A s \in S : t.first[s] # NULL => t.first[s] \in S
    /\ \A s \in S \ {n} : t.next[s] # NULL => t.next[s] \in S

\* The nodes that `delete n` frees.
Deleted(t, n) ==
    {x \in Node : \A S \in SUBSET Node : ClosedUnderDelete(t, n, S) => x \in S}

-----------------------------------------------------------------------------
(* Updates.  A definition named <Method>_<Slip> is the method with a slip a *)
(* maintainer could make; the runs show which property would tell.         *)

\* Slip: the null test is forgotten and the store goes through a null p.
Put_NoNullTest(f, p, v) ==
    [x \in DOMAIN f \cup {p} |-> IF x = p THEN v ELSE f[x]]

\* Store v in field f of node p; a null p is skipped, as the code's tests do.
Put(f, p, v) == IF p = NULL THEN f ELSE [f EXCEPT ![p] = v]

AddChild(t, this, n) ==
    LET last == LastChild(t, this)
        append == last # n          \* else only the parent is written
    IN  [parent |-> [t.parent EXCEPT ![n] = this],
         prev   |-> IF append THEN [t.prev EXCEPT ![n] = last] ELSE t.prev,
         next   |-> IF append THEN [Put(t.next, last, n) EXCEPT ![n] = NULL]
                              ELSE t.next,
         first  |-> IF t.first[this] = NULL THEN [t.first EXCEPT ![this] = n]
                                            ELSE t.first]

\* The two assertions at the head of InsertBefore and InsertAfter.
ReferenceOK(t, this, n, refer) ==
    n # refer /\ (refer = NULL \/ (refer \in Node /\ t.parent[refer] = this))

InsertBefore(t, this, n, refer) ==
    LET before == IF refer # NULL THEN t.prev[refer] ELSE LastChild(t, this) IN
    [parent |-> [t.parent EXCEPT ![n] = this],
     prev   |-> Put([t.prev EXCEPT ![n] = before], refer, n),
     next   |-> Put([t.next EXCEPT ![n] = refer], before, n),
     first  |-> IF before = NULL THEN [t.first EXCEPT ![this] = n] ELSE t.first]

\* Slip: the next sibling is read after the reference node points to n.
InsertAfter_LateRead(t, this, n, refer) ==
    [parent |-> [t.parent EXCEPT ![n] = this],
     prev   |-> [t.prev EXCEPT ![n] = refer],
     next   |-> [Put(t.next, refer, n) EXCEPT ![n] = n],
     first  |-> IF refer = NULL THEN [t.first EXCEPT ![this] = n] ELSE t.first]

InsertAfter(t, this, n, refer) ==
    LET after == IF refer # NULL THEN t.next[refer] ELSE t.first[this] IN
    [parent |-> [t.parent EXCEPT ![n] = this],
     prev   |-> Put([t.prev EXCEPT ![n] = refer], after, n),
     next   |-> Put([t.next EXCEPT ![n] = after], refer, n),
     first  |-> IF refer = NULL THEN [t.first EXCEPT ![this] = n] ELSE t.first]

\* Slip: a null reference means "before the first child", as in InsertAfter.
InsertOrAppend_Prepends(t, this, n, refer) == InsertAfter(t, this, n, refer)

InsertOrAppend(t, this, n, refer) ==
    InsertAfter(t, this, n, IF refer # NULL THEN refer ELSE LastChild(t, this))

\* Slip: the next sibling keeps its pointer back to n.
Unlink_KeepsBackPointer(t, n) ==
    [parent |-> [t.parent EXCEPT ![n] = NULL],
     prev   |-> [t.prev EXCEPT ![n] = NULL],
     next   |-> [Put(t.next, t.prev[n], t.next[n]) EXCEPT ![n] = NULL],
     first  |-> IF t.prev[n] = NULL THEN Put(t.first, t.parent[n], t.next[n])
                                    ELSE t.first]

Unlink(t, n) ==
    [parent |-> [t.parent EXCEPT ![n] = NULL],
     prev   |-> [Put(t.prev, t.next[n], t.prev[n]) EXCEPT ![n] = NULL],
     next   |-> [Put(t.next, t.prev[n], t.next[n]) EXCEPT ![n] = NULL],
     first  |-> IF t.prev[n] = NULL THEN Put(t.first, t.parent[n], t.next[n])
                                    ELSE t.first]

\* The fields of a freed node are those its next constructor writes.
Free(t, S) ==
    LET clear(f) == [x \in Node |-> IF x \in S THEN NULL ELSE f[x]] IN
    [parent |-> clear(t.parent), prev |-> clear(t.prev),
     next |-> clear(t.next), first |-> clear(t.first)]

\* The three pointer fixes of Remove(), before `delete this`.
RemoveLinks(t, n) ==
    [parent |-> [t.parent EXCEPT ![n] = NULL],
     prev   |-> [Put(t.prev, t.next[n], t.prev[n]) EXCEPT ![n] = NULL],
     next   |-> [Put(t.next, t.prev[n], t.next[n]) EXCEPT ![n] = NULL],
     first  |-> IF t.parent[n] # NULL /\ t.first[t.parent[n]] = n
                THEN [t.first EXCEPT ![t.parent[n]] = t.next[n]]
                ELSE t.first]

\* Slip: the node is freed as it stands, still linked to its neighbours.
Remove_WithoutUnlink(t, n) == Free(t, Deleted(t, n))

\* Remove( false )
Remove(t, n) == Free(RemoveLinks(t, n), Deleted(t, n))

\* The nodes that Remove( true ) frees: n, the siblings after it, and all
\* that is below them.
DeletedNexts(t, n) ==
    {x \in Node : \A S \in SUBSET Node :
        (/\ n \in S
         /\ \A s \in S : t.first[s] # NULL => t.first[s] \in S
         /\ \A s \in S : t.next[s] # NULL => t.next[s] \in S) => x \in S}

\* Remove( true ): the recursion on the next sibling unlinks each in turn, so
\* the sibling before n ends as the last one, or the parent without children.
RemoveNexts(t, n) ==
    Free([parent |-> t.parent, prev |-> t.prev,
          next   |-> Put(t.next, t.prev[n], NULL),
          first  |-> IF t.parent[n] # NULL /\ t.first[t.parent[n]] = n
                     THEN [t.first EXCEPT ![t.parent[n]] = NULL]
                     ELSE t.first],
         DeletedNexts(t, n))

RemoveChildren(t, n) ==
    IF t.first[n] = NULL THEN t ELSE RemoveNexts(t, t.first[n])

\* Slip: the right node's place is noted after the left one was moved there.
Swap_NotesTooLate(t, l, r) ==
    LET t2 == Unlink(Unlink(t, l), r) IN
    IF t.parent[l] # NULL THEN InsertAfter(t2, t.parent[l], r, t.prev[l]) ELSE t2

\* Swap(l, r): each node takes the place that was noted for the other before
\* both were unlinked; a node without a parent leaves no place.
Swap(t, l, r) ==
    LET t2 == Unlink(Unlink(t, l), r)
        t3 == IF t.parent[l] # NULL
              THEN InsertAfter(t2, t.parent[l], r, t.prev[l]) ELSE t2
    IN  IF t.parent[r] # NULL
        THEN InsertAfter(t3, t.parent[r], l, t.prev[r]) ELSE t3
=============================================================================
