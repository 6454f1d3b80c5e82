----------------------------- MODULE MCTEEFrame -----------------------------
(* Model checking of the drags in TEEFrame: one kind with three definitions. *)
EXTENDS TEEFrame, MCTreeForest

\* The sequence s with what is at a and b exchanged.
Exchanged(s, a, b) ==
    [i \in DOMAIN s |-> IF s[i] = a THEN b ELSE IF s[i] = b THEN a ELSE s[i]]

\* DragExchanges, which the code does not keep: dragged with the right button, a
\* definition and its sibling have exchanged their places and no other child has
\* moved.  (The comment at TEEFrame.cpp:816 says "exchange"; of neighbours, Swap
\* breaks the assertion at Tree.h:139 and one falls out of the list.)
DragExchanges ==
    [][\A src, dst \in Node :
        RightDrag(src, dst) =>
            ChildSeq(tree', tree.parent[src])
                = Exchanged(ChildSeq(tree, tree.parent[src]), src, dst)]_vars
=============================================================================
