------------------------------ MODULE TEEFrame ------------------------------
(***************************************************************************)
(* The program that writes the definitions of the editor (TEEFactory/      *)
(* TEEFrame.cpp): what its window does to the tree of definitions.  Under  *)
(* the roots of the kinds (events, conditions, ...) stand the definitions, *)
(* which are made, deleted and dragged among their siblings.               *)
(***************************************************************************)
EXTENDS TreeForest

CONSTANTS
    KindRoot    \* the roots of the kinds, which stay

\* NewTEELib: the roots are there and have no children.
TEEInit == tree = EmptyTree /\ alive = KindRoot

\* DoNewNode: the dialog appends the new definition.
DoNewNode(p, n) ==
    /\ p \in KindRoot /\ n \notin alive
    /\ tree' = AddChild(Free(tree, {n}), p, n)
    /\ alive' = alive \cup {n}

OnDelete(n) ==
    /\ n \in alive \ KindRoot
    /\ tree' = Remove(tree, n)
    /\ alive' = alive \ Deleted(tree, n)

\* OnEndDrag, up to its switch: src was dragged onto dst.
Dragged(src, dst) ==
    /\ {src, dst} \subseteq alive \ KindRoot
    /\ src # dst /\ tree.parent[src] = tree.parent[dst]

\* With the left button, src goes behind dst ...
LeftDrag(src, dst) ==
    /\ Dragged(src, dst)
    /\ tree' = InsertOrAppend(Unlink(tree, src), tree.parent[dst], src, dst)
    /\ UNCHANGED alive

\* ... and with the right one they are exchanged.
RightDrag(src, dst) ==
    /\ Dragged(src, dst)
    /\ tree' = Swap(tree, src, dst)
    /\ UNCHANGED alive

TEENext ==
    \/ \E n \in Node : OnDelete(n) \/ \E p \in KindRoot : DoNewNode(p, n)
    \/ \E src, dst \in Node : LeftDrag(src, dst) \/ RightDrag(src, dst)

TEESpec == TEEInit /\ [][TEENext]_vars
=============================================================================
