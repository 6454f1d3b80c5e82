----------------------------- MODULE UndoStack ------------------------------
(* What the history of a document promises: a stack of done commands and one *)
(* of undone commands, which a new command empties.                          *)
EXTENDS Integers, Sequences

CONSTANTS Doc, Cmd

VARIABLES done, undone

vars == <<done, undone>>

Nothing == [d \in Doc |-> << >>]

Init == done = Nothing /\ undone = Nothing

\* The stacks s after d's becomes q and the documents R lose theirs.
With(s, d, q, R) ==
    [e \in Doc |-> IF e = d THEN q ELSE IF e \in R THEN << >> ELSE s[e]]

Do(d, c, R) ==
    /\ done' = With(done, d, Append(done[d], c), R)
    /\ undone' = With(undone, d, << >>, R)

Undo(d, R) ==
    /\ done[d] # << >>
    /\ LET n == Len(done[d]) IN
        /\ done' = With(done, d, SubSeq(done[d], 1, n - 1), R)
        /\ undone' = With(undone, d, <<done[d][n]>> \o undone[d], R)

Redo(d, R) ==
    /\ undone[d] # << >>
    /\ done' = With(done, d, Append(done[d], Head(undone[d])), R)
    /\ undone' = With(undone, d, Tail(undone[d]), R)

Forget == done' = Nothing /\ undone' = Nothing

Next ==
    \/ \E d \in Doc : \E R \in SUBSET (Doc \ {d}) :
        \/ \E c \in Cmd : Do(d, c, R)
        \/ Undo(d, R)
        \/ Redo(d, R)
    \/ Forget

Spec == Init /\ [][Next]_vars
=============================================================================
