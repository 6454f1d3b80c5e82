--------------------------- MODULE MCEditCommands ---------------------------
(***************************************************************************)
(* Model checking of EditCommands on two spaces, one in each behaviour:    *)
(* a trigger with two statements, where a third one can be made; and a     *)
(* group with a function, where another group, a trigger and a statement   *)
(* can be made.                                                            *)
(***************************************************************************)
EXTENDS EditCommands

CONSTANTS
    r, g, k, t, f, x, y, z      \* the nodes, by their addresses

Nodes == {r, g, k, t, f, x, y, z}
Groups == {g, k}
Statements == {x, y, z}

Statements2 ==
    [loaded |-> <<<<g, r>>, <<t, g>>, <<x, t>>, <<y, t>>>>,
     addresses |-> {g, t, x, y, z}, maxCmds |-> 2]
Gallery3 ==
    [loaded |-> <<<<g, r>>, <<f, g>>>>,
     addresses |-> {g, k, t, f, x}, maxCmds |-> 3]
TwoSpaces == {Statements2, Gallery3}
=============================================================================
