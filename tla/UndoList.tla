------------------------------ MODULE UndoList ------------------------------
(***************************************************************************)
(* The list of commands of one document, CmdList (TriggerEditor/Command/   *)
(* CmdManager.cpp).  The two list iterators are the places they point to;  *)
(* end() is the place after the last command.                              *)
(***************************************************************************)
EXTENDS Integers, Sequences

\* m_undoIter is begin() and m_redoIter is end(), the same place when empty.
EmptyList == [cmds |-> << >>, undo |-> 1, redo |-> 1]

ListEnd(l) == Len(l.cmds) + 1

CanUnDo(l) == l.undo # ListEnd(l)
CanReDo(l) == l.redo # ListEnd(l)

\* The commands that AddCommand deletes: those that could have been redone.
Leaving(l) == SubSeq(l.cmds, l.redo, Len(l.cmds))

\* Slip: the commands that could be redone stay in the list.
Pushed_KeepsTail(l, c) ==
    [cmds |-> Append(l.cmds, c), undo |-> Len(l.cmds) + 1, redo |-> Len(l.cmds) + 2]

\* AddCommand: erase the leaving commands, push c, put redo at the end and
\* undo on c.
Pushed(l, c) ==
    LET kept == SubSeq(l.cmds, 1, l.redo - 1) IN
    [cmds |-> Append(kept, c), undo |-> Len(kept) + 1, redo |-> Len(kept) + 2]

\* Slip: the iterator is moved back whatever it points to.
SteppedBack_PastBegin(l) == [cmds |-> l.cmds, redo |-> l.undo, undo |-> l.undo - 1]

\* Slip: the first command is left under the undo iterator.
SteppedBack_StaysAtBegin(l) ==
    [cmds |-> l.cmds, redo |-> l.undo, undo |-> IF l.undo # 1 THEN l.undo - 1 ELSE 1]

\* UnDo, after the command under m_undoIter was unexecuted: end() says that
\* there is nothing left to undo.
SteppedBack(l) ==
    [cmds |-> l.cmds, redo |-> l.undo,
     undo |-> IF l.undo # 1 THEN l.undo - 1 ELSE ListEnd(l)]

\* ReDo, after the command under m_redoIter was executed.
SteppedOn(l) == [cmds |-> l.cmds, undo |-> l.redo, redo |-> l.redo + 1]
=============================================================================
