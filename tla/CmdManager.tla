----------------------------- MODULE CmdManager -----------------------------
(***************************************************************************)
(* CmdManager (TriggerEditor/Command/CmdManager.cpp): one undo list per    *)
(* document, and the memory of the commands.  What a command does to the   *)
(* space is in EditCommands; here it is whether its effect is in place.    *)
(***************************************************************************)
EXTENDS UndoList

CONSTANTS
    Doc,        \* document ids: 0 for the gallery, else the edited trigger
    Cmd,        \* the addresses a command object may live at
    Gallery     \* the gallery's document id

ASSUME GalleryAssumption == Gallery \in Doc

VARIABLES
    lists,      \* m_docCmds; a document without a CmdList has the empty one
    effect,     \* per address: no command, or one whose effect is in place or not
    fileChanged \* m_bFileChanged of the frame

cmdVars == <<lists, effect, fileChanged>>

Effects == {"none", "done", "undone"}

\* The commands of a sequence, and those that a list owns.
CmdsIn(s) == {s[i] : i \in 1..Len(s)}
OwnedBy(l) == CmdsIn(l.cmds)

-----------------------------------------------------------------------------

CmdInit ==
    /\ lists = [d \in Doc |-> EmptyList]
    /\ effect = [c \in Cmd |-> "none"]
    /\ fileChanged = FALSE

\* Executing or unexecuting a command of the gallery may remove triggers from
\* the space, and RemoveItemNode deletes the lists of their documents; the
\* gallery itself is never one of them.
Removable(d, R) == R \subseteq Doc \ {Gallery} /\ (d # Gallery => R = {})

\* The commands deleted with the lists of the documents R.
OwnedByDocs(R) == UNION {OwnedBy(lists[e]) : e \in R}

\* Slip: the list is erased from the map, its commands are never deleted.
WithoutDocs_Leak(e, R) == e

\* The effects e once the lists of the documents R are deleted.
WithoutDocs(e, R) ==
    [c \in Cmd |-> IF c \in OwnedByDocs(R) THEN "none" ELSE e[c]]

\* AddCommand(d, c): the commands that could be redone are deleted before the
\* new one is executed (or was, by the dialog that made it).
AddCommand(d, c, R) ==
    /\ effect[c] = "none"
    /\ Removable(d, R)
    /\ lists' = [e \in Doc |-> IF e = d THEN Pushed(lists[d], c)
                               ELSE IF e \in R THEN EmptyList ELSE lists[e]]
    /\ effect' = WithoutDocs([x \in Cmd |->
                     IF x = c THEN "done"
                     ELSE IF x \in CmdsIn(Leaving(lists[d])) THEN "none"
                     ELSE effect[x]], R)
    /\ fileChanged' = TRUE

\* UnDo(d); nothing happens when there is nothing to undo.
UnDo(d, R) ==
    /\ CanUnDo(lists[d])
    /\ Removable(d, R)
    /\ lists' = [e \in Doc |-> IF e = d THEN SteppedBack(lists[d])
                               ELSE IF e \in R THEN EmptyList ELSE lists[e]]
    /\ effect' = WithoutDocs(
                   [effect EXCEPT ![lists[d].cmds[lists[d].undo]] = "undone"], R)
    /\ UNCHANGED fileChanged

\* ReDo(d).
ReDo(d, R) ==
    /\ CanReDo(lists[d])
    /\ Removable(d, R)
    /\ lists' = [e \in Doc |-> IF e = d THEN SteppedOn(lists[d])
                               ELSE IF e \in R THEN EmptyList ELSE lists[e]]
    /\ effect' = WithoutDocs(
                   [effect EXCEPT ![lists[d].cmds[lists[d].redo]] = "done"], R)
    /\ UNCHANGED fileChanged

\* Slip: the lists stay when their space goes.
FlushCommands_KeepsLists == UNCHANGED <<lists, effect>>

\* Flush(): every list is deleted with its commands.
FlushCommands ==
    /\ lists' = [d \in Doc |-> EmptyList]
    /\ effect' = WithoutDocs(effect, Doc)

Flush == FlushCommands /\ UNCHANGED fileChanged

CmdNext ==
    \/ \E d \in Doc, R \in SUBSET Doc :
        \/ \E c \in Cmd : AddCommand(d, c, R)
        \/ UnDo(d, R)
        \/ ReDo(d, R)
    \/ Flush

CmdSpec == CmdInit /\ [][CmdNext]_cmdVars

-----------------------------------------------------------------------------
(* Properties *)

ListsTypeOK ==
    /\ lists \in [Doc -> [cmds : Seq(Cmd), undo : Nat \ {0}, redo : Nat \ {0}]]
    /\ effect \in [Cmd -> Effects]
    /\ fileChanged \in BOOLEAN

\* The iterators of a list are neighbours: redo follows undo, or undo says
\* end() and redo stands at the beginning (CmdList::AddCommand, UnDo, ReDo).
CursorsOf(l) ==
    /\ l.redo \in 1..ListEnd(l)
    /\ l.undo = IF l.redo = 1 THEN ListEnd(l) ELSE l.redo - 1

Cursors == \A d \in Doc : CursorsOf(lists[d])

\* What lies before the redo iterator has its effect in place and what lies
\* from it on has not, so a command is executed and unexecuted in turns, and
\* never after it was deleted (CmdList::UnDo and ReDo check nothing of this).
EffectsInPlace ==
    \A d \in Doc : \A i \in 1..Len(lists[d].cmds) :
        effect[lists[d].cmds[i]] = IF i < lists[d].redo THEN "done" ELSE "undone"

\* A living command is owned by one place of one list: none is deleted twice
\* (by its own list and by another), and none is forgotten.
OwnedOnce ==
    /\ \A d, e \in Doc :
        \A i \in 1..Len(lists[d].cmds), j \in 1..Len(lists[e].cmds) :
            lists[d].cmds[i] = lists[e].cmds[j] => d = e /\ i = j
    /\ \A c \in Cmd : effect[c] # "none" =>
        \E d \in Doc : \E i \in 1..Len(lists[d].cmds) : lists[d].cmds[i] = c

\* The two stacks of a document: what was done, and what could be redone.
Done == [d \in Doc |-> SubSeq(lists[d].cmds, 1, lists[d].redo - 1)]
Undone == [d \in Doc |-> Leaving(lists[d])]

Stacks == INSTANCE UndoStack WITH done <- Done, undone <- Undone

\* A list with two iterators is two stacks: undo takes the last command done,
\* redo the last one undone, and a new command drops those undone (CmdList).
ImplementsUndoStack == Stacks!Spec
=============================================================================
