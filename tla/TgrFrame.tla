------------------------------ MODULE TgrFrame ------------------------------
(***************************************************************************)
(* The editing session, TgrEditFrame (TriggerEditor/App/TgrFrame.cpp): the *)
(* space on the screen, its file, the undo lists of CmdManager and the     *)
(* flag that says whether the user has something to save.  The content of  *)
(* a space is the set of the edits in effect; each command is a new edit.  *)
(***************************************************************************)
EXTENDS CmdManager

CONSTANTS
    Space,      \* the spaces of the game, one .TGR file each
    VarSet,     \* the document of the global variables, edited in a dialog
    NoSpace     \* no selection; no tree

ASSUME FrameAssumption ==
    NoSpace \notin Space /\ VarSet \in Doc \ {Gallery} /\ {Gallery, VarSet} = Doc

VARIABLES
    file,       \* per space: the edits in its .TGR file, or Unreadable
    chief,      \* the space SpaceManager's root was loaded for
    content,    \* the edits in effect in that root
    shown,      \* the gallery shows the root
    chosen,     \* the selection of m_SpacesChoice
    last,       \* m_iLastSpaceSelect
    made,       \* auxiliary: every edit there has been
    mine,       \* auxiliary: the edits made since the root was built
    stepped,    \* auxiliary: undone or redone since the flag was cleared
    saveFailed  \* auxiliary: the save that cleared the flag failed

frameVars ==
    <<file, chief, content, shown, chosen, last, made, mine, stepped, saveFailed>>
allVars == <<cmdVars, frameVars>>

Unreadable == {"unreadable"}

\* The program starts on an empty selection (InitFiles, LoadSpaceInfos).
FrameInit ==
    /\ CmdInit
    /\ file \in [Space -> {{}, Unreadable}]
    /\ chief = NoSpace /\ content = {} /\ shown = FALSE
    /\ chosen = NoSpace /\ last = NoSpace
    /\ mine = {} /\ made = {} /\ stepped = FALSE /\ saveFailed = FALSE

-----------------------------------------------------------------------------

\* Documents are edited in the gallery and in windows that show a node of it;
\* the variables' dialog asks SpaceManager, which keeps its root when the
\* gallery is emptied.
Editable(d) == chief # NoSpace /\ (shown \/ d = VarSet)

Edit(d, c) ==
    /\ Editable(d) /\ c \notin made
    /\ AddCommand(d, c, {})
    /\ content' = content \cup {c}
    /\ made' = made \cup {c}
    /\ mine' = mine \cup {c}
    /\ stepped' = FALSE /\ saveFailed' = FALSE
    /\ UNCHANGED <<file, chief, shown, chosen, last>>

\* Undo and Redo of the window that has the focus.
Step(d) ==
    /\ Editable(d)
    /\ \/ UnDo(d, {}) /\ content' = content \ {lists[d].cmds[lists[d].undo]}
       \/ ReDo(d, {}) /\ content' = content \cup {lists[d].cmds[lists[d].redo]}
    /\ stepped' = (stepped \/ ~fileChanged)
    /\ UNCHANGED <<file, chief, shown, chosen, last, made, mine, saveFailed>>

\* The space whose file SaveTrigger writes.
Target == chosen

\* SaveTrigger, past its early returns and the check for errors.  It may be
\* that nothing is written or that a part is; the flag is cleared anyhow.  (The
\* dialog for a name is never shown: LoadNode has set one before there is a
\* root.)
SaveTrigger(f) ==
    /\ chief # NoSpace /\ chosen # NoSpace
    /\ f \in {content, file[Target], Unreadable}
    /\ file' = [file EXCEPT ![Target] = f]
    /\ fileChanged' = FALSE

Save(f) ==
    /\ SaveTrigger(f)
    /\ stepped' = FALSE /\ saveFailed' = (f # content)
    /\ UNCHANGED <<lists, effect, chief, content, shown, chosen, last, made, mine>>

\* Slip: a space that could not be loaded counts as saved.
LoadCurrentSpace_BuiltIsSaved(s) ==
    /\ chosen' = s /\ last' = s /\ chief' = s /\ shown' = TRUE
    /\ content' = IF file[s] = Unreadable THEN {} ELSE file[s]
    /\ FlushCommands
    /\ fileChanged' = FALSE
    /\ mine' = {} /\ stepped' = FALSE /\ saveFailed' = FALSE
    /\ UNCHANGED <<file, made>>

\* LoadCurrentSpace: a file that cannot be read gives the default space, which
\* is not saved yet.
LoadCurrentSpace(s) ==
    /\ chosen' = s /\ last' = s /\ chief' = s /\ shown' = TRUE
    /\ content' = IF file[s] = Unreadable THEN {} ELSE file[s]
    /\ FlushCommands
    /\ fileChanged' = (file[s] = Unreadable)
    /\ mine' = {} /\ stepped' = FALSE /\ saveFailed' = FALSE
    /\ UNCHANGED <<file, made>>

\* Slip: the selection is not set back when the user changes his mind.
Kept_Chosen(s) == s

\* The selection after the question was answered with Cancel.
Kept(s) == IF last # NoSpace THEN last ELSE s

\* OnSpaceChoice: the user is asked whether to drop his changes, if the flag
\* says that he made some.
ChooseSpace(s) == s # last /\ LoadCurrentSpace(s)

CancelChoice(s) ==
    /\ s # last
    /\ fileChanged
    /\ chosen' = Kept(s)
    /\ UNCHANGED <<cmdVars, file, chief, content, shown, last, made, mine,
                   stepped, saveFailed>>

\* OpenSpaces and LoadSpaceInfos: the choices are read anew and the windows
\* emptied; SpaceManager still has the root.
OpenSpaces ==
    /\ chosen' = NoSpace /\ last' = NoSpace /\ shown' = FALSE
    /\ FlushCommands
    /\ fileChanged' = FALSE
    /\ UNCHANGED <<file, chief, content, made, mine, stepped, saveFailed>>

\* ~TgrEditFrame, and the next start of the program: Yes to its question saves,
\* unless SaveTrigger refuses.
Close ==
    /\ \/ UNCHANGED file
       \/ fileChanged /\ \E f \in (SUBSET Cmd) \cup {Unreadable} : SaveTrigger(f)
    /\ FlushCommands
    /\ fileChanged' = FALSE
    /\ chief' = NoSpace /\ content' = {} /\ shown' = FALSE
    /\ chosen' = NoSpace /\ last' = NoSpace
    /\ mine' = {} /\ stepped' = FALSE /\ saveFailed' = FALSE
    /\ UNCHANGED made

FrameNext ==
    \/ \E d \in Doc : Step(d) \/ \E c \in Cmd : Edit(d, c)
    \/ \E f \in (SUBSET Cmd) \cup {Unreadable} : Save(f)
    \/ \E s \in Space : ChooseSpace(s) \/ CancelChoice(s)
    \/ OpenSpaces
    \/ Close

FrameSpec == FrameInit /\ [][FrameNext]_allVars

-----------------------------------------------------------------------------
(* Properties *)

FrameTypeOK ==
    /\ ListsTypeOK
    /\ file \in [Space -> (SUBSET Cmd) \cup {Unreadable}]
    /\ {chief, chosen, last} \subseteq Space \cup {NoSpace}
    /\ content \subseteq made /\ mine \subseteq made /\ made \subseteq Cmd
    /\ {shown, stepped, saveFailed} \subseteq BOOLEAN

\* A cleared flag is a promise: the space on the screen is the one in its file,
\* as long as nothing was undone or redone and no write failed since it was
\* cleared (SetFileChanged in SaveTrigger and LoadCurrentSpace).
FlagHonest ==
    shown /\ ~fileChanged /\ ~stepped /\ ~saveFailed => file[chief] = content

\* A file is only ever written with the space that was loaded for it.  (It is not:
\* opening the list of spaces again clears the selection and m_iLastSpaceSelect and
\* keeps the root; a change in the variables' dialog, another choice and Cancel then
\* leave the choice selected, and SaveTrigger writes the old root to its file.)
SavesOwnSpace == [][\A s \in Space : file'[s] # file[s] => s = chief]_allVars

\* Once a space was loaded since the list of spaces was opened, a save writes
\* that space to its own file and to no other: the selection, which names the file,
\* follows the root through loads and cancelled changes of mind (OnSpaceChoice
\* and SaveTrigger agree on the selection).
SavesLoadedSpace ==
    [][last # NoSpace => \A s \in Space : file'[s] # file[s] => s = chief]_allVars

\* The commands in the lists are about nodes of the present root, those of the
\* root before were flushed with it (LoadCurrentSpace).
CommandsOfThisRoot == \A d \in Doc : OwnedBy(lists[d]) \subseteq mine

\* Changes of the space on the screen that no save tried to write are dropped
\* only after the question of OnSpaceChoice, which is put when the flag is set.
LossIsAsked ==
    [][\A s \in Space :
        ChooseSpace(s) /\ shown /\ content # file[chief]
            => fileChanged \/ saveFailed]_allVars
=============================================================================
