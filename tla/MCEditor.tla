------------------------------ MODULE MCEditor ------------------------------
(***************************************************************************)
(* Model checking of what the editor's commands rest on: the tree template *)
(* (TreeForest), the undo lists by themselves (CmdManager), where a        *)
(* command may remove triggers with their lists, the session that owns     *)
(* them (TgrFrame), and the references between the nodes of a space        *)
(* (SpaceReferences).  A behaviour is one of one part, chosen in the       *)
(* initial state; what the part does not use rests.                        *)
(***************************************************************************)
EXTENDS TgrFrame, MCTreeForest, SpaceReferences, TLC

CONSTANTS
    SessionCmd  \* bound: the edits of a session

VARIABLES
    part        \* which module runs

editorVars == <<part, vars, allVars, refVars>>

\* Of the names and nodes of SpaceReferences, which the temporal properties (all of
\* them safety) do not speak of.
Symmetry == Permutations(Trigger) \cup Permutations(TriggerRef) \cup Permutations(Name)

-----------------------------------------------------------------------------
\* Lists that are checked without a session are of no root: as if all their
\* commands were made since it was built.
ListsInit ==
    /\ CmdInit
    /\ file = [s \in Space |-> {}]
    /\ chief = NoSpace /\ content = {} /\ shown = FALSE
    /\ chosen = NoSpace /\ last = NoSpace
    /\ mine = Cmd /\ made = Cmd /\ stepped = FALSE /\ saveFailed = FALSE

EditorInit ==
    /\ part \in {"tree", "lists", "session", "references"}
    /\ Init /\ RefInit
    /\ IF part = "session" THEN FrameInit ELSE ListsInit

InTree == part = "tree" /\ Next /\ UNCHANGED <<part, allVars, refVars>>
InLists == part = "lists" /\ CmdNext /\ UNCHANGED <<part, vars, frameVars, refVars>>
InSession ==
    /\ part = "session" /\ FrameNext /\ made' \subseteq SessionCmd
    /\ UNCHANGED <<part, vars, refVars>>
InReferences == part = "references" /\ RefNext /\ UNCHANGED <<part, vars, allVars>>

EditorNext == InTree \/ InLists \/ InSession \/ InReferences
EditorSpec == EditorInit /\ [][EditorNext]_editorVars

-----------------------------------------------------------------------------
\* The properties are the modules' own: those of one hold in the parts of the
\* others, where its variables rest.
=============================================================================
