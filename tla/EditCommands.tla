---------------------------- MODULE EditCommands ----------------------------
(***************************************************************************)
(* Editing a space: what the commands of TriggerEditor/Command do to the   *)
(* tree when the windows make them, undo them and redo them, and whose     *)
(* nodes they own meanwhile.  A document is the gallery (groups, triggers, *)
(* functions) or one trigger or function (its statements); the fixed roots *)
(* inside a trigger are part of it.                                        *)
(***************************************************************************)
EXTENDS TreeForest, UndoList, FiniteSets

S == INSTANCE SequencesExt
F == INSTANCE FiniteSetsExt

CONSTANTS
    Root, Group, Trigger, Function, Statement,  \* the nodes, by class
    Gallery,    \* the gallery's document; a trigger's is the trigger
    Spaces,     \* the spaces that may be loaded: each the sequence of its nodes as
                \* <<child, parent>>, the addresses where nodes are made, and the
                \* bound on the macros kept, all documents together
    Careful     \* between a cut and its paste, which is in the same document, the
                \* user neither undoes nor redoes nor edits a statement

Document == {Gallery} \cup Trigger \cup Function

\* Only statements are below a trigger, a function or a statement.
Fits(n, p) == p = NULL \/ n \in Statement \/ p \in Group \cup {Root}

\* A file lists each node once, after its parent.
LoadableOK(loaded) ==
    /\ loaded \in Seq(Node \X Node)
    /\ \A i \in 1..Len(loaded) :
        /\ loaded[i][1] \notin {Root} \cup {loaded[j][1] : j \in 1..(i - 1)}
        /\ loaded[i][2] \in {Root} \cup {loaded[j][1] : j \in 1..(i - 1)}
        /\ Fits(loaded[i][1], loaded[i][2])

ASSUME EditAssumption ==
    /\ IsFiniteSet(Node) /\ Root \in Node
    /\ Node = {Root} \cup Group \cup Trigger \cup Function \cup Statement
    /\ Root \notin Group \cup Trigger \cup Function \cup Statement
    /\ Statement \cap (Group \cup Trigger \cup Function) = {}
    /\ Group \cap (Trigger \cup Function) = {} /\ Trigger \cap Function = {}
    /\ Gallery \notin Node
    /\ \A s \in Spaces :
        /\ LoadableOK(s.loaded)
        /\ s.addresses \subseteq Node /\ s.maxCmds \in Nat

VARIABLES
    space,      \* the space that was loaded, which does not change
    lists,      \* m_docCmds: per document its UndoList of macros
    cutting,    \* m_CuttingNodes, and (auxiliary) the document they were cut in
    broken,     \* auxiliary: what has gone wrong in the memory, or "no"
    seen        \* auxiliary: per document, what it showed at each place of its list

editVars == <<vars, space, lists, cutting, broken, seen>>

NothingCut == [doc |-> Gallery, nodes |-> << >>]

\* op on each element of q in turn, from the first on.
Folded(op(_, _), s, q) ==
    LET after[i \in 0..Len(q)] == IF i = 0 THEN s ELSE op(after[i - 1], q[i])
    IN  after[Len(q)]

LoadedTree(loaded) ==
    Folded(LAMBDA t, e : AddChild(t, e[2], e[1]), EmptyTree, loaded)

EditInit ==
    /\ space \in Spaces
    /\ tree = LoadedTree(space.loaded)
    /\ alive = {Root} \cup {space.loaded[i][1] : i \in 1..Len(space.loaded)}
    /\ lists = [d \in Document |-> EmptyList]
    /\ cutting = NothingCut
    /\ broken = "no"
    /\ seen = [d \in Document |-> << >>]

-----------------------------------------------------------------------------
(* Commands and macros.  A step is computed on a record s of the variables  *)
(* tree, alive, lists and broken, and stops when something breaks.          *)

Now == [t |-> tree, alive |-> alive, lists |-> lists, broken |-> broken]

Broke(s, why) == [s EXCEPT !.broken = why]
IsBroken(s) == s.broken # "no"

\* The constructors; they note where the node stands at that time.
AddNodeCmd(n, p, v) == [op |-> "add", node |-> n, parent |-> p, prev |-> v]
DeleteNodeCmd(n) ==
    [op |-> "delete", node |-> n, parent |-> tree.parent[n], prev |-> tree.prev[n]]
MoveNodeCmd(n, p, v) ==
    [op |-> "move", node |-> n, parent |-> p, prev |-> v,
     orgParent |-> tree.parent[n], orgPrev |-> tree.prev[n]]
ExchangeNodeCmd(bein, beout) == [op |-> "exchange", node |-> bein, other |-> beout]

\* The node and what holds it: Parent() walked up.
UpFrom(t, n) ==
    LET up[m \in Ptr] == IF m = NULL THEN {} ELSE {m} \cup up[t.parent[m]] IN up[n]

\* The node the command would delete with itself, done or undone.
Hanging(c, done) ==
    IF c.op = "add" THEN IF done THEN NULL ELSE c.node
    ELSE IF c.op = "delete" THEN IF done THEN c.node ELSE NULL
    ELSE IF c.op = "exchange" THEN IF done THEN c.node ELSE c.other
    ELSE NULL

\* Slip: the hanging nodes are not deleted.
Destroyed_Leak(s, c, done) == s

\* The destructors: a hanging node that is linked nowhere goes too.
Destroyed(s, c, done) ==
    LET h == Hanging(c, done) IN
    IF IsBroken(s) \/ h = NULL THEN s
    ELSE IF h \notin s.alive THEN Broke(s, "freed")
    ELSE IF s.t.parent[h] = NULL \/ c.op = "exchange"
         THEN [s EXCEPT !.t = Remove(s.t, h), !.alive = @ \ Deleted(s.t, h)]
         ELSE s

DestroyedMacro(s, m, done) == Folded(LAMBDA a, c : Destroyed(a, c, done), s, m)
DestroyedAll(s, macros, done) ==
    Folded(LAMBDA a, m : DestroyedMacro(a, m, done), s, macros)

\* RemoveCommands(d): the list of d and its commands.
RemoveCommands(s, d) ==
    LET l == s.lists[d]
        s1 == DestroyedAll(s, SubSeq(l.cmds, 1, l.redo - 1), TRUE)
        s2 == DestroyedAll(s1, Leaving(l), FALSE)
    IN  [s2 EXCEPT !.lists[d] = EmptyList]

\* Slip: a node that was the first child comes back as the last one.
AddNodeItem_ForgetsFirst(s, n, p, v) ==
    IF IsBroken(s) \/ p = NULL THEN s
    ELSE [s EXCEPT !.t = InsertOrAppend(s.t, p, n, v)]

\* AddNodeItem: before the first child when there is no previous sibling.
\* Linking a node that is linked already, or below itself, ruins the tree.
AddNodeItem(s, n, p, v) ==
    IF IsBroken(s) \/ p = NULL THEN s
    ELSE IF ~({n, p} \cup ({v} \ {NULL}) \subseteq s.alive) THEN Broke(s, "freed")
    ELSE LET refer == IF v = NULL THEN s.t.first[p] ELSE v IN
         IF ~ReferenceOK(s.t, p, n, refer) THEN Broke(s, "assertion")
         ELSE IF s.t.parent[n] # NULL \/ n \in UpFrom(s.t, p) THEN Broke(s, "linked")
         ELSE [s EXCEPT !.t = IF v = NULL THEN InsertBefore(s.t, p, n, refer)
                                          ELSE InsertOrAppend(s.t, p, n, v)]

\* Slip: the lists of the triggers stay.
RemoveItemNode_KeepsLists(s, n) ==
    IF IsBroken(s) THEN s
    ELSE IF n \notin s.alive THEN Broke(s, "freed")
    ELSE [s EXCEPT !.t = Unlink(s.t, n)]

\* RemoveItemNode: the node is unlinked, and the lists of the triggers that
\* leave the space with it are deleted (those of functions are not).
RemoveItemNode(s, n) ==
    IF IsBroken(s) THEN s
    ELSE IF n \notin s.alive THEN Broke(s, "freed")
    ELSE LET leaving == IF n \in Group \cup Trigger
                        THEN {d \in Trigger \cap s.alive : n \in UpFrom(s.t, d)}
                        ELSE {}
         IN  Folded(RemoveCommands, [s EXCEPT !.t = Unlink(s.t, n)],
                    S!SetToSeq(leaving))

\* ExChangeNodeCmd: bein takes beout's place, and its widgets are made anew.
\* Two nodes of one tree, neighbours or one below the other, ruin it.
Exchanged(s, beout, bein) ==
    IF IsBroken(s) THEN s
    ELSE IF ~({beout, bein} \subseteq s.alive) THEN Broke(s, "freed")
    ELSE IF \/ beout \in UpFrom(s.t, bein) \/ bein \in UpFrom(s.t, beout)
            \/ s.t.prev[beout] = bein \/ s.t.prev[bein] = beout
         THEN Broke(s, "linked")
    ELSE LET s1 == [s EXCEPT !.t = Swap(s.t, beout, bein)] IN
         AddNodeItem(RemoveItemNode(s1, bein), bein, s1.t.parent[bein], s1.t.prev[bein])

Executed(s, c) ==
    IF c.op = "add" THEN AddNodeItem(s, c.node, c.parent, c.prev)
    ELSE IF c.op = "delete" THEN RemoveItemNode(s, c.node)
    ELSE IF c.op = "move"
         THEN AddNodeItem(RemoveItemNode(s, c.node), c.node, c.parent, c.prev)
    ELSE Exchanged(s, c.node, c.other)

UnExecuted(s, c) ==
    IF c.op = "add" THEN RemoveItemNode(s, c.node)
    ELSE IF c.op = "delete" THEN AddNodeItem(s, c.node, c.parent, c.prev)
    ELSE IF c.op = "move"
         THEN AddNodeItem(RemoveItemNode(s, c.node), c.node, c.orgParent, c.orgPrev)
    ELSE Exchanged(s, c.other, c.node)

\* MacroCmd::Execute and UnExecute.
ExecutedMacro(s, m) == Folded(Executed, s, m)

\* Slip: the commands of a macro are undone in the order they were done.
UnExecutedMacro_Forward(s, m) == Folded(UnExecuted, s, m)

UnExecutedMacro(s, m) == Folded(UnExecuted, s, S!Reverse(m))

-----------------------------------------------------------------------------
(* What a window offers. *)

Attached(n) == n \in alive /\ Root \in UpFrom(tree, n)

\* The nodes a document shows, below its own.
Shown(d) ==
    IF d = Gallery
    THEN {n \in alive \cap (Group \cup Trigger \cup Function) : Attached(n)}
    ELSE {n \in alive \ {d} : d \in UpFrom(tree, n)}

View(d) == [n \in Shown(d) |-> <<tree.parent[n], tree.prev[n]>>]

\* A trigger or function is edited while it is in the gallery.
Editable(d) == broken = "no" /\ (d = Gallery \/ Attached(d))

\* Where a node goes when sel is selected: GetGroupLocality, with sub for a new
\* group, GetTriggerLocality, and for statements at the beginning or end of sel or
\* after it (GetCreationLocality and DoPasteNodes tell the statements' classes
\* apart; here they are one).
Selectable(d) == Shown(d) \cup {IF d = Gallery THEN Root ELSE d}

AtEnd(p) == <<p, LastChild(tree, p)>>
After(n) == <<tree.parent[n], n>>

GetGroupLocality(sel, sub) ==
    IF sel = Root \/ (sub /\ sel \in Group) THEN {AtEnd(sel)}
    ELSE IF sel \in Group \cup Trigger THEN {After(sel)} ELSE {}

GetTriggerLocality(sel) ==
    IF sel \in Group THEN {AtEnd(sel)}
    ELSE IF sel \in Trigger \cup Function THEN {After(sel)} ELSE {}

StatementLocality(d, sel) ==
    {<<sel, NULL>>, AtEnd(sel)} \cup (IF sel = d THEN {} ELSE {After(sel)})

Locality(d, n, sel, new) ==
    IF d # Gallery THEN IF n \in Statement THEN StatementLocality(d, sel) ELSE {}
    ELSE IF n \in Group THEN GetGroupLocality(sel, new)
    ELSE IF n \in Trigger \/ (new /\ n \in Function) THEN GetTriggerLocality(sel) ELSE {}

\* A group takes groups and triggers, the root only groups.
Pasteable(sel, n) ==
    /\ sel = Root => n \in Group
    /\ sel \in Group => n \in Group \cup Trigger

\* a comes before b among the children of their parent.
Before(a, b) ==
    LET back[n \in Ptr] == IF n = NULL THEN {} ELSE {n} \cup back[tree.prev[n]]
    IN  a # b /\ a \in back[b]

\* At most two selected nodes, siblings in the order of the tree, without those
\* inside another (KickOutChildNodes); none when none of them can be deleted.
Selections(d) ==
    {<< >>} \cup {<<n>> : n \in Shown(d)} \cup
    {q \in Shown(d) \X Shown(d) :
        /\ q[1] \notin UpFrom(tree, q[2]) /\ q[2] \notin UpFrom(tree, q[1])
        /\ tree.parent[q[1]] = tree.parent[q[2]] => Before(q[1], q[2])}

-----------------------------------------------------------------------------
(* Actions *)

Becomes(s) ==
    /\ tree' = s.t /\ alive' = s.alive /\ lists' = s.lists /\ broken' = s.broken
    /\ UNCHANGED space

\* CmdManager::AddCommand on the nodes of s: the commands that could be redone
\* go first, then the macro is noted and executed.
AddCommand(s, d, m) ==
    LET l == lists[d]
        s1 == DestroyedAll(s, Leaving(l), FALSE)
        s2 == [s1 EXCEPT !.lists[d] = Pushed(l, m)]
    IN  /\ F!MapThenSumSet(LAMBDA e : Len(s2.lists[e].cmds), Document) <= space.maxCmds
        /\ Becomes(ExecutedMacro(s2, m))
        /\ seen' = [e \in Document |->
               IF lists'[e] = EmptyList THEN << >>
               ELSE IF e # d THEN seen[e]
               ELSE Append(IF l.redo = 1 THEN <<View(d)>> ELSE SubSeq(seen[d], 1, l.redo),
                           View(d)')]

\* OnNewGroup, OnNewTrigger, OnNewFunction, OnNewCreation and pasting a copy: a
\* node is built at a free address and added.
NewNode(d, n, sel) ==
    /\ Editable(d) /\ n \in space.addresses \ alive
    /\ \E new \in BOOLEAN : \E at \in Locality(d, n, sel, new) :
           /\ ~new => Pasteable(sel, n)
           /\ AddCommand([Now EXCEPT !.alive = @ \cup {n}], d,
                         <<AddNodeCmd(n, at[1], at[2])>>)
    /\ UNCHANGED cutting

\* The constructor of DeleteNodeCmd takes its node out of m_CuttingNodes.
StillCut(sel) ==
    Folded(LAMBDA q, n : IF \E i \in 1..Len(sel) : sel[i] = n THEN q ELSE Append(q, n),
           << >>, cutting.nodes)

\* OnDelete: the later nodes first; a node that is cut is cut no more.
Delete(d, sel) ==
    /\ Editable(d)
    /\ AddCommand(Now, d,
                  [i \in 1..Len(sel) |-> DeleteNodeCmd(S!Reverse(sel)[i])])
    /\ cutting' = [cutting EXCEPT !.nodes = StillCut(sel)]

\* A statement was edited in its dialog: one built aside takes its place.
Exchange(d, old, new) ==
    /\ Editable(d) /\ old \in Shown(d) \cap Statement
    /\ Careful => cutting = NothingCut
    /\ new \in (Statement \cap space.addresses) \ alive
    /\ AddCommand([Now EXCEPT !.alive = @ \cup {new}], d, <<ExchangeNodeCmd(old, new)>>)
    /\ UNCHANGED cutting

\* OnCut, and OnCopy, which forgets what was cut.
Cut(d, sel) ==
    /\ Editable(d) /\ sel # << >>
    /\ cutting' = [doc |-> d, nodes |-> sel]
    /\ UNCHANGED <<space, tree, alive, lists, broken, seen>>

Copy ==
    /\ broken = "no"
    /\ cutting' = NothingCut
    /\ UNCHANGED <<space, tree, alive, lists, broken, seen>>

\* The destination is, or is inside, what is moved.
TargetIsMoved(nodes, p, v) ==
    \E i \in 1..Len(nodes) : nodes[i] = v \/ nodes[i] \in UpFrom(tree, p)

\* PasteNodes: the first node's class tells the place; every node is moved there,
\* the last one first, so that they stand in their order.  Nothing when the
\* place is among them.
Move(d, nodes, sel) ==
    /\ \A i \in 1..Len(nodes) : Pasteable(sel, nodes[i])
    /\ \E at \in Locality(d, nodes[1], sel, FALSE) :
           /\ ~TargetIsMoved(nodes, at[1], at[2])
           /\ IF \E i \in 1..Len(nodes) :
                     nodes[i] \notin alive \/ tree.parent[nodes[i]] = NULL
              THEN /\ Becomes(Broke(Now, IF {nodes[i] : i \in 1..Len(nodes)} \subseteq alive
                                         THEN "orphan" ELSE "freed"))
                   /\ UNCHANGED seen    \* at the constructor of PasteNodeCmd
              ELSE AddCommand(Now, d, [i \in 1..Len(nodes) |->
                                  MoveNodeCmd(S!Reverse(nodes)[i], at[1], at[2])])
    /\ cutting' = NothingCut

Paste(d, sel) ==
    /\ Editable(d) /\ cutting.nodes # << >>
    /\ Careful => cutting.doc = d
    /\ Move(d, cutting.nodes, sel)

Drag(d, n, sel) ==
    /\ Editable(d) /\ n \in Shown(d)
    /\ Move(d, <<n>>, sel)

\* The lists that a step deleted have nothing to show.
Stepped(s) ==
    /\ Becomes(s)
    /\ seen' = [e \in Document |-> IF lists'[e] = EmptyList THEN << >> ELSE seen[e]]
    /\ UNCHANGED cutting

UnDo(d) ==
    /\ Editable(d) /\ CanUnDo(lists[d])
    /\ Careful => cutting = NothingCut
    /\ LET s == UnExecutedMacro(Now, lists[d].cmds[lists[d].undo])
       IN  Stepped([s EXCEPT !.lists[d] = SteppedBack(s.lists[d])])

ReDo(d) ==
    /\ Editable(d) /\ CanReDo(lists[d])
    /\ Careful => cutting = NothingCut
    /\ LET s == ExecutedMacro(Now, lists[d].cmds[lists[d].redo])
       IN  Stepped([s EXCEPT !.lists[d] = SteppedOn(s.lists[d])])

EditNext ==
    \/ \E d \in Document :
        \/ UnDo(d) \/ ReDo(d)
        \/ \E sel \in Selections(d) : Delete(d, sel) \/ Cut(d, sel)
        \/ \E sel \in Selectable(d) :
            \/ Paste(d, sel)
            \/ \E n \in Node : NewNode(d, n, sel) \/ Drag(d, n, sel)
        \/ \E old, new \in Statement : Exchange(d, old, new)
    \/ Copy

EditSpec == EditInit /\ [][EditNext]_editVars

-----------------------------------------------------------------------------
(* Properties *)

EditTypeOK ==
    /\ TypeOK
    /\ broken \in {"no", "freed", "assertion", "orphan", "linked"}
    /\ \A d \in Document :
        Len(seen[d]) = IF lists[d] = EmptyList THEN 0 ELSE Len(lists[d].cmds) + 1

\* A trigger that has a list of commands is in the space (RemoveItemNode deletes
\* the lists of all the triggers below the node): nobody could undo what is in
\* the list of another, nor free it.
ListsInSpace == \A d \in Trigger : lists[d] # EmptyList => Attached(d)

\* No command, made, undone or redone, meets a freed node, breaks an assertion
\* of the commands or of the tree, or links a node twice (Commands.cpp trusts
\* the places it noted and the nodes it points to).
NothingBreaks == broken = "no"

\* What is cut still has a parent when it is pasted: assert( pOrgParent != NULL )
\* in the constructor of PasteNodeCmd.
CutNodeHasParent == broken # "orphan"

\* Undo and redo restore: a document shows at each place of its list exactly
\* what it showed when that place was reached first, order of the children
\* included (the commands note previous siblings, macros run backwards).
UndoRestores ==
    broken = "no" =>
        \A d \in Document :
            lists[d].cmds # << >> /\ Editable(d) => View(d) = seen[d][lists[d].redo]

\* The commands of d that hold a node above n, or n, outside the space.
Hangings(d, n) ==
    LET l == lists[d] IN
    {at \in UNION {{i} \X (1..Len(l.cmds[i])) : i \in 1..Len(l.cmds)} :
        LET h == Hanging(l.cmds[at[1]][at[2]], at[1] < l.redo)
        IN  h # NULL /\ tree.parent[h] = NULL /\ h \in UpFrom(tree, n)}

\* A node is in the space or hangs on exactly one command, which will delete
\* it: none leaks, none is deleted twice (the destructors of the commands).
EachHasOneOwner ==
    broken = "no" =>
        \A n \in alive :
            LET owners == UNION {{d} \X Hangings(d, n) : d \in Document} IN
            IF Attached(n) THEN owners = {} ELSE \E o \in owners : owners = {o}
=============================================================================
