--------------------------- MODULE SpaceReferences ---------------------------
(***************************************************************************)
(* References between the nodes of a space (TriggerEditor/Space/SNode):    *)
(* a call of a function, or a parameter that names a trigger, keeps its    *)
(* definition and the definition's name; the definition keeps the set of   *)
(* its references.  AddNodeItem and RemoveItemNode (Command/Commands.cpp)  *)
(* find definitions again by name, rename references and check for errors. *)
(* The order of the tree is in EditCommands; here a node is in the tree of *)
(* its holder, or hangs on a command.  One group holds the triggers.       *)
(***************************************************************************)
EXTENDS Naturals, FiniteSets

CONSTANTS
    Function, Trigger,  \* the definitions, whose trees hold references as well
    Call, TriggerRef,   \* SSFuncCall; SGlobalVarRef with "bTgr"
    Name,               \* names a user may give
    Copies,             \* whether copies are pasted, too
    None

Def == Function \cup Trigger
Ref == Call \cup TriggerRef
NoName == "noName"      \* the empty string

ASSUME ReferenceAssumption ==
    /\ Function \cap Trigger = {} /\ Call \cap TriggerRef = {} /\ Def \cap Ref = {}
    /\ None \notin Def /\ NoName \notin Name /\ Copies \in BOOLEAN

VARIABLES
    sp,         \* the nodes, and whether every definition looked for was found
    unseen      \* auxiliary: references whose trigger went with its group, not
                \* checked since

refVars == <<sp, unseen>>

\* at[d]: a definition is unmade, in the tree, unlinked or freed; home[r]: the
\* definition r is under; hung[r]: the one it was taken from, while a command
\* has it.
NewRef == [home |-> None, hung |-> None, def |-> None, name |-> NoName, err |-> FALSE]
RefInit ==
    /\ sp = [at |-> [d \in Def |-> "new"], group |-> "in", name |-> [d \in Def |-> NoName],
             ref |-> [r \in Ref |-> NewRef], refs |-> [d \in Def |-> {}], found |-> TRUE]
    /\ unseen = {}

InSpace(b, d) == b.at[d] = "in" /\ (d \in Trigger => b.group = "in")
Attached(b, r) == b.ref[r].home # None /\ InSpace(b, b.ref[r].home)
Inside(b, D) == {r \in Ref : b.ref[r].home \in D}
Unborn(b, r) == b.ref[r].home = None /\ b.ref[r].hung = None
Kin(r) == IF r \in Call THEN Function ELSE Trigger
Taken(b, n, D) == \E d \in D : InSpace(b, d) /\ b.name[d] = n

-----------------------------------------------------------------------------
\* FindFunctionFromName, FindTrigger: what a reference's name finds in the space.
Found(b, r) ==
    LET D == {d \in Kin(r) : InSpace(b, d) /\ b.name[d] = b.ref[r].name} IN
    IF D = {} THEN None ELSE CHOOSE d \in D : TRUE

\* Definition(pImpl) of the references in dom(to): out of the old set, into the
\* new one, and its name.  (Slip: not out of the old set.)
Defined_KeepsOld(b, R, to) ==
    [b EXCEPT !.ref = [r \in Ref |-> IF r \in R THEN
                         [@[r] EXCEPT !.def = to[r],
                                      !.name = IF to[r] = None THEN b.ref[r].name
                                                ELSE b.name[to[r]]]
                       ELSE @[r]],
              !.refs = [d \in Def |-> @[d] \cup {r \in R : to[r] = d}]]

Defined(b, R, to) ==
    [b EXCEPT !.ref = [r \in Ref |-> IF r \in R THEN
                         [@[r] EXCEPT !.def = to[r],
                                      !.name = IF to[r] = None THEN b.ref[r].name
                                                ELSE b.name[to[r]]]
                       ELSE @[r]],
              !.refs = [d \in Def |-> (@[d] \ R) \cup {r \in R : to[r] = d}]]

\* PostLoadedSpace on a tree that holds R.
PostLoaded(b, R) ==
    [Defined(b, R, [r \in R |-> Found(b, r)])
        EXCEPT !.found = @ /\ \A r \in R : Found(b, r) # None]

\* CheckErrorTree on a tree that holds R: a reference has an error when it has no
\* name or no definition, or when its definition has no parent.
Wrong(b, r) ==
    LET x == b.ref[r] IN x.name = NoName \/ x.def = None \/ b.at[x.def] # "in"
Checked(b, R) ==
    [b EXCEPT !.ref = [r \in Ref |-> IF r \in R THEN [@[r] EXCEPT !.err = Wrong(b, r)] ELSE @[r]]]

\* UpdateReferenceNodes.  (Slip: the references are not checked.)
Updated_Unchecked(b, d) ==
    LET name == IF b.at[d] = "in" THEN b.name[d] ELSE NoName IN
    [b EXCEPT !.ref = [r \in Ref |-> IF r \in b.refs[d] THEN [@[r] EXCEPT !.name = name] ELSE @[r]]]

Updated(b, d) ==
    LET name  == IF b.at[d] = "in" THEN b.name[d] ELSE NoName
        named == [b EXCEPT !.ref = [r \in Ref |->
                     IF r \in b.refs[d] THEN [@[r] EXCEPT !.name = name] ELSE @[r]]]
    IN  Checked(named, b.refs[d])

\* ~SNode of references, and of a definition with what is under it.
FreedRefs(b, R) ==
    LET c == Defined(b, R, [r \in R |-> None]) IN
    [c EXCEPT !.ref = [r \in Ref |-> IF r \in R THEN NewRef ELSE @[r]]]
FreedDefs(b, D) ==
    LET out == UNION {b.refs[d] : d \in D} IN
    [FreedRefs(Defined(b, out, [r \in out |-> None]), Inside(b, D))
        EXCEPT !.at = [d \in Def |-> IF d \in D THEN "freed" ELSE @[d]]]

\* RemoveCommands: the lists of triggers that leave go with what hangs on them.
ListsGone(b, D) == FreedRefs(b, {r \in Ref : b.ref[r].hung \in D \cap Trigger})

-----------------------------------------------------------------------------
\* RemoveItemNode and AddNodeItem for a definition.  The parent's tree is checked
\* after the node was unlinked: the group, or the whole space.
Siblings(b, d) == IF d \in Trigger THEN Trigger ELSE Def
RemoveItemNode(b, d) ==
    LET out == [b EXCEPT !.at[d] = "out"]
        D   == {e \in Siblings(b, d) : InSpace(out, e)}
    IN  Updated(ListsGone(Checked(out, Inside(out, D)), {d}), d)
AddNodeItem(b, d) ==
    LET in == [b EXCEPT !.at[d] = "in"]
    IN  Updated(Checked(PostLoaded(in, Inside(in, {d})), Inside(in, {d})), d)

\* The same for the group, which no reference names.
RemoveGroup(b) ==
    LET out == [b EXCEPT !.group = "out"]
    IN  ListsGone(Checked(out, Inside(out, {e \in Def : InSpace(out, e)})), Trigger)
AddGroup(b) ==
    LET in == [b EXCEPT !.group = "in"]
        R  == Inside(in, {t \in Trigger : in.at[t] = "in"})
    IN  Checked(PostLoaded(in, R), R)

\* Where a step leads, and the references whose loss nobody has looked for.
Lost(b, r) == Attached(b, r) /\ (b.ref[r].def = None \/ ~InSpace(b, b.ref[r].def))
WentWithGroup(b, r) == b.ref[r].def \in Trigger /\ b.at[b.ref[r].def] = "in" /\ b.group # "in"
Becomes(b) ==
    /\ sp' = b
    /\ unseen' = {r \in unseen \cup {q \in Ref : WentWithGroup(b, q)} :
                     ~Unborn(b, r) /\ ~b.ref[r].err /\ (b.ref[r].def = None \/ WentWithGroup(b, r))}

\* AddNodeCmd, its undo, DeleteNodeCmd and its undo.  CheckNameValid, UniqueName
\* and the order of undoing keep the names in the space apart.
Create(d, n) ==
    /\ sp.at[d] = "new" /\ (d \in Trigger => sp.group = "in")
    /\ ~Taken(sp, n, Def)
    /\ Becomes(AddNodeItem([sp EXCEPT !.name[d] = n], d))
Delete(d) == InSpace(sp, d) /\ Becomes(RemoveItemNode(sp, d))
PutBack(d) ==
    /\ sp.at[d] = "out" /\ (d \in Trigger => sp.group = "in")
    /\ ~Taken(sp, sp.name[d], Def)
    /\ Becomes(AddNodeItem(sp, d))
DeleteGroup == sp.group = "in" /\ Becomes(RemoveGroup(sp))
PutGroupBack ==
    /\ sp.group = "out"
    /\ \A t \in Trigger : sp.at[t] = "in" => ~Taken(sp, sp.name[t], Def)
    /\ Becomes(AddGroup(sp))

\* PasteNodeCmd of what was cut: both at once.  A group takes no function.
Move(t) == InSpace(sp, t) /\ Becomes(AddNodeItem(RemoveItemNode(sp, t), t))

\* RenameNodeCmd.
Rename(d, n) ==
    /\ InSpace(sp, d) /\ ~Taken(sp, n, Def)
    /\ Becomes(Updated([sp EXCEPT !.name[d] = n], d))

\* A command that hangs a node is destroyed.
DestroyDef(d) == sp.at[d] = "out" /\ Becomes(FreedDefs(sp, {d}))
DestroyGroup ==
    /\ sp.group = "out"
    /\ LET D == {t \in Trigger : sp.at[t] = "in"} IN
       Becomes([FreedDefs(sp, D) EXCEPT !.group = "freed"])
DestroyRef(r) == sp.ref[r].hung # None /\ Becomes(FreedRefs(sp, {r}))

-----------------------------------------------------------------------------
\* A statement with a reference, chosen in a dialog (BuildStatement, ParamDlg),
\* then added under h.
Insert(b, r, h) ==
    LET in == [b EXCEPT !.ref[r].home = h, !.ref[r].hung = None]
    IN  Checked(PostLoaded(in, {r}), {r})
NewReference(r, h, d) ==
    /\ Unborn(sp, r) /\ InSpace(sp, h) /\ d \in Kin(r) /\ InSpace(sp, d)
    /\ Becomes(Insert(Defined(sp, {r}, [q \in {r} |-> d]), r, h))

\* A copy is text: pasting makes a new statement, with the name the reference had
\* when it was copied.
PasteCopy(r, h, n) ==
    /\ Copies /\ Unborn(sp, r) /\ InSpace(sp, h)
    /\ Becomes(Insert([sp EXCEPT !.ref[r].name = n], r, h))

\* The statement is deleted, and put back by undo, in the document of h.
DeleteReference(r) ==
    /\ Attached(sp, r)
    /\ LET h   == sp.ref[r].home
           out == [sp EXCEPT !.ref[r].home = None, !.ref[r].hung = h]
       IN  Becomes(Checked(out, Inside(out, {h})))
PutReferenceBack(r) ==
    /\ sp.ref[r].hung # None /\ InSpace(sp, sp.ref[r].hung)
    /\ Becomes(Insert(sp, r, sp.ref[r].hung))

\* Clone, and ExChangeNodeCmd with the copy: the copy takes the place of the
\* node, which hangs.
Cloned(b, r, q) ==
    [b EXCEPT !.ref[q] = b.ref[r],
              !.refs = [d \in Def |-> IF b.ref[r].def = d THEN @[d] \cup {q} ELSE @[d]]]
ExchangeWithCopy(r, q) ==
    /\ Attached(sp, r) /\ Unborn(sp, q) /\ Kin(q) = Kin(r)
    /\ LET h   == sp.ref[r].home
           out == [Cloned(sp, r, q) EXCEPT !.ref[r].home = None, !.ref[r].hung = h]
       IN  Becomes(Insert(Checked(out, Inside(out, {h}) \ {q}), q, h))

RefNext ==
    \/ \E d \in Def, n \in Name : Create(d, n)
    \/ \E d \in Def : Delete(d)
    \/ \E d \in Def : PutBack(d)
    \/ \E t \in Trigger : Move(t)
    \/ \E d \in Def, n \in Name : Rename(d, n)
    \/ \E d \in Def : DestroyDef(d)
    \/ DeleteGroup
    \/ PutGroupBack
    \/ DestroyGroup
    \/ \E r \in Ref, h, d \in Def : NewReference(r, h, d)
    \/ \E r \in Ref, h \in Def, n \in Name \cup {NoName} : PasteCopy(r, h, n)
    \/ \E r \in Ref : DeleteReference(r)
    \/ \E r \in Ref : PutReferenceBack(r)
    \/ \E r \in Ref : DestroyRef(r)
    \/ \E r, q \in Ref : ExchangeWithCopy(r, q)

RefSpec == RefInit /\ [][RefNext]_refVars

-----------------------------------------------------------------------------
\* ReferencesAgree: a definition's set holds exactly the references that name it
\* as their definition, none of them freed, and each bears its name, or none
\* while the definition is out of the tree (SNode::Definition, Clone, ~SNode,
\* UpdateReferenceNodes), whatever is deleted, put back, moved and renamed.
ReferencesAgree ==
    /\ \A d \in Def, r \in Ref : r \in sp.refs[d] <=> sp.ref[r].def = d
    /\ \A r \in Ref : sp.ref[r].def # None =>
        /\ ~Unborn(sp, r) /\ sp.at[sp.ref[r].def] \in {"in", "out"}
        /\ sp.ref[r].name = IF sp.at[sp.ref[r].def] = "in" THEN sp.name[sp.ref[r].def]
                            ELSE NoName

\* LossIsShown: a reference in the space whose definition is not in it is marked,
\* unless the definition went with its group: RemoveItemNode looks for references
\* to the node it removes, not to what is under it.
LossIsShown == \A r \in Ref \ unseen : Lost(sp, r) => sp.ref[r].err

\* DefinitionsFound: a reference that is put back, moved or loaded with its tree
\* finds its definition by name (the assertions of PostXMLLoaded, SFuncCall.cpp:327
\* and SVariable.cpp:607).
DefinitionsFound == sp.found
=============================================================================
