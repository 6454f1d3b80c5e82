--------------------------- MODULE TgrFrameProofs ---------------------------
(***************************************************************************)
(* Theorems about the undo lists (CmdManager) and the editing session that *)
(* uses them (TgrFrame).  For any documents and commands the iterators,    *)
(* the effects and the ownership of commands stay sound, and CmdManager    *)
(* implements the two stacks of UndoStack; for any spaces and edits a      *)
(* space is saved to its own file, no undo list outlives its root, and the *)
(* cleared flag is honest.                                                 *)
(***************************************************************************)
EXTENDS TgrFrame, TLAPS

List == [cmds : Seq(Cmd), undo : Nat \ {0}, redo : Nat \ {0}]

\* The places of a list, and its command at a place.
Places(l) == 1..Len(l.cmds)

(* The inductive invariant is the conjunction of the four properties: the  *)
(* step of a list needs the cursors, the step of an effect needs that no   *)
(* other place holds the command.                                          *)
IInv == ListsTypeOK /\ Cursors /\ EffectsInPlace /\ OwnedOnce

-----------------------------------------------------------------------------
(* What the operators of UndoList do to the places of a list. *)

\* The commands that AddCommand drops are those from the redo iterator on.
LEMMA LeavingPlaces ==
    ASSUME NEW l \in List, CursorsOf(l)
    PROVE  /\ Leaving(l) \in Seq(Cmd)
           /\ CmdsIn(Leaving(l)) = {l.cmds[i] : i \in l.redo..Len(l.cmds)}
<1> DEFINE s == Leaving(l)
<1>1. /\ s \in Seq(Cmd)
      /\ Len(s) = Len(l.cmds) - l.redo + 1
      /\ \A i \in 1..Len(s) : s[i] = l.cmds[l.redo + i - 1]
  BY DEF List, CursorsOf, Leaving, ListEnd
<1>2. ASSUME NEW c PROVE c \in CmdsIn(s) => c \in {l.cmds[i] : i \in l.redo..Len(l.cmds)}
  <2> SUFFICES ASSUME NEW i \in 1..Len(s), c = s[i]
               PROVE  \E j \in l.redo..Len(l.cmds) : c = l.cmds[j]
    BY DEF CmdsIn
  <2> l.redo + i - 1 \in l.redo..Len(l.cmds)
    BY <1>1 DEF List, CursorsOf, ListEnd
  <2> QED BY <1>1
<1>3. ASSUME NEW c PROVE c \in {l.cmds[i] : i \in l.redo..Len(l.cmds)} => c \in CmdsIn(s)
  <2> SUFFICES ASSUME NEW j \in l.redo..Len(l.cmds), c = l.cmds[j]
               PROVE  \E i \in 1..Len(s) : c = s[i]
    BY DEF CmdsIn
  <2> /\ j - l.redo + 1 \in 1..Len(s)
      /\ l.redo + (j - l.redo + 1) - 1 = j
    BY <1>1 DEF List, CursorsOf, ListEnd
  <2> QED BY <1>1
<1> QED BY <1>1, <1>2, <1>3

\* After AddCommand the list holds what was done, then the new command.
LEMMA PushedPlaces ==
    ASSUME NEW l \in List, CursorsOf(l), NEW c \in Cmd,
           NEW p, p = Pushed(l, c)
    PROVE  /\ p \in List /\ CursorsOf(p)
           /\ Len(p.cmds) = l.redo /\ p.redo = l.redo + 1
           /\ \A i \in 1..l.redo - 1 : p.cmds[i] = l.cmds[i]
           /\ p.cmds[l.redo] = c
<1> DEFINE kept == SubSeq(l.cmds, 1, l.redo - 1)
<1>1. /\ kept \in Seq(Cmd) /\ Len(kept) = l.redo - 1
      /\ \A i \in 1..l.redo - 1 : kept[i] = l.cmds[i]
  BY DEF List, CursorsOf, ListEnd
<1>2. /\ Append(kept, c) \in Seq(Cmd) /\ Len(Append(kept, c)) = l.redo
      /\ \A i \in 1..l.redo - 1 : Append(kept, c)[i] = l.cmds[i]
      /\ Append(kept, c)[l.redo] = c
  BY <1>1 DEF List, CursorsOf, ListEnd
<1> l.redo \in Nat /\ l.redo >= 1
  BY DEF List, CursorsOf
<1> QED BY <1>1, <1>2 DEF Pushed, List, CursorsOf, ListEnd

\* UnDo and ReDo move the iterators by one command and keep the commands.
LEMMA SteppedPlaces ==
    ASSUME NEW l \in List, CursorsOf(l)
    PROVE  /\ CanUnDo(l) =>
                /\ l.undo = l.redo - 1 /\ l.undo \in Places(l)
                /\ SteppedBack(l) \in List /\ CursorsOf(SteppedBack(l))
                /\ SteppedBack(l).cmds = l.cmds
                /\ SteppedBack(l).redo = l.redo - 1
           /\ CanReDo(l) =>
                /\ l.redo \in Places(l)
                /\ SteppedOn(l) \in List /\ CursorsOf(SteppedOn(l))
                /\ SteppedOn(l).cmds = l.cmds
                /\ SteppedOn(l).redo = l.redo + 1
<1> Len(l.cmds) \in Nat
  BY DEF List
<1>1. ASSUME CanUnDo(l)
      PROVE  /\ l.undo = l.redo - 1 /\ l.undo \in Places(l)
             /\ SteppedBack(l) \in List /\ CursorsOf(SteppedBack(l))
             /\ SteppedBack(l).cmds = l.cmds
             /\ SteppedBack(l).redo = l.redo - 1
  BY <1>1 DEF List, CursorsOf, ListEnd, CanUnDo, SteppedBack, Places
<1>2. ASSUME CanReDo(l)
      PROVE  /\ l.redo \in Places(l)
             /\ SteppedOn(l) \in List /\ CursorsOf(SteppedOn(l))
             /\ SteppedOn(l).cmds = l.cmds
             /\ SteppedOn(l).redo = l.redo + 1
  BY <1>2 DEF List, CursorsOf, ListEnd, CanReDo, SteppedOn, Places
<1> QED BY <1>1, <1>2

LEMMA EmptyPlaces ==
    EmptyList \in List /\ CursorsOf(EmptyList) /\ Len(EmptyList.cmds) = 0
BY DEF EmptyList, List, CursorsOf, ListEnd

-----------------------------------------------------------------------------
(* Ownership: the place of a command tells its list and its effect. *)

\* No list but its own holds a command, and none holds a free address.
LEMMA PlaceOfCommand ==
    ASSUME IInv
    PROVE  /\ \A d \in Doc : lists[d] \in List /\ CursorsOf(lists[d])
           /\ \A d \in Doc : \A i \in Places(lists[d]) :
                /\ lists[d].cmds[i] \in Cmd
                /\ effect[lists[d].cmds[i]] # "none"
           /\ \A d \in Doc, R \in SUBSET Doc : \A i \in Places(lists[d]) :
                lists[d].cmds[i] \in OwnedByDocs(R) <=> d \in R
           /\ \A d, e \in Doc : \A i \in Places(lists[e]) :
                lists[e].cmds[i] \in CmdsIn(Leaving(lists[d]))
                    <=> e = d /\ i >= lists[d].redo
<1>1. \A d \in Doc : lists[d] \in List /\ CursorsOf(lists[d])
  BY DEF IInv, ListsTypeOK, Cursors, List
<1>2. \A d \in Doc : \A i \in Places(lists[d]) :
         lists[d].cmds[i] \in Cmd /\ effect[lists[d].cmds[i]] # "none"
  BY <1>1 DEF IInv, EffectsInPlace, List, Places
<1>3. \A d \in Doc, R \in SUBSET Doc : \A i \in Places(lists[d]) :
         lists[d].cmds[i] \in OwnedByDocs(R) <=> d \in R
  <2> SUFFICES ASSUME NEW d \in Doc, NEW R \in SUBSET Doc,
                      NEW i \in Places(lists[d])
               PROVE  lists[d].cmds[i] \in OwnedByDocs(R) <=> d \in R
    OBVIOUS
  <2>1. d \in R => lists[d].cmds[i] \in OwnedByDocs(R)
    BY DEF OwnedByDocs, OwnedBy, CmdsIn, Places
  <2>2. ASSUME lists[d].cmds[i] \in OwnedByDocs(R) PROVE d \in R
    <3> PICK e \in R : \E j \in Places(lists[e]) : lists[d].cmds[i] = lists[e].cmds[j]
      BY <2>2 DEF OwnedByDocs, OwnedBy, CmdsIn, Places
    <3> QED BY DEF IInv, OwnedOnce, Places
  <2> QED BY <2>1, <2>2
<1>4. \A d, e \in Doc : \A i \in Places(lists[e]) :
         lists[e].cmds[i] \in CmdsIn(Leaving(lists[d]))
             <=> e = d /\ i >= lists[d].redo
  <2> SUFFICES ASSUME NEW d \in Doc, NEW e \in Doc, NEW i \in Places(lists[e])
               PROVE  lists[e].cmds[i] \in CmdsIn(Leaving(lists[d]))
                          <=> e = d /\ i >= lists[d].redo
    OBVIOUS
  <2> /\ CmdsIn(Leaving(lists[d])) =
            {lists[d].cmds[j] : j \in lists[d].redo..Len(lists[d].cmds)}
      /\ lists[d].redo \in Nat /\ lists[d].redo >= 1 /\ Len(lists[d].cmds) \in Nat
    BY <1>1, LeavingPlaces DEF List, CursorsOf
  <2>1. e = d /\ i >= lists[d].redo => lists[e].cmds[i] \in CmdsIn(Leaving(lists[d]))
    BY DEF Places
  <2>2. ASSUME lists[e].cmds[i] \in CmdsIn(Leaving(lists[d]))
        PROVE  e = d /\ i >= lists[d].redo
    <3> PICK j \in lists[d].redo..Len(lists[d].cmds) : lists[e].cmds[i] = lists[d].cmds[j]
      BY <2>2
    <3> j \in 1..Len(lists[d].cmds)
      OBVIOUS
    <3> e = d /\ i = j
      BY DEF IInv, OwnedOnce, Places
    <3> QED OBVIOUS
  <2> QED BY <2>1, <2>2
<1> QED BY <1>1, <1>2, <1>3, <1>4

(* A step of the lists keeps the invariant when every place it leaves is an *)
(* old place with its command, except that of a new command, and when an    *)
(* effect stays or goes with its place.                                     *)
LEMMA PlacesKept ==
    ASSUME IInv,
           \A e \in Doc : lists'[e] \in List /\ CursorsOf(lists'[e]),
           lists' \in [Doc -> List], effect' \in [Cmd -> Effects],
           fileChanged' \in BOOLEAN,
           \A e \in Doc : \A i \in Places(lists'[e]) :
               \/ i \in Places(lists[e]) /\ lists'[e].cmds[i] = lists[e].cmds[i]
               \/ effect[lists'[e].cmds[i]] = "none",
           \A e, f \in Doc : \A i \in Places(lists'[e]), j \in Places(lists'[f]) :
               (/\ effect[lists'[e].cmds[i]] = "none"
                /\ effect[lists'[f].cmds[j]] = "none") => e = f /\ i = j,
           \A e \in Doc : \A i \in Places(lists'[e]) :
               effect'[lists'[e].cmds[i]] =
                   IF i < lists'[e].redo THEN "done" ELSE "undone",
           \A x \in Cmd : effect'[x] # "none" =>
               \E e \in Doc : \E i \in Places(lists'[e]) : lists'[e].cmds[i] = x
    PROVE  IInv'
<1>1. ListsTypeOK'
  BY DEF ListsTypeOK, List
<1>2. Cursors'
  BY DEF Cursors
<1>3. EffectsInPlace'
  BY DEF EffectsInPlace, Places
<1>4. OwnedOnce'
  <2>1. ASSUME NEW e \in Doc, NEW f \in Doc,
               NEW i \in Places(lists'[e]), NEW j \in Places(lists'[f]),
               lists'[e].cmds[i] = lists'[f].cmds[j]
        PROVE  e = f /\ i = j
    <3>1. CASE effect[lists'[e].cmds[i]] = "none"
      BY <2>1, <3>1
    <3>2. CASE effect[lists'[e].cmds[i]] # "none"
      <4> /\ i \in Places(lists[e]) /\ lists'[e].cmds[i] = lists[e].cmds[i]
          /\ j \in Places(lists[f]) /\ lists'[f].cmds[j] = lists[f].cmds[j]
        BY <2>1, <3>2
      <4> QED BY <2>1 DEF IInv, OwnedOnce, Places
    <3> QED BY <3>1, <3>2
  <2> QED BY <2>1 DEF OwnedOnce, Places
<1> QED BY <1>1, <1>2, <1>3, <1>4 DEF IInv

-----------------------------------------------------------------------------
(* One lemma per action. *)

LEMMA AddCommandKeeps ==
    ASSUME IInv, NEW d \in Doc, NEW c \in Cmd, NEW R \in SUBSET Doc,
           AddCommand(d, c, R)
    PROVE  IInv'
<1> DEFINE l == lists[d]
<1>1. /\ \A e \in Doc : lists[e] \in List /\ CursorsOf(lists[e])
      /\ effect \in [Cmd -> Effects] /\ effect[c] = "none"
      /\ d \notin R
  BY DEF IInv, ListsTypeOK, Cursors, List, AddCommand, Removable
<1>2. /\ lists'[d] = Pushed(l, c)
      /\ \A e \in Doc \ {d} : lists'[e] = IF e \in R THEN EmptyList ELSE lists[e]
      /\ lists' = [e \in Doc |-> lists'[e]]
  BY DEF AddCommand
<1>3. /\ lists'[d] \in List /\ CursorsOf(lists'[d])
      /\ Len(lists'[d].cmds) = l.redo /\ lists'[d].redo = l.redo + 1
      /\ \A i \in 1..l.redo - 1 : lists'[d].cmds[i] = l.cmds[i]
      /\ lists'[d].cmds[l.redo] = c
      /\ l.redo \in Nat /\ l.redo >= 1 /\ l.redo - 1 <= Len(l.cmds)
      /\ Len(l.cmds) \in Nat
  <2>1. l \in List /\ CursorsOf(l)
    BY <1>1
  <2>2. l.redo \in Nat /\ l.redo >= 1 /\ l.redo - 1 <= Len(l.cmds) /\ Len(l.cmds) \in Nat
    BY <2>1 DEF List, CursorsOf, ListEnd
  <2> QED BY <1>2, <2>1, <2>2, PushedPlaces
<1>4. \A e \in Doc : lists'[e] \in List /\ CursorsOf(lists'[e])
  BY <1>1, <1>2, <1>3, EmptyPlaces
<1>5. /\ effect' \in [Cmd -> Effects]
      /\ \A x \in Cmd : effect'[x] =
            IF x \in OwnedByDocs(R) THEN "none"
            ELSE IF x = c THEN "done"
            ELSE IF x \in CmdsIn(Leaving(l)) THEN "none" ELSE effect[x]
  BY <1>1 DEF AddCommand, WithoutDocs, Effects
<1>6. /\ lists' \in [Doc -> List] /\ fileChanged' \in BOOLEAN
  BY <1>2, <1>4 DEF AddCommand
<1>7. \A e \in Doc : \A i \in Places(lists'[e]) :
         \/ e = d /\ i = l.redo /\ lists'[e].cmds[i] = c
         \/ /\ i \in Places(lists[e]) /\ lists'[e].cmds[i] = lists[e].cmds[i]
            /\ e \notin R /\ (e = d => i < l.redo)
            /\ lists'[e].redo > i <=> lists[e].redo > i
  <2> SUFFICES ASSUME NEW e \in Doc, NEW i \in Places(lists'[e])
               PROVE  \/ e = d /\ i = l.redo /\ lists'[e].cmds[i] = c
                      \/ /\ i \in Places(lists[e])
                         /\ lists'[e].cmds[i] = lists[e].cmds[i]
                         /\ e \notin R /\ (e = d => i < l.redo)
                         /\ lists'[e].redo > i <=> lists[e].redo > i
    OBVIOUS
  <2>1. CASE e = d
    <3>1. i \in 1..l.redo
      BY <1>3, <2>1 DEF Places
    <3>2. CASE i = l.redo
      BY <1>3, <2>1, <3>2
    <3>3. CASE i < l.redo
      <4>1. i \in 1..l.redo - 1 /\ i \in 1..Len(l.cmds)
        BY <1>3, <3>1, <3>3
      <4>2. lists'[e].cmds[i] = lists[e].cmds[i]
        BY <1>3, <2>1, <4>1
      <4>3. lists'[e].redo > i /\ lists[e].redo > i
        BY <1>3, <2>1, <3>1, <3>3
      <4> QED BY <1>1, <2>1, <3>3, <4>1, <4>2, <4>3 DEF Places
    <3> QED BY <1>3, <3>1, <3>2, <3>3
  <2>2. CASE e # d /\ e \in R
    BY <1>2, <2>2, EmptyPlaces DEF Places
  <2>3. CASE e # d /\ e \notin R
    BY <1>2, <2>3
  <2> QED BY <2>1, <2>2, <2>3
<1>8. \A e \in Doc : \A i \in Places(lists'[e]) :
         effect'[lists'[e].cmds[i]] =
             IF i < lists'[e].redo THEN "done" ELSE "undone"
  <2> SUFFICES ASSUME NEW e \in Doc, NEW i \in Places(lists'[e])
               PROVE  effect'[lists'[e].cmds[i]] =
                         IF i < lists'[e].redo THEN "done" ELSE "undone"
    OBVIOUS
  <2>1. CASE e = d /\ i = l.redo /\ lists'[e].cmds[i] = c
    <3> c \notin OwnedByDocs(R)
      <4> SUFFICES ASSUME c \in OwnedByDocs(R) PROVE FALSE
        OBVIOUS
      <4> PICK f \in R : \E j \in Places(lists[f]) : c = lists[f].cmds[j]
        BY DEF OwnedByDocs, OwnedBy, CmdsIn, Places
      <4> QED BY <1>1, PlaceOfCommand
    <3> QED BY <1>3, <1>5, <2>1
  <2>2. CASE /\ i \in Places(lists[e]) /\ lists'[e].cmds[i] = lists[e].cmds[i]
             /\ e \notin R /\ (e = d => i < l.redo)
             /\ lists'[e].redo > i <=> lists[e].redo > i
    <3> DEFINE x == lists[e].cmds[i]
    <3>1. x \in Cmd /\ x # c /\ x \notin OwnedByDocs(R)
      BY <1>1, <2>2, PlaceOfCommand
    <3>2. x \notin CmdsIn(Leaving(l))
      BY <1>3, <2>2, PlaceOfCommand DEF Places
    <3>3. effect[x] = IF i < lists[e].redo THEN "done" ELSE "undone"
      BY <2>2 DEF IInv, EffectsInPlace, Places
    <3>4. i < lists'[e].redo <=> i < lists[e].redo
      BY <1>1, <1>4, <2>2 DEF List, Places
    <3> QED BY <1>5, <2>2, <3>1, <3>2, <3>3, <3>4
  <2> QED BY <1>7, <2>1, <2>2
<1>9. \A x \in Cmd : effect'[x] # "none" =>
         \E e \in Doc : \E i \in Places(lists'[e]) : lists'[e].cmds[i] = x
  <2> SUFFICES ASSUME NEW x \in Cmd, effect'[x] # "none", x # c
               PROVE  \E e \in Doc : \E i \in Places(lists'[e]) :
                          lists'[e].cmds[i] = x
    BY <1>3 DEF Places
  <2>1. effect[x] # "none" /\ x \notin OwnedByDocs(R) /\ x \notin CmdsIn(Leaving(l))
    BY <1>5
  <2>2. PICK e \in Doc : \E i \in Places(lists[e]) : lists[e].cmds[i] = x
    BY <2>1 DEF IInv, OwnedOnce, Places
  <2>3. PICK i \in Places(lists[e]) : lists[e].cmds[i] = x
    BY <2>2
  <2>4. e \notin R /\ (e = d => i < l.redo)
    BY <1>3, <2>1, <2>3, PlaceOfCommand DEF Places
  <2>5. i \in Places(lists'[e]) /\ lists'[e].cmds[i] = x
    BY <1>2, <1>3, <2>3, <2>4 DEF Places
  <2> QED BY <2>5
<1>10. \A e \in Doc : \A i \in Places(lists'[e]) :
          effect[lists'[e].cmds[i]] = "none" => e = d /\ i = l.redo
  BY <1>7, PlaceOfCommand
<1>11. \A e \in Doc : \A i \in Places(lists'[e]) :
         \/ i \in Places(lists[e]) /\ lists'[e].cmds[i] = lists[e].cmds[i]
         \/ effect[lists'[e].cmds[i]] = "none"
  BY <1>1, <1>7
<1>12. \A e, f \in Doc : \A i \in Places(lists'[e]), j \in Places(lists'[f]) :
          (/\ effect[lists'[e].cmds[i]] = "none"
           /\ effect[lists'[f].cmds[j]] = "none") => e = f /\ i = j
  BY <1>10
<1>13. effect' \in [Cmd -> Effects]
  BY <1>5
<1> HIDE DEF l
<1> QED BY <1>4, <1>6, <1>8, <1>9, <1>11, <1>12, <1>13, PlacesKept

\* UnDo and ReDo alike: the list of d keeps its commands, one of them changes
\* its effect as the redo iterator passes it, and the documents R lose theirs.
LEMMA SteppedKeeps ==
    ASSUME IInv, NEW d \in Doc, NEW R \in SUBSET Doc, d \notin R,
           NEW k \in Places(lists[d]), NEW m \in List, NEW v \in Effects,
           CursorsOf(m), m.cmds = lists[d].cmds, v # "none",
           \A i \in Places(m) :
               (IF i < m.redo THEN "done" ELSE "undone") =
               IF i = k THEN v
               ELSE IF i < lists[d].redo THEN "done" ELSE "undone",
           lists' = [e \in Doc |-> IF e = d THEN m
                                   ELSE IF e \in R THEN EmptyList ELSE lists[e]],
           effect' = WithoutDocs([effect EXCEPT ![lists[d].cmds[k]] = v], R),
           UNCHANGED fileChanged
    PROVE  IInv'
<1> DEFINE y == lists[d].cmds[k]
<1>1. /\ \A e \in Doc : lists[e] \in List /\ CursorsOf(lists[e])
      /\ effect \in [Cmd -> Effects] /\ y \in Cmd /\ effect[y] # "none"
      /\ fileChanged' \in BOOLEAN
  BY PlaceOfCommand DEF IInv, ListsTypeOK
<1>2. /\ lists'[d] = m
      /\ \A e \in Doc \ {d} : lists'[e] = IF e \in R THEN EmptyList ELSE lists[e]
  OBVIOUS
<1>3. \A e \in Doc : lists'[e] \in List /\ CursorsOf(lists'[e])
  BY <1>1, <1>2, EmptyPlaces
<1>4. lists' \in [Doc -> List]
  BY <1>1, EmptyPlaces
<1>5. /\ effect' \in [Cmd -> Effects]
      /\ \A x \in Cmd : effect'[x] = IF x \in OwnedByDocs(R) THEN "none"
                                     ELSE IF x = y THEN v ELSE effect[x]
  BY <1>1 DEF WithoutDocs, Effects
<1>6. \A e \in Doc : \A i \in Places(lists'[e]) :
         /\ i \in Places(lists[e]) /\ lists'[e].cmds[i] = lists[e].cmds[i]
         /\ e \notin R
  BY <1>2, EmptyPlaces DEF Places
<1>7. \A e \in Doc : \A i \in Places(lists'[e]) :
         effect'[lists'[e].cmds[i]] =
             IF i < lists'[e].redo THEN "done" ELSE "undone"
  <2> SUFFICES ASSUME NEW e \in Doc, NEW i \in Places(lists'[e])
               PROVE  effect'[lists'[e].cmds[i]] =
                         IF i < lists'[e].redo THEN "done" ELSE "undone"
    OBVIOUS
  <2>1. /\ i \in Places(lists[e]) /\ lists'[e].cmds[i] = lists[e].cmds[i]
        /\ lists[e].cmds[i] \in Cmd /\ lists[e].cmds[i] \notin OwnedByDocs(R)
    BY <1>6, PlaceOfCommand
  <2>2. lists[e].cmds[i] = y <=> e = d /\ i = k
    BY <2>1 DEF IInv, OwnedOnce, Places
  <2>3. effect[lists[e].cmds[i]] = IF i < lists[e].redo THEN "done" ELSE "undone"
    BY <2>1 DEF IInv, EffectsInPlace, Places
  <2>4. CASE e = d
    BY <1>2, <1>5, <2>1, <2>2, <2>3, <2>4
  <2>5. CASE e # d
    BY <1>2, <1>5, <1>6, <2>1, <2>2, <2>3, <2>5
  <2> QED BY <2>4, <2>5
<1>8. \A x \in Cmd : effect'[x] # "none" =>
         \E e \in Doc : \E i \in Places(lists'[e]) : lists'[e].cmds[i] = x
  <2> SUFFICES ASSUME NEW x \in Cmd, effect'[x] # "none"
               PROVE  \E e \in Doc : \E i \in Places(lists'[e]) :
                          lists'[e].cmds[i] = x
    OBVIOUS
  <2>1. effect[x] # "none" /\ x \notin OwnedByDocs(R)
    BY <1>1, <1>5
  <2>2. PICK e \in Doc : \E i \in Places(lists[e]) : lists[e].cmds[i] = x
    BY <2>1 DEF IInv, OwnedOnce, Places
  <2>3. PICK i \in Places(lists[e]) : lists[e].cmds[i] = x
    BY <2>2
  <2>4. e \notin R
    BY <2>1, <2>3, PlaceOfCommand
  <2> QED BY <1>2, <2>3, <2>4 DEF Places
<1>9. \A e \in Doc : \A i \in Places(lists'[e]) : effect[lists'[e].cmds[i]] # "none"
  BY <1>6, PlaceOfCommand
<1>10. \A e, f \in Doc : \A i \in Places(lists'[e]), j \in Places(lists'[f]) :
          (/\ effect[lists'[e].cmds[i]] = "none"
           /\ effect[lists'[f].cmds[j]] = "none") => e = f /\ i = j
  BY <1>9
<1>11. \A e \in Doc : \A i \in Places(lists'[e]) :
          \/ i \in Places(lists[e]) /\ lists'[e].cmds[i] = lists[e].cmds[i]
          \/ effect[lists'[e].cmds[i]] = "none"
  BY <1>6
<1>12. effect' \in [Cmd -> Effects]
  BY <1>5
<1> HIDE DEF y
<1> QED BY <1>1, <1>3, <1>4, <1>7, <1>8, <1>10, <1>11, <1>12, PlacesKept

LEMMA UnDoKeeps ==
    ASSUME IInv, NEW d \in Doc, NEW R \in SUBSET Doc, UnDo(d, R)
    PROVE  IInv'
<1> DEFINE l == lists[d]
           k == l.undo
           m == SteppedBack(l)
<1>1. l \in List /\ CursorsOf(l) /\ CanUnDo(l) /\ d \notin R
  BY PlaceOfCommand DEF UnDo, Removable
<1>2. /\ k = l.redo - 1 /\ k \in Places(l)
      /\ m \in List /\ CursorsOf(m) /\ m.cmds = l.cmds /\ m.redo = l.redo - 1
      /\ l.redo \in Nat
  BY <1>1, SteppedPlaces DEF List
<1>3. \A i \in Places(m) : (IF i < m.redo THEN "done" ELSE "undone") =
          IF i = k THEN "undone" ELSE IF i < l.redo THEN "done" ELSE "undone"
  BY <1>2 DEF Places
<1>4. /\ lists' = [e \in Doc |-> IF e = d THEN m
                                 ELSE IF e \in R THEN EmptyList ELSE lists[e]]
      /\ effect' = WithoutDocs([effect EXCEPT ![l.cmds[k]] = "undone"], R)
      /\ UNCHANGED fileChanged
  BY DEF UnDo
<1>5. "undone" \in Effects /\ "undone" # "none"
  BY DEF Effects
<1> HIDE DEF k, m
<1> QED BY <1>1, <1>2, <1>3, <1>4, <1>5, SteppedKeeps

LEMMA ReDoKeeps ==
    ASSUME IInv, NEW d \in Doc, NEW R \in SUBSET Doc, ReDo(d, R)
    PROVE  IInv'
<1> DEFINE l == lists[d]
           k == l.redo
           m == SteppedOn(l)
<1>1. l \in List /\ CursorsOf(l) /\ CanReDo(l) /\ d \notin R
  BY PlaceOfCommand DEF ReDo, Removable
<1>2. /\ k \in Places(l) /\ k \in Nat
      /\ m \in List /\ CursorsOf(m) /\ m.cmds = l.cmds /\ m.redo = l.redo + 1
  BY <1>1, SteppedPlaces DEF List
<1>3. \A i \in Places(m) : (IF i < m.redo THEN "done" ELSE "undone") =
          IF i = k THEN "done" ELSE IF i < l.redo THEN "done" ELSE "undone"
  BY <1>2 DEF Places
<1>4. /\ lists' = [e \in Doc |-> IF e = d THEN m
                                 ELSE IF e \in R THEN EmptyList ELSE lists[e]]
      /\ effect' = WithoutDocs([effect EXCEPT ![l.cmds[k]] = "done"], R)
      /\ UNCHANGED fileChanged
  BY DEF ReDo
<1>5. "done" \in Effects /\ "done" # "none"
  BY DEF Effects
<1> HIDE DEF k, m
<1> QED BY <1>1, <1>2, <1>3, <1>4, <1>5, SteppedKeeps

LEMMA FlushKeeps ==
    ASSUME IInv, FlushCommands, fileChanged' \in BOOLEAN
    PROVE  IInv'
<1>1. /\ \A d \in Doc : lists'[d] = EmptyList
      /\ lists' \in [Doc -> List]
  BY EmptyPlaces DEF FlushCommands
<1>2. \A x \in Cmd : effect'[x] = "none"
  <2> SUFFICES ASSUME NEW x \in Cmd, x \notin OwnedByDocs(Doc)
               PROVE  effect[x] = "none"
    BY DEF FlushCommands, WithoutDocs
  <2> SUFFICES ASSUME effect[x] # "none" PROVE FALSE
    OBVIOUS
  <2> PICK e \in Doc : \E i \in Places(lists[e]) : lists[e].cmds[i] = x
    BY DEF IInv, OwnedOnce, Places
  <2> QED BY PlaceOfCommand
<1>3. effect' \in [Cmd -> Effects]
  <2>1. effect' = [x \in Cmd |-> "none"]
    BY <1>2 DEF FlushCommands, WithoutDocs
  <2> QED BY <2>1 DEF Effects
<1>4. \A d \in Doc : Places(lists'[d]) = {}
  BY <1>1, EmptyPlaces DEF Places
<1> QED BY <1>1, <1>2, <1>3, <1>4, EmptyPlaces, PlacesKept

-----------------------------------------------------------------------------
(* The theorems. *)

LEMMA CmdInitIInv == CmdInit => IInv
<1> SUFFICES ASSUME CmdInit PROVE IInv
  OBVIOUS
<1>1. lists \in [Doc -> List] /\ \A d \in Doc : lists[d] = EmptyList
  BY EmptyPlaces DEF CmdInit
<1>2. ListsTypeOK /\ Cursors
  BY <1>1, EmptyPlaces DEF CmdInit, ListsTypeOK, Cursors, List, Effects
<1>3. EffectsInPlace /\ OwnedOnce
  BY <1>1, EmptyPlaces DEF CmdInit, EffectsInPlace, OwnedOnce
<1> QED BY <1>2, <1>3 DEF IInv

LEMMA Invariance == CmdSpec => []IInv
<1>1. CmdInit => IInv
  BY CmdInitIInv
<1>2. IInv /\ [CmdNext]_cmdVars => IInv'
  <2> SUFFICES ASSUME IInv, [CmdNext]_cmdVars PROVE IInv'
    OBVIOUS
  <2>1. CASE UNCHANGED cmdVars
    BY <2>1 DEF cmdVars, IInv, ListsTypeOK, Cursors, EffectsInPlace, OwnedOnce
  <2>2. ASSUME NEW d \in Doc, NEW R \in SUBSET Doc, NEW c \in Cmd, AddCommand(d, c, R)
        PROVE  IInv'
    BY <2>2, AddCommandKeeps
  <2>3. ASSUME NEW d \in Doc, NEW R \in SUBSET Doc, UnDo(d, R) \/ ReDo(d, R)
        PROVE  IInv'
    BY <2>3, UnDoKeeps, ReDoKeeps
  <2>4. CASE Flush
    BY <2>4, FlushKeeps DEF Flush, IInv, ListsTypeOK
  <2> QED BY <2>1, <2>2, <2>3, <2>4 DEF CmdNext
<1> QED BY <1>1, <1>2, PTL DEF CmdSpec

\* The lists, effects and flag keep their types, for any documents and commands.
THEOREM CmdTypeOK == CmdSpec => []ListsTypeOK
BY Invariance, PTL DEF IInv

\* The two iterators of every list stay neighbours (CmdList::UnDo, ReDo and
\* AddCommand), so end() in m_undoIter always means "nothing to undo".
THEOREM CmdCursors == CmdSpec => []Cursors
BY Invariance, PTL DEF IInv

\* Every command is executed and unexecuted in turns and never after it was
\* deleted (CmdList::UnDo, ReDo).
THEOREM CmdEffectsInPlace == CmdSpec => []EffectsInPlace
BY Invariance, PTL DEF IInv

\* Every living command is owned by exactly one place of one list, so none is
\* deleted twice or forgotten (CmdManager::RemoveCommands, Flush).
THEOREM CmdOwnedOnce == CmdSpec => []OwnedOnce
BY Invariance, PTL DEF IInv

-----------------------------------------------------------------------------
(* The map to UndoStack: every step of a list is a step of its stacks. *)

\* Sequences of one length with the same elements are one.
LEMMA SeqEqual ==
    ASSUME NEW S, NEW s \in Seq(S), NEW t \in Seq(S), Len(s) = Len(t),
           \A i \in 1..Len(s) : s[i] = t[i]
    PROVE  s = t
OBVIOUS

\* A tail of a sequence is its first element and the tail after it.
LEMMA TailOfSeq ==
    ASSUME NEW S, NEW s \in Seq(S), NEW k \in 1..Len(s)
    PROVE  /\ SubSeq(s, k, Len(s)) = <<s[k]>> \o SubSeq(s, k + 1, Len(s))
           /\ Head(SubSeq(s, k, Len(s))) = s[k]
           /\ Tail(SubSeq(s, k, Len(s))) = SubSeq(s, k + 1, Len(s))
           /\ SubSeq(s, k, Len(s)) # << >>
<1> DEFINE t == SubSeq(s, k, Len(s))
           u == SubSeq(s, k + 1, Len(s))
<1>1. /\ t \in Seq(S) /\ Len(t) = Len(s) - k + 1
      /\ \A i \in 1..Len(t) : t[i] = s[k + i - 1]
  OBVIOUS
<1>2. /\ u \in Seq(S) /\ Len(u) = Len(s) - k
      /\ \A i \in 1..Len(u) : u[i] = s[k + i]
  <2>1. CASE k = Len(s)
    BY <2>1
  <2>2. CASE k < Len(s)
    BY <2>2
  <2> QED BY <2>1, <2>2
<1>3. s[k] \in S
  OBVIOUS
<1> HIDE DEF t, u
<1>4. /\ <<s[k]>> \o u \in Seq(S) /\ Len(<<s[k]>> \o u) = Len(u) + 1
      /\ (<<s[k]>> \o u)[1] = s[k]
      /\ \A i \in 2..Len(u) + 1 : (<<s[k]>> \o u)[i] = u[i - 1]
  BY <1>2, <1>3
<1>5. t = <<s[k]>> \o u
  <2>1. Len(t) = Len(<<s[k]>> \o u)
    BY <1>1, <1>2, <1>4
  <2>2. ASSUME NEW i \in 1..Len(t) PROVE t[i] = (<<s[k]>> \o u)[i]
    <3>1. CASE i = 1
      BY <1>1, <1>4, <3>1
    <3>2. CASE i # 1
      <4>1. i \in 2..Len(u) + 1 /\ i - 1 \in 1..Len(u)
        BY <1>1, <1>2, <3>2
      <4>2. t[i] = s[k + i - 1] /\ u[i - 1] = s[k + (i - 1)]
        BY <1>1, <1>2, <4>1
      <4>3. k + i - 1 = k + (i - 1)
        BY <4>1
      <4> QED BY <1>4, <4>1, <4>2, <4>3
    <3> QED BY <3>1, <3>2
  <2> QED BY <1>1, <1>4, <2>1, <2>2, SeqEqual
<1>6. t # << >> /\ Head(t) = s[k]
  BY <1>1
<1>7. Tail(t) = u
  <2>1. /\ Tail(t) \in Seq(S) /\ Len(Tail(t)) = Len(u)
        /\ \A i \in 1..Len(u) : Tail(t)[i] = t[i + 1]
    BY <1>1, <1>2
  <2>2. \A i \in 1..Len(u) : Tail(t)[i] = u[i]
    <3> SUFFICES ASSUME NEW i \in 1..Len(u) PROVE Tail(t)[i] = u[i]
      OBVIOUS
    <3> i + 1 \in 1..Len(t) /\ k + (i + 1) - 1 = k + i
      BY <1>1, <1>2
    <3> QED BY <1>1, <1>2, <2>1
  <2> QED BY <1>2, <2>1, <2>2, SeqEqual
<1> QED BY <1>5, <1>6, <1>7 DEF t, u

\* The stacks of a list after AddCommand, UnDo and ReDo.
LEMMA PushedStacks ==
    ASSUME NEW l \in List, CursorsOf(l), NEW c \in Cmd
    PROVE  LET p == Pushed(l, c) IN
           /\ SubSeq(p.cmds, 1, p.redo - 1) = Append(SubSeq(l.cmds, 1, l.redo - 1), c)
           /\ Leaving(p) = << >>
<1> DEFINE p == Pushed(l, c)
<1>1. /\ p \in List /\ CursorsOf(p) /\ Len(p.cmds) = l.redo /\ p.redo = l.redo + 1
      /\ l.redo \in Nat
  BY PushedPlaces DEF List
<1>2. p.cmds = Append(SubSeq(l.cmds, 1, l.redo - 1), c)
  BY DEF Pushed
<1>3. p.redo - 1 = Len(p.cmds)
  BY <1>1
<1>4. SubSeq(p.cmds, 1, Len(p.cmds)) = p.cmds
  BY <1>1 DEF List
<1>5. Leaving(p) = << >>
  BY <1>1 DEF Leaving, List
<1> QED BY <1>2, <1>3, <1>4, <1>5

LEMMA SteppedBackStacks ==
    ASSUME NEW l \in List, CursorsOf(l), CanUnDo(l)
    PROVE  LET q == SteppedBack(l)
               done == SubSeq(l.cmds, 1, l.redo - 1)
           IN  /\ Len(done) = l.redo - 1 /\ Len(done) > 0
               /\ SubSeq(q.cmds, 1, q.redo - 1) = SubSeq(done, 1, Len(done) - 1)
               /\ Leaving(q) = <<done[Len(done)]>> \o Leaving(l)
<1> DEFINE q == SteppedBack(l)
           done == SubSeq(l.cmds, 1, l.redo - 1)
           k == l.redo - 1
<1>1. /\ q.cmds = l.cmds /\ q.redo = k
      /\ l.cmds \in Seq(Cmd) /\ k \in 1..Len(l.cmds) /\ Len(l.cmds) \in Nat
  BY SteppedPlaces DEF List, Places
<1>2. /\ done \in Seq(Cmd) /\ Len(done) = k
      /\ \A i \in 1..k : done[i] = l.cmds[i]
  BY <1>1
<1>3. SubSeq(l.cmds, 1, k - 1) = SubSeq(done, 1, k - 1)
  BY <1>1, <1>2
<1>4. Leaving(q) = <<l.cmds[k]>> \o Leaving(l)
  <2> l.redo = k + 1
    BY DEF List
  <2> QED BY <1>1, TailOfSeq DEF Leaving
<1> QED BY <1>1, <1>2, <1>3, <1>4

LEMMA SteppedOnStacks ==
    ASSUME NEW l \in List, CursorsOf(l), CanReDo(l)
    PROVE  LET q == SteppedOn(l) IN
           /\ Leaving(l) # << >>
           /\ SubSeq(q.cmds, 1, q.redo - 1) =
                 Append(SubSeq(l.cmds, 1, l.redo - 1), Head(Leaving(l)))
           /\ Leaving(q) = Tail(Leaving(l))
<1> DEFINE q == SteppedOn(l)
           k == l.redo
<1>1. /\ q.cmds = l.cmds /\ q.redo = k + 1
      /\ l.cmds \in Seq(Cmd) /\ k \in 1..Len(l.cmds) /\ Len(l.cmds) \in Nat
  BY SteppedPlaces DEF List, Places
<1>2. Leaving(l) # << >> /\ Head(Leaving(l)) = l.cmds[k]
  BY <1>1, TailOfSeq DEF Leaving
<1>3. SubSeq(l.cmds, 1, k) = Append(SubSeq(l.cmds, 1, k - 1), l.cmds[k])
  BY <1>1
<1>4. Leaving(q) = Tail(Leaving(l))
  BY <1>1, TailOfSeq DEF Leaving
<1>5. q.redo - 1 = k
  BY <1>1
<1> QED BY <1>1, <1>2, <1>3, <1>4, <1>5

-----------------------------------------------------------------------------
(* The refinement: every step of the lists is a step of the stacks. *)

LEMMA EmptyStacks ==
    SubSeq(EmptyList.cmds, 1, EmptyList.redo - 1) = << >> /\ Leaving(EmptyList) = << >>
BY DEF EmptyList, Leaving

\* The list of d becomes q and those of the documents R are deleted.
LEMMA StacksFollow ==
    ASSUME NEW d \in Doc, NEW R \in SUBSET Doc, NEW q,
           lists' = [e \in Doc |-> IF e = d THEN q
                                   ELSE IF e \in R THEN EmptyList ELSE lists[e]]
    PROVE  /\ Done' = Stacks!With(Done, d, SubSeq(q.cmds, 1, q.redo - 1), R)
           /\ Undone' = Stacks!With(Undone, d, Leaving(q), R)
<1>1. ASSUME NEW e \in Doc
      PROVE  SubSeq(lists'[e].cmds, 1, lists'[e].redo - 1) =
                 IF e = d THEN SubSeq(q.cmds, 1, q.redo - 1)
                 ELSE IF e \in R THEN << >>
                 ELSE SubSeq(lists[e].cmds, 1, lists[e].redo - 1)
  BY EmptyStacks
<1>2. ASSUME NEW e \in Doc
      PROVE  Leaving(lists'[e]) =
                 IF e = d THEN Leaving(q)
                 ELSE IF e \in R THEN << >> ELSE Leaving(lists[e])
  BY EmptyStacks
<1>3. Done' = Stacks!With(Done, d, SubSeq(q.cmds, 1, q.redo - 1), R)
  BY <1>1 DEF Done, Stacks!With
<1>4. Undone' = Stacks!With(Undone, d, Leaving(q), R)
  BY <1>2 DEF Undone, Stacks!With
<1> QED BY <1>3, <1>4

LEMMA AddCommandIsDo ==
    ASSUME IInv, NEW d \in Doc, NEW c \in Cmd, NEW R \in SUBSET Doc,
           AddCommand(d, c, R)
    PROVE  Stacks!Do(d, c, R)
<1>1. lists[d] \in List /\ CursorsOf(lists[d])
  BY PlaceOfCommand
<1>2. /\ SubSeq(Pushed(lists[d], c).cmds, 1, Pushed(lists[d], c).redo - 1) =
           Append(Done[d], c)
      /\ Leaving(Pushed(lists[d], c)) = << >>
  BY <1>1, PushedStacks DEF Done
<1>3. lists' = [e \in Doc |-> IF e = d THEN Pushed(lists[d], c)
                              ELSE IF e \in R THEN EmptyList ELSE lists[e]]
  BY DEF AddCommand
<1> QED BY <1>2, <1>3, StacksFollow DEF Stacks!Do

LEMMA UnDoIsUndo ==
    ASSUME IInv, NEW d \in Doc, NEW R \in SUBSET Doc, UnDo(d, R)
    PROVE  Stacks!Undo(d, R)
<1>1. lists[d] \in List /\ CursorsOf(lists[d]) /\ CanUnDo(lists[d])
  BY PlaceOfCommand DEF UnDo
<1>2. /\ Len(Done[d]) > 0
      /\ SubSeq(SteppedBack(lists[d]).cmds, 1, SteppedBack(lists[d]).redo - 1) =
            SubSeq(Done[d], 1, Len(Done[d]) - 1)
      /\ Leaving(SteppedBack(lists[d])) = <<Done[d][Len(Done[d])]>> \o Undone[d]
  BY <1>1, SteppedBackStacks DEF Done, Undone
<1>3. Done[d] # << >>
  BY <1>2
<1>4. lists' = [e \in Doc |-> IF e = d THEN SteppedBack(lists[d])
                              ELSE IF e \in R THEN EmptyList ELSE lists[e]]
  BY DEF UnDo
<1> QED BY <1>2, <1>3, <1>4, StacksFollow DEF Stacks!Undo

LEMMA ReDoIsRedo ==
    ASSUME IInv, NEW d \in Doc, NEW R \in SUBSET Doc, ReDo(d, R)
    PROVE  Stacks!Redo(d, R)
<1>1. lists[d] \in List /\ CursorsOf(lists[d]) /\ CanReDo(lists[d])
  BY PlaceOfCommand DEF ReDo
<1>2. /\ Undone[d] # << >>
      /\ SubSeq(SteppedOn(lists[d]).cmds, 1, SteppedOn(lists[d]).redo - 1) =
            Append(Done[d], Head(Undone[d]))
      /\ Leaving(SteppedOn(lists[d])) = Tail(Undone[d])
  BY <1>1, SteppedOnStacks DEF Done, Undone
<1>3. lists' = [e \in Doc |-> IF e = d THEN SteppedOn(lists[d])
                              ELSE IF e \in R THEN EmptyList ELSE lists[e]]
  BY DEF ReDo
<1> QED BY <1>2, <1>3, StacksFollow DEF Stacks!Redo

\* Nothing done and nothing undone: at the start, and after Flush.
LEMMA EmptyLists ==
    ASSUME NEW f, f = [d \in Doc |-> EmptyList]
    PROVE  /\ [d \in Doc |-> SubSeq(f[d].cmds, 1, f[d].redo - 1)] = [d \in Doc |-> << >>]
           /\ [d \in Doc |-> Leaving(f[d])] = [d \in Doc |-> << >>]
<1>1. \A d \in Doc : f[d] = EmptyList
  OBVIOUS
<1> QED BY <1>1, EmptyStacks

LEMMA StepIsStackStep ==
    ASSUME IInv, [CmdNext]_cmdVars
    PROVE  [Stacks!Next]_(Stacks!vars)
<1>1. ASSUME NEW d \in Doc, NEW R \in SUBSET Doc, NEW c \in Cmd, AddCommand(d, c, R)
      PROVE  Stacks!Next
  <2> R \in SUBSET (Doc \ {d})
    BY <1>1 DEF AddCommand, Removable
  <2> QED BY <1>1, AddCommandIsDo DEF Stacks!Next
<1>2. ASSUME NEW d \in Doc, NEW R \in SUBSET Doc, UnDo(d, R)
      PROVE  Stacks!Next
  <2> R \in SUBSET (Doc \ {d})
    BY <1>2 DEF UnDo, Removable
  <2> QED BY <1>2, UnDoIsUndo DEF Stacks!Next
<1>3. ASSUME NEW d \in Doc, NEW R \in SUBSET Doc, ReDo(d, R)
      PROVE  Stacks!Next
  <2> R \in SUBSET (Doc \ {d})
    BY <1>3 DEF ReDo, Removable
  <2> QED BY <1>3, ReDoIsRedo DEF Stacks!Next
<1>4. CASE Flush
  <2> lists' = [d \in Doc |-> EmptyList]
    BY <1>4 DEF Flush, FlushCommands
  <2> Done' = Stacks!Nothing /\ Undone' = Stacks!Nothing
    BY EmptyLists DEF Done, Undone, Stacks!Nothing
  <2> QED BY DEF Stacks!Next, Stacks!Forget
<1>5. CASE UNCHANGED cmdVars
  <2> QED BY <1>5 DEF cmdVars, Done, Undone, Stacks!vars
<1> QED BY <1>1, <1>2, <1>3, <1>4, <1>5 DEF CmdNext

\* The list of commands with its two iterators is the two stacks of UndoStack:
\* CmdList::UnDo takes the last command done, ReDo the last one undone, and
\* AddCommand forgets those undone.
THEOREM CmdRefinesStacks == CmdSpec => ImplementsUndoStack
<1>1. CmdInit => Stacks!Init
  BY EmptyLists DEF CmdInit, Done, Undone, Stacks!Init, Stacks!Nothing
<1>2. IInv /\ [CmdNext]_cmdVars => [Stacks!Next]_(Stacks!vars)
  BY StepIsStackStep
<1> QED BY <1>1, <1>2, Invariance, PTL DEF CmdSpec, ImplementsUndoStack, Stacks!Spec

-----------------------------------------------------------------------------
(* The session. *)

\* What a file may hold: an earlier content, or nothing that can be read.
Files == (SUBSET Cmd) \cup {Unreadable}

\* A file that can be read holds edits that were made.
FilesMade == \A s \in Space : file[s] # Unreadable => file[s] \subseteq made

\* The selection follows the root while the root is on the screen.
ScreenIsChosen ==
    shown \/ last # NoSpace =>
        shown /\ chief \in Space /\ chosen = chief /\ last = chief

(* The inductive invariant.  What a load puts on the screen was made only    *)
(* because the files hold nothing else; what a redo brings back was made     *)
(* only because the lists hold commands of this root; a save makes the flag  *)
(* honest only because the selection names the root's own file.              *)
FrameIInv ==
    /\ IInv
    /\ FrameTypeOK
    /\ FilesMade
    /\ FlagHonest
    /\ ScreenIsChosen
    /\ CommandsOfThisRoot

\* The part of it that does not speak of the lists.
ScreenInv == FrameTypeOK /\ FilesMade /\ FlagHonest /\ ScreenIsChosen

-----------------------------------------------------------------------------
(* The lists of commands, as CmdManager keeps them. *)

\* Clearing or setting the flag leaves the lists sound.
LEMMA ListsAsBefore ==
    ASSUME IInv, UNCHANGED <<lists, effect>>, fileChanged' \in BOOLEAN
    PROVE  IInv'
BY DEF IInv, ListsTypeOK, Cursors, EffectsInPlace, OwnedOnce

\* A list that was flushed owns nothing.
LEMMA FlushedOwnsNothing ==
    ASSUME FlushCommands
    PROVE  CommandsOfThisRoot'
<1> \A d \in Doc : lists'[d] = EmptyList
  BY DEF FlushCommands
<1> OwnedBy(EmptyList) = {}
  BY DEF OwnedBy, CmdsIn, EmptyList
<1> QED BY DEF CommandsOfThisRoot, OwnedBy

\* The list of an edit owns the new command and some of those it owned.
LEMMA PushedOwns ==
    ASSUME NEW l \in List, CursorsOf(l), NEW c \in Cmd
    PROVE  OwnedBy(Pushed(l, c)) \subseteq OwnedBy(l) \cup {c}
<1> DEFINE p == Pushed(l, c)
<1>1. /\ Len(p.cmds) = l.redo
      /\ \A i \in 1..l.redo - 1 : p.cmds[i] = l.cmds[i]
      /\ p.cmds[l.redo] = c
  BY PushedPlaces
<1>2. l.redo \in 1..Len(l.cmds) + 1 /\ Len(l.cmds) \in Nat
  BY DEF List, CursorsOf, ListEnd
<1> HIDE DEF p
<1>3. ASSUME NEW i \in 1..Len(p.cmds) PROVE p.cmds[i] \in OwnedBy(l) \cup {c}
  <2>1. CASE i = l.redo
    BY <2>1, <1>1
  <2>2. CASE i # l.redo
    <3> i \in 1..l.redo - 1 /\ i \in 1..Len(l.cmds)
      BY <2>2, <1>1, <1>2
    <3> QED BY <1>1 DEF OwnedBy, CmdsIn
  <2> QED BY <2>1, <2>2
<1> QED BY <1>3 DEF OwnedBy, CmdsIn, p

-----------------------------------------------------------------------------
(* One lemma per action. *)

LEMMA EditKeeps ==
    ASSUME FrameIInv, NEW d \in Doc, NEW c \in Cmd, Edit(d, c)
    PROVE  FrameIInv'
<1>1. IInv'
  BY AddCommandKeeps DEF Edit, FrameIInv
<1>2. /\ lists' = [e \in Doc |-> IF e = d THEN Pushed(lists[d], c) ELSE lists[e]]
      /\ fileChanged' = TRUE
  BY DEF Edit, AddCommand
<1>3. CommandsOfThisRoot'
  <2> SUFFICES ASSUME NEW e \in Doc PROVE OwnedBy(lists'[e]) \subseteq mine'
    BY DEF CommandsOfThisRoot
  <2>1. OwnedBy(lists[e]) \subseteq mine /\ mine' = mine \cup {c}
    BY DEF Edit, FrameIInv, CommandsOfThisRoot
  <2>2. CASE e = d
    <3> lists[d] \in List /\ CursorsOf(lists[d])
      BY PlaceOfCommand DEF FrameIInv
    <3> QED BY <1>2, <2>1, <2>2, PushedOwns
  <2>3. CASE e # d
    BY <1>2, <2>1, <2>3
  <2> QED BY <2>2, <2>3
<1>4. ScreenInv'
  BY <1>1, <1>2 DEF ScreenInv, IInv, Edit, FrameIInv, FrameTypeOK, FilesMade,
                    FlagHonest, ScreenIsChosen
<1> QED BY <1>1, <1>3, <1>4 DEF FrameIInv, ScreenInv

LEMMA StepKeeps ==
    ASSUME FrameIInv, NEW d \in Doc, Step(d)
    PROVE  FrameIInv'
<1> DEFINE l == lists[d]
<1>1. /\ IInv /\ l \in List /\ CursorsOf(l)
      /\ OwnedBy(l) \subseteq mine /\ mine \subseteq made
  BY PlaceOfCommand DEF FrameIInv, FrameTypeOK, CommandsOfThisRoot
<1>2. IInv'
  BY <1>1, UnDoKeeps, ReDoKeeps DEF Step
<1>3. UNCHANGED <<fileChanged, file, chief, shown, chosen, last, made, mine, saveFailed>>
      /\ stepped' = (stepped \/ ~fileChanged)
  BY DEF Step, UnDo, ReDo
\* The commands of no list change, so the lists own what they owned.
<1>4. \A e \in Doc : lists'[e].cmds = lists[e].cmds
  <2>1. CASE UnDo(d, {})
    BY <2>1, <1>1, SteppedPlaces DEF UnDo
  <2>2. CASE ReDo(d, {})
    BY <2>2, <1>1, SteppedPlaces DEF ReDo
  <2> QED BY <2>1, <2>2 DEF Step
<1>5. CommandsOfThisRoot'
  BY <1>3, <1>4 DEF FrameIInv, CommandsOfThisRoot, OwnedBy
<1>6. content' \subseteq made
  <2>1. content \subseteq made
    BY DEF FrameIInv, FrameTypeOK
  <2>2. CASE ReDo(d, {}) /\ content' = content \cup {l.cmds[l.redo]}
    <3> l.redo \in Places(l)
      BY <2>2, <1>1, SteppedPlaces DEF ReDo
    <3> l.cmds[l.redo] \in OwnedBy(l)
      BY DEF OwnedBy, CmdsIn, Places
    <3> QED BY <2>1, <2>2, <1>1
  <2> QED BY <2>1, <2>2 DEF Step
<1>7. ScreenInv'
  <2>1. FrameTypeOK'
    BY <1>2, <1>3, <1>6 DEF IInv, FrameIInv, FrameTypeOK
  <2>2. FilesMade' /\ ScreenIsChosen'
    BY <1>3 DEF FrameIInv, FilesMade, ScreenIsChosen
  <2>3. FlagHonest'
    BY <1>3 DEF FlagHonest
  <2> QED BY <2>1, <2>2, <2>3 DEF ScreenInv
<1> QED BY <1>2, <1>5, <1>7 DEF FrameIInv, ScreenInv

\* Whatever a save leaves in the file, it holds nothing that was not made.
LEMMA SavedFiles ==
    ASSUME FrameIInv, NEW f \in Files, SaveTrigger(f)
    PROVE  /\ chief \in Space /\ chosen \in Space
           /\ file' = [file EXCEPT ![chosen] = f]
           /\ file' \in [Space -> Files]
           /\ \A s \in Space : file'[s] # Unreadable => file'[s] \subseteq made
           /\ fileChanged' = FALSE
<1>1. /\ chief \in Space /\ chosen \in Space
      /\ file \in [Space -> Files] /\ content \subseteq made
      /\ file' = [file EXCEPT ![chosen] = f]
      /\ f \in {content, file[chosen], Unreadable}
      /\ fileChanged' = FALSE
  BY DEF FrameIInv, FrameTypeOK, Files, SaveTrigger, Target
<1>2. f # Unreadable => f \subseteq made
  BY <1>1 DEF FrameIInv, FilesMade
<1> QED BY <1>1, <1>2 DEF FrameIInv, FilesMade

LEMMA SaveKeeps ==
    ASSUME FrameIInv, NEW f \in Files, Save(f)
    PROVE  FrameIInv'
<1>1. /\ chief \in Space /\ chosen \in Space
      /\ file' = [file EXCEPT ![chosen] = f]
      /\ file' \in [Space -> Files]
      /\ \A s \in Space : file'[s] # Unreadable => file'[s] \subseteq made
      /\ fileChanged' = FALSE
  BY SavedFiles DEF Save
<1>2. /\ UNCHANGED <<lists, effect, chief, content, shown, chosen, last, made, mine>>
      /\ stepped' = FALSE /\ saveFailed' = (f # content)
  BY DEF Save
<1>3. IInv'
  BY <1>1, <1>2, ListsAsBefore DEF FrameIInv
<1>4. FrameTypeOK' /\ FilesMade' /\ ScreenIsChosen' /\ CommandsOfThisRoot'
  BY <1>1, <1>2, <1>3 DEF FrameIInv, IInv, FrameTypeOK, Files, FilesMade,
                          ScreenIsChosen, CommandsOfThisRoot
<1>5. FlagHonest'
  <2> SUFFICES ASSUME shown, f = content PROVE file'[chief] = content
    BY <1>2 DEF FlagHonest
  <2> chosen = chief
    BY DEF FrameIInv, ScreenIsChosen
  <2> file \in [Space -> Files]
    BY DEF FrameIInv, FrameTypeOK, Files
  <2> QED BY <1>1
<1> QED BY <1>3, <1>4, <1>5 DEF FrameIInv

LEMMA LoadKeeps ==
    ASSUME FrameIInv, NEW s \in Space, LoadCurrentSpace(s)
    PROVE  FrameIInv'
<1>1. /\ FlushCommands
      /\ chosen' = s /\ last' = s /\ chief' = s /\ shown' = TRUE
      /\ content' = IF file[s] = Unreadable THEN {} ELSE file[s]
      /\ fileChanged' = (file[s] = Unreadable)
      /\ mine' = {} /\ stepped' = FALSE /\ saveFailed' = FALSE
      /\ UNCHANGED <<file, made>>
  BY DEF LoadCurrentSpace
<1>2. IInv'
  BY <1>1, FlushKeeps DEF FrameIInv
<1>3. CommandsOfThisRoot'
  BY <1>1, FlushedOwnsNothing
<1>4. FrameTypeOK'
  <2> content' \subseteq made
    BY <1>1 DEF FrameIInv, FilesMade
  <2> QED BY <1>1, <1>2 DEF FrameIInv, IInv, FrameTypeOK
<1>5. FilesMade' /\ ScreenIsChosen' /\ FlagHonest'
  BY <1>1 DEF FrameIInv, FilesMade, ScreenIsChosen, FlagHonest
<1> QED BY <1>2, <1>3, <1>4, <1>5 DEF FrameIInv

\* The choice is put back only when there was one before it, and then the
\* root is still that of the choice before.
LEMMA CancelKeeps ==
    ASSUME FrameIInv, NEW s \in Space, CancelChoice(s)
    PROVE  FrameIInv'
<1>1. /\ UNCHANGED <<lists, effect, fileChanged>>
      /\ UNCHANGED <<file, chief, content, shown, last, made, mine, stepped, saveFailed>>
      /\ chosen' = IF last # NoSpace THEN last ELSE s
  BY DEF CancelChoice, cmdVars, Kept
<1>2. IInv'
  BY <1>1, ListsAsBefore DEF FrameIInv, IInv, ListsTypeOK
<1>3. ScreenIsChosen'
  <2> SUFFICES ASSUME shown PROVE last # NoSpace
    BY <1>1 DEF FrameIInv, ScreenIsChosen
  <2> QED BY FrameAssumption DEF FrameIInv, ScreenIsChosen
<1>4. FrameTypeOK' /\ FilesMade' /\ FlagHonest' /\ CommandsOfThisRoot'
  BY <1>1, <1>2 DEF FrameIInv, IInv, FrameTypeOK, FilesMade, FlagHonest,
                    CommandsOfThisRoot
<1> QED BY <1>2, <1>3, <1>4 DEF FrameIInv

\* Both ways to an empty screen: the list of spaces is read again, or the
\* program is closed (perhaps with a last save) and started.
LEMMA OpenSpacesKeeps ==
    ASSUME FrameIInv, OpenSpaces
    PROVE  FrameIInv'
<1>1. /\ FlushCommands /\ fileChanged' = FALSE
      /\ chosen' = NoSpace /\ last' = NoSpace /\ shown' = FALSE
      /\ UNCHANGED <<file, chief, content, made, mine, stepped, saveFailed>>
  BY DEF OpenSpaces
<1>2. IInv'
  BY <1>1, FlushKeeps DEF FrameIInv
<1>3. CommandsOfThisRoot'
  BY <1>1, FlushedOwnsNothing
<1>4. FrameTypeOK' /\ FilesMade' /\ ScreenIsChosen' /\ FlagHonest'
  BY <1>1, <1>2 DEF FrameIInv, IInv, FrameTypeOK, FilesMade, ScreenIsChosen, FlagHonest
<1> QED BY <1>2, <1>3, <1>4 DEF FrameIInv

LEMMA CloseKeeps ==
    ASSUME FrameIInv, Close
    PROVE  FrameIInv'
<1>1. /\ FlushCommands /\ fileChanged' = FALSE
      /\ chief' = NoSpace /\ content' = {} /\ shown' = FALSE
      /\ chosen' = NoSpace /\ last' = NoSpace
      /\ mine' = {} /\ stepped' = FALSE /\ saveFailed' = FALSE
      /\ UNCHANGED made
  BY DEF Close
<1>2. /\ file' \in [Space -> Files]
      /\ \A s \in Space : file'[s] # Unreadable => file'[s] \subseteq made
  <2>1. CASE UNCHANGED file
    BY <2>1 DEF FrameIInv, FrameTypeOK, FilesMade, Files
  <2>2. ASSUME NEW f \in Files, SaveTrigger(f)
        PROVE  /\ file' \in [Space -> Files]
               /\ \A s \in Space : file'[s] # Unreadable => file'[s] \subseteq made
    BY <2>2, SavedFiles
  <2> QED BY <2>1, <2>2 DEF Close, Files
<1>3. IInv'
  BY <1>1, FlushKeeps DEF FrameIInv
<1>4. CommandsOfThisRoot'
  BY <1>1, FlushedOwnsNothing
<1>5. FrameTypeOK' /\ FilesMade' /\ ScreenIsChosen' /\ FlagHonest'
  BY <1>1, <1>2, <1>3 DEF FrameIInv, IInv, FrameTypeOK, Files, FilesMade,
                          ScreenIsChosen, FlagHonest
<1> QED BY <1>3, <1>4, <1>5 DEF FrameIInv

-----------------------------------------------------------------------------
(* The theorems. *)

LEMMA FrameInvariance == FrameSpec => []FrameIInv
<1>1. FrameInit => FrameIInv
  <2> SUFFICES ASSUME FrameInit PROVE FrameIInv
    OBVIOUS
  <2>1. IInv
    BY CmdInitIInv DEF FrameInit
  <2>2. FrameTypeOK /\ FilesMade /\ FlagHonest /\ ScreenIsChosen
    BY <2>1 DEF FrameInit, IInv, FrameTypeOK, FilesMade, FlagHonest, ScreenIsChosen
  <2>3. CommandsOfThisRoot
    BY DEF FrameInit, CmdInit, EmptyList, CommandsOfThisRoot, OwnedBy, CmdsIn
  <2> QED BY <2>1, <2>2, <2>3 DEF FrameIInv
<1>2. FrameIInv /\ [FrameNext]_allVars => FrameIInv'
  <2> SUFFICES ASSUME FrameIInv, [FrameNext]_allVars PROVE FrameIInv'
    OBVIOUS
  <2>1. CASE UNCHANGED allVars
    <3> UNCHANGED cmdVars /\ UNCHANGED frameVars
      BY <2>1 DEF allVars
    <3>1. IInv'
      BY ListsAsBefore DEF cmdVars, FrameIInv, IInv, ListsTypeOK
    <3>2. ScreenInv' /\ CommandsOfThisRoot'
      BY <3>1 DEF cmdVars, frameVars, FrameIInv, IInv, ScreenInv, FrameTypeOK,
                  FilesMade, FlagHonest, ScreenIsChosen, CommandsOfThisRoot
    <3> QED BY <3>1, <3>2 DEF FrameIInv, ScreenInv
  <2>2. ASSUME NEW d \in Doc, Step(d) PROVE FrameIInv'
    BY <2>2, StepKeeps
  <2>3. ASSUME NEW d \in Doc, NEW c \in Cmd, Edit(d, c) PROVE FrameIInv'
    BY <2>3, EditKeeps
  <2>4. ASSUME NEW f \in Files, Save(f) PROVE FrameIInv'
    BY <2>4, SaveKeeps
  <2>5. ASSUME NEW s \in Space, ChooseSpace(s) \/ CancelChoice(s) PROVE FrameIInv'
    BY <2>5, LoadKeeps, CancelKeeps DEF ChooseSpace
  <2>6. CASE OpenSpaces
    BY <2>6, OpenSpacesKeeps
  <2>7. CASE Close
    BY <2>7, CloseKeeps
  <2> QED BY <2>1, <2>2, <2>3, <2>4, <2>5, <2>6, <2>7 DEF FrameNext, Files
<1> QED BY <1>1, <1>2, PTL DEF FrameSpec

\* Types, and: what is on the screen or in a list was made by some edit.
THEOREM SessionTypeOK == FrameSpec => []FrameTypeOK
BY FrameInvariance, PTL DEF FrameIInv

\* Once a space was loaded since the list of spaces was opened, SaveTrigger (also
\* when the program is closed) writes that space to its own file and no other file,
\* through loads, cancelled questions and failed writes.
THEOREM SessionSavesLoadedSpace == FrameSpec => SavesLoadedSpace
<1> DEFINE OwnFile == last # NoSpace => \A s \in Space : file'[s] # file[s] => s = chief
<1>1. ASSUME FrameIInv, NEW f \in Files, SaveTrigger(f)
      PROVE  OwnFile
  <2>1. last # NoSpace => chosen = chief
    BY <1>1 DEF FrameIInv, ScreenIsChosen
  <2>2. file' = [file EXCEPT ![chosen] = f] /\ file \in [Space -> Files]
    BY <1>1, SavedFiles DEF FrameIInv, FrameTypeOK, Files
  <2> QED BY <2>1, <2>2
<1>2. ASSUME FrameIInv, [FrameNext]_allVars
      PROVE  OwnFile \/ UNCHANGED allVars
  <2>1. CASE UNCHANGED file
    BY <2>1
  <2>2. ASSUME NEW f \in Files, Save(f) PROVE OwnFile
    BY <1>1, <1>2, <2>2 DEF Save
  <2>3. CASE Close
    BY <1>1, <1>2, <2>1, <2>3 DEF Close, Files
  <2> QED BY <1>2, <2>1, <2>2, <2>3 DEF FrameNext, Files, Step, Edit, ChooseSpace,
                LoadCurrentSpace, CancelChoice, OpenSpaces, allVars
<1>3. FrameIInv /\ [FrameNext]_allVars => [OwnFile]_allVars
  BY <1>2
<1> QED BY <1>3, FrameInvariance, PTL DEF FrameSpec, SavesLoadedSpace

\* No command of an undo list is about a root that was freed
\* (LoadCurrentSpace flushes the lists).
THEOREM SessionCommandsOfThisRoot == FrameSpec => []CommandsOfThisRoot
BY FrameInvariance, PTL DEF FrameIInv

\* While nothing is undone or redone and no write fails, a cleared flag means
\* that the file holds what the screen shows (SetFileChanged).
THEOREM SessionFlagHonest == FrameSpec => []FlagHonest
BY FrameInvariance, PTL DEF FrameIInv
=============================================================================
