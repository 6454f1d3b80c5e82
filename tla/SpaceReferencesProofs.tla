------------------------ MODULE SpaceReferencesProofs ------------------------
(***************************************************************************)
(* References between the nodes of a space, for any definitions,           *)
(* references and names.                                                   *)
(***************************************************************************)
EXTENDS SpaceReferences, TLAPS

USE ReferenceAssumption

-----------------------------------------------------------------------------
(* The inductive invariant.  Within an operation the references to some    *)
(* definitions, X, are not updated yet, and some references, U, were not   *)
(* checked.                                                                *)

RefNode ==
    [home : Def \cup {None}, hung : Def \cup {None}, def : Def \cup {None},
     name : Name \cup {NoName}, err : BOOLEAN]
Space ==
    [at : [Def -> {"new", "in", "out", "freed"}], group : {"in", "out", "freed"},
     name : [Def -> Name \cup {NoName}], ref : [Ref -> RefNode],
     refs : [Def -> SUBSET Ref], found : BOOLEAN]

SetsOK(b) == \A d \in Def, r \in Ref : r \in b.refs[d] <=> b.ref[r].def = d

RightName(b, d) == IF b.at[d] = "in" THEN b.name[d] ELSE NoName
BoundOK(b, X) ==
    \A r \in Ref : b.ref[r].def # None =>
        /\ ~Unborn(b, r) /\ b.at[b.ref[r].def] \in {"in", "out"}
        /\ b.ref[r].def \notin X => b.ref[r].name = RightName(b, b.ref[r].def)

\* A reference to a definition that was unlinked is marked.
MarkedOK(b, X) ==
    \A r \in Ref : b.ref[r].def # None /\ b.ref[r].def \notin X /\ b.at[b.ref[r].def] # "in"
                   => b.ref[r].err

\* So is one in the space that has no definition.
ShownOK(b, U) ==
    \A r \in Ref \ U : Attached(b, r) /\ b.ref[r].def = None => b.ref[r].err

Good(b, X, U) ==
    /\ b \in Space /\ SetsOK(b) /\ BoundOK(b, X) /\ MarkedOK(b, X) /\ ShownOK(b, U)

IInv ==
    /\ Good(sp, {}, unseen)
    /\ \A r \in Ref : WentWithGroup(sp, r) /\ ~sp.ref[r].err => r \in unseen

-----------------------------------------------------------------------------
(* The operators the operations are made of. *)

LEMMA SpaceParts ==
    ASSUME NEW b \in Space
    PROVE  /\ b.at \in [Def -> {"new", "in", "out", "freed"}]
           /\ b.group \in {"in", "out", "freed"}
           /\ b.name \in [Def -> Name \cup {NoName}] /\ b.ref \in [Ref -> RefNode]
           /\ b.refs \in [Def -> SUBSET Ref] /\ b.found \in BOOLEAN
           /\ \A r \in Ref : /\ b.ref[r] \in RefNode
                             /\ b.ref[r].home \in Def \cup {None}
                             /\ b.ref[r].hung \in Def \cup {None}
                             /\ b.ref[r].def \in Def \cup {None}
                             /\ b.ref[r].name \in Name \cup {NoName}
                             /\ b.ref[r].err \in BOOLEAN
BY DEF Space, RefNode

LEMMA GoodWeakens ==
    ASSUME NEW b, NEW X, NEW Y, NEW U, NEW V, Good(b, X, U), X \subseteq Y, U \subseteq V
    PROVE  Good(b, Y, V)
BY DEF Good, BoundOK, MarkedOK, ShownOK

\* The tree and the names stay.
SameTree(b, c) == c.at = b.at /\ c.group = b.group /\ c.name = b.name
SamePlace(b, c, r) == c.ref[r].home = b.ref[r].home /\ c.ref[r].hung = b.ref[r].hung

LEMMA SameTreeMeans ==
    ASSUME NEW b, NEW c, SameTree(b, c)
    PROVE  /\ \A d : InSpace(c, d) <=> InSpace(b, d)
           /\ \A r : SamePlace(b, c, r) => /\ Attached(c, r) <=> Attached(b, r)
                                           /\ Unborn(c, r) <=> Unborn(b, r)
           /\ \A d : RightName(c, d) = RightName(b, d)
BY DEF SameTree, SamePlace, InSpace, Attached, Unborn, RightName

LEMMA DefinedEffect ==
    ASSUME NEW b \in Space, NEW R \in SUBSET Ref, NEW to \in [R -> Def \cup {None}]
    PROVE  LET c == Defined(b, R, to) IN
           /\ c \in Space /\ SameTree(b, c) /\ c.found = b.found
           /\ \A r \in Ref : SamePlace(b, c, r) /\ c.ref[r].err = b.ref[r].err
           /\ \A r \in Ref \ R : c.ref[r] = b.ref[r]
           /\ \A r \in R : /\ c.ref[r].def = to[r]
                           /\ c.ref[r].name = IF to[r] = None THEN b.ref[r].name
                                              ELSE b.name[to[r]]
           /\ \A d \in Def : c.refs[d] = (b.refs[d] \ R) \cup {r \in R : to[r] = d}
<1> DEFINE New(r) == [b.ref[r] EXCEPT !.def = to[r],
                                      !.name = IF to[r] = None THEN b.ref[r].name
                                               ELSE b.name[to[r]]]
           f == [r \in Ref |-> IF r \in R THEN New(r) ELSE b.ref[r]]
           S == [d \in Def |-> (b.refs[d] \ R) \cup {r \in R : to[r] = d}]
           c == Defined(b, R, to)
<1>1. \A r \in R : r \in Ref /\ to[r] \in Def \cup {None}
  OBVIOUS
<1>2. ASSUME NEW r \in R
      PROVE  /\ New(r) \in RefNode /\ New(r).def = to[r]
             /\ New(r).name = IF to[r] = None THEN b.ref[r].name ELSE b.name[to[r]]
             /\ New(r).home = b.ref[r].home /\ New(r).hung = b.ref[r].hung
             /\ New(r).err = b.ref[r].err
  <2> DEFINE n == IF to[r] = None THEN b.ref[r].name ELSE b.name[to[r]]
  <2>1. n \in Name \cup {NoName}
    BY <1>1, SpaceParts
  <2>2. New(r) = [b.ref[r] EXCEPT !.def = to[r], !.name = n]
    BY <1>1, SpaceParts DEF RefNode
  <2> HIDE DEF n
  <2>3. b.ref[r] \in RefNode
    BY <1>1, SpaceParts
  <2>4. /\ New(r) \in RefNode /\ New(r).def = to[r] /\ New(r).name = n
        /\ New(r).home = b.ref[r].home /\ New(r).hung = b.ref[r].hung
        /\ New(r).err = b.ref[r].err
    BY <1>1, <2>1, <2>2, <2>3 DEF RefNode
  <2> QED BY <2>4 DEF n
<1>3. c = [b EXCEPT !.ref = f, !.refs = S]
  BY DEF Defined
<1> HIDE DEF New
<1>4. f \in [Ref -> RefNode] /\ S \in [Def -> SUBSET Ref]
  BY <1>1, <1>2, SpaceParts
<1>5. /\ \A r \in R : f[r] = New(r)
      /\ \A r \in Ref \ R : f[r] = b.ref[r]
      /\ \A d \in Def : S[d] = (b.refs[d] \ R) \cup {r \in R : to[r] = d}
  BY <1>1
<1> HIDE DEF f, S, c
<1>6. c \in Space /\ c.ref = f /\ c.refs = S /\ SameTree(b, c) /\ c.found = b.found
  BY <1>3, <1>4 DEF Space, SameTree
<1>7. \A r \in Ref : SamePlace(b, c, r) /\ c.ref[r].err = b.ref[r].err
  BY <1>2, <1>5, <1>6 DEF SamePlace
<1> QED BY <1>2, <1>5, <1>6, <1>7 DEF c

\* What does not change what references are bound to.
LEMMA CheckedEffect ==
    ASSUME NEW b \in Space, NEW R
    PROVE  LET c == Checked(b, R) IN
           /\ c \in Space /\ SameTree(b, c) /\ c.refs = b.refs /\ c.found = b.found
           /\ \A r \in Ref : /\ SamePlace(b, c, r) /\ c.ref[r].def = b.ref[r].def
                             /\ c.ref[r].name = b.ref[r].name
                             /\ c.ref[r].err = IF r \in R THEN Wrong(b, r) ELSE b.ref[r].err
<1> DEFINE New(r) == [b.ref[r] EXCEPT !.err = Wrong(b, r)]
           f == [r \in Ref |-> IF r \in R THEN New(r) ELSE b.ref[r]]
           c == Checked(b, R)
<1>1. ASSUME NEW r \in Ref
      PROVE  /\ New(r) \in RefNode /\ New(r).def = b.ref[r].def
             /\ New(r).name = b.ref[r].name /\ New(r).err = Wrong(b, r)
             /\ New(r).home = b.ref[r].home /\ New(r).hung = b.ref[r].hung
  <2> DEFINE e == Wrong(b, r)
  <2>1. e \in BOOLEAN /\ New(r) = [b.ref[r] EXCEPT !.err = e]
    BY DEF Wrong
  <2> HIDE DEF e, New
  <2>2. b.ref[r] \in RefNode
    BY SpaceParts
  <2>3. /\ New(r) \in RefNode /\ New(r).def = b.ref[r].def
        /\ New(r).name = b.ref[r].name /\ New(r).err = e
        /\ New(r).home = b.ref[r].home /\ New(r).hung = b.ref[r].hung
    BY <2>1, <2>2 DEF RefNode
  <2> QED BY <2>3 DEF e
<1>2. c = [b EXCEPT !.ref = f]
  BY DEF Checked, Space
<1> HIDE DEF New
<1>3. f \in [Ref -> RefNode]
  BY <1>1, SpaceParts
<1>4. \A r \in Ref : f[r] = IF r \in R THEN New(r) ELSE b.ref[r]
  OBVIOUS
<1> HIDE DEF f, c
<1>5. c \in Space /\ c.ref = f /\ SameTree(b, c) /\ c.refs = b.refs /\ c.found = b.found
  BY <1>2, <1>3 DEF Space, SameTree
<1> QED BY <1>1, <1>4, <1>5 DEF SamePlace, c

LEMMA CheckedGood ==
    ASSUME NEW b, NEW X, NEW U, NEW R, Good(b, X, U \cup R)
    PROVE  Good(Checked(b, R), X, U)
<1> DEFINE c == Checked(b, R)
<1>1. /\ b \in Space /\ c \in Space /\ SameTree(b, c) /\ c.refs = b.refs
      /\ \A r \in Ref : /\ SamePlace(b, c, r) /\ c.ref[r].def = b.ref[r].def
                        /\ c.ref[r].name = b.ref[r].name
                        /\ c.ref[r].err = IF r \in R THEN Wrong(b, r) ELSE b.ref[r].err
  BY CheckedEffect DEF Good
<1> HIDE DEF c
<1>2. /\ \A r \in Ref : /\ Attached(c, r) <=> Attached(b, r)
                        /\ Unborn(c, r) <=> Unborn(b, r)
      /\ \A d : RightName(c, d) = RightName(b, d)
      /\ c.at = b.at
  BY <1>1, SameTreeMeans DEF SameTree
<1>3. SetsOK(c)
  BY <1>1 DEF Good, SetsOK
<1>4. BoundOK(c, X)
  BY <1>1, <1>2 DEF Good, BoundOK
<1>5. MarkedOK(c, X)
  BY <1>1, <1>2 DEF Good, MarkedOK, Wrong
<1>6. ShownOK(c, U)
  BY <1>1, <1>2 DEF Good, ShownOK, Wrong
<1> QED BY <1>1, <1>3, <1>4, <1>5, <1>6 DEF Good, c

LEMMA UpdatedGood ==
    ASSUME NEW b, NEW X, NEW U, NEW d \in Def, Good(b, X, U), b.at[d] \in {"in", "out"}
    PROVE  Good(Updated(b, d), X \ {d}, U)
<1> DEFINE n == RightName(b, d)
           New(r) == [b.ref[r] EXCEPT !.name = n]
           R == b.refs[d]
           f == [r \in Ref |-> IF r \in R THEN New(r) ELSE b.ref[r]]
           c == [b EXCEPT !.ref = f]
           e == Checked(c, R)
<1>1. b \in Space /\ n \in Name \cup {NoName} /\ R \subseteq Ref
  BY SpaceParts DEF Good, RightName
<1>2. Updated(b, d) = e
  BY <1>1 DEF Updated, RightName, Space
<1> HIDE DEF n
<1>3. ASSUME NEW r \in Ref
      PROVE  /\ New(r) \in RefNode /\ New(r).def = b.ref[r].def /\ New(r).name = n
             /\ New(r).home = b.ref[r].home /\ New(r).hung = b.ref[r].hung
             /\ New(r).err = b.ref[r].err
  <2>1. b.ref[r] \in RefNode
    BY <1>1, SpaceParts
  <2> QED BY <1>1, <2>1 DEF RefNode
<1> HIDE DEF New
<1>4. f \in [Ref -> RefNode]
  BY <1>1, <1>3, SpaceParts
<1>5. \A r \in Ref : f[r] = IF r \in R THEN New(r) ELSE b.ref[r]
  OBVIOUS
<1> HIDE DEF f, R
<1>6. c \in Space /\ SameTree(b, c) /\ c.refs = b.refs /\ c.ref = f
  BY <1>1, <1>4 DEF Space, SameTree
<1> HIDE DEF c
<1>7. \A r \in Ref : /\ SamePlace(b, c, r) /\ c.ref[r].def = b.ref[r].def
                     /\ c.ref[r].err = b.ref[r].err
                     /\ c.ref[r].name = IF r \in R THEN n ELSE b.ref[r].name
  BY <1>3, <1>5, <1>6 DEF SamePlace
<1>8. /\ e \in Space /\ SameTree(c, e) /\ e.refs = c.refs
      /\ \A r \in Ref : /\ SamePlace(c, e, r) /\ e.ref[r].def = c.ref[r].def
                        /\ e.ref[r].name = c.ref[r].name
                        /\ e.ref[r].err = IF r \in R THEN Wrong(c, r) ELSE c.ref[r].err
  BY <1>6, CheckedEffect
<1> HIDE DEF e
<1>9. SameTree(b, e) /\ \A r \in Ref : SamePlace(b, e, r)
  BY <1>6, <1>7, <1>8 DEF SameTree, SamePlace
<1>10. /\ \A r \in Ref : /\ Attached(e, r) <=> Attached(b, r)
                         /\ Unborn(e, r) <=> Unborn(b, r)
       /\ \A x : RightName(e, x) = RightName(b, x)
       /\ e.at = b.at /\ c.at = b.at
  BY <1>6, <1>9, SameTreeMeans DEF SameTree
<1>11. \A r \in Ref : r \in R <=> b.ref[r].def = d
  BY DEF Good, SetsOK, R
<1>12. SetsOK(e)
  BY <1>6, <1>7, <1>8 DEF Good, SetsOK
<1>13. BoundOK(e, X \ {d})
  BY <1>7, <1>8, <1>10, <1>11 DEF Good, BoundOK, n
<1>14. MarkedOK(e, X \ {d})
  <2>1. \A r \in R : e.ref[r].def # None /\ e.at[e.ref[r].def] # "in" => e.ref[r].err
    BY <1>7, <1>8, <1>10, <1>11 DEF Wrong, R, Good, Space
  <2>2. \A r \in Ref \ R : e.ref[r].def # d
    BY <1>7, <1>8, <1>11
  <2>3. \A r \in Ref \ R : e.ref[r].def # None /\ e.ref[r].def \notin X
                           /\ e.at[e.ref[r].def] # "in" => e.ref[r].err
    BY <1>7, <1>8, <1>10 DEF Good, MarkedOK
  <2> QED BY <2>1, <2>2, <2>3 DEF MarkedOK
<1>15. ShownOK(e, U)
  <2>1. \A r \in R : e.ref[r].def # None
    BY <1>1, <1>7, <1>8, <1>11 DEF R
  <2> QED BY <1>7, <1>8, <1>10, <2>1 DEF Good, ShownOK
<1> QED BY <1>2, <1>8, <1>12, <1>13, <1>14, <1>15 DEF Good

LEMMA UpdatedTree ==
    ASSUME NEW b \in Space, NEW d \in Def
    PROVE  SameTree(b, Updated(b, d))
BY DEF Updated, Checked, SameTree, Space

\* Which definition a name finds.
LEMMA FoundInSpace ==
    ASSUME NEW b, NEW r \in Ref
    PROVE  Found(b, r) # None => Found(b, r) \in Def /\ InSpace(b, Found(b, r))
<1> DEFINE D == {d \in Kin(r) : InSpace(b, d) /\ b.name[d] = b.ref[r].name}
<1>1. CASE D = {}
  BY <1>1 DEF Found
<1>2. CASE D # {}
  <2>1. Found(b, r) \in D
    BY <1>2 DEF Found
  <2> QED BY <2>1 DEF Kin, Def
<1> QED BY <1>1, <1>2

LEMMA PostLoadedGood ==
    ASSUME NEW b, NEW X, NEW U, NEW R \in SUBSET Ref, Good(b, X, U),
           \A r \in R : ~Unborn(b, r)
    PROVE  LET c == PostLoaded(b, R) IN
           /\ Good(c, X, U \cup R) /\ SameTree(b, c)
           /\ \A r \in Ref : SamePlace(b, c, r)
<1> DEFINE to == [r \in R |-> Found(b, r)]
           a == Defined(b, R, to)
           ok == a.found /\ \A r \in R : Found(b, r) # None
           c == [a EXCEPT !.found = ok]
<1>1. b \in Space /\ \A r \in R : r \in Ref /\ to[r] = Found(b, r)
  BY DEF Good
<1>2. \A r \in R : /\ to[r] \in Def \cup {None}
                   /\ to[r] # None => b.at[to[r]] = "in"
  BY <1>1, FoundInSpace DEF InSpace
<1>3. to \in [R -> Def \cup {None}]
  BY <1>2
<1>4. PostLoaded(b, R) = c
  BY DEF PostLoaded
<1> HIDE DEF to
<1>5. /\ a \in Space /\ SameTree(b, a)
      /\ \A r \in Ref : SamePlace(b, a, r) /\ a.ref[r].err = b.ref[r].err
      /\ \A r \in Ref \ R : a.ref[r] = b.ref[r]
      /\ \A r \in R : /\ a.ref[r].def = to[r]
                      /\ a.ref[r].name = IF to[r] = None THEN b.ref[r].name ELSE b.name[to[r]]
      /\ \A d \in Def : a.refs[d] = (b.refs[d] \ R) \cup {r \in R : to[r] = d}
  BY <1>1, <1>3, DefinedEffect
<1>6. ok \in BOOLEAN
  BY <1>5, SpaceParts
<1> HIDE DEF a, ok
<1>7. c \in Space /\ c.ref = a.ref /\ c.refs = a.refs /\ SameTree(a, c)
  BY <1>5, <1>6 DEF Space, SameTree
<1> HIDE DEF c
<1>8. SameTree(b, c) /\ \A r \in Ref : SamePlace(b, c, r)
  BY <1>5, <1>7 DEF SameTree, SamePlace
<1>9. /\ \A r \in Ref : /\ Attached(c, r) <=> Attached(b, r)
                        /\ Unborn(c, r) <=> Unborn(b, r)
      /\ \A x : RightName(c, x) = RightName(b, x)
      /\ c.at = b.at /\ c.name = b.name
  BY <1>8, SameTreeMeans DEF SameTree
<1>10. SetsOK(c)
  BY <1>1, <1>5, <1>7 DEF Good, SetsOK
<1>11. BoundOK(c, X)
  <2>1. \A r \in R : c.ref[r].def # None =>
            /\ ~Unborn(c, r) /\ c.at[c.ref[r].def] = "in"
            /\ c.ref[r].name = RightName(c, c.ref[r].def)
    BY <1>1, <1>2, <1>5, <1>7, <1>9 DEF RightName
  <2>2. \A r \in Ref \ R : c.ref[r] = b.ref[r]
    BY <1>5, <1>7
  <2> QED BY <1>9, <2>1, <2>2 DEF Good, BoundOK
<1>12. MarkedOK(c, X)
  BY <1>1, <1>2, <1>5, <1>7, <1>9 DEF Good, MarkedOK
<1>13. ShownOK(c, U \cup R)
  BY <1>5, <1>7, <1>9 DEF Good, ShownOK
<1> QED BY <1>4, <1>7, <1>8, <1>10, <1>11, <1>12, <1>13 DEF Good
LEMMA NoneDefined ==
    ASSUME NEW b, NEW X, NEW U, NEW R \in SUBSET Ref, Good(b, X, U),
           \A r \in R : r \in U \/ b.ref[r].err \/ ~Attached(b, r)
    PROVE  LET c == Defined(b, R, [r \in R |-> None]) IN
           /\ Good(c, X, U) /\ SameTree(b, c)
           /\ \A r \in R : c.ref[r].def = None
           /\ \A r \in Ref \ R : c.ref[r] = b.ref[r]
           /\ \A r \in Ref : SamePlace(b, c, r)
<1> DEFINE to == [r \in R |-> None]
           c == Defined(b, R, to)
<1>1. to \in [R -> Def \cup {None}] /\ b \in Space /\ \A r \in R : to[r] = None
  BY DEF Good
<1> HIDE DEF to
<1>2. /\ c \in Space /\ SameTree(b, c)
      /\ \A r \in Ref : SamePlace(b, c, r) /\ c.ref[r].err = b.ref[r].err
      /\ \A r \in Ref \ R : c.ref[r] = b.ref[r]
      /\ \A r \in R : c.ref[r].def = None
      /\ \A d \in Def : c.refs[d] = (b.refs[d] \ R) \cup {r \in R : to[r] = d}
  BY <1>1, DefinedEffect
<1> HIDE DEF c
<1>3. /\ \A r \in Ref : /\ Attached(c, r) <=> Attached(b, r)
                        /\ Unborn(c, r) <=> Unborn(b, r)
      /\ \A x : RightName(c, x) = RightName(b, x)
      /\ c.at = b.at
  BY <1>2, SameTreeMeans DEF SameTree
<1>4. \A d \in Def : c.refs[d] = b.refs[d] \ R
  BY <1>1, <1>2
<1>5. SetsOK(c)
  BY <1>2, <1>4 DEF Good, SetsOK
<1>6. BoundOK(c, X)
  BY <1>2, <1>3 DEF Good, BoundOK
<1>7. MarkedOK(c, X)
  BY <1>2, <1>3 DEF Good, MarkedOK
<1>8. ShownOK(c, U)
  BY <1>2, <1>3 DEF Good, ShownOK
<1> QED BY <1>2, <1>5, <1>6, <1>7, <1>8 DEF Good, c, to

LEMMA FreedRefsGood ==
    ASSUME NEW b, NEW X, NEW U, NEW R \in SUBSET Ref, Good(b, X, U)
    PROVE  LET c == FreedRefs(b, R) IN
           /\ Good(c, X, U) /\ SameTree(b, c)
           /\ \A r \in R : c.ref[r] = NewRef
           /\ \A r \in Ref \ R : c.ref[r] = b.ref[r]
<1> DEFINE to == [r \in R |-> None]
           a == Defined(b, R, to)
           f == [r \in Ref |-> IF r \in R THEN NewRef ELSE a.ref[r]]
           c == [a EXCEPT !.ref = f]
<1>1. FreedRefs(b, R) = c
  BY DEF FreedRefs
<1>2. to \in [R -> Def \cup {None}] /\ b \in Space /\ \A r \in R : to[r] = None
  BY DEF Good
<1> HIDE DEF to
<1>3. /\ a \in Space /\ SameTree(b, a)
      /\ \A r \in Ref \ R : a.ref[r] = b.ref[r]
      /\ \A d \in Def : a.refs[d] = (b.refs[d] \ R) \cup {r \in R : to[r] = d}
  BY <1>2, DefinedEffect
<1> HIDE DEF a
<1>4. NewRef \in RefNode
  BY DEF NewRef, RefNode
<1>5. f \in [Ref -> RefNode] /\ \A r \in Ref : f[r] = IF r \in R THEN NewRef ELSE a.ref[r]
  BY <1>3, <1>4, SpaceParts
<1> HIDE DEF f
<1>6. c \in Space /\ c.ref = f /\ c.refs = a.refs /\ SameTree(a, c)
  BY <1>3, <1>5 DEF Space, SameTree
<1> HIDE DEF c
<1>7. /\ SameTree(b, c) /\ \A r \in R : c.ref[r] = NewRef
      /\ \A r \in Ref \ R : c.ref[r] = b.ref[r]
      /\ \A d \in Def : c.refs[d] = b.refs[d] \ R
  BY <1>2, <1>3, <1>5, <1>6 DEF SameTree
<1>8. \A r \in R : c.ref[r].def = None /\ ~Attached(c, r)
  BY <1>7 DEF NewRef, Attached
<1>9. /\ \A r \in Ref \ R : /\ Attached(c, r) <=> Attached(b, r)
                            /\ Unborn(c, r) <=> Unborn(b, r)
      /\ \A x : RightName(c, x) = RightName(b, x)
      /\ c.at = b.at
  BY <1>7, SameTreeMeans DEF SameTree, SamePlace
<1>10. SetsOK(c)
  BY <1>7, <1>8 DEF Good, SetsOK
<1>11. BoundOK(c, X)
  BY <1>7, <1>8, <1>9 DEF Good, BoundOK
<1>12. MarkedOK(c, X)
  BY <1>7, <1>8, <1>9 DEF Good, MarkedOK
<1>13. ShownOK(c, U)
  BY <1>7, <1>8, <1>9 DEF Good, ShownOK
<1> QED BY <1>1, <1>6, <1>7, <1>10, <1>11, <1>12, <1>13 DEF Good

LEMMA FreedDefsGood ==
    ASSUME NEW b, NEW U, NEW D \in SUBSET Def, Good(b, {}, U),
           \A r \in Ref : b.ref[r].def \in D => r \in U \/ b.ref[r].err
    PROVE  LET c == FreedDefs(b, D) IN
           /\ Good(c, {}, U) /\ c.group = b.group
<1> DEFINE out == UNION {b.refs[d] : d \in D}
           a == Defined(b, out, [r \in out |-> None])
           R == Inside(b, D)
           e == FreedRefs(a, R)
           f == [d \in Def |-> IF d \in D THEN "freed" ELSE e.at[d]]
           c == [e EXCEPT !.at = f]
<1>1. b \in Space /\ out \in SUBSET Ref /\ R \in SUBSET Ref
  BY SpaceParts DEF Good, Inside
<1>2. \A r \in Ref : r \in out <=> b.ref[r].def \in D
  BY DEF Good, SetsOK
<1>3. FreedDefs(b, D) = c
  BY DEF FreedDefs
<1> HIDE DEF out
<1>4. /\ Good(a, {}, U) /\ SameTree(b, a)
      /\ \A r \in out : a.ref[r].def = None
      /\ \A r \in Ref \ out : a.ref[r] = b.ref[r]
      /\ \A r \in Ref : SamePlace(b, a, r)
  BY <1>1, <1>2, NoneDefined
<1> HIDE DEF a
<1>5. /\ Good(e, {}, U) /\ SameTree(a, e)
      /\ \A r \in R : e.ref[r] = NewRef
      /\ \A r \in Ref \ R : e.ref[r] = a.ref[r]
  BY <1>1, <1>4, FreedRefsGood
<1> HIDE DEF e
<1>6. e \in Space /\ \A r \in Ref : e.ref[r].def \notin D
  <2>1. \A r \in R : e.ref[r].def = None
    BY <1>5 DEF NewRef
  <2>2. \A r \in Ref \ R : e.ref[r].def \notin D
    BY <1>2, <1>4, <1>5
  <2> QED BY <1>5, <2>1, <2>2 DEF Good
<1>7. \A r \in Ref : e.ref[r].home \notin D
  <2>1. \A r \in R : e.ref[r].home = None
    BY <1>5 DEF NewRef
  <2>2. \A r \in Ref \ R : e.ref[r].home = b.ref[r].home /\ b.ref[r].home \notin D
    BY <1>4, <1>5 DEF SamePlace, R, Inside
  <2> QED BY <2>1, <2>2
<1>8. /\ f \in [Def -> {"new", "in", "out", "freed"}]
      /\ \A d \in Def : f[d] = IF d \in D THEN "freed" ELSE e.at[d]
  BY <1>6, SpaceParts
<1> HIDE DEF f, R
<1>9. /\ c \in Space /\ c.at = f /\ c.ref = e.ref /\ c.refs = e.refs /\ c.name = e.name
      /\ c.group = e.group
  BY <1>6, <1>8 DEF Space
<1> HIDE DEF c
<1>10. \A r \in Ref : /\ Unborn(c, r) <=> Unborn(e, r)
                      /\ Attached(c, r) => Attached(e, r)
  <2>1. \A r \in Ref : Unborn(c, r) <=> Unborn(e, r)
    BY <1>9 DEF Unborn
  <2>2. ASSUME NEW r \in Ref, Attached(c, r) PROVE Attached(e, r)
    <3>1. c.ref[r].home \in Def \ D /\ c.ref[r].home = e.ref[r].home
      BY <1>6, <1>7, <1>9, <2>2, SpaceParts DEF Attached
    <3>2. f[c.ref[r].home] = e.at[c.ref[r].home]
      BY <1>8, <3>1
    <3> QED BY <1>9, <2>2, <3>1, <3>2 DEF Attached, InSpace
  <2> QED BY <2>1, <2>2
<1>11. \A r \in Ref : e.ref[r].def # None => /\ c.at[e.ref[r].def] = e.at[e.ref[r].def]
                                             /\ RightName(c, e.ref[r].def) = RightName(e, e.ref[r].def)
  <2> SUFFICES ASSUME NEW r \in Ref, e.ref[r].def # None
               PROVE  /\ c.at[e.ref[r].def] = e.at[e.ref[r].def]
                      /\ RightName(c, e.ref[r].def) = RightName(e, e.ref[r].def)
    OBVIOUS
  <2>1. e.ref[r].def \in Def \ D
    BY <1>6, SpaceParts
  <2>2. c.at[e.ref[r].def] = e.at[e.ref[r].def]
    BY <1>8, <1>9, <2>1
  <2> QED BY <1>9, <2>2 DEF RightName
<1>12. SetsOK(c)
  BY <1>5, <1>9 DEF Good, SetsOK
<1>13. BoundOK(c, {})
  BY <1>5, <1>9, <1>10, <1>11 DEF Good, BoundOK
<1>14. MarkedOK(c, {})
  BY <1>5, <1>9, <1>11 DEF Good, MarkedOK
<1>15. ShownOK(c, U)
  BY <1>5, <1>9, <1>10 DEF Good, ShownOK
<1>16. c.group = b.group
  BY <1>4, <1>5, <1>9 DEF SameTree
<1> QED BY <1>3, <1>9, <1>12, <1>13, <1>14, <1>15, <1>16 DEF Good

LEMMA ListsGoneGood ==
    ASSUME NEW b, NEW X, NEW U, NEW D, Good(b, X, U)
    PROVE  Good(ListsGone(b, D), X, U) /\ SameTree(b, ListsGone(b, D))
BY FreedRefsGood DEF ListsGone

\* A definition enters or leaves the tree, the group likewise: the definitions
\* whose references no longer have the right name, and the references that come
\* into the space.
LEMMA TreeChanges ==
    ASSUME NEW b, NEW c, NEW X, NEW Y, NEW U, NEW V, Good(b, X, U), c \in Space,
           c.ref = b.ref, c.refs = b.refs, X \subseteq Y, U \subseteq V,
           \A d \in Def \ Y : c.at[d] = b.at[d] /\ c.name[d] = b.name[d],
           \A r \in Ref : b.ref[r].def \in Y => c.at[b.ref[r].def] \in {"in", "out"},
           \A r \in Ref \ V : Attached(c, r) => Attached(b, r)
    PROVE  Good(c, Y, V)
<1>1. b \in Space /\ SetsOK(c) /\ \A r \in Ref : Unborn(c, r) <=> Unborn(b, r)
  BY DEF Good, SetsOK, Unborn
<1>2. \A d \in Def \ Y : RightName(c, d) = RightName(b, d)
  BY DEF RightName
<1>3. \A r \in Ref : b.ref[r].def # None => b.ref[r].def \in Def
  BY <1>1, SpaceParts
<1>4. BoundOK(c, Y)
  BY <1>1, <1>2, <1>3 DEF Good, BoundOK
<1>5. MarkedOK(c, Y)
  BY <1>3 DEF Good, MarkedOK
<1>6. ShownOK(c, V)
  BY DEF Good, ShownOK
<1> QED BY <1>1, <1>4, <1>5, <1>6 DEF Good

LEMMA RemoveItemNodeGood ==
    ASSUME NEW b, NEW U, NEW d \in Def, Good(b, {}, U), InSpace(b, d)
    PROVE  LET c == RemoveItemNode(b, d) IN
           /\ Good(c, {}, U) /\ c.at[d] = "out" /\ c.group = b.group /\ c.name = b.name
<1> DEFINE out == [b EXCEPT !.at[d] = "out"]
           D == {e \in Siblings(b, d) : InSpace(out, e)}
           R == Inside(out, D)
           e == Checked(out, R)
           g == ListsGone(e, {d})
           c == Updated(g, d)
<1>1. RemoveItemNode(b, d) = c
  BY DEF RemoveItemNode
<1>2. b \in Space /\ b.at \in [Def -> {"new", "in", "out", "freed"}]
  BY SpaceParts DEF Good
<1>3. /\ out \in Space /\ out.ref = b.ref /\ out.refs = b.refs /\ out.name = b.name
      /\ out.group = b.group /\ out.at[d] = "out"
      /\ \A i \in Def \ {d} : out.at[i] = b.at[i]
  BY <1>2 DEF Space
<1> HIDE DEF out, D, R
<1>4. \A r \in Ref : Attached(out, r) => Attached(b, r)
  <2> SUFFICES ASSUME NEW r \in Ref, Attached(out, r) PROVE Attached(b, r)
    OBVIOUS
  <2>1. out.ref[r].home \in Def \ {d}
    BY <1>3, SpaceParts DEF Attached, InSpace
  <2> QED BY <1>3, <2>1 DEF Attached, InSpace
<1>5. Good(out, {d}, U)
  BY <1>3, <1>4, TreeChanges
<1>6. Good(e, {d}, U) /\ SameTree(out, e)
  <2>1. Good(out, {d}, U \cup R)
    BY <1>5, GoodWeakens
  <2> QED BY <1>3, <2>1, CheckedGood, CheckedEffect
<1> HIDE DEF e
<1>7. Good(g, {d}, U) /\ SameTree(e, g)
  BY <1>6, ListsGoneGood
<1> HIDE DEF g
<1>8. g.at[d] = "out" /\ g.group = b.group /\ g.name = b.name
  BY <1>3, <1>6, <1>7 DEF SameTree
<1>9. Good(c, {d} \ {d}, U)
  BY <1>7, <1>8, UpdatedGood
<1>10. c.at = g.at /\ c.group = g.group /\ c.name = g.name
  BY <1>7, UpdatedTree DEF Good, SameTree
<1> HIDE DEF c
<1>11. {d} \ {d} = {}
  OBVIOUS
<1> QED BY <1>1, <1>8, <1>9, <1>10, <1>11

LEMMA AddNodeItemGood ==
    ASSUME NEW b, NEW U, NEW d \in Def, Good(b, {d}, U), b.at[d] \in {"new", "out"}
    PROVE  Good(AddNodeItem(b, d), {}, U)
<1> DEFINE in == [b EXCEPT !.at[d] = "in"]
           R == Inside(in, {d})
           e == PostLoaded(in, R)
           g == Checked(e, R)
           c == Updated(g, d)
<1>1. AddNodeItem(b, d) = c
  BY DEF AddNodeItem
<1>2. b \in Space /\ b.at \in [Def -> {"new", "in", "out", "freed"}]
  BY SpaceParts DEF Good
<1>3. /\ in \in Space /\ in.ref = b.ref /\ in.refs = b.refs /\ in.name = b.name
      /\ in.group = b.group /\ in.at[d] = "in"
      /\ \A i \in Def \ {d} : in.at[i] = b.at[i]
  BY <1>2 DEF Space
<1> HIDE DEF in
<1>4. R \in SUBSET Ref /\ \A r \in R : ~Unborn(in, r)
  BY DEF Inside, Unborn
<1>5. \A r \in Ref \ (U \cup R) : Attached(in, r) => Attached(b, r)
  <2> SUFFICES ASSUME NEW r \in Ref \ (U \cup R), Attached(in, r) PROVE Attached(b, r)
    OBVIOUS
  <2>1. in.ref[r].home \in Def \ {d}
    BY <1>3, SpaceParts DEF Attached, Inside
  <2> QED BY <1>3, <2>1 DEF Attached, InSpace
<1> HIDE DEF R
<1>6. Good(in, {d}, U \cup R)
  BY <1>3, <1>5, TreeChanges
<1>7. Good(e, {d}, (U \cup R) \cup R) /\ SameTree(in, e)
  BY <1>4, <1>6, PostLoadedGood
<1> HIDE DEF e
<1>8. Good(e, {d}, U \cup R)
  BY <1>7, GoodWeakens
<1>9. Good(g, {d}, U) /\ SameTree(e, g)
  BY <1>8, CheckedGood, CheckedEffect DEF Good
<1> HIDE DEF g
<1>10. g.at[d] = "in"
  BY <1>3, <1>7, <1>9 DEF SameTree
<1>11. Good(c, {d} \ {d}, U)
  BY <1>9, <1>10, UpdatedGood
<1> HIDE DEF c
<1>12. {d} \ {d} = {}
  OBVIOUS
<1> QED BY <1>1, <1>11, <1>12

LEMMA RemoveGroupGood ==
    ASSUME NEW b, NEW U, Good(b, {}, U), b.group = "in"
    PROVE  Good(RemoveGroup(b), {}, U)
<1> DEFINE out == [b EXCEPT !.group = "out"]
           R == Inside(out, {e \in Def : InSpace(out, e)})
           e == Checked(out, R)
           c == ListsGone(e, Trigger)
<1>1. RemoveGroup(b) = c
  BY DEF RemoveGroup
<1>2. /\ out \in Space /\ out.ref = b.ref /\ out.refs = b.refs /\ out.name = b.name
      /\ out.at = b.at /\ out.group = "out"
  BY DEF Good, Space
<1> HIDE DEF out, R
<1>3. \A r \in Ref : Attached(out, r) => Attached(b, r)
  BY <1>2 DEF Attached, InSpace
<1>4. Good(out, {}, U)
  BY <1>2, <1>3, TreeChanges
<1>5. Good(e, {}, U)
  BY <1>4, GoodWeakens, CheckedGood
<1> HIDE DEF e
<1> QED BY <1>1, <1>5, ListsGoneGood

LEMMA AddGroupGood ==
    ASSUME NEW b, NEW U, Good(b, {}, U), b.group = "out"
    PROVE  Good(AddGroup(b), {}, U)
<1> DEFINE in == [b EXCEPT !.group = "in"]
           R == Inside(in, {t \in Trigger : in.at[t] = "in"})
           e == PostLoaded(in, R)
           c == Checked(e, R)
<1>1. AddGroup(b) = c
  BY DEF AddGroup
<1>2. /\ in \in Space /\ in.ref = b.ref /\ in.refs = b.refs /\ in.name = b.name
      /\ in.at = b.at /\ in.group = "in"
  BY DEF Good, Space
<1> HIDE DEF in
<1>3. R \in SUBSET Ref /\ \A r \in R : ~Unborn(in, r)
  BY DEF Inside, Unborn, Def
<1>4. \A r \in Ref \ (U \cup R) : Attached(in, r) => Attached(b, r)
  BY <1>2 DEF Attached, InSpace, Inside
<1> HIDE DEF R
<1>5. Good(in, {}, U \cup R)
  BY <1>2, <1>4, TreeChanges
<1>6. Good(e, {}, (U \cup R) \cup R)
  BY <1>3, <1>5, PostLoadedGood
<1> HIDE DEF e
<1>7. Good(e, {}, U \cup R)
  BY <1>6, GoodWeakens
<1> QED BY <1>1, <1>7, CheckedGood
-----------------------------------------------------------------------------
(* The steps. *)

LEMMA BecomesKeeps ==
    ASSUME NEW b, Good(b, {}, unseen), Becomes(b)
    PROVE  IInv'
<1>1. /\ sp' = b
      /\ unseen' = {r \in unseen \cup {q \in Ref : WentWithGroup(b, q)} :
                       /\ ~Unborn(b, r) /\ ~b.ref[r].err
                       /\ (b.ref[r].def = None \/ WentWithGroup(b, r))}
  BY DEF Becomes
<1>2. \A r \in Ref : WentWithGroup(b, r) /\ ~b.ref[r].err => r \in unseen'
  <2> SUFFICES ASSUME NEW r \in Ref, WentWithGroup(b, r), ~b.ref[r].err PROVE r \in unseen'
    OBVIOUS
  <2>1. b.ref[r].def # None
    BY DEF WentWithGroup, Def
  <2>2. ~Unborn(b, r)
    BY <2>1 DEF Good, BoundOK
  <2> QED BY <1>1, <2>2
<1>3. ShownOK(b, unseen')
  <2> SUFFICES ASSUME NEW r \in Ref, r \notin unseen', Attached(b, r), b.ref[r].def = None
               PROVE  b.ref[r].err
    BY DEF ShownOK
  <2>1. ~Unborn(b, r)
    BY DEF Attached, Unborn
  <2>2. CASE r \in unseen
    BY <1>1, <2>1, <2>2
  <2>3. CASE r \notin unseen
    BY <2>3 DEF Good, ShownOK
  <2> QED BY <2>2, <2>3
<1>4. Good(b, {}, unseen')
  BY <1>3 DEF Good
<1> QED BY <1>1, <1>2, <1>4 DEF IInv

\* What a step finds.
LEMMA Before ==
    ASSUME IInv
    PROVE  /\ Good(sp, {}, unseen) /\ sp \in Space
           /\ \A d \in Def : Good(sp, {d}, unseen)
           /\ \A r \in Ref : Good(sp, {}, unseen \cup {r})
BY GoodWeakens DEF IInv, Good

LEMMA CreateKeeps ==
    ASSUME IInv, NEW d \in Def, NEW n \in Name, Create(d, n)
    PROVE  IInv'
<1> DEFINE b == [sp EXCEPT !.name[d] = n]
<1>1. sp.at[d] = "new" /\ Becomes(AddNodeItem(b, d))
  BY DEF Create
<1>2. Good(sp, {}, unseen) /\ sp \in Space
  BY Before
<1>3. /\ b \in Space /\ b.ref = sp.ref /\ b.refs = sp.refs /\ b.at = sp.at
      /\ b.group = sp.group /\ \A e \in Def \ {d} : b.name[e] = sp.name[e]
  BY <1>2, SpaceParts DEF Space
<1> HIDE DEF b
<1>4. \A r \in Ref : sp.ref[r].def \notin {d}
  BY <1>1, <1>2 DEF Good, BoundOK
<1>5. \A r \in Ref : Attached(b, r) => Attached(sp, r)
  BY <1>3 DEF Attached, InSpace
<1>6. Good(b, {d}, unseen)
  BY <1>2, <1>3, <1>4, <1>5, TreeChanges
<1> QED BY <1>1, <1>3, <1>6, AddNodeItemGood, BecomesKeeps

LEMMA DeleteKeeps ==
    ASSUME IInv, NEW d \in Def, Delete(d)
    PROVE  IInv'
BY Before, RemoveItemNodeGood, BecomesKeeps DEF Delete

LEMMA PutBackKeeps ==
    ASSUME IInv, NEW d \in Def, PutBack(d)
    PROVE  IInv'
BY Before, AddNodeItemGood, BecomesKeeps DEF PutBack

LEMMA MoveKeeps ==
    ASSUME IInv, NEW t \in Trigger, Move(t)
    PROVE  IInv'
<1> DEFINE b == RemoveItemNode(sp, t)
<1>1. t \in Def /\ InSpace(sp, t) /\ Becomes(AddNodeItem(b, t))
  BY DEF Move, Def
<1>2. Good(b, {}, unseen) /\ b.at[t] = "out"
  BY <1>1, Before, RemoveItemNodeGood
<1> HIDE DEF b
<1>3. Good(b, {t}, unseen)
  BY <1>2, GoodWeakens
<1> QED BY <1>1, <1>2, <1>3, AddNodeItemGood, BecomesKeeps

LEMMA RenameKeeps ==
    ASSUME IInv, NEW d \in Def, NEW n \in Name, Rename(d, n)
    PROVE  IInv'
<1> DEFINE b == [sp EXCEPT !.name[d] = n]
<1>1. sp.at[d] = "in" /\ Becomes(Updated(b, d))
  BY DEF Rename, InSpace
<1>2. Good(sp, {}, unseen) /\ sp \in Space
  BY Before
<1>3. /\ b \in Space /\ b.ref = sp.ref /\ b.refs = sp.refs /\ b.at = sp.at
      /\ b.group = sp.group /\ \A e \in Def \ {d} : b.name[e] = sp.name[e]
  BY <1>2, SpaceParts DEF Space
<1> HIDE DEF b
<1>4. \A r \in Ref : Attached(b, r) => Attached(sp, r)
  BY <1>3 DEF Attached, InSpace
<1>5. Good(b, {d}, unseen)
  BY <1>1, <1>2, <1>3, <1>4, TreeChanges
<1>6. Good(Updated(b, d), {d} \ {d}, unseen)
  BY <1>1, <1>3, <1>5, UpdatedGood
<1>7. {d} \ {d} = {}
  OBVIOUS
<1> QED BY <1>1, <1>6, <1>7, BecomesKeeps

LEMMA DestroyDefKeeps ==
    ASSUME IInv, NEW d \in Def, DestroyDef(d)
    PROVE  IInv'
<1>1. sp.at[d] = "out" /\ Becomes(FreedDefs(sp, {d}))
  BY DEF DestroyDef
<1>2. Good(sp, {}, unseen)
  BY Before
<1>3. \A r \in Ref : sp.ref[r].def \in {d} => sp.ref[r].err
  BY <1>1, <1>2 DEF Good, MarkedOK
<1>4. Good(FreedDefs(sp, {d}), {}, unseen)
  BY <1>2, <1>3, FreedDefsGood
<1> QED BY <1>1, <1>4, BecomesKeeps

LEMMA DestroyGroupKeeps ==
    ASSUME IInv, DestroyGroup
    PROVE  IInv'
<1> DEFINE D == {t \in Trigger : sp.at[t] = "in"}
           b == FreedDefs(sp, D)
           c == [b EXCEPT !.group = "freed"]
<1>1. sp.group = "out" /\ Becomes(c) /\ D \in SUBSET Def
  BY DEF DestroyGroup, Def
<1>2. Good(sp, {}, unseen)
  BY Before
<1>3. \A r \in Ref : sp.ref[r].def \in D => r \in unseen \/ sp.ref[r].err
  BY <1>1 DEF IInv, WentWithGroup
<1>4. Good(b, {}, unseen) /\ b.group = "out" /\ b \in Space
  BY <1>1, <1>2, <1>3, FreedDefsGood DEF Good
<1> HIDE DEF b
<1>5. /\ c \in Space /\ c.ref = b.ref /\ c.refs = b.refs /\ c.at = b.at /\ c.name = b.name
      /\ c.group = "freed"
  BY <1>4 DEF Space
<1> HIDE DEF c
<1>6. \A r \in Ref : Attached(c, r) => Attached(b, r)
  BY <1>4, <1>5 DEF Attached, InSpace
<1>7. Good(c, {}, unseen)
  BY <1>4, <1>5, <1>6, TreeChanges
<1> QED BY <1>1, <1>7, BecomesKeeps

\* A reference that was set under a definition is looked up and checked.
LEMMA InsertedGood ==
    ASSUME NEW b, NEW U, NEW r \in Ref, Good(b, {}, U \cup {r}), ~Unborn(b, r)
    PROVE  Good(Checked(PostLoaded(b, {r}), {r}), {}, U)
<1>1. Good(PostLoaded(b, {r}), {}, (U \cup {r}) \cup {r})
  BY PostLoadedGood
<1>2. Good(PostLoaded(b, {r}), {}, U \cup {r})
  BY <1>1, GoodWeakens
<1> QED BY <1>2, CheckedGood

\* Only the place, or the unbound name, of a reference changes.
LEMMA PlaceChanges ==
    ASSUME NEW b, NEW U, NEW V, NEW r \in Ref, NEW x \in RefNode, Good(b, {}, U), U \subseteq V,
           x.def = b.ref[r].def, x.err = b.ref[r].err,
           x.def # None => x.name = b.ref[r].name /\ (x.home # None \/ x.hung # None),
           r \in V \/ x.home = None
    PROVE  LET c == [b EXCEPT !.ref[r] = x] IN
           /\ Good(c, {}, V) /\ c.ref[r] = x /\ SameTree(b, c)
<1> DEFINE f == [b.ref EXCEPT ![r] = x]
           c == [b EXCEPT !.ref[r] = x]
<1>1. b \in Space
  BY DEF Good
<1>2. f \in [Ref -> RefNode] /\ f[r] = x /\ \A q \in Ref \ {r} : f[q] = b.ref[q]
  BY <1>1, SpaceParts
<1>3. c = [b EXCEPT !.ref = f]
  OBVIOUS
<1> HIDE DEF f, c
<1>4. /\ c \in Space /\ c.ref = f /\ c.refs = b.refs /\ SameTree(b, c)
  BY <1>1, <1>2, <1>3 DEF Space, SameTree
<1>5. /\ \A d : RightName(c, d) = RightName(b, d)
      /\ c.at = b.at
      /\ \A q \in Ref \ {r} : /\ Attached(c, q) <=> Attached(b, q)
                              /\ Unborn(c, q) <=> Unborn(b, q)
  BY <1>2, <1>4, SameTreeMeans DEF SameTree, SamePlace
<1>6. SetsOK(c)
  BY <1>2, <1>4 DEF Good, SetsOK
<1>7. BoundOK(c, {})
  <2>1. x.def # None => ~Unborn(c, r) /\ c.at[x.def] \in {"in", "out"} /\ x.name = RightName(c, x.def)
    BY <1>2, <1>4, <1>5 DEF Good, BoundOK, Unborn
  <2> QED BY <1>2, <1>4, <1>5, <2>1 DEF Good, BoundOK
<1>8. MarkedOK(c, {})
  BY <1>2, <1>4, <1>5 DEF Good, MarkedOK
<1>9. ShownOK(c, V)
  <2>1. r \in V \/ ~Attached(c, r)
    BY <1>2, <1>4 DEF Attached
  <2> QED BY <1>2, <1>4, <1>5, <2>1 DEF Good, ShownOK
<1> QED BY <1>2, <1>4, <1>6, <1>7, <1>8, <1>9 DEF Good, c

LEMMA InsertGood ==
    ASSUME NEW b, NEW U, NEW r \in Ref, NEW h \in Def, Good(b, {}, U \cup {r})
    PROVE  Good(Insert(b, r, h), {}, U)
<1> DEFINE x == [b.ref[r] EXCEPT !.home = h, !.hung = None]
           c == [b EXCEPT !.ref[r] = x]
<1>1. b \in Space /\ b.ref[r] \in RefNode
  BY SpaceParts DEF Good
<1>2. [b EXCEPT !.ref[r].home = h, !.ref[r].hung = None] = c
  BY <1>1 DEF Space
<1>3. /\ x \in RefNode /\ x.def = b.ref[r].def /\ x.err = b.ref[r].err
      /\ x.name = b.ref[r].name /\ x.home = h /\ h # None
  BY <1>1 DEF RefNode
<1> HIDE DEF x
<1>4. Good(c, {}, U \cup {r}) /\ c.ref[r] = x
  BY <1>3, PlaceChanges
<1> HIDE DEF c
<1>5. ~Unborn(c, r)
  BY <1>3, <1>4 DEF Unborn
<1> QED BY <1>2, <1>4, <1>5, InsertedGood DEF Insert

\* A reference that has no place yet has no definition.
LEMMA UnbornFree ==
    ASSUME NEW b, NEW U, Good(b, {}, U), NEW r \in Ref, Unborn(b, r)
    PROVE  /\ b.ref[r].def = None /\ ~Attached(b, r)
           /\ \A d \in Def : r \notin b.refs[d]
BY DEF Good, BoundOK, SetsOK, Unborn, Attached

LEMMA NewReferenceKeeps ==
    ASSUME IInv, NEW r \in Ref, NEW h \in Def, NEW d \in Def, NewReference(r, h, d)
    PROVE  IInv'
<1> DEFINE to == [q \in {r} |-> d]
           a == Defined(sp, {r}, to)
           x == [a.ref[r] EXCEPT !.home = h, !.hung = None]
           c == [a EXCEPT !.ref[r] = x]
<1>1. Unborn(sp, r) /\ sp.at[d] = "in" /\ Becomes(Insert(a, r, h))
  BY DEF NewReference, InSpace
<1>2. Good(sp, {}, unseen) /\ sp \in Space /\ h # None /\ d # None
  BY Before
<1>3. sp.ref[r].def = None /\ \A e \in Def : r \notin sp.refs[e]
  BY <1>1, <1>2, UnbornFree
<1>4. to \in [{r} -> Def \cup {None}] /\ {r} \in SUBSET Ref /\ to[r] = d
  OBVIOUS
<1> HIDE DEF to
<1>5. /\ a \in Space /\ SameTree(sp, a)
      /\ \A q \in Ref \ {r} : a.ref[q] = sp.ref[q]
      /\ a.ref[r].def = d /\ a.ref[r].name = sp.name[d]
      /\ \A e \in Def : a.refs[e] = (sp.refs[e] \ {r}) \cup {q \in {r} : to[q] = e}
  <2> DEFINE R == {r}
  <2>1. R \in SUBSET Ref /\ to \in [R -> Def \cup {None}]
    BY <1>4
  <2>2. a = Defined(sp, R, to)
    OBVIOUS
  <2> HIDE DEF R, a
  <2>3. /\ a \in Space /\ SameTree(sp, a)
        /\ \A q \in Ref \ R : a.ref[q] = sp.ref[q]
        /\ \A q \in R : /\ a.ref[q].def = to[q]
                        /\ a.ref[q].name = IF to[q] = None THEN sp.ref[q].name
                                           ELSE sp.name[to[q]]
        /\ \A e \in Def : a.refs[e] = (sp.refs[e] \ R) \cup {q \in R : to[q] = e}
    BY <1>2, <2>1, <2>2, DefinedEffect
  <2> QED BY <1>2, <1>4, <2>3 DEF R
<1> HIDE DEF a
<1>6. a \in Space /\ a.ref[r] \in RefNode
  BY <1>5, SpaceParts
<1>7. x \in RefNode /\ x.def = d /\ x.name = sp.name[d] /\ x.home = h
  BY <1>5, <1>6 DEF RefNode
<1>8. [a EXCEPT !.ref[r].home = h, !.ref[r].hung = None] = c
  BY <1>6 DEF Space
<1> HIDE DEF x
<1>9. /\ c \in Space /\ c.refs = a.refs /\ SameTree(a, c) /\ c.ref[r] = x
      /\ \A q \in Ref \ {r} : c.ref[q] = a.ref[q]
  BY <1>5, <1>7, SpaceParts DEF Space, SameTree
<1> HIDE DEF c
<1>10. SameTree(sp, c) /\ \A q \in Ref \ {r} : c.ref[q] = sp.ref[q]
  BY <1>5, <1>9 DEF SameTree
<1>11. /\ \A e : RightName(c, e) = RightName(sp, e)
       /\ c.at = sp.at /\ c.name = sp.name
       /\ \A q \in Ref \ {r} : /\ Attached(c, q) <=> Attached(sp, q)
                               /\ Unborn(c, q) <=> Unborn(sp, q)
  BY <1>10, SameTreeMeans DEF SameTree, SamePlace
<1>12. SetsOK(c)
  <2>1. \A e \in Def : c.refs[e] = sp.refs[e] \cup {q \in {r} : to[q] = e}
    BY <1>3, <1>5, <1>9
  <2> QED BY <1>2, <1>3, <1>4, <1>7, <1>9, <1>10, <2>1 DEF Good, SetsOK
<1>13. BoundOK(c, {})
  <2>1. ~Unborn(c, r) /\ c.at[d] \in {"in", "out"} /\ x.name = RightName(c, d)
    BY <1>1, <1>2, <1>7, <1>9, <1>11 DEF Unborn, RightName
  <2> QED BY <1>2, <1>7, <1>9, <1>10, <1>11, <2>1 DEF Good, BoundOK
<1>14. MarkedOK(c, {})
  BY <1>1, <1>2, <1>7, <1>9, <1>10, <1>11 DEF Good, MarkedOK
<1>15. ShownOK(c, unseen \cup {r})
  BY <1>2, <1>10, <1>11 DEF Good, ShownOK
<1>16. Good(c, {}, unseen \cup {r}) /\ ~Unborn(c, r)
  BY <1>2, <1>7, <1>9, <1>12, <1>13, <1>14, <1>15 DEF Good, Unborn
<1>17. Good(Insert(a, r, h), {}, unseen)
  BY <1>8, <1>16, InsertedGood DEF Insert
<1> QED BY <1>1, <1>17, BecomesKeeps

LEMMA PasteCopyKeeps ==
    ASSUME IInv, NEW r \in Ref, NEW h \in Def, NEW n \in Name \cup {NoName}, PasteCopy(r, h, n)
    PROVE  IInv'
<1> DEFINE x == [sp.ref[r] EXCEPT !.name = n]
           b == [sp EXCEPT !.ref[r] = x]
<1>1. Unborn(sp, r) /\ Becomes(Insert([sp EXCEPT !.ref[r].name = n], r, h))
  BY DEF PasteCopy
<1>2. Good(sp, {}, unseen) /\ sp \in Space /\ sp.ref[r] \in RefNode
  BY Before, SpaceParts
<1>3. sp.ref[r].def = None
  BY <1>1, <1>2, UnbornFree
<1>4. [sp EXCEPT !.ref[r].name = n] = b
  OBVIOUS
<1>5. x \in RefNode /\ x.def = None /\ x.err = sp.ref[r].err
  BY <1>2, <1>3 DEF RefNode
<1> HIDE DEF x
<1>6. Good(b, {}, unseen \cup {r})
  BY <1>2, <1>3, <1>5, PlaceChanges
<1> HIDE DEF b
<1> QED BY <1>1, <1>4, <1>6, InsertGood, BecomesKeeps

\* A statement is unlinked and hangs on its command.
LEMMA HungGood ==
    ASSUME NEW b, NEW U, NEW r \in Ref, Good(b, {}, U), NEW h \in Def, NEW R
    PROVE  Good(Checked([b EXCEPT !.ref[r].home = None, !.ref[r].hung = h], R), {}, U)
<1> DEFINE x == [b.ref[r] EXCEPT !.home = None, !.hung = h]
           c == [b EXCEPT !.ref[r] = x]
<1>1. b \in Space /\ b.ref[r] \in RefNode /\ h # None
  BY SpaceParts DEF Good
<1>2. [b EXCEPT !.ref[r].home = None, !.ref[r].hung = h] = c
  BY <1>1 DEF Space
<1>3. /\ x \in RefNode /\ x.def = b.ref[r].def /\ x.err = b.ref[r].err
      /\ x.name = b.ref[r].name /\ x.home = None /\ x.hung = h
  BY <1>1 DEF RefNode
<1> HIDE DEF x
<1>4. Good(c, {}, U)
  BY <1>1, <1>3, PlaceChanges
<1> HIDE DEF c
<1>5. Good(c, {}, U \cup R)
  BY <1>4, GoodWeakens
<1> QED BY <1>2, <1>5, CheckedGood

LEMMA DeleteReferenceKeeps ==
    ASSUME IInv, NEW r \in Ref, DeleteReference(r)
    PROVE  IInv'
<1> DEFINE h == sp.ref[r].home
           out == [sp EXCEPT !.ref[r].home = None, !.ref[r].hung = h]
<1>1. Attached(sp, r) /\ Becomes(Checked(out, Inside(out, {h})))
  BY DEF DeleteReference
<1>2. Good(sp, {}, unseen) /\ h \in Def
  BY <1>1, Before, SpaceParts DEF Attached
<1> HIDE DEF h
<1>3. Good(Checked(out, Inside(out, {h})), {}, unseen)
  BY <1>2, HungGood
<1> QED BY <1>1, <1>3, BecomesKeeps

LEMMA PutReferenceBackKeeps ==
    ASSUME IInv, NEW r \in Ref, PutReferenceBack(r)
    PROVE  IInv'
<1>1. sp.ref[r].hung # None /\ Becomes(Insert(sp, r, sp.ref[r].hung))
  BY DEF PutReferenceBack
<1>2. Good(sp, {}, unseen \cup {r}) /\ sp.ref[r].hung \in Def
  BY <1>1, Before, SpaceParts
<1> QED BY <1>1, <1>2, InsertGood, BecomesKeeps

LEMMA DestroyRefKeeps ==
    ASSUME IInv, NEW r \in Ref, DestroyRef(r)
    PROVE  IInv'
<1>1. Becomes(FreedRefs(sp, {r}))
  BY DEF DestroyRef
<1>2. Good(FreedRefs(sp, {r}), {}, unseen)
  BY Before, FreedRefsGood
<1> QED BY <1>1, <1>2, BecomesKeeps

LEMMA ClonedGood ==
    ASSUME NEW b, NEW U, NEW r \in Ref, NEW q \in Ref, Good(b, {}, U),
           b.ref[r].home # None, Unborn(b, q)
    PROVE  LET c == Cloned(b, r, q) IN
           Good(c, {}, U \cup {q}) /\ q # r /\ c.ref[r] = b.ref[r]
<1> DEFINE f == [b.ref EXCEPT ![q] = b.ref[r]]
           S == [d \in Def |-> IF b.ref[r].def = d THEN b.refs[d] \cup {q} ELSE b.refs[d]]
           c == Cloned(b, r, q)
<1>1. b \in Space /\ q # r /\ b.ref[r] \in RefNode
  BY SpaceParts DEF Good, Unborn
<1>2. b.ref[q].def = None /\ \A d \in Def : q \notin b.refs[d]
  BY UnbornFree
<1>3. c = [b EXCEPT !.ref = f, !.refs = S]
  BY DEF Cloned
<1>4. /\ f \in [Ref -> RefNode] /\ f[q] = b.ref[r] /\ S \in [Def -> SUBSET Ref]
      /\ \A p \in Ref \ {q} : f[p] = b.ref[p]
      /\ \A d \in Def : S[d] = IF b.ref[r].def = d THEN b.refs[d] \cup {q} ELSE b.refs[d]
  BY <1>1, SpaceParts
<1> HIDE DEF f, S, c
<1>5. /\ c \in Space /\ c.ref = f /\ c.refs = S /\ SameTree(b, c)
  BY <1>1, <1>3, <1>4 DEF Space, SameTree
<1>6. /\ \A e : RightName(c, e) = RightName(b, e)
      /\ c.at = b.at
      /\ \A p \in Ref \ {q} : /\ Attached(c, p) <=> Attached(b, p)
                              /\ Unborn(c, p) <=> Unborn(b, p)
  BY <1>4, <1>5, SameTreeMeans DEF SameTree, SamePlace
<1>7. SetsOK(c)
  BY <1>2, <1>4, <1>5 DEF Good, SetsOK
<1>8. BoundOK(c, {})
  <2>1. ~Unborn(c, q)
    BY <1>4, <1>5 DEF Unborn
  <2>2. c.ref[q] = b.ref[r]
    BY <1>4, <1>5
  <2> QED BY <1>4, <1>5, <1>6, <2>1, <2>2 DEF Good, BoundOK
<1>9. MarkedOK(c, {})
  BY <1>4, <1>5, <1>6 DEF Good, MarkedOK
<1>10. ShownOK(c, U \cup {q})
  BY <1>4, <1>5, <1>6 DEF Good, ShownOK
<1> QED BY <1>1, <1>4, <1>5, <1>7, <1>8, <1>9, <1>10 DEF Good, c

LEMMA ExchangeKeeps ==
    ASSUME IInv, NEW r \in Ref, NEW q \in Ref, ExchangeWithCopy(r, q)
    PROVE  IInv'
<1> DEFINE h == sp.ref[r].home
           a == Cloned(sp, r, q)
           out == [a EXCEPT !.ref[r].home = None, !.ref[r].hung = h]
           e == Checked(out, Inside(out, {h}) \ {q})
<1>1. Attached(sp, r) /\ Unborn(sp, q) /\ Becomes(Insert(e, q, h))
  BY DEF ExchangeWithCopy
<1>2. Good(sp, {}, unseen) /\ h \in Def /\ h # None
  BY <1>1, Before, SpaceParts DEF Attached
<1>3. Good(a, {}, unseen \cup {q})
  BY <1>1, <1>2, ClonedGood
<1> HIDE DEF a, h
<1>4. Good(e, {}, unseen \cup {q})
  BY <1>2, <1>3, HungGood
<1> HIDE DEF e
<1> QED BY <1>1, <1>2, <1>4, InsertGood, BecomesKeeps

-----------------------------------------------------------------------------
(* The invariant and what follows from it. *)

LEMMA InitIInv == RefInit => IInv
<1> SUFFICES ASSUME RefInit PROVE IInv
  OBVIOUS
<1>1. /\ sp = [at |-> [d \in Def |-> "new"], group |-> "in", name |-> [d \in Def |-> NoName],
               ref |-> [r \in Ref |-> NewRef], refs |-> [d \in Def |-> {}], found |-> TRUE]
      /\ unseen = {}
  BY DEF RefInit
<1>2. NewRef \in RefNode /\ NewRef.def = None /\ NewRef.home = None
  BY DEF NewRef, RefNode
<1>3. sp \in Space /\ \A r \in Ref : sp.ref[r].def = None /\ sp.ref[r].home = None
  BY <1>1, <1>2 DEF Space
<1>4. SetsOK(sp)
  BY <1>1, <1>3 DEF SetsOK
<1>5. BoundOK(sp, {}) /\ MarkedOK(sp, {}) /\ ShownOK(sp, unseen)
  BY <1>3 DEF BoundOK, MarkedOK, ShownOK, Attached
<1>6. \A r \in Ref : ~WentWithGroup(sp, r)
  BY <1>3 DEF WentWithGroup, Def
<1> QED BY <1>3, <1>4, <1>5, <1>6 DEF IInv, Good

LEMMA NextKeeps == IInv /\ [RefNext]_refVars => IInv'
<1> SUFFICES ASSUME IInv, [RefNext]_refVars PROVE IInv'
  OBVIOUS
<1>1. ASSUME NEW d \in Def, NEW n \in Name, Create(d, n) PROVE IInv'
  BY <1>1, CreateKeeps
<1>2. ASSUME NEW d \in Def, Delete(d) PROVE IInv'
  BY <1>2, DeleteKeeps
<1>3. ASSUME NEW d \in Def, PutBack(d) PROVE IInv'
  BY <1>3, PutBackKeeps
<1>4. ASSUME NEW t \in Trigger, Move(t) PROVE IInv'
  BY <1>4, MoveKeeps
<1>5. ASSUME NEW d \in Def, NEW n \in Name, Rename(d, n) PROVE IInv'
  BY <1>5, RenameKeeps
<1>6. ASSUME NEW d \in Def, DestroyDef(d) PROVE IInv'
  BY <1>6, DestroyDefKeeps
<1>7. CASE DeleteGroup
  BY <1>7, Before, RemoveGroupGood, BecomesKeeps DEF DeleteGroup
<1>8. CASE PutGroupBack
  BY <1>8, Before, AddGroupGood, BecomesKeeps DEF PutGroupBack
<1>9. CASE DestroyGroup
  BY <1>9, DestroyGroupKeeps
<1>10. ASSUME NEW r \in Ref, NEW h \in Def, NEW d \in Def, NewReference(r, h, d) PROVE IInv'
  BY <1>10, NewReferenceKeeps
<1>11. ASSUME NEW r \in Ref, NEW h \in Def, NEW n \in Name \cup {NoName}, PasteCopy(r, h, n)
       PROVE  IInv'
  BY <1>11, PasteCopyKeeps
<1>12. ASSUME NEW r \in Ref, DeleteReference(r) PROVE IInv'
  BY <1>12, DeleteReferenceKeeps
<1>13. ASSUME NEW r \in Ref, PutReferenceBack(r) PROVE IInv'
  BY <1>13, PutReferenceBackKeeps
<1>14. ASSUME NEW r \in Ref, DestroyRef(r) PROVE IInv'
  BY <1>14, DestroyRefKeeps
<1>15. ASSUME NEW r \in Ref, NEW q \in Ref, ExchangeWithCopy(r, q) PROVE IInv'
  BY <1>15, ExchangeKeeps
<1>16. CASE UNCHANGED refVars
  BY <1>16 DEF refVars, IInv, Good, SetsOK, BoundOK, MarkedOK, ShownOK, RightName, WentWithGroup,
               Attached, InSpace, Unborn
<1> QED BY <1>1, <1>2, <1>3, <1>4, <1>5, <1>6, <1>7, <1>8, <1>9, <1>10, <1>11, <1>12,
           <1>13, <1>14, <1>15, <1>16 DEF RefNext

LEMMA ReferenceInvariance == RefSpec => []IInv
<1>1. RefInit => IInv
  BY InitIInv
<1>2. IInv /\ [RefNext]_refVars => IInv'
  BY NextKeeps
<1> QED BY <1>1, <1>2, PTL DEF RefSpec

\* ReferencesKept: whatever is deleted, put back, moved, renamed, pasted and
\* destroyed, a definition's set holds exactly the references that name it as
\* theirs, none of them freed, and each bears its name (SNode::Definition,
\* UpdateReferenceNodes, ~SNode, AddNodeItem, RemoveItemNode).
THEOREM ReferencesKept == RefSpec => []ReferencesAgree
<1>1. IInv => ReferencesAgree
  BY DEF IInv, Good, SetsOK, BoundOK, RightName, ReferencesAgree
<1> QED BY <1>1, ReferenceInvariance, PTL

\* LossesMarked: a reference in the space whose definition is not in it is marked
\* as an error, but for one whose trigger went with its group and that was not
\* checked since (RemoveItemNode, UpdateReferenceNodes, CheckErrorTree).
THEOREM LossesMarked == RefSpec => []LossIsShown
<1>1. IInv => LossIsShown
  <2> SUFFICES ASSUME IInv, NEW r \in Ref \ unseen, Lost(sp, r) PROVE sp.ref[r].err
    BY DEF LossIsShown
  <2> DEFINE d == sp.ref[r].def
  <2>1. Good(sp, {}, unseen) /\ Attached(sp, r) /\ (d = None \/ ~InSpace(sp, d))
    BY DEF IInv, Lost
  <2>2. CASE d = None
    BY <2>1, <2>2 DEF Good, ShownOK
  <2>3. CASE d # None /\ sp.at[d] # "in"
    BY <2>1, <2>3 DEF Good, MarkedOK
  <2>4. CASE d # None /\ sp.at[d] = "in"
    BY <2>1, <2>4 DEF IInv, InSpace, WentWithGroup
  <2> QED BY <2>2, <2>3, <2>4
<1> QED BY <1>1, ReferenceInvariance, PTL

=============================================================================
