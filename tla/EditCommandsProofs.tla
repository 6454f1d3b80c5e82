------------------------- MODULE EditCommandsProofs -------------------------
(***************************************************************************)
(* The commands on the space, for any nodes, any spaces that are loaded    *)
(* and any user, careful or not: the tree stays well formed, the lists and *)
(* what they showed keep their shape, and the triggers whose commands are  *)
(* kept are in the space.  At the end, what undo takes back: a command, a  *)
(* macro, and an edit that is undone at once.                              *)
(***************************************************************************)
EXTENDS EditCommands, TreeForestProofs, FiniteSetTheorems, FunctionTheorems

\* A set of places that holds 0 and, with each one, the next up to n holds them all.
LEMMA FromZero ==
    ASSUME NEW n \in Nat, NEW I, 0 \in I, \A i \in 1..n : i - 1 \in I => i \in I
    PROVE  \A i \in 0..n : i \in I
<1> DEFINE bad == {i \in 0..n : i \notin I}
<1> SUFFICES ASSUME bad # {} PROVE FALSE
  OBVIOUS
<1>1. PICK i \in bad : \A m \in bad : i <= m
  <2>1. bad \subseteq Nat
    OBVIOUS
  <2> HIDE DEF bad
  <2> QED BY <2>1, LeastNatural
<1>2. i \in 1..n /\ i \notin I
  BY <1>1
<1>3. i - 1 \in 0..n /\ i - 1 \notin bad
  BY <1>1, <1>2
<1> QED BY <1>2, <1>3

\* A computation of n turns, G of the turn and of what the last turn left, where
\* turn i takes a value of J[i - 1] to one of J[i].
Turns(G, J, s, g, n) ==
    /\ g[0] = s
    /\ \A i \in 1..n : g[i] = G[<<i, g[i - 1]>>]
    /\ \A i \in 0..n : g[i] \in J[i]

LEMMA TurnsExist ==
    ASSUME NEW n \in Nat, NEW J, NEW s, s \in J[0], NEW G,
           \A i \in 1..n : \A x \in J[i - 1] : G[<<i, x>>] \in J[i]
    PROVE  \E g : g = [i \in 0..n |-> g[i]] /\ Turns(G, J, s, g, n)
<1> DEFINE I == {m \in 0..n : \E g : g = [i \in 0..m |-> g[i]] /\ Turns(G, J, s, g, m)}
<1>1. 0 \in I
  <2> DEFINE g == [i \in 0..0 |-> s]
  <2>1. g[0] = s /\ \A i \in 0..0 : i = 0
    OBVIOUS
  <2>2. Turns(G, J, s, g, 0)
    BY <2>1 DEF Turns
  <2>3. g = [i \in 0..0 |-> g[i]]
    OBVIOUS
  <2> HIDE DEF g
  <2> QED BY <2>2, <2>3
<1>2. ASSUME NEW m \in 1..n, m - 1 \in I PROVE m \in I
  <2>1. PICK g : g = [i \in 0..(m - 1) |-> g[i]] /\ Turns(G, J, s, g, m - 1)
    BY <1>2
  <2> DEFINE h == [i \in 0..m |-> IF i = m THEN G[<<m, g[m - 1]>>] ELSE g[i]]
  <2>2. \A i \in 0..m : h[i] = IF i = m THEN G[<<m, g[m - 1]>>] ELSE g[i]
    OBVIOUS
  <2>3. h = [i \in 0..m |-> h[i]]
    OBVIOUS
  <2> HIDE DEF h
  <2>4. g[m - 1] \in J[m - 1]
    BY <2>1 DEF Turns
  <2>5. G[<<m, g[m - 1]>>] \in J[m]
    BY <2>4
  <2>6. h[0] = s /\ h[m] = G[<<m, h[m - 1]>>]
    <3>1. 0 \in 0..m /\ 0 # m /\ m \in 0..m /\ m - 1 \in 0..m /\ m - 1 # m
      OBVIOUS
    <3>2. h[0] = g[0] /\ h[m] = G[<<m, g[m - 1]>>] /\ h[m - 1] = g[m - 1]
      BY <2>2, <3>1
    <3> QED BY <2>1, <3>2 DEF Turns
  <2>7. ASSUME NEW i \in 1..m PROVE h[i] = G[<<i, h[i - 1]>>]
    <3>1. CASE i = m
      BY <2>6, <3>1
    <3>2. CASE i # m
      <4>1. i \in 1..(m - 1) /\ i \in 0..m /\ i - 1 \in 0..m /\ i - 1 # m
        BY <3>2
      <4>2. h[i] = g[i] /\ h[i - 1] = g[i - 1]
        BY <2>2, <3>2, <4>1
      <4>3. g[i] = G[<<i, g[i - 1]>>]
        BY <2>1, <4>1 DEF Turns
      <4> QED BY <4>2, <4>3
    <3> QED BY <3>1, <3>2
  <2>8. ASSUME NEW i \in 0..m PROVE h[i] \in J[i]
    <3>1. CASE i = m
      BY <2>2, <2>5, <3>1
    <3>2. CASE i # m
      <4>1. i \in 0..(m - 1)
        BY <3>2
      <4>2. g[i] \in J[i]
        BY <2>1, <4>1 DEF Turns
      <4> QED BY <2>2, <3>2, <4>2
    <3> QED BY <3>1, <3>2
  <2>9. Turns(G, J, s, h, m)
    BY <2>6, <2>7, <2>8 DEF Turns
  <2> QED BY <2>3, <2>9
<1> HIDE DEF I
<1>3. n \in I
  <2>1. \A m \in 1..n : m - 1 \in I => m \in I
    BY <1>2
  <2>2. \A i \in 0..n : i \in I
    BY <1>1, <2>1, FromZero
  <2>3. n \in 0..n
    OBVIOUS
  <2> QED BY <2>2, <2>3
<1> QED BY <1>3 DEF I

\* The numbering of a finite set, as a sequence of its elements that has them all.
LEMMA SetToSeqHasAll ==
    ASSUME NEW A, IsFiniteSet(A)
    PROVE  /\ S!SetToSeq(A) \in Seq(A)
           /\ \A x \in A : \E i \in 1..Len(S!SetToSeq(A)) : S!SetToSeq(A)[i] = x
<1> DEFINE n == Cardinality(A)
           P(q) == q \in [1..n -> A] /\ \A i, j \in 1..n : q[i] = q[j] => i = j
           Q(q) == q \in [1..n -> A] /\ S!IsInjective(q)
           q0 == S!SetToSeq(A)
<1>1. n \in Nat /\ ExistsBijection(1..n, A)
  BY FS_CardinalityType
<1> HIDE DEF n
<1>2. PICK q : q \in Bijection(1..n, A)
  BY <1>1 DEF ExistsBijection
<1>3. \A x : Q(x) <=> P(x)
  BY DEF S!IsInjective
<1>4. P(q)
  BY <1>2, Fun_BijectionProperties DEF Bijection, Injection, IsInjective
<1>5. Q(CHOOSE x : Q(x))
  BY <1>3, <1>4, Zenon
<1>6. q0 = CHOOSE x : Q(x)
  BY DEF S!SetToSeq, S!Cardinality, Cardinality, n
<1>7. P(q0)
  BY <1>3, <1>5, <1>6
<1> HIDE DEF q0, Q
<1> DEFINE R == {q0[i] : i \in 1..n}
<1>8. R \subseteq A
  BY <1>7
<1>9. q0 \in Bijection(1..n, R)
  <2>1. q0 \in [1..n -> R] /\ \A y \in R : \E i \in 1..n : q0[i] = y
    BY <1>7
  <2> QED BY <1>7, <2>1, Fun_IsBij
<1> HIDE DEF R
<1>10. Cardinality(R) = n
  BY <1>1, <1>9, FS_CountingElements DEF ExistsBijection
<1>11. R = A
  BY <1>8, <1>10, FS_Subset DEF n
<1>12. q0 \in Seq(A) /\ Len(q0) = n
  BY <1>1, <1>7
<1> QED BY <1>11, <1>12 DEF R, q0

-----------------------------------------------------------------------------
(* Trees: what is above a node, what is below it, and who stays in place.  *)

\* A node is above itself and above those whose parent it is above.
LEMMA AboveStep ==
    ASSUME NEW t \in Tree, NEW a \in Node, NEW n \in Node
    PROVE  AncestorOrSelf(t, a, n)
              <=> a = n \/ (t.parent[n] # NULL /\ AncestorOrSelf(t, a, t.parent[n]))
<1>1. ASSUME AncestorOrSelf(t, a, n), a # n
      PROVE  t.parent[n] # NULL /\ AncestorOrSelf(t, a, t.parent[n])
  <2>1. t.parent[n] # NULL
    <3>1. {n} \in SUBSET Node /\ a \notin {n}
      BY <1>1
    <3> QED BY <1>1, <3>1 DEF AncestorOrSelf
  <2>2. ASSUME NEW A \in SUBSET Node, t.parent[n] \in A,
               \A x \in A : t.parent[x] # NULL => t.parent[x] \in A
        PROVE  a \in A
    <3>1. /\ A \cup {n} \in SUBSET Node /\ n \in A \cup {n}
          /\ \A x \in A \cup {n} : t.parent[x] # NULL => t.parent[x] \in A \cup {n}
      BY <2>2
    <3>2. a \in A \cup {n}
      BY <1>1, <3>1 DEF AncestorOrSelf
    <3> QED BY <1>1, <3>2
  <2> QED BY <2>1, <2>2 DEF AncestorOrSelf
<1>2. ASSUME t.parent[n] # NULL, AncestorOrSelf(t, a, t.parent[n])
      PROVE  AncestorOrSelf(t, a, n)
  BY <1>2 DEF AncestorOrSelf
<1>3. a = n => AncestorOrSelf(t, a, n)
  BY DEF AncestorOrSelf
<1> QED BY <1>1, <1>2, <1>3

\* The walk up collects the nodes above.
LEMMA UpFromIs ==
    ASSUME NEW t \in Tree, ParentsEnd(t)
    PROVE  /\ UpFrom(t, NULL) = {}
           /\ \A n \in Node : UpFrom(t, n) = {a \in Node : AncestorOrSelf(t, a, n)}
<1> DEFINE Eq(g) == g = [m \in Ptr |-> IF m = NULL THEN {} ELSE {m} \cup g[t.parent[m]]]
           above(m) == IF m = NULL THEN {} ELSE {a \in Node : AncestorOrSelf(t, a, m)}
           g0 == [m \in Ptr |-> above(m)]
           up == CHOOSE g : Eq(g)
<1>1. \A m \in Node : m \in Ptr /\ m # NULL /\ t.parent[m] \in Ptr
  BY NullAssumption DEF Tree, Ptr
<1>2. ASSUME NEW m \in Node PROVE above(m) = {m} \cup above(t.parent[m])
  <2>1. \A a \in Node : AncestorOrSelf(t, a, m)
              <=> a = m \/ (t.parent[m] # NULL /\ AncestorOrSelf(t, a, t.parent[m]))
    BY AboveStep
  <2> QED BY <1>1, <2>1
<1>3. \A m \in Ptr : above(m) = IF m = NULL THEN {} ELSE {m} \cup above(t.parent[m])
  BY <1>2 DEF Ptr
<1>4. Eq(g0)
  <2> HIDE DEF above
  <2> QED BY <1>1, <1>3 DEF Ptr
<1>5. Eq(up)
  <2> HIDE DEF g0, Eq
  <2>1. \E g : Eq(g)
    BY <1>4
  <2> QED BY <2>1, Zenon
<1>6. \A n : UpFrom(t, n) = up[n]
  BY DEF UpFrom
<1> HIDE DEF up
<1>7. \A m \in Ptr : up[m] = IF m = NULL THEN {} ELSE {m} \cup up[t.parent[m]]
  BY <1>5
<1> DEFINE B == {m \in Node : up[m] # above(m)}
<1>8. up[NULL] = {} /\ above(NULL) = {}
  BY <1>7 DEF Ptr
<1> HIDE DEF above
<1>9. \A m \in B : t.parent[m] \in B
  <2> TAKE m \in B
  <2>1. m \in Node /\ up[m] # above(m)
    OBVIOUS
  <2>2. up[t.parent[m]] # above(t.parent[m])
    BY <1>1, <1>2, <1>7, <2>1
  <2>3. t.parent[m] \in Node
    BY <1>1, <1>8, <2>1, <2>2 DEF Ptr
  <2> QED BY <2>2, <2>3
<1>10. B = {}
  <2>1. B \in SUBSET Node
    OBVIOUS
  <2> HIDE DEF B
  <2> QED BY <1>9, <2>1 DEF ParentsEnd
<1>11. \A n \in Node : up[n] = above(n)
  BY <1>10
<1> QED BY <1>1, <1>6, <1>8, <1>11 DEF above

\* The parent of a node below n, other than n, is below n.
LEMMA DownParent ==
    ASSUME NEW t \in Tree, NEW n \in Node, NEW x \in Down(t, n), x # n
    PROVE  t.parent[x] \in Down(t, n)
<1> DEFINE D == Down(t, n)
           T == {y \in D : y = n \/ t.parent[y] \in D}
<1>1. /\ D \in SUBSET Node /\ n \in D
      /\ \A c \in Node : t.parent[c] \in D => c \in D
  BY DownClosed
<1>2. T \in SUBSET Node /\ n \in T /\ \A c \in Node : t.parent[c] \in T => c \in T
  <2> HIDE DEF D
  <2> QED BY <1>1
<1>3. D \subseteq T
  <2> HIDE DEF T
  <2> QED BY <1>2, DownClosed
<1> QED BY <1>3

\* Where parents change only below, the nodes elsewhere keep what is above them.
LEMMA AboveSame ==
    ASSUME NEW t \in Tree, NEW u \in Tree, NEW B \in SUBSET Node,
           \A c \in Node : t.parent[c] \in B => c \in B,
           \A c \in Node \ B : u.parent[c] = t.parent[c],
           NEW a \in Node, NEW d \in Node \ B, AncestorOrSelf(t, a, d)
    PROVE  AncestorOrSelf(u, a, d)
<1> SUFFICES ASSUME NEW A \in SUBSET Node, d \in A,
                    \A x \in A : u.parent[x] # NULL => u.parent[x] \in A
             PROVE  a \in A
  BY DEF AncestorOrSelf
<1>1. A \ B \in SUBSET Node /\ d \in A \ B
  OBVIOUS
<1>2. \A x \in A \ B : t.parent[x] # NULL => t.parent[x] \in A \ B
  OBVIOUS
<1>3. a \in A \ B
  BY <1>1, <1>2 DEF AncestorOrSelf
<1> QED BY <1>3

\* Only statements are below what is no group.
LEMMA DownClass ==
    ASSUME NEW t \in Tree, \A c \in Node : Fits(c, t.parent[c]),
           NEW n \in Node \ (Group \cup {Root})
    PROVE  Down(t, n) \subseteq {n} \cup Statement
<1> DEFINE T == {n} \cup Statement
<1>1. T \in SUBSET Node /\ n \in T
  BY EditAssumption
<1>2. ASSUME NEW c \in Node, t.parent[c] \in T PROVE c \in T
  <2>1. t.parent[c] # NULL /\ t.parent[c] \notin Group \cup {Root}
    BY <1>2, EditAssumption, NullAssumption
  <2> QED BY <2>1 DEF Fits
<1> HIDE DEF T
<1>3. Down(t, n) \subseteq T
  BY <1>1, <1>2, DownClosed
<1> QED BY <1>3 DEF T

\* What is in the space is not below another node without a parent.
LEMMA RootOnly ==
    ASSUME NEW t \in Tree, NEW n \in Node, n # Root, t.parent[n] = NULL, t.parent[Root] = NULL
    PROVE  /\ Root \notin Down(t, n)
           /\ \A d \in Node : AncestorOrSelf(t, Root, d) => d \notin Down(t, n)
<1> DEFINE D == Down(t, n)
<1>1. D \in SUBSET Node /\ n \in D
  BY DownClosed
<1>2. \A x \in D : x # n => t.parent[x] \in D
  BY DownParent
<1>3. Root \notin D
  BY <1>1, <1>2, NullAssumption
<1> HIDE DEF D
<1>4. ASSUME NEW d \in D, AncestorOrSelf(t, Root, d) PROVE FALSE
  <2>1. \A x \in D : t.parent[x] # NULL => t.parent[x] \in D
    BY <1>2
  <2> QED BY <1>1, <1>3, <1>4, <2>1 DEF AncestorOrSelf
<1> QED BY <1>3, <1>4 DEF D

-----------------------------------------------------------------------------
(* The tree of a space: well formed, within the living nodes, below the    *)
(* root, with every node where its class may be.                           *)

TreeGood(t, A) ==
    /\ t \in Tree /\ Sound(t) /\ A \in SUBSET Node /\ Within(t, A)
    /\ Root \in A /\ t.parent[Root] = NULL
    /\ \A n \in Node : Fits(n, t.parent[n])

InSpace(t, A, d) == d \in A /\ AncestorOrSelf(t, Root, d)

\* A node that hangs nowhere is put below p.
LEMMA TreeInserted ==
    ASSUME NEW t, NEW A, TreeGood(t, A), NEW p \in A, NEW n \in A, n # Root, Fits(n, p),
           NEW refer \in Ptr, ReferenceOK(t, p, n, refer), t.parent[n] = NULL,
           ~AncestorOrSelf(t, n, p),
           NEW u \in {InsertBefore(t, p, n, refer), InsertOrAppend(t, p, n, refer)}
    PROVE  /\ TreeGood(u, A)
           /\ \A d \in Node : InSpace(t, A, d) => InSpace(u, A, d)
<1>1. /\ t \in Tree /\ Sound(t) /\ Within(t, A) /\ A \subseteq Node /\ p \in Node /\ n \in Node
      /\ Root \in Node
  BY DEF TreeGood
<1>2. PICK at \in Ptr : ReferenceOK(t, p, n, at) /\ u = InsertAfter(t, p, n, at)
  BY <1>1, OtherInsertions
<1>3. u \in Tree /\ Sound(u) /\ Within(u, A)
  BY <1>1, <1>2, InsertAfterSound
<1>4. \A x \in Node : u.parent[x] = IF x = n THEN p ELSE t.parent[x]
  BY <1>1, <1>2 DEF InsertAfter, Tree
<1>5. TreeGood(u, A)
  BY <1>1, <1>3, <1>4 DEF TreeGood
<1>6. ASSUME NEW d \in Node, InSpace(t, A, d) PROVE InSpace(u, A, d)
  <2> DEFINE B == Down(t, n)
  <2>1. B \in SUBSET Node /\ n \in B /\ \A c \in Node : t.parent[c] \in B => c \in B
    BY <1>1, DownClosed
  <2>2. d \notin B
    BY <1>1, <1>6, RootOnly DEF TreeGood, InSpace
  <2> HIDE DEF B
  <2>3. \A c \in Node \ B : u.parent[c] = t.parent[c]
    BY <1>4, <2>1
  <2>4. AncestorOrSelf(u, Root, d)
    BY <1>1, <1>3, <1>6, <2>1, <2>2, <2>3, AboveSame DEF InSpace
  <2> QED BY <1>6, <2>4 DEF InSpace
<1> QED BY <1>5, <1>6

\* A node is taken out with what is below it.
LEMMA TreeUnlinked ==
    ASSUME NEW t, NEW A, TreeGood(t, A), NEW n \in A, n # Root
    PROVE  /\ TreeGood(Unlink(t, n), A) /\ Unlink(t, n).parent[n] = NULL
           /\ \A d \in Node : InSpace(t, A, d) /\ d \notin Down(t, n)
                                 => InSpace(Unlink(t, n), A, d)
<1> DEFINE u == Unlink(t, n)
<1>1. /\ t \in Tree /\ Sound(t) /\ Within(t, A) /\ A \subseteq Node /\ n \in Node
      /\ Root \in Node
  BY DEF TreeGood
<1>2. u \in Tree /\ Sound(u) /\ Within(u, A)
  BY <1>1, UnlinkSound
<1>3. \A x \in Node : u.parent[x] = IF x = n THEN NULL ELSE t.parent[x]
  BY <1>1 DEF Unlink, Tree
<1> HIDE DEF u
<1>4. TreeGood(u, A) /\ u.parent[n] = NULL
  BY <1>1, <1>2, <1>3 DEF TreeGood, Fits
<1>5. ASSUME NEW d \in Node, InSpace(t, A, d), d \notin Down(t, n) PROVE InSpace(u, A, d)
  <2> DEFINE B == Down(t, n)
  <2>1. B \in SUBSET Node /\ n \in B /\ \A c \in Node : t.parent[c] \in B => c \in B
    BY <1>1, DownClosed
  <2>2. d \in Node \ B
    BY <1>5
  <2> HIDE DEF B
  <2>3. \A c \in Node \ B : u.parent[c] = t.parent[c]
    BY <1>3, <2>1
  <2>4. AncestorOrSelf(u, Root, d)
    BY <1>1, <1>2, <1>5, <2>1, <2>2, <2>3, AboveSame DEF InSpace
  <2> QED BY <1>5, <2>4 DEF InSpace
<1> QED BY <1>4, <1>5 DEF u

\* A node is deleted with what is below it.
LEMMA TreeRemoved ==
    ASSUME NEW t, NEW A, TreeGood(t, A), NEW n \in A, Root \notin Down(t, n)
    PROVE  /\ TreeGood(Remove(t, n), A \ Deleted(t, n))
           /\ \A d \in Node : InSpace(t, A, d) /\ d \notin Down(t, n)
                                 => InSpace(Remove(t, n), A \ Deleted(t, n), d)
<1> DEFINE u == Remove(t, n)
           B == Down(t, n)
<1>1. /\ t \in Tree /\ Sound(t) /\ Within(t, A) /\ A \subseteq Node /\ n \in Node
      /\ Root \in A /\ Root \in Node
  BY DEF TreeGood
<1>2. Deleted(t, n) = B
  BY <1>1, DeletedIsDown
<1>3. u \in Tree /\ Sound(u) /\ Within(u, A \ B)
  BY <1>1, <1>2, RemoveSound
<1>4. B \in SUBSET Node /\ n \in B /\ \A c \in Node : t.parent[c] \in B => c \in B
  BY <1>1, DownClosed
<1>5. \A x \in Node : u.parent[x] = IF x \in B THEN NULL ELSE t.parent[x]
  BY <1>1, <1>2, <1>4 DEF Remove, RemoveLinks, Free, Tree
<1> HIDE DEF u, B
<1>6. TreeGood(u, A \ B)
  <2>1. Root \in A \ B
    BY <1>1 DEF B
  <2>2. \A x \in Node : Fits(x, u.parent[x])
    BY <1>5 DEF TreeGood, Fits
  <2>3. u.parent[Root] = NULL
    BY <1>1, <1>5, <2>1 DEF TreeGood
  <2> QED BY <1>1, <1>3, <2>1, <2>2, <2>3 DEF TreeGood
<1>7. ASSUME NEW d \in Node, InSpace(t, A, d), d \notin B PROVE InSpace(u, A \ B, d)
  <2>1. d \in Node \ B
    BY <1>7
  <2>2. \A c \in Node \ B : u.parent[c] = t.parent[c]
    BY <1>5
  <2>3. AncestorOrSelf(u, Root, d)
    BY <1>1, <1>3, <1>4, <1>7, <2>1, <2>2, AboveSame DEF InSpace
  <2> QED BY <1>7, <2>3 DEF InSpace
<1> QED BY <1>2, <1>6, <1>7 DEF u, B

\* Two statements change places.
LEMMA TreeSwapped ==
    ASSUME NEW t, NEW A, TreeGood(t, A), NEW l \in A \cap Statement, NEW r \in A \cap Statement,
           ~AncestorOrSelf(t, l, r), ~AncestorOrSelf(t, r, l), t.prev[l] # r, t.prev[r] # l
    PROVE  /\ TreeGood(Swap(t, l, r), A)
           /\ \A d \in Node \ Statement : InSpace(t, A, d) => InSpace(Swap(t, l, r), A, d)
<1> DEFINE u == Swap(t, l, r)
           B == Down(t, l) \cup Down(t, r)
<1>1. /\ t \in Tree /\ Sound(t) /\ Within(t, A) /\ A \subseteq Node /\ l \in Node /\ r \in Node
      /\ Root \in Node /\ \A c \in Node : Fits(c, t.parent[c])
  BY DEF TreeGood
<1>2. u \in Tree /\ Sound(u) /\ Within(u, A)
  BY <1>1, SwapSound
<1>3. \A x \in Node : x \notin {l, r} => u.parent[x] = t.parent[x]
  <2> DEFINE t2 == Unlink(Unlink(t, l), r)
             t3 == IF t.parent[l] # NULL THEN InsertAfter(t2, t.parent[l], r, t.prev[l]) ELSE t2
  <2>1. \A x \in Node : x \notin {l, r} => t2.parent[x] = t.parent[x]
    BY <1>1 DEF Unlink, Tree
  <2>2. t2.parent \in [Node -> Ptr]
    BY <1>1, UnlinkType DEF Tree
  <2> HIDE DEF t2
  <2>3. \A x \in Node : x \notin {l, r} => t3.parent[x] = t.parent[x]
    BY <2>1, <2>2 DEF InsertAfter
  <2>4. DOMAIN t3.parent = Node
    BY <2>2 DEF InsertAfter
  <2>5. u = IF t.parent[r] # NULL THEN InsertAfter(t3, t.parent[r], l, t.prev[r]) ELSE t3
    BY DEF Swap, t2
  <2> HIDE DEF t3, u
  <2> QED BY <2>3, <2>4, <2>5 DEF InsertAfter
<1> HIDE DEF u
<1>4. l \notin Group \cup {Root} /\ r \notin Group \cup {Root} /\ Root \notin {l, r}
  BY EditAssumption
<1>5. TreeGood(u, A)
  <2>1. \A x \in Node : Fits(x, u.parent[x])
    BY <1>1, <1>3 DEF Fits
  <2>2. u.parent[Root] = NULL
    BY <1>1, <1>3, <1>4 DEF TreeGood
  <2> QED BY <1>1, <1>2, <2>1, <2>2 DEF TreeGood
<1>6. /\ B \in SUBSET Node /\ l \in B /\ r \in B
      /\ \A c \in Node : t.parent[c] \in B => c \in B
  BY <1>1, DownClosed
<1>7. B \subseteq Statement
  <2>1. Down(t, l) \subseteq {l} \cup Statement /\ Down(t, r) \subseteq {r} \cup Statement
    BY <1>1, <1>4, DownClass
  <2> QED BY <2>1
<1> HIDE DEF B
<1>8. ASSUME NEW d \in Node \ Statement, InSpace(t, A, d) PROVE InSpace(u, A, d)
  <2>1. d \in Node \ B
    BY <1>7
  <2>2. \A c \in Node \ B : u.parent[c] = t.parent[c]
    BY <1>3, <1>6
  <2>3. AncestorOrSelf(u, Root, d)
    BY <1>1, <1>2, <1>6, <1>8, <2>1, <2>2, AboveSame DEF InSpace
  <2> QED BY <1>8, <2>3 DEF InSpace
<1> QED BY <1>5, <1>8 DEF u

-----------------------------------------------------------------------------
(* What the commands compute on: records of the tree, the living nodes and *)
(* the lists.                                                              *)

\* A command moves a node, never the root, to where its class may be, or exchanges
\* two statements; in a document other than the gallery it is about statements.
Cmds ==
    {c \in [op : {"add", "delete"}, node : Node \ {Root}, parent : Ptr, prev : Ptr] :
        Fits(c.node, c.parent)} \cup
    {c \in [op : {"move"}, node : Node \ {Root}, parent : Ptr, prev : Ptr,
            orgParent : Ptr, orgPrev : Ptr] :
        Fits(c.node, c.parent) /\ Fits(c.node, c.orgParent)} \cup
    [op : {"exchange"}, node : Statement, other : Statement]
CmdsOf(d) == IF d = Gallery THEN Cmds ELSE {c \in Cmds : c.node \in Statement}

\* The list iterators stand where UnDo and ReDo leave them.
ListsOf(d) ==
    {l \in [cmds : Seq(Seq(CmdsOf(d))), undo : Nat, redo : Nat] :
        /\ l.redo \in 1..ListEnd(l)
        /\ l.undo = IF l.redo = 1 THEN ListEnd(l) ELSE l.redo - 1}

Whys == {"no", "freed", "assertion", "orphan", "linked"}
States == [t : Tree, alive : SUBSET Node,
           lists : [Document -> UNION {ListsOf(d) : d \in Document}], broken : Whys]

\* The triggers that have a list are in the space, but for those in W, whose
\* lists are about to be deleted.
Listed(s, W) == \A d \in Trigger \ W : s.lists[d] # EmptyList => InSpace(s.t, s.alive, d)

Good(s, W) ==
    /\ s \in States /\ TreeGood(s.t, s.alive)
    /\ \A d \in Document : s.lists[d] \in ListsOf(d)
    /\ Listed(s, W)

LEMMA CmdFields ==
    ASSUME NEW c \in Cmds
    PROVE  /\ c.op \in {"add", "delete", "move", "exchange"}
           /\ c.node \in Node \ {Root}
           /\ c.op # "exchange" => c.parent \in Ptr /\ c.prev \in Ptr /\ Fits(c.node, c.parent)
           /\ c.op = "move" =>
                c.orgParent \in Ptr /\ c.orgPrev \in Ptr /\ Fits(c.node, c.orgParent)
           /\ c.op = "exchange" => c.node \in Statement /\ c.other \in Statement
<1>1. Statement \subseteq Node \ {Root}
  BY EditAssumption
<1> QED BY <1>1 DEF Cmds

\* A record with another tree, other lists or another verdict.
LEMMA WithTree ==
    ASSUME NEW s, NEW W, Good(s, W), NEW u, NEW A, TreeGood(u, A),
           \A d \in Trigger \ W : InSpace(s.t, s.alive, d) => InSpace(u, A, d),
           NEW y, y = [t |-> u, alive |-> A, lists |-> s.lists, broken |-> s.broken]
    PROVE  Good(y, W)
<1>1. y \in States
  BY DEF Good, TreeGood, States
<1>2. Listed(y, W)
  BY DEF Good, Listed
<1> QED BY <1>1, <1>2 DEF Good

LEMMA BrokeGood ==
    ASSUME NEW s, NEW W, Good(s, W), NEW why \in Whys
    PROVE  /\ Good(Broke(s, why), W)
           /\ Broke(s, why).lists = s.lists
<1> DEFINE y == Broke(s, why)
<1>1. /\ y \in States /\ y.t = s.t /\ y.alive = s.alive /\ y.lists = s.lists
  BY DEF Good, States, Broke
<1> HIDE DEF y
<1>2. Listed(y, W)
  BY <1>1 DEF Good, Listed
<1>3. Good(y, W)
  BY <1>1, <1>2 DEF Good
<1> QED BY <1>1, <1>3 DEF y

\* AddNodeItem.
LEMMA AddNodeItemGood ==
    ASSUME NEW s, NEW W, Good(s, W), NEW n \in Node \ {Root}, NEW p \in Ptr, NEW v \in Ptr,
           Fits(n, p)
    PROVE  Good(AddNodeItem(s, n, p, v), W) /\ AddNodeItem(s, n, p, v).lists = s.lists
<1> DEFINE y == AddNodeItem(s, n, p, v)
           refer == IF v = NULL THEN s.t.first[p] ELSE v
           u == IF v = NULL THEN InsertBefore(s.t, p, n, refer) ELSE InsertOrAppend(s.t, p, n, v)
<1>1. s.t \in Tree /\ ParentsEnd(s.t) /\ TreeGood(s.t, s.alive)
  BY DEF Good, TreeGood, Sound
<1>2. CASE IsBroken(s) \/ p = NULL
  BY <1>2 DEF AddNodeItem
<1>3. CASE /\ ~IsBroken(s) /\ p # NULL
           /\ ~({n, p} \cup ({v} \ {NULL}) \subseteq s.alive)
  <2>1. y = Broke(s, "freed")
    BY <1>3 DEF AddNodeItem
  <2> QED BY <2>1, BrokeGood DEF Whys
<1>4. CASE /\ ~IsBroken(s) /\ p # NULL /\ {n, p} \cup ({v} \ {NULL}) \subseteq s.alive
           /\ ~ReferenceOK(s.t, p, n, refer)
  <2>1. y = Broke(s, "assertion")
    BY <1>4 DEF AddNodeItem
  <2> QED BY <2>1, BrokeGood DEF Whys
<1>5. CASE /\ ~IsBroken(s) /\ p # NULL /\ {n, p} \cup ({v} \ {NULL}) \subseteq s.alive
           /\ ReferenceOK(s.t, p, n, refer)
           /\ (s.t.parent[n] # NULL \/ n \in UpFrom(s.t, p))
  <2>1. y = Broke(s, "linked")
    BY <1>5 DEF AddNodeItem
  <2> QED BY <2>1, BrokeGood DEF Whys
<1>6. CASE /\ ~IsBroken(s) /\ p # NULL /\ {n, p} \cup ({v} \ {NULL}) \subseteq s.alive
           /\ ReferenceOK(s.t, p, n, refer)
           /\ ~(s.t.parent[n] # NULL \/ n \in UpFrom(s.t, p))
  <2>1. y = [s EXCEPT !.t = u]
    BY <1>6 DEF AddNodeItem
  <2>2. p \in Node /\ n \in s.alive /\ p \in s.alive
    BY <1>6 DEF Ptr
  <2>3. refer \in Ptr /\ s.t.parent[n] = NULL
    BY <1>1, <1>6, <2>2 DEF Tree
  <2>4. ~AncestorOrSelf(s.t, n, p)
    BY <1>1, <1>6, <2>2, UpFromIs
  <2>5. u \in {InsertBefore(s.t, p, n, refer), InsertOrAppend(s.t, p, n, refer)}
    OBVIOUS
  <2> HIDE DEF refer, u, y
  <2>6. /\ TreeGood(u, s.alive)
        /\ \A d \in Node : InSpace(s.t, s.alive, d) => InSpace(u, s.alive, d)
    <3> DEFINE t0 == s.t
               A0 == s.alive
    <3>1. /\ TreeGood(t0, A0) /\ p \in A0 /\ n \in A0 /\ n # Root
          /\ ReferenceOK(t0, p, n, refer) /\ t0.parent[n] = NULL /\ ~AncestorOrSelf(t0, n, p)
          /\ u \in {InsertBefore(t0, p, n, refer), InsertOrAppend(t0, p, n, refer)}
      BY <1>1, <1>6, <2>2, <2>3, <2>4, <2>5
    <3> HIDE DEF t0, A0
    <3>2. TreeGood(u, A0) /\ \A d \in Node : InSpace(t0, A0, d) => InSpace(u, A0, d)
      BY <2>3, <3>1, TreeInserted
    <3> QED BY <3>2 DEF t0, A0
  <2>7. y = [t |-> u, alive |-> s.alive, lists |-> s.lists, broken |-> s.broken]
    BY <2>1 DEF Good, States
  <2>8. Trigger \subseteq Node
    BY EditAssumption
  <2>9. Good(y, W)
    BY <2>6, <2>7, <2>8, WithTree
  <2> QED BY <2>7, <2>9 DEF y
<1> QED BY <1>2, <1>3, <1>4, <1>5, <1>6

\* The destructor of a command.
LEMMA DestroyedGood ==
    ASSUME NEW s, NEW W, Good(s, W), NEW c \in Cmds, NEW done \in BOOLEAN
    PROVE  Good(Destroyed(s, c, done), W) /\ Destroyed(s, c, done).lists = s.lists
<1> DEFINE h == Hanging(c, done)
           y == Destroyed(s, c, done)
<1>1. h = NULL \/ (h \in Node \ {Root} /\ (c.op = "exchange" => h \in Statement))
  <2>1. Statement \subseteq Node \ {Root}
    BY EditAssumption
  <2> QED BY <2>1, CmdFields DEF Hanging
<1>2. TreeGood(s.t, s.alive) /\ s \in States /\ Listed(s, W)
  BY DEF Good
<1> HIDE DEF h
<1>3. CASE IsBroken(s) \/ h = NULL
  BY <1>3 DEF Destroyed, h
<1>4. CASE ~(IsBroken(s) \/ h = NULL) /\ h \notin s.alive
  <2>1. y = Broke(s, "freed")
    BY <1>4 DEF Destroyed, h
  <2> QED BY <2>1, BrokeGood DEF Whys
<1>5. CASE /\ ~(IsBroken(s) \/ h = NULL) /\ h \in s.alive
           /\ ~(s.t.parent[h] = NULL \/ c.op = "exchange")
  BY <1>5 DEF Destroyed, h
<1>6. CASE /\ ~(IsBroken(s) \/ h = NULL) /\ h \in s.alive
           /\ (s.t.parent[h] = NULL \/ c.op = "exchange")
  <2> DEFINE t0 == s.t
             A0 == s.alive
             u == Remove(t0, h)
             A == A0 \ Deleted(t0, h)
  <2>1. y = [s EXCEPT !.t = u, !.alive = A]
    BY <1>6 DEF Destroyed, h
  <2>2. TreeGood(t0, A0) /\ h \in A0
    BY <1>2, <1>6
  <2>3. Root \notin Down(t0, h) /\ \A d \in Trigger : InSpace(t0, A0, d) => d \notin Down(t0, h)
    <3>1. CASE t0.parent[h] = NULL
      <4>1. Trigger \subseteq Node
        BY EditAssumption
      <4> QED BY <1>1, <1>6, <2>2, <3>1, <4>1, RootOnly DEF TreeGood, InSpace
    <3>2. CASE c.op = "exchange"
      <4>1. h \in Statement /\ h \in Node
        BY <1>1, <1>6, <3>2
      <4>2. h \notin Group \cup {Root} /\ Root \notin {h} \cup Statement
            /\ Trigger \cap ({h} \cup Statement) = {}
        BY <4>1, EditAssumption
      <4>3. Down(t0, h) \subseteq {h} \cup Statement
        BY <2>2, <4>1, <4>2, DownClass DEF TreeGood
      <4> QED BY <4>2, <4>3
    <3> QED BY <1>6, <3>1, <3>2
  <2> HIDE DEF t0, A0
  <2>4. /\ TreeGood(u, A)
        /\ \A d \in Node : InSpace(t0, A0, d) /\ d \notin Down(t0, h) => InSpace(u, A, d)
    BY <2>2, <2>3, TreeRemoved
  <2> HIDE DEF u, A, y
  <2>5. y = [t |-> u, alive |-> A, lists |-> s.lists, broken |-> s.broken]
    BY <1>2, <2>1 DEF States
  <2>6. Trigger \subseteq Node
    BY EditAssumption
  <2>7. \A d \in Trigger \ W : InSpace(s.t, s.alive, d) => InSpace(u, A, d)
    BY <2>3, <2>4, <2>6 DEF t0, A0
  <2>8. Good(y, W)
    BY <2>4, <2>5, <2>7, WithTree
  <2> QED BY <2>5, <2>8 DEF y
<1> QED BY <1>3, <1>4, <1>5, <1>6

\* Values that start in J[0] and go on from J to J end in it.
LEMMA Onwards ==
    ASSUME NEW n \in Nat, NEW J, NEW f, f[0] \in J[0],
           \A i \in 1..n : f[i - 1] \in J[i - 1] => f[i] \in J[i]
    PROVE  f[n] \in J[n]
<1> DEFINE I == {i \in 0..n : f[i] \in J[i]}
<1>1. 0 \in I /\ \A i \in 1..n : i - 1 \in I => i \in I
  OBVIOUS
<1> HIDE DEF I
<1>2. n \in I
  BY <1>1, FromZero
<1> QED BY <1>2 DEF I

\* The destructor of a macro.
LEMMA DestroyedMacroGood ==
    ASSUME NEW s, NEW W, Good(s, W), NEW m \in Seq(Cmds), NEW done \in BOOLEAN
    PROVE  Good(DestroyedMacro(s, m, done), W) /\ DestroyedMacro(s, m, done).lists = s.lists
<1> DEFINE n == Len(m)
           I == {y \in States : Good(y, W) /\ y.lists = s.lists}
           J == [i \in 0..n |-> I]
           G == [x \in (1..n) \X States |-> Destroyed(x[2], m[x[1]], done)]
           Q(g) == g = [i \in 0..n |-> IF i = 0 THEN s ELSE Destroyed(g[i - 1], m[i], done)]
           f == CHOOSE g : Q(g)
<1>1. DestroyedMacro(s, m, done) = f[n]
  BY DEF DestroyedMacro, Folded
<1>2. n \in Nat /\ \A i \in 1..n : m[i] \in Cmds
  OBVIOUS
<1>3. s \in I
  BY DEF Good
<1>4. ASSUME NEW i \in 1..n, NEW x \in I PROVE Destroyed(x, m[i], done) \in I
  <2>1. Good(x, W) /\ m[i] \in Cmds /\ x.lists = s.lists
    BY <1>2
  <2>2. Good(Destroyed(x, m[i], done), W) /\ Destroyed(x, m[i], done).lists = s.lists
    BY <2>1, DestroyedGood
  <2> QED BY <2>2 DEF Good
<1>5. I \subseteq States
  OBVIOUS
<1> HIDE DEF I, n
<1>6. \A i \in 1..n : \A x \in J[i - 1] : G[<<i, x>>] \in J[i]
  BY <1>2, <1>4, <1>5
<1>7. PICK g : g = [i \in 0..n |-> g[i]] /\ Turns(G, J, s, g, n)
  <2>1. s \in J[0]
    BY <1>2, <1>3
  <2> HIDE DEF J, G
  <2> QED BY <1>2, <1>6, <2>1, TurnsExist
<1>8. Q(g)
  <2>1. ASSUME NEW i \in 0..n
        PROVE  g[i] = IF i = 0 THEN s ELSE Destroyed(g[i - 1], m[i], done)
    <3>1. CASE i = 0
      BY <1>7, <3>1 DEF Turns
    <3>2. CASE i # 0
      <4>1. i \in 1..n /\ i - 1 \in 0..n
        BY <1>2, <3>2
      <4>2. g[i] = G[<<i, g[i - 1]>>] /\ g[i - 1] \in J[i - 1]
        BY <1>7, <4>1 DEF Turns
      <4>3. g[i - 1] \in States
        BY <1>5, <4>1, <4>2
      <4> QED BY <3>2, <4>1, <4>2, <4>3
    <3> QED BY <3>1, <3>2
  <2> QED BY <1>7, <2>1
<1>9. Q(f)
  <2> HIDE DEF Q
  <2> QED BY <1>8, Zenon
<1> HIDE DEF f
<1>10. f[n] \in J[n]
  <2>1. f[0] \in J[0]
    BY <1>2, <1>3, <1>9
  <2>2. ASSUME NEW i \in 1..n, f[i - 1] \in J[i - 1] PROVE f[i] \in J[i]
    <3>1. i \in 0..n /\ i # 0 /\ i - 1 \in 0..n
      BY <1>2
    <3>2. f[i] = Destroyed(f[i - 1], m[i], done)
      BY <1>9, <3>1
    <3> QED BY <1>4, <2>2, <3>1, <3>2
  <2> HIDE DEF J
  <2> QED BY <1>2, <2>1, <2>2, Onwards
<1>11. f[n] \in I
  BY <1>2, <1>10
<1> QED BY <1>1, <1>11 DEF I

\* The destructors of some macros of a list.
LEMMA DestroyedAllGood ==
    ASSUME NEW s, NEW W, Good(s, W), NEW m \in Seq(Seq(Cmds)), NEW done \in BOOLEAN
    PROVE  Good(DestroyedAll(s, m, done), W) /\ DestroyedAll(s, m, done).lists = s.lists
<1> DEFINE n == Len(m)
           I == {y \in States : Good(y, W) /\ y.lists = s.lists}
           J == [i \in 0..n |-> I]
           G == [x \in (1..n) \X States |-> DestroyedMacro(x[2], m[x[1]], done)]
           Q(g) == g = [i \in 0..n |-> IF i = 0 THEN s ELSE DestroyedMacro(g[i - 1], m[i], done)]
           f == CHOOSE g : Q(g)
<1>1. DestroyedAll(s, m, done) = f[n]
  BY DEF DestroyedAll, Folded
<1>2. n \in Nat /\ \A i \in 1..n : m[i] \in Seq(Cmds)
  OBVIOUS
<1>3. s \in I
  BY DEF Good
<1>4. ASSUME NEW i \in 1..n, NEW x \in I PROVE DestroyedMacro(x, m[i], done) \in I
  <2>1. Good(x, W) /\ m[i] \in Seq(Cmds) /\ x.lists = s.lists
    BY <1>2
  <2>2. Good(DestroyedMacro(x, m[i], done), W) /\ DestroyedMacro(x, m[i], done).lists = s.lists
    BY <2>1, DestroyedMacroGood
  <2> QED BY <2>2 DEF Good
<1>5. I \subseteq States
  OBVIOUS
<1> HIDE DEF I, n
<1>6. \A i \in 1..n : \A x \in J[i - 1] : G[<<i, x>>] \in J[i]
  BY <1>2, <1>4, <1>5
<1>7. PICK g : g = [i \in 0..n |-> g[i]] /\ Turns(G, J, s, g, n)
  <2>1. s \in J[0]
    BY <1>2, <1>3
  <2> HIDE DEF J, G
  <2> QED BY <1>2, <1>6, <2>1, TurnsExist
<1>8. Q(g)
  <2>1. ASSUME NEW i \in 0..n
        PROVE  g[i] = IF i = 0 THEN s ELSE DestroyedMacro(g[i - 1], m[i], done)
    <3>1. CASE i = 0
      BY <1>7, <3>1 DEF Turns
    <3>2. CASE i # 0
      <4>1. i \in 1..n /\ i - 1 \in 0..n
        BY <1>2, <3>2
      <4>2. g[i] = G[<<i, g[i - 1]>>] /\ g[i - 1] \in J[i - 1]
        BY <1>7, <4>1 DEF Turns
      <4>3. g[i - 1] \in States
        BY <1>5, <4>1, <4>2
      <4> QED BY <3>2, <4>1, <4>2, <4>3
    <3> QED BY <3>1, <3>2
  <2> QED BY <1>7, <2>1
<1>9. Q(f)
  <2> HIDE DEF Q
  <2> QED BY <1>8, Zenon
<1> HIDE DEF f
<1>10. f[n] \in J[n]
  <2>1. f[0] \in J[0]
    BY <1>2, <1>3, <1>9
  <2>2. ASSUME NEW i \in 1..n, f[i - 1] \in J[i - 1] PROVE f[i] \in J[i]
    <3>1. i \in 0..n /\ i # 0 /\ i - 1 \in 0..n
      BY <1>2
    <3>2. f[i] = DestroyedMacro(f[i - 1], m[i], done)
      BY <1>9, <3>1
    <3> QED BY <1>4, <2>2, <3>1, <3>2
  <2> HIDE DEF J
  <2> QED BY <1>2, <2>1, <2>2, Onwards
<1>11. f[n] \in I
  BY <1>2, <1>10
<1> QED BY <1>1, <1>11 DEF I

\* Sequences of a larger set.
LEMMA SeqMono ==
    ASSUME NEW A, NEW B, A \subseteq B
    PROVE  Seq(A) \subseteq Seq(B)
<1> SUFFICES ASSUME NEW q \in Seq(A) PROVE q \in Seq(B)
  OBVIOUS
<1>1. Len(q) \in Nat /\ q = [i \in 1..Len(q) |-> q[i]] /\ \A i \in 1..Len(q) : q[i] \in B
  OBVIOUS
<1> QED BY <1>1

\* What a list holds, and what RemoveCommands and AddCommand delete of it.
LEMMA ListParts ==
    ASSUME NEW d \in Document, NEW l \in ListsOf(d)
    PROVE  /\ l.cmds \in Seq(Seq(CmdsOf(d))) /\ l.redo \in 1..ListEnd(l) /\ Len(l.cmds) \in Nat
           /\ SubSeq(l.cmds, 1, l.redo - 1) \in Seq(Seq(CmdsOf(d)))
           /\ Leaving(l) \in Seq(Seq(CmdsOf(d)))
           /\ \A i \in 1..Len(l.cmds) : l.cmds[i] \in Seq(CmdsOf(d))
           /\ Seq(Seq(CmdsOf(d))) \subseteq Seq(Seq(Cmds)) /\ Seq(CmdsOf(d)) \subseteq Seq(Cmds)
<1> DEFINE C == CmdsOf(d)
<1>1. C \subseteq Cmds
  BY DEF CmdsOf
<1>2. /\ l.cmds \in Seq(Seq(C)) /\ l.redo \in 1..ListEnd(l) /\ Len(l.cmds) \in Nat
  BY DEF ListsOf
<1> HIDE DEF C
<1>3. l.redo \in 1..(Len(l.cmds) + 1)
  BY <1>2 DEF ListEnd
<1>4. SubSeq(l.cmds, 1, l.redo - 1) \in Seq(Seq(C))
  <2>1. \A i \in 1..(l.redo - 1) : l.cmds[i] \in Seq(C)
    BY <1>2, <1>3
  <2> QED BY <1>2, <1>3, <2>1, SubSeqProperties
<1>5. Leaving(l) \in Seq(Seq(C))
  <2>1. \A i \in l.redo..Len(l.cmds) : l.cmds[i] \in Seq(C)
    BY <1>2, <1>3
  <2> QED BY <1>2, <1>3, <2>1, SubSeqProperties DEF Leaving
<1>6. \A i \in 1..Len(l.cmds) : l.cmds[i] \in Seq(C)
  BY <1>2
<1>7. Seq(C) \subseteq Seq(Cmds)
  BY <1>1, SeqMono
<1>8. Seq(Seq(C)) \subseteq Seq(Seq(Cmds))
  BY <1>7, SeqMono
<1> QED BY <1>2, <1>4, <1>5, <1>6, <1>7, <1>8 DEF C

\* RemoveCommands on a trigger that is waiting for it.
LEMMA RemoveCommandsGood ==
    ASSUME NEW s, NEW W, NEW d \in Trigger, Good(s, W \cup {d})
    PROVE  /\ Good(RemoveCommands(s, d), W)
           /\ RemoveCommands(s, d).lists = [s.lists EXCEPT ![d] = EmptyList]
<1> DEFINE l == s.lists[d]
           V == W \cup {d}
           undone == SubSeq(l.cmds, 1, l.redo - 1)
           s1 == DestroyedAll(s, undone, TRUE)
           s2 == DestroyedAll(s1, Leaving(l), FALSE)
           y == RemoveCommands(s, d)
<1>1. d \in Document
  BY DEF Document
<1>2. undone \in Seq(Seq(Cmds)) /\ Leaving(l) \in Seq(Seq(Cmds))
  <2>1. l \in ListsOf(d)
    BY <1>1 DEF Good
  <2> HIDE DEF l
  <2> QED BY <1>1, <2>1, ListParts
<1>3. Good(s1, V) /\ s1.lists = s.lists
  BY <1>2, DestroyedAllGood
<1>4. Good(s2, V) /\ s2.lists = s.lists
  <2> HIDE DEF s1, undone
  <2> QED BY <1>2, <1>3, DestroyedAllGood
<1>5. y = [s2 EXCEPT !.lists[d] = EmptyList]
  BY DEF RemoveCommands
<1> HIDE DEF s1, s2, y, undone, l
<1>6. EmptyList \in ListsOf(d)
  <2>1. << >> \in Seq(Seq(CmdsOf(d))) /\ Len(<< >>) = 0
    OBVIOUS
  <2> QED BY <2>1 DEF EmptyList, ListsOf, ListEnd
<1>7. s2 \in States /\ s2.lists \in [Document -> UNION {ListsOf(e) : e \in Document}]
  BY <1>4 DEF Good, States
<1>8. y = [s2 EXCEPT !.lists = [s2.lists EXCEPT ![d] = EmptyList]]
  BY <1>5
<1>9. /\ y.t = s2.t /\ y.alive = s2.alive /\ y.broken = s2.broken
      /\ y.lists = [s2.lists EXCEPT ![d] = EmptyList] /\ y \in States
  BY <1>1, <1>6, <1>7, <1>8 DEF States
<1>10. \A e \in Document : y.lists[e] \in ListsOf(e)
  BY <1>4, <1>6, <1>7, <1>9 DEF Good
<1>11. Listed(y, W)
  <2> SUFFICES ASSUME NEW e \in Trigger \ W, y.lists[e] # EmptyList
               PROVE  InSpace(y.t, y.alive, e)
    BY DEF Listed
  <2>1. e \in Document
    BY DEF Document
  <2>2. e # d /\ y.lists[e] = s2.lists[e]
    BY <1>1, <1>7, <1>9, <2>1
  <2>3. Listed(s2, V)
    BY <1>4 DEF Good
  <2> QED BY <1>9, <2>2, <2>3 DEF Listed
<1>12. Good(y, W)
  BY <1>4, <1>9, <1>10, <1>11 DEF Good
<1> QED BY <1>4, <1>9, <1>12 DEF y

\* Lists stay, but for those of triggers, which may be deleted.
Evolved(ls, ms) ==
    \A d \in Document : ms[d] = ls[d] \/ (d \in Trigger /\ ms[d] = EmptyList)

\* RemoveCommands on all the triggers that wait for it.
LEMMA RemovedAllGood ==
    ASSUME NEW s, NEW q \in Seq(Trigger), Good(s, {q[j] : j \in 1..Len(q)})
    PROVE  LET y == Folded(RemoveCommands, s, q) IN
           Good(y, {}) /\ Evolved(s.lists, y.lists) /\ (q = << >> => y = s)
<1> DEFINE n == Len(q)
           W(i) == {q[j] : j \in (i + 1)..n}
           I(i) == {y \in States : Good(y, W(i)) /\ Evolved(s.lists, y.lists)}
           J == [i \in 0..n |-> I(i)]
           G == [x \in (1..n) \X States |-> RemoveCommands(x[2], q[x[1]])]
           Q(g) == g = [i \in 0..n |-> IF i = 0 THEN s ELSE RemoveCommands(g[i - 1], q[i])]
           f == CHOOSE g : Q(g)
<1>1. Folded(RemoveCommands, s, q) = f[n]
  BY DEF Folded
<1>2. n \in Nat /\ \A i \in 1..n : q[i] \in Trigger
  OBVIOUS
<1>3. s \in I(0)
  <2>1. W(0) = {q[j] : j \in 1..Len(q)}
    OBVIOUS
  <2>2. Evolved(s.lists, s.lists)
    BY DEF Evolved
  <2> HIDE DEF W
  <2> QED BY <2>1, <2>2 DEF Good
<1>4. ASSUME NEW i \in 1..n, NEW x \in I(i - 1) PROVE RemoveCommands(x, q[i]) \in I(i)
  <2> DEFINE y == RemoveCommands(x, q[i])
  <2>1. W(i - 1) = W(i) \cup {q[i]}
    BY <1>2
  <2>2. Good(x, W(i) \cup {q[i]}) /\ q[i] \in Trigger /\ Evolved(s.lists, x.lists)
    BY <1>2, <2>1
  <2> HIDE DEF W, y
  <2>3. Good(y, W(i)) /\ y.lists = [x.lists EXCEPT ![q[i]] = EmptyList]
    BY <2>2, RemoveCommandsGood DEF y
  <2>4. Evolved(s.lists, y.lists)
    <3>1. DOMAIN x.lists = Document
      BY <2>2 DEF Good, States
    <3> QED BY <2>2, <2>3, <3>1 DEF Evolved
  <2> QED BY <2>3, <2>4 DEF Good, y
<1>5. \A i \in 0..n : I(i) \subseteq States
  OBVIOUS
<1> HIDE DEF I, W, n
<1>6. \A i \in 1..n : \A x \in J[i - 1] : G[<<i, x>>] \in J[i]
  BY <1>2, <1>4, <1>5
<1>7. PICK g : g = [i \in 0..n |-> g[i]] /\ Turns(G, J, s, g, n)
  <2>1. s \in J[0]
    BY <1>2, <1>3
  <2> HIDE DEF J, G
  <2> QED BY <1>2, <1>6, <2>1, TurnsExist
<1>8. Q(g)
  <2>1. ASSUME NEW i \in 0..n
        PROVE  g[i] = IF i = 0 THEN s ELSE RemoveCommands(g[i - 1], q[i])
    <3>1. CASE i = 0
      BY <1>7, <3>1 DEF Turns
    <3>2. CASE i # 0
      <4>1. i \in 1..n /\ i - 1 \in 0..n
        BY <1>2, <3>2
      <4>2. g[i] = G[<<i, g[i - 1]>>] /\ g[i - 1] \in J[i - 1]
        BY <1>7, <4>1 DEF Turns
      <4>3. g[i - 1] \in States
        BY <1>5, <4>1, <4>2
      <4> QED BY <3>2, <4>1, <4>2, <4>3
    <3> QED BY <3>1, <3>2
  <2> QED BY <1>7, <2>1
<1>9. Q(f)
  <2> HIDE DEF Q
  <2> QED BY <1>8, Zenon
<1> HIDE DEF f
<1>10. f[n] \in J[n]
  <2>1. f[0] \in J[0]
    BY <1>2, <1>3, <1>9
  <2>2. ASSUME NEW i \in 1..n, f[i - 1] \in J[i - 1] PROVE f[i] \in J[i]
    <3>1. i \in 0..n /\ i # 0 /\ i - 1 \in 0..n
      BY <1>2
    <3>2. f[i] = RemoveCommands(f[i - 1], q[i])
      BY <1>9, <3>1
    <3> QED BY <1>4, <2>2, <3>1, <3>2
  <2> HIDE DEF J
  <2> QED BY <1>2, <2>1, <2>2, Onwards
<1>11. f[n] \in I(n)
  BY <1>2, <1>10
<1>12. W(n) = {}
  BY <1>2 DEF W
<1>13. q = << >> => f[n] = s
  <2>1. q = << >> => n = 0
    BY DEF n
  <2> QED BY <1>9, <2>1
<1> QED BY <1>1, <1>11, <1>12, <1>13 DEF I

\* What a step of a command does: the record stays good, and a command on a
\* statement deletes no list.
GoodStep(s, y, n) ==
    Good(y, {}) /\ Evolved(s.lists, y.lists) /\ (n \in Statement => y.lists = s.lists)

LEMMA StepOf ==
    ASSUME NEW s, NEW y, NEW n, Good(y, {}), y.lists = s.lists
    PROVE  GoodStep(s, y, n)
BY DEF GoodStep, Evolved

LEMMA StepThen ==
    ASSUME NEW s, NEW x, NEW y, NEW n, GoodStep(s, x, n), GoodStep(x, y, n)
    PROVE  GoodStep(s, y, n)
<1>1. Evolved(s.lists, x.lists) /\ Evolved(x.lists, y.lists)
  BY DEF GoodStep
<1>2. Evolved(s.lists, y.lists)
  BY <1>1 DEF Evolved
<1> QED BY <1>2 DEF GoodStep

\* RemoveItemNode.
LEMMA RemoveItemNodeGood ==
    ASSUME NEW s, Good(s, {}), NEW n \in Node \ {Root}
    PROVE  GoodStep(s, RemoveItemNode(s, n), n)
<1> DEFINE y == RemoveItemNode(s, n)
           t0 == s.t
           A0 == s.alive
           leaving == IF n \in Group \cup Trigger
                      THEN {d \in Trigger \cap A0 : n \in UpFrom(t0, d)} ELSE {}
           q == S!SetToSeq(leaving)
           s1 == [s EXCEPT !.t = Unlink(t0, n)]
<1>1. CASE IsBroken(s)
  BY <1>1, StepOf DEF RemoveItemNode
<1>2. CASE ~IsBroken(s) /\ n \notin A0
  <2>1. y = Broke(s, "freed")
    BY <1>2 DEF RemoveItemNode
  <2> QED BY <2>1, BrokeGood, StepOf DEF Whys
<1>3. CASE ~IsBroken(s) /\ n \in A0
  <2>1. y = Folded(RemoveCommands, s1, q)
    BY <1>3 DEF RemoveItemNode
  <2>2. TreeGood(t0, A0) /\ s \in States
    BY DEF Good
  <2>3. Trigger \subseteq Node /\ IsFiniteSet(Node)
    BY EditAssumption
  <2>4. leaving \subseteq Trigger /\ leaving \in SUBSET Node
    BY <2>3
  <2>5. /\ q \in Seq(leaving)
        /\ \A x \in leaving : \E i \in 1..Len(q) : q[i] = x
    <3>1. IsFiniteSet(leaving)
      BY <2>3, <2>4, FS_Subset
    <3> HIDE DEF leaving
    <3> QED BY <3>1, SetToSeqHasAll
  <2>6. \A d \in Trigger : InSpace(t0, A0, d) /\ d \notin leaving => d \notin Down(t0, n)
    <3> SUFFICES ASSUME NEW d \in Trigger, InSpace(t0, A0, d), d \notin leaving
                 PROVE  d \notin Down(t0, n)
      OBVIOUS
    <3>1. CASE n \in Group \cup Trigger
      <4>1. n \notin UpFrom(t0, d)
        BY <3>1 DEF InSpace
      <4>2. ~AncestorOrSelf(t0, n, d)
        BY <2>2, <2>3, <4>1, UpFromIs DEF TreeGood, Sound
      <4> QED BY <2>2, <2>3, <4>2, NotAboveNotBelow DEF TreeGood
    <3>2. CASE n \notin Group \cup Trigger
      <4>1. Down(t0, n) \subseteq {n} \cup Statement
        BY <2>2, <3>2, DownClass DEF TreeGood
      <4>2. d \notin {n} \cup Statement
        BY <3>2, EditAssumption
      <4> QED BY <4>1, <4>2
    <3> QED BY <3>1, <3>2
  <2>7. n \in Statement => leaving = {}
    BY EditAssumption
  <2> HIDE DEF leaving, q
  <2>8. /\ TreeGood(Unlink(t0, n), A0)
        /\ \A d \in Node : InSpace(t0, A0, d) /\ d \notin Down(t0, n)
                              => InSpace(Unlink(t0, n), A0, d)
    <3> HIDE DEF t0, A0
    <3> QED BY <1>3, <2>2, TreeUnlinked
  <2>9. s1 = [t |-> Unlink(t0, n), alive |-> s.alive, lists |-> s.lists, broken |-> s.broken]
    BY <2>2 DEF States
  <2> HIDE DEF s1
  <2>10. \A d \in Trigger \ leaving : InSpace(t0, A0, d) => InSpace(Unlink(t0, n), A0, d)
    BY <2>3, <2>6, <2>8
  <2>11. Good(s, leaving)
    BY DEF Good, Listed
  <2>12. Good(s1, leaving)
    BY <2>8, <2>9, <2>10, <2>11, WithTree
  <2>13. leaving = {q[j] : j \in 1..Len(q)} /\ q \in Seq(Trigger)
    <3>1. \A j \in 1..Len(q) : q[j] \in leaving
      BY <2>5
    <3>2. q \in Seq(Trigger)
      BY <2>4, <2>5, SeqMono
    <3> QED BY <2>5, <3>1, <3>2
  <2> HIDE DEF y
  <2>14. Good(y, {}) /\ Evolved(s1.lists, y.lists) /\ (q = << >> => y = s1)
    BY <2>1, <2>12, <2>13, RemovedAllGood
  <2>15. n \in Statement => q = << >>
    BY <2>5, <2>7
  <2>16. s1.lists = s.lists
    BY <2>9
  <2> QED BY <2>14, <2>15, <2>16 DEF GoodStep, y
<1> QED BY <1>1, <1>2, <1>3

\* Taken out and put back somewhere, as PasteNodeCmd and ExChangeNodeCmd do.
LEMMA MovedGood ==
    ASSUME NEW s, Good(s, {}), NEW n \in Node \ {Root}, NEW p \in Ptr, NEW v \in Ptr, Fits(n, p)
    PROVE  GoodStep(s, AddNodeItem(RemoveItemNode(s, n), n, p, v), n)
<1> DEFINE x == RemoveItemNode(s, n)
           y == AddNodeItem(x, n, p, v)
<1>1. GoodStep(s, x, n)
  BY RemoveItemNodeGood
<1> HIDE DEF x
<1>2. Good(y, {}) /\ y.lists = x.lists
  BY <1>1, AddNodeItemGood DEF GoodStep
<1> HIDE DEF y
<1>3. GoodStep(x, y, n)
  BY <1>2, StepOf
<1>4. GoodStep(s, y, n)
  BY <1>1, <1>3, StepThen
<1> QED BY <1>4 DEF x, y

\* ExChangeNodeCmd.
LEMMA ExchangedGood ==
    ASSUME NEW s, Good(s, {}), NEW l \in Statement, NEW r \in Statement
    PROVE  GoodStep(s, Exchanged(s, l, r), r)
<1> DEFINE y == Exchanged(s, l, r)
           t0 == s.t
           A0 == s.alive
           u == Swap(t0, l, r)
           s1 == [s EXCEPT !.t = u]
           apart == /\ l \notin UpFrom(t0, r) /\ r \notin UpFrom(t0, l)
                    /\ t0.prev[l] # r /\ t0.prev[r] # l
<1>1. CASE IsBroken(s)
  BY <1>1, StepOf DEF Exchanged
<1>2. CASE ~IsBroken(s) /\ ~({l, r} \subseteq A0)
  <2>1. y = Broke(s, "freed")
    BY <1>2 DEF Exchanged
  <2> QED BY <2>1, BrokeGood, StepOf DEF Whys
<1>3. CASE ~IsBroken(s) /\ {l, r} \subseteq A0 /\ ~apart
  <2>1. y = Broke(s, "linked")
    BY <1>3 DEF Exchanged
  <2> QED BY <2>1, BrokeGood, StepOf DEF Whys
<1>4. CASE ~IsBroken(s) /\ {l, r} \subseteq A0 /\ apart
  <2>1. y = AddNodeItem(RemoveItemNode(s1, r), r, s1.t.parent[r], s1.t.prev[r])
    BY <1>4 DEF Exchanged
  <2>2. TreeGood(t0, A0) /\ s \in States
    BY DEF Good
  <2>3. /\ Statement \subseteq Node \ {Root} /\ Trigger \subseteq Node \ Statement
        /\ l \in Node /\ r \in Node
    BY EditAssumption
  <2>4. /\ ~AncestorOrSelf(t0, l, r) /\ ~AncestorOrSelf(t0, r, l)
        /\ t0.prev[l] # r /\ t0.prev[r] # l
    BY <1>4, <2>2, <2>3, UpFromIs DEF TreeGood, Sound
  <2>5. l \in A0 \cap Statement /\ r \in A0 \cap Statement
    BY <1>4
  <2> HIDE DEF t0, A0, u, y
  <2>6. /\ TreeGood(u, A0)
        /\ \A d \in Node \ Statement : InSpace(t0, A0, d) => InSpace(u, A0, d)
    BY <2>2, <2>4, <2>5, TreeSwapped DEF u
  <2>7. s1 = [t |-> u, alive |-> A0, lists |-> s.lists, broken |-> s.broken]
    BY <2>2 DEF States, A0
  <2>8. s1.t = u /\ s1.lists = s.lists
    BY <2>7
  <2> HIDE DEF s1
  <2>9. \A d \in Trigger \ {} : InSpace(s.t, s.alive, d) => InSpace(u, A0, d)
    BY <2>3, <2>6 DEF t0, A0
  <2>10. Good(s1, {})
    BY <2>6, <2>7, <2>9, WithTree
  <2>11. u.parent[r] \in Ptr /\ u.prev[r] \in Ptr /\ Fits(r, u.parent[r]) /\ r \in Node \ {Root}
    BY <2>3, <2>6 DEF TreeGood, Tree
  <2> DEFINE p == s1.t.parent[r]
             v == s1.t.prev[r]
  <2>12. p \in Ptr /\ v \in Ptr /\ Fits(r, p)
    BY <2>8, <2>11
  <2> HIDE DEF p, v
  <2>13. GoodStep(s1, AddNodeItem(RemoveItemNode(s1, r), r, p, v), r)
    BY <2>10, <2>11, <2>12, MovedGood
  <2>14. GoodStep(s1, y, r)
    BY <2>1, <2>13 DEF p, v
  <2>15. GoodStep(s, y, r)
    BY <2>8, <2>14 DEF GoodStep
  <2> QED BY <2>15 DEF y
<1> QED BY <1>1, <1>2, <1>3, <1>4

\* Execute and UnExecute of a command.
LEMMA ExecutedGood ==
    ASSUME NEW s, Good(s, {}), NEW c \in Cmds
    PROVE  GoodStep(s, Executed(s, c), c.node)
<1>1. CASE c.op = "add"
  BY <1>1, CmdFields, AddNodeItemGood, StepOf DEF Executed
<1>2. CASE c.op = "delete"
  BY <1>2, CmdFields, RemoveItemNodeGood DEF Executed
<1>3. CASE c.op = "move"
  BY <1>3, CmdFields, MovedGood DEF Executed
<1>4. CASE c.op = "exchange"
  <2>1. c.node \in Statement /\ c.other \in Statement
    BY <1>4, CmdFields
  <2>2. GoodStep(s, Exchanged(s, c.node, c.other), c.other)
    BY <2>1, ExchangedGood
  <2> QED BY <1>4, <2>1, <2>2 DEF Executed, GoodStep
<1> QED BY <1>1, <1>2, <1>3, <1>4, CmdFields

LEMMA UnExecutedGood ==
    ASSUME NEW s, Good(s, {}), NEW c \in Cmds
    PROVE  GoodStep(s, UnExecuted(s, c), c.node)
<1>1. CASE c.op = "add"
  BY <1>1, CmdFields, RemoveItemNodeGood DEF UnExecuted
<1>2. CASE c.op = "delete"
  BY <1>2, CmdFields, AddNodeItemGood, StepOf DEF UnExecuted
<1>3. CASE c.op = "move"
  BY <1>3, CmdFields, MovedGood DEF UnExecuted
<1>4. CASE c.op = "exchange"
  <2>1. c.node \in Statement /\ c.other \in Statement
    BY <1>4, CmdFields
  <2>2. GoodStep(s, Exchanged(s, c.other, c.node), c.node)
    BY <2>1, ExchangedGood
  <2> QED BY <1>4, <2>2 DEF UnExecuted
<1> QED BY <1>1, <1>2, <1>3, <1>4, CmdFields

\* What a macro does, as GoodStep.
MacroStep(s, y, m) ==
    /\ Good(y, {}) /\ Evolved(s.lists, y.lists)
    /\ (\A i \in 1..Len(m) : m[i].node \in Statement) => y.lists = s.lists

\* The commands of a macro, one after the other.
LEMMA ExecutedAll ==
    ASSUME NEW s, Good(s, {}), NEW m \in Seq(Cmds)
    PROVE  MacroStep(s, Folded(Executed, s, m), m)
<1> DEFINE n == Len(m)
           ofStatements == \A i \in 1..n : m[i].node \in Statement
           I == {y \in States : /\ Good(y, {}) /\ Evolved(s.lists, y.lists)
                                /\ (ofStatements => y.lists = s.lists)}
           J == [i \in 0..n |-> I]
           G == [x \in (1..n) \X States |-> Executed(x[2], m[x[1]])]
           Q(g) == g = [i \in 0..n |-> IF i = 0 THEN s ELSE Executed(g[i - 1], m[i])]
           f == CHOOSE g : Q(g)
<1>1. Folded(Executed, s, m) = f[n]
  BY DEF Folded
<1>2. n \in Nat /\ \A i \in 1..n : m[i] \in Cmds
  OBVIOUS
<1>3. s \in I
  BY DEF Good, Evolved
<1>4. ASSUME NEW i \in 1..n, NEW x \in I PROVE Executed(x, m[i]) \in I
  <2> DEFINE y == Executed(x, m[i])
             c == m[i]
  <2>1. Good(x, {}) /\ c \in Cmds
    BY <1>2
  <2>2. GoodStep(x, y, c.node)
    BY <2>1, ExecutedGood
  <2>3. ofStatements => c.node \in Statement
    OBVIOUS
  <2>4. Evolved(s.lists, x.lists) /\ (ofStatements => x.lists = s.lists)
    OBVIOUS
  <2> HIDE DEF y, c, ofStatements
  <2>5. Good(y, {}) /\ Evolved(x.lists, y.lists) /\ (ofStatements => y.lists = x.lists)
    BY <2>2, <2>3 DEF GoodStep
  <2>6. Evolved(s.lists, y.lists)
    BY <2>4, <2>5 DEF Evolved
  <2>7. y \in I
    BY <2>4, <2>5, <2>6 DEF Good
  <2> QED BY <2>7 DEF y, c
<1>5. I \subseteq States
  OBVIOUS
<1> HIDE DEF I, n
<1>6. \A i \in 1..n : \A x \in J[i - 1] : G[<<i, x>>] \in J[i]
  BY <1>2, <1>4, <1>5
<1>7. PICK g : g = [i \in 0..n |-> g[i]] /\ Turns(G, J, s, g, n)
  <2>1. s \in J[0]
    BY <1>2, <1>3
  <2> HIDE DEF J, G
  <2> QED BY <1>2, <1>6, <2>1, TurnsExist
<1>8. Q(g)
  <2>1. ASSUME NEW i \in 0..n
        PROVE  g[i] = IF i = 0 THEN s ELSE Executed(g[i - 1], m[i])
    <3>1. CASE i = 0
      BY <1>7, <3>1 DEF Turns
    <3>2. CASE i # 0
      <4>1. i \in 1..n /\ i - 1 \in 0..n
        BY <1>2, <3>2
      <4>2. g[i] = G[<<i, g[i - 1]>>] /\ g[i - 1] \in J[i - 1]
        BY <1>7, <4>1 DEF Turns
      <4>3. g[i - 1] \in States
        BY <1>5, <4>1, <4>2
      <4> QED BY <3>2, <4>1, <4>2, <4>3
    <3> QED BY <3>1, <3>2
  <2> QED BY <1>7, <2>1
<1>9. Q(f)
  <2> HIDE DEF Q
  <2> QED BY <1>8, Zenon
<1> HIDE DEF f
<1>10. f[n] \in J[n]
  <2>1. f[0] \in J[0]
    BY <1>2, <1>3, <1>9
  <2>2. ASSUME NEW i \in 1..n, f[i - 1] \in J[i - 1] PROVE f[i] \in J[i]
    <3>1. i \in 0..n /\ i # 0 /\ i - 1 \in 0..n
      BY <1>2
    <3>2. f[i] = Executed(f[i - 1], m[i])
      BY <1>9, <3>1
    <3> QED BY <1>4, <2>2, <3>1, <3>2
  <2> HIDE DEF J
  <2> QED BY <1>2, <2>1, <2>2, Onwards
<1>11. f[n] \in I
  BY <1>2, <1>10
<1> QED BY <1>1, <1>11 DEF I, MacroStep, n

\* And their undoing.
LEMMA UnExecutedAll ==
    ASSUME NEW s, Good(s, {}), NEW m \in Seq(Cmds)
    PROVE  MacroStep(s, Folded(UnExecuted, s, m), m)
<1> DEFINE n == Len(m)
           ofStatements == \A i \in 1..n : m[i].node \in Statement
           I == {y \in States : /\ Good(y, {}) /\ Evolved(s.lists, y.lists)
                                /\ (ofStatements => y.lists = s.lists)}
           J == [i \in 0..n |-> I]
           G == [x \in (1..n) \X States |-> UnExecuted(x[2], m[x[1]])]
           Q(g) == g = [i \in 0..n |-> IF i = 0 THEN s ELSE UnExecuted(g[i - 1], m[i])]
           f == CHOOSE g : Q(g)
<1>1. Folded(UnExecuted, s, m) = f[n]
  BY DEF Folded
<1>2. n \in Nat /\ \A i \in 1..n : m[i] \in Cmds
  OBVIOUS
<1>3. s \in I
  BY DEF Good, Evolved
<1>4. ASSUME NEW i \in 1..n, NEW x \in I PROVE UnExecuted(x, m[i]) \in I
  <2> DEFINE y == UnExecuted(x, m[i])
             c == m[i]
  <2>1. Good(x, {}) /\ c \in Cmds
    BY <1>2
  <2>2. GoodStep(x, y, c.node)
    BY <2>1, UnExecutedGood
  <2>3. ofStatements => c.node \in Statement
    OBVIOUS
  <2>4. Evolved(s.lists, x.lists) /\ (ofStatements => x.lists = s.lists)
    OBVIOUS
  <2> HIDE DEF y, c, ofStatements
  <2>5. Good(y, {}) /\ Evolved(x.lists, y.lists) /\ (ofStatements => y.lists = x.lists)
    BY <2>2, <2>3 DEF GoodStep
  <2>6. Evolved(s.lists, y.lists)
    BY <2>4, <2>5 DEF Evolved
  <2>7. y \in I
    BY <2>4, <2>5, <2>6 DEF Good
  <2> QED BY <2>7 DEF y, c
<1>5. I \subseteq States
  OBVIOUS
<1> HIDE DEF I, n
<1>6. \A i \in 1..n : \A x \in J[i - 1] : G[<<i, x>>] \in J[i]
  BY <1>2, <1>4, <1>5
<1>7. PICK g : g = [i \in 0..n |-> g[i]] /\ Turns(G, J, s, g, n)
  <2>1. s \in J[0]
    BY <1>2, <1>3
  <2> HIDE DEF J, G
  <2> QED BY <1>2, <1>6, <2>1, TurnsExist
<1>8. Q(g)
  <2>1. ASSUME NEW i \in 0..n
        PROVE  g[i] = IF i = 0 THEN s ELSE UnExecuted(g[i - 1], m[i])
    <3>1. CASE i = 0
      BY <1>7, <3>1 DEF Turns
    <3>2. CASE i # 0
      <4>1. i \in 1..n /\ i - 1 \in 0..n
        BY <1>2, <3>2
      <4>2. g[i] = G[<<i, g[i - 1]>>] /\ g[i - 1] \in J[i - 1]
        BY <1>7, <4>1 DEF Turns
      <4>3. g[i - 1] \in States
        BY <1>5, <4>1, <4>2
      <4> QED BY <3>2, <4>1, <4>2, <4>3
    <3> QED BY <3>1, <3>2
  <2> QED BY <1>7, <2>1
<1>9. Q(f)
  <2> HIDE DEF Q
  <2> QED BY <1>8, Zenon
<1> HIDE DEF f
<1>10. f[n] \in J[n]
  <2>1. f[0] \in J[0]
    BY <1>2, <1>3, <1>9
  <2>2. ASSUME NEW i \in 1..n, f[i - 1] \in J[i - 1] PROVE f[i] \in J[i]
    <3>1. i \in 0..n /\ i # 0 /\ i - 1 \in 0..n
      BY <1>2
    <3>2. f[i] = UnExecuted(f[i - 1], m[i])
      BY <1>9, <3>1
    <3> QED BY <1>4, <2>2, <3>1, <3>2
  <2> HIDE DEF J
  <2> QED BY <1>2, <2>1, <2>2, Onwards
<1>11. f[n] \in I
  BY <1>2, <1>10
<1> QED BY <1>1, <1>11 DEF I, MacroStep, n

LEMMA ExecutedMacroGood ==
    ASSUME NEW s, Good(s, {}), NEW m \in Seq(Cmds)
    PROVE  MacroStep(s, ExecutedMacro(s, m), m)
BY ExecutedAll DEF ExecutedMacro

LEMMA UnExecutedMacroGood ==
    ASSUME NEW s, Good(s, {}), NEW m \in Seq(Cmds)
    PROVE  MacroStep(s, UnExecutedMacro(s, m), m)
<1> DEFINE back == S!Reverse(m)
<1>1. back = [i \in 1..Len(m) |-> m[(Len(m) - i) + 1]]
  BY DEF S!Reverse
<1>2. \A i \in 1..Len(m) : (Len(m) - i) + 1 \in 1..Len(m)
  OBVIOUS
<1>3. back \in Seq(Cmds) /\ Len(back) = Len(m)
  BY <1>1, <1>2
<1>4. (\A i \in 1..Len(m) : m[i].node \in Statement)
        => \A i \in 1..Len(back) : back[i].node \in Statement
  BY <1>1, <1>2, <1>3
<1>5. MacroStep(s, Folded(UnExecuted, s, back), back)
  <2> HIDE DEF back
  <2> QED BY <1>3, UnExecutedAll
<1> QED BY <1>4, <1>5 DEF UnExecutedMacro, MacroStep

-----------------------------------------------------------------------------
(* What the windows offer.                                                 *)

\* What is above a node has it below.
LEMMA AboveIsDown ==
    ASSUME NEW t \in Tree, NEW d \in Node, NEW n \in Node, AncestorOrSelf(t, d, n)
    PROVE  n \in Down(t, d)
<1> SUFFICES ASSUME n \notin Down(t, d) PROVE FALSE
  OBVIOUS
<1> DEFINE A == Node \ Down(t, d)
<1>1. A \in SUBSET Node /\ n \in A /\ d \notin A
  BY DownClosed
<1>2. \A x \in A : t.parent[x] # NULL => t.parent[x] \in A
  <2>1. \A x \in Node : t.parent[x] \in Ptr
    BY DEF Tree
  <2>2. \A c \in Node : t.parent[c] \in Down(t, d) => c \in Down(t, d)
    BY DownClosed
  <2> QED BY <2>1, <2>2 DEF Ptr
<1> QED BY <1>1, <1>2 DEF AncestorOrSelf

\* A trigger or function shows statements, the gallery none.
LEMMA ShownNodes ==
    ASSUME TreeGood(tree, alive), NEW d \in Document
    PROVE  /\ Shown(d) \subseteq Node \ {Root}
           /\ d = Gallery => Shown(d) \subseteq Node \ ({Root} \cup Statement)
           /\ d # Gallery => Shown(d) \subseteq Statement /\ d \in Node
<1>1. CASE d = Gallery
  <2>1. Shown(d) \subseteq Group \cup Trigger \cup Function
    BY <1>1 DEF Shown
  <2> QED BY <1>1, <2>1, EditAssumption
<1>2. CASE d # Gallery
  <2>1. d \in Node \ (Group \cup {Root}) /\ Statement \subseteq Node \ {Root}
    BY <1>2, EditAssumption DEF Document
  <2>2. Down(tree, d) \subseteq {d} \cup Statement
    BY <2>1, DownClass DEF TreeGood
  <2>3. ASSUME NEW n \in Shown(d) PROVE n \in Statement
    <3>1. n \in Node /\ n # d /\ d \in UpFrom(tree, n)
      BY <1>2, <2>3 DEF Shown, TreeGood
    <3>2. AncestorOrSelf(tree, d, n)
      BY <3>1, UpFromIs DEF TreeGood, Sound
    <3>3. n \in Down(tree, d)
      BY <2>1, <3>1, <3>2, AboveIsDown DEF TreeGood
    <3> QED BY <2>2, <3>1, <3>3
  <2> QED BY <1>2, <2>1, <2>3
<1> QED BY <1>1, <1>2

LEMMA SelectionNodes ==
    ASSUME NEW d, NEW sel \in Selections(d)
    PROVE  sel \in Seq(Shown(d))
<1> DEFINE X == Shown(d)
<1>1. sel = << >> \/ (\E n \in X : sel = <<n>>) \/ sel \in X \X X
  BY DEF Selections
<1> HIDE DEF X
<1>2. << >> \in Seq(X) /\ \A n \in X : <<n>> \in Seq(X)
  OBVIOUS
<1>3. X \X X \subseteq Seq(X)
  OBVIOUS
<1> QED BY <1>1, <1>2, <1>3 DEF X

\* Where a window puts a node is a place for its class.
LEMMA LocalityFits ==
    ASSUME TreeGood(tree, alive), NEW d \in Document, NEW sel \in Selectable(d),
           NEW n, NEW new \in BOOLEAN, NEW at \in Locality(d, n, sel, new)
    PROVE  /\ at[1] \in Ptr /\ at[2] \in Ptr
           /\ d # Gallery => n \in Statement
           /\ d = Gallery => n \notin Statement /\ at[1] \in Group \cup {Root, NULL}
<1>1. tree \in Tree /\ OneLast(tree) /\ \A c \in Node : Fits(c, tree.parent[c])
  BY DEF TreeGood, Sound, Linked
<1>2. sel \in Node
  BY ShownNodes, EditAssumption DEF Selectable
<1>3. /\ \A p \in Node : AtEnd(p)[1] = p /\ AtEnd(p)[2] \in Ptr
      /\ \A p \in Node : After(p)[1] = tree.parent[p] /\ After(p)[2] = p
      /\ \A p \in Node : p \in Ptr /\ tree.parent[p] \in Ptr
      /\ NULL \in Ptr
  BY <1>1, LastChildType DEF AtEnd, After, Ptr, Tree
<1>4. CASE d # Gallery
  <2>1. n \in Statement /\ at \in StatementLocality(d, sel)
    BY <1>4 DEF Locality
  <2>2. at \in {<<sel, NULL>>, AtEnd(sel), After(sel)}
    BY <2>1 DEF StatementLocality
  <2> QED BY <1>2, <1>3, <1>4, <2>1, <2>2
<1>5. CASE d = Gallery
  <2>1. /\ n \in Group \/ n \in Trigger \/ n \in Function
        /\ at \in GetGroupLocality(sel, new) \cup GetTriggerLocality(sel)
    BY <1>5 DEF Locality
  <2>2. \/ at = AtEnd(sel) /\ sel \in Group \cup {Root}
        \/ at = After(sel) /\ sel \in Group \cup Trigger \cup Function
    BY <2>1 DEF GetGroupLocality, GetTriggerLocality
  <2>3. n \notin Statement
    BY <2>1, EditAssumption
  <2>4. CASE at = AtEnd(sel) /\ sel \in Group \cup {Root}
    BY <1>2, <1>3, <1>5, <2>3, <2>4
  <2>5. CASE at = After(sel) /\ sel \in Group \cup Trigger \cup Function
    <3>1. sel \notin Statement
      BY <2>5, EditAssumption
    <3>2. tree.parent[sel] \in Group \cup {Root, NULL}
      BY <1>1, <1>2, <3>1 DEF Fits
    <3> QED BY <1>2, <1>3, <1>5, <2>3, <2>5, <3>2
  <2> QED BY <2>2, <2>4, <2>5
<1> QED BY <1>4, <1>5

\* What stays cut is some of what was cut.
LEMMA StillCutOf ==
    ASSUME NEW X, cutting.nodes \in Seq(X), NEW sel
    PROVE  StillCut(sel) \in Seq(X)
<1> DEFINE m == cutting.nodes
           n == Len(m)
           s == << >>
           Kept(q, c) == IF \E i \in 1..Len(sel) : sel[i] = c THEN q ELSE Append(q, c)
           I == Seq(X)
           J == [i \in 0..n |-> I]
           G == [x \in (1..n) \X Seq(X) |-> Kept(x[2], m[x[1]])]
           Q(g) == g = [i \in 0..n |-> IF i = 0 THEN s ELSE Kept(g[i - 1], m[i])]
           f == CHOOSE g : Q(g)
<1>1. StillCut(sel) = f[n]
  BY DEF StillCut, Folded
<1>2. n \in Nat /\ \A i \in 1..n : m[i] \in X
  OBVIOUS
<1>3. s \in I
  OBVIOUS
<1>4. ASSUME NEW i \in 1..n, NEW x \in I PROVE Kept(x, m[i]) \in I
  BY <1>2
<1>5. I \subseteq Seq(X)
  OBVIOUS
<1> HIDE DEF I, n, Kept, m, s
<1>6. \A i \in 1..n : \A x \in J[i - 1] : G[<<i, x>>] \in J[i]
  BY <1>2, <1>4, <1>5
<1>7. PICK g : g = [i \in 0..n |-> g[i]] /\ Turns(G, J, s, g, n)
  <2>1. s \in J[0]
    BY <1>2, <1>3
  <2> HIDE DEF J, G
  <2> QED BY <1>2, <1>6, <2>1, TurnsExist
<1>8. Q(g)
  <2>1. ASSUME NEW i \in 0..n
        PROVE  g[i] = IF i = 0 THEN s ELSE Kept(g[i - 1], m[i])
    <3>1. CASE i = 0
      BY <1>7, <3>1 DEF Turns
    <3>2. CASE i # 0
      <4>1. i \in 1..n /\ i - 1 \in 0..n
        BY <1>2, <3>2
      <4>2. g[i] = G[<<i, g[i - 1]>>] /\ g[i - 1] \in J[i - 1]
        BY <1>7, <4>1 DEF Turns
      <4>3. g[i - 1] \in Seq(X)
        BY <1>5, <4>1, <4>2
      <4> QED BY <3>2, <4>1, <4>2, <4>3
    <3> QED BY <3>1, <3>2
  <2> QED BY <1>7, <2>1
<1>9. Q(f)
  <2> HIDE DEF Q
  <2> QED BY <1>8, Zenon
<1> HIDE DEF f
<1>10. f[n] \in J[n]
  <2>1. f[0] \in J[0]
    BY <1>2, <1>3, <1>9
  <2>2. ASSUME NEW i \in 1..n, f[i - 1] \in J[i - 1] PROVE f[i] \in J[i]
    <3>1. i \in 0..n /\ i # 0 /\ i - 1 \in 0..n
      BY <1>2
    <3>2. f[i] = Kept(f[i - 1], m[i])
      BY <1>9, <3>1
    <3> QED BY <1>4, <2>2, <3>1, <3>2
  <2> HIDE DEF J
  <2> QED BY <1>2, <2>1, <2>2, Onwards
<1>11. f[n] \in I
  BY <1>2, <1>10
<1> QED BY <1>1, <1>11 DEF I

-----------------------------------------------------------------------------
(* The invariant: the record of now is good; what was shown is noted at    *)
(* each place of each list; what is cut is all statements or none.         *)

Views == UNION {[N -> Ptr \X Ptr] : N \in SUBSET Node}

SeenGood(ls, sn) ==
    /\ sn = [d \in Document |-> sn[d]]
    /\ \A d \in Document :
        /\ sn[d] \in Seq(Views)
        /\ Len(sn[d]) = IF ls[d] = EmptyList THEN 0 ELSE Len(ls[d].cmds) + 1

Cutting == [doc : Document,
            nodes : Seq(Statement) \cup Seq(Node \ ({Root} \cup Statement))]

EditIInv ==
    /\ space \in Spaces /\ Good(Now, {})
    /\ SeenGood(lists, seen) /\ cutting \in Cutting

LEMMA ViewType ==
    ASSUME tree \in Tree, alive \subseteq Node, NEW d
    PROVE  View(d) \in Views
<1>1. Shown(d) \in SUBSET Node
  BY DEF Shown
<1>2. \A n \in Node : <<tree.parent[n], tree.prev[n]>> \in Ptr \X Ptr
  BY DEF Tree
<1> DEFINE N == Shown(d)
<1> HIDE DEF N
<1>3. [n \in N |-> <<tree.parent[n], tree.prev[n]>>] \in [N -> Ptr \X Ptr]
  BY <1>1, <1>2 DEF N
<1> QED BY <1>1, <1>3 DEF View, Views, N

LEMMA DestroyedNone ==
    ASSUME NEW s, NEW done
    PROVE  DestroyedAll(s, << >>, done) = s
<1> DEFINE m == << >>
           Q(g) == g = [i \in 0..Len(m) |-> IF i = 0 THEN s ELSE DestroyedMacro(g[i - 1], m[i], done)]
           g0 == [i \in 0..0 |-> s]
<1>1. DestroyedAll(s, m, done) = (CHOOSE g : Q(g))[Len(m)]
  BY DEF DestroyedAll, Folded
<1>2. Len(m) = 0
  OBVIOUS
<1>3. Q(g0)
  BY <1>2
<1>4. Q(CHOOSE g : Q(g))
  <2> HIDE DEF Q, g0
  <2> QED BY <1>3, Zenon
<1>5. (CHOOSE g : Q(g))[0] = s
  <2> DEFINE f == CHOOSE g : Q(g)
  <2>1. f = [i \in 0..Len(m) |-> IF i = 0 THEN s ELSE DestroyedMacro(f[i - 1], m[i], done)]
    BY <1>4
  <2> HIDE DEF f
  <2>2. f[0] = s
    BY <1>2, <2>1
  <2> QED BY <2>2 DEF f
<1> QED BY <1>1, <1>2, <1>5

\* What AddCommand leaves of the list.
LEMMA PushedGood ==
    ASSUME NEW d \in Document, NEW l \in ListsOf(d), NEW m \in Seq(CmdsOf(d))
    PROVE  /\ Pushed(l, m) \in ListsOf(d) /\ Pushed(l, m) # EmptyList
           /\ Len(Pushed(l, m).cmds) = l.redo
<1> DEFINE kept == SubSeq(l.cmds, 1, l.redo - 1)
<1>1. /\ kept \in Seq(Seq(CmdsOf(d))) /\ l.redo \in 1..(Len(l.cmds) + 1) /\ Len(l.cmds) \in Nat
  BY ListParts DEF ListEnd
<1>2. Len(kept) = l.redo - 1
  <2>1. l.cmds \in Seq(Seq(CmdsOf(d)))
    BY ListParts
  <2> QED BY <1>1, <2>1
<1> HIDE DEF kept
<1>3. Append(kept, m) \in Seq(Seq(CmdsOf(d))) /\ Len(Append(kept, m)) = l.redo
  BY <1>1, <1>2
<1> DEFINE c == Append(kept, m)
           r == l.redo
<1>4. Pushed(l, m) = [cmds |-> c, undo |-> r, redo |-> r + 1]
  <2>1. Len(kept) + 1 = l.redo /\ Len(kept) + 2 = l.redo + 1
    BY <1>1, <1>2
  <2>2. Pushed(l, m) = [cmds |-> Append(kept, m), undo |-> Len(kept) + 1, redo |-> Len(kept) + 2]
    BY DEF Pushed, kept
  <2> QED BY <2>1, <2>2
<1>5. r \in Nat \ {0} /\ c \in Seq(Seq(CmdsOf(d))) /\ Len(c) = r
  BY <1>1, <1>3
<1> HIDE DEF c, r
<1>6. Pushed(l, m).redo # EmptyList.redo
  BY <1>4, <1>5 DEF EmptyList
<1>7. Pushed(l, m) \in ListsOf(d)
  BY <1>4, <1>5 DEF ListsOf, ListEnd
<1> QED BY <1>4, <1>5, <1>6, <1>7 DEF r

\* A list of d put in the place of another one.
LEMMA WithListGood ==
    ASSUME NEW s, Good(s, {}), NEW d \in Document, d \in Trigger => InSpace(s.t, s.alive, d),
           NEW p \in ListsOf(d), NEW ls, ls = [s.lists EXCEPT ![d] = p],
           NEW y, y = [t |-> s.t, alive |-> s.alive, lists |-> ls, broken |-> s.broken]
    PROVE  /\ Good(y, {}) /\ ls[d] = p
           /\ [s EXCEPT !.lists[d] = p] = y
<1> DEFINE Any == UNION {ListsOf(e) : e \in Document}
<1>1. s \in States /\ s.lists \in [Document -> Any]
  BY DEF Good, States
<1>2. ls \in [Document -> Any] /\ \A e \in Document : ls[e] = IF e = d THEN p ELSE s.lists[e]
  BY <1>1
<1>3. [s EXCEPT !.lists[d] = p] = y
  <2>1. [s EXCEPT !.lists[d] = p] = [s EXCEPT !.lists = ls]
    OBVIOUS
  <2> HIDE DEF Any
  <2>2. [s EXCEPT !.lists = ls] = y
    BY <1>1 DEF States
  <2> QED BY <2>1, <2>2
<1>4. y \in States
  BY <1>1, <1>2 DEF States
<1>5. y.t = s.t /\ y.alive = s.alive /\ y.lists = ls
  OBVIOUS
<1>6. \A e \in Document : y.lists[e] \in ListsOf(e)
  BY <1>2, <1>5 DEF Good
<1>7. Listed(y, {})
  <2> SUFFICES ASSUME NEW e \in Trigger, ls[e] # EmptyList
               PROVE  InSpace(s.t, s.alive, e)
    BY <1>5 DEF Listed
  <2>1. CASE e = d
    BY <2>1
  <2>2. CASE e # d
    <3>1. s.lists[e] # EmptyList
      BY <1>2, <2>2 DEF Document
    <3> QED BY <3>1 DEF Good, Listed
  <2> QED BY <2>1, <2>2
<1> QED BY <1>2, <1>3, <1>4, <1>5, <1>6, <1>7 DEF Good

\* AddCommand of a macro that fits the document.
LEMMA AddCommandGood ==
    ASSUME EditIInv, NEW d \in Document, NEW s, Good(s, {}), s.lists = lists,
           d \in Trigger => InSpace(s.t, s.alive, d),
           NEW m \in Seq(CmdsOf(d)), AddCommand(s, d, m)
    PROVE  Good(Now', {}) /\ SeenGood(lists', seen') /\ lists'[d] = Pushed(lists[d], m)
<1> DEFINE l == lists[d]
           s1 == DestroyedAll(s, Leaving(l), FALSE)
           p == Pushed(l, m)
           s2 == [s1 EXCEPT !.lists[d] = p]
           y == ExecutedMacro(s2, m)
<1>1. l \in ListsOf(d) /\ TreeGood(tree, alive)
  BY DEF EditIInv, Good, Now
<1>2. Becomes(y)
  BY DEF AddCommand
<1>3. seen' = [e \in Document |->
                 IF lists'[e] = EmptyList THEN << >>
                 ELSE IF e # d THEN seen[e]
                 ELSE Append(IF l.redo = 1 THEN <<View(d)>> ELSE SubSeq(seen[d], 1, l.redo),
                             View(d)')]
  BY DEF AddCommand
<1> HIDE DEF l, y
<1>4. Leaving(l) \in Seq(Seq(Cmds)) /\ m \in Seq(Cmds)
  BY <1>1, ListParts
<1>5. Good(s1, {}) /\ s1.lists = lists
  BY <1>4, DestroyedAllGood
<1>6. d \in Trigger => InSpace(s1.t, s1.alive, d)
  <2>1. CASE l = EmptyList
    <3>1. Leaving(l) = << >>
      BY <2>1 DEF EmptyList, Leaving
    <3>2. s1 = s
      BY <3>1, DestroyedNone
    <3> QED BY <3>2
  <2>2. CASE l # EmptyList
    BY <1>5, <2>2 DEF Good, Listed, l
  <2> QED BY <2>1, <2>2
<1>7. p \in ListsOf(d) /\ p # EmptyList /\ Len(p.cmds) = l.redo
  BY <1>1, PushedGood
<1> HIDE DEF s1, p
<1>8. Good(s2, {}) /\ s2.lists = [lists EXCEPT ![d] = p]
  <2> DEFINE ls == [s1.lists EXCEPT ![d] = p]
             y2 == [t |-> s1.t, alive |-> s1.alive, lists |-> ls, broken |-> s1.broken]
  <2>1. y2.lists = ls
    OBVIOUS
  <2> HIDE DEF y2
  <2>2. Good(y2, {}) /\ s2 = y2
    <3>1. y2 = [t |-> s1.t, alive |-> s1.alive, lists |-> ls, broken |-> s1.broken]
      BY DEF y2
    <3> QED BY <1>5, <1>6, <1>7, <3>1, WithListGood
  <2> QED BY <1>5, <2>1, <2>2
<1> HIDE DEF s2
<1>9. MacroStep(s2, y, m)
  BY <1>4, <1>8, ExecutedMacroGood DEF y
<1>10. y.lists[d] = p /\ \A e \in Document \ {d} : y.lists[e] = lists[e] \/ y.lists[e] = EmptyList
  <2>1. DOMAIN lists = Document
    BY <1>5 DEF Good, States
  <2>2. s2.lists[d] = p /\ \A e \in Document \ {d} : s2.lists[e] = lists[e]
    BY <1>8, <2>1
  <2>3. y.lists[d] = p
    <3>1. CASE d \in Trigger
      <4>1. d # Gallery
        BY <3>1, EditAssumption
      <4>2. \A i \in 1..Len(m) : m[i].node \in Statement
        BY <4>1 DEF CmdsOf
      <4> QED BY <1>9, <2>2, <4>2 DEF MacroStep
    <3>2. CASE d \notin Trigger
      BY <1>9, <2>2, <3>2 DEF MacroStep, Evolved
    <3> QED BY <3>1, <3>2
  <2> QED BY <1>9, <2>2, <2>3 DEF MacroStep, Evolved
<1>11. y \in States /\ Good(y, {})
  BY <1>9 DEF MacroStep, Good
<1>12. Now' = y /\ lists' = y.lists /\ tree' = y.t /\ alive' = y.alive
  BY <1>2, <1>11 DEF Becomes, Now, States
<1>13. SeenGood(lists', seen')
  <2>1. View(d) \in Views
    BY <1>1, ViewType DEF TreeGood
  <2>2. View(d)' \in Views
    <3>1. tree' \in Tree /\ alive' \subseteq Node
      BY <1>11, <1>12 DEF States
    <3>2. Shown(d)' \in SUBSET Node
      BY <3>1 DEF Shown
    <3>3. \A n \in Node : <<tree'.parent[n], tree'.prev[n]>> \in Ptr \X Ptr
      BY <3>1 DEF Tree
    <3> DEFINE N == Shown(d)'
    <3>4. View(d)' = [n \in N |-> <<tree'.parent[n], tree'.prev[n]>>]
      BY DEF View
    <3> HIDE DEF N
    <3>5. [n \in N |-> <<tree'.parent[n], tree'.prev[n]>>] \in [N -> Ptr \X Ptr]
      BY <3>2, <3>3 DEF N
    <3> QED BY <3>2, <3>4, <3>5 DEF Views, N
  <2> DEFINE v == View(d)
             w == View(d)'
             old == IF l.redo = 1 THEN <<v>> ELSE SubSeq(seen[d], 1, l.redo)
  <2> HIDE DEF v, w
  <2>3. l.redo \in 1..(Len(l.cmds) + 1) /\ Len(l.cmds) \in Nat
    BY <1>1, ListParts DEF ListEnd
  <2>4. seen[d] \in Seq(Views) /\ (l # EmptyList => Len(seen[d]) = Len(l.cmds) + 1)
    BY DEF EditIInv, SeenGood, l
  <2>5. old \in Seq(Views) /\ Len(old) = l.redo
    <3>1. CASE l.redo = 1
      BY <2>1, <3>1 DEF v
    <3>2. CASE l.redo # 1
      <4>1. l # EmptyList
        BY <3>2 DEF EmptyList
      <4>2. l.redo <= Len(seen[d]) /\ l.redo \in Nat
        BY <2>3, <2>4, <4>1
      <4>3. SubSeq(seen[d], 1, l.redo) \in Seq(Views) /\ Len(SubSeq(seen[d], 1, l.redo)) = l.redo
        BY <2>4, <4>2
      <4> QED BY <3>2, <4>3
    <3> QED BY <3>1, <3>2
  <2>6. \A e \in Document : seen'[e] = IF lists'[e] = EmptyList THEN << >>
                                       ELSE IF e # d THEN seen[e] ELSE Append(old, w)
    BY <1>3 DEF v, w
  <2>7. seen' = [e \in Document |-> seen'[e]]
    BY <1>3
  <2> HIDE DEF old
  <2>8. Append(old, w) \in Seq(Views) /\ Len(Append(old, w)) = l.redo + 1
    BY <2>2, <2>3, <2>5 DEF w
  <2>9. ASSUME NEW e \in Document
        PROVE  /\ seen'[e] \in Seq(Views)
               /\ Len(seen'[e]) = IF lists'[e] = EmptyList THEN 0 ELSE Len(lists'[e].cmds) + 1
    <3>1. CASE lists'[e] = EmptyList
      <4>1. << >> \in Seq(Views) /\ Len(<< >>) = 0
        OBVIOUS
      <4>2. seen'[e] = << >>
        BY <2>6, <3>1
      <4> QED BY <3>1, <4>1, <4>2
    <3>2. CASE lists'[e] # EmptyList /\ e # d
      <4>1. lists'[e] = lists[e] /\ seen'[e] = seen[e]
        BY <1>10, <1>12, <2>6, <3>2
      <4> QED BY <3>2, <4>1 DEF EditIInv, SeenGood
    <3>3. CASE lists'[e] # EmptyList /\ e = d
      BY <1>7, <1>10, <1>12, <2>6, <2>8, <3>3
    <3> QED BY <3>1, <3>2, <3>3
  <2> QED BY <2>7, <2>9 DEF SeenGood
<1>14. lists'[d] = Pushed(lists[d], m)
  BY <1>10, <1>12 DEF p, l
<1> QED BY <1>11, <1>12, <1>13, <1>14

-----------------------------------------------------------------------------
(* Each action keeps the invariant.                                        *)

LEMMA NowGood ==
    ASSUME EditIInv
    PROVE  /\ TreeGood(tree, alive) /\ tree \in Tree /\ alive \subseteq Node
           /\ Root \in Node /\ Now.t = tree /\ Now.alive = alive /\ Now.lists = lists
           /\ space.addresses \subseteq Node
           /\ \A d \in Document : lists[d] \in ListsOf(d)
           /\ \A d \in Trigger : Editable(d) => InSpace(tree, alive, d)
<1>1. /\ TreeGood(tree, alive) /\ Now.t = tree /\ Now.alive = alive /\ Now.lists = lists
      /\ \A d \in Document : lists[d] \in ListsOf(d)
  BY DEF EditIInv, Good, Now
<1>2. tree \in Tree /\ alive \subseteq Node /\ ParentsEnd(tree)
  BY <1>1 DEF TreeGood, Sound
<1>3. Root \in Node /\ Trigger \subseteq Node /\ Gallery \notin Node
  BY EditAssumption
<1>4. space.addresses \subseteq Node
  BY EditAssumption DEF EditIInv
<1>5. ASSUME NEW d \in Trigger, Editable(d) PROVE InSpace(tree, alive, d)
  <2>1. d \in Node /\ d # Gallery
    BY <1>3
  <2>2. d \in alive /\ Root \in UpFrom(tree, d)
    BY <1>5, <2>1 DEF Editable, Attached
  <2>3. AncestorOrSelf(tree, Root, d)
    BY <1>2, <2>1, <2>2, UpFromIs
  <2> QED BY <2>2, <2>3 DEF InSpace
<1> QED BY <1>1, <1>2, <1>3, <1>4, <1>5

\* A new node stands alone.
LEMMA NewlyBuilt ==
    ASSUME EditIInv, NEW n \in Node \ alive, NEW s, s = [Now EXCEPT !.alive = @ \cup {n}]
    PROVE  /\ Good(s, {}) /\ s.lists = lists /\ s.t = tree
           /\ \A d \in Node : InSpace(tree, alive, d) => InSpace(s.t, s.alive, d)
<1> DEFINE A == alive \cup {n}
<1>1. s = [t |-> tree, alive |-> A, lists |-> lists, broken |-> broken]
  BY DEF Now
<1>2. TreeGood(tree, A)
  <2>1. Within(tree, A)
    BY DEF EditIInv, Good, Now, TreeGood, Within
  <2> QED BY <2>1 DEF EditIInv, Good, Now, TreeGood
<1>3. \A d \in Node : InSpace(tree, alive, d) => InSpace(tree, A, d)
  BY DEF InSpace
<1> HIDE DEF A
<1>4. /\ Now.t = tree /\ Now.alive = alive /\ Now.lists = lists /\ Now.broken = broken
      /\ Good(Now, {}) /\ Trigger \subseteq Node
  BY EditAssumption DEF Now, EditIInv
<1>5. \A d \in Trigger \ {} : InSpace(Now.t, Now.alive, d) => InSpace(tree, A, d)
  BY <1>3, <1>4
<1>6. Good(s, {})
  <2> HIDE DEF Now
  <2>1. s = [t |-> tree, alive |-> A, lists |-> Now.lists, broken |-> Now.broken]
    BY <1>1, <1>4
  <2> QED BY <1>2, <1>4, <1>5, <2>1, WithTree
<1> QED BY <1>1, <1>3, <1>6

\* The commands of the windows, for a node that fits the place and the document.
LEMMA CommandsFit ==
    ASSUME TreeGood(tree, alive), NEW d \in Document, NEW n \in Node \ {Root},
           d # Gallery => n \in Statement
    PROVE  /\ DeleteNodeCmd(n) \in CmdsOf(d)
           /\ \A p, v \in Ptr : Fits(n, p) => /\ AddNodeCmd(n, p, v) \in CmdsOf(d)
                                              /\ MoveNodeCmd(n, p, v) \in CmdsOf(d)
<1> DEFINE op == tree.parent[n]
           ov == tree.prev[n]
           c0 == DeleteNodeCmd(n)
<1>1. op \in Ptr /\ ov \in Ptr /\ Fits(n, op)
  BY DEF TreeGood, Tree
<1> HIDE DEF op, ov
<1>2. c0 = [op |-> "delete", node |-> n, parent |-> op, prev |-> ov]
  BY DEF DeleteNodeCmd, op, ov
<1> HIDE DEF c0
<1>3. c0.node = n /\ c0 \in Cmds
  BY <1>1, <1>2 DEF Cmds
<1>4. ASSUME NEW p \in Ptr, NEW v \in Ptr, Fits(n, p)
      PROVE  AddNodeCmd(n, p, v) \in CmdsOf(d) /\ MoveNodeCmd(n, p, v) \in CmdsOf(d)
  <2> DEFINE c1 == AddNodeCmd(n, p, v)
             c2 == MoveNodeCmd(n, p, v)
  <2>1. c1 = [op |-> "add", node |-> n, parent |-> p, prev |-> v]
    BY DEF AddNodeCmd
  <2>2. c2 = [op |-> "move", node |-> n, parent |-> p, prev |-> v,
              orgParent |-> op, orgPrev |-> ov]
    BY DEF MoveNodeCmd, op, ov
  <2> HIDE DEF c1, c2
  <2>3. c1.node = n /\ c1 \in Cmds
    BY <1>4, <2>1 DEF Cmds
  <2>4. c2.node = n /\ c2 \in Cmds
    BY <1>1, <1>4, <2>2 DEF Cmds
  <2>5. c1 \in CmdsOf(d) /\ c2 \in CmdsOf(d)
    BY <2>3, <2>4 DEF CmdsOf
  <2> QED BY <2>5 DEF c1, c2
<1>5. c0 \in CmdsOf(d)
  BY <1>3 DEF CmdsOf
<1> QED BY <1>4, <1>5 DEF c0

LEMMA ExchangeFits ==
    ASSUME NEW d, NEW old \in Statement, NEW new \in Statement
    PROVE  ExchangeNodeCmd(old, new) \in CmdsOf(d)
<1> DEFINE c == ExchangeNodeCmd(old, new)
<1>1. c \in Cmds /\ c.node \in Statement
  BY DEF ExchangeNodeCmd, Cmds
<1> HIDE DEF c
<1>2. c \in CmdsOf(d)
  BY <1>1 DEF CmdsOf
<1> QED BY <1>2 DEF c

\* A node that is alone is not the root.
LEMMA NewNodeKeeps ==
    ASSUME EditIInv, NEW d \in Document, NEW n \in Node, NEW sel \in Selectable(d),
           NewNode(d, n, sel)
    PROVE  Good(Now', {}) /\ SeenGood(lists', seen') /\ cutting' \in Cutting
<1> DEFINE s == [Now EXCEPT !.alive = @ \cup {n}]
<1>1. /\ Editable(d) /\ n \in Node \ alive /\ UNCHANGED cutting
  BY DEF NewNode
<1>a. PICK new \in BOOLEAN : \E at \in Locality(d, n, sel, new) :
        AddCommand(s, d, <<AddNodeCmd(n, at[1], at[2])>>)
  BY DEF NewNode
<1>2. PICK at \in Locality(d, n, sel, new) :
        AddCommand(s, d, <<AddNodeCmd(n, at[1], at[2])>>)
  BY <1>a
<1>3. /\ Good(s, {}) /\ s.lists = lists
      /\ \A e \in Node : InSpace(tree, alive, e) => InSpace(s.t, s.alive, e)
  BY <1>1, NewlyBuilt
<1> HIDE DEF s
<1>4. n # Root /\ TreeGood(tree, alive)
  BY <1>1, NowGood DEF TreeGood
<1>5. /\ at[1] \in Ptr /\ at[2] \in Ptr
      /\ d # Gallery => n \in Statement
      /\ d = Gallery => n \notin Statement /\ at[1] \in Group \cup {Root, NULL}
  BY <1>4, LocalityFits
<1> DEFINE c == AddNodeCmd(n, at[1], at[2])
<1>7. c \in CmdsOf(d)
  <2>1. Fits(n, at[1])
    BY <1>5 DEF Fits
  <2> QED BY <1>1, <1>4, <1>5, <2>1, CommandsFit
<1> HIDE DEF c
<1>8. <<c>> \in Seq(CmdsOf(d))
  BY <1>7
<1>9. d \in Trigger => InSpace(s.t, s.alive, d)
  BY <1>1, <1>3, NowGood, EditAssumption
<1>10. Good(Now', {}) /\ SeenGood(lists', seen')
  <2>1. AddCommand(s, d, <<c>>)
    BY <1>2 DEF c
  <2> QED BY <1>3, <1>8, <1>9, <2>1, AddCommandGood
<1> QED BY <1>1, <1>10 DEF EditIInv

\* A statement takes the place of another.
LEMMA ExchangeKeeps ==
    ASSUME EditIInv, NEW d \in Document, NEW old \in Statement, NEW new \in Statement,
           Exchange(d, old, new)
    PROVE  Good(Now', {}) /\ SeenGood(lists', seen') /\ cutting' \in Cutting
<1> DEFINE s == [Now EXCEPT !.alive = @ \cup {new}]
           c == ExchangeNodeCmd(old, new)
<1>1. /\ Editable(d) /\ new \in Node \ alive /\ UNCHANGED cutting /\ AddCommand(s, d, <<c>>)
  BY EditAssumption DEF Exchange
<1>2. /\ Good(s, {}) /\ s.lists = lists
      /\ \A e \in Node : InSpace(tree, alive, e) => InSpace(s.t, s.alive, e)
  BY <1>1, NewlyBuilt
<1>3. c \in CmdsOf(d)
  BY ExchangeFits
<1> HIDE DEF s, c
<1>4. <<c>> \in Seq(CmdsOf(d))
  BY <1>3
<1>5. d \in Trigger => InSpace(s.t, s.alive, d)
  BY <1>1, <1>2, NowGood, EditAssumption
<1>6. Good(Now', {}) /\ SeenGood(lists', seen')
  BY <1>1, <1>2, <1>4, <1>5, AddCommandGood
<1> QED BY <1>1, <1>6 DEF EditIInv

\* Cutting and copying only note the nodes.
LEMMA CutKeeps ==
    ASSUME EditIInv, NEW d \in Document, NEW sel \in Selections(d), Cut(d, sel)
    PROVE  Good(Now', {}) /\ SeenGood(lists', seen') /\ cutting' \in Cutting
<1>1. Now' = Now /\ lists' = lists /\ seen' = seen /\ cutting' = [doc |-> d, nodes |-> sel]
  BY DEF Cut, Now
<1>2. sel \in Seq(Statement) \cup Seq(Node \ ({Root} \cup Statement))
  <2>1. sel \in Seq(Shown(d))
    BY SelectionNodes
  <2>2. \/ Shown(d) \subseteq Statement
        \/ Shown(d) \subseteq Node \ ({Root} \cup Statement)
    BY NowGood, ShownNodes
  <2> QED BY <2>1, <2>2, SeqMono
<1> HIDE DEF Now
<1> QED BY <1>1, <1>2 DEF EditIInv, Cutting

LEMMA CopyKeeps ==
    ASSUME EditIInv, Copy
    PROVE  Good(Now', {}) /\ SeenGood(lists', seen') /\ cutting' \in Cutting
<1>1. Now' = Now /\ lists' = lists /\ seen' = seen /\ cutting' = NothingCut
  BY DEF Copy, Now
<1>2. NothingCut \in Cutting
  <2>1. << >> \in Seq(Statement) /\ Gallery \in Document
    BY DEF Document
  <2> QED BY <2>1 DEF NothingCut, Cutting
<1> HIDE DEF Now
<1> QED BY <1>1, <1>2 DEF EditIInv

\* A record that the variables take.
LEMMA BecomesIs ==
    ASSUME NEW y \in States, Becomes(y)
    PROVE  Now' = y /\ lists' = y.lists /\ tree' = y.t /\ alive' = y.alive
BY DEF Becomes, Now, States

LEMMA ReverseType ==
    ASSUME NEW X, NEW q \in Seq(X)
    PROVE  S!Reverse(q) \in Seq(X) /\ Len(S!Reverse(q)) = Len(q)
BY DEF S!Reverse

\* The nodes of a selection, deleted.
LEMMA DeleteKeeps ==
    ASSUME EditIInv, NEW d \in Document, NEW sel \in Selections(d), Delete(d, sel)
    PROVE  Good(Now', {}) /\ SeenGood(lists', seen') /\ cutting' \in Cutting
<1> DEFINE X == Shown(d)
           q == S!Reverse(sel)
           m == [i \in 1..Len(sel) |-> DeleteNodeCmd(q[i])]
<1>1. sel \in Seq(X) /\ q \in Seq(X) /\ Len(q) = Len(sel)
  BY SelectionNodes, ReverseType
<1>2. X \subseteq Node \ {Root} /\ (d # Gallery => X \subseteq Statement)
  BY NowGood, ShownNodes
<1>3. /\ Editable(d) /\ AddCommand(Now, d, m)
      /\ cutting' = [cutting EXCEPT !.nodes = StillCut(sel)]
  BY DEF Delete
<1> HIDE DEF X, q
<1>4. ASSUME NEW n \in X PROVE DeleteNodeCmd(n) \in CmdsOf(d)
  BY <1>2, NowGood, CommandsFit
<1>5. m \in Seq(CmdsOf(d))
  <2>1. \A i \in 1..Len(sel) : q[i] \in X
    BY <1>1
  <2>2. \A i \in 1..Len(sel) : DeleteNodeCmd(q[i]) \in CmdsOf(d)
    BY <1>4, <2>1
  <2>3. Len(sel) \in Nat
    BY <1>1
  <2> QED BY <2>2, <2>3
<1> HIDE DEF m
<1>6. Good(Now, {}) /\ Now.lists = lists /\ (d \in Trigger => InSpace(Now.t, Now.alive, d))
  BY <1>3, NowGood DEF EditIInv
<1>7. Good(Now', {}) /\ SeenGood(lists', seen')
  <2> DEFINE s == Now
  <2>1. Good(s, {}) /\ s.lists = lists /\ (d \in Trigger => InSpace(s.t, s.alive, d))
        /\ AddCommand(s, d, m)
    BY <1>3, <1>6
  <2> HIDE DEF s
  <2> QED BY <1>5, <2>1, AddCommandGood
<1>8. cutting' \in Cutting
  <2>1. StillCut(sel) \in Seq(Statement) \cup Seq(Node \ ({Root} \cup Statement))
    BY StillCutOf DEF EditIInv, Cutting
  <2> QED BY <1>3, <2>1 DEF EditIInv, Cutting
<1> QED BY <1>7, <1>8

\* Nodes of the class of a document, moved to a place in it.
LEMMA MoveKeeps ==
    ASSUME EditIInv, NEW d \in Document, NEW sel \in Selectable(d), Editable(d),
           NEW nodes \in Seq(Statement) \cup Seq(Node \ ({Root} \cup Statement)),
           nodes # << >>, Move(d, nodes, sel)
    PROVE  Good(Now', {}) /\ SeenGood(lists', seen') /\ cutting' \in Cutting
<1> DEFINE q == S!Reverse(nodes)
           X == {nodes[i] : i \in 1..Len(nodes)}
<1>1. cutting' = NothingCut /\ NothingCut \in Cutting
  <2>1. << >> \in Seq(Statement) /\ Gallery \in Document
    BY DEF Document
  <2> QED BY <2>1 DEF Move, NothingCut, Cutting
<1>2. PICK at \in Locality(d, nodes[1], sel, FALSE) :
        IF \E i \in 1..Len(nodes) : nodes[i] \notin alive \/ tree.parent[nodes[i]] = NULL
        THEN /\ Becomes(Broke(Now, IF X \subseteq alive THEN "orphan" ELSE "freed"))
             /\ UNCHANGED seen
        ELSE AddCommand(Now, d, [i \in 1..Len(nodes) |-> MoveNodeCmd(q[i], at[1], at[2])])
  BY DEF Move
<1> DEFINE m == [i \in 1..Len(nodes) |-> MoveNodeCmd(q[i], at[1], at[2])]
<1>3. \/ \E why \in Whys : Becomes(Broke(Now, why)) /\ seen' = seen
      \/ AddCommand(Now, d, m)
  BY <1>2 DEF Whys
<1>4. /\ at[1] \in Ptr /\ at[2] \in Ptr
      /\ d # Gallery => nodes[1] \in Statement
      /\ d = Gallery => nodes[1] \notin Statement /\ at[1] \in Group \cup {Root, NULL}
  BY NowGood, LocalityFits
<1>5. nodes \in Seq(X) /\ q \in Seq(X) /\ Len(q) = Len(nodes) /\ Len(nodes) \in Nat
  <2>1. nodes \in Seq(X) /\ Len(nodes) \in Nat
    OBVIOUS
  <2> HIDE DEF X
  <2> QED BY <2>1, ReverseType
<1>6. /\ X \subseteq Node \ {Root} /\ (d # Gallery => X \subseteq Statement)
      /\ \A n \in X : Fits(n, at[1])
  <2>1. nodes[1] \in X /\ (X \subseteq Statement \/ X \subseteq Node \ ({Root} \cup Statement))
    OBVIOUS
  <2>2. Statement \subseteq Node \ {Root}
    BY EditAssumption
  <2> HIDE DEF X
  <2>3. CASE d # Gallery
    <3>1. X \subseteq Statement
      BY <1>4, <2>1, <2>3
    <3> QED BY <2>2, <3>1 DEF Fits
  <2>4. CASE d = Gallery
    <3>1. X \subseteq Node \ ({Root} \cup Statement)
      BY <1>4, <2>1, <2>4
    <3> QED BY <1>4, <2>4, <3>1 DEF Fits
  <2> QED BY <2>3, <2>4
<1> DEFINE p == at[1]
           v == at[2]
<1> HIDE DEF X, q, p, v
<1>7. ASSUME NEW n \in X PROVE MoveNodeCmd(n, p, v) \in CmdsOf(d)
  <2>1. n \in Node \ {Root} /\ Fits(n, p) /\ p \in Ptr /\ v \in Ptr
    BY <1>4, <1>6 DEF p, v
  <2> QED BY <1>6, <2>1, NowGood, CommandsFit
<1>8. m \in Seq(CmdsOf(d))
  <2>1. \A i \in 1..Len(nodes) : q[i] \in X
    BY <1>5
  <2>2. \A i \in 1..Len(nodes) : MoveNodeCmd(q[i], p, v) \in CmdsOf(d)
    BY <1>7, <2>1
  <2>3. [i \in 1..Len(nodes) |-> MoveNodeCmd(q[i], p, v)] \in Seq(CmdsOf(d))
    BY <1>5, <2>2
  <2> QED BY <2>3 DEF p, v
<1> HIDE DEF m
<1>9. Good(Now, {}) /\ Now.lists = lists /\ (d \in Trigger => InSpace(Now.t, Now.alive, d))
  BY NowGood DEF EditIInv
<1>10. Good(Now', {}) /\ SeenGood(lists', seen')
  <2> DEFINE s == Now
  <2>1. Good(s, {}) /\ s.lists = lists /\ (d \in Trigger => InSpace(s.t, s.alive, d))
    BY <1>9
  <2>2. CASE AddCommand(Now, d, m)
    <3>1. AddCommand(s, d, m)
      BY <2>2
    <3> HIDE DEF s
    <3> QED BY <1>8, <2>1, <3>1, AddCommandGood
  <2>3. ASSUME NEW why \in Whys, Becomes(Broke(Now, why)), seen' = seen
        PROVE  Good(Now', {}) /\ SeenGood(lists', seen')
    <3> DEFINE y == Broke(s, why)
    <3>1. Becomes(y)
      BY <2>3
    <3> HIDE DEF s
    <3>2. Good(y, {}) /\ y.lists = lists
      BY <2>1, BrokeGood
    <3> HIDE DEF y
    <3>3. Now' = y /\ lists' = lists
      BY <3>1, <3>2, BecomesIs DEF Good
    <3> QED BY <2>3, <3>2, <3>3 DEF EditIInv
  <2> QED BY <1>3, <2>2, <2>3
<1> QED BY <1>1, <1>10

LEMMA PasteKeeps ==
    ASSUME EditIInv, NEW d \in Document, NEW sel \in Selectable(d), Paste(d, sel)
    PROVE  Good(Now', {}) /\ SeenGood(lists', seen') /\ cutting' \in Cutting
<1>1. Editable(d) /\ cutting.nodes # << >> /\ Move(d, cutting.nodes, sel)
  BY DEF Paste
<1>2. cutting.nodes \in Seq(Statement) \cup Seq(Node \ ({Root} \cup Statement))
  BY DEF EditIInv, Cutting
<1> QED BY <1>1, <1>2, MoveKeeps

LEMMA DragKeeps ==
    ASSUME EditIInv, NEW d \in Document, NEW n, NEW sel \in Selectable(d), Drag(d, n, sel)
    PROVE  Good(Now', {}) /\ SeenGood(lists', seen') /\ cutting' \in Cutting
<1>1. Editable(d) /\ n \in Shown(d) /\ Move(d, <<n>>, sel)
  BY DEF Drag
<1>2. n \in Statement \/ n \in Node \ ({Root} \cup Statement)
  BY <1>1, NowGood, ShownNodes
<1> DEFINE q == <<n>>
<1>3. q \in Seq(Statement) \cup Seq(Node \ ({Root} \cup Statement)) /\ q # << >>
  BY <1>2
<1>4. Move(d, q, sel)
  BY <1>1
<1> HIDE DEF q
<1> QED BY <1>1, <1>3, <1>4, MoveKeeps

\* What a step back or on leaves of the list.
LEMMA SteppedGood ==
    ASSUME NEW d \in Document, NEW l \in ListsOf(d)
    PROVE  /\ CanUnDo(l) => /\ SteppedBack(l) \in ListsOf(d) /\ SteppedBack(l).cmds = l.cmds
                            /\ l.cmds[l.undo] \in Seq(CmdsOf(d)) /\ l.cmds # << >>
           /\ CanReDo(l) => /\ SteppedOn(l) \in ListsOf(d) /\ SteppedOn(l).cmds = l.cmds
                            /\ l.cmds[l.redo] \in Seq(CmdsOf(d)) /\ l.cmds # << >>
<1> DEFINE c == l.cmds
           n == Len(c)
           u == l.undo
           r == l.redo
<1>1. /\ c \in Seq(Seq(CmdsOf(d))) /\ n \in Nat /\ r \in 1..(n + 1)
      /\ \A i \in 1..n : c[i] \in Seq(CmdsOf(d))
  BY ListParts DEF ListEnd
<1>2. u = IF r = 1 THEN n + 1 ELSE r - 1
  BY DEF ListsOf, ListEnd
<1>3. ListEnd(l) = n + 1
  BY DEF ListEnd
<1>4. SteppedBack(l) = [cmds |-> c, redo |-> u, undo |-> IF u # 1 THEN u - 1 ELSE n + 1]
  BY DEF SteppedBack, ListEnd
<1>5. SteppedOn(l) = [cmds |-> c, undo |-> r, redo |-> r + 1]
  BY DEF SteppedOn
<1>6. /\ CanUnDo(l) <=> u # n + 1
      /\ CanReDo(l) <=> r # n + 1
      /\ c = << >> => n = 0
  BY <1>3 DEF CanUnDo, CanReDo
<1> HIDE DEF c, n, u, r
<1>7. ASSUME u # n + 1
      PROVE  SteppedBack(l) \in ListsOf(d) /\ u \in 1..n /\ SteppedBack(l).cmds = c
  <2>1. r # 1 /\ u = r - 1 /\ u \in 1..n
    BY <1>1, <1>2, <1>7
  <2> DEFINE v == IF u # 1 THEN u - 1 ELSE n + 1
  <2>2. v \in Nat /\ v = IF u = 1 THEN n + 1 ELSE u - 1
    BY <1>1, <2>1
  <2> HIDE DEF v
  <2>3. SteppedBack(l) = [cmds |-> c, redo |-> u, undo |-> v]
    BY <1>4 DEF v
  <2>4. Len(c) = n
    BY DEF n
  <2> DEFINE k == SteppedBack(l)
  <2>5. k = [cmds |-> c, redo |-> u, undo |-> v]
    BY <2>3
  <2> HIDE DEF k
  <2>6. k.cmds = c /\ k.redo = u /\ k.undo = v
    BY <2>5
  <2>7. k \in [cmds : Seq(Seq(CmdsOf(d))), undo : Nat, redo : Nat]
    <3>1. u \in Nat
      BY <2>1
    <3> QED BY <1>1, <2>2, <2>5, <3>1
  <2>8. ListEnd(k) = n + 1
    BY <2>4, <2>6 DEF ListEnd
  <2>9. k.redo \in 1..ListEnd(k) /\ k.undo = IF k.redo = 1 THEN ListEnd(k) ELSE k.redo - 1
    BY <1>1, <2>1, <2>2, <2>6, <2>8
  <2>10. k \in ListsOf(d)
    BY <2>7, <2>9 DEF ListsOf
  <2> QED BY <2>1, <2>6, <2>10 DEF k
<1>8. ASSUME r # n + 1
      PROVE  SteppedOn(l) \in ListsOf(d) /\ r \in 1..n /\ SteppedOn(l).cmds = c
  <2>1. r \in 1..n /\ r + 1 \in 1..(n + 1) /\ r + 1 # 1 /\ (r + 1) - 1 = r
    BY <1>1, <1>8
  <2>2. Len(c) = n
    BY DEF n
  <2> DEFINE k == SteppedOn(l)
             v == r + 1
  <2>3. k = [cmds |-> c, undo |-> r, redo |-> v]
    BY <1>5
  <2>4. v \in Nat /\ r \in Nat /\ v \in 1..(n + 1) /\ v # 1 /\ v - 1 = r
    BY <1>1, <2>1
  <2> HIDE DEF k, v
  <2>5. k.cmds = c /\ k.redo = v /\ k.undo = r
    BY <2>3
  <2>6. k \in [cmds : Seq(Seq(CmdsOf(d))), undo : Nat, redo : Nat]
    BY <1>1, <2>3, <2>4
  <2>7. ListEnd(k) = n + 1
    BY <2>2, <2>5 DEF ListEnd
  <2>8. k.redo \in 1..ListEnd(k) /\ k.undo = IF k.redo = 1 THEN ListEnd(k) ELSE k.redo - 1
    BY <2>4, <2>5, <2>7
  <2>9. k \in ListsOf(d)
    BY <2>6, <2>8 DEF ListsOf
  <2> QED BY <2>1, <2>5, <2>9 DEF k
<1>9. n # 0 => c # << >>
  BY <1>6
<1>10. CanUnDo(l) => /\ SteppedBack(l) \in ListsOf(d) /\ SteppedBack(l).cmds = c
                     /\ c[u] \in Seq(CmdsOf(d)) /\ c # << >>
  BY <1>1, <1>6, <1>7, <1>9
<1>11. CanReDo(l) => /\ SteppedOn(l) \in ListsOf(d) /\ SteppedOn(l).cmds = c
                     /\ c[r] \in Seq(CmdsOf(d)) /\ c # << >>
  BY <1>1, <1>6, <1>8, <1>9
<1> QED BY <1>10, <1>11 DEF c, u, r

\* A macro of the list of d was undone or redone and its iterators moved.
LEMMA SteppedKeeps ==
    ASSUME EditIInv, NEW d \in Document, NEW m \in Seq(CmdsOf(d)), NEW s, MacroStep(Now, s, m),
           NEW k, s.lists[d] = lists[d] => k \in ListsOf(d) /\ k.cmds = lists[d].cmds,
           lists[d].cmds # << >>, Stepped([s EXCEPT !.lists[d] = k])
    PROVE  Good(Now', {}) /\ SeenGood(lists', seen') /\ cutting' \in Cutting
<1> DEFINE y == [s EXCEPT !.lists[d] = k]
<1>1. Good(s, {}) /\ Evolved(lists, s.lists) /\ DOMAIN lists = Document
  BY DEF MacroStep, EditIInv, Good, States, Now
<1>2. s.lists[d] = lists[d]
  <2>1. CASE d \in Trigger
    <3>1. d # Gallery
      BY <2>1, EditAssumption
    <3>2. \A i \in 1..Len(m) : m[i].node \in Statement
      BY <3>1 DEF CmdsOf
    <3> QED BY <3>2 DEF MacroStep, Now
  <2>2. CASE d \notin Trigger
    BY <1>1, <2>2 DEF Evolved
  <2> QED BY <2>1, <2>2
<1>3. k \in ListsOf(d) /\ k.cmds = lists[d].cmds /\ k # EmptyList /\ lists[d] # EmptyList
  BY <1>2 DEF EmptyList
<1>4. y.t = s.t /\ y.alive = s.alive /\ y \in States /\ y.lists = [s.lists EXCEPT ![d] = k]
  <2>1. s \in States /\ s.lists \in [Document -> UNION {ListsOf(e) : e \in Document}]
    BY <1>1 DEF Good, States
  <2>2. y = [s EXCEPT !.lists = [s.lists EXCEPT ![d] = k]]
    OBVIOUS
  <2> QED BY <1>3, <2>1, <2>2 DEF States
<1>5. Becomes(y) /\ UNCHANGED cutting
      /\ seen' = [e \in Document |-> IF lists'[e] = EmptyList THEN << >> ELSE seen[e]]
  BY DEF Stepped
<1> HIDE DEF y
<1>6. \A e \in Document : y.lists[e] = IF e = d THEN k ELSE s.lists[e]
  BY <1>1, <1>4 DEF Good, States
<1>7. Good(y, {})
  <2>1. \A e \in Document : y.lists[e] \in ListsOf(e)
    BY <1>1, <1>3, <1>6 DEF Good
  <2>2. Listed(y, {})
    <3> SUFFICES ASSUME NEW e \in Trigger, y.lists[e] # EmptyList
                 PROVE  InSpace(s.t, s.alive, e)
      BY <1>4 DEF Listed
    <3>1. s.lists[e] # EmptyList
      BY <1>2, <1>3, <1>6 DEF Document
    <3> QED BY <1>1, <3>1 DEF Good, Listed
  <2> QED BY <1>1, <1>4, <2>1, <2>2 DEF Good
<1>8. Now' = y /\ lists' = y.lists
  BY <1>4, <1>5, BecomesIs
<1>9. SeenGood(lists', seen')
  <2>1. seen' = [e \in Document |-> seen'[e]]
        /\ \A e \in Document : seen'[e] = IF lists'[e] = EmptyList THEN << >> ELSE seen[e]
    BY <1>5
  <2>2. ASSUME NEW e \in Document
        PROVE  /\ seen'[e] \in Seq(Views)
               /\ Len(seen'[e]) = IF lists'[e] = EmptyList THEN 0 ELSE Len(lists'[e].cmds) + 1
    <3>1. CASE lists'[e] = EmptyList
      <4>1. << >> \in Seq(Views) /\ Len(<< >>) = 0
        OBVIOUS
      <4>2. seen'[e] = << >>
        BY <2>1, <3>1
      <4> QED BY <3>1, <4>1, <4>2
    <3>2. CASE lists'[e] # EmptyList
      <4>1. seen'[e] = seen[e]
        BY <2>1, <3>2
      <4>2. lists[e] # EmptyList /\ lists'[e].cmds = lists[e].cmds
        <5>1. CASE e = d
          BY <1>3, <1>6, <1>8, <5>1
        <5>2. CASE e # d
          BY <1>1, <1>6, <1>8, <3>2, <5>2 DEF Evolved
        <5> QED BY <5>1, <5>2
      <4> QED BY <3>2, <4>1, <4>2 DEF EditIInv, SeenGood
    <3> QED BY <3>1, <3>2
  <2> QED BY <2>1, <2>2 DEF SeenGood
<1> QED BY <1>5, <1>7, <1>8, <1>9 DEF EditIInv

LEMMA UnDoKeeps ==
    ASSUME EditIInv, NEW d \in Document, UnDo(d)
    PROVE  Good(Now', {}) /\ SeenGood(lists', seen') /\ cutting' \in Cutting
<1> DEFINE m == lists[d].cmds[lists[d].undo]
           s == UnExecutedMacro(Now, m)
           k == SteppedBack(s.lists[d])
<1>1. CanUnDo(lists[d]) /\ Stepped([s EXCEPT !.lists[d] = k])
  BY DEF UnDo
<1>2. /\ SteppedBack(lists[d]) \in ListsOf(d) /\ SteppedBack(lists[d]).cmds = lists[d].cmds
      /\ m \in Seq(CmdsOf(d)) /\ lists[d].cmds # << >> /\ m \in Seq(Cmds)
  BY <1>1, NowGood, SteppedGood, ListParts
<1> HIDE DEF m
<1>3. MacroStep(Now, s, m)
  BY <1>2, UnExecutedMacroGood DEF EditIInv
<1>4. s.lists[d] = lists[d] => k \in ListsOf(d) /\ k.cmds = lists[d].cmds
  BY <1>2
<1> HIDE DEF s, k
<1> QED BY <1>1, <1>2, <1>3, <1>4, SteppedKeeps

LEMMA ReDoKeeps ==
    ASSUME EditIInv, NEW d \in Document, ReDo(d)
    PROVE  Good(Now', {}) /\ SeenGood(lists', seen') /\ cutting' \in Cutting
<1> DEFINE m == lists[d].cmds[lists[d].redo]
           s == ExecutedMacro(Now, m)
           k == SteppedOn(s.lists[d])
<1>1. CanReDo(lists[d]) /\ Stepped([s EXCEPT !.lists[d] = k])
  BY DEF ReDo
<1>2. /\ SteppedOn(lists[d]) \in ListsOf(d) /\ SteppedOn(lists[d]).cmds = lists[d].cmds
      /\ m \in Seq(CmdsOf(d)) /\ lists[d].cmds # << >> /\ m \in Seq(Cmds)
  BY <1>1, NowGood, SteppedGood, ListParts
<1> HIDE DEF m
<1>3. MacroStep(Now, s, m)
  BY <1>2, ExecutedMacroGood DEF EditIInv
<1>4. s.lists[d] = lists[d] => k \in ListsOf(d) /\ k.cmds = lists[d].cmds
  BY <1>2
<1> HIDE DEF s, k
<1> QED BY <1>1, <1>2, <1>3, <1>4, SteppedKeeps

-----------------------------------------------------------------------------
(* The tree that is loaded.                                                *)

\* A node that is in no tree yet is put behind the children of one that is.
LEMMA LoadedStep ==
    ASSUME NEW t, NEW A, TreeGood(t, A), NEW p \in A, NEW n \in Node \ A, Fits(n, p)
    PROVE  TreeGood(AddChild(t, p, n), A \cup {n})
<1> DEFINE B == A \cup {n}
           u == AddChild(t, p, n)
<1>1. /\ t \in Tree /\ Sound(t) /\ Within(t, A) /\ A \subseteq Node /\ p \in Node /\ p \in B
      /\ n # Root /\ n \in B /\ NULL \in Ptr /\ n # NULL
  BY NullAssumption DEF TreeGood, Ptr
<1>2. TreeGood(t, B)
  BY DEF TreeGood, Within
<1>3. t.parent[n] = NULL
  BY <1>1 DEF Within
<1>4. ~AncestorOrSelf(t, n, p)
  <2>1. A \in SUBSET Node /\ p \in A /\ n \notin A /\ \A x \in A : t.parent[x] # NULL => t.parent[x] \in A
    BY <1>1 DEF Within
  <2> QED BY <2>1 DEF AncestorOrSelf
<1>5. ReferenceOK(t, p, n, NULL)
  BY <1>1 DEF ReferenceOK
<1>6. u = InsertBefore(t, p, n, NULL)
  BY <1>1, <1>3, <1>5, OtherInsertions
<1> HIDE DEF B, u
<1>7. TreeGood(u, B)
  BY <1>1, <1>2, <1>3, <1>4, <1>5, <1>6, TreeInserted
<1> QED BY <1>7 DEF B, u

LEMMA LoadedTreeGood ==
    ASSUME NEW m, LoadableOK(m)
    PROVE  TreeGood(LoadedTree(m), {Root} \cup {m[j][1] : j \in 1..Len(m)})
<1> DEFINE n == Len(m)
           s == EmptyTree
           A(i) == {Root} \cup {m[j][1] : j \in 1..i}
           Add(t, e) == AddChild(t, e[2], e[1])
           J == [i \in 0..n |-> {t \in Tree : TreeGood(t, A(i))}]
           G == [x \in (1..n) \X Tree |-> Add(x[2], m[x[1]])]
           Q(g) == g = [i \in 0..n |-> IF i = 0 THEN s ELSE Add(g[i - 1], m[i])]
           f == CHOOSE g : Q(g)
<1>1. LoadedTree(m) = f[n]
  BY DEF LoadedTree, Folded
<1>2. n \in Nat /\ \A i \in 1..n : m[i] \in Node \X Node
  BY DEF LoadableOK
<1>3. s \in J[0]
  <2>1. s \in Tree
    BY DEF EmptyTree, AllNull, Tree, Ptr
  <2>2. \A x \in Node : /\ s.parent[x] = NULL /\ s.prev[x] = NULL
                        /\ s.next[x] = NULL /\ s.first[x] = NULL
    BY DEF EmptyTree, AllNull
  <2> HIDE DEF s
  <2>3. Linked(s)
    BY <2>2, NullAssumption DEF Linked, FirstLinked, SiblingsLinked, RootsUnlinked, OneLast
  <2>4. SiblingsEnd(s) /\ ParentsEnd(s)
    BY <2>2, NullAssumption DEF SiblingsEnd, ParentsEnd
  <2>5. A(0) = {Root}
    OBVIOUS
  <2>6. Within(s, {Root}) /\ \A x \in Node : Fits(x, s.parent[x])
    BY <2>2 DEF Within, Fits
  <2>7. TreeGood(s, A(0))
    BY <2>1, <2>2, <2>3, <2>4, <2>5, <2>6, EditAssumption DEF TreeGood, Sound
  <2>8. 0 \in 0..n
    BY <1>2
  <2> HIDE DEF A, n
  <2> QED BY <2>1, <2>7, <2>8
<1>4. ASSUME NEW i \in 1..n, NEW x \in Tree, TreeGood(x, A(i - 1))
      PROVE  Add(x, m[i]) \in Tree /\ TreeGood(Add(x, m[i]), A(i))
  <2> DEFINE c == m[i][1]
             p == m[i][2]
             D == {m[j][1] : j \in 1..(i - 1)}
  <2>1. c \in Node /\ p \in Node
    BY <1>2
  <2>2. c \notin {Root} \cup D /\ p \in {Root} \cup D /\ Fits(c, p)
    BY DEF LoadableOK
  <2>3. A(i - 1) = {Root} \cup D
    OBVIOUS
  <2>4. A(i) = A(i - 1) \cup {c}
    <3>1. 1..i = 1..(i - 1) \cup {i}
      BY <1>2
    <3> QED BY <3>1
  <2> HIDE DEF A, c, p, D
  <2> DEFINE B == A(i - 1)
  <2>5. TreeGood(x, B) /\ p \in B /\ c \in Node \ B /\ A(i) = B \cup {c}
    BY <1>4, <2>1, <2>2, <2>3, <2>4
  <2> HIDE DEF B
  <2>6. TreeGood(AddChild(x, p, c), B \cup {c})
    BY <2>2, <2>5, LoadedStep
  <2>7. Add(x, m[i]) = AddChild(x, p, c)
    BY DEF p, c
  <2> QED BY <2>5, <2>6, <2>7 DEF TreeGood
<1> HIDE DEF n, A, s, Add
<1>6. \A i \in 1..n : \A x \in J[i - 1] : G[<<i, x>>] \in J[i]
  <2> SUFFICES ASSUME NEW i \in 1..n, NEW x \in J[i - 1] PROVE G[<<i, x>>] \in J[i]
    OBVIOUS
  <2>1. i - 1 \in 0..n /\ i \in 0..n
    BY <1>2
  <2>2. x \in Tree /\ TreeGood(x, A(i - 1))
    BY <2>1
  <2> QED BY <1>4, <2>1, <2>2
<1>7. PICK g : g = [i \in 0..n |-> g[i]] /\ Turns(G, J, s, g, n)
  <2> HIDE DEF J, G
  <2> QED BY <1>2, <1>3, <1>6, TurnsExist
<1>8. Q(g)
  <2>1. ASSUME NEW i \in 0..n
        PROVE  g[i] = IF i = 0 THEN s ELSE Add(g[i - 1], m[i])
    <3>1. CASE i = 0
      BY <1>7, <3>1 DEF Turns
    <3>2. CASE i # 0
      <4>1. i \in 1..n /\ i - 1 \in 0..n
        BY <1>2, <3>2
      <4>2. g[i] = G[<<i, g[i - 1]>>] /\ g[i - 1] \in J[i - 1]
        BY <1>7, <4>1 DEF Turns
      <4>3. g[i - 1] \in Tree
        BY <4>1, <4>2
      <4> QED BY <3>2, <4>1, <4>2, <4>3
    <3> QED BY <3>1, <3>2
  <2> QED BY <1>7, <2>1
<1>9. Q(f)
  <2> HIDE DEF Q
  <2> QED BY <1>8, Zenon
<1> HIDE DEF f
<1>10. f[n] \in J[n]
  <2>1. f[0] \in J[0]
    BY <1>2, <1>3, <1>9
  <2>2. ASSUME NEW i \in 1..n, f[i - 1] \in J[i - 1] PROVE f[i] \in J[i]
    <3>1. i \in 0..n /\ i # 0 /\ i - 1 \in 0..n
      BY <1>2
    <3>2. f[i] = Add(f[i - 1], m[i])
      BY <1>9, <3>1
    <3>3. f[i - 1] \in Tree /\ TreeGood(f[i - 1], A(i - 1))
      BY <2>2, <3>1
    <3> QED BY <1>4, <3>1, <3>2, <3>3
  <2> HIDE DEF J
  <2> QED BY <1>2, <2>1, <2>2, Onwards
<1>11. TreeGood(f[n], A(n))
  BY <1>2, <1>10
<1> QED BY <1>1, <1>11 DEF A, n

LEMMA EditInitIInv == EditInit => EditIInv
<1> SUFFICES ASSUME EditInit PROVE EditIInv
  OBVIOUS
<1> DEFINE A == {Root} \cup {space.loaded[i][1] : i \in 1..Len(space.loaded)}
           E == [d \in Document |-> EmptyList]
<1>1. /\ tree = LoadedTree(space.loaded) /\ alive = A /\ lists = E /\ broken = "no"
      /\ seen = [d \in Document |-> << >>] /\ cutting = NothingCut /\ space \in Spaces
  BY DEF EditInit
<1>2. LoadableOK(space.loaded)
  BY <1>1, EditAssumption
<1>3. TreeGood(tree, alive)
  BY <1>1, <1>2, LoadedTreeGood
<1>4. \A d \in Document : EmptyList \in ListsOf(d) /\ E[d] = EmptyList
  <2>1. \A d \in Document : << >> \in Seq(Seq(CmdsOf(d))) /\ Len(<< >>) = 0
    OBVIOUS
  <2>2. EmptyList = [cmds |-> << >>, undo |-> 1, redo |-> 1]
    BY DEF EmptyList
  <2> QED BY <2>1, <2>2 DEF ListsOf, ListEnd
<1> HIDE DEF A, E
<1>5. E \in [Document -> UNION {ListsOf(d) : d \in Document}]
  BY <1>4 DEF E
<1>6. Now \in States
  BY <1>1, <1>3, <1>5 DEF Now, States, TreeGood, Whys
<1>7. Good(Now, {})
  <2>1. Now.t = tree /\ Now.alive = alive /\ Now.lists = lists
    BY DEF Now
  <2>2. \A d \in Document : lists[d] = EmptyList /\ lists[d] \in ListsOf(d)
    BY <1>1, <1>4
  <2>3. Listed(Now, {})
    BY <2>1, <2>2 DEF Listed, Document
  <2> HIDE DEF Now
  <2> QED BY <1>3, <1>6, <2>1, <2>2, <2>3 DEF Good
<1>8. SeenGood(lists, seen)
  <2>1. seen = [d \in Document |-> seen[d]] /\ \A d \in Document : seen[d] = << >>
    BY <1>1
  <2>2. << >> \in Seq(Views) /\ Len(<< >>) = 0
    OBVIOUS
  <2> QED BY <1>1, <1>4, <2>1, <2>2 DEF SeenGood
<1>9. cutting \in Cutting
  <2>1. << >> \in Seq(Statement) /\ Gallery \in Document
    BY DEF Document
  <2> QED BY <1>1, <2>1 DEF NothingCut, Cutting
<1> QED BY <1>1, <1>7, <1>8, <1>9 DEF EditIInv

-----------------------------------------------------------------------------
(* The theorems.                                                           *)

\* Every step of the windows, and of undo and redo, keeps the invariant.
LEMMA EditNextIInv ==
    ASSUME EditIInv, EditNext
    PROVE  EditIInv'
<1> DEFINE Kept == Good(Now', {}) /\ SeenGood(lists', seen') /\ cutting' \in Cutting
<1>1. ASSUME NEW d \in Document, UnDo(d) \/ ReDo(d) PROVE Kept
  BY <1>1, UnDoKeeps, ReDoKeeps
<1>2. ASSUME NEW d \in Document, NEW sel \in Selections(d), Delete(d, sel) \/ Cut(d, sel)
      PROVE  Kept
  BY <1>2, DeleteKeeps, CutKeeps
<1>3. ASSUME NEW d \in Document, NEW sel \in Selectable(d), NEW n \in Node,
             Paste(d, sel) \/ NewNode(d, n, sel) \/ Drag(d, n, sel)
      PROVE  Kept
  BY <1>3, PasteKeeps, NewNodeKeeps, DragKeeps
<1>4. ASSUME NEW d \in Document, NEW sel \in Selectable(d), Paste(d, sel) PROVE Kept
  BY <1>4, PasteKeeps
<1>5. ASSUME NEW d \in Document, NEW old \in Statement, NEW new \in Statement,
             Exchange(d, old, new)
      PROVE  Kept
  BY <1>5, ExchangeKeeps
<1>6. ASSUME Copy PROVE Kept
  BY <1>6, CopyKeeps
<1> HIDE DEF Kept
<1>7. Kept
  BY <1>1, <1>2, <1>3, <1>4, <1>5, <1>6 DEF EditNext
<1>8. UNCHANGED space
  <2>1. /\ \A s : Becomes(s) => UNCHANGED space
        /\ \A s, d, m : AddCommand(s, d, m) => UNCHANGED space
        /\ \A s : Stepped(s) => UNCHANGED space
    BY DEF Becomes, AddCommand, Stepped
  <2>2. \A d, q, sel : Move(d, q, sel) => UNCHANGED space
    BY <2>1 DEF Move
  <2>3. /\ \A d : UnDo(d) => UNCHANGED space
        /\ \A d : ReDo(d) => UNCHANGED space
    BY <2>1 DEF UnDo, ReDo
  <2>4. /\ \A d, sel : Delete(d, sel) \/ Cut(d, sel) \/ Paste(d, sel) => UNCHANGED space
        /\ \A d, n, sel : NewNode(d, n, sel) \/ Drag(d, n, sel) => UNCHANGED space
        /\ \A d, old, new : Exchange(d, old, new) => UNCHANGED space
        /\ Copy => UNCHANGED space
    BY <2>1, <2>2 DEF Delete, Cut, Paste, NewNode, Drag, Exchange, Copy
  <2> QED BY <2>3, <2>4 DEF EditNext
<1> QED BY <1>7, <1>8 DEF EditIInv, Kept

THEOREM EditInvariance == EditSpec => []EditIInv
<1>1. EditIInv /\ [EditNext]_editVars => EditIInv'
  <2> SUFFICES ASSUME EditIInv, [EditNext]_editVars PROVE EditIInv'
    OBVIOUS
  <2>1. CASE EditNext
    BY <2>1, EditNextIInv
  <2>2. CASE UNCHANGED editVars
    <3>1. Now' = Now /\ lists' = lists /\ seen' = seen /\ cutting' = cutting /\ space' = space
      BY <2>2 DEF editVars, vars, Now
    <3> QED BY <3>1 DEF EditIInv
  <2> QED BY <2>1, <2>2
<1> QED BY <1>1, EditInitIInv, PTL DEF EditSpec

\* Whatever is loaded and whatever the user does, the fields hold nodes or null,
\* and what a document showed is noted once for each place of its list.
THEOREM EditTyped == EditSpec => []EditTypeOK
<1>1. EditIInv => EditTypeOK
  <2> SUFFICES ASSUME EditIInv PROVE EditTypeOK
    OBVIOUS
  <2>1. TypeOK /\ broken \in Whys
    BY DEF EditIInv, Good, Now, States, TypeOK
  <2> QED BY <2>1 DEF EditTypeOK, Whys, EditIInv, SeenGood
<1> QED BY <1>1, EditInvariance, PTL

\* A trigger that has a list of commands is in the space, also with functions made
\* and removed and when the user is not careful (Commands.cpp, RemoveItemNode).
THEOREM EditListsInSpace == EditSpec => []ListsInSpace
<1>1. EditIInv => ListsInSpace
  <2> SUFFICES ASSUME EditIInv, NEW d \in Trigger, lists[d] # EmptyList PROVE Attached(d)
    BY DEF ListsInSpace
  <2>1. d \in Node /\ Root \in Node
    BY EditAssumption
  <2>2. InSpace(tree, alive, d)
    BY DEF EditIInv, Good, Listed, Now
  <2>3. tree \in Tree /\ ParentsEnd(tree)
    BY NowGood DEF TreeGood, Sound
  <2> QED BY <2>1, <2>2, <2>3, UpFromIs DEF Attached, InSpace
<1> QED BY <1>1, EditInvariance, PTL

\* No command that is done, undone, redone or deleted leaves the tree of the space
\* other than well formed, nor a pointer of it to a freed node.
THEOREM EditTreeWellFormed == EditSpec => []WellFormed
<1>1. EditIInv => WellFormed
  <2> SUFFICES ASSUME EditIInv PROVE WellFormed
    OBVIOUS
  <2>1. Sound(tree) /\ Within(tree, alive) /\ tree \in Tree
    BY NowGood DEF TreeGood
  <2>2. NoDangling
    BY <2>1 DEF NoDangling, Within
  <2>3. TypeOK
    BY NowGood DEF TypeOK
  <2> QED BY <2>1, <2>2, <2>3 DEF WellFormed, WellLinked, Acyclic, Sound
<1> QED BY <1>1, EditInvariance, PTL

-----------------------------------------------------------------------------
(* Undo takes back what a command did.                                     *)

LEMMA SameTree ==
    ASSUME NEW t \in Tree, NEW u \in Tree,
           \A x \in Node : /\ u.parent[x] = t.parent[x] /\ u.prev[x] = t.prev[x]
                           /\ u.next[x] = t.next[x] /\ u.first[x] = t.first[x]
    PROVE  u = t
<1>1. /\ t.parent \in [Node -> Ptr] /\ t.prev \in [Node -> Ptr]
      /\ t.next \in [Node -> Ptr] /\ t.first \in [Node -> Ptr]
      /\ u.parent \in [Node -> Ptr] /\ u.prev \in [Node -> Ptr]
      /\ u.next \in [Node -> Ptr] /\ u.first \in [Node -> Ptr]
      /\ t = [parent |-> t.parent, prev |-> t.prev, next |-> t.next, first |-> t.first]
      /\ u = [parent |-> u.parent, prev |-> u.prev, next |-> u.next, first |-> u.first]
  BY DEF Tree
<1>2. u.parent = t.parent /\ u.prev = t.prev /\ u.next = t.next /\ u.first = t.first
  BY <1>1
<1> QED BY <1>1, <1>2

\* A node that is linked nowhere is unlinked already.
LEMMA UnlinkAlone ==
    ASSUME NEW t \in Tree, Sound(t), NEW n \in Node, t.parent[n] = NULL
    PROVE  Unlink(t, n) = t
<1> DEFINE u == Unlink(t, n)
<1>1. t.prev[n] = NULL /\ t.next[n] = NULL /\ Linked(t) /\ SiblingsEnd(t)
  BY DEF Sound, Linked, RootsUnlinked
<1>2. u \in Tree
  BY UnlinkType
<1>3. \A x \in Node :
        /\ u.parent[x] = IF x = n THEN NULL ELSE t.parent[x]
        /\ u.prev[x] = IF x = n THEN NULL
                       ELSE IF x = t.next[n] THEN t.prev[n] ELSE t.prev[x]
        /\ u.next[x] = IF x = n THEN NULL
                       ELSE IF x = t.prev[n] THEN t.next[n] ELSE t.next[x]
        /\ u.first[x] = IF t.prev[n] = NULL /\ x = t.parent[n]
                        THEN t.next[n] ELSE t.first[x]
  BY <1>1, UnlinkFields
<1> HIDE DEF u
<1>4. \A x \in Node : x # NULL
  BY NullAssumption
<1>5. u = t
  BY <1>1, <1>2, <1>3, <1>4, SameTree
<1> QED BY <1>5 DEF u

\* What is inserted and unlinked again leaves the tree as it was.
LEMMA UnlinkInserted ==
    ASSUME NEW t \in Tree, Sound(t), NEW p \in Node, NEW n \in Node, NEW refer \in Ptr,
           ReferenceOK(t, p, n, refer), t.parent[n] = NULL, ~AncestorOrSelf(t, n, p)
    PROVE  LET w == InsertAfter(t, p, n, refer) IN
           Unlink(w, n) = t /\ w.parent[n] = p /\ w.prev[n] = refer
<1> DEFINE after == IF refer # NULL THEN t.next[refer] ELSE t.first[p]
           w == InsertAfter(t, p, n, refer)
           u == Unlink(w, n)
<1>1. t.prev[n] = NULL /\ t.next[n] = NULL /\ Linked(t) /\ SiblingsEnd(t) /\ n # p
  <2>1. n # p
    BY DEF AncestorOrSelf
  <2> QED BY <2>1 DEF Sound, Linked, RootsUnlinked
<1>2. /\ after \in Ptr /\ after # n
      /\ after # NULL => /\ t.parent[after] = p /\ t.prev[after] = refer
  BY <1>1, AfterLinked
<1>3. w \in Tree
  BY InsertAfterType
<1>4. Linked(w) /\ SiblingsEnd(w)
  BY <1>1, InsertAfterLinked, InsertAfterSiblingsEnd
<1>5. refer # n
  BY DEF ReferenceOK
<1>6. \A x \in Node :
        /\ w.parent[x] = IF x = n THEN p ELSE t.parent[x]
        /\ w.prev[x] = IF x = n THEN refer ELSE IF x = after THEN n ELSE t.prev[x]
        /\ w.next[x] = IF x = n THEN after ELSE IF x = refer THEN n ELSE t.next[x]
        /\ w.first[x] = IF refer = NULL /\ x = p THEN n ELSE t.first[x]
  BY <1>2, <1>5, InsertAfterFields
<1> HIDE DEF w
<1>7. u \in Tree
  BY <1>3, UnlinkType
<1>8. \A x \in Node :
        /\ u.parent[x] = IF x = n THEN NULL ELSE w.parent[x]
        /\ u.prev[x] = IF x = n THEN NULL
                       ELSE IF x = w.next[n] THEN w.prev[n] ELSE w.prev[x]
        /\ u.next[x] = IF x = n THEN NULL
                       ELSE IF x = w.prev[n] THEN w.next[n] ELSE w.next[x]
        /\ u.first[x] = IF w.prev[n] = NULL /\ x = w.parent[n]
                        THEN w.next[n] ELSE w.first[x]
  BY <1>3, <1>4, UnlinkFields
<1> HIDE DEF u
<1>9. w.parent[n] = p /\ w.prev[n] = refer /\ w.next[n] = after
  BY <1>6
<1>10. /\ refer # NULL => t.next[refer] = after
       /\ refer = NULL => t.first[p] = after
  OBVIOUS
<1> HIDE DEF after
<1>11. \A x \in Node : /\ x # NULL
                       /\ u.parent[x] = t.parent[x] /\ u.prev[x] = t.prev[x]
                       /\ u.next[x] = t.next[x] /\ u.first[x] = t.first[x]
  <2>1. ASSUME NEW c \in Node
        PROVE  /\ c # NULL
               /\ u.parent[c] = t.parent[c] /\ u.prev[c] = t.prev[c]
               /\ u.next[c] = t.next[c] /\ u.first[c] = t.first[c]
    <3>1. c # NULL
      BY NullAssumption
    <3>2. u.parent[c] = t.parent[c]
      BY <1>6, <1>8
    <3>3. u.prev[c] = t.prev[c]
      BY <1>1, <1>2, <1>6, <1>8, <1>9, <3>1
    <3>4. u.next[c] = t.next[c]
      BY <1>1, <1>5, <1>6, <1>8, <1>9, <1>10, <3>1
    <3>5. u.first[c] = t.first[c]
      BY <1>1, <1>6, <1>8, <1>9, <1>10, <3>1
    <3> QED BY <3>1, <3>2, <3>3, <3>4, <3>5
  <2> QED BY <2>1
<1>12. u = t
  BY <1>7, <1>11, SameTree
<1> QED BY <1>9, <1>12 DEF u, w

\* What is unlinked and put back at its place leaves the tree as it was.
LEMMA InsertUnlinked ==
    ASSUME NEW t \in Tree, Sound(t), NEW n \in Node, t.parent[n] # NULL
    PROVE  LET u == Unlink(t, n) IN
           /\ InsertAfter(u, t.parent[n], n, t.prev[n]) = t
           /\ ReferenceOK(u, t.parent[n], n, t.prev[n])
           /\ ~AncestorOrSelf(u, n, t.parent[n]) /\ u.parent[n] = NULL
           /\ u \in Tree /\ Sound(u)
<1> DEFINE u == Unlink(t, n)
           p == t.parent[n]
           v == t.prev[n]
           a == t.next[n]
           w == InsertAfter(u, p, n, v)
           after == IF v # NULL THEN u.next[v] ELSE u.first[p]
<1>1. Linked(t) /\ SiblingsEnd(t) /\ ParentsEnd(t)
  BY DEF Sound
<1>2. p \in Node /\ v \in Ptr /\ a \in Ptr /\ v # n /\ a # n /\ p # n
  <2>1. v # n /\ a # n
    BY <1>1, UnlinkFields
  <2>2. p # n
    BY <1>1, NotAboveParent DEF AncestorOrSelf
  <2> QED BY <2>1, <2>2 DEF Tree, Ptr
<1>3. \A x \in Node :
        /\ u.parent[x] = IF x = n THEN NULL ELSE t.parent[x]
        /\ u.prev[x] = IF x = n THEN NULL ELSE IF x = a THEN v ELSE t.prev[x]
        /\ u.next[x] = IF x = n THEN NULL ELSE IF x = v THEN a ELSE t.next[x]
        /\ u.first[x] = IF v = NULL /\ x = p THEN a ELSE t.first[x]
  BY <1>1, UnlinkFields
<1>4. u \in Tree /\ Linked(u) /\ SiblingsEnd(u) /\ ParentsEnd(u)
  BY <1>1, UnlinkType, UnlinkLinked, UnlinkSiblingsEnd, UnlinkParentsEnd
<1>5. /\ v # NULL => v \in Node /\ t.next[v] = n /\ t.parent[v] = p
      /\ a # NULL => a \in Node /\ t.prev[a] = n
      /\ v = NULL => t.first[p] = n
  BY <1>1, <1>2 DEF Linked, FirstLinked, SiblingsLinked, Ptr
<1> HIDE DEF u, p, v, a
<1>6. after = a
  BY <1>2, <1>3, <1>5
<1>7. ReferenceOK(u, p, n, v)
  BY <1>2, <1>3, <1>5 DEF ReferenceOK
<1>8. w \in Tree
  BY <1>2, <1>4, InsertAfterType
<1>9. \A x \in Node :
        /\ w.parent[x] = IF x = n THEN p ELSE u.parent[x]
        /\ w.prev[x] = IF x = n THEN v ELSE IF x = a THEN n ELSE u.prev[x]
        /\ w.next[x] = IF x = n THEN a ELSE IF x = v THEN n ELSE u.next[x]
        /\ w.first[x] = IF v = NULL /\ x = p THEN n ELSE u.first[x]
  <2>1. a = IF v # NULL THEN u.next[v] ELSE u.first[p]
    BY <1>6
  <2> QED BY <1>2, <1>4, <2>1, InsertAfterFields
<1> HIDE DEF w
<1>10. t.parent[n] = p /\ t.prev[n] = v /\ t.next[n] = a
  BY DEF p, v, a
<1>11. \A x \in Node : /\ w.parent[x] = t.parent[x] /\ w.prev[x] = t.prev[x]
                       /\ w.next[x] = t.next[x] /\ w.first[x] = t.first[x]
  <2>1. ASSUME NEW c \in Node
        PROVE  /\ w.parent[c] = t.parent[c] /\ w.prev[c] = t.prev[c]
               /\ w.next[c] = t.next[c] /\ w.first[c] = t.first[c]
    <3>1. c # NULL
      BY NullAssumption
    <3>2. w.parent[c] = t.parent[c]
      BY <1>3, <1>9, <1>10
    <3>3. w.prev[c] = t.prev[c]
      BY <1>3, <1>5, <1>9, <1>10, <3>1
    <3>4. w.next[c] = t.next[c]
      BY <1>3, <1>5, <1>9, <1>10, <3>1
    <3>5. w.first[c] = t.first[c]
      BY <1>2, <1>3, <1>5, <1>9, <1>10
    <3> QED BY <3>2, <3>3, <3>4, <3>5
  <2> QED BY <2>1
<1>12. w = t
  BY <1>8, <1>11, SameTree
<1>13. ~AncestorOrSelf(u, n, p)
  <2>1. PICK A \in SUBSET Node :
          p \in A /\ n \notin A /\ \A x \in A : t.parent[x] # NULL => t.parent[x] \in A
    BY <1>1, NotAboveParent DEF AncestorOrSelf, p
  <2>2. \A x \in A : u.parent[x] # NULL => u.parent[x] \in A
    BY <1>3, <2>1
  <2> QED BY <2>1, <2>2 DEF AncestorOrSelf
<1>14. u.parent[n] = NULL /\ Sound(u)
  BY <1>3, <1>4 DEF Sound
<1> QED BY <1>4, <1>7, <1>12, <1>13, <1>14 DEF u, p, v, w

AsTree(s, u) == [t |-> u, alive |-> s.alive, lists |-> s.lists, broken |-> s.broken]

\* No trigger that leaves the space with n has a list of commands.
Quiet(s, n) ==
    n \in Group \cup Trigger =>
        \A d \in Trigger \cap s.alive : n \in UpFrom(s.t, d) => s.lists[d] = EmptyList

LEMMA AsTreeIs ==
    ASSUME NEW s, NEW W, Good(s, W), NEW u
    PROVE  /\ [s EXCEPT !.t = u] = AsTree(s, u) /\ AsTree(s, s.t) = s
           /\ \A why : Broke(s, why).broken = why
BY DEF AsTree, Good, States, Broke

\* RemoveCommands leaves everything as it is when there are none.
LEMMA RemoveCommandsNone ==
    ASSUME NEW s, NEW W, Good(s, W), NEW d \in Document, s.lists[d] = EmptyList
    PROVE  RemoveCommands(s, d) = s
<1> DEFINE l == s.lists[d]
           m1 == SubSeq(l.cmds, 1, l.redo - 1)
           m2 == Leaving(l)
           ls == s.lists
<1>1. m1 = << >> /\ m2 = << >>
  BY DEF EmptyList, Leaving
<1> HIDE DEF m1, m2
<1>2. DestroyedAll(s, m1, TRUE) = s /\ DestroyedAll(s, m2, FALSE) = s
  BY <1>1, DestroyedNone
<1>3. RemoveCommands(s, d) = [s EXCEPT !.lists[d] = EmptyList]
  BY <1>2 DEF RemoveCommands, m1, m2
<1>4. ls \in [Document -> UNION {ListsOf(e) : e \in Document}] /\ ls[d] = EmptyList
  BY DEF Good, States
<1> HIDE DEF ls
<1>5. [ls EXCEPT ![d] = EmptyList] = ls
  BY <1>4
<1>6. [s EXCEPT !.lists[d] = EmptyList] =
        [t |-> s.t, alive |-> s.alive, lists |-> [ls EXCEPT ![d] = EmptyList],
         broken |-> s.broken]
  BY DEF Good, States, ls
<1>7. s = [t |-> s.t, alive |-> s.alive, lists |-> ls, broken |-> s.broken]
  BY DEF Good, States, ls
<1> QED BY <1>3, <1>5, <1>6, <1>7

LEMMA RemovedNone ==
    ASSUME NEW s, NEW W, Good(s, W), NEW q \in Seq(Trigger),
           \A i \in 1..Len(q) : s.lists[q[i]] = EmptyList
    PROVE  Folded(RemoveCommands, s, q) = s
<1> DEFINE n == Len(q)
           Q(g) == g = [i \in 0..n |-> IF i = 0 THEN s ELSE RemoveCommands(g[i - 1], q[i])]
           g0 == [i \in 0..n |-> s]
           f == CHOOSE g : Q(g)
           J == [i \in 0..n |-> {s}]
<1>1. Folded(RemoveCommands, s, q) = f[n]
  BY DEF Folded
<1>2. n \in Nat /\ \A i \in 1..n : q[i] \in Trigger
  OBVIOUS
<1>3. ASSUME NEW i \in 1..n PROVE RemoveCommands(s, q[i]) = s
  <2>1. q[i] \in Document /\ s.lists[q[i]] = EmptyList
    BY <1>2 DEF Document
  <2> QED BY <2>1, RemoveCommandsNone
<1> HIDE DEF n
<1>4. Q(g0)
  <2>1. ASSUME NEW i \in 0..n
        PROVE  g0[i] = IF i = 0 THEN s ELSE RemoveCommands(g0[i - 1], q[i])
    <3>1. CASE i = 0
      BY <3>1
    <3>2. CASE i # 0
      <4>1. i \in 1..n /\ i - 1 \in 0..n
        BY <1>2, <3>2
      <4> QED BY <1>3, <3>2, <4>1
    <3> QED BY <3>1, <3>2
  <2> QED BY <2>1
<1>5. Q(f)
  <2> HIDE DEF Q, g0
  <2> QED BY <1>4, Zenon
<1> HIDE DEF f
<1>6. f[n] \in J[n]
  <2>1. f[0] \in J[0]
    BY <1>2, <1>5
  <2>2. ASSUME NEW i \in 1..n, f[i - 1] \in J[i - 1] PROVE f[i] \in J[i]
    <3>1. i \in 0..n /\ i # 0 /\ i - 1 \in 0..n
      BY <1>2
    <3>2. f[i] = RemoveCommands(f[i - 1], q[i]) /\ f[i - 1] = s
      BY <1>5, <2>2, <3>1
    <3> QED BY <1>3, <3>1, <3>2
  <2> HIDE DEF J
  <2> QED BY <1>2, <2>1, <2>2, Onwards
<1>7. f[n] = s
  BY <1>2, <1>6
<1> QED BY <1>1, <1>7

\* RemoveItemNode when no list goes with the node.
LEMMA RemoveItemQuiet ==
    ASSUME NEW s, Good(s, {}), ~IsBroken(s), NEW n \in s.alive, n # Root, Quiet(s, n)
    PROVE  /\ RemoveItemNode(s, n) = AsTree(s, Unlink(s.t, n))
           /\ Good(AsTree(s, Unlink(s.t, n)), {})
<1> DEFINE y == RemoveItemNode(s, n)
           leaving == IF n \in Group \cup Trigger
                      THEN {d \in Trigger \cap s.alive : n \in UpFrom(s.t, d)} ELSE {}
           q == S!SetToSeq(leaving)
           s1 == [s EXCEPT !.t = Unlink(s.t, n)]
<1>1. y = Folded(RemoveCommands, s1, q)
  BY DEF RemoveItemNode
<1>2. TreeGood(s.t, s.alive) /\ s \in States /\ n \in Node \ {Root}
  BY DEF Good, TreeGood
<1>3. Trigger \subseteq Node /\ IsFiniteSet(Node)
  BY EditAssumption
<1>4. leaving \subseteq Trigger /\ leaving \in SUBSET Node
  BY <1>3
<1>5. q \in Seq(leaving)
  <2>1. IsFiniteSet(leaving)
    BY <1>3, <1>4, FS_Subset
  <2> HIDE DEF leaving
  <2> QED BY <2>1, SetToSeqHasAll
<1>6. \A d \in leaving : s.lists[d] = EmptyList
  BY DEF Quiet
<1> HIDE DEF leaving, q
<1>7. q \in Seq(Trigger) /\ \A i \in 1..Len(q) : q[i] \in leaving
  BY <1>4, <1>5, SeqMono
<1> DEFINE u == Unlink(s.t, n)
<1>8. s1 = AsTree(s, u) /\ s1.lists = s.lists
  <2>1. s1 = AsTree(s, u)
    BY <1>2 DEF AsTree, States
  <2> QED BY <2>1 DEF AsTree
<1>9. TreeGood(u, s.alive)
  <2> DEFINE t0 == s.t
             A0 == s.alive
  <2>1. TreeGood(t0, A0) /\ n \in A0 /\ n # Root
    BY <1>2
  <2> HIDE DEF t0, A0
  <2>2. TreeGood(Unlink(t0, n), A0)
    BY <2>1, TreeUnlinked
  <2> QED BY <2>2 DEF t0, A0
<1>10. Good(s1, Trigger)
  <2>1. Good(s, Trigger)
    BY DEF Good, Listed
  <2> HIDE DEF s1, u
  <2> QED BY <1>8, <1>9, <2>1, WithTree DEF AsTree
<1> HIDE DEF s1, y
<1>11. y = s1
  BY <1>1, <1>6, <1>7, <1>8, <1>10, RemovedNone
<1>12. Good(y, {})
  BY <1>2, RemoveItemNodeGood DEF GoodStep, y
<1> QED BY <1>8, <1>11, <1>12 DEF y, u

\* AddNodeItem is InsertAfter, of the previous sibling that was noted.
LEMMA AddNodeItemIs ==
    ASSUME NEW s, Good(s, {}), ~IsBroken(s), NEW n \in Node, NEW p \in Node, NEW v \in Ptr
    PROVE  LET y == AddNodeItem(s, n, p, v)
               fine == /\ n \in s.alive /\ p \in s.alive /\ ReferenceOK(s.t, p, n, v)
                       /\ s.t.parent[n] = NULL /\ ~AncestorOrSelf(s.t, n, p)
           IN  /\ ~IsBroken(y) <=> fine
               /\ fine => y = AsTree(s, InsertAfter(s.t, p, n, v))
<1> DEFINE t == s.t
           A == s.alive
           y == AddNodeItem(s, n, p, v)
           refer == IF v = NULL THEN t.first[p] ELSE v
           u == IF v = NULL THEN InsertBefore(t, p, n, refer) ELSE InsertOrAppend(t, p, n, v)
           fine == /\ n \in A /\ p \in A /\ ReferenceOK(t, p, n, v)
                   /\ t.parent[n] = NULL /\ ~AncestorOrSelf(t, n, p)
           there == {n, p} \cup ({v} \ {NULL}) \subseteq A
           loose == ~(t.parent[n] # NULL \/ n \in UpFrom(t, p))
<1>1. /\ t \in Tree /\ Sound(t) /\ Within(t, A) /\ p # NULL /\ n # NULL
  BY NullAssumption DEF Good, TreeGood
<1>2. y = IF ~there THEN Broke(s, "freed")
          ELSE IF ~ReferenceOK(t, p, n, refer) THEN Broke(s, "assertion")
          ELSE IF ~loose THEN Broke(s, "linked")
          ELSE [s EXCEPT !.t = u]
  BY <1>1 DEF AddNodeItem
<1>3. /\ \A why : Broke(s, why).broken = why
      /\ [s EXCEPT !.t = u] = AsTree(s, u) /\ ~IsBroken(AsTree(s, u))
  BY AsTreeIs DEF AsTree, IsBroken
<1>4. loose <=> t.parent[n] = NULL /\ ~AncestorOrSelf(t, n, p)
  BY <1>1, UpFromIs DEF Sound
<1>5. ~IsBroken(y) <=> there /\ ReferenceOK(t, p, n, refer) /\ loose
  <2> HIDE DEF there, refer, loose, u, y
  <2> QED BY <1>2, <1>3 DEF IsBroken
<1>6. t.parent[n] = NULL => (ReferenceOK(t, p, n, v) => there <=> n \in A /\ p \in A)
  BY <1>1 DEF ReferenceOK, Within
<1>7. t.parent[n] = NULL => (ReferenceOK(t, p, n, refer) <=> ReferenceOK(t, p, n, v))
  <2>1. t.first[p] # NULL => t.first[p] \in Node /\ t.parent[t.first[p]] = p
    BY <1>1 DEF Sound, Linked, FirstLinked, Tree, Ptr
  <2> QED BY <1>1, <2>1 DEF ReferenceOK
<1>8. ~IsBroken(y) <=> fine
  <2> HIDE DEF refer, u, y, there, loose, t, A
  <2> QED BY <1>4, <1>5, <1>6, <1>7
<1>9. ASSUME fine PROVE u = InsertAfter(t, p, n, v)
  <2>1. ReferenceOK(t, p, n, refer) /\ refer \in Ptr
    BY <1>1, <1>7, <1>9 DEF Tree
  <2>2. CASE v # NULL
    BY <2>2 DEF InsertOrAppend
  <2>3. CASE v = NULL
    <3>1. u = InsertBefore(t, p, n, refer)
      BY <2>3
    <3> DEFINE before == IF refer # NULL THEN t.prev[refer] ELSE LastChild(t, p)
    <3>2. before = NULL
      <4>1. CASE refer # NULL
        BY <1>1, <2>3, <4>1 DEF Sound, Linked, FirstLinked, Tree, Ptr
      <4>2. CASE refer = NULL
        BY <2>3, <4>2 DEF LastChild
      <4> QED BY <4>1, <4>2
    <3> HIDE DEF refer, u, t, A
    <3>3. InsertBefore(t, p, n, refer) = InsertAfter(t, p, n, before)
      BY <1>1, <1>9, <2>1, OtherInsertions
    <3> QED BY <2>3, <3>1, <3>2, <3>3
  <2> QED BY <2>2, <2>3
<1>10. fine => y = [s EXCEPT !.t = u]
  <2> HIDE DEF refer, u, y, there, t, A
  <2> QED BY <1>2, <1>4, <1>6, <1>7
<1> QED BY <1>3, <1>8, <1>9, <1>10

\* DeleteNodeCmd: what was removed is put back.
LEMMA PutBack ==
    ASSUME NEW s, Good(s, {}), ~IsBroken(s), NEW n \in s.alive, n # Root, Quiet(s, n)
    PROVE  AddNodeItem(RemoveItemNode(s, n), n, s.t.parent[n], s.t.prev[n]) = s
<1> DEFINE t == s.t
           u == Unlink(t, n)
           x == RemoveItemNode(s, n)
           p == t.parent[n]
           v == t.prev[n]
<1>1. t \in Tree /\ Sound(t) /\ Within(t, s.alive) /\ n \in Node /\ p \in Ptr /\ v \in Ptr
  BY DEF Good, TreeGood, Tree
<1>2. x = AsTree(s, u) /\ Good(x, {}) /\ AsTree(s, t) = s
  BY RemoveItemQuiet, AsTreeIs
<1>3. x.t = u /\ x.alive = s.alive /\ ~IsBroken(x)
  BY <1>2 DEF AsTree, IsBroken
<1>4. CASE p = NULL
  <2>1. u = t
    <3> HIDE DEF t
    <3> QED BY <1>1, <1>4, UnlinkAlone DEF p
  <2>2. x = s
    BY <1>2, <2>1
  <2> QED BY <1>4, <2>2 DEF AddNodeItem
<1>5. CASE p # NULL
  <2>1. p \in Node /\ p \in s.alive
    BY <1>1, <1>5 DEF Within, Ptr
  <2>2. /\ InsertAfter(u, p, n, v) = t /\ ReferenceOK(u, p, n, v)
        /\ ~AncestorOrSelf(u, n, p) /\ u.parent[n] = NULL
    <3> HIDE DEF t
    <3> QED BY <1>1, <1>5, InsertUnlinked DEF p, v, u
  <2> HIDE DEF x, u, t, p, v
  <2>3. AddNodeItem(x, n, p, v) = AsTree(x, InsertAfter(u, p, n, v))
    BY <1>1, <1>2, <1>3, <2>1, <2>2, AddNodeItemIs
  <2>4. AsTree(x, t) = AsTree(s, t)
    BY <1>2 DEF AsTree
  <2> QED BY <1>2, <2>2, <2>3, <2>4 DEF x, p, v, t
<1> QED BY <1>4, <1>5

\* AddNodeCmd: what was added, of what hung nowhere, is removed.
LEMMA TakenAway ==
    ASSUME NEW s, Good(s, {}), ~IsBroken(s), NEW n \in s.alive, n # Root,
           s.t.parent[n] = NULL, NEW p \in Ptr, NEW v \in Ptr, Fits(n, p),
           NEW y, y = AddNodeItem(s, n, p, v), ~IsBroken(y)
    PROVE  Good(y, {}) /\ n \in y.alive /\ RemoveItemNode(y, n) = s /\ Quiet(y, n)
<1> DEFINE t == s.t
           w == InsertAfter(t, p, n, v)
<1>1. TreeGood(t, s.alive) /\ t \in Tree /\ Sound(t) /\ n \in Node
  BY DEF Good, TreeGood
<1>2. ASSUME NEW d \in Trigger, AncestorOrSelf(t, n, d) PROVE s.lists[d] = EmptyList
  <2>1. d \in Node
    BY EditAssumption
  <2>2. d \in Down(t, n)
    BY <1>1, <1>2, <2>1, AboveIsDown
  <2>3. ~AncestorOrSelf(t, Root, d)
    <3>1. t.parent[Root] = NULL
      BY <1>1 DEF TreeGood
    <3> HIDE DEF t
    <3> QED BY <1>1, <2>1, <2>2, <3>1, RootOnly DEF t
  <2> QED BY <2>3 DEF Good, Listed, InSpace
<1>3. Good(y, {})
  BY <1>1, AddNodeItemGood
<1>4. CASE p = NULL
  <2>1. y = s
    BY <1>4 DEF AddNodeItem
  <2>2. Quiet(s, n)
    BY <1>1, <1>2, EditAssumption, UpFromIs DEF Quiet, Sound
  <2>3. RemoveItemNode(s, n) = AsTree(s, Unlink(t, n)) /\ AsTree(s, t) = s
    BY <2>2, RemoveItemQuiet, AsTreeIs
  <2>4. Unlink(t, n) = t
    <3>1. t.parent[n] = NULL
      OBVIOUS
    <3> HIDE DEF t
    <3> QED BY <1>1, <3>1, UnlinkAlone
  <2> QED BY <2>1, <2>2, <2>3, <2>4
<1>5. CASE p # NULL
  <2>1. p \in Node
    BY <1>5 DEF Ptr
  <2>2. /\ n \in s.alive /\ p \in s.alive /\ ReferenceOK(t, p, n, v)
        /\ t.parent[n] = NULL /\ ~AncestorOrSelf(t, n, p)
        /\ y = AsTree(s, w)
    BY <1>1, <2>1, AddNodeItemIs
  <2> HIDE DEF t
  <2>3. Unlink(w, n) = t /\ w.parent[n] = p
    BY <1>1, <2>1, <2>2, UnlinkInserted
  <2>4. w \in Tree /\ ParentsEnd(w)
    BY <1>1, <2>1, <2>2, InsertAfterType, InsertAfterParentsEnd DEF Sound
  <2>5. \A c \in Node : c # n => w.parent[c] = t.parent[c]
    BY DEF InsertAfter, t, Good, TreeGood, Tree
  <2> HIDE DEF w
  <2>6. ASSUME NEW d \in Node, AncestorOrSelf(w, n, d) PROVE AncestorOrSelf(t, n, d)
    <3> SUFFICES ASSUME NEW B \in SUBSET Node, d \in B, n \notin B,
                        \A x \in B : t.parent[x] # NULL => t.parent[x] \in B
                 PROVE  FALSE
      BY DEF AncestorOrSelf
    <3>1. \A x \in B : w.parent[x] # NULL => w.parent[x] \in B
      BY <2>5
    <3> QED BY <2>6, <3>1 DEF AncestorOrSelf
  <2>7. y.t = w /\ y.alive = s.alive /\ y.lists = s.lists
    BY <2>2 DEF AsTree
  <2>8. Quiet(y, n)
    <3>1. ASSUME NEW d \in Trigger, n \in UpFrom(w, d) PROVE s.lists[d] = EmptyList
      <4>1. d \in Node
        BY EditAssumption
      <4>2. AncestorOrSelf(w, n, d)
        BY <2>4, <3>1, <4>1, UpFromIs
      <4> QED BY <1>2, <2>6, <4>1, <4>2
    <3> QED BY <2>7, <3>1 DEF Quiet
  <2>9. RemoveItemNode(y, n) = AsTree(y, t)
    BY <1>3, <2>3, <2>7, <2>8, RemoveItemQuiet
  <2>10. AsTree(y, t) = s
    <3>1. AsTree(s, t) = s
      BY AsTreeIs DEF t
    <3> QED BY <2>2, <3>1 DEF AsTree
  <2> QED BY <1>3, <2>7, <2>8, <2>9, <2>10
<1> QED BY <1>4, <1>5

\* Swapping back what was swapped, when one of the two hung nowhere.
LEMMA SwapUndone ==
    ASSUME NEW t \in Tree, Sound(t), NEW l \in Node, NEW r \in Node, t.parent[r] = NULL,
           t.parent[l] # NULL, ~AncestorOrSelf(t, l, r), ~AncestorOrSelf(t, r, l)
    PROVE  LET w == Swap(t, l, r) IN
           /\ Swap(w, r, l) = t
           /\ ~AncestorOrSelf(w, l, r) /\ ~AncestorOrSelf(w, r, l)
           /\ w.prev[l] # r /\ w.prev[r] # l
<1> DEFINE u == Unlink(t, l)
           p == t.parent[l]
           v == t.prev[l]
           w == InsertAfter(u, p, r, v)
<1>1. /\ InsertAfter(u, p, l, v) = t /\ ReferenceOK(u, p, l, v)
      /\ ~AncestorOrSelf(u, l, p) /\ u.parent[l] = NULL /\ u \in Tree /\ Sound(u)
  BY InsertUnlinked
<1>2. p \in Node /\ v \in Ptr /\ l # r /\ l # NULL /\ r # NULL
  BY NullAssumption DEF Tree, Ptr, AncestorOrSelf
<1>3. \A c \in Node : u.parent[c] = IF c = l THEN NULL ELSE t.parent[c]
  BY UnlinkFields DEF Sound
<1>4. u.parent[r] = NULL /\ ~AncestorOrSelf(u, r, p)
  <2>1. ~AncestorOrSelf(t, r, p)
    BY AboveStep
  <2>2. PICK B \in SUBSET Node :
          p \in B /\ r \notin B /\ \A x \in B : t.parent[x] # NULL => t.parent[x] \in B
    BY <2>1 DEF AncestorOrSelf
  <2>3. \A x \in B : u.parent[x] # NULL => u.parent[x] \in B
    BY <1>3, <2>2
  <2> QED BY <1>2, <1>3, <2>2, <2>3 DEF AncestorOrSelf
<1> HIDE DEF u
<1>5. Unlink(u, r) = u /\ Unlink(u, l) = u
  BY <1>1, <1>4, UnlinkAlone
<1>6. Swap(t, l, r) = w
  BY <1>2, <1>5 DEF Swap, u
<1>7. ReferenceOK(u, p, r, v)
  BY <1>1, <1>2, <1>4 DEF ReferenceOK
<1> HIDE DEF p, v
<1>8. /\ Unlink(w, r) = u /\ w.parent[r] = p /\ w.prev[r] = v
      /\ w \in Tree /\ Sound(w)
  <2>1. r # p
    BY <1>4 DEF AncestorOrSelf
  <2>2. Unlink(w, r) = u /\ w.parent[r] = p /\ w.prev[r] = v
    BY <1>1, <1>2, <1>4, <1>7, UnlinkInserted
  <2>3. w \in Tree
    BY <1>1, <1>2, InsertAfterType
  <2>4. Linked(w) /\ SiblingsEnd(w) /\ ParentsEnd(w)
    BY <1>1, <1>2, <1>4, <1>7, <2>1, InsertAfterLinked, InsertAfterSiblingsEnd,
       InsertAfterParentsEnd DEF Sound
  <2> QED BY <2>2, <2>3, <2>4 DEF Sound
<1>9. \A c \in Node : c # r => w.parent[c] = u.parent[c]
  BY <1>1, <1>2 DEF InsertAfter, Tree
<1> HIDE DEF w
<1>10. w.parent[l] = NULL /\ w.prev[l] = NULL
  <2>1. w.parent[l] = NULL
    BY <1>1, <1>2, <1>9
  <2> QED BY <1>8, <2>1 DEF Sound, Linked, RootsUnlinked
<1>11. Swap(w, r, l) = t
  <2>1. Unlink(Unlink(w, r), l) = u
    BY <1>5, <1>8
  <2>2. p # NULL
    BY <1>2, NullAssumption
  <2>3. Swap(w, r, l) = InsertAfter(u, p, l, v)
    BY <1>8, <1>10, <2>1, <2>2 DEF Swap
  <2> QED BY <1>1, <2>3
<1>12. ~AncestorOrSelf(w, r, l)
  BY <1>2, <1>8, <1>10, AboveStep
<1>13. ~AncestorOrSelf(w, l, r)
  <2>1. PICK B \in SUBSET Node :
          p \in B /\ l \notin B /\ \A x \in B : u.parent[x] # NULL => u.parent[x] \in B
    BY <1>1 DEF AncestorOrSelf
  <2> DEFINE C == B \cup {r}
  <2>2. \A x \in C : w.parent[x] # NULL => w.parent[x] \in C
    BY <1>8, <1>9, <2>1
  <2>3. C \in SUBSET Node /\ r \in C /\ l \notin C
    BY <1>2, <2>1
  <2> HIDE DEF C
  <2> QED BY <2>2, <2>3 DEF AncestorOrSelf
<1>14. w.prev[r] # l
  <2>1. v # l
    BY <1>1 DEF ReferenceOK
  <2> QED BY <1>8, <2>1
<1> QED BY <1>2, <1>6, <1>10, <1>11, <1>12, <1>13, <1>14

\* ExChangeNodeCmd is the swap: making the widgets of the node anew changes nothing.
LEMMA ExchangedIs ==
    ASSUME NEW s, Good(s, {}), ~IsBroken(s), NEW l \in Statement, NEW r \in Statement
    PROVE  LET y == Exchanged(s, l, r)
               fine == /\ l \in s.alive /\ r \in s.alive
                       /\ ~AncestorOrSelf(s.t, l, r) /\ ~AncestorOrSelf(s.t, r, l)
                       /\ s.t.prev[l] # r /\ s.t.prev[r] # l
           IN  /\ ~IsBroken(y) <=> fine
               /\ fine => y = AsTree(s, Swap(s.t, l, r)) /\ Good(y, {})
<1> DEFINE t == s.t
           A == s.alive
           y == Exchanged(s, l, r)
           u == Swap(t, l, r)
           s1 == [s EXCEPT !.t = u]
           fine == /\ l \in A /\ r \in A
                   /\ ~AncestorOrSelf(t, l, r) /\ ~AncestorOrSelf(t, r, l)
                   /\ t.prev[l] # r /\ t.prev[r] # l
           apart == ~(\/ l \in UpFrom(t, r) \/ r \in UpFrom(t, l)
                      \/ t.prev[l] = r \/ t.prev[r] = l)
           z == AddNodeItem(RemoveItemNode(s1, r), r, s1.t.parent[r], s1.t.prev[r])
<1>1. /\ TreeGood(t, A) /\ t \in Tree /\ ParentsEnd(t)
      /\ l \in Node /\ r \in Node /\ r # Root /\ r \notin Group \cup Trigger
  BY EditAssumption DEF Good, TreeGood, Sound
<1>2. y = IF ~({l, r} \subseteq A) THEN Broke(s, "freed")
          ELSE IF ~apart THEN Broke(s, "linked") ELSE z
  BY DEF Exchanged
<1>3. \A why : Broke(s, why).broken = why
  BY AsTreeIs
<1>4. {l, r} \subseteq A /\ apart <=> fine
  BY <1>1, UpFromIs
<1>5. s1 = AsTree(s, u) /\ s1.t = u /\ s1.alive = A /\ ~IsBroken(s1)
  <2>1. s1 = AsTree(s, u)
    BY AsTreeIs
  <2> HIDE DEF s1
  <2> QED BY <2>1 DEF AsTree, IsBroken
<1>6. ASSUME fine PROVE z = s1 /\ Good(s1, {})
  <2>1. l \in A \cap Statement /\ r \in A \cap Statement
    BY <1>6
  <2> HIDE DEF t, A, u, s1
  <2>2. /\ TreeGood(u, A)
        /\ \A d \in Node \ Statement : InSpace(t, A, d) => InSpace(u, A, d)
    BY <1>1, <1>6, <2>1, TreeSwapped DEF u
  <2>3. \A d \in Trigger \ {} : InSpace(s.t, s.alive, d) => InSpace(u, A, d)
    BY <2>2, EditAssumption DEF t, A
  <2>4. Good(s1, {})
    BY <1>5, <2>2, <2>3, WithTree DEF AsTree, A
  <2>5. r \in s1.alive /\ Quiet(s1, r)
    BY <1>1, <1>5, <1>6 DEF Quiet
  <2> QED BY <1>1, <1>5, <2>4, <2>5, PutBack
<1> HIDE DEF apart, z, s1, u, t, A, y
<1>7. ~IsBroken(y) <=> fine
  BY <1>2, <1>3, <1>4, <1>5, <1>6 DEF IsBroken
<1>8. fine => y = s1
  BY <1>2, <1>4, <1>6
<1> QED BY <1>5, <1>6, <1>7, <1>8 DEF y, u, t, A

\* The command notes of s what it will need: its constructor ran on s.
Notes(s, c) ==
    LET n == c.node IN
    /\ c.op = "add" => c.parent # NULL /\ s.t.parent[n] = NULL
    /\ c.op = "delete" =>
        c.parent = s.t.parent[n] /\ c.prev = s.t.prev[n] /\ Quiet(s, n)
    /\ c.op = "move" =>
        c.orgParent = s.t.parent[n] /\ c.orgPrev = s.t.prev[n] /\ Quiet(s, n)
    /\ c.op = "exchange" => s.t.parent[c.other] = NULL /\ s.t.parent[n] # NULL

\* A command that did what it noted is taken back exactly: the whole tree, the
\* order of all children included (UnExecute of each command of Commands.cpp).
THEOREM CommandUndone ==
    ASSUME NEW s, Good(s, {}), NEW c \in Cmds, Notes(s, c),
           ~IsBroken(s), ~IsBroken(Executed(s, c))
    PROVE  UnExecuted(Executed(s, c), c) = s
<1> DEFINE n == c.node
           y == Executed(s, c)
<1>1. n \in Node \ {Root} /\ s.t \in Tree
  BY CmdFields DEF Good, TreeGood
<1>2. c.op \in {"add", "delete", "move", "exchange"}
  BY CmdFields
<1>3. ASSUME n \in s.alive, Quiet(s, n)
      PROVE  /\ Good(RemoveItemNode(s, n), {}) /\ n \in RemoveItemNode(s, n).alive
             /\ ~IsBroken(RemoveItemNode(s, n)) /\ RemoveItemNode(s, n).t.parent[n] = NULL
  <2> DEFINE x == RemoveItemNode(s, n)
             u == Unlink(s.t, n)
  <2>1. x = AsTree(s, u) /\ Good(x, {})
    BY <1>1, <1>3, RemoveItemQuiet
  <2>2. u.parent[n] = NULL
    BY <1>1 DEF Unlink, Tree
  <2> HIDE DEF x, u
  <2>3. x.t = u /\ x.alive = s.alive /\ x.broken = s.broken
    BY <2>1 DEF AsTree
  <2> QED BY <1>3, <2>1, <2>2, <2>3 DEF IsBroken, x
<1>4. n \notin s.alive => IsBroken(RemoveItemNode(s, n))
  BY AsTreeIs DEF RemoveItemNode, IsBroken
<1>5. CASE c.op = "add"
  <2>1. c.parent \in Node /\ c.prev \in Ptr /\ Fits(n, c.parent) /\ s.t.parent[n] = NULL
    BY <1>5, CmdFields DEF Notes, Ptr
  <2>2. y = AddNodeItem(s, n, c.parent, c.prev)
    BY <1>5 DEF Executed
  <2>3. UnExecuted(y, c) = RemoveItemNode(y, n)
    BY <1>5 DEF UnExecuted
  <2>4. c.parent \in Ptr
    BY <2>1 DEF Ptr
  <2> HIDE DEF n, y
  <2>5. n \in s.alive
    BY <1>1, <2>1, <2>2, AddNodeItemIs DEF y
  <2>6. RemoveItemNode(y, n) = s
    BY <1>1, <2>1, <2>2, <2>4, <2>5, TakenAway DEF y
  <2> QED BY <2>3, <2>6 DEF y
<1>6. CASE c.op = "delete"
  <2>1. c.parent = s.t.parent[n] /\ c.prev = s.t.prev[n] /\ Quiet(s, n)
    BY <1>6 DEF Notes
  <2>2. y = RemoveItemNode(s, n) /\ UnExecuted(y, c) = AddNodeItem(y, n, c.parent, c.prev)
    BY <1>6 DEF Executed, UnExecuted
  <2>3. n \in s.alive
    BY <1>4, <2>2
  <2> HIDE DEF n, y
  <2>4. AddNodeItem(y, n, c.parent, c.prev) = s
    BY <1>1, <2>1, <2>2, <2>3, PutBack
  <2> QED BY <2>2, <2>4 DEF y
<1>7. CASE c.op = "move"
  <2>1. c.orgParent = s.t.parent[n] /\ c.orgPrev = s.t.prev[n] /\ Quiet(s, n)
    BY <1>7 DEF Notes
  <2>2. c.parent \in Ptr /\ c.prev \in Ptr /\ Fits(n, c.parent)
    BY <1>7, CmdFields
  <2> DEFINE x == RemoveItemNode(s, n)
  <2>3. /\ y = AddNodeItem(x, n, c.parent, c.prev)
        /\ UnExecuted(y, c) = AddNodeItem(RemoveItemNode(y, n), n, c.orgParent, c.orgPrev)
    BY <1>7 DEF Executed, UnExecuted
  <2>4. ~IsBroken(x)
    <3>1. IsBroken(x) => AddNodeItem(x, n, c.parent, c.prev) = x
      BY DEF AddNodeItem
    <3> HIDE DEF x
    <3> QED BY <2>3, <3>1
  <2>5. n \in s.alive
    BY <1>4, <2>4
  <2>6. Good(x, {}) /\ n \in x.alive /\ x.t.parent[n] = NULL
    BY <1>3, <2>1, <2>5
  <2>7. AddNodeItem(x, n, c.orgParent, c.orgPrev) = s
    BY <1>1, <2>1, <2>5, PutBack
  <2> HIDE DEF n, x, y
  <2>8. RemoveItemNode(y, n) = x
    BY <1>1, <2>2, <2>3, <2>4, <2>6, TakenAway DEF y
  <2> QED BY <2>3, <2>7, <2>8 DEF y
<1>8. CASE c.op = "exchange"
  <2> DEFINE r == c.other
             t == s.t
             w == Swap(t, n, r)
  <2>1. n \in Statement /\ r \in Statement /\ t.parent[r] = NULL /\ t.parent[n] # NULL
    BY <1>8, CmdFields DEF Notes
  <2>2. y = Exchanged(s, n, r) /\ UnExecuted(y, c) = Exchanged(y, r, n)
    BY <1>8 DEF Executed, UnExecuted
  <2>3. n \in Node /\ r \in Node /\ t \in Tree /\ Sound(t)
    BY <2>1, EditAssumption DEF Good, TreeGood
  <2>4. ~IsBroken(y)
    OBVIOUS
  <2> HIDE DEF n, r, y
  <2>5. /\ n \in s.alive /\ r \in s.alive
        /\ ~AncestorOrSelf(t, n, r) /\ ~AncestorOrSelf(t, r, n)
        /\ y = AsTree(s, w) /\ Good(y, {})
    BY <2>1, <2>2, <2>4, ExchangedIs
  <2>6. y.t = w /\ y.alive = s.alive
    BY <2>5 DEF AsTree
  <2> HIDE DEF t
  <2>7. /\ Swap(w, r, n) = t
        /\ ~AncestorOrSelf(w, n, r) /\ ~AncestorOrSelf(w, r, n)
        /\ w.prev[n] # r /\ w.prev[r] # n
    BY <2>1, <2>3, <2>5, SwapUndone
  <2> HIDE DEF w
  <2>8. Exchanged(y, r, n) = AsTree(y, t)
    BY <2>1, <2>4, <2>5, <2>6, <2>7, ExchangedIs
  <2>9. AsTree(y, t) = s
    <3>1. AsTree(s, t) = s
      BY AsTreeIs DEF t
    <3> QED BY <2>5, <3>1 DEF AsTree
  <2> QED BY <2>2, <2>8, <2>9 DEF y
<1> QED BY <1>2, <1>5, <1>6, <1>7, <1>8

\* Where a macro leads, from what each of its commands does.
LEMMA ExecutedGoes ==
    ASSUME NEW q, NEW n \in Nat, Len(q) = n, NEW g,
           \A i \in 1..n : g[i] = Executed(g[i - 1], q[i])
    PROVE  Folded(Executed, g[0], q) = g[n]
<1> DEFINE s == g[0]
           Q(k) == k = [i \in 0..Len(q) |-> IF i = 0 THEN s ELSE Executed(k[i - 1], q[i])]
           h == [i \in 0..n |-> g[i]]
           f == CHOOSE k : Q(k)
           J == [i \in 0..n |-> {h[i]}]
<1>1. Folded(Executed, s, q) = f[n]
  BY DEF Folded
<1>2. Q(h)
  <2>1. ASSUME NEW i \in 0..n
        PROVE  h[i] = IF i = 0 THEN s ELSE Executed(h[i - 1], q[i])
    <3>1. CASE i = 0
      BY <3>1
    <3>2. CASE i # 0
      <4>1. i \in 1..n /\ i - 1 \in 0..n
        BY <3>2
      <4>2. g[i] = Executed(g[i - 1], q[i])
        BY <4>1
      <4>3. h[i] = g[i] /\ h[i - 1] = g[i - 1]
        BY <4>1
      <4> QED BY <3>2, <4>2, <4>3
    <3> QED BY <3>1, <3>2
  <2> QED BY <2>1
<1>3. Q(f)
  <2> HIDE DEF Q, h
  <2> QED BY <1>2, Zenon
<1>4. \A i \in 0..n : h[i] = g[i]
  OBVIOUS
<1> HIDE DEF f, h
<1>5. f[n] \in J[n]
  <2>1. f[0] \in J[0]
    BY <1>3, <1>4
  <2>2. ASSUME NEW i \in 1..n, f[i - 1] \in J[i - 1] PROVE f[i] \in J[i]
    <3>1. i \in 0..n /\ i # 0 /\ i - 1 \in 0..n
      OBVIOUS
    <3>2. f[i] = Executed(f[i - 1], q[i]) /\ f[i - 1] = h[i - 1]
      BY <1>3, <2>2, <3>1
    <3>3. h[i] = Executed(h[i - 1], q[i])
      BY <1>4, <3>1
    <3> QED BY <3>1, <3>2, <3>3
  <2> HIDE DEF J
  <2> QED BY <2>1, <2>2, Onwards
<1> QED BY <1>1, <1>4, <1>5

LEMMA UnExecutedGoes ==
    ASSUME NEW q, NEW n \in Nat, Len(q) = n, NEW g,
           \A i \in 1..n : g[i] = UnExecuted(g[i - 1], q[i])
    PROVE  Folded(UnExecuted, g[0], q) = g[n]
<1> DEFINE s == g[0]
           Q(k) == k = [i \in 0..Len(q) |-> IF i = 0 THEN s ELSE UnExecuted(k[i - 1], q[i])]
           h == [i \in 0..n |-> g[i]]
           f == CHOOSE k : Q(k)
           J == [i \in 0..n |-> {h[i]}]
<1>1. Folded(UnExecuted, s, q) = f[n]
  BY DEF Folded
<1>2. Q(h)
  <2>1. ASSUME NEW i \in 0..n
        PROVE  h[i] = IF i = 0 THEN s ELSE UnExecuted(h[i - 1], q[i])
    <3>1. CASE i = 0
      BY <3>1
    <3>2. CASE i # 0
      <4>1. i \in 1..n /\ i - 1 \in 0..n
        BY <3>2
      <4>2. g[i] = UnExecuted(g[i - 1], q[i])
        BY <4>1
      <4>3. h[i] = g[i] /\ h[i - 1] = g[i - 1]
        BY <4>1
      <4> QED BY <3>2, <4>2, <4>3
    <3> QED BY <3>1, <3>2
  <2> QED BY <2>1
<1>3. Q(f)
  <2> HIDE DEF Q, h
  <2> QED BY <1>2, Zenon
<1>4. \A i \in 0..n : h[i] = g[i]
  OBVIOUS
<1> HIDE DEF f, h
<1>5. f[n] \in J[n]
  <2>1. f[0] \in J[0]
    BY <1>3, <1>4
  <2>2. ASSUME NEW i \in 1..n, f[i - 1] \in J[i - 1] PROVE f[i] \in J[i]
    <3>1. i \in 0..n /\ i # 0 /\ i - 1 \in 0..n
      OBVIOUS
    <3>2. f[i] = UnExecuted(f[i - 1], q[i]) /\ f[i - 1] = h[i - 1]
      BY <1>3, <2>2, <3>1
    <3>3. h[i] = UnExecuted(h[i - 1], q[i])
      BY <1>4, <3>1
    <3> QED BY <3>1, <3>2, <3>3
  <2> HIDE DEF J
  <2> QED BY <2>1, <2>2, Onwards
<1> QED BY <1>1, <1>4, <1>5

\* The states a macro goes through, from s on: every command of it notes what it
\* finds, and none breaks anything.
Done(s, m, g) ==
    /\ g[0] = s /\ ~IsBroken(s)
    /\ \A i \in 1..Len(m) :
        /\ g[i] = Executed(g[i - 1], m[i]) /\ ~IsBroken(g[i])
        /\ Notes(g[i - 1], m[i])

\* A macro whose commands did what they noted is taken back exactly, because it
\* is undone from its last command to its first (MacroCmd::UnExecute).
THEOREM MacroUndone ==
    ASSUME NEW s, Good(s, {}), NEW m \in Seq(Cmds), NEW g, Done(s, m, g)
    PROVE  UnExecutedMacro(ExecutedMacro(s, m), m) = s
<1> DEFINE n == Len(m)
           back == S!Reverse(m)
           I == [i \in 0..n |-> {x \in States : x = g[i] /\ Good(x, {})}]
           b == [i \in 0..n |-> g[n - i]]
<1>1. n \in Nat /\ \A i \in 1..n : m[i] \in Cmds
  OBVIOUS
<1>2. ExecutedMacro(s, m) = g[n]
  BY <1>1, ExecutedGoes DEF ExecutedMacro, Done
<1>3. Len(back) = n /\ \A i \in 1..n : back[i] = m[(n - i) + 1]
  BY DEF S!Reverse
<1> HIDE DEF n, back
<1>4. \A i \in 0..n : Good(g[i], {})
  <2> DEFINE K == {i \in 0..n : Good(g[i], {})}
  <2>1. 0 \in K
    BY <1>1 DEF Done
  <2>2. ASSUME NEW i \in 1..n, i - 1 \in K PROVE i \in K
    <3>1. g[i] = Executed(g[i - 1], m[i]) /\ m[i] \in Cmds /\ i \in 0..n
      BY <1>1 DEF Done, n
    <3>2. Good(Executed(g[i - 1], m[i]), {})
      BY <2>2, <3>1, ExecutedGood DEF GoodStep
    <3> QED BY <3>1, <3>2
  <2> HIDE DEF K
  <2>3. \A i \in 0..n : i \in K
    BY <1>1, <2>1, <2>2, FromZero
  <2> QED BY <2>3 DEF K
<1>5. ASSUME NEW i \in 1..n PROVE UnExecuted(g[i], m[i]) = g[i - 1]
  <2> DEFINE x == g[i - 1]
             c == m[i]
  <2>1. i \in 0..n /\ i - 1 \in 0..n
    BY <1>1
  <2>2. Good(x, {}) /\ c \in Cmds /\ Notes(x, c) /\ g[i] = Executed(x, c) /\ ~IsBroken(g[i])
    BY <1>1, <1>4, <2>1 DEF Done, n
  <2>3. ~IsBroken(x)
    <3>1. CASE i = 1
      BY <3>1 DEF Done
    <3>2. CASE i # 1
      <4>1. i - 1 \in 1..n
        BY <1>1, <3>2
      <4> QED BY <4>1 DEF Done, n
    <3> QED BY <3>1, <3>2
  <2> HIDE DEF x, c
  <2>4. UnExecuted(Executed(x, c), c) = x
    BY <2>2, <2>3, CommandUndone
  <2> QED BY <2>2, <2>4 DEF x, c
<1>6. b[0] = g[n] /\ b[n] = s
  BY <1>1 DEF Done
<1>7. ASSUME NEW i \in 1..n PROVE b[i] = UnExecuted(b[i - 1], back[i])
  <2> DEFINE k == (n - i) + 1
  <2>1. k \in 1..n /\ i \in 0..n /\ i - 1 \in 0..n /\ n - i = k - 1 /\ n - (i - 1) = k
    BY <1>1
  <2>2. b[i] = g[k - 1] /\ b[i - 1] = g[k] /\ back[i] = m[k]
    BY <1>3, <2>1
  <2> HIDE DEF k, b
  <2> QED BY <1>5, <2>1, <2>2
<1> HIDE DEF b
<1>8. Folded(UnExecuted, b[0], back) = b[n]
  <2>1. n \in Nat /\ Len(back) = n
    BY <1>1, <1>3
  <2>2. \A i \in 1..n : b[i] = UnExecuted(b[i - 1], back[i])
    BY <1>7
  <2> QED BY <2>1, <2>2, UnExecutedGoes
<1> QED BY <1>2, <1>6, <1>8 DEF UnExecutedMacro, back

\* What is broken stays so.
LEMMA BrokenStays ==
    ASSUME NEW s, IsBroken(s), NEW c \in Cmds
    PROVE  Executed(s, c) = s
<1>1. \A n, p, v : AddNodeItem(s, n, p, v) = s /\ RemoveItemNode(s, n) = s
  BY DEF AddNodeItem, RemoveItemNode
<1>2. \A n, m : Exchanged(s, n, m) = s
  BY DEF Exchanged
<1> QED BY <1>1, <1>2 DEF Executed

\* Macros of no, one and two commands, that noted what they found.
LEMMA NoneDone ==
    ASSUME NEW s, ~IsBroken(s), NEW m, Len(m) = 0
    PROVE  \E g : Done(s, m, g)
<1> DEFINE g == [i \in 0..0 |-> s]
<1>1. g[0] = s /\ \A i \in 1..Len(m) : FALSE
  OBVIOUS
<1> HIDE DEF g
<1>2. Done(s, m, g)
  BY <1>1 DEF Done
<1> QED BY <1>2

LEMMA OneDone ==
    ASSUME NEW s, ~IsBroken(s), NEW m \in Seq(Cmds), Len(m) = 1, Notes(s, m[1]),
           ~IsBroken(ExecutedMacro(s, m))
    PROVE  \E g : Done(s, m, g)
<1> DEFINE g == [i \in 0..1 |-> IF i = 0 THEN s ELSE Executed(s, m[1])]
<1>1. g[0] = s /\ g[1] = Executed(s, m[1])
  OBVIOUS
<1> HIDE DEF g
<1>2. \A i \in 1..1 : g[i] = Executed(g[i - 1], m[i])
  <2>1. \A i \in 1..1 : i = 1 /\ i - 1 = 0
    OBVIOUS
  <2> QED BY <1>1, <2>1
<1>3. ExecutedMacro(s, m) = g[1]
  <2> DEFINE n == Len(m)
  <2>1. n = 1 /\ n \in Nat /\ \A i \in 1..n : g[i] = Executed(g[i - 1], m[i])
    BY <1>2
  <2> HIDE DEF n
  <2>2. Len(m) = n
    BY DEF n
  <2>3. Folded(Executed, g[0], m) = g[n]
    BY <2>1, <2>2, ExecutedGoes
  <2> QED BY <1>1, <2>1, <2>3 DEF ExecutedMacro
<1>4. \A i \in 1..Len(m) : i = 1 /\ g[i - 1] = s
  BY <1>1
<1>5. Done(s, m, g)
  BY <1>1, <1>3, <1>4 DEF Done
<1> QED BY <1>5

LEMMA ElementOf ==
    ASSUME NEW X, NEW q \in Seq(X)
    PROVE  \A i \in 1..Len(q) : q[i] \in X
OBVIOUS

LEMMA TwoDone ==
    ASSUME NEW s, ~IsBroken(s), NEW m \in Seq(Cmds), Len(m) = 2, Notes(s, m[1]),
           Notes(Executed(s, m[1]), m[2]), ~IsBroken(ExecutedMacro(s, m))
    PROVE  \E g : Done(s, m, g)
<1> DEFINE x == Executed(s, m[1])
           z == Executed(x, m[2])
           g == [i \in 0..2 |-> IF i = 0 THEN s ELSE IF i = 1 THEN x ELSE z]
<1>a. g[0] = s /\ g[1] = x /\ g[2] = z
  <2> HIDE DEF x, z
  <2> QED OBVIOUS
<1>1. g[0] = s /\ g[1] = Executed(s, m[1]) /\ g[2] = Executed(g[1], m[2])
  <2> HIDE DEF g
  <2> QED BY <1>a
<1>2. m[1] \in Cmds /\ m[2] \in Cmds
  <2>1. \A i \in 1..Len(m) : m[i] \in Cmds
    BY ElementOf
  <2> QED BY <2>1
<1> HIDE DEF g
<1>3. \A i \in 1..2 : g[i] = Executed(g[i - 1], m[i])
  <2>1. \A i \in 1..2 : (i = 1 /\ i - 1 = 0) \/ (i = 2 /\ i - 1 = 1)
    OBVIOUS
  <2> QED BY <1>1, <2>1
<1>4. ExecutedMacro(s, m) = g[2]
  <2> DEFINE n == Len(m)
  <2>1. n = 2 /\ n \in Nat /\ \A i \in 1..n : g[i] = Executed(g[i - 1], m[i])
    BY <1>3
  <2> HIDE DEF n
  <2>2. Len(m) = n
    BY DEF n
  <2>3. Folded(Executed, g[0], m) = g[n]
    BY <2>1, <2>2, ExecutedGoes
  <2> QED BY <1>1, <2>1, <2>3 DEF ExecutedMacro
<1>5. ~IsBroken(g[1])
  BY <1>1, <1>2, <1>4, BrokenStays
<1>6. \A i \in 1..Len(m) : /\ g[i] = Executed(g[i - 1], m[i]) /\ ~IsBroken(g[i])
                           /\ Notes(g[i - 1], m[i])
  <2>1. \A i \in 1..Len(m) : (i = 1 /\ i - 1 = 0) \/ (i = 2 /\ i - 1 = 1)
    OBVIOUS
  <2> QED BY <1>1, <1>4, <1>5, <2>1
<1>7. Done(s, m, g)
  BY <1>1, <1>6 DEF Done
<1> QED BY <1>7

\* The macro as AddCommand leaves it in the list of d.
WithMacro(s, d, m) == [s EXCEPT !.lists[d] = Pushed(lists[d], m)]

\* What UnDo would make of d now restores the tree of the step before.
UndoneAtOnce(d) ==
    LET s == UnExecutedMacro(Now', lists'[d].cmds[lists'[d].undo])
    IN  s.t = tree /\ ~IsBroken(s)

LEMMA WithMacroGood ==
    ASSUME NEW d \in Document, lists[d] \in ListsOf(d), NEW s, Good(s, {}), s.lists = lists,
           d \in Trigger => InSpace(s.t, s.alive, d), NEW m \in Seq(CmdsOf(d))
    PROVE  LET y == WithMacro(s, d, m) IN
           /\ Good(y, {}) /\ y.t = s.t /\ y.alive = s.alive /\ y.broken = s.broken
           /\ \A e \in Document : y.lists[e] = IF e = d THEN Pushed(lists[d], m) ELSE lists[e]
<1> DEFINE p == Pushed(lists[d], m)
           ls == [s.lists EXCEPT ![d] = p]
           y == [t |-> s.t, alive |-> s.alive, lists |-> ls, broken |-> s.broken]
<1>1. p \in ListsOf(d)
  BY PushedGood
<1>2. y.t = s.t /\ y.alive = s.alive /\ y.broken = s.broken /\ y.lists = ls
  OBVIOUS
<1>3. \A e \in Document : ls[e] = IF e = d THEN p ELSE lists[e]
  <2>1. DOMAIN s.lists = Document
    BY DEF Good, States
  <2> HIDE DEF p
  <2> QED BY <2>1
<1> HIDE DEF y, p
<1>4. Good(y, {}) /\ [s EXCEPT !.lists[d] = p] = y
  <2>1. y = [t |-> s.t, alive |-> s.alive, lists |-> ls, broken |-> s.broken]
    BY DEF y
  <2> QED BY <1>1, <2>1, WithListGood
<1>5. WithMacro(s, d, m) = y
  BY <1>4 DEF WithMacro, p
<1> QED BY <1>2, <1>3, <1>4, <1>5 DEF p

\* Nothing is to be freed when nothing could be redone.
LEMMA NothingLeaves ==
    ASSUME NEW d \in Document, NEW l \in ListsOf(d), ~CanReDo(l)
    PROVE  Leaving(l) = << >>
<1>1. l.redo = Len(l.cmds) + 1 /\ Len(l.cmds) \in Nat
  BY ListParts DEF CanReDo, ListEnd
<1> QED BY <1>1 DEF Leaving

LEMMA PushedAtUndo ==
    ASSUME NEW d \in Document, NEW l \in ListsOf(d), NEW m \in Seq(CmdsOf(d))
    PROVE  Pushed(l, m).cmds[Pushed(l, m).undo] = m
<1> DEFINE kept == SubSeq(l.cmds, 1, l.redo - 1)
<1>1. kept \in Seq(Seq(CmdsOf(d)))
  BY ListParts
<1>2. Pushed(l, m) = [cmds |-> Append(kept, m), undo |-> Len(kept) + 1, redo |-> Len(kept) + 2]
  BY DEF Pushed
<1> HIDE DEF kept
<1>3. Append(kept, m)[Len(kept) + 1] = m
  BY <1>1
<1> QED BY <1>2, <1>3

LEMMA AddCommandIs ==
    ASSUME EditIInv, NEW d \in Document, ~CanReDo(lists[d]),
           NEW s, Good(s, {}), s.lists = lists, d \in Trigger => InSpace(s.t, s.alive, d),
           NEW m \in Seq(CmdsOf(d)), AddCommand(s, d, m)
    PROVE  /\ Now' = ExecutedMacro(WithMacro(s, d, m), m)
           /\ lists'[d].cmds[lists'[d].undo] = m
           /\ lists[d] \in ListsOf(d) /\ m \in Seq(Cmds)
           /\ broken' = ExecutedMacro(WithMacro(s, d, m), m).broken
<1> DEFINE y == WithMacro(s, d, m)
           z == ExecutedMacro(y, m)
<1>1. lists[d] \in ListsOf(d) /\ m \in Seq(Cmds)
  BY NowGood, ListParts
<1>2. DestroyedAll(s, Leaving(lists[d]), FALSE) = s
  BY <1>1, NothingLeaves, DestroyedNone
<1>3. Becomes(z)
  <2> DEFINE r == DestroyedAll(s, Leaving(lists[d]), FALSE)
  <2>1. Becomes(ExecutedMacro([r EXCEPT !.lists[d] = Pushed(lists[d], m)], m))
    BY Zenon DEF AddCommand
  <2>2. r = s
    BY <1>2
  <2> HIDE DEF r
  <2> QED BY <2>1, <2>2 DEF WithMacro
<1>4. Good(y, {})
  BY <1>1, WithMacroGood
<1> HIDE DEF y
<1>5. MacroStep(y, z, m)
  BY <1>1, <1>4, ExecutedMacroGood
<1> HIDE DEF z
<1>6. z \in States
  BY <1>5 DEF MacroStep, Good
<1>7. Now' = z /\ broken' = z.broken
  BY <1>3, <1>6, BecomesIs DEF Becomes
<1>8. lists'[d] = Pushed(lists[d], m)
  BY AddCommandGood
<1>9. lists'[d].cmds[lists'[d].undo] = m
  BY <1>1, <1>8, PushedAtUndo
<1> QED BY <1>1, <1>7, <1>9 DEF z, y

LEMMA AddCommandUndone ==
    ASSUME EditIInv, NEW d \in Document, ~CanReDo(lists[d]),
           NEW s, Good(s, {}), s.lists = lists, s.t = tree,
           d \in Trigger => InSpace(s.t, s.alive, d),
           NEW m \in Seq(CmdsOf(d)), AddCommand(s, d, m),
           NEW g, Done(WithMacro(s, d, m), m, g)
    PROVE  UndoneAtOnce(d)
<1> DEFINE y == WithMacro(s, d, m)
<1>1. Now' = ExecutedMacro(y, m) /\ lists'[d].cmds[lists'[d].undo] = m
      /\ lists[d] \in ListsOf(d) /\ m \in Seq(Cmds)
  BY AddCommandIs
<1>2. Good(y, {}) /\ y.t = tree
  BY <1>1, WithMacroGood
<1>3. Done(y, m, g)
  OBVIOUS
<1> HIDE DEF y
<1>4. UnExecutedMacro(Now', m) = y
  BY <1>1, <1>2, <1>3, MacroUndone
<1>5. ~IsBroken(y)
  BY <1>3 DEF Done
<1> QED BY <1>1, <1>2, <1>4, <1>5 DEF UndoneAtOnce

\* A node that a document shows hangs below another, and so does a new one.
LEMMA ShownLinked ==
    ASSUME TreeGood(tree, alive), NEW d \in Document, NEW n \in Shown(d)
    PROVE  n \in alive /\ tree.parent[n] \in Node
<1>1. /\ n \in Node \ {Root} /\ n \in alive /\ tree \in Tree /\ ParentsEnd(tree)
      /\ Root \in Node
  BY ShownNodes, EditAssumption DEF Shown, TreeGood, Sound
<1>2. \E a \in Node \ {n} : a \in UpFrom(tree, n)
  <2>1. CASE d = Gallery
    BY <1>1, <2>1 DEF Shown, Attached
  <2>2. CASE d # Gallery
    BY <2>2, ShownNodes DEF Shown
  <2> QED BY <2>1, <2>2
<1>3. PICK a \in Node \ {n} : AncestorOrSelf(tree, a, n)
  BY <1>1, <1>2, UpFromIs
<1>4. tree.parent[n] # NULL
  BY <1>1, <1>3, AboveStep
<1> QED BY <1>1, <1>4 DEF Tree, Ptr

LEMMA PlaceThere ==
    ASSUME TreeGood(tree, alive), NEW d \in Document, NEW sel \in Selectable(d),
           NEW n, NEW new \in BOOLEAN, NEW at \in Locality(d, n, sel, new)
    PROVE  at[1] # NULL
<1>1. sel \in Node /\ (sel \in Shown(d) \/ sel = IF d = Gallery THEN Root ELSE d)
  BY ShownNodes, EditAssumption DEF Selectable
<1>2. sel \in Shown(d) => tree.parent[sel] # NULL
  BY ShownLinked, NullAssumption
<1>3. AtEnd(sel)[1] = sel /\ After(sel)[1] = tree.parent[sel] /\ sel # NULL
  BY <1>1, NullAssumption DEF AtEnd, After
<1>4. CASE d # Gallery
  <2>1. at \in StatementLocality(d, sel)
    BY <1>4 DEF Locality
  <2>2. at \in {<<sel, NULL>>, AtEnd(sel)} \/ (at = After(sel) /\ sel # d)
    BY <2>1 DEF StatementLocality
  <2> QED BY <1>1, <1>2, <1>3, <1>4, <2>2
<1>5. CASE d = Gallery
  <2>1. at \in GetGroupLocality(sel, new) \cup GetTriggerLocality(sel)
    BY <1>5 DEF Locality
  <2>2. at = AtEnd(sel) \/ (at = After(sel) /\ sel \in Group \cup Trigger \cup Function)
    BY <2>1 DEF GetGroupLocality, GetTriggerLocality
  <2>3. Root \notin Group \cup Trigger \cup Function
    BY EditAssumption
  <2> QED BY <1>1, <1>2, <1>3, <1>5, <2>2, <2>3
<1> QED BY <1>4, <1>5

\* The lists that matter to a command of d are not the list of d.
LEMMA QuietStays ==
    ASSUME NEW d \in Document, lists[d] \in ListsOf(d), NEW s, Good(s, {}), s.lists = lists,
           d \in Trigger => InSpace(s.t, s.alive, d), NEW m \in Seq(CmdsOf(d)),
           NEW n, Quiet(s, n), d # Gallery => n \in Statement
    PROVE  Quiet(WithMacro(s, d, m), n)
<1> DEFINE y == WithMacro(s, d, m)
<1>1. /\ y.t = s.t /\ y.alive = s.alive
      /\ \A e \in Document : y.lists[e] = IF e = d THEN Pushed(lists[d], m) ELSE lists[e]
  BY WithMacroGood
<1> HIDE DEF y
<1>2. Statement \cap (Group \cup Trigger) = {} /\ Gallery \notin Trigger /\ Trigger \subseteq Document
  BY EditAssumption DEF Document
<1>3. Quiet(y, n)
  <2> SUFFICES ASSUME n \in Group \cup Trigger, NEW e \in Trigger \cap s.alive,
                      n \in UpFrom(s.t, e)
               PROVE  y.lists[e] = EmptyList
    BY <1>1 DEF Quiet
  <2>1. lists[e] = EmptyList
    BY DEF Quiet
  <2>2. e # d
    BY <1>2
  <2> QED BY <1>1, <1>2, <2>1, <2>2
<1> QED BY <1>3 DEF y

\* A macro of one command.
LEMMA OneUndone ==
    ASSUME EditIInv, NEW d \in Document, ~CanReDo(lists[d]), broken' = "no",
           NEW s, Good(s, {}), s.lists = lists, s.t = tree, ~IsBroken(s),
           d \in Trigger => InSpace(s.t, s.alive, d),
           NEW m \in Seq(CmdsOf(d)), Len(m) = 1, AddCommand(s, d, m),
           Notes(WithMacro(s, d, m), m[1])
    PROVE  UndoneAtOnce(d)
<1> DEFINE y == WithMacro(s, d, m)
<1>1. /\ lists[d] \in ListsOf(d) /\ m \in Seq(Cmds)
      /\ broken' = ExecutedMacro(y, m).broken
  BY AddCommandIs
<1>2. ~IsBroken(y)
  <2>1. y.broken = s.broken
    BY <1>1, WithMacroGood
  <2> QED BY <2>1 DEF IsBroken
<1>3. ~IsBroken(ExecutedMacro(y, m))
  BY <1>1 DEF IsBroken
<1>4. Notes(y, m[1])
  OBVIOUS
<1> HIDE DEF y
<1>5. PICK g : Done(y, m, g)
  BY <1>1, <1>2, <1>3, <1>4, OneDone
<1> QED BY <1>5, AddCommandUndone DEF y

LEMMA NewNodeUndone ==
    ASSUME EditIInv, NEW d \in Document, ~CanReDo(lists[d]), broken' = "no",
           NEW n \in Node, NEW sel \in Selectable(d), NewNode(d, n, sel)
    PROVE  UndoneAtOnce(d)
<1> DEFINE s == [Now EXCEPT !.alive = @ \cup {n}]
<1>1. Editable(d) /\ n \in Node \ alive
  BY DEF NewNode
<1>a. PICK new \in BOOLEAN : \E at \in Locality(d, n, sel, new) :
        AddCommand(s, d, <<AddNodeCmd(n, at[1], at[2])>>)
  BY DEF NewNode
<1>2. PICK at \in Locality(d, n, sel, new) :
        AddCommand(s, d, <<AddNodeCmd(n, at[1], at[2])>>)
  BY <1>a
<1>3. /\ Good(s, {}) /\ s.lists = lists /\ s.t = tree
      /\ \A e \in Node : InSpace(tree, alive, e) => InSpace(s.t, s.alive, e)
  BY <1>1, NewlyBuilt
<1>4. ~IsBroken(s)
  BY <1>1 DEF Editable, IsBroken, Now
<1> HIDE DEF s
<1>5. n # Root /\ TreeGood(tree, alive) /\ tree.parent[n] = NULL
  BY <1>1, NowGood DEF TreeGood, Within
<1>6. /\ at[1] \in Ptr /\ at[2] \in Ptr /\ at[1] # NULL
      /\ d # Gallery => n \in Statement
      /\ d = Gallery => n \notin Statement /\ at[1] \in Group \cup {Root, NULL}
  BY <1>5, LocalityFits, PlaceThere
<1> DEFINE p == at[1]
           v == at[2]
           c == AddNodeCmd(n, p, v)
           m == <<c>>
<1>7. c \in CmdsOf(d)
  <2>1. Fits(n, p)
    BY <1>6 DEF Fits
  <2> HIDE DEF p, v
  <2> QED BY <1>1, <1>5, <1>6, <2>1, CommandsFit DEF p, v
<1>8. d \in Trigger => InSpace(s.t, s.alive, d)
  BY <1>1, <1>3, NowGood, EditAssumption
<1>9. c.op = "add" /\ c.parent # NULL /\ c.node = n
  BY <1>6 DEF AddNodeCmd
<1> HIDE DEF c
<1>10. m \in Seq(CmdsOf(d)) /\ Len(m) = 1 /\ m[1] = c
  BY <1>7
<1>11. AddCommand(s, d, m)
  BY <1>2 DEF c
<1> HIDE DEF m
<1>12. Notes(WithMacro(s, d, m), c)
  <2> DEFINE y == WithMacro(s, d, m)
  <2>1. y.t = tree
    BY <1>3, <1>8, <1>10, NowGood, WithMacroGood
  <2> HIDE DEF y
  <2>2. Notes(y, c)
    BY <1>5, <1>9, <2>1 DEF Notes
  <2> QED BY <2>2 DEF y
<1> QED BY <1>3, <1>4, <1>8, <1>10, <1>11, <1>12, OneUndone

LEMMA ExchangeUndone ==
    ASSUME EditIInv, NEW d \in Document, ~CanReDo(lists[d]), broken' = "no",
           NEW old \in Statement, NEW new \in Statement, Exchange(d, old, new)
    PROVE  UndoneAtOnce(d)
<1> DEFINE s == [Now EXCEPT !.alive = @ \cup {new}]
           c == ExchangeNodeCmd(old, new)
           m == <<c>>
<1>1. /\ Editable(d) /\ new \in Node \ alive /\ old \in Shown(d) /\ AddCommand(s, d, m)
  BY EditAssumption DEF Exchange
<1>2. /\ Good(s, {}) /\ s.lists = lists /\ s.t = tree
      /\ \A e \in Node : InSpace(tree, alive, e) => InSpace(s.t, s.alive, e)
  BY <1>1, NewlyBuilt
<1>3. ~IsBroken(s)
  BY <1>1 DEF Editable, IsBroken, Now
<1>4. tree.parent[new] = NULL /\ tree.parent[old] # NULL
  <2>1. tree.parent[new] = NULL
    BY <1>1, NowGood DEF TreeGood, Within
  <2> QED BY <1>1, <2>1, NowGood, ShownLinked, NullAssumption
<1>5. c \in CmdsOf(d)
  BY ExchangeFits
<1>6. c.op = "exchange" /\ c.node = old /\ c.other = new
  BY DEF ExchangeNodeCmd
<1> HIDE DEF s, c
<1>7. m \in Seq(CmdsOf(d)) /\ Len(m) = 1 /\ m[1] = c
  BY <1>5
<1>8. d \in Trigger => InSpace(s.t, s.alive, d)
  BY <1>1, <1>2, NowGood, EditAssumption
<1> HIDE DEF m
<1>9. Notes(WithMacro(s, d, m), c)
  <2> DEFINE y == WithMacro(s, d, m)
  <2>1. y.t = tree
    BY <1>2, <1>7, <1>8, NowGood, WithMacroGood
  <2> HIDE DEF y
  <2>2. Notes(y, c)
    BY <1>4, <1>6, <2>1 DEF Notes
  <2> QED BY <2>2 DEF y
<1> QED BY <1>1, <1>2, <1>3, <1>7, <1>8, <1>9, OneUndone

\* One node, cut or dragged, and moved.
LEMMA MoveUndone ==
    ASSUME EditIInv, NEW d \in Document, ~CanReDo(lists[d]), broken' = "no", Editable(d),
           NEW n \in Node \ {Root}, Quiet(Now, n), NEW sel \in Selectable(d),
           NEW q, q = <<n>>, Move(d, q, sel)
    PROVE  UndoneAtOnce(d)
<1>1. Len(q) = 1 /\ q[1] = n /\ Len(S!Reverse(q)) = 1 /\ S!Reverse(q)[1] = n
  BY DEF S!Reverse
<1>2. PICK at \in Locality(d, n, sel, FALSE) :
        IF \E i \in 1..Len(q) : q[i] \notin alive \/ tree.parent[q[i]] = NULL
        THEN Becomes(Broke(Now, IF {q[i] : i \in 1..Len(q)} \subseteq alive
                                THEN "orphan" ELSE "freed"))
        ELSE AddCommand(Now, d,
                        [i \in 1..Len(q) |-> MoveNodeCmd(S!Reverse(q)[i], at[1], at[2])])
  BY <1>1 DEF Move
<1> DEFINE p == at[1]
           v == at[2]
           c == MoveNodeCmd(n, p, v)
           m == [i \in 1..Len(q) |-> MoveNodeCmd(S!Reverse(q)[i], p, v)]
<1>3. AddCommand(Now, d, m)
  <2>1. ASSUME NEW why \in {"orphan", "freed"}, Becomes(Broke(Now, why)) PROVE FALSE
    <3>1. broken' = why
      BY <2>1 DEF Becomes, Broke, Now
    <3> QED BY <3>1
  <2> QED BY <1>2, <2>1
<1>4. TreeGood(tree, alive)
  BY NowGood
<1>5. /\ p \in Ptr /\ v \in Ptr
      /\ d # Gallery => n \in Statement
      /\ d = Gallery => n \notin Statement /\ p \in Group \cup {Root, NULL}
  BY <1>4, LocalityFits
<1> HIDE DEF p, v
<1>6. c \in CmdsOf(d)
  <2>1. Fits(n, p)
    BY <1>5 DEF Fits
  <2> QED BY <1>4, <1>5, <2>1, CommandsFit
<1>7. /\ c.op = "move" /\ c.node = n
      /\ c.orgParent = tree.parent[n] /\ c.orgPrev = tree.prev[n]
  BY DEF MoveNodeCmd
<1>8. m = <<c>>
  <2>1. \A i \in 1..Len(q) : i = 1
    BY <1>1
  <2> HIDE DEF c
  <2>2. m = [i \in 1..1 |-> c]
    BY <1>1, <2>1 DEF c
  <2> QED BY <2>2
<1> HIDE DEF c, m
<1>9. m \in Seq(CmdsOf(d)) /\ Len(m) = 1 /\ m[1] = c
  BY <1>6, <1>8
<1> DEFINE s == Now
<1>10. /\ Good(s, {}) /\ s.lists = lists /\ s.t = tree /\ ~IsBroken(s)
       /\ d \in Trigger => InSpace(s.t, s.alive, d)
       /\ Quiet(s, n) /\ AddCommand(s, d, m) /\ lists[d] \in ListsOf(d)
  <2>1. ~IsBroken(Now)
    BY DEF Editable, IsBroken, Now
  <2> QED BY <1>3, <2>1, NowGood DEF EditIInv
<1> HIDE DEF s
<1>11. Notes(WithMacro(s, d, m), c)
  <2> DEFINE y == WithMacro(s, d, m)
  <2>1. y.t = tree
    BY <1>9, <1>10, WithMacroGood
  <2>2. Quiet(y, n)
    BY <1>5, <1>9, <1>10, QuietStays
  <2> HIDE DEF y
  <2>3. Notes(y, c)
    BY <1>7, <2>1, <2>2 DEF Notes
  <2> QED BY <2>3 DEF y
<1> QED BY <1>9, <1>10, <1>11, OneUndone

\* No ring of siblings in the other direction either.
LEMMA PrevEnds ==
    ASSUME NEW t \in Tree, Linked(t), SiblingsEnd(t), IsFiniteSet(Node),
           NEW B \in SUBSET Node, \A x \in B : t.prev[x] \in B
    PROVE  B = {}
<1> DEFINE f == [x \in B |-> t.prev[x]]
<1>1. f \in Injection(B, B)
  <2>1. f \in [B -> B]
    OBVIOUS
  <2>2. ASSUME NEW x \in B, NEW y \in B, f[x] = f[y] PROVE x = y
    <3>1. t.prev[x] = t.prev[y] /\ t.prev[x] \in Node
      BY <2>2
    <3> QED BY <3>1 DEF Linked, SiblingsLinked, Tree
  <2> QED BY <2>1, <2>2 DEF Injection, IsInjective
<1>2. IsFiniteSet(B)
  BY FS_Subset
<1> HIDE DEF f
<1>3. f \in Surjection(B, B)
  BY <1>1, <1>2, FS_Injection
<1>4. ASSUME NEW y \in B PROVE t.next[y] \in B
  <2>1. PICK x \in B : f[x] = y
    BY <1>3 DEF Surjection
  <2>2. t.prev[x] = y
    BY <2>1 DEF f
  <2>3. t.next[y] = x
    BY <2>2 DEF Linked, SiblingsLinked
  <2> QED BY <2>3
<1> QED BY <1>4 DEF SiblingsEnd

\* A node that comes before another is not the next one after it.
LEMMA BeforeNotNext ==
    ASSUME TreeGood(tree, alive), NEW a \in Node, NEW b \in Node, Before(a, b)
    PROVE  tree.prev[a] # b
<1> DEFINE Eq(g) == g = [n \in Ptr |-> IF n = NULL THEN {} ELSE {n} \cup g[tree.prev[n]]]
           back == CHOOSE g : Eq(g)
           least(n) == {c \in Node : n # NULL /\ \A A \in SUBSET Node :
                           (/\ n \in A
                            /\ \A x \in A : tree.prev[x] # NULL => tree.prev[x] \in A) => c \in A}
           g0 == [n \in Ptr |-> least(n)]
<1>1. /\ tree \in Tree /\ Linked(tree) /\ SiblingsEnd(tree) /\ IsFiniteSet(Node)
      /\ \A n \in Node : n \in Ptr /\ n # NULL /\ tree.prev[n] \in Ptr
  BY EditAssumption, NullAssumption DEF TreeGood, Sound, Tree, Ptr
<1>2. ASSUME NEW n \in Node PROVE least(n) = {n} \cup least(tree.prev[n])
  <2> DEFINE v == tree.prev[n]
             Closed(A) == \A x \in A : tree.prev[x] # NULL => tree.prev[x] \in A
  <2>1. v = NULL \/ v \in Node
    BY <1>1 DEF Ptr
  <2>2. n \in least(n)
    BY <1>1
  <2>3. ASSUME NEW c \in least(v) PROVE c \in least(n)
    <3>1. v # NULL /\ c \in Node
      OBVIOUS
    <3>2. ASSUME NEW A \in SUBSET Node, n \in A, Closed(A) PROVE c \in A
      <4>1. v \in A
        BY <3>1, <3>2
      <4> QED BY <2>3, <3>2, <4>1
    <3> QED BY <1>1, <3>1, <3>2
  <2>4. ASSUME NEW c \in least(n), c # n PROVE c \in least(v)
    <3>1. c \in Node
      OBVIOUS
    <3>2. v # NULL
      <4> SUFFICES ASSUME v = NULL PROVE FALSE
        OBVIOUS
      <4>1. {n} \in SUBSET Node /\ n \in {n} /\ Closed({n})
        OBVIOUS
      <4>2. c \in {n}
        BY <2>4, <4>1
      <4> QED BY <2>4, <4>2
    <3>3. ASSUME NEW A \in SUBSET Node, v \in A, Closed(A) PROVE c \in A
      <4> DEFINE C == A \cup {n}
      <4>1. C \in SUBSET Node /\ n \in C /\ Closed(C)
        BY <3>3
      <4>2. c \in C
        BY <2>4, <4>1
      <4> QED BY <2>4, <4>2
    <3> QED BY <3>1, <3>2, <3>3
  <2> QED BY <2>2, <2>3, <2>4
<1>3. \A n \in Ptr : least(n) = IF n = NULL THEN {} ELSE {n} \cup least(tree.prev[n])
  <2>1. least(NULL) = {}
    OBVIOUS
  <2> HIDE DEF least
  <2>2. ASSUME NEW n \in Ptr
        PROVE  least(n) = IF n = NULL THEN {} ELSE {n} \cup least(tree.prev[n])
    <3>1. CASE n = NULL
      BY <2>1, <3>1
    <3>2. CASE n \in Node
      <4>1. least(n) = {n} \cup least(tree.prev[n])
        BY <1>2, <3>2
      <4>2. n # NULL
        BY <1>1, <3>2
      <4> QED BY <4>1, <4>2
    <3> QED BY <3>1, <3>2 DEF Ptr
  <2> QED BY <2>2
<1>4. Eq(g0)
  <2>1. \A n \in Ptr : g0[n] = least(n)
    OBVIOUS
  <2>2. g0 = [n \in Ptr |-> g0[n]]
    OBVIOUS
  <2>3. NULL \in Ptr /\ \A n \in Ptr : n = NULL \/ tree.prev[n] \in Ptr
    BY <1>1 DEF Ptr
  <2> HIDE DEF least, g0
  <2> QED BY <1>3, <2>1, <2>2, <2>3
<1>5. Eq(back)
  <2> HIDE DEF g0, Eq
  <2>1. \E g : Eq(g)
    BY <1>4
  <2> QED BY <2>1, Zenon
<1>6. a # b /\ a \in back[b]
  BY DEF Before
<1> HIDE DEF back, least, g0
<1>7. \A n \in Ptr : back[n] = IF n = NULL THEN {} ELSE {n} \cup back[tree.prev[n]]
  BY <1>5
<1> SUFFICES ASSUME tree.prev[a] = b PROVE FALSE
  OBVIOUS
<1>8. PICK B \in SUBSET Node :
        /\ b \in B /\ a \notin B
        /\ \A x \in B : tree.prev[x] # NULL => tree.prev[x] \in B
  <2>1. tree.prev[a] # NULL
    BY <1>1
  <2> QED BY <1>1, <2>1, BeforeLeast
<1> DEFINE M == {x \in B : a \in back[x]}
<1>9. M \in SUBSET Node /\ b \in M
  BY <1>6, <1>8
<1>10. ASSUME NEW x \in M PROVE tree.prev[x] \in M
  <2>1. x \in Node /\ x # a /\ a \in back[x]
    BY <1>8
  <2>2. a \in back[tree.prev[x]]
    BY <1>1, <1>7, <2>1
  <2>3. tree.prev[x] # NULL
    <3>1. back[NULL] = {}
      BY <1>7 DEF Ptr
    <3> QED BY <2>2, <3>1
  <2> QED BY <1>8, <2>2, <2>3
<1> HIDE DEF M
<1> QED BY <1>1, <1>9, <1>10, PrevEnds

\* A selection of one or two nodes, deleted.
LEMMA DeleteUndone ==
    ASSUME EditIInv, NEW d \in Document, ~CanReDo(lists[d]), broken' = "no",
           NEW sel \in Selections(d), Delete(d, sel),
           \A i \in 1..Len(sel) : Quiet(Now, sel[i])
    PROVE  UndoneAtOnce(d)
<1> DEFINE X == Shown(d)
           r == S!Reverse(sel)
           m == [i \in 1..Len(sel) |-> DeleteNodeCmd(r[i])]
           s == Now
<1>1. Editable(d) /\ AddCommand(s, d, m) /\ sel \in Seq(X)
  BY SelectionNodes DEF Delete
<1>2. TreeGood(tree, alive) /\ tree \in Tree /\ Linked(tree) /\ SiblingsEnd(tree)
  BY NowGood DEF TreeGood, Sound
<1>3. /\ X \subseteq Node \ {Root} /\ (d # Gallery => X \subseteq Statement)
      /\ X \subseteq alive
  BY <1>2, ShownNodes, ShownLinked
<1>4. /\ Good(s, {}) /\ s.lists = lists /\ s.t = tree /\ s.alive = alive /\ ~IsBroken(s)
      /\ d \in Trigger => InSpace(s.t, s.alive, d)
      /\ \A i \in 1..Len(sel) : Quiet(s, sel[i])
      /\ lists[d] \in ListsOf(d)
  <2>1. ~IsBroken(Now)
    BY <1>1 DEF Editable, IsBroken, Now
  <2> QED BY <1>1, <2>1, NowGood DEF EditIInv
<1> HIDE DEF X, s
<1>5. \A i \in 1..Len(sel) : sel[i] \in X
  BY <1>1
<1>6. /\ Len(sel) \in Nat /\ Len(m) = Len(sel)
      /\ \A i \in 1..Len(sel) : m[i] = DeleteNodeCmd(sel[(Len(sel) - i) + 1])
  <2>1. Len(sel) \in Nat
    BY <1>1
  <2>2. \A i \in 1..Len(sel) : r[i] = sel[(Len(sel) - i) + 1]
    BY DEF S!Reverse
  <2> HIDE DEF r
  <2>3. Len(m) = Len(sel) /\ \A i \in 1..Len(sel) : m[i] = DeleteNodeCmd(r[i])
    BY <2>1
  <2> QED BY <2>1, <2>2, <2>3
<1>7. \A n \in X : DeleteNodeCmd(n) \in CmdsOf(d)
  <2> SUFFICES ASSUME NEW n \in X PROVE DeleteNodeCmd(n) \in CmdsOf(d)
    OBVIOUS
  <2>1. n \in Node \ {Root} /\ (d # Gallery => n \in Statement)
    BY <1>3
  <2> QED BY <1>2, <2>1, CommandsFit
<1>8. m \in Seq(CmdsOf(d))
  <2>1. \A i \in 1..Len(sel) : DeleteNodeCmd(r[i]) \in CmdsOf(d)
    <3>1. r \in Seq(X) /\ Len(r) = Len(sel)
      BY <1>1, ReverseType
    <3> HIDE DEF r
    <3> QED BY <1>7, <3>1
  <2> HIDE DEF r
  <2> QED BY <1>6, <2>1
<1> HIDE DEF m
<1> DEFINE y == WithMacro(s, d, m)
<1>9. /\ Good(y, {}) /\ y.t = tree /\ y.alive = alive /\ y.broken = s.broken
      /\ \A i \in 1..Len(sel) : Quiet(y, sel[i])
  <2>1. Good(y, {}) /\ y.t = tree /\ y.alive = alive /\ y.broken = s.broken
    BY <1>4, <1>8, WithMacroGood
  <2>2. ASSUME NEW i \in 1..Len(sel) PROVE Quiet(y, sel[i])
    <3> DEFINE n == sel[i]
    <3>1. Quiet(s, n) /\ (d # Gallery => n \in Statement)
      BY <1>3, <1>4, <1>5
    <3> HIDE DEF n
    <3>2. Quiet(y, n)
      BY <1>4, <1>8, <3>1, QuietStays
    <3> QED BY <3>2 DEF n
  <2> QED BY <2>1, <2>2
<1>10. ~IsBroken(y) /\ m \in Seq(Cmds) /\ ~IsBroken(ExecutedMacro(y, m))
  <2>1. broken' = ExecutedMacro(y, m).broken /\ m \in Seq(Cmds)
    BY <1>1, <1>4, <1>8, AddCommandIs
  <2> QED BY <1>4, <1>9, <2>1 DEF IsBroken
<1> HIDE DEF y
<1>11. \A n \in X : DeleteNodeCmd(n) = [op |-> "delete", node |-> n,
                                         parent |-> tree.parent[n], prev |-> tree.prev[n]]
  BY DEF DeleteNodeCmd
<1>12. \A i \in 1..Len(sel) : Notes(y, DeleteNodeCmd(sel[i]))
  <2> SUFFICES ASSUME NEW i \in 1..Len(sel) PROVE Notes(y, DeleteNodeCmd(sel[i]))
    OBVIOUS
  <2> DEFINE n == sel[i]
             c == DeleteNodeCmd(n)
  <2>1. Quiet(y, n) /\ n \in X
    BY <1>5, <1>9
  <2>2. c.op = "delete" /\ c.node = n /\ c.parent = tree.parent[n] /\ c.prev = tree.prev[n]
    BY <1>11, <2>1
  <2> HIDE DEF n, c
  <2>3. Notes(y, c)
    BY <1>9, <2>1, <2>2 DEF Notes
  <2> QED BY <2>3 DEF n, c
<1>13. \E g : Done(y, m, g)
  <2>1. CASE Len(sel) = 0
    BY <1>6, <1>10, <2>1, NoneDone
  <2>2. CASE Len(sel) = 1
    <3>1. Len(m) = 1 /\ m[1] = DeleteNodeCmd(sel[1]) /\ 1 \in 1..Len(sel)
      BY <1>6, <2>2
    <3>2. Notes(y, m[1])
      BY <1>12, <3>1
    <3> QED BY <1>10, <3>1, <3>2, OneDone
  <2>3. CASE Len(sel) = 2
    <3> DEFINE a == sel[1]
               b == sel[2]
               c == DeleteNodeCmd(a)
               x == RemoveItemNode(y, b)
               u == Unlink(tree, b)
    <3>1. /\ Len(m) = 2 /\ m[1] = DeleteNodeCmd(b) /\ m[2] = c
          /\ 1 \in 1..Len(sel) /\ 2 \in 1..Len(sel)
      BY <1>6, <2>3
    <3>2. /\ a \in X /\ b \in X /\ Quiet(y, a) /\ Quiet(y, b)
          /\ a \in Node /\ b \in Node /\ b \in alive /\ b # Root
      BY <1>3, <1>5, <1>9, <3>1
    <3>3. /\ a \notin UpFrom(tree, b)
          /\ tree.parent[a] = tree.parent[b] => Before(a, b)
      <4>1. sel \notin {<< >>} \cup {<<n>> : n \in X}
        BY <2>3
      <4> QED BY <4>1 DEF Selections, X
    <3>4. a # b
      <4>1. b \in UpFrom(tree, b)
        BY <1>2, <3>2, UpFromIs DEF TreeGood, Sound, AncestorOrSelf
      <4> QED BY <3>3, <4>1
    <3>5. tree.prev[a] # b
      <4> SUFFICES ASSUME tree.prev[a] = b PROVE FALSE
        OBVIOUS
      <4>1. tree.parent[a] = tree.parent[b]
        BY <1>2, <3>2 DEF Linked, SiblingsLinked
      <4> QED BY <1>2, <3>2, <3>3, <4>1, BeforeNotNext
    <3>6. x = AsTree(y, u)
      <4>1. b \in y.alive
        BY <1>9, <3>2
      <4> QED BY <1>9, <1>10, <3>2, <4>1, RemoveItemQuiet
    <3>7. \A z \in Node :
            /\ u.parent[z] = IF z = b THEN NULL ELSE tree.parent[z]
            /\ u.prev[z] = IF z = b THEN NULL
                           ELSE IF z = tree.next[b] THEN tree.prev[b] ELSE tree.prev[z]
      BY <1>2, <3>2, UnlinkFields
    <3>8. tree.next[b] # a
      BY <1>2, <3>2, <3>5 DEF Linked, SiblingsLinked
    <3>9. u \in Tree /\ ParentsEnd(u) /\ ParentsEnd(tree)
      BY <1>2, <3>2, UnlinkType, UnlinkParentsEnd DEF TreeGood, Sound
    <3> HIDE DEF a, b, u
    <3>10. u.parent[a] = tree.parent[a] /\ u.prev[a] = tree.prev[a]
      BY <3>2, <3>4, <3>7, <3>8
    <3>11. x.t = u /\ x.alive = alive /\ x.lists = y.lists
      BY <1>9, <3>6 DEF AsTree
    <3> HIDE DEF x
    <3>12. Quiet(x, a)
      <4> SUFFICES ASSUME a \in Group \cup Trigger, NEW e \in Trigger \cap alive,
                          a \in UpFrom(u, e)
                   PROVE  y.lists[e] = EmptyList
        BY <3>11 DEF Quiet
      <4>1. e \in Node
        BY EditAssumption
      <4>2. AncestorOrSelf(u, a, e)
        BY <3>9, <4>1, UpFromIs
      <4>3. AncestorOrSelf(tree, a, e)
        <5> SUFFICES ASSUME NEW B \in SUBSET Node, e \in B, a \notin B,
                            \A z \in B : tree.parent[z] # NULL => tree.parent[z] \in B
                     PROVE  FALSE
          BY DEF AncestorOrSelf
        <5>1. \A z \in B : u.parent[z] # NULL => u.parent[z] \in B
          BY <3>7
        <5> QED BY <4>2, <5>1 DEF AncestorOrSelf
      <4>4. a \in UpFrom(tree, e)
        BY <1>2, <3>2, <3>9, <4>1, <4>3, UpFromIs
      <4> QED BY <1>9, <3>2, <4>4 DEF Quiet
    <3>13. Executed(y, m[1]) = x
      <4>1. m[1].op = "delete" /\ m[1].node = b
        BY <1>11, <3>1, <3>2
      <4> QED BY <4>1 DEF Executed, x
    <3>14. Notes(x, m[2])
      <4>1. c.op = "delete" /\ c.node = a /\ c.parent = tree.parent[a] /\ c.prev = tree.prev[a]
        BY <1>11, <3>2
      <4> HIDE DEF c
      <4>2. Notes(x, c)
        BY <3>10, <3>11, <3>12, <4>1 DEF Notes
      <4> QED BY <3>1, <4>2
    <3>15. Notes(y, m[1])
      BY <1>12, <3>1 DEF b
    <3> QED BY <1>10, <3>1, <3>13, <3>14, <3>15, TwoDone
  <2>4. Len(sel) \in {0, 1, 2}
    <3>1. sel = << >> \/ (\E n \in X : sel = <<n>>) \/ sel \in X \X X
      BY DEF Selections, X
    <3> QED BY <3>1
  <2> QED BY <2>1, <2>2, <2>3, <2>4
<1>14. PICK g : Done(WithMacro(s, d, m), m, g)
  BY <1>13 DEF y
<1> QED BY <1>1, <1>4, <1>8, <1>14, AddCommandUndone

\* Whatever an edit did to the tree, undoing it at once restores every pointer: a
\* node added, exchanged, dragged or pasted alone, or a selection deleted, in any
\* space, as long as no commands leave the list of the document (then nodes are
\* freed) and none are deleted with the lists of triggers (Commands.cpp notes the
\* place of a node in the constructors, before the macro is executed).
THEOREM EditUndone ==
    ASSUME EditIInv, NEW d \in Document, ~CanReDo(lists[d]), broken' = "no",
           \/ \E n \in Node : \E sel \in Selectable(d) : NewNode(d, n, sel)
           \/ \E old, new \in Statement : Exchange(d, old, new)
           \/ \E n \in Node \ {Root} : \E sel \in Selectable(d) :
                 /\ Drag(d, n, sel) \/ (Paste(d, sel) /\ cutting.nodes = <<n>>)
                 /\ Quiet(Now, n)
           \/ \E sel \in Selections(d) :
                 Delete(d, sel) /\ \A i \in 1..Len(sel) : Quiet(Now, sel[i])
    PROVE  UndoneAtOnce(d)
<1>1. CASE \E n \in Node : \E sel \in Selectable(d) : NewNode(d, n, sel)
  BY <1>1, NewNodeUndone
<1>2. CASE \E old, new \in Statement : Exchange(d, old, new)
  BY <1>2, ExchangeUndone
<1>3. ASSUME NEW n \in Node \ {Root}, NEW sel \in Selectable(d), Quiet(Now, n),
             Drag(d, n, sel) \/ (Paste(d, sel) /\ cutting.nodes = <<n>>)
      PROVE  UndoneAtOnce(d)
  <2> DEFINE q == <<n>>
  <2>1. Editable(d) /\ Move(d, q, sel)
    BY <1>3 DEF Drag, Paste
  <2>2. q = <<n>>
    OBVIOUS
  <2> HIDE DEF q
  <2> QED BY <1>3, <2>1, <2>2, MoveUndone
<1>4. CASE \E sel \in Selections(d) :
             Delete(d, sel) /\ \A i \in 1..Len(sel) : Quiet(Now, sel[i])
  BY <1>4, DeleteUndone
<1> QED BY <1>1, <1>2, <1>3, <1>4
=============================================================================
