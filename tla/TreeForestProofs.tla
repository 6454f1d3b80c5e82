-------------------------- MODULE TreeForestProofs --------------------------
(***************************************************************************)
(* What the tree template keeps true whatever the number of nodes: the     *)
(* pointers stay well formed (Invariance), and what they store are ordered *)
(* lists of children that every method changes as OrderedForest says       *)
(* (ForestRefines) and at the place its caller names (ChildrenAsAsked).    *)
(***************************************************************************)
EXTENDS MCTreeForest, WellFoundedInduction, SequenceTheorems, TLAPS

\* LastChild() returns a node or null, as m_pFirstChild and m_pNext do.
LEMMA LastChildType ==
    ASSUME NEW t \in Tree, NEW p \in Node, OneLast(t)
    PROVE  /\ LastChild(t, p) \in Ptr
           /\ t.first[p] = NULL <=> LastChild(t, p) = NULL
           /\ t.first[p] # NULL => /\ LastChild(t, p) \in Node
                                   /\ t.parent[LastChild(t, p)] = p
                                   /\ t.next[LastChild(t, p)] = NULL
<1>1. CASE t.first[p] = NULL
  BY <1>1 DEF LastChild, Ptr
<1>2. CASE t.first[p] # NULL
  <2>1. PICK c \in Node : t.parent[c] = p /\ t.next[c] = NULL
    BY <1>2 DEF OneLast
  <2>2. /\ LastChild(t, p) \in Node
        /\ t.parent[LastChild(t, p)] = p
        /\ t.next[LastChild(t, p)] = NULL
    BY <1>2, <2>1 DEF LastChild
  <2> QED BY <1>2, <2>2, NullAssumption DEF Ptr
<1> QED BY <1>1, <1>2

LEMMA PutType ==
    ASSUME NEW f \in [Node -> Ptr], NEW p \in Ptr, NEW v \in Ptr
    PROVE  Put(f, p, v) \in [Node -> Ptr]
BY DEF Put

LEMMA InsertAfterType ==
    ASSUME NEW t \in Tree, NEW p \in Node, NEW n \in Node, NEW refer \in Ptr
    PROVE  InsertAfter(t, p, n, refer) \in Tree
<1> DEFINE after == IF refer # NULL THEN t.next[refer] ELSE t.first[p]
<1>1. after \in Ptr
  BY DEF Tree, Ptr
<1>2. /\ [t.prev EXCEPT ![n] = refer] \in [Node -> Ptr]
      /\ [t.next EXCEPT ![n] = after] \in [Node -> Ptr]
      /\ [t.parent EXCEPT ![n] = p] \in [Node -> Ptr]
      /\ [t.first EXCEPT ![p] = n] \in [Node -> Ptr]
  BY <1>1 DEF Tree, Ptr
<1>3. /\ Put([t.prev EXCEPT ![n] = refer], after, n) \in [Node -> Ptr]
      /\ Put([t.next EXCEPT ![n] = after], refer, n) \in [Node -> Ptr]
  BY <1>1, <1>2, PutType DEF Ptr
<1> QED BY <1>2, <1>3 DEF InsertAfter, Tree

LEMMA UnlinkType ==
    ASSUME NEW t \in Tree, NEW n \in Node
    PROVE  Unlink(t, n) \in Tree
<1>1. /\ t.prev[n] \in Ptr /\ t.next[n] \in Ptr /\ t.parent[n] \in Ptr
      /\ NULL \in Ptr
  BY DEF Tree, Ptr
<1>2. /\ Put(t.prev, t.next[n], t.prev[n]) \in [Node -> Ptr]
      /\ Put(t.next, t.prev[n], t.next[n]) \in [Node -> Ptr]
      /\ Put(t.first, t.parent[n], t.next[n]) \in [Node -> Ptr]
  BY <1>1, PutType DEF Tree
<1> QED BY <1>1, <1>2 DEF Unlink, Tree

-----------------------------------------------------------------------------
(* Insertion.  In a linked tree the other three methods are InsertAfter.   *)

\* What InsertAfter writes, field by field.
LEMMA InsertAfterFields ==
    ASSUME NEW t \in Tree, NEW p \in Node, NEW n \in Node, NEW refer \in Ptr,
           NEW after \in Ptr,
           after = IF refer # NULL THEN t.next[refer] ELSE t.first[p],
           refer # n, after # n
    PROVE  \A x \in Node :
             LET t2 == InsertAfter(t, p, n, refer) IN
             /\ t2.parent[x] = IF x = n THEN p ELSE t.parent[x]
             /\ t2.prev[x] = IF x = after THEN n ELSE IF x = n THEN refer ELSE t.prev[x]
             /\ t2.next[x] = IF x = refer THEN n ELSE IF x = n THEN after ELSE t.next[x]
             /\ t2.first[x] = IF refer = NULL /\ x = p THEN n ELSE t.first[x]
<1>1. /\ t.parent \in [Node -> Ptr] /\ t.prev \in [Node -> Ptr]
      /\ t.next \in [Node -> Ptr] /\ t.first \in [Node -> Ptr]
  BY DEF Tree
<1>2. /\ n \in Ptr /\ NULL \in Ptr /\ p \in Ptr
  BY DEF Ptr
<1> QED BY <1>1, <1>2, NullAssumption DEF InsertAfter, Put, Ptr

\* The sibling that comes to stand after n was p's, just after refer.
LEMMA AfterLinked ==
    ASSUME NEW t \in Tree, Linked(t), SiblingsEnd(t), NEW p \in Node, NEW n \in Node,
           NEW refer \in Ptr, ReferenceOK(t, p, n, refer), t.parent[n] = NULL,
           NEW after,
           after = IF refer # NULL THEN t.next[refer] ELSE t.first[p]
    PROVE  /\ after \in Ptr
           /\ after # n
           /\ after # NULL => /\ t.parent[after] = p /\ t.prev[after] = refer
                              /\ after # refer
           /\ after = NULL /\ refer = NULL => \A c \in Node : t.parent[c] # p
<1>1. /\ t.prev \in [Node -> Ptr] /\ t.next \in [Node -> Ptr]
      /\ t.first \in [Node -> Ptr] /\ t.parent \in [Node -> Ptr]
  BY DEF Tree
<1>2. after \in Ptr
  BY <1>1 DEF Ptr
<1>3. ASSUME after # NULL
      PROVE  t.parent[after] = p /\ t.prev[after] = refer
  BY <1>1, <1>2, <1>3, NullAssumption
     DEF Ptr, Linked, FirstLinked, SiblingsLinked, ReferenceOK
<1>4. after # n
  BY <1>3, NullAssumption DEF Ptr
<1>5. ASSUME after # NULL, after = refer PROVE FALSE
  <2>1. after \in Node /\ t.next[after] = after
    BY <1>2, <1>5, NullAssumption DEF Ptr
  <2>2. {after} \in SUBSET Node /\ {after} # {} /\ \A x \in {after} : t.next[x] \in {after}
    BY <2>1
  <2> QED BY <2>2 DEF SiblingsEnd
<1>6. after = NULL /\ refer = NULL => \A c \in Node : t.parent[c] # p
  BY DEF Linked, FirstLinked
<1> QED BY <1>2, <1>3, <1>4, <1>5, <1>6

\* Insertion keeps the pointers consistent.
LEMMA InsertAfterLinked ==
    ASSUME NEW t \in Tree, Linked(t), SiblingsEnd(t), NEW p \in Node, NEW n \in Node,
           NEW refer \in Ptr, ReferenceOK(t, p, n, refer), t.parent[n] = NULL,
           n # p
    PROVE  Linked(InsertAfter(t, p, n, refer))
<1> DEFINE t2 == InsertAfter(t, p, n, refer)
<1> DEFINE after == IF refer # NULL THEN t.next[refer] ELSE t.first[p]
<1>1. /\ after \in Ptr /\ after # n
      /\ after # NULL => /\ t.parent[after] = p /\ t.prev[after] = refer
                         /\ after # refer
      /\ after = NULL /\ refer = NULL => \A c \in Node : t.parent[c] # p
  BY AfterLinked
<1>2. refer # n /\ (refer # NULL => refer \in Node /\ t.parent[refer] = p)
  BY DEF ReferenceOK
<1>3. \A x \in Node :
        /\ t2.parent[x] = IF x = n THEN p ELSE t.parent[x]
        /\ t2.prev[x] = IF x = after THEN n ELSE IF x = n THEN refer ELSE t.prev[x]
        /\ t2.next[x] = IF x = refer THEN n ELSE IF x = n THEN after ELSE t.next[x]
        /\ t2.first[x] = IF refer = NULL /\ x = p THEN n ELSE t.first[x]
  BY <1>1, <1>2, InsertAfterFields
<1>4. /\ \A x \in Node : t.parent[x] \in Ptr /\ t.prev[x] \in Ptr
                         /\ t.next[x] \in Ptr /\ t.first[x] \in Ptr
      /\ t.prev[n] = NULL /\ t.next[n] = NULL
      /\ \A x \in Node : t.next[x] # n /\ t.prev[x] # n /\ t.first[x] # n
  BY NullAssumption DEF Tree, Ptr, Linked, RootsUnlinked, SiblingsLinked, FirstLinked
<1> HIDE DEF t2, after
<1>5. FirstLinked(t2)
  BY <1>1, <1>2, <1>3, <1>4, NullAssumption DEF Linked, FirstLinked, SiblingsLinked, Ptr, after
<1>6. SiblingsLinked(t2)
  BY <1>1, <1>2, <1>3, <1>4, NullAssumption DEF Linked, SiblingsLinked, Ptr, after
<1>7. RootsUnlinked(t2)
  BY <1>1, <1>2, <1>3, <1>4, NullAssumption DEF Linked, RootsUnlinked, Ptr
<1>8. OneLast(t2)
  BY <1>1, <1>2, <1>3, <1>4, NullAssumption DEF Linked, OneLast, Ptr, after
<1> QED BY <1>5, <1>6, <1>7, <1>8 DEF Linked, t2

\* Insertion closes no ring of siblings.
LEMMA InsertAfterSiblingsEnd ==
    ASSUME NEW t \in Tree, Linked(t), SiblingsEnd(t), NEW p \in Node, NEW n \in Node,
           NEW refer \in Ptr, ReferenceOK(t, p, n, refer), t.parent[n] = NULL,
           n # p
    PROVE  SiblingsEnd(InsertAfter(t, p, n, refer))
<1> DEFINE t2 == InsertAfter(t, p, n, refer)
<1> DEFINE after == IF refer # NULL THEN t.next[refer] ELSE t.first[p]
<1>1. after \in Ptr /\ after # n /\ refer # n
  BY AfterLinked DEF ReferenceOK
<1>2. \A x \in Node :
        t2.next[x] = IF x = refer THEN n ELSE IF x = n THEN after ELSE t.next[x]
  BY <1>1, InsertAfterFields
<1>3. \A x \in Node : t.next[x] # n
  BY NullAssumption DEF Linked, RootsUnlinked, SiblingsLinked
<1> HIDE DEF t2
<1> SUFFICES ASSUME NEW S \in SUBSET Node, S # {},
                    \A x \in S : t2.next[x] \in S
             PROVE  FALSE
  BY DEF SiblingsEnd, t2
<1>4. CASE n \notin S
  <2>1. refer \notin S
    BY <1>2, <1>4
  <2>2. \A x \in S : t.next[x] \in S
    BY <1>2, <1>4, <2>1
  <2> QED BY <2>2 DEF SiblingsEnd
<1>5. CASE n \in S
  <2> DEFINE R == S \ {n}
  <2>1. after \in R
    BY <1>1, <1>2, <1>5
  <2>2. \A x \in R : t.next[x] \in R
    <3> TAKE x \in R
    <3>1. CASE x = refer
      BY <2>1, <3>1, NullAssumption
    <3>2. CASE x # refer
      BY <1>2, <1>3, <3>2
    <3> QED BY <3>1, <3>2
  <2>3. R \in SUBSET Node /\ R # {}
    BY <2>1
  <2> QED BY <2>2, <2>3 DEF SiblingsEnd
<1> QED BY <1>4, <1>5

\* Insertion of a node that is not above p closes no cycle of parents.
LEMMA InsertAfterParentsEnd ==
    ASSUME NEW t \in Tree, ParentsEnd(t), NEW p \in Node, NEW n \in Node,
           NEW refer \in Ptr, ~AncestorOrSelf(t, n, p)
    PROVE  ParentsEnd(InsertAfter(t, p, n, refer))
<1> DEFINE t2 == InsertAfter(t, p, n, refer)
<1>1. \A x \in Node : t2.parent[x] = IF x = n THEN p ELSE t.parent[x]
  BY DEF InsertAfter, Tree
<1> HIDE DEF t2
<1> SUFFICES ASSUME NEW S \in SUBSET Node, S # {},
                    \A x \in S : t2.parent[x] \in S
             PROVE  FALSE
  BY DEF ParentsEnd, t2
<1>2. PICK A \in SUBSET Node :
        p \in A /\ (\A x \in A : t.parent[x] # NULL => t.parent[x] \in A) /\ n \notin A
  BY DEF AncestorOrSelf
<1>3. CASE n \notin S
  <2>1. \A x \in S : t.parent[x] \in S
    BY <1>1, <1>3
  <2> QED BY <2>1 DEF ParentsEnd
<1>4. CASE n \in S
  <2>1. p \in A \cap S
    BY <1>1, <1>2, <1>4
  <2>2. \A x \in A \cap S : t.parent[x] \in A \cap S
    BY <1>1, <1>2, NullAssumption
  <2>3. A \cap S \in SUBSET Node
    OBVIOUS
  <2> QED BY <2>1, <2>2, <2>3 DEF ParentsEnd
<1> QED BY <1>3, <1>4

-----------------------------------------------------------------------------
(* Removal *)

\* What Unlink writes, field by field.
LEMMA UnlinkFields ==
    ASSUME NEW t \in Tree, Linked(t), SiblingsEnd(t), NEW n \in Node
    PROVE  LET t2 == Unlink(t, n) IN
           /\ t.prev[n] # n /\ t.next[n] # n
           /\ \A x \in Node :
             /\ t2.parent[x] = IF x = n THEN NULL ELSE t.parent[x]
             /\ t2.prev[x] = IF x = n THEN NULL
                             ELSE IF x = t.next[n] THEN t.prev[n] ELSE t.prev[x]
             /\ t2.next[x] = IF x = n THEN NULL
                             ELSE IF x = t.prev[n] THEN t.next[n] ELSE t.next[x]
             /\ t2.first[x] = IF t.prev[n] = NULL /\ x = t.parent[n]
                              THEN t.next[n] ELSE t.first[x]
<1>1. /\ t.parent \in [Node -> Ptr] /\ t.prev \in [Node -> Ptr]
      /\ t.next \in [Node -> Ptr] /\ t.first \in [Node -> Ptr]
  BY DEF Tree
<1>2. ASSUME t.next[n] = n PROVE FALSE
  <2>1. {n} \in SUBSET Node /\ {n} # {} /\ \A x \in {n} : t.next[x] \in {n}
    BY <1>2
  <2> QED BY <2>1 DEF SiblingsEnd
<1>3. t.prev[n] # n
  BY <1>2 DEF Linked, SiblingsLinked
<1> QED BY <1>1, <1>2, <1>3, NullAssumption DEF Unlink, Put, Ptr

\* An only child leaves no other child behind.
LEMMA OnlyChild ==
    ASSUME NEW t \in Tree, Linked(t), SiblingsEnd(t), NEW n \in Node,
           t.prev[n] = NULL, t.next[n] = NULL,
           NEW c \in Node, t.parent[c] = t.parent[n], t.parent[n] # NULL
    PROVE  c = n
<1> SUFFICES ASSUME c # n PROVE FALSE
  OBVIOUS
<1> DEFINE S == {x \in Node : t.parent[x] = t.parent[n] /\ x # n}
<1>1. \A x \in S : t.next[x] \in S
  <2> TAKE x \in S
  <2>1. t.next[x] \in Ptr /\ t.parent[n] \in Node
    BY DEF Tree, Ptr
  <2>2. t.next[x] # NULL
    BY <2>1 DEF Linked, OneLast
  <2>3. t.parent[t.next[x]] = t.parent[n] /\ t.prev[t.next[x]] = x
    BY <2>1, <2>2 DEF Linked, SiblingsLinked, Ptr
  <2> QED BY <2>1, <2>2, <2>3, NullAssumption DEF Ptr
<1>2. c \in S /\ S \in SUBSET Node
  OBVIOUS
<1> QED BY <1>1, <1>2 DEF SiblingsEnd

\* Unlinking keeps the pointers consistent.
LEMMA UnlinkLinked ==
    ASSUME NEW t \in Tree, Linked(t), SiblingsEnd(t), NEW n \in Node
    PROVE  Linked(Unlink(t, n))
<1> DEFINE t2 == Unlink(t, n)
<1>1. /\ t.prev[n] # n /\ t.next[n] # n
      /\ \A x \in Node :
        /\ t2.parent[x] = IF x = n THEN NULL ELSE t.parent[x]
        /\ t2.prev[x] = IF x = n THEN NULL
                        ELSE IF x = t.next[n] THEN t.prev[n] ELSE t.prev[x]
        /\ t2.next[x] = IF x = n THEN NULL
                        ELSE IF x = t.prev[n] THEN t.next[n] ELSE t.next[x]
        /\ t2.first[x] = IF t.prev[n] = NULL /\ x = t.parent[n]
                         THEN t.next[n] ELSE t.first[x]
  BY UnlinkFields
<1>2. \A x \in Node : t.parent[x] \in Ptr /\ t.prev[x] \in Ptr
                     /\ t.next[x] \in Ptr /\ t.first[x] \in Ptr
  BY DEF Tree
<1>3. ASSUME t.prev[n] = NULL, t.next[n] = NULL, t.parent[n] # NULL
      PROVE  \A c \in Node : t.parent[c] = t.parent[n] => c = n
  BY <1>3, OnlyChild
<1> HIDE DEF t2
<1>4. FirstLinked(t2)
  <2>1. ASSUME NEW p \in Node, NEW c \in Node
        PROVE  t2.first[p] = c <=> (t2.parent[c] = p /\ t2.prev[c] = NULL)
    BY <1>1, <1>2, NullAssumption DEF Linked, FirstLinked, SiblingsLinked, Ptr
  <2>2. ASSUME NEW p \in Node, NEW c \in Node, t2.parent[c] = p
        PROVE  t2.first[p] # NULL
    BY <1>1, <1>2, <1>3, <2>2, NullAssumption DEF Linked, FirstLinked, Ptr
  <2> QED BY <2>1, <2>2 DEF FirstLinked
<1>5. SiblingsLinked(t2)
  BY <1>1, <1>2, NullAssumption DEF Linked, SiblingsLinked, Ptr
<1>6. RootsUnlinked(t2)
  BY <1>1, <1>2, NullAssumption DEF Linked, RootsUnlinked, SiblingsLinked, Ptr
<1>7. OneLast(t2)
  <2> SUFFICES ASSUME NEW p \in Node
               PROVE  /\ t2.first[p] # NULL =>
                          \E c \in Node : t2.parent[c] = p /\ t2.next[c] = NULL
                      /\ \A c, d \in Node :
                          (/\ t2.parent[c] = p /\ t2.next[c] = NULL
                           /\ t2.parent[d] = p /\ t2.next[d] = NULL) => c = d
    BY DEF OneLast
  <2>1. ASSUME t2.first[p] # NULL
        PROVE  \E c \in Node : t2.parent[c] = p /\ t2.next[c] = NULL
    <3>1. t.first[p] # NULL
      BY <1>1, <1>2, <2>1 DEF Linked, FirstLinked, Ptr
    <3>2. PICK c \in Node : t.parent[c] = p /\ t.next[c] = NULL
      BY <3>1 DEF Linked, OneLast
    <3>3. CASE c # n
      BY <1>1, <1>2, <3>2, <3>3, NullAssumption DEF Linked, SiblingsLinked, Ptr
    <3>4. CASE c = n
      <4>1. t.prev[n] \in Node
        BY <1>1, <1>2, <2>1, <3>2, <3>4, NullAssumption DEF Ptr
      <4>2. t2.parent[t.prev[n]] = p /\ t2.next[t.prev[n]] = NULL
        BY <1>1, <3>2, <3>4, <4>1 DEF Linked, SiblingsLinked
      <4> QED BY <4>1, <4>2
    <3> QED BY <3>3, <3>4
  <2>2. ASSUME NEW c \in Node, NEW d \in Node,
               t2.parent[c] = p, t2.next[c] = NULL,
               t2.parent[d] = p, t2.next[d] = NULL
        PROVE  c = d
    BY <1>1, <1>2, <2>2, NullAssumption DEF Linked, OneLast, SiblingsLinked, Ptr
  <2> QED BY <2>1, <2>2
<1> QED BY <1>4, <1>5, <1>6, <1>7 DEF Linked, t2

\* Unlinking closes no ring of siblings.
LEMMA UnlinkSiblingsEnd ==
    ASSUME NEW t \in Tree, Linked(t), SiblingsEnd(t), NEW n \in Node
    PROVE  SiblingsEnd(Unlink(t, n))
<1> DEFINE t2 == Unlink(t, n)
<1>1. \A x \in Node : t2.next[x] = IF x = n THEN NULL
                        ELSE IF x = t.prev[n] THEN t.next[n] ELSE t.next[x]
  BY UnlinkFields
<1> HIDE DEF t2
<1> SUFFICES ASSUME NEW S \in SUBSET Node, S # {},
                    \A x \in S : t2.next[x] \in S
             PROVE  FALSE
  BY DEF SiblingsEnd, t2
<1>2. n \notin S
  BY <1>1, NullAssumption
<1>3. CASE t.prev[n] \notin S
  <2>1. \A x \in S : t.next[x] \in S
    BY <1>1, <1>2, <1>3
  <2> QED BY <2>1 DEF SiblingsEnd
<1>4. CASE t.prev[n] \in S
  <2> DEFINE R == S \cup {n}
  <2>1. t.next[n] \in S /\ t.next[t.prev[n]] = n
    BY <1>1, <1>2, <1>4 DEF Linked, SiblingsLinked
  <2>2. \A x \in R : t.next[x] \in R
    BY <1>1, <1>2, <2>1
  <2>3. R \in SUBSET Node /\ R # {}
    OBVIOUS
  <2> QED BY <2>2, <2>3 DEF SiblingsEnd
<1> QED BY <1>3, <1>4

\* Unlinking closes no cycle of parents.
LEMMA UnlinkParentsEnd ==
    ASSUME NEW t \in Tree, ParentsEnd(t), NEW n \in Node
    PROVE  ParentsEnd(Unlink(t, n))
<1>1. \A x \in Node : Unlink(t, n).parent[x] = IF x = n THEN NULL ELSE t.parent[x]
  BY DEF Unlink, Tree
<1> SUFFICES ASSUME NEW S \in SUBSET Node, S # {},
                    \A x \in S : Unlink(t, n).parent[x] \in S
             PROVE  FALSE
  BY DEF ParentsEnd
<1>2. \A x \in S : t.parent[x] \in S
  BY <1>1, NullAssumption
<1> QED BY <1>2 DEF ParentsEnd

\* The three fixes at the head of Remove() are Unlink.
LEMMA RemoveLinksIsUnlink ==
    ASSUME NEW t \in Tree, Linked(t), NEW n \in Node
    PROVE  RemoveLinks(t, n) = Unlink(t, n)
<1>1. t.parent[n] \in Ptr /\ t.first \in [Node -> Ptr]
  BY DEF Tree
<1>2. (t.parent[n] # NULL /\ t.first[t.parent[n]] = n)
        <=> (t.parent[n] # NULL /\ t.prev[n] = NULL)
  BY <1>1 DEF Linked, FirstLinked, Ptr
<1> QED BY <1>1, <1>2 DEF RemoveLinks, Unlink, Put

\* No pointer of u crosses the border of S.
Isolated(u, S) ==
    \A x \in Node :
        /\ u.parent[x] # NULL => (x \in S <=> u.parent[x] \in S)
        /\ u.prev[x] # NULL => (x \in S <=> u.prev[x] \in S)
        /\ u.next[x] # NULL => (x \in S <=> u.next[x] \in S)
        /\ u.first[x] # NULL => (x \in S <=> u.first[x] \in S)

LEMMA FreeFields ==
    ASSUME NEW u \in Tree, NEW S \in SUBSET Node
    PROVE  /\ Free(u, S) \in Tree
           /\ \A x \in Node :
               /\ Free(u, S).parent[x] = IF x \in S THEN NULL ELSE u.parent[x]
               /\ Free(u, S).prev[x] = IF x \in S THEN NULL ELSE u.prev[x]
               /\ Free(u, S).next[x] = IF x \in S THEN NULL ELSE u.next[x]
               /\ Free(u, S).first[x] = IF x \in S THEN NULL ELSE u.first[x]
BY DEF Free, Tree, Ptr

\* What is isolated can be freed.
LEMMA FreeSound ==
    ASSUME NEW u \in Tree, NEW S \in SUBSET Node, Isolated(u, S),
           Linked(u), SiblingsEnd(u), ParentsEnd(u)
    PROVE  Linked(Free(u, S)) /\ SiblingsEnd(Free(u, S)) /\ ParentsEnd(Free(u, S))
<1> DEFINE v == Free(u, S)
<1>1. \A x \in Node :
        /\ v.parent[x] = IF x \in S THEN NULL ELSE u.parent[x]
        /\ v.prev[x] = IF x \in S THEN NULL ELSE u.prev[x]
        /\ v.next[x] = IF x \in S THEN NULL ELSE u.next[x]
        /\ v.first[x] = IF x \in S THEN NULL ELSE u.first[x]
  BY FreeFields
<1>2. \A x \in Node : /\ u.parent[x] \in Ptr /\ u.prev[x] \in Ptr
                      /\ u.next[x] \in Ptr /\ u.first[x] \in Ptr
  BY DEF Tree
<1> HIDE DEF v
<1>3. FirstLinked(v)
  BY <1>1, <1>2, NullAssumption DEF Linked, FirstLinked, Isolated, Ptr
<1>4. SiblingsLinked(v)
  BY <1>1, <1>2, NullAssumption DEF Linked, SiblingsLinked, Isolated, Ptr
<1>5. RootsUnlinked(v)
  BY <1>1, <1>2, NullAssumption DEF Linked, RootsUnlinked, Ptr
<1>6. OneLast(v)
  <2> SUFFICES ASSUME NEW p \in Node
               PROVE  /\ v.first[p] # NULL =>
                          \E c \in Node : v.parent[c] = p /\ v.next[c] = NULL
                      /\ \A c, d \in Node :
                          (/\ v.parent[c] = p /\ v.next[c] = NULL
                           /\ v.parent[d] = p /\ v.next[d] = NULL) => c = d
    BY DEF OneLast
  <2>1. ASSUME v.first[p] # NULL
        PROVE  \E c \in Node : v.parent[c] = p /\ v.next[c] = NULL
    <3>1. PICK c \in Node : u.parent[c] = p /\ u.next[c] = NULL
      BY <1>1, <2>1 DEF Linked, OneLast
    <3>2. p \notin S /\ c \notin S
      BY <1>1, <2>1, <3>1, NullAssumption DEF Isolated
    <3> QED BY <1>1, <3>1, <3>2
  <2>2. ASSUME NEW c \in Node, NEW d \in Node,
               v.parent[c] = p, v.next[c] = NULL,
               v.parent[d] = p, v.next[d] = NULL
        PROVE  c = d
    BY <1>1, <2>2, NullAssumption DEF Linked, OneLast
  <2> QED BY <2>1, <2>2
<1>7. SiblingsEnd(v)
  BY <1>1, NullAssumption DEF SiblingsEnd
<1>8. ParentsEnd(v)
  BY <1>1, NullAssumption DEF ParentsEnd
<1> QED BY <1>3, <1>4, <1>5, <1>6, <1>7, <1>8 DEF Linked, v

\* The subtree that the destructor frees is closed in both directions, but
\* for the pointers of its root.
LEMMA DeletedClosed ==
    ASSUME NEW t \in Tree, NEW n \in Node, Linked(t), SiblingsEnd(t), ParentsEnd(t),
           NEW S, S = Deleted(t, n)
    PROVE  /\ S \in SUBSET Node /\ n \in S
           /\ t.parent[n] \notin S
           /\ \A x \in S : t.first[x] # NULL => t.first[x] \in S \ {n}
           /\ \A x \in S \ {n} :
               /\ t.parent[x] \in S
               /\ t.prev[x] # NULL => t.prev[x] \in S \ {n}
               /\ t.next[x] # NULL => t.next[x] \in S \ {n}
           /\ \A x \in Node : t.parent[x] \in S => x \in S
<1>1. S \in SUBSET Node /\ ClosedUnderDelete(t, n, S)
  <2>1. S \in SUBSET Node
    BY DEF Deleted
  <2>2. \A x \in Node : x \in S <=> \A T \in SUBSET Node : ClosedUnderDelete(t, n, T) => x \in T
    BY DEF Deleted
  <2>3. n \in S
    BY <2>2 DEF ClosedUnderDelete
  <2>4. ASSUME NEW s \in S, t.first[s] # NULL PROVE t.first[s] \in S
    <3>1. t.first[s] \in Node
      BY <2>1, <2>4 DEF Tree, Ptr
    <3>2. ASSUME NEW T \in SUBSET Node, ClosedUnderDelete(t, n, T) PROVE t.first[s] \in T
      BY <2>1, <2>2, <2>4, <3>2 DEF ClosedUnderDelete
    <3> QED BY <2>2, <3>1, <3>2
  <2>5. ASSUME NEW s \in S \ {n}, t.next[s] # NULL PROVE t.next[s] \in S
    <3>1. t.next[s] \in Node
      BY <2>1, <2>5 DEF Tree, Ptr
    <3>2. ASSUME NEW T \in SUBSET Node, ClosedUnderDelete(t, n, T) PROVE t.next[s] \in T
      BY <2>1, <2>2, <2>5, <3>2 DEF ClosedUnderDelete
    <3> QED BY <2>2, <3>1, <3>2
  <2> QED BY <2>1, <2>3, <2>4, <2>5 DEF ClosedUnderDelete
<1>2. \A x \in S \ {n} : t.parent[x] \in S /\ (t.prev[x] # NULL => t.prev[x] \in S \ {n})
  <2> DEFINE T == {x \in S : \/ x = n
                           \/ /\ t.parent[x] \in S
                              /\ (t.prev[x] # NULL => t.prev[x] \in S \ {n})}
  <2>1. ClosedUnderDelete(t, n, T)
    <3>1. n \in T
      BY <1>1 DEF ClosedUnderDelete
    <3>2. ASSUME NEW s \in T, t.first[s] # NULL PROVE t.first[s] \in T
      <4>1. t.first[s] \in S /\ s \in S
        BY <1>1, <3>2 DEF ClosedUnderDelete
      <4>2. t.parent[t.first[s]] = s /\ t.prev[t.first[s]] = NULL
        BY <1>1, <4>1 DEF Linked, FirstLinked
      <4> QED BY <4>1, <4>2
    <3>3. ASSUME NEW s \in T \ {n}, t.next[s] # NULL PROVE t.next[s] \in T
      <4>1. t.next[s] \in S /\ s \in S \ {n}
        BY <1>1, <3>3 DEF ClosedUnderDelete
      <4>2. t.parent[t.next[s]] = t.parent[s] /\ t.prev[t.next[s]] = s
        BY <1>1, <4>1 DEF Linked, SiblingsLinked
      <4> QED BY <4>1, <4>2
    <3> QED BY <3>1, <3>2, <3>3 DEF ClosedUnderDelete
  <2>2. T \in SUBSET Node
    BY <1>1
  <2>3. S \subseteq T
    BY <2>1, <2>2 DEF Deleted
  <2> QED BY <2>3
<1>3. t.parent[n] \notin S
  BY <1>1, <1>2 DEF ParentsEnd, ClosedUnderDelete
<1>4. \A x \in S : t.first[x] # NULL => t.first[x] \in S \ {n}
  BY <1>1, <1>3 DEF ClosedUnderDelete, Linked, FirstLinked
<1>5. \A x \in S \ {n} : t.next[x] # NULL => t.next[x] \in S \ {n}
  BY <1>1, <1>2, <1>3 DEF ClosedUnderDelete, Linked, SiblingsLinked
<1>6. ASSUME NEW y \in Node, t.parent[y] \in S PROVE y \in S
  <2> SUFFICES ASSUME y \notin S PROVE FALSE
    OBVIOUS
  <2> DEFINE p == t.parent[y]
             Q == {x \in S \ {n} : t.parent[x] = p}
             R == {x \in Node \ S : t.parent[x] = p}
  <2>1. PICK q \in Q : t.next[q] = NULL
    <3>1. p \in Node /\ t.first[p] # NULL
      BY <1>1, <1>6 DEF Linked, FirstLinked
    <3>2. t.first[p] \in Q
      BY <1>1, <1>4, <1>6, <3>1 DEF Linked, FirstLinked
    <3>3. Q \in SUBSET Node /\ Q # {}
      BY <1>1, <3>2
    <3>4. \A x \in Q : t.next[x] # NULL => t.next[x] \in Q
      BY <1>1, <1>5 DEF Linked, SiblingsLinked
    <3> QED BY <3>3, <3>4 DEF SiblingsEnd
  <2>2. PICK r \in R : t.next[r] = NULL
    <3>1. R \in SUBSET Node /\ R # {}
      OBVIOUS
    <3>2. \A x \in R : t.next[x] # NULL => t.next[x] \in R
      <4> TAKE x \in R
      <4> HAVE t.next[x] # NULL
      <4>1. t.next[x] \in Node
        BY DEF Tree, Ptr
      <4>2. t.parent[t.next[x]] = p /\ t.prev[t.next[x]] = x
        BY <4>1 DEF Linked, SiblingsLinked
      <4>3. t.next[x] \notin S
        BY <1>2, <1>3, <1>6, <4>1, <4>2, NullAssumption
      <4> QED BY <4>1, <4>2, <4>3
    <3> QED BY <3>1, <3>2 DEF SiblingsEnd
  <2>3. q = r
    BY <1>1, <1>6, <2>1, <2>2 DEF Linked, OneLast
  <2> QED BY <2>3
<1>7. n \in S
  BY <1>1 DEF ClosedUnderDelete
<1> QED BY <1>1, <1>2, <1>3, <1>4, <1>5, <1>6, <1>7

\* The set Remove( true ) frees is closed under the walks of the destructor
\* and of the recursion, and is the least such set.
ClosedUnderNexts(t, n, S) ==
    /\ n \in S
    /\ \A s \in S : t.first[s] # NULL => t.first[s] \in S
    /\ \A s \in S : t.next[s] # NULL => t.next[s] \in S

LEMMA DeletedNextsLeast ==
    ASSUME NEW t \in Tree, NEW n \in Node, NEW D, D = DeletedNexts(t, n)
    PROVE  /\ D \in SUBSET Node
           /\ ClosedUnderNexts(t, n, D)
           /\ \A T \in SUBSET Node : ClosedUnderNexts(t, n, T) => D \subseteq T
<1>1. D \in SUBSET Node
  BY DEF DeletedNexts
<1>2. \A x \in Node :
        x \in D <=> \A T \in SUBSET Node : ClosedUnderNexts(t, n, T) => x \in T
  BY DEF DeletedNexts, ClosedUnderNexts
<1>3. n \in D
  BY <1>2 DEF ClosedUnderNexts
<1>4. ASSUME NEW s \in D, t.first[s] # NULL PROVE t.first[s] \in D
  <2>1. t.first[s] \in Node
    BY <1>1, <1>4 DEF Tree, Ptr
  <2>2. ASSUME NEW T \in SUBSET Node, ClosedUnderNexts(t, n, T) PROVE t.first[s] \in T
    BY <1>1, <1>2, <1>4, <2>2 DEF ClosedUnderNexts
  <2> QED BY <1>2, <2>1, <2>2
<1>5. ASSUME NEW s \in D, t.next[s] # NULL PROVE t.next[s] \in D
  <2>1. t.next[s] \in Node
    BY <1>1, <1>5 DEF Tree, Ptr
  <2>2. ASSUME NEW T \in SUBSET Node, ClosedUnderNexts(t, n, T) PROVE t.next[s] \in T
    BY <1>1, <1>2, <1>5, <2>2 DEF ClosedUnderNexts
  <2> QED BY <1>2, <2>1, <2>2
<1> QED BY <1>1, <1>2, <1>3, <1>4, <1>5 DEF ClosedUnderNexts

\* The nodes before n in its list of siblings, and n is not one of them.
LEMMA BeforeLeast ==
    ASSUME NEW t \in Tree, NEW n \in Node, Linked(t), SiblingsEnd(t), t.prev[n] # NULL
    PROVE  \E B \in SUBSET Node :
              /\ t.prev[n] \in B /\ n \notin B
              /\ \A x \in B : t.prev[x] # NULL => t.prev[x] \in B
              /\ \A x \in B : t.parent[x] = t.parent[n]
<1> DEFINE Closed(T) == /\ t.prev[n] \in T
                        /\ \A x \in T : t.prev[x] # NULL => t.prev[x] \in T
           B == {x \in Node : \A T \in SUBSET Node : Closed(T) => x \in T}
<1>1. t.prev[n] \in Node
  BY DEF Tree, Ptr
<1>2. B \in SUBSET Node /\ t.prev[n] \in B
  BY <1>1
<1>3. ASSUME NEW x \in B, t.prev[x] # NULL PROVE t.prev[x] \in B
  <2>1. t.prev[x] \in Node
    BY <1>2, <1>3 DEF Tree, Ptr
  <2>2. ASSUME NEW T \in SUBSET Node, Closed(T) PROVE t.prev[x] \in T
    <3>1. x \in T
      BY <2>2
    <3> QED BY <1>3, <2>2, <3>1
  <2> QED BY <2>1, <2>2
<1>4. \A x \in B : t.next[x] \in B \cup {n} /\ t.parent[x] = t.parent[n]
  <2> DEFINE T == {x \in B : t.next[x] \in B \cup {n} /\ t.parent[x] = t.parent[n]}
  <2>1. t.prev[n] \in T
    BY <1>1, <1>2 DEF Linked, SiblingsLinked
  <2>2. ASSUME NEW x \in T, t.prev[x] # NULL PROVE t.prev[x] \in T
    <3>1. t.prev[x] \in B /\ t.prev[x] \in Node
      BY <1>3, <2>2
    <3>2. t.next[t.prev[x]] = x /\ t.parent[t.prev[x]] = t.parent[x]
      BY <1>2, <3>1 DEF Linked, SiblingsLinked
    <3> QED BY <3>1, <3>2
  <2>3. Closed(T) /\ T \in SUBSET Node
    BY <2>1, <2>2
  <2> QED BY <2>3
<1> HIDE DEF B
<1>5. n \notin B
  <2> SUFFICES ASSUME n \in B PROVE FALSE
    OBVIOUS
  <2>1. B # {}
    BY <1>2
  <2>2. PICK x \in B : t.next[x] \notin B
    BY <1>2, <2>1 DEF SiblingsEnd
  <2>3. t.next[x] \in B \cup {n}
    BY <1>4
  <2> QED BY <2>2, <2>3
<1> QED BY <1>2, <1>3, <1>4, <1>5

LEMMA DeletedNextsClosed ==
    ASSUME NEW t \in Tree, NEW n \in Node, Linked(t), SiblingsEnd(t), ParentsEnd(t),
           NEW D, D = DeletedNexts(t, n)
    PROVE  /\ D \in SUBSET Node /\ n \in D
           /\ t.parent[n] \notin D /\ t.prev[n] \notin D
           /\ \A x \in D : t.parent[x] \in D \/ t.parent[x] = t.parent[n]
           /\ \A x \in D : t.first[x] # NULL => t.first[x] \in D
           /\ \A x \in D : t.next[x] # NULL => t.next[x] \in D
           /\ \A x \in D \ {n} : t.prev[x] = NULL => t.parent[x] \in D
           /\ \A x \in D \ {n} : t.prev[x] # NULL => t.prev[x] \in D
           /\ \A x \in Node : t.parent[x] \in D => x \in D
           /\ \A x \in Node : (/\ t.parent[x] = t.parent[n] /\ t.parent[n] # NULL
                               /\ (t.next[x] = NULL \/ t.prev[n] = NULL)) => x \in D
<1>1. /\ D \in SUBSET Node /\ n \in D
      /\ \A x \in D : t.first[x] # NULL => t.first[x] \in D
      /\ \A x \in D : t.next[x] # NULL => t.next[x] \in D
  BY DeletedNextsLeast DEF ClosedUnderNexts
<1>2. /\ \A x \in D : t.parent[x] \in D \/ t.parent[x] = t.parent[n]
      /\ \A x \in D \ {n} : t.prev[x] = NULL => t.parent[x] \in D
      /\ \A x \in D \ {n} : t.prev[x] # NULL => t.prev[x] \in D
  <2> DEFINE T == {x \in D : /\ t.parent[x] \in D \/ t.parent[x] = t.parent[n]
                             /\ x = n \/ IF t.prev[x] = NULL THEN t.parent[x] \in D
                                                             ELSE t.prev[x] \in D}
  <2>1. n \in T
    BY <1>1
  <2>2. ASSUME NEW s \in T, t.first[s] # NULL PROVE t.first[s] \in T
    <3>1. t.first[s] \in D /\ s \in D
      BY <1>1, <2>2
    <3>2. t.parent[t.first[s]] = s /\ t.prev[t.first[s]] = NULL
      BY <1>1, <3>1 DEF Linked, FirstLinked
    <3> QED BY <3>1, <3>2
  <2>3. ASSUME NEW s \in T, t.next[s] # NULL PROVE t.next[s] \in T
    <3>1. t.next[s] \in D /\ s \in D
      BY <1>1, <2>3
    <3>2. t.parent[t.next[s]] = t.parent[s] /\ t.prev[t.next[s]] = s
      BY <1>1, <3>1 DEF Linked, SiblingsLinked
    <3>3. t.prev[t.next[s]] # NULL
      BY <1>1, <3>1, <3>2, NullAssumption
    <3> QED BY <3>1, <3>2, <3>3
  <2>4. T \in SUBSET Node /\ ClosedUnderNexts(t, n, T)
    BY <1>1, <2>1, <2>2, <2>3 DEF ClosedUnderNexts
  <2>5. D \subseteq T
    BY <2>4, DeletedNextsLeast
  <2> QED BY <2>5
<1>3. t.parent[n] \notin D
  BY <1>1, <1>2 DEF ParentsEnd
<1>4. t.prev[n] \notin D
  <2> SUFFICES ASSUME t.prev[n] \in D PROVE FALSE
    OBVIOUS
  <2>1. t.prev[n] # NULL
    BY <1>1, NullAssumption
  <2>2. PICK B \in SUBSET Node :
              /\ t.prev[n] \in B /\ n \notin B
              /\ \A x \in B : t.prev[x] # NULL => t.prev[x] \in B
              /\ \A x \in B : t.parent[x] = t.parent[n]
    BY <2>1, BeforeLeast
  <2> DEFINE T == D \ B
  <2>3. n \in T
    BY <1>1, <2>2
  <2>4. ASSUME NEW s \in T, t.first[s] # NULL PROVE t.first[s] \in T
    BY <1>1, <1>3, <2>2, <2>4 DEF Linked, FirstLinked
  <2>5. ASSUME NEW s \in T, t.next[s] # NULL PROVE t.next[s] \in T
    <3>1. t.next[s] \in D /\ s \in D /\ s \notin B
      BY <1>1, <2>5
    <3>2. t.prev[t.next[s]] = s
      BY <1>1, <3>1 DEF Linked, SiblingsLinked
    <3>3. s # NULL
      BY <1>1, <3>1, NullAssumption
    <3> QED BY <2>2, <3>1, <3>2, <3>3
  <2>6. T \in SUBSET Node /\ ClosedUnderNexts(t, n, T)
    BY <1>1, <2>3, <2>4, <2>5 DEF ClosedUnderNexts
  <2>7. D \subseteq T
    BY <2>6, DeletedNextsLeast
  <2> QED BY <2>2, <2>7
<1>5. \* A list of which D holds a final part: its last child is in D.
      ASSUME NEW p \in Node, NEW d \in D, t.parent[d] = p
      PROVE  \A x \in Node : t.parent[x] = p /\ t.next[x] = NULL => x \in D
  <2> DEFINE Q == {x \in D : t.parent[x] = p}
  <2>1. \A x \in Q : t.next[x] # NULL => t.next[x] \in Q
    BY <1>1 DEF Linked, SiblingsLinked
  <2>2. Q \in SUBSET Node /\ d \in Q
    BY <1>1, <1>5
  <2>3. PICK q \in Q : t.next[q] = NULL
    BY <2>1, <2>2 DEF SiblingsEnd
  <2> QED BY <2>2, <2>3 DEF Linked, OneLast
<1>6. \* If D also holds the first child, it holds them all.
      ASSUME NEW p \in Node, t.first[p] \in D, NEW y \in Node, t.parent[y] = p
      PROVE  y \in D
  <2> SUFFICES ASSUME y \notin D PROVE FALSE
    OBVIOUS
  <2> DEFINE R == {x \in Node \ D : t.parent[x] = p}
  <2>1. t.parent[t.first[p]] = p /\ t.prev[t.first[p]] = NULL
    BY <1>1, <1>6 DEF Linked, FirstLinked
  <2>2. \A x \in R : t.next[x] # NULL /\ t.next[x] \in R
    <3> TAKE x \in R
    <3>1. t.next[x] # NULL
      BY <1>5, <1>6, <2>1
    <3>2. t.next[x] \in Node
      BY <3>1 DEF Tree, Ptr
    <3>3. t.parent[t.next[x]] = p /\ t.prev[t.next[x]] = x /\ x # NULL
      BY <3>2, NullAssumption DEF Linked, SiblingsLinked
    <3>4. ASSUME t.next[x] = n PROVE FALSE
      <4>1. t.first[p] # n
        BY <2>1, <3>3, <3>4
      <4>2. p \in D
        BY <1>2, <1>6, <2>1, <4>1
      <4> QED BY <1>3, <3>3, <3>4, <4>2
    <3> QED BY <1>2, <3>1, <3>2, <3>3, <3>4
  <2>3. R \in SUBSET Node /\ y \in R
    BY <1>6
  <2> QED BY <2>2, <2>3 DEF SiblingsEnd
<1>7. \A x \in Node : t.parent[x] \in D => x \in D
  <2> TAKE x \in Node
  <2> HAVE t.parent[x] \in D
  <2>1. t.parent[x] \in Node /\ t.first[t.parent[x]] # NULL
    BY <1>1 DEF Linked, FirstLinked
  <2> QED BY <1>1, <1>6, <2>1
<1>8. ASSUME NEW x \in Node, t.parent[x] = t.parent[n], t.parent[n] # NULL,
             t.next[x] = NULL \/ t.prev[n] = NULL
      PROVE  x \in D
  <2>1. t.parent[n] \in Node
    BY <1>8 DEF Tree, Ptr
  <2>2. CASE t.next[x] = NULL
    BY <1>1, <1>5, <1>8, <2>1, <2>2
  <2>3. CASE t.prev[n] = NULL
    <3>1. t.first[t.parent[n]] = n
      BY <2>1, <2>3 DEF Linked, FirstLinked
    <3> QED BY <1>1, <1>6, <1>8, <2>1, <3>1
  <2> QED BY <1>8, <2>2, <2>3
<1> QED BY <1>1, <1>2, <1>3, <1>4, <1>7, <1>8

\* Removing a node and the siblings after it keeps the rest consistent.
LEMMA RemoveNextsSound ==
    ASSUME NEW t \in Tree, NEW n \in Node, Linked(t), SiblingsEnd(t), ParentsEnd(t)
    PROVE  /\ RemoveNexts(t, n) \in Tree
           /\ Linked(RemoveNexts(t, n))
           /\ SiblingsEnd(RemoveNexts(t, n)) /\ ParentsEnd(RemoveNexts(t, n))
<1> DEFINE D == DeletedNexts(t, n)
           p == t.parent[n]
           q == t.prev[n]
           u == [parent |-> t.parent, prev |-> t.prev, next |-> Put(t.next, q, NULL),
                 first |-> IF p # NULL /\ t.first[p] = n
                           THEN [t.first EXCEPT ![p] = NULL] ELSE t.first]
           v == RemoveNexts(t, n)
<1>1. /\ D \in SUBSET Node /\ n \in D /\ p \notin D /\ q \notin D
      /\ \A x \in D : t.first[x] # NULL => t.first[x] \in D
      /\ \A x \in D : t.next[x] # NULL => t.next[x] \in D
      /\ \A x \in D \ {n} : t.prev[x] = NULL => t.parent[x] \in D
      /\ \A x \in D \ {n} : t.prev[x] # NULL => t.prev[x] \in D
      /\ \A x \in Node : t.parent[x] \in D => x \in D
      /\ \A x \in Node : (/\ t.parent[x] = p /\ p # NULL
                          /\ (t.next[x] = NULL \/ q = NULL)) => x \in D
  BY DeletedNextsClosed
<1>2. /\ p \in Ptr /\ q \in Ptr /\ NULL \in Ptr
      /\ \A x \in Node : /\ t.parent[x] \in Ptr /\ t.prev[x] \in Ptr
                         /\ t.next[x] \in Ptr /\ t.first[x] \in Ptr
  BY DEF Tree, Ptr
<1>3. /\ u \in Tree
      /\ \A x \in Node :
          /\ u.parent[x] = t.parent[x] /\ u.prev[x] = t.prev[x]
          /\ u.next[x] = IF x = q THEN NULL ELSE t.next[x]
          /\ u.first[x] = IF x = p /\ t.first[x] = n THEN NULL ELSE t.first[x]
  <2>1. /\ t.next \in [Node -> Ptr] /\ t.first \in [Node -> Ptr]
        /\ t.parent \in [Node -> Ptr] /\ t.prev \in [Node -> Ptr]
    BY DEF Tree
  <2>2. Put(t.next, q, NULL) \in [Node -> Ptr]
    BY <1>2, <2>1, PutType
  <2>3. u \in Tree
    BY <1>2, <2>1, <2>2 DEF Tree
  <2> QED BY <1>2, <2>1, <2>3, NullAssumption DEF Put, Ptr
<1>4. v = Free(u, D)
  BY DEF RemoveNexts
<1> HIDE DEF u, v, D
<1>5. /\ v \in Tree
      /\ \A x \in Node :
        /\ v.parent[x] = IF x \in D THEN NULL ELSE t.parent[x]
        /\ v.prev[x] = IF x \in D THEN NULL ELSE t.prev[x]
        /\ v.next[x] = IF x \in D \/ x = q THEN NULL ELSE t.next[x]
        /\ v.first[x] = IF x \in D \/ (x = p /\ t.first[x] = n) THEN NULL ELSE t.first[x]
  BY <1>1, <1>3, <1>4, FreeFields
<1>6. \A x \in Node \ D :
        /\ t.parent[x] \notin D /\ t.prev[x] \notin D
        /\ t.next[x] \in D => x = q
        /\ t.first[x] \in D => x = p /\ t.first[x] = n
  <2> TAKE x \in Node \ D
  <2>1. t.parent[x] \notin D
    BY <1>1
  <2>2. t.prev[x] \notin D
    BY <1>1, NullAssumption DEF Linked, SiblingsLinked
  <2>3. t.next[x] \in D => x = q
    <3> HAVE t.next[x] \in D
    <3>1. t.prev[t.next[x]] = x /\ x # NULL
      BY <1>1, NullAssumption DEF Linked, SiblingsLinked
    <3> QED BY <1>1, <3>1
  <2>4. t.first[x] \in D => x = p /\ t.first[x] = n
    BY <1>1 DEF Linked, FirstLinked
  <2> QED BY <2>1, <2>2, <2>3, <2>4
<1>7. FirstLinked(v)
  <2>1. ASSUME NEW a \in Node, NEW c \in Node
        PROVE  v.first[a] = c <=> (v.parent[c] = a /\ v.prev[c] = NULL)
    BY <1>1, <1>2, <1>5, <1>6, NullAssumption DEF Linked, FirstLinked, Ptr
  <2>2. ASSUME NEW a \in Node, NEW c \in Node, v.parent[c] = a
        PROVE  v.first[a] # NULL
    <3>1. c \notin D /\ t.parent[c] = a /\ a \notin D /\ t.first[a] # NULL
      BY <1>1, <1>5, <2>2, NullAssumption DEF Linked, FirstLinked
    <3>2. ~(a = p /\ t.first[a] = n)
      BY <1>1, <3>1, NullAssumption DEF Linked, FirstLinked
    <3> QED BY <1>5, <3>1, <3>2
  <2> QED BY <2>1, <2>2 DEF FirstLinked
<1>8. SiblingsLinked(v)
  BY <1>1, <1>2, <1>5, <1>6, NullAssumption DEF Linked, SiblingsLinked, Ptr
<1>9. RootsUnlinked(v)
  BY <1>1, <1>2, <1>5, <1>6, NullAssumption DEF Linked, RootsUnlinked, Ptr
<1>10. OneLast(v)
  <2> SUFFICES ASSUME NEW a \in Node
               PROVE  /\ v.first[a] # NULL =>
                          \E c \in Node : v.parent[c] = a /\ v.next[c] = NULL
                      /\ \A c, d \in Node :
                          (/\ v.parent[c] = a /\ v.next[c] = NULL
                           /\ v.parent[d] = a /\ v.next[d] = NULL) => c = d
    BY DEF OneLast
  <2>1. ASSUME v.first[a] # NULL
        PROVE  \E c \in Node : v.parent[c] = a /\ v.next[c] = NULL
    <3>1. a \notin D /\ ~(a = p /\ t.first[a] = n) /\ t.first[a] # NULL
      BY <1>5, <2>1
    <3>2. PICK c \in Node : t.parent[c] = a /\ t.next[c] = NULL
      BY <3>1 DEF Linked, OneLast
    <3>3. CASE c \notin D
      BY <1>5, <3>2, <3>3
    <3>4. CASE c \in D
      <4>1. a = p
        <5> DEFINE Q == {x \in D : t.parent[x] = a /\ t.prev[x] # n}
        <5> SUFFICES ASSUME a # p PROVE FALSE
          OBVIOUS
        <5>1. t.first[a] \notin D /\ t.first[a] \in Node
          BY <1>2, <1>6, <3>1 DEF Ptr
        <5> DEFINE R == {x \in Node \ D : t.parent[x] = a}
        <5>2. t.first[a] \in R
          BY <5>1 DEF Linked, FirstLinked
        <5>3. ASSUME NEW x \in R PROVE t.next[x] \in R
          <6>1. t.next[x] # NULL
            BY <3>2, <3>4 DEF Linked, OneLast
          <6>2. t.next[x] \in Node /\ t.parent[t.next[x]] = a
            BY <1>2, <6>1 DEF Linked, SiblingsLinked, Ptr
          <6>3. t.next[x] \notin D
            <7>1. ASSUME x = q PROVE FALSE
              BY <7>1, <1>1 DEF Linked, SiblingsLinked
            <7> QED BY <1>6, <7>1
          <6> QED BY <6>2, <6>3
        <5>4. R \in SUBSET Node /\ R # {}
          BY <5>2
        <5> QED BY <5>3, <5>4 DEF SiblingsEnd
      <4>2. q # NULL
        BY <1>1, <3>1, <4>1 DEF Linked, FirstLinked
      <4>3. q \in Node /\ t.parent[q] = a
        BY <1>1, <1>2, <4>1, <4>2 DEF Ptr, Linked, SiblingsLinked
      <4> QED BY <1>1, <1>5, <4>3
    <3> QED BY <3>3, <3>4
  <2>2. ASSUME NEW c \in Node, NEW d \in Node,
               v.parent[c] = a, v.next[c] = NULL,
               v.parent[d] = a, v.next[d] = NULL
        PROVE  c = d
    <3>1. /\ c \notin D /\ d \notin D /\ t.parent[c] = a /\ t.parent[d] = a
          /\ c = q \/ t.next[c] = NULL
          /\ d = q \/ t.next[d] = NULL
      BY <1>5, <2>2, NullAssumption
    <3>2. ASSUME c = q \/ d = q PROVE c = d
      <4>1. a = p /\ p # NULL
        BY <1>1, <1>2, <3>1, <3>2, NullAssumption DEF Linked, SiblingsLinked, Ptr
      <4> QED BY <1>1, <3>1, <3>2, <4>1
    <3>3. ASSUME c # q, d # q PROVE c = d
      BY <3>1, <3>3 DEF Linked, OneLast
    <3> QED BY <3>2, <3>3
  <2> QED BY <2>1, <2>2
<1>11. SiblingsEnd(v)
  BY <1>5, NullAssumption DEF SiblingsEnd
<1>12. ParentsEnd(v)
  BY <1>5, NullAssumption DEF ParentsEnd
<1> QED BY <1>5, <1>7, <1>8, <1>9, <1>10, <1>11, <1>12 DEF Linked, v

-----------------------------------------------------------------------------
(* Every method on a consistent forest leaves a consistent forest.         *)

Sound(t) == Linked(t) /\ SiblingsEnd(t) /\ ParentsEnd(t)

\* Every pointer that is not null joins two nodes of A.
Within(t, A) ==
    \A x \in Node :
        /\ t.parent[x] # NULL => x \in A /\ t.parent[x] \in A
        /\ t.prev[x] # NULL => x \in A /\ t.prev[x] \in A
        /\ t.next[x] # NULL => x \in A /\ t.next[x] \in A
        /\ t.first[x] # NULL => x \in A /\ t.first[x] \in A

LEMMA InsertAfterSound ==
    ASSUME NEW t \in Tree, Sound(t), NEW A, Within(t, A),
           NEW p \in Node \cap A, NEW n \in Node \cap A, NEW refer \in Ptr,
           ReferenceOK(t, p, n, refer), t.parent[n] = NULL, ~AncestorOrSelf(t, n, p)
    PROVE  LET t2 == InsertAfter(t, p, n, refer)
           IN  t2 \in Tree /\ Sound(t2) /\ Within(t2, A)
<1> DEFINE t2 == InsertAfter(t, p, n, refer)
           after == IF refer # NULL THEN t.next[refer] ELSE t.first[p]
<1>1. n # p
  BY DEF AncestorOrSelf
<1>2. t2 \in Tree
  BY InsertAfterType
<1>3. Sound(t2)
  BY <1>1, InsertAfterLinked, InsertAfterSiblingsEnd, InsertAfterParentsEnd DEF Sound
<1>4. /\ after \in Ptr /\ after # n /\ refer # n
      /\ after # NULL => after \in A
      /\ refer # NULL => refer \in A
  <2>1. after \in Ptr /\ after # n /\ refer # n
    BY AfterLinked DEF ReferenceOK, Sound
  <2> QED BY <2>1, NullAssumption DEF Within, ReferenceOK
<1>5. \A x \in Node :
        /\ t2.parent[x] = IF x = n THEN p ELSE t.parent[x]
        /\ t2.prev[x] = IF x = after THEN n ELSE IF x = n THEN refer ELSE t.prev[x]
        /\ t2.next[x] = IF x = refer THEN n ELSE IF x = n THEN after ELSE t.next[x]
        /\ t2.first[x] = IF refer = NULL /\ x = p THEN n ELSE t.first[x]
  BY <1>4, InsertAfterFields
<1> HIDE DEF t2, after
<1>6. Within(t2, A)
  <2> SUFFICES ASSUME NEW x \in Node
               PROVE  /\ t2.parent[x] # NULL => x \in A /\ t2.parent[x] \in A
                      /\ t2.prev[x] # NULL => x \in A /\ t2.prev[x] \in A
                      /\ t2.next[x] # NULL => x \in A /\ t2.next[x] \in A
                      /\ t2.first[x] # NULL => x \in A /\ t2.first[x] \in A
    BY DEF Within
  <2>1. x # NULL
    BY NullAssumption
  <2> QED BY <1>4, <1>5, <2>1 DEF Within
<1> QED BY <1>2, <1>3, <1>6 DEF t2

LEMMA UnlinkSound ==
    ASSUME NEW t \in Tree, Sound(t), NEW A, Within(t, A), NEW n \in Node
    PROVE  LET t2 == Unlink(t, n) IN t2 \in Tree /\ Sound(t2) /\ Within(t2, A)
<1> DEFINE t2 == Unlink(t, n)
<1>1. t2 \in Tree
  BY UnlinkType
<1>2. Sound(t2)
  BY UnlinkLinked, UnlinkSiblingsEnd, UnlinkParentsEnd DEF Sound
<1>3. \A x \in Node :
        /\ t2.parent[x] = IF x = n THEN NULL ELSE t.parent[x]
        /\ t2.prev[x] = IF x = n THEN NULL
                        ELSE IF x = t.next[n] THEN t.prev[n] ELSE t.prev[x]
        /\ t2.next[x] = IF x = n THEN NULL
                        ELSE IF x = t.prev[n] THEN t.next[n] ELSE t.next[x]
        /\ t2.first[x] = IF t.prev[n] = NULL /\ x = t.parent[n]
                         THEN t.next[n] ELSE t.first[x]
  BY UnlinkFields DEF Sound
<1> HIDE DEF t2
<1>4. Within(t2, A)
  <2> SUFFICES ASSUME NEW x \in Node
               PROVE  /\ t2.parent[x] # NULL => x \in A /\ t2.parent[x] \in A
                      /\ t2.prev[x] # NULL => x \in A /\ t2.prev[x] \in A
                      /\ t2.next[x] # NULL => x \in A /\ t2.next[x] \in A
                      /\ t2.first[x] # NULL => x \in A /\ t2.first[x] \in A
    BY DEF Within
  <2>1. x # NULL
    BY NullAssumption
  <2> QED BY <1>3, <2>1 DEF Within
<1> QED BY <1>1, <1>2, <1>4 DEF t2

\* In a linked tree the other insertions are InsertAfter at another reference.
LEMMA OtherInsertions ==
    ASSUME NEW t \in Tree, Sound(t), NEW p \in Node, NEW n \in Node, NEW refer \in Ptr,
           ReferenceOK(t, p, n, refer), t.parent[n] = NULL
    PROVE  /\ LastChild(t, p) \in Ptr /\ ReferenceOK(t, p, n, LastChild(t, p))
           /\ AddChild(t, p, n) = InsertAfter(t, p, n, LastChild(t, p))
           /\ \E r \in Ptr : /\ ReferenceOK(t, p, n, r)
                             /\ InsertOrAppend(t, p, n, refer) = InsertAfter(t, p, n, r)
           /\ LET before == IF refer # NULL THEN t.prev[refer] ELSE LastChild(t, p) IN
              /\ before \in Ptr /\ ReferenceOK(t, p, n, before)
              /\ InsertBefore(t, p, n, refer) = InsertAfter(t, p, n, before)
<1> DEFINE last == LastChild(t, p)
<1>1. /\ last \in Ptr
      /\ t.first[p] = NULL <=> last = NULL
      /\ last # NULL => last \in Node /\ t.parent[last] = p /\ t.next[last] = NULL
  BY LastChildType, NullAssumption DEF Sound, Linked
<1>2. ReferenceOK(t, p, n, last)
  BY <1>1, NullAssumption DEF ReferenceOK
<1>3. t.next[n] = NULL /\ t.prev[n] = NULL /\ refer # n
  BY DEF Sound, Linked, RootsUnlinked, ReferenceOK
<1>4. /\ t.parent \in [Node -> Ptr] /\ t.prev \in [Node -> Ptr]
      /\ t.next \in [Node -> Ptr] /\ t.first \in [Node -> Ptr]
  BY DEF Tree
<1> HIDE DEF last
<1>5. AddChild(t, p, n) = InsertAfter(t, p, n, last)
  <2>1. AddChild(t, p, n).parent = InsertAfter(t, p, n, last).parent
    BY DEF AddChild, InsertAfter
  <2>2. AddChild(t, p, n).prev = InsertAfter(t, p, n, last).prev
    BY <1>1, <1>2, <1>4, NullAssumption DEF AddChild, InsertAfter, Put, ReferenceOK, last
  <2>3. AddChild(t, p, n).next = InsertAfter(t, p, n, last).next
    <3>1. AddChild(t, p, n).next = [Put(t.next, last, n) EXCEPT ![n] = NULL]
      BY <1>2 DEF AddChild, ReferenceOK, last
    <3>2. InsertAfter(t, p, n, last).next = Put([t.next EXCEPT ![n] = NULL], last, n)
      BY <1>1 DEF InsertAfter
    <3> QED BY <1>1, <1>2, <1>4, <3>1, <3>2 DEF Put, ReferenceOK
  <2>4. AddChild(t, p, n).first = InsertAfter(t, p, n, last).first
    BY <1>1 DEF AddChild, InsertAfter
  <2> QED BY <2>1, <2>2, <2>3, <2>4 DEF AddChild, InsertAfter
<1>6. \E r \in Ptr : /\ ReferenceOK(t, p, n, r)
                     /\ InsertOrAppend(t, p, n, refer) = InsertAfter(t, p, n, r)
  BY <1>1, <1>2 DEF InsertOrAppend, last
<1>7. LET before == IF refer # NULL THEN t.prev[refer] ELSE last IN
      /\ before \in Ptr /\ ReferenceOK(t, p, n, before)
      /\ InsertBefore(t, p, n, refer) = InsertAfter(t, p, n, before)
  <2> DEFINE before == IF refer # NULL THEN t.prev[refer] ELSE last
             after == IF before # NULL THEN t.next[before] ELSE t.first[p]
  <2>1. before \in Ptr /\ ReferenceOK(t, p, n, before)
    <3>1. CASE refer # NULL
      <4>1. refer \in Node /\ t.parent[refer] = p
        BY <3>1 DEF ReferenceOK
      <4>2. t.prev[refer] \in Ptr /\ t.prev[refer] # n
        BY <1>3, <1>4, <4>1, NullAssumption DEF Sound, Linked, SiblingsLinked
      <4> QED BY <1>4, <3>1, <4>1, <4>2 DEF ReferenceOK, Sound, Linked, SiblingsLinked, Ptr
    <3>2. CASE refer = NULL
      BY <1>1, <1>2, <3>2
    <3> QED BY <3>1, <3>2
  <2>2. after = refer
    <3>1. CASE refer # NULL
      <4>1. refer \in Node /\ t.parent[refer] = p
        BY <3>1 DEF ReferenceOK
      <4> QED BY <1>4, <3>1, <4>1, NullAssumption
              DEF Sound, Linked, SiblingsLinked, FirstLinked, Ptr
    <3>2. CASE refer = NULL
      BY <1>1, <3>2
    <3> QED BY <3>1, <3>2
  <2>3. InsertBefore(t, p, n, refer) =
          [parent |-> [t.parent EXCEPT ![n] = p],
           prev   |-> Put([t.prev EXCEPT ![n] = before], refer, n),
           next   |-> Put([t.next EXCEPT ![n] = refer], before, n),
           first  |-> IF before = NULL THEN [t.first EXCEPT ![p] = n] ELSE t.first]
    BY DEF InsertBefore, last
  <2>4. InsertAfter(t, p, n, before) =
          [parent |-> [t.parent EXCEPT ![n] = p],
           prev   |-> Put([t.prev EXCEPT ![n] = before], after, n),
           next   |-> Put([t.next EXCEPT ![n] = after], before, n),
           first  |-> IF before = NULL THEN [t.first EXCEPT ![p] = n] ELSE t.first]
    BY DEF InsertAfter
  <2> QED BY <2>1, <2>2, <2>3, <2>4
<1> QED BY <1>1, <1>2, <1>5, <1>6, <1>7 DEF last

LEMMA FreeWithin ==
    ASSUME NEW u \in Tree, NEW S \in SUBSET Node, NEW A, Within(u, A),
           \A x \in Node \ S : /\ u.parent[x] \notin S /\ u.prev[x] \notin S
                               /\ u.next[x] \notin S /\ u.first[x] \notin S
    PROVE  Within(Free(u, S), A \ S)
<1> DEFINE v == Free(u, S)
<1>1. \A x \in Node :
        /\ v.parent[x] = IF x \in S THEN NULL ELSE u.parent[x]
        /\ v.prev[x] = IF x \in S THEN NULL ELSE u.prev[x]
        /\ v.next[x] = IF x \in S THEN NULL ELSE u.next[x]
        /\ v.first[x] = IF x \in S THEN NULL ELSE u.first[x]
  BY FreeFields
<1> HIDE DEF v
<1> SUFFICES ASSUME NEW x \in Node
             PROVE  /\ v.parent[x] # NULL => x \in A \ S /\ v.parent[x] \in A \ S
                    /\ v.prev[x] # NULL => x \in A \ S /\ v.prev[x] \in A \ S
                    /\ v.next[x] # NULL => x \in A \ S /\ v.next[x] \in A \ S
                    /\ v.first[x] # NULL => x \in A \ S /\ v.first[x] \in A \ S
  BY DEF Within, v
<1> QED BY <1>1 DEF Within

\* Remove( false ): the subtree of n leaves no pointer behind.
LEMMA RemoveSound ==
    ASSUME NEW t \in Tree, Sound(t), NEW A, Within(t, A), NEW n \in Node
    PROVE  LET t2 == Remove(t, n)
           IN  t2 \in Tree /\ Sound(t2) /\ Within(t2, A \ Deleted(t, n))
<1> DEFINE S == Deleted(t, n)
           u == Unlink(t, n)
<1>1. u \in Tree /\ Sound(u) /\ Within(u, A)
  BY UnlinkSound
<1>2. Remove(t, n) = Free(u, S)
  BY RemoveLinksIsUnlink DEF Remove, Sound
<1>3. /\ S \in SUBSET Node /\ n \in S
      /\ t.parent[n] \notin S
      /\ \A x \in S : t.first[x] # NULL => t.first[x] \in S \ {n}
      /\ \A x \in S \ {n} :
          /\ t.parent[x] \in S
          /\ t.prev[x] # NULL => t.prev[x] \in S \ {n}
          /\ t.next[x] # NULL => t.next[x] \in S \ {n}
      /\ \A x \in Node : t.parent[x] \in S => x \in S
  BY DeletedClosed DEF Sound
<1>4. \A x \in Node :
        /\ u.parent[x] = IF x = n THEN NULL ELSE t.parent[x]
        /\ u.prev[x] = IF x = n THEN NULL
                       ELSE IF x = t.next[n] THEN t.prev[n] ELSE t.prev[x]
        /\ u.next[x] = IF x = n THEN NULL
                       ELSE IF x = t.prev[n] THEN t.next[n] ELSE t.next[x]
        /\ u.first[x] = IF t.prev[n] = NULL /\ x = t.parent[n]
                        THEN t.next[n] ELSE t.first[x]
  BY UnlinkFields DEF Sound
<1> HIDE DEF S, u
<1>5. \A x \in S :
        /\ u.parent[x] # NULL => u.parent[x] \in S
        /\ u.prev[x] # NULL => u.prev[x] \in S
        /\ u.next[x] # NULL => u.next[x] \in S
        /\ u.first[x] # NULL => u.first[x] \in S
  <2> TAKE x \in S
  <2>1. CASE x = n
    BY <1>3, <1>4, <2>1
  <2>2. CASE x # n
    <3>1. x # t.next[n] /\ x # t.prev[n] /\ x # t.parent[n]
      BY <1>3, <2>2, NullAssumption DEF Sound, Linked, SiblingsLinked
    <3> QED BY <1>3, <1>4, <2>2, <3>1
  <2> QED BY <2>1, <2>2
<1>6. \A x \in Node \ S :
        /\ u.parent[x] \notin S /\ u.prev[x] \notin S
        /\ u.next[x] \notin S /\ u.first[x] \notin S
  <2> TAKE x \in Node \ S
  <2>1. /\ u.parent[x] \in Ptr /\ u.prev[x] \in Ptr
        /\ u.next[x] \in Ptr /\ u.first[x] \in Ptr
    BY <1>1 DEF Tree
  <2>2. u.parent[x] \notin S
    BY <1>3, <1>4
  <2>3. u.prev[x] \notin S
    BY <1>1, <1>3, <1>5, NullAssumption DEF Sound, Linked, SiblingsLinked
  <2>4. u.next[x] \notin S
    BY <1>1, <1>3, <1>5, NullAssumption DEF Sound, Linked, SiblingsLinked
  <2>5. u.first[x] \notin S
    BY <1>1, <1>3, <1>5, NullAssumption DEF Sound, Linked, FirstLinked
  <2> QED BY <2>2, <2>3, <2>4, <2>5
<1>7. Isolated(u, S)
  <2>1. ASSUME NEW x \in Node
        PROVE  /\ u.parent[x] # NULL => (x \in S <=> u.parent[x] \in S)
               /\ u.prev[x] # NULL => (x \in S <=> u.prev[x] \in S)
               /\ u.next[x] # NULL => (x \in S <=> u.next[x] \in S)
               /\ u.first[x] # NULL => (x \in S <=> u.first[x] \in S)
    BY <1>5, <1>6
  <2> QED BY <2>1 DEF Isolated
<1>8. Free(u, S) \in Tree /\ Sound(Free(u, S))
  BY <1>1, <1>3, <1>7, FreeSound, FreeFields DEF Sound
<1>9. Within(Free(u, S), A \ S)
  BY <1>1, <1>3, <1>6, FreeWithin
<1> QED BY <1>2, <1>8, <1>9 DEF S

\* Remove( true ).
LEMMA RemoveNextsWithin ==
    ASSUME NEW t \in Tree, Sound(t), NEW A, Within(t, A), NEW n \in Node
    PROVE  Within(RemoveNexts(t, n), A \ DeletedNexts(t, n))
<1> DEFINE D == DeletedNexts(t, n)
           p == t.parent[n]
           q == t.prev[n]
           u == [parent |-> t.parent, prev |-> t.prev, next |-> Put(t.next, q, NULL),
                 first |-> IF p # NULL /\ t.first[p] = n
                           THEN [t.first EXCEPT ![p] = NULL] ELSE t.first]
<1>1. /\ D \in SUBSET Node /\ n \in D /\ p \notin D /\ q \notin D
      /\ \A x \in D \ {n} : t.prev[x] = NULL => t.parent[x] \in D
      /\ \A x \in D \ {n} : t.prev[x] # NULL => t.prev[x] \in D
      /\ \A x \in D : t.next[x] # NULL => t.next[x] \in D
      /\ \A x \in Node : t.parent[x] \in D => x \in D
  BY DeletedNextsClosed DEF Sound
<1>2. /\ t.parent \in [Node -> Ptr] /\ t.prev \in [Node -> Ptr]
      /\ t.next \in [Node -> Ptr] /\ t.first \in [Node -> Ptr]
      /\ p \in Ptr /\ q \in Ptr /\ NULL \in Ptr
  BY DEF Tree, Ptr
<1>3. u \in Tree
  <2>1. Put(t.next, q, NULL) \in [Node -> Ptr]
    BY <1>2, PutType
  <2> QED BY <1>2, <2>1 DEF Tree
<1>4. \A x \in Node :
          /\ u.parent[x] = t.parent[x] /\ u.prev[x] = t.prev[x]
          /\ u.next[x] = IF x = q THEN NULL ELSE t.next[x]
          /\ u.first[x] = IF x = p /\ t.first[x] = n THEN NULL ELSE t.first[x]
  BY <1>2, NullAssumption DEF Put, Ptr
<1>5. RemoveNexts(t, n) = Free(u, D)
  BY DEF RemoveNexts
<1> HIDE DEF u, D
<1>6. Within(u, A)
  BY <1>4 DEF Within
<1>7. NULL \notin D
  BY <1>1, NullAssumption
<1>8. \A x \in Node \ D :
        /\ u.parent[x] \notin D /\ u.prev[x] \notin D
        /\ u.next[x] \notin D /\ u.first[x] \notin D
  <2> TAKE x \in Node \ D
  <2>1. u.parent[x] \notin D
    BY <1>1, <1>4
  <2>2. u.prev[x] \notin D
    BY <1>1, <1>4, NullAssumption DEF Sound, Linked, SiblingsLinked
  <2>3. u.next[x] \notin D
    <3>1. ASSUME t.next[x] \in D PROVE x = q
      <4>1. t.prev[t.next[x]] = x /\ x # NULL
        BY <1>1, <3>1, NullAssumption DEF Sound, Linked, SiblingsLinked
      <4> QED BY <1>1, <3>1, <4>1
    <3> QED BY <1>4, <1>7, <3>1
  <2>4. u.first[x] \notin D
    <3>1. ASSUME t.first[x] \in D PROVE t.first[x] = n /\ x = p
      BY <1>1, <3>1 DEF Sound, Linked, FirstLinked
    <3> QED BY <1>4, <1>7, <3>1
  <2> QED BY <2>1, <2>2, <2>3, <2>4
<1> QED BY <1>1, <1>3, <1>5, <1>6, <1>8, FreeWithin DEF D

-----------------------------------------------------------------------------
(* Swap *)

\* No node is above its own parent.
LEMMA NotAboveParent ==
    ASSUME NEW t \in Tree, ParentsEnd(t), NEW r \in Node, t.parent[r] # NULL
    PROVE  ~AncestorOrSelf(t, r, t.parent[r])
<1> SUFFICES ASSUME AncestorOrSelf(t, r, t.parent[r]) PROVE FALSE
  OBVIOUS
<1> DEFINE M == {x \in Node : AncestorOrSelf(t, r, x)}
<1>1. r \in M
  BY DEF AncestorOrSelf
<1>2. ASSUME NEW x \in M PROVE t.parent[x] \in M
  <2>1. CASE x = r
    BY <2>1 DEF Tree, Ptr
  <2>2. CASE x # r
    <3>1. t.parent[x] # NULL
      <4>1. {x} \in SUBSET Node
        OBVIOUS
      <4>2. ASSUME t.parent[x] = NULL PROVE r \in {x}
        BY <4>1, <4>2 DEF AncestorOrSelf
      <4> QED BY <2>2, <4>2
    <3>2. t.parent[x] \in Node
      BY <3>1 DEF Tree, Ptr
    <3>3. ASSUME NEW S \in SUBSET Node, t.parent[x] \in S,
                 \A y \in S : t.parent[y] # NULL => t.parent[y] \in S
          PROVE  r \in S
      <4>1. /\ S \cup {x} \in SUBSET Node /\ x \in S \cup {x}
            /\ \A y \in S \cup {x} : t.parent[y] # NULL => t.parent[y] \in S \cup {x}
        BY <3>3
      <4>2. r \in S \cup {x}
        BY <4>1 DEF AncestorOrSelf
      <4> QED BY <2>2, <4>2
    <3> QED BY <3>2, <3>3 DEF AncestorOrSelf
  <2> QED BY <2>1, <2>2
<1>3. M \in SUBSET Node
  OBVIOUS
<1> HIDE DEF M
<1> QED BY <1>1, <1>2, <1>3 DEF ParentsEnd

LEMMA SwapSound ==
    ASSUME NEW t \in Tree, Sound(t), NEW A, Within(t, A),
           NEW l \in Node \cap A, NEW r \in Node \cap A,
           ~AncestorOrSelf(t, l, r), ~AncestorOrSelf(t, r, l),
           t.prev[l] # r, t.prev[r] # l
    PROVE  LET t2 == Swap(t, l, r) IN t2 \in Tree /\ Sound(t2) /\ Within(t2, A)
<1> DEFINE lp == t.parent[l]
           rp == t.parent[r]
           t1 == Unlink(t, l)
           t2 == Unlink(t1, r)
           t3 == IF lp # NULL THEN InsertAfter(t2, lp, r, t.prev[l]) ELSE t2
<1>1. l # r
  BY DEF AncestorOrSelf
<1>2. t1 \in Tree /\ Sound(t1) /\ Within(t1, A)
  BY UnlinkSound
<1>3. t2 \in Tree /\ Sound(t2) /\ Within(t2, A)
  <2> HIDE DEF t1
  <2> QED BY <1>2, UnlinkSound
<1>4. \A x \in Node : t2.parent[x] = IF x \in {l, r} THEN NULL ELSE t.parent[x]
  <2>1. \A x \in Node : t1.parent[x] = IF x = l THEN NULL ELSE t.parent[x]
    BY DEF Unlink, Tree
  <2> HIDE DEF t1
  <2>2. \A x \in Node : t2.parent[x] = IF x = r THEN NULL ELSE t1.parent[x]
    BY <1>2 DEF Unlink, Tree
  <2> QED BY <2>1, <2>2
<1> HIDE DEF t1, t2
<1>5. /\ lp \in Ptr /\ rp \in Ptr /\ t.prev[l] \in Ptr /\ t.prev[r] \in Ptr
      /\ lp # NULL => lp \in Node \cap A
      /\ rp # NULL => rp \in Node \cap A
  BY DEF Tree, Ptr, Within
<1>6. /\ t.prev[l] # NULL => t.parent[t.prev[l]] = lp /\ t.prev[l] # l
      /\ t.prev[r] # NULL => t.parent[t.prev[r]] = rp /\ t.prev[r] # r
  BY <1>5, UnlinkFields DEF Sound, Linked, SiblingsLinked, Ptr
<1>7. PICK L \in SUBSET Node :
        /\ l \in L /\ r \notin L
        /\ \A x \in L : t.parent[x] # NULL => t.parent[x] \in L
  BY DEF AncestorOrSelf
<1>8. PICK R \in SUBSET Node :
        /\ r \in R /\ l \notin R
        /\ \A x \in R : t.parent[x] # NULL => t.parent[x] \in R
  BY DEF AncestorOrSelf
<1>9. /\ t3 \in Tree /\ Sound(t3) /\ Within(t3, A)
      /\ \A x \in Node \ {l, r} : t3.parent[x] = t.parent[x]
      /\ t3.parent[l] = NULL
  <2>1. CASE lp = NULL
    BY <1>3, <1>4, <2>1
  <2>2. CASE lp # NULL
    <3>1. ReferenceOK(t2, lp, r, t.prev[l])
      BY <1>4, <1>5, <1>6 DEF ReferenceOK, Ptr
    <3>2. ~AncestorOrSelf(t2, r, lp)
      BY <1>4, <1>7, <2>2 DEF AncestorOrSelf
    <3>3. t3 \in Tree /\ Sound(t3) /\ Within(t3, A)
      BY <1>3, <1>4, <1>5, <2>2, <3>1, <3>2, InsertAfterSound
    <3>4. \A x \in Node : t3.parent[x] = IF x = r THEN lp ELSE t2.parent[x]
      BY <1>3, <2>2 DEF InsertAfter, Tree
    <3> QED BY <1>1, <1>4, <3>3, <3>4
  <2> QED BY <2>1, <2>2
<1>10. CASE rp = NULL
  BY <1>9, <1>10 DEF Swap, t1, t2
<1>11. CASE rp # NULL
  <2>1. ReferenceOK(t3, rp, l, t.prev[r])
    BY <1>5, <1>6, <1>9 DEF ReferenceOK, Ptr
  <2>2. ~AncestorOrSelf(t3, l, rp)
    <3>1. PICK C \in SUBSET Node :
            /\ rp \in C /\ r \notin C
            /\ \A x \in C : t.parent[x] # NULL => t.parent[x] \in C
      BY <1>11, NotAboveParent DEF AncestorOrSelf, Sound
    <3>2. /\ C \cap R \in SUBSET Node /\ rp \in C \cap R /\ l \notin C \cap R
          /\ \A x \in C \cap R : t3.parent[x] # NULL => t3.parent[x] \in C \cap R
      BY <1>8, <1>9, <1>11, <3>1
    <3> QED BY <3>2 DEF AncestorOrSelf
  <2> HIDE DEF t3
  <2>3. LET t4 == InsertAfter(t3, rp, l, t.prev[r])
        IN  t4 \in Tree /\ Sound(t4) /\ Within(t4, A)
    BY <1>5, <1>9, <1>11, <2>1, <2>2, InsertAfterSound
  <2>4. Swap(t, l, r) = InsertAfter(t3, rp, l, t.prev[r])
    BY <1>11 DEF Swap, t1, t2, t3
  <2> QED BY <2>3, <2>4
<1> QED BY <1>10, <1>11

-----------------------------------------------------------------------------
(* The forest *)

\* The inductive invariant: consistent pointers, no cycle, no pointer to a
\* freed node.  Neither WellLinked nor Acyclic is inductive alone: an only
\* child is told from a ring by the one, a ring is kept out by the other.
IInv == TypeOK /\ Sound(tree) /\ Within(tree, alive)

\* At the start nothing is linked.
LEMMA InitIInv == Init => IInv
<1> SUFFICES ASSUME Init PROVE IInv
  OBVIOUS
<1>1. TypeOK
  BY DEF Init, TypeOK, EmptyTree, AllNull, Tree, Ptr
<1>2. \A x \in Node : /\ tree.parent[x] = NULL /\ tree.prev[x] = NULL
                      /\ tree.next[x] = NULL /\ tree.first[x] = NULL
  BY DEF Init, EmptyTree, AllNull
<1>3. Linked(tree)
  BY <1>2, NullAssumption
     DEF Linked, FirstLinked, SiblingsLinked, RootsUnlinked, OneLast
<1>4. SiblingsEnd(tree) /\ ParentsEnd(tree)
  BY <1>2, NullAssumption DEF SiblingsEnd, ParentsEnd
<1>5. Within(tree, alive)
  BY <1>2 DEF Within
<1> QED BY <1>1, <1>3, <1>4, <1>5 DEF IInv, Sound

\* A node that is constructed had no links to clear.
LEMMA ConstructIInv ==
    ASSUME IInv, NEW n \in Node, Construct(n) PROVE IInv'
<1>1. \A x \in Node :
        /\ tree'.parent[x] = tree.parent[x] /\ tree'.prev[x] = tree.prev[x]
        /\ tree'.next[x] = tree.next[x] /\ tree'.first[x] = tree.first[x]
  BY FreeFields DEF Construct, IInv, TypeOK, Within
<1>2. tree' \in Tree
  BY FreeFields DEF Construct, IInv, TypeOK
<1>3. tree' = tree
  BY <1>1, <1>2 DEF IInv, TypeOK, Tree
<1>4. alive' = alive \cup {n}
  BY DEF Construct
<1>5. Within(tree', alive')
  BY <1>3, <1>4 DEF IInv, Within
<1> QED BY <1>3, <1>4, <1>5 DEF IInv, TypeOK

\* An insertion by any of the four methods keeps the invariant.
LEMMA InsertIInv ==
    ASSUME IInv, NEW p \in Node, NEW n \in Node, NEW refer \in Ptr,
           DoAddChild(p, n) \/ DoInsertBefore(p, n, refer)
             \/ DoInsertAfter(p, n, refer) \/ DoInsertOrAppend(p, n, refer)
    PROVE  IInv'
<1>1. /\ tree \in Tree /\ Sound(tree) /\ Within(tree, alive)
      /\ p \in Node \cap alive /\ n \in Node \cap alive
      /\ tree.parent[n] = NULL /\ ~AncestorOrSelf(tree, n, p)
      /\ alive' = alive
  BY DEF IInv, TypeOK, DoAddChild, DoInsertBefore, DoInsertAfter, DoInsertOrAppend, Insertable
<1>2. PICK r \in Ptr : ReferenceOK(tree, p, n, r) /\ tree' = InsertAfter(tree, p, n, r)
  <2>1. CASE DoAddChild(p, n)
    <3>1. NULL \in Ptr /\ ReferenceOK(tree, p, n, NULL)
      BY NullAssumption DEF Ptr, ReferenceOK
    <3> QED BY <1>1, <2>1, <3>1, OtherInsertions DEF DoAddChild
  <2>2. CASE DoInsertBefore(p, n, refer)
    BY <1>1, <2>2, OtherInsertions DEF DoInsertBefore
  <2>3. CASE DoInsertAfter(p, n, refer)
    BY <2>3 DEF DoInsertAfter
  <2>4. CASE DoInsertOrAppend(p, n, refer)
    BY <1>1, <2>4, OtherInsertions DEF DoInsertOrAppend
  <2> QED BY <2>1, <2>2, <2>3, <2>4
<1>3. tree' \in Tree /\ Sound(tree') /\ Within(tree', alive)
  BY <1>1, <1>2, InsertAfterSound
<1> QED BY <1>1, <1>3 DEF IInv, TypeOK

\* Unlinking, freeing and exchanging keep the invariant.
LEMMA RemoveIInv ==
    ASSUME IInv, NEW n \in Node,
           DoUnlink(n) \/ DoRemove(n) \/ DoRemoveNexts(n) \/ DoRemoveChildren(n)
    PROVE  IInv'
<1>1. tree \in Tree /\ Sound(tree) /\ Within(tree, alive) /\ alive \in SUBSET Node
  BY DEF IInv, TypeOK
<1>2. CASE DoUnlink(n)
  <2>1. tree' \in Tree /\ Sound(tree') /\ Within(tree', alive)
    BY <1>1, <1>2, UnlinkSound DEF DoUnlink
  <2>2. alive' = alive
    BY <1>2 DEF DoUnlink
  <2> QED BY <1>1, <2>1, <2>2 DEF IInv, TypeOK
<1>3. CASE DoRemove(n)
  <2>1. tree' = Remove(tree, n) /\ alive' = alive \ Deleted(tree, n)
    BY <1>3 DEF DoRemove
  <2>2. tree' \in Tree /\ Sound(tree') /\ Within(tree', alive')
    BY <1>1, <2>1, RemoveSound
  <2> QED BY <1>1, <2>1, <2>2 DEF IInv, TypeOK
<1>4. ASSUME NEW m \in Node, tree' = RemoveNexts(tree, m),
             alive' = alive \ DeletedNexts(tree, m)
      PROVE  IInv'
  <2>1. tree' \in Tree /\ Sound(tree') /\ Within(tree', alive')
    BY <1>1, <1>4, RemoveNextsSound, RemoveNextsWithin DEF Sound
  <2> QED BY <1>1, <1>4, <2>1 DEF IInv, TypeOK
<1>5. CASE DoRemoveNexts(n)
  BY <1>4, <1>5 DEF DoRemoveNexts
<1>6. CASE DoRemoveChildren(n)
  <2>1. tree.first[n] \in Node
    BY <1>1, <1>6 DEF DoRemoveChildren, Tree, Ptr
  <2> QED BY <1>4, <1>6, <2>1 DEF DoRemoveChildren, RemoveChildren
<1> QED BY <1>2, <1>3, <1>5, <1>6

LEMMA SwapIInv ==
    ASSUME IInv, NEW l \in Node, NEW r \in Node, DoSwap(l, r) PROVE IInv'
<1>1. /\ tree \in Tree /\ Sound(tree) /\ Within(tree, alive)
      /\ l \in Node \cap alive /\ r \in Node \cap alive
      /\ tree' = Swap(tree, l, r) /\ alive' = alive
  BY DEF IInv, TypeOK, DoSwap
<1>2. tree' \in Tree /\ Sound(tree') /\ Within(tree', alive)
  BY <1>1, SwapSound DEF DoSwap
<1> QED BY <1>1, <1>2 DEF IInv, TypeOK

THEOREM Invariance == Spec => []IInv
<1>1. Init => IInv
  BY InitIInv
<1>2. IInv /\ [Next]_vars => IInv'
  <2> SUFFICES ASSUME IInv, [Next]_vars PROVE IInv'
    OBVIOUS
  <2>1. ASSUME NEW n \in Node, Construct(n) PROVE IInv'
    BY <2>1, ConstructIInv
  <2>2. ASSUME NEW n \in Node,
               DoUnlink(n) \/ DoRemove(n) \/ DoRemoveNexts(n) \/ DoRemoveChildren(n)
        PROVE  IInv'
    BY <2>2, RemoveIInv
  <2>3. ASSUME NEW p \in Node, NEW n \in Node, DoAddChild(p, n) PROVE IInv'
    BY <2>3, InsertIInv DEF Ptr
  <2>4. ASSUME NEW p \in Node, NEW n \in Node, DoSwap(p, n) PROVE IInv'
    BY <2>4, SwapIInv
  <2>5. ASSUME NEW p \in Node, NEW n \in Node, NEW refer \in Ptr,
               DoInsertBefore(p, n, refer) \/ DoInsertAfter(p, n, refer)
                 \/ DoInsertOrAppend(p, n, refer)
        PROVE  IInv'
    BY <2>5, InsertIInv
  <2>6. CASE UNCHANGED vars
    BY <2>6 DEF vars, IInv, TypeOK
  <2> QED BY <2>1, <2>2, <2>3, <2>4, <2>5, <2>6 DEF Next
<1> QED BY <1>1, <1>2, PTL DEF Spec

\* The pointers of every forest agree with each other (Tree.h, all methods).
THEOREM TreeWellLinked == Spec => []WellLinked
<1>1. IInv => WellLinked
  BY DEF IInv, Sound, WellLinked
<1> QED BY <1>1, Invariance, PTL

\* The recursions and walks of Tree.h end.
THEOREM TreeAcyclic == Spec => []Acyclic
<1>1. IInv => Acyclic
  BY DEF IInv, Sound, Acyclic
<1> QED BY <1>1, Invariance, PTL

\* No method leaves a pointer to a node that it freed.
THEOREM TreeNoDangling == Spec => []NoDangling
<1>1. IInv => NoDangling
  BY DEF IInv, Within, NoDangling
<1> QED BY <1>1, Invariance, PTL

\* Every field holds a node or null.
THEOREM TreeTypeOK == Spec => []TypeOK
<1>1. IInv => TypeOK
  BY DEF IInv
<1> QED BY <1>1, Invariance, PTL

\* All four together: what a caller of Tree.h may rely on between two calls.
THEOREM TreeWellFormed == Spec => []WellFormed
<1>1. TypeOK /\ NoDangling /\ WellLinked /\ Acyclic => WellFormed
  BY DEF WellFormed
<1> QED BY <1>1, TreeTypeOK, TreeNoDangling, TreeWellLinked, TreeAcyclic, PTL

-----------------------------------------------------------------------------
(* The children of a node, in their order.                                 *)

\* s is what a walk from n along m_pNext meets.
Walk(t, n, s) ==
    /\ s \in Seq(Node)
    /\ n = NULL => s = << >>
    /\ n # NULL => s # << >> /\ s[1] = n /\ t.next[s[Len(s)]] = NULL
    /\ \A i \in 1..(Len(s) - 1) : t.next[s[i]] = s[i + 1]

\* What a node adds in front of the walk from its next sibling.
LEMMA WalkFirst ==
    ASSUME NEW t \in Tree, NEW n \in Node, NEW s, Walk(t, t.next[n], s)
    PROVE  Walk(t, n, <<n>> \o s)
<1> DEFINE u == <<n>> \o s
<1>1. /\ u \in Seq(Node) /\ Len(u) = Len(s) + 1 /\ u[1] = n /\ u # << >>
      /\ \A i \in 1..Len(s) : u[i + 1] = s[i]
      /\ Len(s) \in Nat
  BY DEF Walk
<1>2. n # NULL
  BY NullAssumption
<1> HIDE DEF u
<1>3. CASE t.next[n] = NULL
  <2>1. Len(s) = 0
    BY <1>3 DEF Walk
  <2>2. t.next[u[Len(u)]] = NULL
    BY <1>1, <1>3, <2>1
  <2>3. \A i \in 1..(Len(u) - 1) : t.next[u[i]] = u[i + 1]
    BY <1>1, <2>1
  <2> QED BY <1>1, <1>2, <2>2, <2>3 DEF Walk, u
<1>4. CASE t.next[n] # NULL
  <2>1. /\ s # << >> /\ s[1] = t.next[n] /\ t.next[s[Len(s)]] = NULL
        /\ Len(s) >= 1
        /\ \A i \in 1..(Len(s) - 1) : t.next[s[i]] = s[i + 1]
    BY <1>4 DEF Walk
  <2>2. u[Len(u)] = s[Len(s)]
    BY <1>1, <2>1
  <2>3. ASSUME NEW i \in 1..(Len(u) - 1) PROVE t.next[u[i]] = u[i + 1]
    <3>1. CASE i = 1
      BY <1>1, <2>1, <3>1
    <3>2. CASE i # 1
      <4>1. i - 1 \in 1..(Len(s) - 1) /\ i - 1 \in 1..Len(s) /\ i \in 1..Len(s)
        BY <1>1, <2>3, <3>2
      <4>2. u[(i - 1) + 1] = s[i - 1] /\ u[i + 1] = s[i]
        BY <1>1, <4>1
      <4>3. (i - 1) + 1 = i
        BY <4>1
      <4>4. t.next[s[i - 1]] = s[(i - 1) + 1]
        BY <2>1, <4>1
      <4> QED BY <4>2, <4>3, <4>4
    <3> QED BY <3>1, <3>2
  <2> QED BY <1>1, <1>2, <2>1, <2>2, <2>3 DEF Walk, u
<1> QED BY <1>3, <1>4

\* The walk without its first node is the walk from the next one.
LEMMA WalkRest ==
    ASSUME NEW t \in Tree, NEW n \in Node, NEW s, Walk(t, n, s)
    PROVE  Walk(t, t.next[n], Tail(s)) /\ s = <<n>> \o Tail(s)
<1> DEFINE u == Tail(s)
<1>1. n # NULL
  BY NullAssumption
<1>2. /\ s \in Seq(Node) /\ s # << >> /\ s[1] = n /\ t.next[s[Len(s)]] = NULL
      /\ Len(s) \in Nat /\ Len(s) >= 1
      /\ \A i \in 1..(Len(s) - 1) : t.next[s[i]] = s[i + 1]
  BY <1>1 DEF Walk
<1>3. /\ u \in Seq(Node) /\ Len(u) = Len(s) - 1
      /\ \A i \in 1..Len(u) : u[i] = s[i + 1]
  BY <1>2
<1>4. s = <<n>> \o u
  BY <1>2
<1> HIDE DEF u
<1>5. \A i \in 1..(Len(u) - 1) : t.next[u[i]] = u[i + 1]
  <2> TAKE i \in 1..(Len(u) - 1)
  <2>1. i \in 1..Len(u) /\ i + 1 \in 1..Len(u) /\ i + 1 \in 1..(Len(s) - 1)
    BY <1>2, <1>3
  <2> QED BY <1>2, <1>3, <2>1
<1>6. CASE Len(s) = 1
  <2>1. u = << >>
    BY <1>3, <1>6
  <2>2. t.next[n] = NULL
    BY <1>2, <1>6
  <2> QED BY <1>3, <1>4, <1>5, <2>1, <2>2 DEF Walk, u
<1>7. CASE Len(s) # 1
  <2>1. Len(u) >= 1 /\ u # << >> /\ 1 \in 1..(Len(s) - 1) /\ Len(u) \in 1..Len(u) /\ 1 \in 1..Len(u)
    BY <1>2, <1>3, <1>7
  <2>2. u[1] = t.next[n]
    BY <1>2, <1>3, <2>1
  <2>3. u[Len(u)] = s[Len(s)]
    BY <1>2, <1>3, <2>1
  <2>4. u[1] \in Node
    BY <1>3, <2>1
  <2> QED BY <1>2, <1>3, <1>4, <1>5, <2>1, <2>2, <2>3, <2>4, NullAssumption DEF Walk, u
<1> QED BY <1>2, <1>6, <1>7

\* From every node there is exactly one walk, since no ring of siblings is closed.
LEMMA WalkUnique ==
    ASSUME NEW t \in Tree, SiblingsEnd(t)
    PROVE  \A n \in Ptr : /\ \E s : Walk(t, n, s)
                          /\ \A s, u : Walk(t, n, s) /\ Walk(t, n, u) => s = u
<1> DEFINE P(n) == /\ \E s : Walk(t, n, s)
                   /\ \A s, u : Walk(t, n, s) /\ Walk(t, n, u) => s = u
           B == {n \in Node : ~P(n)}
<1>1. P(NULL)
  <2>1. << >> \in Seq(Node) /\ \A i \in 1..(Len(<< >>) - 1) : FALSE
    OBVIOUS
  <2>2. Walk(t, NULL, << >>)
    BY <2>1 DEF Walk
  <2>3. \A s : Walk(t, NULL, s) => s = << >>
    BY DEF Walk
  <2> QED BY <2>2, <2>3
<1>2. ASSUME NEW n \in Node, P(t.next[n]) PROVE P(n)
  <2>1. PICK s : Walk(t, t.next[n], s)
    BY <1>2
  <2>2. Walk(t, n, <<n>> \o s)
    BY <2>1, WalkFirst
  <2>3. ASSUME NEW v, NEW u, Walk(t, n, v), Walk(t, n, u) PROVE v = u
    <3>1. Walk(t, t.next[n], Tail(v)) /\ v = <<n>> \o Tail(v)
      BY <2>3, WalkRest
    <3>2. Walk(t, t.next[n], Tail(u)) /\ u = <<n>> \o Tail(u)
      BY <2>3, WalkRest
    <3>3. Tail(v) = Tail(u)
      BY <1>2, <3>1, <3>2
    <3> QED BY <3>1, <3>2, <3>3
  <2> QED BY <2>2, <2>3
<1> HIDE DEF P
<1>3. \A n \in B : t.next[n] \in B
  <2> TAKE n \in B
  <2>1. ~P(t.next[n])
    BY <1>2
  <2>2. t.next[n] \in Ptr
    BY DEF Tree
  <2> QED BY <1>1, <2>1, <2>2 DEF Ptr
<1>4. B = {}
  <2>1. B \in SUBSET Node
    OBVIOUS
  <2> HIDE DEF B
  <2> QED BY <1>3, <2>1 DEF SiblingsEnd
<1> QED BY <1>1, <1>4 DEF Ptr, P

\* The children of p are the walk from its first child.
LEMMA ChildSeqIsWalk ==
    ASSUME NEW t \in Tree, SiblingsEnd(t), NEW p \in Node
    PROVE  /\ Walk(t, t.first[p], ChildSeq(t, p))
           /\ \A s : Walk(t, t.first[p], s) => s = ChildSeq(t, p)
<1> DEFINE Eq(f) == f = [n \in Ptr |-> IF n = NULL THEN << >> ELSE <<n>> \o f[t.next[n]]]
           walk(n) == CHOOSE s : Walk(t, n, s)
           g == [n \in Ptr |-> walk(n)]
           from == CHOOSE f : Eq(f)
<1>1. \A n \in Ptr : Walk(t, n, walk(n))
  <2> TAKE n \in Ptr
  <2> DEFINE Q(s) == Walk(t, n, s)
  <2>1. \E s : Q(s)
    BY WalkUnique
  <2>2. Q(CHOOSE s : Q(s))
    BY <2>1, Zenon
  <2> QED BY <2>2
<1>2. Eq(g)
  <2> HIDE DEF walk
  <2>1. ASSUME NEW n \in Ptr
        PROVE  g[n] = IF n = NULL THEN << >> ELSE <<n>> \o g[t.next[n]]
    <3>1. CASE n = NULL
      BY <1>1, <3>1 DEF Walk
    <3>2. CASE n # NULL
      <4>1. n \in Node /\ t.next[n] \in Ptr
        BY <3>2 DEF Ptr, Tree
      <4>2. Walk(t, n, <<n>> \o walk(t.next[n]))
        BY <1>1, <4>1, WalkFirst
      <4>3. walk(n) = <<n>> \o walk(t.next[n])
        BY <1>1, <4>2, WalkUnique
      <4> QED BY <3>2, <4>1, <4>3
    <3> QED BY <3>1, <3>2
  <2> QED BY <2>1
<1> HIDE DEF g, Eq
<1>3. Eq(from)
  <2>1. \E f : Eq(f)
    BY <1>2
  <2> QED BY <2>1, Zenon
<1>4. ChildSeq(t, p) = from[t.first[p]]
  BY DEF ChildSeq, Eq
<1> HIDE DEF from
<1>5. \A n \in Ptr : from[n] = IF n = NULL THEN << >> ELSE <<n>> \o from[t.next[n]]
  BY <1>3 DEF Eq
<1> DEFINE B == {n \in Node : ~Walk(t, n, from[n])}
<1>6. Walk(t, NULL, from[NULL])
  <2>1. NULL \in Ptr
    BY DEF Ptr
  <2>2. from[NULL] = << >>
    BY <1>5, <2>1
  <2>3. << >> \in Seq(Node) /\ \A i \in 1..(Len(<< >>) - 1) : FALSE
    OBVIOUS
  <2> QED BY <2>2, <2>3 DEF Walk
<1>7. \A n \in B : t.next[n] \in B
  <2> TAKE n \in B
  <2>1. t.next[n] \in Ptr /\ n \in Ptr /\ n # NULL
    BY NullAssumption DEF Tree, Ptr
  <2>2. from[n] = <<n>> \o from[t.next[n]]
    BY <1>5, <2>1
  <2>3. ~Walk(t, t.next[n], from[t.next[n]])
    BY <2>2, WalkFirst
  <2> QED BY <1>6, <2>1, <2>3 DEF Ptr
<1>8. B = {}
  <2>1. B \in SUBSET Node
    OBVIOUS
  <2> HIDE DEF B
  <2> QED BY <1>7, <2>1 DEF SiblingsEnd
<1>9. t.first[p] \in Ptr
  BY DEF Tree
<1>10. Walk(t, t.first[p], from[t.first[p]])
  BY <1>6, <1>8, <1>9 DEF Ptr
<1> QED BY <1>4, <1>9, <1>10, WalkUnique

\* Every nonempty set of natural numbers has a least element.
LEMMA LeastNatural ==
    ASSUME NEW S, S \subseteq Nat, S # {}
    PROVE  \E n \in S : \A m \in S : n <= m
<1>1. \E x \in S : \A y \in S : ~(<<y, x>> \in OpToRel(<, Nat))
  BY NatLessThanWellFounded, WFMin
<1>2. PICK x \in S : \A y \in S : ~(<<y, x>> \in OpToRel(<, Nat))
  BY <1>1
<1>3. \A y \in S : ~(y < x)
  BY <1>2 DEF OpToRel
<1> QED BY <1>3

\* A set that holds 1 and, with each number below n, the next one holds them all.
LEMMA Upwards ==
    ASSUME NEW n \in Nat, NEW S, 1 \in S, \A i \in 1..n : i < n /\ i \in S => i + 1 \in S
    PROVE  \A i \in 1..n : i \in S
<1> DEFINE bad == {i \in 1..n : i \notin S}
<1>1. SUFFICES ASSUME bad # {} PROVE FALSE
  OBVIOUS
<1>2. PICK i \in bad : \A m \in bad : i <= m
  <2>1. bad \subseteq Nat
    OBVIOUS
  <2> HIDE DEF bad
  <2> QED BY <1>1, <2>1, LeastNatural
<1>3. i \in 1..n /\ i \notin S /\ i # 1
  BY <1>2
<1>4. i - 1 \in 1..n /\ i - 1 < n /\ (i - 1) + 1 = i /\ i - 1 \notin bad
  BY <1>2, <1>3
<1>5. i - 1 \in S
  BY <1>4
<1> QED BY <1>3, <1>4, <1>5

\* s has all children of p, each once, and the pointers of each say its place.
Lists(t, p, s) ==
    /\ s \in Seq(Node)
    /\ \A i \in 1..Len(s) :
        /\ t.parent[s[i]] = p
        /\ t.prev[s[i]] = IF i = 1 THEN NULL ELSE s[i - 1]
        /\ t.next[s[i]] = IF i = Len(s) THEN NULL ELSE s[i + 1]
    /\ \A i, j \in 1..Len(s) : s[i] = s[j] => i = j
    /\ \A c \in Node : t.parent[c] = p => \E i \in 1..Len(s) : s[i] = c
    /\ s = << >> <=> t.first[p] = NULL
    /\ s # << >> => s[1] = t.first[p]

LEMMA ChildSeqLists ==
    ASSUME NEW t \in Tree, Sound(t), NEW p \in Node
    PROVE  Lists(t, p, ChildSeq(t, p))
<1> DEFINE s == ChildSeq(t, p)
           n == Len(s)
<1>1. /\ s \in Seq(Node) /\ n \in Nat
      /\ t.first[p] = NULL => s = << >>
      /\ t.first[p] # NULL => s # << >> /\ s[1] = t.first[p] /\ t.next[s[n]] = NULL
      /\ \A i \in 1..(n - 1) : t.next[s[i]] = s[i + 1]
  BY ChildSeqIsWalk DEF Walk, Sound
<1> HIDE DEF s
<1>2. CASE t.first[p] = NULL
  <2>1. \A c \in Node : t.parent[c] # p
    BY <1>2 DEF Sound, Linked, FirstLinked
  <2> QED BY <1>1, <1>2, <2>1 DEF Lists, s
<1>3. CASE t.first[p] # NULL
  <2>1. /\ s # << >> /\ n >= 1 /\ s[1] = t.first[p] /\ t.next[s[n]] = NULL
        /\ \A i \in 1..n : s[i] \in Node
    BY <1>1, <1>3
  <2>2. \A i \in 1..n : t.next[s[i]] = IF i = n THEN NULL ELSE s[i + 1]
    BY <1>1, <2>1
  <2>3. /\ t.parent[s[1]] = p /\ t.prev[s[1]] = NULL
    BY <2>1 DEF Sound, Linked, FirstLinked
  <2>4. \A i \in 1..n : i < n => t.prev[s[i + 1]] = s[i] /\ t.parent[s[i + 1]] = t.parent[s[i]]
    <3> TAKE i \in 1..n
    <3> HAVE i < n
    <3>1. i \in 1..n /\ i + 1 \in 1..n /\ i # n
      BY <1>1
    <3>2. s[i] \in Node /\ s[i + 1] \in Node /\ t.next[s[i]] = s[i + 1]
      BY <2>1, <2>2, <3>1
    <3> QED BY <3>2 DEF Sound, Linked, SiblingsLinked
  <2>5. \A i \in 1..n : t.parent[s[i]] = p
    <3> DEFINE G == {i \in 1..n : t.parent[s[i]] = p}
    <3>1. 1 \in G
      BY <1>1, <2>1, <2>3
    <3>2. \A i \in 1..n : i < n /\ i \in G => i + 1 \in G
      BY <1>1, <2>4
    <3> HIDE DEF G
    <3>3. \A i \in 1..n : i \in G
      BY <1>1, <3>1, <3>2, Upwards
    <3> QED BY <3>3 DEF G
  <2>6. \A i \in 1..n : t.prev[s[i]] = IF i = 1 THEN NULL ELSE s[i - 1]
    <3> TAKE i \in 1..n
    <3>1. CASE i = 1
      BY <2>3, <3>1
    <3>2. CASE i # 1
      <4>1. i - 1 \in 1..n /\ i - 1 < n /\ (i - 1) + 1 = i
        BY <1>1, <3>2
      <4>2. t.prev[s[(i - 1) + 1]] = s[i - 1]
        BY <2>4, <4>1
      <4> QED BY <3>2, <4>1, <4>2
    <3> QED BY <3>1, <3>2
  <2>7. \A i, j \in 1..n : s[i] = s[j] => i = j
    <3> DEFINE G == {i \in 1..n : \A j \in 1..n : s[i] = s[j] => i = j}
    <3>1. 1 \in G
      <4>1. ASSUME NEW j \in 1..n, s[1] = s[j], 1 # j PROVE FALSE
        <5>1. t.prev[s[j]] = s[j - 1] /\ j - 1 \in 1..n
          BY <2>6, <4>1
        <5> QED BY <2>1, <2>3, <4>1, <5>1, NullAssumption
      <4> QED BY <1>1, <2>1, <4>1
    <3>2. \A i \in 1..n : i < n /\ i \in G => i + 1 \in G
      <4> TAKE i \in 1..n
      <4> HAVE i < n /\ i \in G
      <4>1. i + 1 \in 1..n /\ t.prev[s[i + 1]] = s[i] /\ s[i] \in Node
        BY <1>1, <2>1, <2>4
      <4>2. ASSUME NEW j \in 1..n, s[i + 1] = s[j] PROVE i + 1 = j
        <5>1. t.prev[s[j]] = IF j = 1 THEN NULL ELSE s[j - 1]
          BY <2>6
        <5>2. j # 1 /\ s[j - 1] = s[i]
          BY <4>1, <4>2, <5>1, NullAssumption
        <5>3. j - 1 \in 1..n
          BY <5>2
        <5>4. i = j - 1
          BY <5>2, <5>3
        <5> QED BY <5>4
      <4> QED BY <4>1, <4>2
    <3> HIDE DEF G
    <3>3. \A i \in 1..n : i \in G
      BY <1>1, <3>1, <3>2, Upwards
    <3> QED BY <3>3 DEF G
  <2>8. ASSUME NEW c \in Node, t.parent[c] = p PROVE \E i \in 1..n : s[i] = c
    <3> DEFINE R == {x \in Node : t.parent[x] = p /\ ~\E i \in 1..n : s[i] = x}
    <3> SUFFICES ASSUME c \in R PROVE FALSE
      BY <2>8
    <3>1. \A x \in R : t.next[x] \in R
      <4> TAKE x \in R
      <4>1. t.next[x] # NULL
        <5>1. n \in 1..n /\ s[n] \in Node /\ t.parent[s[n]] = p
          BY <1>1, <2>1, <2>5
        <5> QED BY <2>1, <5>1 DEF Sound, Linked, OneLast
      <4>2. t.next[x] \in Node
        BY <4>1 DEF Tree, Ptr
      <4>3. t.parent[t.next[x]] = p /\ t.prev[t.next[x]] = x
        BY <4>2 DEF Sound, Linked, SiblingsLinked
      <4>4. ASSUME NEW i \in 1..n, s[i] = t.next[x] PROVE FALSE
        <5>1. x = IF i = 1 THEN NULL ELSE s[i - 1]
          BY <2>6, <4>3, <4>4
        <5>2. i # 1 /\ x = s[i - 1]
          BY <5>1, NullAssumption
        <5>3. i - 1 \in 1..n
          BY <5>2
        <5> QED BY <5>2, <5>3
      <4> QED BY <4>2, <4>3, <4>4
    <3>2. R \in SUBSET Node /\ R # {}
      OBVIOUS
    <3> HIDE DEF R
    <3> QED BY <3>1, <3>2 DEF Sound, SiblingsEnd
  <2> HIDE DEF n
  <2>9. Lists(t, p, s)
    BY <1>1, <1>3, <2>1, <2>2, <2>5, <2>6, <2>7, <2>8 DEF Lists, n
  <2> QED BY <2>9 DEF s
<1> QED BY <1>2, <1>3

\* A walk from the first child is the list of the children.
LEMMA ChildSeqIs ==
    ASSUME NEW t \in Tree, Sound(t), NEW p \in Node, NEW s \in Seq(Node),
           s = << >> <=> t.first[p] = NULL,
           s # << >> => s[1] = t.first[p],
           \A i \in 1..Len(s) : t.next[s[i]] = IF i = Len(s) THEN NULL ELSE s[i + 1]
    PROVE  ChildSeq(t, p) = s
<1>1. Len(s) \in Nat
  OBVIOUS
<1>2. \A i \in 1..(Len(s) - 1) : t.next[s[i]] = s[i + 1]
  BY <1>1
<1>3. s # << >> => t.next[s[Len(s)]] = NULL
  BY <1>1
<1>4. Walk(t, t.first[p], s)
  BY <1>2, <1>3 DEF Walk
<1> QED BY <1>4, ChildSeqIsWalk DEF Sound

\* What the children's pointers to the next do not tell apart has the same lists.
LEMMA ChildSeqSame ==
    ASSUME NEW t \in Tree, Sound(t), NEW u \in Tree, Sound(u), NEW p \in Node,
           u.first[p] = t.first[p],
           \A c \in Node : t.parent[c] = p => u.next[c] = t.next[c]
    PROVE  ChildSeq(u, p) = ChildSeq(t, p)
<1> DEFINE s == ChildSeq(t, p)
<1>1. Lists(t, p, s)
  BY ChildSeqLists
<1> HIDE DEF s
<1>2. /\ s \in Seq(Node)
      /\ s = << >> <=> u.first[p] = NULL
      /\ s # << >> => s[1] = u.first[p]
  BY <1>1 DEF Lists
<1>3. \A i \in 1..Len(s) : u.next[s[i]] = IF i = Len(s) THEN NULL ELSE s[i + 1]
  <2> TAKE i \in 1..Len(s)
  <2>1. s[i] \in Node /\ t.parent[s[i]] = p /\ t.next[s[i]] = IF i = Len(s) THEN NULL ELSE s[i + 1]
    BY <1>1 DEF Lists
  <2> QED BY <2>1
<1>4. ChildSeq(u, p) = s
  BY <1>2, <1>3, ChildSeqIs
<1> QED BY <1>4 DEF s

-----------------------------------------------------------------------------
(* What the methods do to the lists of children.                           *)

LEMMA InsertAtIs ==
    ASSUME NEW s \in Seq(Node), NEW n \in Node, NEW k \in 0..Len(s)
    PROVE  LET v == Seqs!InsertAt(s, k + 1, n) IN
           /\ v \in Seq(Node) /\ Len(v) = Len(s) + 1
           /\ \A i \in 1..Len(v) :
               v[i] = IF i <= k THEN s[i] ELSE IF i = k + 1 THEN n ELSE s[i - 1]
<1> DEFINE a == SubSeq(s, 1, (k + 1) - 1)
           b == SubSeq(s, k + 1, Len(s))
           v == Seqs!InsertAt(s, k + 1, n)
<1>1. Len(s) \in Nat /\ k \in Nat /\ k <= Len(s) /\ (k + 1) - 1 = k
  OBVIOUS
<1>2. /\ a \in Seq(Node) /\ Len(a) = k
      /\ \A i \in 1..k : a[i] = s[i]
  BY <1>1
<1>3. /\ b \in Seq(Node) /\ Len(b) = Len(s) - k
      /\ \A i \in 1..(Len(s) - k) : b[i] = s[i + k]
  BY <1>1
<1>4. v = a \o <<n>> \o b
  BY DEF Seqs!InsertAt
<1> HIDE DEF a, b, v
<1>5. v \in Seq(Node) /\ Len(v) = Len(s) + 1
  BY <1>1, <1>2, <1>3, <1>4
<1>6. ASSUME NEW i \in 1..Len(v)
      PROVE  v[i] = IF i <= k THEN s[i] ELSE IF i = k + 1 THEN n ELSE s[i - 1]
  <2>1. CASE i <= k
    BY <1>1, <1>2, <1>3, <1>4, <1>5, <2>1
  <2>2. CASE i = k + 1
    <3> DEFINE c == a \o <<n>>
    <3>1. c \in Seq(Node) /\ Len(c) = k + 1 /\ c[k + 1] = n
      <4>1. c = Append(a, n)
        BY <1>2, AppendIsConcat
      <4> HIDE DEF c
      <4> QED BY <1>1, <1>2, <4>1
    <3>2. v = c \o b
      BY <1>4
    <3> HIDE DEF c
    <3>3. v[k + 1] = c[k + 1]
      BY <1>1, <1>3, <3>1, <3>2
    <3> QED BY <1>1, <2>2, <3>1, <3>3
  <2>3. CASE i > k + 1
    <3>1. i - (k + 1) \in 1..(Len(s) - k) /\ (i - (k + 1)) + k = i - 1
      BY <1>1, <1>5, <2>3
    <3>2. v[i] = b[i - (k + 1)]
      BY <1>1, <1>2, <1>3, <1>4, <1>5, <2>3
    <3> QED BY <1>3, <2>3, <3>1, <3>2, <1>1
  <2> QED BY <1>1, <2>1, <2>2, <2>3
<1> QED BY <1>5, <1>6 DEF v

LEMMA RemoveAtIs ==
    ASSUME NEW s \in Seq(Node), NEW k \in 1..Len(s)
    PROVE  LET v == Seqs!RemoveAt(s, k) IN
           /\ v \in Seq(Node) /\ Len(v) = Len(s) - 1
           /\ \A i \in 1..Len(v) : v[i] = IF i < k THEN s[i] ELSE s[i + 1]
<1> DEFINE a == SubSeq(s, 1, k - 1)
           b == SubSeq(s, k + 1, Len(s))
           v == Seqs!RemoveAt(s, k)
<1>1. Len(s) \in Nat /\ k \in Nat /\ k <= Len(s) /\ k >= 1
  OBVIOUS
<1>2. /\ a \in Seq(Node) /\ Len(a) = k - 1
      /\ \A i \in 1..(k - 1) : a[i] = s[i]
  BY <1>1
<1>3. /\ b \in Seq(Node) /\ Len(b) = Len(s) - k
      /\ \A i \in 1..(Len(s) - k) : b[i] = s[i + k]
  BY <1>1
<1>4. v = a \o b
  BY DEF Seqs!RemoveAt
<1> HIDE DEF a, b, v
<1>5. v \in Seq(Node) /\ Len(v) = Len(s) - 1
  <2>1. v \in Seq(Node) /\ Len(v) = Len(a) + Len(b)
    BY <1>2, <1>3, <1>4, ConcatProperties
  <2>2. Len(a) + Len(b) = Len(s) - 1
    BY <1>1, <1>2, <1>3
  <2> QED BY <2>1, <2>2
<1>6. ASSUME NEW i \in 1..Len(v) PROVE v[i] = IF i < k THEN s[i] ELSE s[i + 1]
  <2>1. CASE i < k
    BY <1>1, <1>2, <1>3, <1>4, <1>5, <2>1
  <2>2. CASE i >= k
    <3>1. i - (k - 1) \in 1..(Len(s) - k) /\ (i - (k - 1)) + k = i + 1
      BY <1>1, <1>5, <2>2
    <3>2. v[i] = b[i - (k - 1)]
      BY <1>1, <1>2, <1>3, <1>4, <1>5, <2>2
    <3> QED BY <1>1, <1>3, <2>2, <3>1, <3>2
  <2> QED BY <1>1, <2>1, <2>2
<1> QED BY <1>5, <1>6 DEF v

\* InsertAfter puts n behind refer, and moves nothing else.
LEMMA InsertAfterSeq ==
    ASSUME NEW t \in Tree, Sound(t), NEW p \in Node, NEW n \in Node,
           t.parent[n] = NULL, ~AncestorOrSelf(t, n, p),
           NEW k \in 0..Len(ChildSeq(t, p)), NEW refer,
           refer = IF k = 0 THEN NULL ELSE ChildSeq(t, p)[k]
    PROVE  /\ refer \in Ptr /\ ReferenceOK(t, p, n, refer)
           /\ InsertAfter(t, p, n, refer) \in Tree /\ Sound(InsertAfter(t, p, n, refer))
           /\ ChildSeq(InsertAfter(t, p, n, refer), p) =
                Seqs!InsertAt(ChildSeq(t, p), k + 1, n)
           /\ \A q \in Node \ {p} :
                ChildSeq(InsertAfter(t, p, n, refer), q) = ChildSeq(t, q)
<1> DEFINE s == ChildSeq(t, p)
           v == Seqs!InsertAt(s, k + 1, n)
           u == InsertAfter(t, p, n, refer)
           after == IF refer # NULL THEN t.next[refer] ELSE t.first[p]
<1>1. Lists(t, p, s)
  BY ChildSeqLists
<1> HIDE DEF s
<1>2. /\ s \in Seq(Node) /\ Len(s) \in Nat /\ k \in Nat /\ k <= Len(s)
      /\ \A i \in 1..Len(s) : /\ s[i] \in Node /\ t.parent[s[i]] = p
                              /\ t.next[s[i]] = IF i = Len(s) THEN NULL ELSE s[i + 1]
      /\ \A i, j \in 1..Len(s) : s[i] = s[j] => i = j
      /\ s = << >> <=> t.first[p] = NULL
      /\ s # << >> => s[1] = t.first[p]
  BY <1>1 DEF Lists, s
<1>3. refer = IF k = 0 THEN NULL ELSE s[k]
  BY DEF s
<1>4. refer \in Ptr /\ ReferenceOK(t, p, n, refer)
  BY <1>2, <1>3, NullAssumption DEF Ptr, ReferenceOK
<1>5. after \in Ptr /\ after # n /\ refer # n
  BY <1>4, AfterLinked DEF ReferenceOK, Sound
<1>6. \A x \in Node :
        /\ u.next[x] = IF x = refer THEN n ELSE IF x = n THEN after ELSE t.next[x]
        /\ u.first[x] = IF refer = NULL /\ x = p THEN n ELSE t.first[x]
  BY <1>4, <1>5, InsertAfterFields
<1>7. u \in Tree /\ Sound(u)
  <2>1. Within(t, Node)
    BY DEF Within, Tree, Ptr
  <2> QED BY <1>4, <2>1, InsertAfterSound
<1>8. after = IF k = Len(s) THEN NULL ELSE s[k + 1]
  <2>1. CASE k = 0
    BY <1>2, <1>3, <2>1
  <2>2. CASE k # 0
    <3>1. k \in 1..Len(s) /\ refer = s[k] /\ refer # NULL
      BY <1>2, <1>3, <2>2, NullAssumption
    <3> QED BY <1>2, <3>1
  <2> QED BY <2>1, <2>2
<1>9. \A i \in 1..Len(s) : s[i] # n /\ s[i] # NULL
  BY <1>2, NullAssumption
<1>10. /\ v \in Seq(Node) /\ Len(v) = Len(s) + 1
       /\ \A i \in 1..Len(v) :
            v[i] = IF i <= k THEN s[i] ELSE IF i = k + 1 THEN n ELSE s[i - 1]
  BY <1>2, InsertAtIs
<1> HIDE DEF u, v, after
<1>11. v # << >> /\ v[1] = u.first[p]
  <2>1. CASE k = 0
    BY <1>2, <1>3, <1>6, <1>10, <2>1
  <2>2. CASE k # 0
    BY <1>2, <1>3, <1>6, <1>10, <2>2, NullAssumption
  <2> QED BY <2>1, <2>2
<1>12. u.first[p] # NULL
  BY <1>10, <1>11, NullAssumption
<1>13. ASSUME NEW i \in 1..Len(v)
       PROVE  u.next[v[i]] = IF i = Len(v) THEN NULL ELSE v[i + 1]
  <2>1. CASE i < k
    <3>1. /\ i \in 1..Len(s) /\ k \in 1..Len(s) /\ i + 1 \in 1..Len(v) /\ i # Len(s) /\ i # k
          /\ i # Len(v) /\ i <= k /\ i + 1 <= k
      BY <1>2, <1>10, <2>1
    <3>2. v[i] = s[i] /\ v[i + 1] = s[i + 1] /\ t.next[s[i]] = s[i + 1]
      BY <1>2, <1>10, <3>1
    <3>3. s[i] # refer
      BY <1>2, <1>3, <3>1
    <3> QED BY <1>2, <1>6, <1>9, <3>1, <3>2, <3>3
  <2>2. CASE i = k
    <3>1. i \in 1..Len(s) /\ i + 1 \in 1..Len(v) /\ i # Len(v)
      BY <1>2, <1>10, <2>2
    <3>2. v[i] = refer /\ v[i + 1] = n /\ refer \in Node
      BY <1>2, <1>3, <1>10, <2>2, <3>1
    <3> QED BY <1>6, <3>1, <3>2
  <2>3. CASE i = k + 1
    <3>1. v[i] = n /\ u.next[n] = after
      BY <1>5, <1>6, <1>10, <2>3, <1>2
    <3>2. CASE k = Len(s)
      BY <1>8, <1>10, <2>3, <3>1, <3>2
    <3>3. CASE k # Len(s)
      <4>1. i + 1 \in 1..Len(v) /\ i # Len(v) /\ (i + 1) - 1 = k + 1
        BY <1>2, <1>10, <2>3, <3>3
      <4>2. v[i + 1] = s[k + 1]
        BY <1>2, <1>10, <2>3, <4>1
      <4> QED BY <1>8, <3>1, <3>3, <4>1, <4>2
    <3> QED BY <3>2, <3>3
  <2>4. CASE i > k + 1
    <3>1. i - 1 \in 1..Len(s) /\ i - 1 # k /\ (i - 1) + 1 = i
      BY <1>2, <1>10, <2>4
    <3>2. v[i] = s[i - 1] /\ t.next[s[i - 1]] = IF i - 1 = Len(s) THEN NULL ELSE s[(i - 1) + 1]
      <4>1. ~(i <= k) /\ i # k + 1
        BY <1>2, <2>4
      <4>2. v[i] = s[i - 1]
        BY <1>10, <4>1
      <4> QED BY <1>2, <3>1, <4>2
    <3>3. s[i - 1] # refer
      BY <1>2, <1>3, <3>1, <1>9
    <3>4. u.next[v[i]] = IF i - 1 = Len(s) THEN NULL ELSE s[i]
      BY <1>2, <1>6, <1>9, <3>1, <3>2, <3>3
    <3>5. i = Len(v) <=> i - 1 = Len(s)
      BY <1>2, <1>10
    <3>6. i # Len(v) => v[i + 1] = s[i]
      BY <1>2, <1>10, <2>4
    <3> QED BY <3>4, <3>5, <3>6
  <2> QED BY <1>2, <2>1, <2>2, <2>3, <2>4
<1>14. ChildSeq(u, p) = v
  BY <1>7, <1>10, <1>11, <1>12, <1>13, ChildSeqIs
<1>15. ASSUME NEW q \in Node \ {p} PROVE ChildSeq(u, q) = ChildSeq(t, q)
  <2>1. u.first[q] = t.first[q]
    BY <1>6
  <2>2. ASSUME NEW c \in Node, t.parent[c] = q PROVE u.next[c] = t.next[c]
    <3>1. c # n
      BY <2>2, NullAssumption
    <3>2. c # refer
      BY <1>4, <2>2, NullAssumption DEF ReferenceOK
    <3> QED BY <1>6, <3>1, <3>2
  <2> QED BY <1>7, <2>1, <2>2, ChildSeqSame
<1> QED BY <1>4, <1>7, <1>14, <1>15 DEF u, v, s

\* LastChild() is the last of the list.
LEMMA LastOfSeq ==
    ASSUME NEW t \in Tree, Sound(t), NEW p \in Node
    PROVE  LastChild(t, p) =
             IF ChildSeq(t, p) = << >> THEN NULL ELSE ChildSeq(t, p)[Len(ChildSeq(t, p))]
<1> DEFINE s == ChildSeq(t, p)
<1>1. Lists(t, p, s)
  BY ChildSeqLists
<1> HIDE DEF s
<1>2. CASE s = << >>
  BY <1>1, <1>2 DEF Lists, LastChild, s
<1>3. CASE s # << >>
  <2>1. s \in Seq(Node) /\ Len(s) \in 1..Len(s) /\ t.first[p] # NULL
    BY <1>1, <1>3 DEF Lists
  <2>2. s[Len(s)] \in Node /\ t.parent[s[Len(s)]] = p /\ t.next[s[Len(s)]] = NULL
    BY <1>1, <2>1 DEF Lists
  <2>3. /\ LastChild(t, p) \in Node
        /\ t.parent[LastChild(t, p)] = p
        /\ t.next[LastChild(t, p)] = NULL
    BY <2>1, LastChildType DEF Sound, Linked
  <2>4. s[Len(s)] = LastChild(t, p)
    BY <2>2, <2>3 DEF Sound, Linked, OneLast
  <2> QED BY <1>3, <2>4 DEF s
<1> QED BY <1>2, <1>3

\* Where a child stands.
Place(t, p, c) == CHOOSE i \in 1..Len(ChildSeq(t, p)) : ChildSeq(t, p)[i] = c

LEMMA PlaceIs ==
    ASSUME NEW t \in Tree, Sound(t), NEW p \in Node, NEW c \in Node, t.parent[c] = p
    PROVE  /\ Place(t, p, c) \in 1..Len(ChildSeq(t, p))
           /\ ChildSeq(t, p)[Place(t, p, c)] = c
           /\ \A i \in 1..Len(ChildSeq(t, p)) : ChildSeq(t, p)[i] = c => i = Place(t, p, c)
<1> DEFINE s == ChildSeq(t, p)
<1>1. Lists(t, p, s)
  BY ChildSeqLists
<1> HIDE DEF s
<1>2. \E i \in 1..Len(s) : s[i] = c
  BY <1>1 DEF Lists
<1>3. Place(t, p, c) = CHOOSE i \in 1..Len(s) : s[i] = c
  BY DEF Place, s
<1>4. Place(t, p, c) \in 1..Len(s) /\ s[Place(t, p, c)] = c
  BY <1>2, <1>3
<1>5. \A i \in 1..Len(s) : s[i] = c => i = Place(t, p, c)
  BY <1>1, <1>4 DEF Lists
<1> QED BY <1>4, <1>5 DEF s

\* Where each insertion puts n: behind as many children as the reference says.
Behind(t, p, refer, before) ==
    IF refer = NULL THEN Len(ChildSeq(t, p))
    ELSE Place(t, p, refer) - IF before THEN 1 ELSE 0

LEMMA OthersSeq ==
    ASSUME NEW t \in Tree, Sound(t), NEW p \in Node, NEW n \in Node, NEW refer \in Ptr,
           ReferenceOK(t, p, n, refer), t.parent[n] = NULL
    PROVE  /\ \A before \in BOOLEAN : Behind(t, p, refer, before) \in 0..Len(ChildSeq(t, p))
           /\ LET k == Behind(t, p, refer, FALSE) IN
              InsertOrAppend(t, p, n, refer) =
                InsertAfter(t, p, n, IF k = 0 THEN NULL ELSE ChildSeq(t, p)[k])
           /\ LET k == Behind(t, p, refer, TRUE) IN
              InsertBefore(t, p, n, refer) =
                InsertAfter(t, p, n, IF k = 0 THEN NULL ELSE ChildSeq(t, p)[k])
           /\ LET k == Len(ChildSeq(t, p)) IN
              AddChild(t, p, n) =
                InsertAfter(t, p, n, IF k = 0 THEN NULL ELSE ChildSeq(t, p)[k])
<1> DEFINE s == ChildSeq(t, p)
<1>1. Lists(t, p, s)
  BY ChildSeqLists
<1>2. LastChild(t, p) = IF Len(s) = 0 THEN NULL ELSE s[Len(s)]
  <2>1. s \in Seq(Node)
    BY <1>1 DEF Lists
  <2> QED BY <2>1, LastOfSeq, EmptySeq
<1>3. /\ AddChild(t, p, n) = InsertAfter(t, p, n, LastChild(t, p))
      /\ LET before == IF refer # NULL THEN t.prev[refer] ELSE LastChild(t, p) IN
         InsertBefore(t, p, n, refer) = InsertAfter(t, p, n, before)
  BY OtherInsertions
<1>4. InsertOrAppend(t, p, n, refer) =
        InsertAfter(t, p, n, IF refer # NULL THEN refer ELSE LastChild(t, p))
  BY DEF InsertOrAppend
<1>5. ASSUME refer # NULL
      PROVE  /\ Place(t, p, refer) \in 1..Len(s) /\ s[Place(t, p, refer)] = refer
             /\ refer \in Node
  <2>1. refer \in Node /\ t.parent[refer] = p
    BY <1>5 DEF ReferenceOK
  <2> QED BY <2>1, PlaceIs
<1> DEFINE k == Place(t, p, refer)
<1> HIDE DEF s, k
<1>6. s \in Seq(Node) /\ Len(s) \in Nat
  BY <1>1 DEF Lists
<1>7. CASE refer = NULL
  <2>1. Behind(t, p, refer, TRUE) = Len(s) /\ Behind(t, p, refer, FALSE) = Len(s)
    BY <1>7 DEF Behind, s
  <2>2. \A b \in BOOLEAN : Behind(t, p, refer, b) \in 0..Len(s)
    <3>1. Len(s) \in 0..Len(s)
      BY <1>6
    <3> QED BY <1>7, <3>1 DEF Behind, s
  <2> QED BY <1>2, <1>3, <1>4, <1>7, <2>1, <2>2 DEF s
<1>8. CASE refer # NULL
  <2>1. Behind(t, p, refer, TRUE) = k - 1 /\ Behind(t, p, refer, FALSE) = k
    <3>1. k \in 1..Len(s)
      BY <1>5, <1>8 DEF k
    <3> QED BY <1>6, <1>8, <3>1 DEF Behind, k
  <2>2. k \in 1..Len(s) /\ s[k] = refer
    BY <1>5, <1>8 DEF k
  <2>3. t.prev[s[k]] = IF k = 1 THEN NULL ELSE s[k - 1]
    BY <1>1, <2>2 DEF Lists
  <2>4. /\ t.prev[refer] = IF k - 1 = 0 THEN NULL ELSE s[k - 1]
        /\ k - 1 \in 0..Len(s) /\ k \in 0..Len(s) /\ k # 0
    BY <1>6, <2>2, <2>3
  <2>5. \A b \in BOOLEAN : Behind(t, p, refer, b) \in 0..Len(s)
    BY <2>1, <2>4
  <2> QED BY <1>2, <1>3, <1>4, <1>8, <2>1, <2>2, <2>4, <2>5 DEF s
<1> QED BY <1>7, <1>8

\* Unlinking takes a child out of its list and moves nothing else.
LEMMA UnlinkSeq ==
    ASSUME NEW t \in Tree, Sound(t), NEW n \in Node
    PROVE  /\ Unlink(t, n) \in Tree /\ Sound(Unlink(t, n))
           /\ \A q \in Node : q # t.parent[n] => ChildSeq(Unlink(t, n), q) = ChildSeq(t, q)
           /\ t.parent[n] # NULL =>
                ChildSeq(Unlink(t, n), t.parent[n]) =
                    Seqs!RemoveAt(ChildSeq(t, t.parent[n]), Place(t, t.parent[n], n))
<1> DEFINE p == t.parent[n]
           u == Unlink(t, n)
           s == ChildSeq(t, p)
           k == Place(t, p, n)
           v == Seqs!RemoveAt(s, k)
<1>1. u \in Tree /\ Sound(u)
  <2>1. Within(t, Node)
    BY DEF Within, Tree, Ptr
  <2> QED BY <2>1, UnlinkSound
<1>2. \A x \in Node :
         /\ u.next[x] = IF x = n THEN NULL
                        ELSE IF x = t.prev[n] THEN t.next[n] ELSE t.next[x]
         /\ u.first[x] = IF t.prev[n] = NULL /\ x = p THEN t.next[n] ELSE t.first[x]
  BY UnlinkFields DEF Sound
<1> HIDE DEF u
<1>3. ASSUME NEW q \in Node, q # p PROVE ChildSeq(u, q) = ChildSeq(t, q)
  <2>1. u.first[q] = t.first[q]
    BY <1>2, <1>3
  <2>2. ASSUME NEW c \in Node, t.parent[c] = q PROVE u.next[c] = t.next[c]
    <3>1. c # n
      BY <1>3, <2>2
    <3>2. c # t.prev[n]
      BY <1>3, <2>2 DEF Sound, Linked, SiblingsLinked
    <3> QED BY <1>2, <3>1, <3>2
  <2> QED BY <1>1, <2>1, <2>2, ChildSeqSame
<1>4. ASSUME p # NULL PROVE ChildSeq(u, p) = v
  <2>1. p \in Node
    BY <1>4 DEF Tree, Ptr
  <2>2. Lists(t, p, s)
    BY <2>1, ChildSeqLists
  <2>3. k \in 1..Len(s) /\ s[k] = n
    BY <2>1, PlaceIs
  <2> HIDE DEF s, k
  <2>4. /\ s \in Seq(Node) /\ Len(s) \in Nat
        /\ \A i \in 1..Len(s) :
            /\ s[i] \in Node
            /\ t.prev[s[i]] = IF i = 1 THEN NULL ELSE s[i - 1]
            /\ t.next[s[i]] = IF i = Len(s) THEN NULL ELSE s[i + 1]
        /\ \A i, j \in 1..Len(s) : s[i] = s[j] => i = j
        /\ s # << >> => s[1] = t.first[p]
    <3>1. s \in Seq(Node) /\ Len(s) \in Nat
      BY <2>2 DEF Lists
    <3>2. \A i \in 1..Len(s) : s[i] \in Node
      BY <3>1
    <3> HIDE DEF p
    <3> QED BY <2>2, <3>1, <3>2 DEF Lists
  <2>5. /\ v \in Seq(Node) /\ Len(v) = Len(s) - 1
        /\ \A i \in 1..Len(v) : v[i] = IF i < k THEN s[i] ELSE s[i + 1]
    BY <2>3, <2>4, RemoveAtIs
  <2> HIDE DEF v
  <2>6. /\ t.prev[n] = IF k = 1 THEN NULL ELSE s[k - 1]
        /\ t.next[n] = IF k = Len(s) THEN NULL ELSE s[k + 1]
    BY <2>3, <2>4
  <2>7. u.first[p] = IF k = 1 THEN t.next[n] ELSE s[1]
    <3>1. CASE k = 1
      BY <1>2, <2>1, <2>6, <3>1
    <3>2. CASE k # 1
      <4>1. t.prev[n] # NULL
        <5>1. k - 1 \in 1..Len(s)
          BY <2>3, <2>4, <3>2
        <5>2. s[k - 1] \in Node
          BY <2>4, <5>1
        <5> QED BY <2>6, <3>2, <5>2, NullAssumption
      <4>2. s # << >>
        BY <2>3, <2>4
      <4> QED BY <1>2, <2>1, <2>4, <3>2, <4>1, <4>2
    <3> QED BY <3>1, <3>2
  <2>8. v = << >> <=> u.first[p] = NULL
    <3>1. CASE k = 1 /\ Len(s) = 1
      BY <2>5, <2>6, <2>7, <3>1
    <3>2. CASE ~(k = 1 /\ Len(s) = 1)
      <4>1. Len(v) >= 1 /\ v # << >>
        BY <2>3, <2>4, <2>5, <3>2
      <4>2. u.first[p] \in Node
        <5>1. CASE k = 1
          <6>0. k # Len(s)
            BY <3>2, <5>1
          <6>1. k # Len(s) /\ k + 1 \in 1..Len(s)
            <7>1. k \in 1..Len(s) /\ Len(s) \in Nat
              BY <2>3, <2>4
            <7> QED BY <6>0, <7>1
          <6>2. s[k + 1] \in Node
            BY <2>4, <6>1
          <6> QED BY <2>6, <2>7, <5>1, <6>1, <6>2
        <5>2. CASE k # 1
          <6>1. 1 \in 1..Len(s)
            BY <2>3, <2>4
          <6> QED BY <2>4, <2>7, <5>2, <6>1
        <5> QED BY <5>1, <5>2
      <4> QED BY <4>1, <4>2, NullAssumption
    <3> QED BY <3>1, <3>2
  <2>9. v # << >> => v[1] = u.first[p]
    <3> HAVE v # << >>
    <3>1. 1 \in 1..Len(v) /\ 1 \in 1..Len(s) /\ (k = 1 => k # Len(s))
      BY <2>3, <2>4, <2>5
    <3>2. CASE k = 1
      <4>1. v[1] = s[1 + 1]
        BY <2>5, <3>1, <3>2
      <4> QED BY <2>6, <2>7, <3>1, <3>2, <4>1
    <3>3. CASE k # 1
      <4>1. 1 < k
        BY <2>3, <2>4, <3>3
      <4> QED BY <2>5, <2>7, <3>1, <3>3, <4>1
    <3> QED BY <3>2, <3>3
  <2>10. ASSUME NEW i \in 1..Len(v)
         PROVE  u.next[v[i]] = IF i = Len(v) THEN NULL ELSE v[i + 1]
    <3>0. i \in Nat /\ k \in Nat /\ i >= 1 /\ k >= 1 /\ i <= Len(s) - 1 /\ k <= Len(s)
      BY <2>3, <2>4, <2>5
    <3>1. CASE i < k - 1
      <4>1. /\ i < k /\ i + 1 < k /\ i \in 1..Len(s) /\ i + 1 \in 1..Len(v) /\ i # Len(v)
            /\ i # k /\ i # k - 1 /\ i # Len(s)
        BY <2>4, <2>5, <3>0, <3>1
      <4>2. v[i] = s[i] /\ v[i + 1] = s[i + 1]
        BY <2>5, <4>1
      <4>3. s[i] # n
        BY <2>3, <2>4, <4>1
      <4>4. s[i] # t.prev[n]
        <5>1. k - 1 \in 1..Len(s) /\ k # 1
          BY <3>0, <3>1, <2>4
        <5>2. s[i] # s[k - 1]
          BY <2>4, <4>1, <5>1
        <5> QED BY <2>6, <5>1, <5>2
      <4>5. t.next[s[i]] = s[i + 1] /\ s[i] \in Node
        BY <2>4, <4>1
      <4> QED BY <1>2, <4>1, <4>2, <4>3, <4>4, <4>5
    <3>2. CASE i = k - 1
      <4>1. i < k /\ i \in 1..Len(s) /\ i # k /\ k # 1
        BY <2>4, <3>0, <3>2
      <4>2. v[i] = s[i] /\ s[i] = t.prev[n] /\ s[i] # n /\ s[i] \in Node
        BY <2>3, <2>4, <2>5, <2>6, <3>2, <4>1
      <4>3. u.next[v[i]] = t.next[n]
        BY <1>2, <4>2
      <4>4. CASE k = Len(s)
        BY <2>5, <2>6, <3>0, <3>2, <4>3, <4>4
      <4>5. CASE k # Len(s)
        <5>1. i # Len(v) /\ i + 1 \in 1..Len(v) /\ i + 1 = k
          BY <2>4, <2>5, <3>0, <3>2, <4>5
        <5>2. v[i + 1] = s[k + 1]
          BY <2>5, <5>1, <3>0
        <5> QED BY <2>6, <4>3, <4>5, <5>1, <5>2
      <4> QED BY <4>4, <4>5
    <3>3. CASE i >= k
      <4>1. i + 1 \in 1..Len(s) /\ i + 1 # k /\ i + 1 # k - 1 /\ ~(i < k) /\ ~(i + 1 < k)
        BY <2>4, <3>0, <3>3
      <4>2. v[i] = s[i + 1] /\ s[i + 1] \in Node /\ s[i + 1] # n
        BY <2>3, <2>4, <2>5, <4>1
      <4>3. s[i + 1] # t.prev[n]
        <5>1. CASE k = 1
          BY <2>6, <4>2, <5>1, NullAssumption
        <5>2. CASE k # 1
          <6>1. k - 1 \in 1..Len(s)
            BY <2>4, <3>0, <5>2
          <6>2. s[i + 1] # s[k - 1]
            BY <2>4, <4>1, <6>1
          <6> QED BY <2>6, <5>2, <6>2
        <5> QED BY <5>1, <5>2
      <4>4. u.next[v[i]] = IF i + 1 = Len(s) THEN NULL ELSE s[(i + 1) + 1]
        BY <1>2, <2>4, <4>1, <4>2, <4>3
      <4>5. i = Len(v) <=> i + 1 = Len(s)
        BY <2>4, <2>5, <3>0
      <4>6. i # Len(v) => i + 1 \in 1..Len(v)
        BY <2>4, <2>5, <3>0
      <4>7. i # Len(v) => v[i + 1] = s[(i + 1) + 1]
        BY <2>5, <4>1, <4>6
      <4> QED BY <4>4, <4>5, <4>7
    <3>4. i < k - 1 \/ i = k - 1 \/ i >= k
      BY <3>0
    <3> QED BY <3>1, <3>2, <3>3, <3>4
  <2> QED BY <1>1, <2>1, <2>5, <2>8, <2>9, <2>10, ChildSeqIs
<1> QED BY <1>1, <1>3, <1>4 DEF u

-----------------------------------------------------------------------------
(* Freeing, and exchanging two subtrees. *)

\* A node without a first child has no children.
LEMMA NoChildren ==
    ASSUME NEW t \in Tree, Sound(t), NEW p \in Node, t.first[p] = NULL
    PROVE  ChildSeq(t, p) = << >>
<1> DEFINE s == << >>
<1>1. s \in Seq(Node) /\ s = << >> /\ \A i \in 1..Len(s) : FALSE
  OBVIOUS
<1> HIDE DEF s
<1>2. ChildSeq(t, p) = s
  BY <1>1, ChildSeqIs
<1> QED BY <1>1, <1>2

\* Remove( false ) takes n out of its list and leaves what it frees without lists.
LEMMA RemoveSeq ==
    ASSUME NEW t \in Tree, Sound(t), NEW n \in Node, NEW q \in Node
    PROVE  /\ q \in Deleted(t, n) => ChildSeq(Remove(t, n), q) = << >>
           /\ q \notin Deleted(t, n) =>
                ChildSeq(Remove(t, n), q) =
                    IF q = t.parent[n] THEN Seqs!RemoveAt(ChildSeq(t, q), Place(t, q, n))
                                       ELSE ChildSeq(t, q)
<1> DEFINE S == Deleted(t, n)
           u == Unlink(t, n)
           v == Remove(t, n)
<1>1. /\ u \in Tree /\ Sound(u)
      /\ q # t.parent[n] => ChildSeq(u, q) = ChildSeq(t, q)
      /\ t.parent[n] = q => ChildSeq(u, q) = Seqs!RemoveAt(ChildSeq(t, q), Place(t, q, n))
  BY UnlinkSeq, NullAssumption
<1>2. v = Free(u, S)
  BY RemoveLinksIsUnlink DEF Remove, Sound
<1>3. /\ S \in SUBSET Node
      /\ \A x \in S \ {n} : t.parent[x] \in S
  BY DeletedClosed DEF Sound
<1>4. \A x \in Node : u.parent[x] = IF x = n THEN NULL ELSE t.parent[x]
  BY DEF Unlink, Tree
<1>5. v \in Tree /\ Sound(v)
  <2>1. Within(t, Node)
    BY DEF Within, Tree, Ptr
  <2> QED BY <2>1, RemoveSound
<1> HIDE DEF S, u, v
<1>6. \A x \in Node : /\ v.next[x] = IF x \in S THEN NULL ELSE u.next[x]
                      /\ v.first[x] = IF x \in S THEN NULL ELSE u.first[x]
  BY <1>1, <1>2, <1>3, FreeFields
<1>7. ASSUME q \in S PROVE ChildSeq(v, q) = << >>
  BY <1>5, <1>6, <1>7, NoChildren
<1>8. ASSUME q \notin S PROVE ChildSeq(v, q) = ChildSeq(u, q)
  <2>1. v.first[q] = u.first[q]
    BY <1>6, <1>8
  <2>2. ASSUME NEW c \in Node, u.parent[c] = q PROVE v.next[c] = u.next[c]
    <3>1. c # n
      BY <1>4, <2>2, NullAssumption
    <3>2. c \notin S
      BY <1>3, <1>4, <1>8, <2>2, <3>1
    <3> QED BY <1>6, <3>2
  <2> QED BY <1>1, <1>5, <2>1, <2>2, ChildSeqSame
<1> QED BY <1>1, <1>7, <1>8 DEF S, v

\* What RemoveNexts writes in the fields that make the lists.
LEMMA RemoveNextsFields ==
    ASSUME NEW t \in Tree, Sound(t), NEW n \in Node, NEW D, D = DeletedNexts(t, n)
    PROVE  \A x \in Node :
             /\ RemoveNexts(t, n).next[x] =
                    IF x \in D \/ x = t.prev[n] THEN NULL ELSE t.next[x]
             /\ RemoveNexts(t, n).first[x] =
                    IF x \in D \/ (x = t.parent[n] /\ t.first[x] = n) THEN NULL ELSE t.first[x]
<1> DEFINE p == t.parent[n]
           q == t.prev[n]
           u == [parent |-> t.parent, prev |-> t.prev, next |-> Put(t.next, q, NULL),
                 first |-> IF p # NULL /\ t.first[p] = n
                           THEN [t.first EXCEPT ![p] = NULL] ELSE t.first]
<1>1. D \in SUBSET Node
  BY DeletedNextsLeast
<1>2. /\ t.parent \in [Node -> Ptr] /\ t.prev \in [Node -> Ptr]
      /\ t.next \in [Node -> Ptr] /\ t.first \in [Node -> Ptr]
      /\ p \in Ptr /\ q \in Ptr /\ NULL \in Ptr
  BY DEF Tree, Ptr
<1>3. u \in Tree
  <2>1. Put(t.next, q, NULL) \in [Node -> Ptr]
    BY <1>2, PutType
  <2> QED BY <1>2, <2>1 DEF Tree
<1>4. \A x \in Node :
          /\ u.next[x] = IF x = q THEN NULL ELSE t.next[x]
          /\ u.first[x] = IF x = p /\ t.first[x] = n THEN NULL ELSE t.first[x]
  BY <1>2, NullAssumption DEF Put, Ptr
<1>5. RemoveNexts(t, n) = Free(u, D)
  BY DEF RemoveNexts
<1> HIDE DEF u
<1>6. \A x \in Node :
        /\ RemoveNexts(t, n).next[x] = IF x \in D THEN NULL ELSE u.next[x]
        /\ RemoveNexts(t, n).first[x] = IF x \in D THEN NULL ELSE u.first[x]
  BY <1>1, <1>3, <1>5, FreeFields
<1> QED BY <1>4, <1>6

\* In the list of n, what Remove( true ) frees is n and those behind it.
LEMMA DeletedNextsOfList ==
    ASSUME NEW t \in Tree, Sound(t), NEW n \in Node, NEW p \in Node, t.parent[n] = p
    PROVE  \A i \in 1..Len(ChildSeq(t, p)) :
             ChildSeq(t, p)[i] \in DeletedNexts(t, n) <=> i >= Place(t, p, n)
<1> DEFINE s == ChildSeq(t, p)
           k == Place(t, p, n)
           D == DeletedNexts(t, n)
<1>1. Lists(t, p, s)
  BY ChildSeqLists
<1>2. k \in 1..Len(s) /\ s[k] = n
  BY PlaceIs
<1>3. /\ n \in D /\ p \notin D
      /\ \A x \in D : t.next[x] # NULL => t.next[x] \in D
      /\ \A x \in D \ {n} : t.prev[x] = NULL => t.parent[x] \in D
      /\ \A x \in D \ {n} : t.prev[x] # NULL => t.prev[x] \in D
  BY DeletedNextsClosed DEF Sound
<1> HIDE DEF s, k, D
<1>4. /\ s \in Seq(Node) /\ Len(s) \in Nat
      /\ \A i \in 1..Len(s) : s[i] \in Node /\ s[i] # NULL
  <2>1. s \in Seq(Node) /\ Len(s) \in Nat
    BY <1>1 DEF Lists
  <2> QED BY <2>1, NullAssumption
<1>5. \A i \in 1..Len(s) :
        /\ t.parent[s[i]] = p
        /\ t.prev[s[i]] = IF i = 1 THEN NULL ELSE s[i - 1]
        /\ t.next[s[i]] = IF i = Len(s) THEN NULL ELSE s[i + 1]
  BY <1>1 DEF Lists
<1>6. \A i, j \in 1..Len(s) : s[i] = s[j] => i = j
  BY <1>1 DEF Lists
<1>7. \A i \in 1..Len(s) : i < k => s[i] \notin D
  <2> DEFINE G == {i \in 1..Len(s) : i < k => s[i] \notin D}
  <2>1. 1 \in G
    <3>1. 1 \in 1..Len(s)
      BY <1>2, <1>4
    <3>2. ASSUME 1 < k, s[1] \in D PROVE FALSE
      <4>1. s[1] # n /\ t.prev[s[1]] = NULL /\ t.parent[s[1]] = p
        BY <1>2, <1>5, <1>6, <3>1, <3>2
      <4> QED BY <1>3, <3>2, <4>1
    <3> QED BY <3>1, <3>2
  <2>2. \A i \in 1..Len(s) : i < Len(s) /\ i \in G => i + 1 \in G
    <3> TAKE i \in 1..Len(s)
    <3> HAVE i < Len(s) /\ i \in G
    <3>1. i + 1 \in 1..Len(s) /\ i + 1 # 1 /\ (i + 1) - 1 = i
      BY <1>4
    <3>2. ASSUME i + 1 < k, s[i + 1] \in D PROVE FALSE
      <4>1. s[i + 1] # n
        BY <1>2, <1>6, <3>1, <3>2
      <4>2. t.prev[s[i + 1]] = s[i]
        BY <1>5, <3>1
      <4>3. s[i] \in D
        BY <1>3, <1>4, <3>2, <4>1, <4>2
      <4>4. i < k
        BY <1>2, <1>4, <3>2
      <4> QED BY <4>3, <4>4
    <3> QED BY <3>1, <3>2
  <2> HIDE DEF G
  <2>3. \A i \in 1..Len(s) : i \in G
    BY <1>4, <2>1, <2>2, Upwards
  <2> QED BY <2>3 DEF G
<1>8. \A i \in 1..Len(s) : i >= k => s[i] \in D
  <2> DEFINE G == {i \in 1..Len(s) : i >= k => s[i] \in D}
  <2>1. 1 \in G
    <3>1. 1 \in 1..Len(s)
      BY <1>2, <1>4
    <3>2. ASSUME 1 >= k PROVE s[1] \in D
      <4>1. k = 1
        BY <1>2, <3>2
      <4> QED BY <1>2, <1>3, <4>1
    <3> QED BY <3>1, <3>2
  <2>2. \A i \in 1..Len(s) : i < Len(s) /\ i \in G => i + 1 \in G
    <3> TAKE i \in 1..Len(s)
    <3> HAVE i < Len(s) /\ i \in G
    <3>1. i + 1 \in 1..Len(s) /\ i # Len(s)
      BY <1>4
    <3>2. ASSUME i + 1 >= k PROVE s[i + 1] \in D
      <4>1. CASE i + 1 = k
        BY <1>2, <1>3, <4>1
      <4>2. CASE i + 1 # k
        <5>1. i >= k
          BY <1>2, <1>4, <3>2, <4>2
        <5>2. s[i] \in D
          BY <5>1
        <5>3. t.next[s[i]] = s[i + 1]
          BY <1>5, <3>1
        <5> QED BY <1>3, <1>4, <3>1, <5>2, <5>3
      <4> QED BY <4>1, <4>2
    <3> QED BY <3>1, <3>2
  <2> HIDE DEF G
  <2>3. \A i \in 1..Len(s) : i \in G
    BY <1>4, <2>1, <2>2, Upwards
  <2> QED BY <2>3 DEF G
<1>9. \A i \in 1..Len(s) : s[i] \in D <=> i >= k
  <2> TAKE i \in 1..Len(s)
  <2>1. i < k \/ i >= k
    BY <1>2, <1>4
  <2>2. ~(i < k /\ i >= k)
    BY <1>2, <1>4
  <2> QED BY <1>7, <1>8, <2>1, <2>2
<1> QED BY <1>9 DEF s, k, D

\* Remove( true ) leaves of n's list what is before n.
LEMMA RemoveNextsSeq ==
    ASSUME NEW t \in Tree, Sound(t), NEW n \in Node, NEW q \in Node
    PROVE  /\ q \in DeletedNexts(t, n) => ChildSeq(RemoveNexts(t, n), q) = << >>
           /\ q \notin DeletedNexts(t, n) =>
                ChildSeq(RemoveNexts(t, n), q) =
                    IF q = t.parent[n] THEN SubSeq(ChildSeq(t, q), 1, Place(t, q, n) - 1)
                                       ELSE ChildSeq(t, q)
<1> DEFINE D == DeletedNexts(t, n)
           v == RemoveNexts(t, n)
           p == t.parent[n]
<1>1. /\ D \in SUBSET Node /\ n \in D /\ p \notin D
      /\ \A x \in D : t.parent[x] \in D \/ t.parent[x] = p
  BY DeletedNextsClosed DEF Sound
<1>2. \A x \in Node :
         /\ v.next[x] = IF x \in D \/ x = t.prev[n] THEN NULL ELSE t.next[x]
         /\ v.first[x] = IF x \in D \/ (x = p /\ t.first[x] = n) THEN NULL ELSE t.first[x]
  BY RemoveNextsFields
<1>3. v \in Tree /\ Sound(v)
  BY RemoveNextsSound DEF Sound
<1> HIDE DEF v, D
<1>4. ASSUME q \in D PROVE ChildSeq(v, q) = << >>
  BY <1>2, <1>3, <1>4, NoChildren
<1>5. ASSUME q \notin D, q # p PROVE ChildSeq(v, q) = ChildSeq(t, q)
  <2>1. v.first[q] = t.first[q]
    BY <1>2, <1>5
  <2>2. ASSUME NEW c \in Node, t.parent[c] = q PROVE v.next[c] = t.next[c]
    <3>1. c \notin D
      BY <1>1, <1>5, <2>2
    <3>2. c # t.prev[n]
      BY <1>5, <2>2 DEF Sound, Linked, SiblingsLinked
    <3> QED BY <1>2, <3>1, <3>2
  <2> QED BY <1>3, <2>1, <2>2, ChildSeqSame
<1>6. ASSUME q \notin D, q = p PROVE ChildSeq(v, q) = SubSeq(ChildSeq(t, q), 1, Place(t, q, n) - 1)
  <2> DEFINE s == ChildSeq(t, q)
             k == Place(t, q, n)
             w == SubSeq(s, 1, k - 1)
  <2>1. Lists(t, q, s)
    BY ChildSeqLists
  <2>2. k \in 1..Len(s) /\ s[k] = n
    BY <1>6, PlaceIs
  <2>3. \A i \in 1..Len(s) : s[i] \in D <=> i >= k
    BY <1>6, DeletedNextsOfList DEF D
  <2> HIDE DEF s, k
  <2>4. /\ s \in Seq(Node) /\ Len(s) \in Nat
        /\ \A i \in 1..Len(s) : s[i] \in Node /\ s[i] # NULL
    <3>1. s \in Seq(Node) /\ Len(s) \in Nat
      BY <2>1 DEF Lists
    <3> QED BY <3>1, NullAssumption
  <2>5. /\ \A i \in 1..Len(s) :
            /\ t.prev[s[i]] = IF i = 1 THEN NULL ELSE s[i - 1]
            /\ t.next[s[i]] = IF i = Len(s) THEN NULL ELSE s[i + 1]
        /\ \A i, j \in 1..Len(s) : s[i] = s[j] => i = j
        /\ s # << >> => s[1] = t.first[q]
    BY <2>1 DEF Lists
  <2>6. /\ w \in Seq(Node) /\ Len(w) = k - 1
        /\ \A i \in 1..(k - 1) : w[i] = s[i]
    BY <2>2, <2>4
  <2> HIDE DEF w
  <2>7. t.first[q] = s[1] /\ 1 \in 1..Len(s)
    <3>1. 1 \in 1..Len(s)
      BY <2>2, <2>4
    <3>2. s # << >>
      BY <2>4, <3>1
    <3> QED BY <2>5, <3>1, <3>2
  <2>8. CASE k = 1
    <3>1. v.first[q] = NULL
      BY <1>2, <1>6, <2>2, <2>7, <2>8
    <3>2. w = << >>
      BY <2>6, <2>8
    <3>3. ChildSeq(v, q) = w
      BY <1>3, <3>1, <3>2, NoChildren
    <3> QED BY <3>3 DEF w, s, k
  <2>9. CASE k # 1
    <3>1. s[1] # n
      BY <2>2, <2>5, <2>7, <2>9
    <3>2. v.first[q] = s[1] /\ s[1] # NULL
      BY <1>2, <1>6, <2>4, <2>7, <3>1
    <3>3. k - 1 \in 1..Len(s) /\ 1 \in 1..(k - 1)
      BY <2>2, <2>4, <2>9
    <3>4. w # << >> /\ w[1] = v.first[q]
      BY <2>6, <3>2, <3>3
    <3>5. t.prev[n] = s[k - 1]
      BY <2>2, <2>5, <2>9
    <3>6. ASSUME NEW i \in 1..Len(w) PROVE v.next[w[i]] = IF i = Len(w) THEN NULL ELSE w[i + 1]
      <4>1. i \in 1..(k - 1) /\ i \in 1..Len(s) /\ i < k /\ i # Len(s) /\ ~(i >= k)
        BY <2>2, <2>4, <2>6, <3>6
      <4>2. w[i] = s[i] /\ s[i] \in Node /\ s[i] \notin D /\ t.next[s[i]] = s[i + 1]
        BY <2>3, <2>4, <2>5, <2>6, <4>1
      <4>3. CASE i = k - 1
        BY <1>2, <2>6, <3>5, <4>2, <4>3
      <4>4. CASE i # k - 1
        <5>1. s[i] # t.prev[n]
          BY <2>5, <3>3, <3>5, <4>1, <4>4
        <5>2. i + 1 \in 1..(k - 1) /\ i # Len(w)
          BY <2>2, <2>4, <2>6, <4>1, <4>4
        <5> QED BY <1>2, <2>6, <4>2, <5>1, <5>2
      <4> QED BY <4>3, <4>4
    <3>7. ChildSeq(v, q) = w
      BY <1>3, <2>6, <3>2, <3>4, <3>6, ChildSeqIs
    <3> QED BY <3>7 DEF w, s, k
  <2> QED BY <2>8, <2>9
<1> QED BY <1>4, <1>5, <1>6 DEF D, v

\* l and r take each other's name.
Other(l, r, x) == IF x = l THEN r ELSE IF x = r THEN l ELSE x

\* What Swap writes in the fields that make the lists.
LEMMA SwapFields ==
    ASSUME NEW t \in Tree, Sound(t), NEW l \in Node, NEW r \in Node,
           ~AncestorOrSelf(t, l, r), ~AncestorOrSelf(t, r, l),
           t.prev[l] # r, t.prev[r] # l
    PROVE  \A x \in Node :
             /\ Swap(t, l, r).next[x] = Other(l, r, t.next[Other(l, r, x)])
             /\ Swap(t, l, r).first[x] = Other(l, r, t.first[x])
<1> DEFINE lp == t.parent[l]
           rp == t.parent[r]
           lb == t.prev[l]
           rb == t.prev[r]
           la == t.next[l]
           ra == t.next[r]
           t1 == Unlink(t, l)
           t2 == Unlink(t1, r)
           t3 == IF lp # NULL THEN InsertAfter(t2, lp, r, lb) ELSE t2
<1>1. l # r
  BY DEF AncestorOrSelf
<1>2. /\ lp \in Ptr /\ rp \in Ptr /\ lb \in Ptr /\ rb \in Ptr /\ la \in Ptr /\ ra \in Ptr
      /\ l # NULL /\ r # NULL
  BY NullAssumption DEF Tree, Ptr
<1>3. /\ lb # l /\ la # l /\ rb # r /\ ra # r
  BY UnlinkFields DEF Sound
<1>4. /\ lb # r /\ rb # l /\ la # r /\ ra # l
  BY <1>1, <1>2 DEF Sound, Linked, SiblingsLinked
<1>5. /\ lb # NULL => t.next[lb] = l /\ t.parent[lb] = lp
      /\ rb # NULL => t.next[rb] = r /\ t.parent[rb] = rp
      /\ la # NULL => t.prev[la] = l
      /\ ra # NULL => t.prev[ra] = r
      /\ lb = rb => lb = NULL
      /\ la = ra => la = NULL
  BY <1>1, <1>2 DEF Sound, Linked, SiblingsLinked, Ptr
<1>6. /\ lp = NULL => lb = NULL /\ la = NULL
      /\ rp = NULL => rb = NULL /\ ra = NULL
  BY DEF Sound, Linked, RootsUnlinked
<1>7. \A x \in Node :
        /\ t.first[x] = l <=> (x = lp /\ lb = NULL)
        /\ t.first[x] = r <=> (x = rp /\ rb = NULL)
  BY DEF Sound, Linked, FirstLinked
<1>8. \A x \in Node :
        /\ t.next[x] = l <=> x = lb
        /\ t.next[x] = r <=> x = rb
  BY DEF Sound, Linked, SiblingsLinked
<1>9. t1 \in Tree /\ Sound(t1) /\ t2 \in Tree /\ Sound(t2)
  <2>1. t1 \in Tree /\ Sound(t1)
    BY UnlinkSeq
  <2> HIDE DEF t1
  <2> QED BY <2>1, UnlinkSeq
<1>10. \A x \in Node :
         /\ t1.parent[x] = IF x = l THEN NULL ELSE t.parent[x]
         /\ t1.prev[x] = IF x = l THEN NULL ELSE IF x = la THEN lb ELSE t.prev[x]
         /\ t1.next[x] = IF x = l THEN NULL ELSE IF x = lb THEN la ELSE t.next[x]
         /\ t1.first[x] = IF lb = NULL /\ x = lp THEN la ELSE t.first[x]
  BY UnlinkFields DEF Sound
<1> HIDE DEF t1
<1>11. t1.prev[r] = rb /\ t1.next[r] = ra /\ t1.parent[r] = rp
  BY <1>1, <1>4, <1>10
<1>12. \A x \in Node :
         /\ t2.parent[x] = IF x = r THEN NULL ELSE t1.parent[x]
         /\ t2.next[x] = IF x = r THEN NULL ELSE IF x = rb THEN ra ELSE t1.next[x]
         /\ t2.first[x] = IF rb = NULL /\ x = rp THEN ra ELSE t1.first[x]
  BY <1>9, <1>11, UnlinkFields DEF Sound
<1> HIDE DEF t2
<1>13. \A x \in Node :
         /\ t2.next[x] = IF x = l \/ x = r THEN NULL
                         ELSE IF x = rb THEN ra ELSE IF x = lb THEN la ELSE t.next[x]
         /\ t2.first[x] = IF rb = NULL /\ x = rp THEN ra
                          ELSE IF lb = NULL /\ x = lp THEN la ELSE t.first[x]
  <2> TAKE x \in Node
  <2>1. CASE x = l
    <3>1. x # r /\ x # rb
      BY <1>1, <1>4, <2>1
    <3> QED BY <1>10, <1>12, <2>1, <3>1
  <2>2. CASE x # l
    BY <1>10, <1>12, <2>2
  <2> QED BY <2>1, <2>2
<1> HIDE DEF lp, rp, lb, rb, la, ra
<1>14. /\ lb = NULL /\ rb = NULL /\ lp = rp => lp = NULL
  BY <1>1, <1>2, <1>7 DEF Ptr
<1>15. /\ t3 \in Tree
       /\ \A x \in Node :
            /\ t3.next[x] = IF lp # NULL /\ x = lb THEN r
                            ELSE IF x = r THEN la ELSE t2.next[x]
            /\ t3.first[x] = IF lp # NULL /\ lb = NULL /\ x = lp THEN r ELSE t2.first[x]
  <2>1. CASE lp = NULL
    BY <1>6, <1>9, <1>13, <2>1
  <2>2. CASE lp # NULL
    <3>1. lp \in Node
      BY <1>2, <2>2 DEF Ptr
    <3> DEFINE after == IF lb # NULL THEN t2.next[lb] ELSE t2.first[lp]
    <3>2. after = la
      <4>1. CASE lb # NULL
        <5>1. lb \in Node
          BY <1>2, <4>1 DEF Ptr
        <5> QED BY <1>3, <1>4, <1>5, <1>13, <4>1, <5>1
      <4>2. CASE lb = NULL
        BY <1>13, <1>14, <2>2, <3>1, <4>2
      <4> QED BY <4>1, <4>2
    <3>3. after \in Ptr /\ after # r /\ lb # r
      BY <1>2, <1>4, <3>2
    <3>4. t3 = InsertAfter(t2, lp, r, lb)
      BY <2>2
    <3>5. t3 \in Tree
      BY <1>2, <1>9, <3>1, <3>4, InsertAfterType
    <3>6. \A x \in Node :
             /\ t3.next[x] = IF x = lb THEN r ELSE IF x = r THEN after ELSE t2.next[x]
             /\ t3.first[x] = IF lb = NULL /\ x = lp THEN r ELSE t2.first[x]
      BY <1>2, <1>9, <3>1, <3>3, <3>4, InsertAfterFields
    <3> QED BY <2>2, <3>2, <3>5, <3>6
  <2> QED BY <2>1, <2>2
<1>16. Swap(t, l, r) = IF rp # NULL THEN InsertAfter(t3, rp, l, rb) ELSE t3
  BY DEF Swap, t1, t2, lp, rp, lb, rb
<1> DEFINE t4 == Swap(t, l, r)
<1> HIDE DEF t3, t4
<1>17. \A x \in Node :
            /\ t4.next[x] = IF rp # NULL /\ x = rb THEN l
                            ELSE IF x = l THEN ra ELSE t3.next[x]
            /\ t4.first[x] = IF rp # NULL /\ rb = NULL /\ x = rp THEN l ELSE t3.first[x]
  <2>1. CASE rp = NULL
    <3>1. t3.next[l] = NULL
      BY <1>1, <1>2, <1>3, <1>13, <1>15
    <3> QED BY <1>6, <1>16, <2>1, <3>1 DEF t4
  <2>2. CASE rp # NULL
    <3>1. rp \in Node
      BY <1>2, <2>2 DEF Ptr
    <3> DEFINE after == IF rb # NULL THEN t3.next[rb] ELSE t3.first[rp]
    <3>2. after = ra
      <4>1. CASE rb # NULL
        <5>1. rb \in Node /\ rb # lb /\ rb # r /\ rb # l
          BY <1>2, <1>3, <1>4, <1>5, <4>1 DEF Ptr
        <5> QED BY <1>13, <1>15, <4>1, <5>1
      <4>2. CASE rb = NULL
        <5>1. ~(lp # NULL /\ lb = NULL /\ rp = lp)
          BY <1>14, <4>2
        <5>2. t3.first[rp] = t2.first[rp]
          BY <1>15, <3>1, <5>1
        <5> QED BY <1>13, <3>1, <4>2, <5>2
      <4> QED BY <4>1, <4>2
    <3>3. after \in Ptr /\ after # l /\ rb # l
      BY <1>2, <1>4, <3>2
    <3>4. t4 = InsertAfter(t3, rp, l, rb)
      BY <1>16, <2>2 DEF t4
    <3>5. \A x \in Node :
             /\ t4.next[x] = IF x = rb THEN l ELSE IF x = l THEN after ELSE t3.next[x]
             /\ t4.first[x] = IF rb = NULL /\ x = rp THEN l ELSE t3.first[x]
      <4>1. t3 \in Tree /\ rb \in Ptr
        BY <1>2, <1>15
      <4> QED BY <4>1, <3>1, <3>3, <3>4, InsertAfterFields
    <3> QED BY <2>2, <3>2, <3>5
  <2> QED BY <2>1, <2>2
<1>18. ASSUME NEW x \in Node PROVE t4.next[x] = Other(l, r, t.next[Other(l, r, x)])
  <2>0. x # NULL
    BY NullAssumption
  <2>1. CASE x = l
    <3>1. t4.next[x] = ra /\ Other(l, r, x) = r
      BY <1>4, <1>17, <2>1 DEF Other
    <3>2. t.next[r] = ra
      BY DEF ra
    <3> QED BY <1>3, <1>4, <3>1, <3>2 DEF Other
  <2>2. CASE x = r
    <3>1. t4.next[x] = la /\ Other(l, r, x) = l
      BY <1>1, <1>3, <1>4, <1>15, <1>17, <2>2 DEF Other
    <3>2. t.next[l] = la
      BY DEF la
    <3> QED BY <1>3, <1>4, <3>1, <3>2 DEF Other
  <2>3. CASE x # l /\ x # r
    <3>1. Other(l, r, x) = x
      BY <2>3 DEF Other
    <3>2. CASE x = rb
      BY <1>1, <1>6, <1>8, <1>17, <2>0, <3>1, <3>2 DEF Other
    <3>3. CASE x = lb /\ x # rb
      BY <1>6, <1>8, <1>15, <1>17, <2>0, <2>3, <3>1, <3>3 DEF Other
    <3>4. CASE x # lb /\ x # rb
      BY <1>8, <1>13, <1>15, <1>17, <2>3, <3>1, <3>4 DEF Other
    <3> QED BY <3>2, <3>3, <3>4
  <2> QED BY <2>1, <2>2, <2>3
<1>19. ASSUME NEW x \in Node PROVE t4.first[x] = Other(l, r, t.first[x])
  <2>0. x # NULL
    BY NullAssumption
  <2>1. CASE rb = NULL /\ x = rp
    BY <1>1, <1>7, <1>17, <2>0, <2>1 DEF Other
  <2>2. CASE ~(rb = NULL /\ x = rp) /\ lb = NULL /\ x = lp
    BY <1>7, <1>15, <1>17, <2>0, <2>2 DEF Other
  <2>3. CASE ~(rb = NULL /\ x = rp) /\ ~(lb = NULL /\ x = lp)
    BY <1>7, <1>13, <1>15, <1>17, <2>3 DEF Other
  <2> QED BY <2>1, <2>2, <2>3
<1> QED BY <1>18, <1>19 DEF t4

\* Swap exchanges l and r in the lists they are in.
LEMMA SwapSeq ==
    ASSUME NEW t \in Tree, Sound(t), NEW l \in Node, NEW r \in Node,
           ~AncestorOrSelf(t, l, r), ~AncestorOrSelf(t, r, l),
           t.prev[l] # r, t.prev[r] # l, NEW p \in Node
    PROVE  ChildSeq(Swap(t, l, r), p) =
               [i \in DOMAIN ChildSeq(t, p) |-> Other(l, r, ChildSeq(t, p)[i])]
<1> DEFINE s == ChildSeq(t, p)
           u == Swap(t, l, r)
           w == [i \in DOMAIN s |-> Other(l, r, s[i])]
<1>1. Lists(t, p, s)
  BY ChildSeqLists
<1>2. u \in Tree /\ Sound(u)
  <2>1. Within(t, Node)
    BY DEF Within, Tree, Ptr
  <2> QED BY <2>1, SwapSound
<1>3. \A x \in Node : /\ u.next[x] = Other(l, r, t.next[Other(l, r, x)])
                      /\ u.first[x] = Other(l, r, t.first[x])
  BY SwapFields
<1> HIDE DEF s, u
<1>4. /\ s \in Seq(Node) /\ Len(s) \in Nat /\ DOMAIN s = 1..Len(s)
      /\ \A i \in 1..Len(s) : s[i] \in Node
  <2>1. s \in Seq(Node)
    BY <1>1 DEF Lists
  <2> QED BY <2>1
<1>5. /\ \A i \in 1..Len(s) : t.next[s[i]] = IF i = Len(s) THEN NULL ELSE s[i + 1]
      /\ s = << >> <=> t.first[p] = NULL
      /\ s # << >> => s[1] = t.first[p]
  BY <1>1 DEF Lists
<1>6. \A x \in Node : Other(l, r, x) \in Node /\ Other(l, r, Other(l, r, x)) = x
  BY DEF Other
<1>7. Other(l, r, NULL) = NULL
  BY NullAssumption DEF Other
<1>8. /\ w \in Seq(Node) /\ Len(w) = Len(s)
      /\ \A i \in 1..Len(s) : w[i] = Other(l, r, s[i])
  <2>1. w = [i \in 1..Len(s) |-> Other(l, r, s[i])]
    BY <1>4
  <2>2. \A i \in 1..Len(s) : Other(l, r, s[i]) \in Node
    BY <1>4, <1>6
  <2> QED BY <1>4, <2>1, <2>2
<1> HIDE DEF w
<1>9. w = << >> <=> u.first[p] = NULL
  <2>1. w = << >> <=> s = << >>
    BY <1>4, <1>8
  <2>2. t.first[p] = NULL <=> Other(l, r, t.first[p]) = NULL
    BY NullAssumption DEF Other
  <2> QED BY <1>3, <1>5, <2>1, <2>2
<1>10. w # << >> => w[1] = u.first[p]
  <2> HAVE w # << >>
  <2>1. 1 \in 1..Len(s) /\ s # << >>
    BY <1>4, <1>8
  <2> QED BY <1>3, <1>5, <1>8, <2>1
<1>11. ASSUME NEW i \in 1..Len(w) PROVE u.next[w[i]] = IF i = Len(w) THEN NULL ELSE w[i + 1]
  <2>1. i \in 1..Len(s) /\ s[i] \in Node /\ w[i] = Other(l, r, s[i])
    BY <1>4, <1>8
  <2>2. u.next[w[i]] = Other(l, r, t.next[s[i]])
    BY <1>3, <1>6, <2>1
  <2>3. CASE i = Len(s)
    BY <1>5, <1>7, <1>8, <2>1, <2>2, <2>3
  <2>4. CASE i # Len(s)
    <3>1. i + 1 \in 1..Len(s)
      <4>1. Len(s) \in Nat /\ i \in 1..Len(s)
        BY <1>4, <2>1
      <4> QED BY <2>4, <4>1
    <3>2. w[i + 1] = Other(l, r, s[i + 1])
      BY <1>8, <3>1
    <3> QED BY <1>5, <1>8, <2>1, <2>2, <2>4, <3>2
  <2> QED BY <2>3, <2>4
<1>12. ChildSeq(u, p) = w
  BY <1>2, <1>8, <1>9, <1>10, <1>11, ChildSeqIs
<1> QED BY <1>12 DEF u, w, s

-----------------------------------------------------------------------------
(* Subtrees: what hangs below a node by its children's parent pointers.    *)

Down(t, n) ==
    {x \in Node : \A T \in SUBSET Node :
        (n \in T /\ \A c \in Node : t.parent[c] \in T => c \in T) => x \in T}

LEMMA DownClosed ==
    ASSUME NEW t, NEW n \in Node
    PROVE  /\ Down(t, n) \in SUBSET Node /\ n \in Down(t, n)
           /\ \A c \in Node : t.parent[c] \in Down(t, n) => c \in Down(t, n)
           /\ \A T \in SUBSET Node :
                (n \in T /\ \A c \in Node : t.parent[c] \in T => c \in T) => Down(t, n) \subseteq T
<1> DEFINE D == Down(t, n)
           Closed(T) == n \in T /\ \A c \in Node : t.parent[c] \in T => c \in T
<1>1. \A x : x \in D <=> x \in Node /\ \A T \in SUBSET Node : Closed(T) => x \in T
  BY DEF Down
<1> HIDE DEF D
<1>2. D \in SUBSET Node
  BY <1>1
<1>3. n \in D
  BY <1>1
<1>4. ASSUME NEW c \in Node, t.parent[c] \in D PROVE c \in D
  <2>1. ASSUME NEW T \in SUBSET Node, Closed(T) PROVE c \in T
    <3>1. t.parent[c] \in T
      BY <1>1, <1>4, <2>1
    <3> QED BY <2>1, <3>1
  <2> QED BY <1>1, <2>1
<1>5. ASSUME NEW T \in SUBSET Node, Closed(T) PROVE D \subseteq T
  BY <1>1, <1>5
<1> QED BY <1>2, <1>3, <1>4, <1>5 DEF D

\* The destructor frees the subtree.
LEMMA DeletedIsDown ==
    ASSUME NEW t \in Tree, Sound(t), NEW n \in Node
    PROVE  Deleted(t, n) = Down(t, n)
<1> DEFINE E == Deleted(t, n)
           D == Down(t, n)
<1>1. /\ E \in SUBSET Node /\ n \in E
      /\ \A c \in Node : t.parent[c] \in E => c \in E
  BY DeletedClosed DEF Sound
<1>2. D \subseteq E
  BY <1>1, DownClosed
<1>3. /\ D \in SUBSET Node /\ n \in D
      /\ \A c \in Node : t.parent[c] \in D => c \in D
  BY DownClosed
<1> HIDE DEF D
<1> DEFINE T == {x \in D : x = n \/ t.parent[x] \in D}
<1>4. ClosedUnderDelete(t, n, T)
  <2>1. n \in T
    BY <1>3
  <2>2. ASSUME NEW x \in T, t.first[x] # NULL PROVE t.first[x] \in T
    <3>1. t.first[x] \in Node /\ x \in Node /\ x \in D
      BY <1>3, <2>2 DEF Tree, Ptr
    <3>2. t.parent[t.first[x]] = x
      BY <3>1 DEF Sound, Linked, FirstLinked
    <3> QED BY <1>3, <3>1, <3>2
  <2>3. ASSUME NEW x \in T \ {n}, t.next[x] # NULL PROVE t.next[x] \in T
    <3>1. t.next[x] \in Node /\ x \in Node /\ t.parent[x] \in D
      BY <1>3, <2>3 DEF Tree, Ptr
    <3>2. t.parent[t.next[x]] = t.parent[x]
      BY <3>1 DEF Sound, Linked, SiblingsLinked
    <3> QED BY <1>3, <3>1, <3>2
  <2> QED BY <2>1, <2>2, <2>3 DEF ClosedUnderDelete
<1>5. T \in SUBSET Node
  BY <1>3
<1>6. E \subseteq T
  BY <1>4, <1>5 DEF Deleted
<1> QED BY <1>2, <1>6 DEF D

\* Remove( true ) frees the subtrees of n and of the siblings behind it.
LEMMA DeletedNextsIsDown ==
    ASSUME NEW t \in Tree, Sound(t), NEW n \in Node, NEW R \in SUBSET DeletedNexts(t, n),
           n \in R, \A x \in R : t.next[x] # NULL => t.next[x] \in R
    PROVE  DeletedNexts(t, n) = UNION {Down(t, x) : x \in R}
<1> DEFINE E == DeletedNexts(t, n)
           U == UNION {Down(t, x) : x \in R}
<1>1. /\ E \in SUBSET Node
      /\ \A c \in Node : t.parent[c] \in E => c \in E
  BY DeletedNextsClosed DEF Sound
<1>2. U \subseteq E
  <2> SUFFICES ASSUME NEW x \in R PROVE Down(t, x) \subseteq E
    OBVIOUS
  <2>1. x \in E /\ x \in Node
    BY <1>1
  <2> QED BY <1>1, <2>1, DownClosed
<1>3. U \in SUBSET Node
  BY <1>1, <1>2
<1>4. ClosedUnderNexts(t, n, U)
  <2>1. n \in U
    BY DownClosed
  <2>2. ASSUME NEW x \in U, t.first[x] # NULL PROVE t.first[x] \in U
    <3>1. PICK y \in R : x \in Down(t, y)
      BY <2>2
    <3>2. y \in Node /\ x \in Node
      BY <1>1, <1>3, <2>2
    <3>3. t.first[x] \in Node
      BY <2>2, <3>2 DEF Tree, Ptr
    <3>4. t.parent[t.first[x]] = x
      BY <3>2, <3>3 DEF Sound, Linked, FirstLinked
    <3>5. t.first[x] \in Down(t, y)
      BY <3>1, <3>2, <3>3, <3>4, DownClosed
    <3> QED BY <3>5
  <2>3. ASSUME NEW x \in U, t.next[x] # NULL PROVE t.next[x] \in U
    <3>1. PICK y \in R : x \in Down(t, y)
      BY <2>3
    <3>2. y \in Node /\ x \in Node
      BY <1>1, <1>3, <2>3
    <3>3. t.next[x] \in Node
      BY <2>3, <3>2 DEF Tree, Ptr
    <3>4. CASE x = y
      <4>1. t.next[x] \in R
        BY <2>3, <3>4
      <4>2. t.next[x] \in Down(t, t.next[x])
        BY <3>3, DownClosed
      <4> QED BY <4>1, <4>2
    <3>5. CASE x # y
      <4>1. t.parent[x] \in Down(t, y)
        <5>1. Down(t, y) = Deleted(t, y)
          BY <3>2, DeletedIsDown
        <5> QED BY <3>1, <3>2, <3>5, <5>1, DeletedClosed DEF Sound
      <4>2. t.parent[t.next[x]] = t.parent[x]
        BY <3>2, <3>3 DEF Sound, Linked, SiblingsLinked
      <4>3. t.next[x] \in Down(t, y)
        BY <3>2, <3>3, <4>1, <4>2, DownClosed
      <4> QED BY <4>3
    <3> QED BY <3>4, <3>5
  <2> QED BY <2>1, <2>2, <2>3 DEF ClosedUnderNexts
<1>5. E \subseteq U
  BY <1>3, <1>4, DeletedNextsLeast
<1> QED BY <1>2, <1>5

\* What is not above p has not p below it.
LEMMA NotAboveNotBelow ==
    ASSUME NEW t \in Tree, NEW n \in Node, NEW p \in Node, ~AncestorOrSelf(t, n, p)
    PROVE  p \notin Down(t, n)
<1>1. PICK A \in SUBSET Node :
        p \in A /\ (\A x \in A : t.parent[x] # NULL => t.parent[x] \in A) /\ n \notin A
  BY DEF AncestorOrSelf
<1> DEFINE T == Node \ A
<1>2. n \in T
  BY <1>1
<1>3. \A c \in Node : t.parent[c] \in T => c \in T
  BY <1>1, NullAssumption
<1>4. T \in SUBSET Node
  OBVIOUS
<1>5. Down(t, n) \subseteq T
  BY <1>2, <1>3, <1>4, DownClosed
<1> QED BY <1>1, <1>5

-----------------------------------------------------------------------------
(* Every step on the pointers is a step of OrderedForest on the lists.     *)

\* What a list holds, and what OrderedForest calls detached and below.
LEMMA KidsSets ==
    ASSUME IInv
    PROVE  /\ \A p \in Node : {ChildSeq(tree, p)[i] : i \in DOMAIN ChildSeq(tree, p)} =
                              {c \in Node : tree.parent[c] = p}
           /\ \A n \in Node : Abstract!Detached(n) <=> tree.parent[n] = NULL
           /\ \A n \in Node : Abstract!Below(n) = Down(tree, n)
<1>0. tree \in Tree /\ Sound(tree)
  BY DEF IInv, TypeOK
<1>1. ASSUME NEW p \in Node
      PROVE  {ChildSeq(tree, p)[i] : i \in DOMAIN ChildSeq(tree, p)} =
             {c \in Node : tree.parent[c] = p}
  <2> DEFINE s == ChildSeq(tree, p)
  <2>1. Lists(tree, p, s)
    BY <1>0, ChildSeqLists
  <2> HIDE DEF s
  <2>2. s \in Seq(Node) /\ DOMAIN s = 1..Len(s)
    <3>1. s \in Seq(Node)
      BY <2>1 DEF Lists
    <3> QED BY <3>1
  <2>3. \A i \in 1..Len(s) : s[i] \in Node /\ tree.parent[s[i]] = p
    <3>1. \A i \in 1..Len(s) : s[i] \in Node
      BY <2>2
    <3>2. \A i \in 1..Len(s) : tree.parent[s[i]] = p
      BY <2>1 DEF Lists
    <3> QED BY <3>1, <3>2
  <2>4. \A c \in Node : tree.parent[c] = p => \E i \in 1..Len(s) : s[i] = c
    BY <2>1 DEF Lists
  <2>5. {s[i] : i \in DOMAIN s} = {c \in Node : tree.parent[c] = p}
    BY <2>2, <2>3, <2>4
  <2> QED BY <2>5 DEF s
<1>2. \A p \in Node : Abstract!ToSet([q \in Node |-> ChildSeq(tree, q)][p]) =
                      {c \in Node : tree.parent[c] = p}
  BY <1>1 DEF Abstract!ToSet
<1>3. \A n \in Node : Abstract!Detached(n) <=> tree.parent[n] = NULL
  <2> TAKE n \in Node
  <2>1. Abstract!Detached(n) <=> \A p \in Node : n \notin {c \in Node : tree.parent[c] = p}
    BY <1>2 DEF Abstract!Detached
  <2>2. tree.parent[n] \in Ptr
    BY <1>0 DEF Tree
  <2> QED BY <2>1, <2>2, NullAssumption DEF Ptr
<1>4. \A n \in Node : Abstract!Below(n) = Down(tree, n)
  <2> TAKE n \in Node
  <2>1. ASSUME NEW T \in SUBSET Node
        PROVE  (\A q \in T : Abstract!ToSet([p \in Node |-> ChildSeq(tree, p)][q]) \subseteq T)
                 <=> \A c \in Node : tree.parent[c] \in T => c \in T
    <3>1. \A q \in T : Abstract!ToSet([p \in Node |-> ChildSeq(tree, p)][q]) =
                       {c \in Node : tree.parent[c] = q}
      BY <1>2
    <3>2. (\A q \in T : {c \in Node : tree.parent[c] = q} \subseteq T)
             <=> \A c \in Node : tree.parent[c] \in T => c \in T
      OBVIOUS
    <3> QED BY <3>1, <3>2
  <2>2. Abstract!Below(n) =
          {x \in Node : \A T \in SUBSET Node :
             (n \in T /\ \A q \in T :
                Abstract!ToSet([p \in Node |-> ChildSeq(tree, p)][q]) \subseteq T) => x \in T}
    BY DEF Abstract!Below
  <2> QED BY <2>1, <2>2 DEF Down
<1> QED BY <1>1, <1>3, <1>4

\* An insertion behind the k-th child is the insertion of OrderedForest.
LEMMA StepInsert ==
    ASSUME IInv, NEW p \in Node, NEW n \in Node, Insertable(p, n), UNCHANGED alive,
           NEW k \in 0..Len(ChildSeq(tree, p)),
           tree' = InsertAfter(tree, p, n, IF k = 0 THEN NULL ELSE ChildSeq(tree, p)[k])
    PROVE  Abstract!Insert(p, n, k + 1)
<1>0. tree \in Tree /\ Sound(tree)
  BY DEF IInv, TypeOK
<1>1. {p, n} \subseteq alive /\ tree.parent[n] = NULL /\ ~AncestorOrSelf(tree, n, p)
  BY DEF Insertable
<1>2. Abstract!Detached(n) /\ p \notin Abstract!Below(n)
  BY <1>0, <1>1, KidsSets, NotAboveNotBelow
<1> DEFINE refer == IF k = 0 THEN NULL ELSE ChildSeq(tree, p)[k]
<1>3. tree' = InsertAfter(tree, p, n, refer)
  OBVIOUS
<1>4. refer = IF k = 0 THEN NULL ELSE ChildSeq(tree, p)[k]
  OBVIOUS
<1> HIDE DEF refer
<1>5. /\ ChildSeq(tree', p) = Seqs!InsertAt(ChildSeq(tree, p), k + 1, n)
      /\ \A q \in Node \ {p} : ChildSeq(tree', q) = ChildSeq(tree, q)
  BY <1>0, <1>1, <1>3, <1>4, InsertAfterSeq
<1>6. [q \in Node |-> ChildSeq(tree', q)] =
        [[q \in Node |-> ChildSeq(tree, q)]
            EXCEPT ![p] = Abstract!InsertAt(@, k + 1, n)]
  BY <1>5 DEF Seqs!InsertAt, Abstract!InsertAt
<1>7. [q \in Node |-> ChildSeq(tree, q)]' = [q \in Node |-> ChildSeq(tree', q)]
  OBVIOUS
<1> QED BY <1>1, <1>2, <1>6, <1>7 DEF Abstract!Insert

\* n comes to stand behind the k-th child of p.
Inserted(p, n, k) ==
    /\ k \in 0..Len(ChildSeq(tree, p))
    /\ Insertable(p, n)
    /\ tree' = InsertAfter(tree, p, n, IF k = 0 THEN NULL ELSE ChildSeq(tree, p)[k])
    /\ UNCHANGED alive

\* Where each of the four methods puts n.
LEMMA WhereInserted ==
    ASSUME IInv, NEW p \in Node, NEW n \in Node, NEW refer \in Ptr
    PROVE  /\ DoAddChild(p, n) => Inserted(p, n, Len(ChildSeq(tree, p)))
           /\ DoInsertBefore(p, n, refer) => Inserted(p, n, Behind(tree, p, refer, TRUE))
           /\ DoInsertOrAppend(p, n, refer) => Inserted(p, n, Behind(tree, p, refer, FALSE))
           /\ DoInsertAfter(p, n, refer) =>
                Inserted(p, n, IF refer = NULL THEN 0 ELSE Place(tree, p, refer))
<1>0. tree \in Tree /\ Sound(tree)
  BY DEF IInv, TypeOK
<1>1. Len(ChildSeq(tree, p)) \in Nat
  <2>1. Lists(tree, p, ChildSeq(tree, p))
    BY <1>0, ChildSeqLists
  <2>2. ChildSeq(tree, p) \in Seq(Node)
    BY <2>1 DEF Lists
  <2> QED BY <2>2
<1>2. ASSUME DoAddChild(p, n) PROVE Inserted(p, n, Len(ChildSeq(tree, p)))
  <2>1. Insertable(p, n) /\ tree.parent[n] = NULL /\ tree' = AddChild(tree, p, n)
        /\ UNCHANGED alive
    BY <1>2 DEF DoAddChild, Insertable
  <2>2. NULL \in Ptr /\ ReferenceOK(tree, p, n, NULL)
    BY NullAssumption DEF Ptr, ReferenceOK
  <2> DEFINE k == Len(ChildSeq(tree, p))
  <2>3. AddChild(tree, p, n) =
          InsertAfter(tree, p, n, IF k = 0 THEN NULL ELSE ChildSeq(tree, p)[k])
    BY <1>0, <2>1, <2>2, OthersSeq
  <2>4. k \in 0..Len(ChildSeq(tree, p))
    BY <1>1
  <2> QED BY <2>1, <2>3, <2>4 DEF Inserted
<1>3. ASSUME DoInsertBefore(p, n, refer)
      PROVE  Inserted(p, n, Behind(tree, p, refer, TRUE))
  <2>1. Insertable(p, n) /\ tree.parent[n] = NULL /\ tree' = InsertBefore(tree, p, n, refer)
        /\ UNCHANGED alive /\ ReferenceOK(tree, p, n, refer)
    BY <1>3 DEF DoInsertBefore, Insertable
  <2> QED BY <1>0, <2>1, OthersSeq DEF Inserted
<1>4. ASSUME DoInsertOrAppend(p, n, refer)
      PROVE  Inserted(p, n, Behind(tree, p, refer, FALSE))
  <2>1. Insertable(p, n) /\ tree.parent[n] = NULL
        /\ tree' = InsertOrAppend(tree, p, n, refer)
        /\ UNCHANGED alive /\ ReferenceOK(tree, p, n, refer)
    BY <1>4 DEF DoInsertOrAppend, Insertable
  <2> QED BY <1>0, <2>1, OthersSeq DEF Inserted
<1>5. ASSUME DoInsertAfter(p, n, refer)
      PROVE  Inserted(p, n, IF refer = NULL THEN 0 ELSE Place(tree, p, refer))
  <2>1. Insertable(p, n) /\ tree' = InsertAfter(tree, p, n, refer)
        /\ UNCHANGED alive /\ ReferenceOK(tree, p, n, refer)
    BY <1>5 DEF DoInsertAfter
  <2>2. CASE refer = NULL
    <3>1. 0 \in 0..Len(ChildSeq(tree, p))
      BY <1>1
    <3> QED BY <2>1, <2>2, <3>1 DEF Inserted
  <2>3. CASE refer # NULL
    <3>1. refer \in Node /\ tree.parent[refer] = p
      BY <2>1, <2>3 DEF ReferenceOK
    <3>2. /\ Place(tree, p, refer) \in 1..Len(ChildSeq(tree, p))
          /\ ChildSeq(tree, p)[Place(tree, p, refer)] = refer
      BY <1>0, <3>1, PlaceIs
    <3> DEFINE k == Place(tree, p, refer)
    <3>3. k \in 0..Len(ChildSeq(tree, p)) /\ k # 0
      BY <1>1, <3>2
    <3>4. (IF k = 0 THEN NULL ELSE ChildSeq(tree, p)[k]) = refer
      BY <3>2, <3>3
    <3>5. Inserted(p, n, k)
      BY <2>1, <3>3, <3>4 DEF Inserted
    <3> QED BY <2>3, <3>5
  <2> QED BY <2>2, <2>3
<1> QED BY <1>2, <1>3, <1>4, <1>5

\* Taking n out of its list is the Detach of OrderedForest.
LEMMA StepUnlink ==
    ASSUME IInv, NEW n \in Node, DoUnlink(n) PROVE Abstract!Detach(n)
<1>0. tree \in Tree /\ Sound(tree)
  BY DEF IInv, TypeOK
<1>1. n \in alive /\ tree' = Unlink(tree, n) /\ UNCHANGED alive
  BY DEF DoUnlink
<1> DEFINE p == tree.parent[n]
           s == ChildSeq(tree, p)
           k == Place(tree, p, n)
<1>2. /\ \A q \in Node : q # p => ChildSeq(tree', q) = ChildSeq(tree, q)
      /\ p # NULL => ChildSeq(tree', p) = Seqs!RemoveAt(s, k)
  BY <1>0, <1>1, UnlinkSeq
<1>3. p \in Ptr
  BY <1>0 DEF Tree
<1>4. [q \in Node |-> ChildSeq(tree, q)]' = [q \in Node |-> ChildSeq(tree', q)]
  OBVIOUS
<1>5. CASE p = NULL
  <2>1. [q \in Node |-> ChildSeq(tree', q)] = [q \in Node |-> ChildSeq(tree, q)]
    BY <1>2, <1>5, NullAssumption
  <2>2. Abstract!Detached(n)
    BY <1>5, KidsSets
  <2> QED BY <1>1, <1>4, <2>1, <2>2 DEF Abstract!Detach
<1>6. CASE p # NULL
  <2>1. p \in Node
    BY <1>3, <1>6 DEF Ptr
  <2>2. k \in 1..Len(s) /\ s[k] = n
    BY <1>0, <2>1, PlaceIs
  <2>3. DOMAIN s = 1..Len(s)
    <3>1. Lists(tree, p, s)
      BY <1>0, <2>1, ChildSeqLists
    <3>2. s \in Seq(Node)
      BY <3>1 DEF Lists
    <3> QED BY <3>2
  <2> HIDE DEF k
  <2>4. [q \in Node |-> ChildSeq(tree', q)] =
          [[q \in Node |-> ChildSeq(tree, q)] EXCEPT ![p] = Abstract!RemoveAt(@, k)]
    BY <1>2, <1>6, <2>1 DEF Seqs!RemoveAt, Abstract!RemoveAt
  <2>5. k \in DOMAIN [q \in Node |-> ChildSeq(tree, q)][p]
        /\ [q \in Node |-> ChildSeq(tree, q)][p][k] = n
    BY <2>1, <2>2, <2>3
  <2> QED BY <1>1, <1>4, <2>1, <2>4, <2>5 DEF Abstract!Detach
<1> QED BY <1>5, <1>6

\* The lists after a free: nothing below the freed, and what is left of p's.
LEMMA StepFreeRange ==
    ASSUME IInv, NEW p \in Node, NEW i \in 1..Len(ChildSeq(tree, p)),
           NEW j \in i..Len(ChildSeq(tree, p)),
           NEW gone, gone = UNION {Down(tree, ChildSeq(tree, p)[m]) : m \in i..j},
           p \notin gone, alive' = alive \ gone,
           \A q \in gone : ChildSeq(tree', q) = << >>,
           \A q \in Node \ gone : q # p => ChildSeq(tree', q) = ChildSeq(tree, q),
           ChildSeq(tree', p) = SubSeq(ChildSeq(tree, p), 1, i - 1) \o
                                SubSeq(ChildSeq(tree, p), j + 1, Len(ChildSeq(tree, p)))
    PROVE  Abstract!FreeRange(p, i, j)
<1> DEFINE s == ChildSeq(tree, p)
           left == SubSeq(s, 1, i - 1) \o SubSeq(s, j + 1, Len(s))
<1>0. tree \in Tree /\ Sound(tree)
  BY DEF IInv, TypeOK
<1>2. \A m \in i..j : s[m] \in Node
  <2>1. Lists(tree, p, s)
    BY <1>0, ChildSeqLists
  <2> HIDE DEF s
  <2>2. s \in Seq(Node)
    BY <2>1 DEF Lists
  <2>3. Len(s) \in Nat /\ \A m \in 1..Len(s) : s[m] \in Node
    BY <2>2
  <2>4. i \in 1..Len(s) /\ j \in i..Len(s)
    BY DEF s
  <2> QED BY <2>3, <2>4
<1>3. \A m \in i..j : Abstract!Below(s[m]) = Down(tree, s[m])
  BY <1>2, KidsSets
<1> DEFINE K == [q \in Node |-> ChildSeq(tree, q)]
<1>4. UNION {Abstract!Below(K[p][m]) : m \in i..j} = gone
  <2>1. gone = UNION {Down(tree, s[m]) : m \in i..j}
    OBVIOUS
  <2>2. \A m \in i..j : Abstract!Below(K[p][m]) = Down(tree, s[m])
    BY <1>3
  <2> DEFINE B(m) == Abstract!Below(K[p][m])
             C(m) == Down(tree, s[m])
  <2>3. \A m \in i..j : B(m) = C(m)
    BY <2>2
  <2> HIDE DEF s, K, B, C
  <2>4. UNION {B(m) : m \in i..j} = UNION {C(m) : m \in i..j}
    BY <2>3
  <2>5. UNION {C(m) : m \in i..j} = gone
    BY <2>1 DEF C
  <2>6. UNION {B(m) : m \in i..j} = gone
    BY <2>4, <2>5
  <2> QED BY <2>6 DEF B
<1>5. [q \in Node |-> ChildSeq(tree, q)]' = [q \in Node |-> ChildSeq(tree', q)]
  OBVIOUS
<1>6. [q \in Node |-> ChildSeq(tree', q)] =
        [q \in Node |-> IF q \in gone THEN << >> ELSE IF q = p THEN left ELSE K[q]]
  OBVIOUS
<1>7. i \in 1..Len(K[p]) /\ j \in i..Len(K[p])
  OBVIOUS
<1>8. left = SubSeq(K[p], 1, i - 1) \o SubSeq(K[p], j + 1, Len(K[p]))
  OBVIOUS
<1>9. [q \in Node |-> ChildSeq(tree, q)]' =
        [q \in Node |-> IF q \in UNION {Abstract!Below(K[p][m]) : m \in i..j} THEN << >>
                        ELSE IF q = p
                        THEN SubSeq(K[p], 1, i - 1) \o SubSeq(K[p], j + 1, Len(K[p]))
                        ELSE K[q]]
  <2> HIDE DEF K, left
  <2> QED BY <1>4, <1>5, <1>6, <1>8
<1>10. alive' = alive \ UNION {Abstract!Below(K[p][m]) : m \in i..j}
  <2> HIDE DEF K
  <2> QED BY <1>4
<1> QED BY <1>7, <1>9, <1>10 DEF Abstract!FreeRange

\* The lists after a root is freed.
LEMMA StepFreeRoot ==
    ASSUME IInv, NEW n \in Node, n \in alive, tree.parent[n] = NULL,
           alive' = alive \ Down(tree, n),
           \A q \in Down(tree, n) : ChildSeq(tree', q) = << >>,
           \A q \in Node \ Down(tree, n) : ChildSeq(tree', q) = ChildSeq(tree, q)
    PROVE  Abstract!FreeRoot(n)
<1>1. Abstract!Detached(n) /\ Abstract!Below(n) = Down(tree, n)
  BY KidsSets
<1>2. [q \in Node |-> ChildSeq(tree, q)]' = [q \in Node |-> ChildSeq(tree', q)]
  OBVIOUS
<1>3. [q \in Node |-> ChildSeq(tree', q)] =
        [q \in Node |-> IF q \in Down(tree, n) THEN << >>
                        ELSE [r \in Node |-> ChildSeq(tree, r)][q]]
  OBVIOUS
<1> QED BY <1>1, <1>2, <1>3 DEF Abstract!FreeRoot

\* Remove( false ) frees a root, or one child of a list, with its subtree.
LEMMA StepRemove ==
    ASSUME IInv, NEW n \in Node, DoRemove(n)
    PROVE  \/ Abstract!FreeRoot(n)
           \/ \E p \in Node : \E i, j \in 1..Len(ChildSeq(tree, p)) : Abstract!FreeRange(p, i, j)
<1>0. tree \in Tree /\ Sound(tree)
  BY DEF IInv, TypeOK
<1>1. n \in alive /\ tree' = Remove(tree, n) /\ alive' = alive \ Deleted(tree, n)
  BY DEF DoRemove
<1> DEFINE D == Down(tree, n)
           p == tree.parent[n]
<1>2. Deleted(tree, n) = D /\ D \in SUBSET Node
  BY <1>0, DeletedIsDown, DownClosed
<1>3. p \in Ptr /\ p \notin D
  <2>1. p \in Ptr
    BY <1>0 DEF Tree
  <2>2. p \notin Deleted(tree, n)
    BY <1>0, DeletedClosed DEF Sound
  <2> QED BY <1>2, <2>1, <2>2
<1>4. \A q \in Node :
        /\ q \in D => ChildSeq(tree', q) = << >>
        /\ q \notin D =>
             ChildSeq(tree', q) =
                IF q = p THEN Seqs!RemoveAt(ChildSeq(tree, q), Place(tree, q, n))
                         ELSE ChildSeq(tree, q)
  BY <1>0, <1>1, <1>2, RemoveSeq
<1> HIDE DEF D
<1>5. CASE p = NULL
  BY <1>1, <1>2, <1>4, <1>5, StepFreeRoot, NullAssumption DEF D
<1>6. CASE p # NULL
  <2> DEFINE s == ChildSeq(tree, p)
             k == Place(tree, p, n)
  <2>1. p \in Node
    BY <1>3, <1>6 DEF Ptr
  <2>2. k \in 1..Len(s) /\ s[k] = n
    BY <1>0, <2>1, PlaceIs
  <2>3. s \in Seq(Node)
    <3>1. Lists(tree, p, s)
      BY <1>0, <2>1, ChildSeqLists
    <3> QED BY <3>1 DEF Lists
  <2> HIDE DEF k
  <2>4. k \in k..Len(s) /\ k..k = {k}
    BY <2>2, <2>3
  <2>5. UNION {Down(tree, s[m]) : m \in k..k} = D
    BY <2>2, <2>4 DEF D
  <2>6. ChildSeq(tree', p) = SubSeq(s, 1, k - 1) \o SubSeq(s, k + 1, Len(s))
    BY <1>3, <1>4, <2>1 DEF Seqs!RemoveAt, k
  <2>7. Abstract!FreeRange(p, k, k)
    BY <1>1, <1>2, <1>3, <1>4, <2>1, <2>2, <2>4, <2>5, <2>6, StepFreeRange
  <2> QED BY <2>1, <2>2, <2>7
<1> QED BY <1>5, <1>6

\* Remove( true ) frees a root, or the end of a list, with what is below.
LEMMA StepNexts ==
    ASSUME IInv, NEW n \in Node, n \in alive, tree' = RemoveNexts(tree, n),
           alive' = alive \ DeletedNexts(tree, n)
    PROVE  \/ Abstract!FreeRoot(n)
           \/ \E p \in Node : \E i, j \in 1..Len(ChildSeq(tree, p)) : Abstract!FreeRange(p, i, j)
<1>0. tree \in Tree /\ Sound(tree)
  BY DEF IInv, TypeOK
<1> DEFINE D == DeletedNexts(tree, n)
           p == tree.parent[n]
<1>1. tree' = RemoveNexts(tree, n) /\ alive' = alive \ D
  OBVIOUS
<1>2. p \in Ptr
  BY <1>0 DEF Tree
<1>3. D \in SUBSET Node /\ n \in D /\ p \notin D
  BY <1>0, DeletedNextsClosed DEF Sound
<1>4. \A q \in Node :
        /\ q \in D => ChildSeq(tree', q) = << >>
        /\ q \notin D =>
             ChildSeq(tree', q) = IF q = p THEN SubSeq(ChildSeq(tree, q), 1, Place(tree, q, n) - 1)
                                           ELSE ChildSeq(tree, q)
  BY <1>0, <1>1, RemoveNextsSeq
<1>5. ASSUME NEW R \in SUBSET D, n \in R,
             \A x \in R : tree.next[x] # NULL => tree.next[x] \in R
      PROVE  D = UNION {Down(tree, x) : x \in R}
  BY <1>0, <1>5, DeletedNextsIsDown
<1>6. CASE p = NULL
  <2>1. tree.next[n] = NULL
    BY <1>0, <1>6 DEF Sound, Linked, RootsUnlinked
  <2> DEFINE R == {n}
  <2>2. /\ R \in SUBSET D /\ n \in R
        /\ \A x \in R : tree.next[x] # NULL => tree.next[x] \in R
    BY <1>3, <2>1
  <2> HIDE DEF D
  <2>3. D = UNION {Down(tree, x) : x \in R}
    BY <1>5, <2>2
  <2>4. D = Down(tree, n)
    BY <2>3
  <2>5. \A q \in Node : q # p
    BY <1>6, NullAssumption
  <2> QED BY <1>1, <1>3, <1>4, <1>6, <2>4, <2>5, StepFreeRoot
<1>7. CASE p # NULL
  <2> DEFINE s == ChildSeq(tree, p)
             k == Place(tree, p, n)
             N == Len(s)
             R == {s[m] : m \in k..N}
  <2>1. p \in Node
    BY <1>2, <1>7 DEF Ptr
  <2>2. k \in 1..Len(s) /\ s[k] = n
    BY <1>0, <2>1, PlaceIs
  <2>3. Lists(tree, p, s)
    BY <1>0, <2>1, ChildSeqLists
  <2>4. \A i \in 1..Len(s) : s[i] \in D <=> i >= k
    BY <1>0, <2>1, DeletedNextsOfList
  <2>5. s \in Seq(Node)
    BY <2>3 DEF Lists
  <2>6. N \in Nat /\ k \in 1..N /\ N \in k..N
    BY <2>2, <2>5
  <2>7. \A i \in 1..N : tree.next[s[i]] = IF i = N THEN NULL ELSE s[i + 1]
    BY <2>3 DEF Lists
  <2> HIDE DEF D, k, s
  <2>8. \A m \in k..N : m \in 1..N /\ s[m] \in D
    BY <2>4, <2>6
  <2>9. \A m \in k..N : tree.next[s[m]] = NULL \/ (m + 1 \in k..N /\ tree.next[s[m]] = s[m + 1])
    BY <2>6, <2>7
  <2>10. /\ R \in SUBSET D /\ n \in R
         /\ \A x \in R : tree.next[x] # NULL => tree.next[x] \in R
    <3>1. R \in SUBSET D
      BY <2>8
    <3>2. n \in R
      BY <2>2, <2>6
    <3>3. ASSUME NEW x \in R, tree.next[x] # NULL PROVE tree.next[x] \in R
      <4>1. PICK m \in k..N : x = s[m]
        OBVIOUS
      <4> QED BY <2>9, <3>3, <4>1
    <3> QED BY <3>1, <3>2, <3>3
  <2>11. D = UNION {Down(tree, x) : x \in R}
    <3> HIDE DEF R
    <3> QED BY <1>5, <2>10
  <2>12. D = UNION {Down(tree, s[m]) : m \in k..N}
    BY <2>11
  <2>13. SubSeq(s, 1, k - 1) = SubSeq(s, 1, k - 1) \o SubSeq(s, N + 1, N)
    <3>1. SubSeq(s, N + 1, N) = << >>
      BY <2>5, <2>6, SubSeqEmpty
    <3>2. SubSeq(s, 1, k - 1) \in Seq(Node)
      BY <2>5, <2>6
    <3> QED BY <3>1, <3>2, ConcatEmptySeq
  <2>14. ChildSeq(tree', p) = SubSeq(s, 1, k - 1) \o SubSeq(s, N + 1, N)
    BY <1>3, <1>4, <2>1, <2>13 DEF k, s
  <2>15. Abstract!FreeRange(p, k, N)
    BY <1>1, <1>3, <1>4, <2>1, <2>6, <2>12, <2>14, StepFreeRange DEF s
  <2>16. k \in 1..Len(ChildSeq(tree, p)) /\ N \in 1..Len(ChildSeq(tree, p))
    BY <2>6 DEF s
  <2> QED BY <2>1, <2>15, <2>16
<1> QED BY <1>6, <1>7

\* Swap exchanges the two subtrees.
LEMMA StepSwap ==
    ASSUME IInv, NEW l \in Node, NEW r \in Node, DoSwap(l, r)
    PROVE  Abstract!Exchange(l, r)
<1>0. tree \in Tree /\ Sound(tree)
  BY DEF IInv, TypeOK
<1>1. /\ {l, r} \subseteq alive /\ UNCHANGED alive
      /\ ~AncestorOrSelf(tree, l, r) /\ ~AncestorOrSelf(tree, r, l)
      /\ tree.prev[l] # r /\ tree.prev[r] # l
      /\ tree' = Swap(tree, l, r)
  BY DEF DoSwap
<1>2. l \notin Abstract!Below(r) /\ r \notin Abstract!Below(l)
  BY <1>0, <1>1, KidsSets, NotAboveNotBelow
<1> DEFINE K == [p \in Node |-> ChildSeq(tree, p)]
<1>3. \A p \in Node : ChildSeq(tree', p) = [i \in DOMAIN K[p] |-> Other(l, r, K[p][i])]
  BY <1>0, <1>1, SwapSeq
<1>4. \A x : Other(l, r, x) = CASE x = l -> r [] x = r -> l [] OTHER -> x
  BY DEF Other
<1>5. [p \in Node |-> ChildSeq(tree, p)]' = [p \in Node |-> ChildSeq(tree', p)]
  OBVIOUS
<1>6. [p \in Node |-> ChildSeq(tree', p)] =
        [p \in Node |-> [i \in DOMAIN K[p] |-> Other(l, r, K[p][i])]]
  BY <1>3
<1>7. [p \in Node |-> [i \in DOMAIN K[p] |-> Other(l, r, K[p][i])]] =
        [p \in Node |-> [i \in DOMAIN K[p] |->
            CASE K[p][i] = l -> r [] K[p][i] = r -> l [] OTHER -> K[p][i]]]
  <2> HIDE DEF K
  <2> QED BY <1>4
<1> QED BY <1>1, <1>2, <1>5, <1>6, <1>7 DEF Abstract!Exchange

\* A constructed node has no children yet.
LEMMA StepConstruct ==
    ASSUME IInv, NEW n \in Node, Construct(n) PROVE Abstract!Create(n)
<1>1. \A x \in Node :
        /\ tree'.parent[x] = tree.parent[x] /\ tree'.prev[x] = tree.prev[x]
        /\ tree'.next[x] = tree.next[x] /\ tree'.first[x] = tree.first[x]
  BY FreeFields DEF Construct, IInv, TypeOK, Within
<1>2. tree' \in Tree
  BY FreeFields DEF Construct, IInv, TypeOK
<1>3. tree' = tree
  BY <1>1, <1>2 DEF IInv, TypeOK, Tree
<1> QED BY <1>3 DEF Construct, Abstract!Create

LEMMA ForestInit == Init => Abstract!Init
<1> SUFFICES ASSUME Init PROVE Abstract!Init
  OBVIOUS
<1>1. tree \in Tree /\ Sound(tree)
  BY InitIInv DEF IInv, TypeOK
<1>2. \A p \in Node : tree.first[p] = NULL
  BY DEF Init, EmptyTree, AllNull
<1>3. [p \in Node |-> ChildSeq(tree, p)] = [p \in Node |-> << >>]
  BY <1>1, <1>2, NoChildren
<1>4. alive = {}
  BY DEF Init
<1> QED BY <1>3, <1>4 DEF Abstract!Init

LEMMA ForestStep == IInv /\ [Next]_vars => [Abstract!Next]_(Abstract!vars)
<1> SUFFICES ASSUME IInv, [Next]_vars PROVE [Abstract!Next]_(Abstract!vars)
  OBVIOUS
<1> DEFINE K == [p \in Node |-> ChildSeq(tree, p)]
<1>0. \A p \in Node : K[p] = ChildSeq(tree, p)
  OBVIOUS
<1>1. ASSUME NEW n \in Node, Abstract!Create(n) \/ Abstract!Detach(n) \/ Abstract!FreeRoot(n)
      PROVE  Abstract!Next
  BY <1>1 DEF Abstract!Next
<1>2. ASSUME NEW p \in Node, NEW i \in 1..Len(ChildSeq(tree, p)),
             NEW j \in 1..Len(ChildSeq(tree, p)), Abstract!FreeRange(p, i, j)
      PROVE  Abstract!Next
  <2>1. i \in 1..Len(K[p]) /\ j \in 1..Len(K[p])
    BY <1>0
  <2> QED BY <1>2, <2>1 DEF Abstract!Next
<1>3. ASSUME NEW p \in Node, NEW n \in Node, Abstract!Exchange(p, n)
      PROVE  Abstract!Next
  BY <1>3 DEF Abstract!Next
<1>4. ASSUME NEW p \in Node, NEW n \in Node, NEW k, Inserted(p, n, k)
      PROVE  Abstract!Next
  <2>1. k \in 0..Len(ChildSeq(tree, p)) /\ Abstract!Insert(p, n, k + 1)
    BY <1>4, StepInsert DEF Inserted
  <2>2. Len(ChildSeq(tree, p)) \in Nat
    <3>1. Lists(tree, p, ChildSeq(tree, p))
      BY ChildSeqLists DEF IInv, TypeOK
    <3>2. ChildSeq(tree, p) \in Seq(Node)
      BY <3>1 DEF Lists
    <3> QED BY <3>2
  <2>3. k + 1 \in 1..Len(K[p]) + 1
    BY <1>0, <2>1, <2>2
  <2> QED BY <2>1, <2>3 DEF Abstract!Next
<1>5. ASSUME NEW n \in Node, Construct(n) PROVE Abstract!Next
  BY <1>1, <1>5, StepConstruct
<1>6. ASSUME NEW n \in Node, DoUnlink(n) PROVE Abstract!Next
  BY <1>1, <1>6, StepUnlink
<1>7. ASSUME NEW n \in Node, DoRemove(n) PROVE Abstract!Next
  BY <1>1, <1>2, <1>7, StepRemove
<1>8. ASSUME NEW n \in Node, DoRemoveNexts(n) PROVE Abstract!Next
  BY <1>1, <1>2, <1>8, StepNexts DEF DoRemoveNexts
<1>9. ASSUME NEW n \in Node, DoRemoveChildren(n) PROVE Abstract!Next
  <2> DEFINE c == tree.first[n]
  <2>1. /\ tree \in Tree /\ Within(tree, alive)
        /\ n \in alive /\ c # NULL
        /\ tree' = RemoveChildren(tree, n) /\ alive' = alive \ DeletedNexts(tree, c)
    BY <1>9 DEF DoRemoveChildren, IInv, TypeOK
  <2>2. c \in Node /\ c \in alive
    BY <2>1 DEF Tree, Ptr, Within
  <2>3. tree' = RemoveNexts(tree, c)
    BY <2>1 DEF RemoveChildren
  <2> HIDE DEF c
  <2> QED BY <1>1, <1>2, <2>1, <2>2, <2>3, StepNexts
<1>10. ASSUME NEW p \in Node, NEW n \in Node, DoAddChild(p, n) PROVE Abstract!Next
  <2>1. NULL \in Ptr
    BY DEF Ptr
  <2> QED BY <1>4, <1>10, <2>1, WhereInserted
<1>11. ASSUME NEW p \in Node, NEW n \in Node, NEW refer \in Ptr,
              DoInsertBefore(p, n, refer) \/ DoInsertAfter(p, n, refer)
                \/ DoInsertOrAppend(p, n, refer)
       PROVE  Abstract!Next
  BY <1>4, <1>11, WhereInserted
<1>12. ASSUME NEW p \in Node, NEW n \in Node, DoSwap(p, n) PROVE Abstract!Next
  BY <1>3, <1>12, StepSwap
<1>13. CASE Next
  BY <1>13, <1>5, <1>6, <1>7, <1>8, <1>9, <1>10, <1>11, <1>12 DEF Next
<1>14. CASE UNCHANGED vars
  <2>1. [p \in Node |-> ChildSeq(tree, p)]' = [p \in Node |-> ChildSeq(tree, p)]
    BY <1>14 DEF vars
  <2> QED BY <1>14, <2>1 DEF vars, Abstract!vars
<1> QED BY <1>13, <1>14

\* The pointers implement ordered lists of children: every call of a method of
\* Tree.h creates, inserts, detaches, frees or exchanges whole subtrees, at one
\* place of one list, and leaves every other list as it was.
THEOREM ForestRefines == Spec => ImplementsOrderedForest
<1>1. Init => Abstract!Init
  BY ForestInit
<1>2. IInv /\ [Next]_vars => [Abstract!Next]_(Abstract!vars)
  BY ForestStep
<1> QED BY <1>1, <1>2, Invariance, PTL DEF Spec, Abstract!Spec, ImplementsOrderedForest

\* A node's place in the list of its parent, as the property counts it.
LEMMA PlaceOfIs ==
    ASSUME IInv, NEW p \in Node, NEW c \in Node
    PROVE  PlaceOf(p, c) = Place(tree, p, c)
<1> DEFINE s == ChildSeq(tree, p)
<1>1. Lists(tree, p, s)
  BY ChildSeqLists DEF IInv, TypeOK
<1>2. DOMAIN s = 1..Len(s)
  <2>1. s \in Seq(Node)
    BY <1>1 DEF Lists
  <2> QED BY <2>1
<1>3. c # NULL
  BY NullAssumption
<1> QED BY <1>2, <1>3 DEF PlaceOf, Place

\* An inserted node stands at its place and moves no other child.
LEMMA InsertedSeq ==
    ASSUME IInv, NEW p \in Node, NEW n \in Node, NEW k, Inserted(p, n, k)
    PROVE  ChildSeq(tree', p) = Seqs!InsertAt(ChildSeq(tree, p), k + 1, n)
<1>0. tree \in Tree /\ Sound(tree)
  BY DEF IInv, TypeOK
<1> DEFINE refer == IF k = 0 THEN NULL ELSE ChildSeq(tree, p)[k]
<1>1. /\ tree.parent[n] = NULL /\ ~AncestorOrSelf(tree, n, p)
      /\ k \in 0..Len(ChildSeq(tree, p)) /\ tree' = InsertAfter(tree, p, n, refer)
  BY DEF Inserted, Insertable
<1>2. refer = IF k = 0 THEN NULL ELSE ChildSeq(tree, p)[k]
  OBVIOUS
<1> HIDE DEF refer
<1> QED BY <1>0, <1>1, <1>2, InsertAfterSeq

LEMMA AppendIsInsert ==
    ASSUME NEW s \in Seq(Node), NEW n \in Node
    PROVE  Seqs!InsertAt(s, Len(s) + 1, n) = Append(s, n)
<1> DEFINE k == Len(s)
           v == Seqs!InsertAt(s, k + 1, n)
<1>1. k \in 0..Len(s)
  OBVIOUS
<1>2. /\ v \in Seq(Node) /\ Len(v) = Len(s) + 1
      /\ \A i \in 1..Len(v) :
           v[i] = IF i <= k THEN s[i] ELSE IF i = k + 1 THEN n ELSE s[i - 1]
  BY <1>1, InsertAtIs
<1> HIDE DEF v
<1>3. \A i \in 1..(Len(s) + 1) : v[i] = IF i <= Len(s) THEN s[i] ELSE n
  BY <1>2
<1>4. /\ Append(s, n) \in Seq(Node) /\ Len(Append(s, n)) = Len(s) + 1
      /\ \A i \in 1..(Len(s) + 1) : Append(s, n)[i] = IF i <= Len(s) THEN s[i] ELSE n
  OBVIOUS
<1>5. v = Append(s, n)
  BY <1>2, <1>3, <1>4, SeqEqual
<1> QED BY <1>5 DEF v

\* A place is the place the caller names: what the commands that put a node
\* back rely on.
LEMMA AsAsked ==
    ASSUME IInv, NEW p \in Node, NEW n \in Node
    PROVE  LET old == ChildSeq(tree, p)
               new == ChildSeq(tree', p)
           IN  /\ DoAddChild(p, n) => new = Append(old, n)
               /\ DoSwap(p, n) /\ tree.parent[p] # NULL =>
                   ChildSeq(tree', tree.parent[p])[PlaceOf(tree.parent[p], p)] = n
               /\ \A refer \in Ptr :
                   /\ DoInsertAfter(p, n, refer) =>
                       new = Seqs!InsertAt(old, PlaceOf(p, refer) + 1, n)
                   /\ DoInsertOrAppend(p, n, refer) =>
                       new = Seqs!InsertAt(old, IF refer = NULL THEN Len(old) + 1
                                           ELSE PlaceOf(p, refer) + 1, n)
                   /\ DoInsertBefore(p, n, refer) =>
                       new = Seqs!InsertAt(old, IF refer = NULL THEN Len(old) + 1
                                           ELSE PlaceOf(p, refer), n)
<1> DEFINE old == ChildSeq(tree, p)
           new == ChildSeq(tree', p)
<1>0. tree \in Tree /\ Sound(tree)
  BY DEF IInv, TypeOK
<1>1. old \in Seq(Node)
  <2>1. Lists(tree, p, old)
    BY <1>0, ChildSeqLists
  <2> QED BY <2>1 DEF Lists
<1>2. \A k : Inserted(p, n, k) => new = Seqs!InsertAt(old, k + 1, n)
  BY InsertedSeq
<1>3. ASSUME DoAddChild(p, n) PROVE new = Append(old, n)
  <2>1. NULL \in Ptr
    BY DEF Ptr
  <2>2. Inserted(p, n, Len(old))
    BY <1>3, <2>1, WhereInserted
  <2> HIDE DEF old, new
  <2> QED BY <1>1, <1>2, <2>2, AppendIsInsert
<1>4. ASSUME DoSwap(p, n), tree.parent[p] # NULL
      PROVE  ChildSeq(tree', tree.parent[p])[PlaceOf(tree.parent[p], p)] = n
  <2> DEFINE q == tree.parent[p]
             s == ChildSeq(tree, q)
             k == Place(tree, q, p)
  <2>1. q \in Node
    BY <1>0, <1>4 DEF Tree, Ptr
  <2>2. k \in 1..Len(s) /\ s[k] = p
    BY <1>0, <2>1, PlaceIs
  <2>3. DOMAIN s = 1..Len(s)
    <3>1. Lists(tree, q, s)
      BY <1>0, <2>1, ChildSeqLists
    <3>2. s \in Seq(Node)
      BY <3>1 DEF Lists
    <3> QED BY <3>2
  <2>4. ChildSeq(tree', q) = [i \in DOMAIN s |-> Other(p, n, s[i])]
    BY <1>0, <1>4, <2>1, SwapSeq DEF DoSwap
  <2>5. PlaceOf(q, p) = k
    BY <2>1, PlaceOfIs
  <2> HIDE DEF s, k
  <2> QED BY <2>2, <2>3, <2>4, <2>5 DEF Other
<1>5. ASSUME NEW refer \in Ptr
      PROVE  /\ DoInsertAfter(p, n, refer) =>
                  new = Seqs!InsertAt(old, PlaceOf(p, refer) + 1, n)
             /\ DoInsertOrAppend(p, n, refer) =>
                  new = Seqs!InsertAt(old, IF refer = NULL THEN Len(old) + 1
                                           ELSE PlaceOf(p, refer) + 1, n)
             /\ DoInsertBefore(p, n, refer) =>
                  new = Seqs!InsertAt(old, IF refer = NULL THEN Len(old) + 1
                                           ELSE PlaceOf(p, refer), n)
  <2>1. /\ DoInsertBefore(p, n, refer) => Inserted(p, n, Behind(tree, p, refer, TRUE))
        /\ DoInsertOrAppend(p, n, refer) => Inserted(p, n, Behind(tree, p, refer, FALSE))
        /\ DoInsertAfter(p, n, refer) =>
             Inserted(p, n, IF refer = NULL THEN 0 ELSE Place(tree, p, refer))
    BY WhereInserted
  <2>2. CASE refer = NULL
    <3>1. PlaceOf(p, refer) = 0
      BY <2>2 DEF PlaceOf
    <3>2. \A b \in BOOLEAN : Behind(tree, p, refer, b) = Len(old)
      BY <2>2 DEF Behind
    <3> HIDE DEF old, new
    <3> QED BY <1>2, <2>1, <2>2, <3>1, <3>2
  <2>3. CASE refer # NULL
    <3>1. refer \in Node
      BY <2>3 DEF Ptr
    <3>2. PlaceOf(p, refer) = Place(tree, p, refer)
      BY <3>1, PlaceOfIs
    <3>3. CASE tree.parent[refer] = p
      <4> DEFINE k == Place(tree, p, refer)
      <4>1. k \in 1..Len(old)
        BY <1>0, <3>1, <3>3, PlaceIs
      <4>2. k \in Nat
        <5> HIDE DEF old, k
        <5> QED BY <1>1, <4>1
      <4>3. Behind(tree, p, refer, TRUE) = k - 1 /\ Behind(tree, p, refer, FALSE) = k - 0
        BY <2>3 DEF Behind
      <4>4. (k - 1) + 1 = k /\ k - 0 = k
        <5> HIDE DEF k
        <5> QED BY <4>2
      <4>5. /\ DoInsertBefore(p, n, refer) => Inserted(p, n, k - 1)
            /\ DoInsertOrAppend(p, n, refer) => Inserted(p, n, k)
            /\ DoInsertAfter(p, n, refer) => Inserted(p, n, k)
        BY <2>1, <2>3, <4>3, <4>4
      <4>6. /\ DoInsertBefore(p, n, refer) => new = Seqs!InsertAt(old, k, n)
            /\ DoInsertOrAppend(p, n, refer) => new = Seqs!InsertAt(old, k + 1, n)
            /\ DoInsertAfter(p, n, refer) => new = Seqs!InsertAt(old, k + 1, n)
        <5> HIDE DEF old, new, k
        <5> QED BY <1>2, <4>4, <4>5
      <4> QED BY <2>3, <3>2, <4>6
    <3>4. CASE tree.parent[refer] # p
      <4>1. ~ReferenceOK(tree, p, n, refer)
        BY <2>3, <3>4 DEF ReferenceOK
      <4> QED BY <4>1 DEF DoInsertBefore, DoInsertAfter, DoInsertOrAppend
    <3> QED BY <3>3, <3>4
  <2> QED BY <2>2, <2>3
<1> QED BY <1>3, <1>4, <1>5

\* Each insertion puts the node before or after the child its reference names,
\* or at the end or the front when there is none, and moves no other child; Swap
\* gives each node the place of the other (Tree.h: AddChild, InsertBefore,
\* InsertAfter, InsertOrAppend, Swap).
THEOREM ChildrenAsAsked == Spec => PlacesAsAsked
<1> DEFINE A ==
      \A p, n \in alive :
        LET old == ChildSeq(tree, p)
            new == ChildSeq(tree', p)
        IN  /\ DoAddChild(p, n) => new = Append(old, n)
            /\ DoSwap(p, n) /\ tree.parent[p] # NULL =>
                ChildSeq(tree', tree.parent[p])[PlaceOf(tree.parent[p], p)] = n
            /\ \A refer \in Ptr :
                /\ DoInsertAfter(p, n, refer) =>
                    new = Seqs!InsertAt(old, PlaceOf(p, refer) + 1, n)
                /\ DoInsertOrAppend(p, n, refer) =>
                    new = Seqs!InsertAt(old, IF refer = NULL THEN Len(old) + 1
                                        ELSE PlaceOf(p, refer) + 1, n)
                /\ DoInsertBefore(p, n, refer) =>
                    new = Seqs!InsertAt(old, IF refer = NULL THEN Len(old) + 1
                                        ELSE PlaceOf(p, refer), n)
<1>1. IInv => A
  BY AsAsked DEF IInv, TypeOK
<1> HIDE DEF A
<1>2. IInv /\ [Next]_vars => [A]_vars
  BY <1>1
<1>3. Spec => [][A]_vars
  BY <1>2, Invariance, PTL DEF Spec
<1> QED BY <1>3 DEF A, PlacesAsAsked
=============================================================================
