--------------------------- MODULE RanaSpaceProofs ---------------------------
(***************************************************************************)
(* The pool of Lua spaces and the Lua threads that wait in them, for any   *)
(* number of slots, names, types, contexts and threads.                    *)
(***************************************************************************)
EXTENDS RanaWait, SequenceTheorems, WellFoundedInduction, TLAPS

USE BankAssumption

-----------------------------------------------------------------------------
(* The parts of the operations.  Most of them write only the members of    *)
(* one space and its nodes in the list of the failed ones.                 *)

SameContainers(b, c) ==
    /\ c.active = b.active /\ c.unused = b.unused /\ c.table = b.table
    /\ c.names = b.names /\ c.next = b.next /\ c.crashed = b.crashed

OtherNodesIn(b, X, s) == \A e \in Node : e[1] # s => (e \in X <=> e \in b.exits)

OtherStaleIn(b, S, s) == \A u \in Slot : u # s => (u \in S <=> u \in b.stale)

SameOthers(b, c, s) ==
    /\ \A u \in Slot : u # s => c.space[u] = b.space[u]
    /\ OtherNodesIn(b, c.exits, s)
    /\ OtherStaleIn(b, c.stale, s)

\* The nodes X of space s, which has the members x: each is the one it remembers or
\* one that a reload has left, which the slots S are known to have.
Known(s, x, X, S) ==
    \A e \in Node : e \in X /\ e[1] = s => s \in S \/ (x.error /\ x.node = e[2])
NodesKnown(b, s) == Known(s, b.space[s], b.exits, b.stale)

\* b becomes c by what is done to space s, which keeps its names.
Touches(b, c, s) ==
    /\ c \in Bank /\ SameContainers(b, c) /\ SameOthers(b, c, s)
    /\ c.space[s].serial = b.space[s].serial
    /\ NodesKnown(b, s) => NodesKnown(c, s)

\* What is looked up under the names of s.
SameNames(b, c, s) ==
    c.space[s].type = b.space[s].type /\ c.space[s].name = b.space[s].name

SameState(b, c, s) ==
    c.space[s].open = b.space[s].open /\ c.space[s].status = b.space[s].status

\* A mark of space s is on the list.
MarkHolds(b, s) ==
    b.space[s].error => /\ b.space[s].context # None
                        /\ <<s, b.space[s].node>> \in b.exits

LEMMA BankParts ==
    ASSUME NEW b \in Bank
    PROVE  /\ b.space \in [Slot -> RanaSpace]
           /\ \A s \in Slot : b.space[s] \in RanaSpace
           /\ b.active \subseteq Slot /\ b.table \subseteq Slot
           /\ b.unused \in Seq(Slot) /\ b.next \in Nat
           /\ b.names \subseteq Type \X Name \X Slot /\ b.exits \subseteq Node
           /\ b.stale \subseteq Slot /\ b.crashed \in BOOLEAN
BY DEF Bank

\* The members of space s are replaced, and its nodes.
Replaced(b, s, x, X, S) == [b EXCEPT !.space[s] = x, !.exits = X, !.stale = S]

LEMMA SpaceAndNodesReplaced ==
    ASSUME NEW b \in Bank, NEW s \in Slot, NEW x \in RanaSpace, NEW X, NEW S,
           x.serial = b.space[s].serial, X \subseteq Node, S \subseteq Slot,
           OtherNodesIn(b, X, s), OtherStaleIn(b, S, s),
           NodesKnown(b, s) => Known(s, x, X, S)
    PROVE  LET c == Replaced(b, s, x, X, S) IN
           Touches(b, c, s) /\ c.space[s] = x /\ c.exits = X /\ c.stale = S
<1> DEFINE c == Replaced(b, s, x, X, S)
<1>1. c \in Bank
  BY DEF Replaced, Bank
<1>2. /\ c.space[s] = x /\ c.exits = X /\ c.stale = S
      /\ \A u \in Slot : u # s => c.space[u] = b.space[u]
      /\ SameContainers(b, c)
  BY BankParts DEF Replaced, Bank, SameContainers
<1> HIDE DEF c
<1> QED BY <1>1, <1>2 DEF c, Touches, SameOthers, NodesKnown

\* A replacement that leaves the mark and the nodes.
LEMMA SpaceReplaced ==
    ASSUME NEW b \in Bank, NEW s \in Slot, NEW x \in RanaSpace,
           x.serial = b.space[s].serial, x.error = b.space[s].error,
           x.node = b.space[s].node
    PROVE  LET c == [b EXCEPT !.space[s] = x] IN
           Touches(b, c, s) /\ c.space[s] = x /\ c.exits = b.exits
<1> DEFINE X == b.exits
           S == b.stale
           c == Replaced(b, s, x, X, S)
<1>1. [b EXCEPT !.space[s] = x] = c
  BY DEF Replaced, Bank
<1>2. X \subseteq Node /\ S \subseteq Slot /\ OtherNodesIn(b, X, s) /\ OtherStaleIn(b, S, s)
  BY BankParts DEF OtherNodesIn, OtherStaleIn
<1>3. NodesKnown(b, s) => Known(s, x, X, S)
  BY DEF NodesKnown, Known
<1> HIDE DEF X, S
<1>4. Touches(b, c, s) /\ c.space[s] = x /\ c.exits = X
  BY <1>2, <1>3, SpaceAndNodesReplaced
<1> HIDE DEF c
<1> QED BY <1>1, <1>4 DEF X

LEMMA TouchesTransitive ==
    ASSUME NEW b, NEW c, NEW d, NEW s, Touches(b, c, s), Touches(c, d, s)
    PROVE  Touches(b, d, s)
BY DEF Touches, SameContainers, SameOthers, OtherNodesIn, OtherStaleIn

LEMMA ExitEffect ==
    ASSUME NEW b \in Bank, NEW s \in Slot, CanNote(b, s), MarkHolds(b, s)
    PROVE  LET c == setSpaceExit(b, s) IN
           Touches(b, c, s) /\ SameNames(b, c, s) /\ MarkHolds(c, s) /\ SameState(b, c, s)
<1>1. CASE b.space[s].error \/ b.space[s].context = None
  BY <1>1 DEF setSpaceExit, Touches, SameContainers, SameOthers, OtherNodesIn, OtherStaleIn,
              SameNames, SameState
<1>2. CASE ~(b.space[s].error \/ b.space[s].context = None)
  <2> DEFINE n == CHOOSE n \in 1..MaxNodes : <<s, n>> \notin b.exits
             x == [b.space[s] EXCEPT !.error = TRUE, !.node = n]
             X == b.exits \cup {<<s, n>>}
             S == b.stale
             c == Replaced(b, s, x, X, S)
  <2>1. n \in 1..MaxNodes
    BY DEF CanNote
  <2>2. setSpaceExit(b, s) = c
    <3> DEFINE a == [b EXCEPT !.space[s] = x, !.exits = X]
    <3>1. setSpaceExit(b, s) = a
      BY <1>2 DEF setSpaceExit
    <3> HIDE DEF x, X
    <3>2. a = c
      BY DEF Replaced, Bank
    <3> QED BY <3>1, <3>2
  <2> HIDE DEF n
  <2>3. n \in 0..MaxNodes /\ b.space[s] \in RanaSpace
    BY <2>1, BankParts
  <2>4. x \in RanaSpace
    BY <2>3 DEF RanaSpace
  <2>5. /\ x.serial = b.space[s].serial /\ x.error = TRUE /\ x.node = n
        /\ x.context = b.space[s].context /\ x.open = b.space[s].open
        /\ x.status = b.space[s].status /\ x.type = b.space[s].type /\ x.name = b.space[s].name
    BY <2>3 DEF RanaSpace
  <2>6. X \subseteq Node /\ OtherNodesIn(b, X, s) /\ S \subseteq Slot /\ OtherStaleIn(b, S, s)
    BY <2>1, BankParts DEF Node, OtherNodesIn, OtherStaleIn
  <2>7. <<s, n>> \in X
    OBVIOUS
  <2>9. NodesKnown(b, s) => Known(s, x, X, S)
    BY <1>2, <2>5 DEF NodesKnown, Known
  <2> HIDE DEF x, X, S
  <2>8. Touches(b, c, s) /\ c.space[s] = x /\ c.exits = X
    BY <2>4, <2>5, <2>6, <2>9, SpaceAndNodesReplaced
  <2> HIDE DEF c
  <2> QED BY <1>2, <2>2, <2>5, <2>7, <2>8 DEF SameNames, SameState, MarkHolds
<1> QED BY <1>1, <1>2

LEMMA LoadedEffect ==
    ASSUME NEW b \in Bank, NEW s \in Slot, NEW raised \in BOOLEAN,
           raised => CanNote(b, s), MarkHolds(b, s)
    PROVE  LET c == Loaded(b, s, raised) IN
           Touches(b, c, s) /\ SameNames(b, c, s) /\ MarkHolds(c, s) /\ SameState(b, c, s)
<1>1. CASE raised
  BY <1>1, ExitEffect DEF Loaded
<1>2. CASE ~raised
  BY <1>2 DEF Loaded, Touches, SameContainers, SameOthers, OtherNodesIn, OtherStaleIn,
              SameNames, SameState
<1> QED BY <1>1, <1>2

LEMMA OpenedEffect ==
    ASSUME NEW b \in Bank, NEW s \in Slot, NEW n \in Name \cup {None},
           NEW t \in Type \cup {None}, NEW k \in Context \cup {None}
    PROVE  LET c == Opened(b, s, n, t, k) IN
           /\ Touches(b, c, s) /\ MarkHolds(c, s) /\ c.exits = b.exits
           /\ c.space[s].type = t /\ c.space[s].name = n /\ c.space[s].open
           /\ c.space[s].context = k
<1> DEFINE x == [b.space[s] EXCEPT !.type = t, !.name = n, !.open = TRUE,
                                   !.context = k, !.error = FALSE]
           X == b.exits
           S == IF b.space[s].error THEN b.stale \cup {s} ELSE b.stale
           c == Replaced(b, s, x, X, S)
<1>1. b.space[s] \in RanaSpace
  BY BankParts
<1>2. x \in RanaSpace
  BY <1>1 DEF RanaSpace
<1>3. /\ x.serial = b.space[s].serial /\ x.error = FALSE /\ x.open = TRUE
      /\ x.type = t /\ x.name = n /\ x.context = k
  BY <1>1 DEF RanaSpace
<1>4. Opened(b, s, n, t, k) = c
  BY DEF Opened, Replaced, Bank
<1>6. X \subseteq Node /\ S \subseteq Slot /\ OtherNodesIn(b, X, s) /\ OtherStaleIn(b, S, s)
  BY BankParts DEF OtherNodesIn, OtherStaleIn
<1>7. NodesKnown(b, s) => Known(s, x, X, S)
  BY DEF NodesKnown, Known
<1> HIDE DEF x, X, S
<1>5. Touches(b, c, s) /\ c.space[s] = x /\ c.exits = X
  BY <1>2, <1>3, <1>6, <1>7, SpaceAndNodesReplaced
<1> HIDE DEF c
<1> QED BY <1>3, <1>4, <1>5 DEF MarkHolds, X

\* The members that a change of the state alone leaves as they are.
LEMMA StatusEffect ==
    ASSUME NEW b \in Bank, NEW s \in Slot, NEW v \in Status
    PROVE  LET c == [b EXCEPT !.space[s].status = v] IN
           /\ Touches(b, c, s) /\ SameNames(b, c, s) /\ c.exits = b.exits
           /\ c.space[s].status = v /\ c.space[s].open = b.space[s].open
           /\ MarkHolds(b, s) => MarkHolds(c, s)
           /\ c.space[s].context = b.space[s].context
<1> DEFINE x == [b.space[s] EXCEPT !.status = v]
           c == [b EXCEPT !.space[s] = x]
<1>1. b.space[s] \in RanaSpace
  BY BankParts
<1>2. x \in RanaSpace
  BY <1>1 DEF RanaSpace
<1>3. /\ x.serial = b.space[s].serial /\ x.error = b.space[s].error
      /\ x.open = b.space[s].open /\ x.type = b.space[s].type /\ x.name = b.space[s].name
      /\ x.context = b.space[s].context /\ x.node = b.space[s].node /\ x.status = v
  BY <1>1 DEF RanaSpace
<1>4. [b EXCEPT !.space[s].status = v] = c
  OBVIOUS
<1> HIDE DEF x
<1>5. Touches(b, c, s) /\ c.space[s] = x /\ c.exits = b.exits
  BY <1>2, <1>3, SpaceReplaced
<1> HIDE DEF c
<1> QED BY <1>3, <1>4, <1>5 DEF MarkHolds, SameNames

LEMMA ClosedEffect ==
    ASSUME NEW b \in Bank, NEW s \in Slot
    PROVE  LET c == Closed(b, s) IN
           Touches(b, c, s) /\ SameNames(b, c, s) /\ c.exits = b.exits
           /\ c.space[s].context = b.space[s].context
<1> DEFINE x == [b.space[s] EXCEPT !.open = FALSE, !.status = "SS_TERMINATE"]
           c == [b EXCEPT !.space[s] = x]
<1>1. b.space[s] \in RanaSpace /\ "SS_TERMINATE" \in Status
  BY BankParts DEF Status
<1>2. x \in RanaSpace
  BY <1>1 DEF RanaSpace
<1>3. /\ x.serial = b.space[s].serial /\ x.type = b.space[s].type
      /\ x.name = b.space[s].name /\ x.context = b.space[s].context
      /\ x.error = b.space[s].error /\ x.node = b.space[s].node
  BY <1>1 DEF RanaSpace
<1>4. Closed(b, s) = c
  BY DEF Closed
<1> HIDE DEF x
<1>5. Touches(b, c, s) /\ c.space[s] = x /\ c.exits = b.exits
  BY <1>2, <1>3, SpaceReplaced
<1> HIDE DEF c
<1> QED BY <1>3, <1>4, <1>5 DEF SameNames

LEMMA NoExitEffect ==
    ASSUME NEW b \in Bank, NEW s \in Slot
    PROVE  LET c == NoExit(b, s) IN
           /\ Touches(b, c, s) /\ SameNames(b, c, s) /\ ~c.space[s].error
<1>1. CASE ~b.space[s].error
  BY <1>1 DEF NoExit, Touches, SameContainers, SameOthers, OtherNodesIn, OtherStaleIn, SameNames
<1>2. CASE b.space[s].error
  <2> DEFINE x == [b.space[s] EXCEPT !.error = FALSE]
             X == b.exits \ {<<s, b.space[s].node>>}
             S == b.stale
             c == Replaced(b, s, x, X, S)
  <2>1. b.space[s] \in RanaSpace
    BY BankParts
  <2>2. x \in RanaSpace
    BY <2>1 DEF RanaSpace
  <2>3. /\ x.serial = b.space[s].serial /\ x.error = FALSE
        /\ x.type = b.space[s].type /\ x.name = b.space[s].name
    BY <2>1 DEF RanaSpace
  <2>4. X \subseteq Node /\ OtherNodesIn(b, X, s) /\ S \subseteq Slot /\ OtherStaleIn(b, S, s)
    BY BankParts DEF OtherNodesIn, OtherStaleIn
  <2>5. NoExit(b, s) = c
    BY <1>2 DEF NoExit, Replaced, Bank
  <2>7. NodesKnown(b, s) => Known(s, x, X, S)
    <3>1. ASSUME NEW e \in Node, e[1] = s, b.space[s].node = e[2] PROVE e \notin X
      BY <3>1 DEF Node
    <3> QED BY <3>1 DEF NodesKnown, Known
  <2> HIDE DEF x, X, S
  <2>6. Touches(b, c, s) /\ c.space[s] = x
    BY <2>2, <2>3, <2>4, <2>7, SpaceAndNodesReplaced
  <2> HIDE DEF c
  <2> QED BY <2>3, <2>5, <2>6 DEF SameNames
<1> QED BY <1>1, <1>2

-----------------------------------------------------------------------------
(* The inductive invariant of the pool.  What it adds to PoolConsistent:   *)
(* the serials of the active spaces and of those that are gone are below   *)
(* the next one, which is why an old handle cannot match a new space.      *)

UnusedApart(b) ==
    /\ \A i, j \in DOMAIN b.unused : b.unused[i] = b.unused[j] => i = j
    /\ \A u \in Slot : u \in b.active <=> ~\E i \in DOMAIN b.unused : b.unused[i] = u
    /\ b.table = b.active

NamesApart(b) ==
    /\ \A u \in Slot : u \in b.active => <<b.space[u].type, b.space[u].name, u>> \in b.names
    /\ \A e \in b.names : /\ e[3] \in b.active
                          /\ e[1] = b.space[e[3]].type /\ e[2] = b.space[e[3]].name
    /\ \A e, f \in b.names : e[1] = f[1] /\ e[2] = f[2] => e = f

SerialsGiven(b) == \A u \in b.active : b.space[u].serial < b.next

StateOf(b, u) ==
    /\ u \in b.active <=> b.space[u].open
    /\ u \in b.active <=> b.space[u].status = "SS_RUNING"
MarkOf(b, u) == b.space[u].error => u \in b.active /\ MarkHolds(b, u)

NodesApart(b) == \A u \in Slot : NodesKnown(b, u)

Apart(b) ==
    b \in Bank /\ UnusedApart(b) /\ NamesApart(b) /\ SerialsGiven(b) /\ NodesApart(b)
Good(b) == Apart(b) /\ \A u \in Slot : StateOf(b, u) /\ MarkOf(b, u)

\* In an operation on space s all but its state agrees.
GoodBut(b, s) ==
    /\ Apart(b) /\ s \in b.active
    /\ \A u \in Slot : u # s => StateOf(b, u) /\ MarkOf(b, u)

\* The handles of g find nothing and never will.
Outdated(b, g) ==
    \A h \in g : h[2] < b.next /\ (h[1] \in b.table => b.space[h[1]].serial # h[2])

\* The program has ended only at a node that a reload left.
CrashExplained(b) == b.crashed => \E u \in b.stale : b.space[u].context = None

IInv == TypeOK /\ Good(bank) /\ Outdated(bank, gone) /\ CrashExplained(bank)

\* The nodes of the other spaces stay known.
LEMMA NodesKnownKept ==
    ASSUME NEW b, NEW c, NEW s \in Slot, NEW u \in Slot, u # s, NodesKnown(b, u),
           c.space[u] = b.space[u], OtherNodesIn(b, c.exits, s), OtherStaleIn(b, c.stale, s)
    PROVE  NodesKnown(c, u)
BY DEF NodesKnown, Known, OtherNodesIn, OtherStaleIn

LEMMA TouchedGoodBut ==
    ASSUME NEW b, NEW c, NEW s \in Slot, GoodBut(b, s), Touches(b, c, s), SameNames(b, c, s)
    PROVE  GoodBut(c, s)
<1>1. /\ c.active = b.active /\ c.unused = b.unused /\ c.table = b.table
      /\ c.names = b.names /\ c.next = b.next
  BY DEF Touches, SameContainers
<1>2. \A u \in Slot : /\ c.space[u].type = b.space[u].type
                      /\ c.space[u].name = b.space[u].name
                      /\ c.space[u].serial = b.space[u].serial
  BY DEF Touches, SameNames, SameOthers
<1>3. b \in Bank /\ c \in Bank
  BY DEF Touches, GoodBut, Apart
<1>4. b.active \subseteq Slot /\ \A e \in b.names : e[3] \in Slot
  BY <1>3, BankParts
<1>5. UnusedApart(c)
  BY <1>1 DEF UnusedApart, GoodBut, Apart
<1>6. NamesApart(c)
  <2>1. NamesApart(b)
    BY DEF GoodBut, Apart
  <2> QED BY <2>1, <1>1, <1>2, <1>4 DEF NamesApart
<1>7. SerialsGiven(c)
  BY <1>1, <1>2, <1>4 DEF SerialsGiven, GoodBut, Apart
<1>8. ASSUME NEW u \in Slot, u # s PROVE StateOf(c, u) /\ MarkOf(c, u)
  <2>1. c.space[u] = b.space[u]
    BY <1>8 DEF Touches, SameOthers
  <2>2. b.space[u].node \in 0..MaxNodes
    BY <1>3, BankParts DEF RanaSpace
  <2>3. StateOf(b, u) /\ MarkOf(b, u)
    BY <1>8 DEF GoodBut
  <2>4. <<u, b.space[u].node>> \in b.exits => <<u, b.space[u].node>> \in c.exits
    <3>1. b.exits \subseteq Node
      BY <1>3, BankParts
    <3>2. OtherNodesIn(b, c.exits, s)
      BY DEF Touches, SameOthers
    <3> QED BY <1>8, <3>1, <3>2 DEF OtherNodesIn
  <2> QED BY <1>1, <2>1, <2>3, <2>4 DEF StateOf, MarkOf, MarkHolds
<1>9. NodesApart(c)
  <2>1. NodesApart(b)
    BY DEF GoodBut, Apart
  <2>2. NodesKnown(c, s)
    BY <2>1 DEF NodesApart, Touches
  <2>3. ASSUME NEW u \in Slot, u # s PROVE NodesKnown(c, u)
    BY <2>1, <2>3, NodesKnownKept DEF NodesApart, Touches, SameOthers
  <2> QED BY <2>2, <2>3 DEF NodesApart
<1> QED BY <1>1, <1>3, <1>5, <1>6, <1>7, <1>8, <1>9 DEF GoodBut, Apart

LEMMA Completed ==
    ASSUME NEW c, NEW s \in Slot, GoodBut(c, s), c.space[s].open,
           c.space[s].status = "SS_RUNING", MarkHolds(c, s)
    PROVE  Good(c)
BY DEF GoodBut, Good, StateOf, MarkOf

LEMMA GoodIsGoodBut ==
    ASSUME NEW b, NEW s \in Slot, Good(b), s \in b.table
    PROVE  /\ b \in Bank /\ GoodBut(b, s) /\ s \in b.active /\ MarkHolds(b, s)
           /\ b.space[s].open /\ b.space[s].status = "SS_RUNING"
<1>1. s \in b.active
  BY DEF Good, Apart, UnusedApart
<1>2. StateOf(b, s) /\ MarkOf(b, s)
  BY DEF Good
<1> QED BY <1>1, <1>2 DEF GoodBut, Good, Apart, StateOf, MarkOf, MarkHolds

\* The space that delSpace returns to the pool.
LEMMA FreedGood ==
    ASSUME NEW b, NEW s \in Slot, GoodBut(b, s), ~b.space[s].error
    PROVE  LET c == Freed(b, s) IN
           /\ Good(c) /\ c.table = b.table \ {s} /\ c.next = b.next
           /\ \A u \in Slot : u # s => c.space[u] = b.space[u]
           /\ c.active = b.active \ {s} /\ c.exits = b.exits /\ c.crashed = b.crashed
<1> DEFINE x == [b.space[s] EXCEPT !.status = "SS_TERMINATE", !.open = FALSE]
           c == Freed(b, s)
<1>1. b \in Bank /\ b.space[s] \in RanaSpace /\ "SS_TERMINATE" \in Status
  BY BankParts DEF GoodBut, Apart, Status
<1>2. x \in RanaSpace
  BY <1>1 DEF RanaSpace
<1>3. /\ x.status = "SS_TERMINATE" /\ x.open = FALSE /\ x.error = b.space[s].error
      /\ x.node = b.space[s].node
  BY <1>1 DEF RanaSpace
<1>4. /\ c.space = [b.space EXCEPT ![s] = x]
      /\ c.active = b.active \ {s} /\ c.unused = Append(b.unused, s)
      /\ c.table = b.table \ {s} /\ c.exits = b.exits /\ c.next = b.next
      /\ c.names = {e \in b.names : <<e[1], e[2]>> # <<b.space[s].type, b.space[s].name>>}
      /\ c.stale = b.stale /\ c.crashed = b.crashed
  BY <1>1 DEF Freed, Bank
<1>5. Append(b.unused, s) \in Seq(Slot)
  BY <1>1, BankParts
<1>6. c \in Bank
  <2> DEFINE N == {e \in b.names : <<e[1], e[2]>> # <<b.space[s].type, b.space[s].name>>}
  <2>1. c = [b EXCEPT !.space[s] = x, !.active = b.active \ {s},
                      !.unused = Append(b.unused, s), !.table = b.table \ {s}, !.names = N]
    BY DEF Freed
  <2>2. N \subseteq b.names
    OBVIOUS
  <2> HIDE DEF x, N, c
  <2> QED BY <1>1, <1>2, <1>5, <2>1, <2>2 DEF Bank
<1> HIDE DEF x, c
<1>7. c.space[s] = x /\ \A u \in Slot : u # s => c.space[u] = b.space[u]
  BY <1>1, <1>4, BankParts
<1>8. UnusedApart(c)
  <2>1. UnusedApart(b) /\ s \in b.active /\ b.unused \in Seq(Slot) /\ b.active \subseteq Slot
    BY <1>1, BankParts DEF GoodBut, Apart
  <2>2. ~\E i \in DOMAIN b.unused : b.unused[i] = s
    BY <2>1 DEF UnusedApart
  <2>3. /\ DOMAIN c.unused = 1..(Len(b.unused) + 1) /\ DOMAIN b.unused = 1..Len(b.unused)
        /\ Len(b.unused) \in Nat
        /\ \A i \in DOMAIN b.unused : c.unused[i] = b.unused[i]
        /\ c.unused[Len(b.unused) + 1] = s
    BY <1>4, <2>1
  <2>4. \A i, j \in DOMAIN c.unused : c.unused[i] = c.unused[j] => i = j
    BY <2>1, <2>2, <2>3 DEF UnusedApart
  <2>5. \A u \in Slot : (\E i \in DOMAIN c.unused : c.unused[i] = u)
                        <=> u = s \/ \E i \in DOMAIN b.unused : b.unused[i] = u
    BY <2>3
  <2> QED BY <1>4, <2>1, <2>4, <2>5 DEF UnusedApart
<1>9. NamesApart(c)
  <2>1. NamesApart(b) /\ s \in b.active /\ b.active \subseteq Slot
    BY <1>1, BankParts DEF GoodBut, Apart
  <2>2. \A e \in c.names : e \in b.names /\ e[3] # s /\ e[3] \in Slot
    BY <1>1, <1>4, <2>1, BankParts DEF NamesApart
  <2>3. ASSUME NEW u \in Slot, u \in c.active
        PROVE  <<c.space[u].type, c.space[u].name, u>> \in c.names
    <3> DEFINE e == <<b.space[u].type, b.space[u].name, u>>
               f == <<b.space[s].type, b.space[s].name, s>>
    <3>1. u # s /\ e \in b.names /\ f \in b.names
      BY <1>4, <2>1, <2>3 DEF NamesApart
    <3>2. ~(e[1] = f[1] /\ e[2] = f[2])
      <4>1. e # f
        BY <3>1
      <4> HIDE DEF e, f
      <4> QED BY <3>1, <4>1, <2>1 DEF NamesApart
    <3>3. e \in c.names
      BY <1>4, <3>1, <3>2
    <3> QED BY <1>7, <3>1, <3>3
  <2> QED BY <1>4, <1>7, <2>1, <2>2, <2>3 DEF NamesApart
<1>10. SerialsGiven(c)
  BY <1>1, <1>4, <1>7, BankParts DEF SerialsGiven, GoodBut, Apart
<1>11. ASSUME NEW u \in Slot PROVE StateOf(c, u) /\ MarkOf(c, u)
  <2>1. CASE u = s
    BY <1>3, <1>4, <1>7, <2>1 DEF StateOf, MarkOf
  <2>2. CASE u # s
    BY <1>4, <1>7, <2>2 DEF StateOf, MarkOf, MarkHolds, GoodBut
  <2> QED BY <2>1, <2>2
<1>12. NodesApart(c)
  <2>1. NodesApart(b)
    BY DEF GoodBut, Apart
  <2>2. NodesKnown(c, s)
    BY <1>3, <1>4, <1>7, <2>1 DEF NodesApart, NodesKnown, Known
  <2>3. \A u \in Slot : u # s => NodesKnown(c, u)
    BY <1>4, <1>7, <2>1 DEF NodesApart, NodesKnown, Known
  <2> QED BY <2>2, <2>3 DEF NodesApart
<1> QED BY <1>4, <1>6, <1>7, <1>8, <1>9, <1>10, <1>11, <1>12 DEF Good, Apart, c

\* The space that createSpace takes out of the pool and names.
LEMMA TakenOpenedGoodBut ==
    ASSUME NEW b, Good(b), NEW n \in Name, NEW t \in Type, NEW k \in Context \cup {None},
           b.unused # <<>>, ~\E u \in Slot : <<t, n, u>> \in b.names
    PROVE  LET s == Head(b.unused)
               c == Opened(Taken(b, n, t), s, n, t, k) IN
           /\ s \in Slot /\ s \notin b.active /\ GoodBut(c, s) /\ MarkHolds(c, s)
           /\ c.space[s].open /\ c.space[s].serial = b.next /\ c.next = b.next + 1
           /\ c.table = b.table \cup {s} /\ c.exits = b.exits
           /\ \A u \in Slot : u # s => c.space[u] = b.space[u]
           /\ c.space[s].type = t /\ c.crashed = b.crashed
<1> DEFINE s == Head(b.unused)
           x == [b.space[s] EXCEPT !.status = "SS_INIT", !.serial = b.next]
           d == Taken(b, n, t)
           c == Opened(d, s, n, t, k)
<1>1. b \in Bank /\ UnusedApart(b) /\ NamesApart(b) /\ SerialsGiven(b)
  BY DEF Good, Apart
<1>2. /\ b.unused \in Seq(Slot) /\ Len(b.unused) \in Nat /\ Len(b.unused) > 0
      /\ s \in Slot /\ s = b.unused[1] /\ 1 \in DOMAIN b.unused
      /\ b.next \in Nat
  BY <1>1, BankParts
<1>3. s \notin b.active
  BY <1>1, <1>2 DEF UnusedApart
<1>4. b.space[s] \in RanaSpace /\ "SS_INIT" \in Status
  BY <1>1, <1>2, BankParts DEF Status
<1>5. x \in RanaSpace
  BY <1>2, <1>4 DEF RanaSpace
<1>6. x.serial = b.next /\ x.error = b.space[s].error /\ x.node = b.space[s].node
  BY <1>4 DEF RanaSpace
<1>7. /\ d.space = [b.space EXCEPT ![s] = x] /\ d.active = b.active \cup {s}
      /\ d.unused = Tail(b.unused) /\ d.table = b.table \cup {s} /\ d.exits = b.exits
      /\ d.next = b.next + 1 /\ d.names = b.names \cup {<<t, n, s>>}
      /\ d.stale = b.stale /\ d.crashed = b.crashed
  BY <1>1 DEF Taken, Bank
<1>8. d \in Bank
  <2>1. d = [b EXCEPT !.space[s] = x, !.next = b.next + 1, !.unused = Tail(b.unused),
                      !.active = b.active \cup {s}, !.names = b.names \cup {<<t, n, s>>},
                      !.table = b.table \cup {s}]
    BY DEF Taken
  <2>2. Tail(b.unused) \in Seq(Slot) /\ b.next + 1 \in Nat
        /\ <<t, n, s>> \in Type \X Name \X Slot
    BY <1>2
  <2> HIDE DEF x, d, s
  <2> QED BY <1>1, <1>2, <1>5, <2>1, <2>2 DEF Bank
<1> HIDE DEF x, d, c
<1>9. /\ Touches(d, c, s) /\ MarkHolds(c, s) /\ c.exits = d.exits
      /\ c.space[s].type = t /\ c.space[s].name = n /\ c.space[s].open
  BY <1>2, <1>8, OpenedEffect DEF c
<1> HIDE DEF s
<1>10. /\ c \in Bank /\ c.active = b.active \cup {s} /\ c.unused = Tail(b.unused)
       /\ c.table = b.table \cup {s} /\ c.names = b.names \cup {<<t, n, s>>}
       /\ c.next = b.next + 1 /\ c.crashed = b.crashed
       /\ \A u \in Slot : u # s => c.space[u] = b.space[u]
       /\ c.space[s].serial = b.next
  BY <1>1, <1>2, <1>6, <1>7, <1>9, BankParts DEF Touches, SameContainers, SameOthers
<1>11. b.active \subseteq Slot /\ \A e \in b.names : e[1] \in Type /\ e[2] \in Name
                                                     /\ e[3] \in Slot /\ e = <<e[1], e[2], e[3]>>
  BY <1>1, BankParts
<1>12. UnusedApart(c)
  <2>1. /\ DOMAIN c.unused = 1..(Len(b.unused) - 1) /\ DOMAIN b.unused = 1..Len(b.unused)
        /\ \A i \in DOMAIN c.unused : c.unused[i] = b.unused[i + 1]
    BY <1>2, <1>10
  <2> \A i \in DOMAIN c.unused : i \in Int /\ i + 1 \in DOMAIN b.unused /\ i + 1 # 1
    BY <1>2, <2>1
  <2>2. \A i, j \in DOMAIN c.unused : c.unused[i] = c.unused[j] => i = j
    <3> SUFFICES ASSUME NEW i \in DOMAIN c.unused, NEW j \in DOMAIN c.unused,
                        c.unused[i] = c.unused[j]
                 PROVE  i = j
      OBVIOUS
    <3>1. b.unused[i + 1] = b.unused[j + 1]
      BY <2>1
    <3>2. i + 1 = j + 1
      BY <1>1, <3>1 DEF UnusedApart
    <3> QED BY <3>2
  <2>3. \A u \in Slot : (\E i \in DOMAIN b.unused : b.unused[i] = u)
                        <=> u = s \/ \E i \in DOMAIN c.unused : c.unused[i] = u
    <3> SUFFICES ASSUME NEW u \in Slot
                 PROVE  (\E i \in DOMAIN b.unused : b.unused[i] = u)
                        <=> u = s \/ \E i \in DOMAIN c.unused : c.unused[i] = u
      OBVIOUS
    <3>1. ASSUME NEW i \in DOMAIN b.unused, b.unused[i] = u, u # s
          PROVE  \E j \in DOMAIN c.unused : c.unused[j] = u
      <4>1. i - 1 \in DOMAIN c.unused /\ c.unused[i - 1] = u
        BY <1>2, <2>1, <3>1
      <4> QED BY <4>1
    <3>2. ASSUME NEW j \in DOMAIN c.unused PROVE j + 1 \in DOMAIN b.unused
      BY <1>2, <2>1
    <3> QED BY <1>2, <2>1, <3>1, <3>2
  <2>4. ~\E i \in DOMAIN c.unused : c.unused[i] = s
    <3> SUFFICES ASSUME NEW i \in DOMAIN c.unused, c.unused[i] = s PROVE FALSE
      OBVIOUS
    <3>1. b.unused[i + 1] = b.unused[1]
      BY <1>2, <2>1
    <3> QED BY <1>1, <1>2, <3>1 DEF UnusedApart
  <2> QED BY <1>1, <1>2, <1>10, <2>2, <2>3, <2>4 DEF UnusedApart
<1>13. NamesApart(c)
  <2>1. \A e \in b.names : e[3] # s
    BY <1>1, <1>3 DEF NamesApart
  <2>2. \A e \in b.names : ~(e[1] = t /\ e[2] = n)
    BY <1>11
  <2>3. ASSUME NEW u \in Slot, u \in c.active
        PROVE  <<c.space[u].type, c.space[u].name, u>> \in c.names
    BY <1>1, <1>9, <1>10, <2>3 DEF NamesApart
  <2>4. ASSUME NEW e \in c.names
        PROVE  e[3] \in c.active /\ e[1] = c.space[e[3]].type /\ e[2] = c.space[e[3]].name
    <3>1. CASE e \in b.names
      BY <1>1, <1>10, <1>11, <2>1, <3>1 DEF NamesApart
    <3>2. CASE e = <<t, n, s>>
      BY <1>9, <1>10, <3>2
    <3> QED BY <1>10, <3>1, <3>2
  <2>5. ASSUME NEW e \in c.names, NEW f \in c.names, e[1] = f[1], e[2] = f[2]
        PROVE  e = f
    <3>1. CASE e \in b.names /\ f \in b.names
      BY <1>1, <2>5, <3>1 DEF NamesApart
    <3>2. CASE e = <<t, n, s>> /\ f = <<t, n, s>>
      BY <3>2
    <3>3. ~(e \in b.names /\ f = <<t, n, s>>) /\ ~(f \in b.names /\ e = <<t, n, s>>)
      BY <2>2, <2>5
    <3> QED BY <1>10, <3>1, <3>2, <3>3
  <2> QED BY <2>3, <2>4, <2>5 DEF NamesApart
<1>14. SerialsGiven(c)
  <2> SUFFICES ASSUME NEW u \in c.active PROVE c.space[u].serial < c.next
    BY DEF SerialsGiven
  <2>1. CASE u = s
    BY <1>2, <1>10, <2>1
  <2>2. CASE u # s
    <3>1. u \in b.active /\ u \in Slot
      BY <1>10, <1>11, <2>2
    <3>2. b.space[u].serial \in Nat /\ b.space[u].serial < b.next
      BY <1>1, <3>1, BankParts DEF SerialsGiven, RanaSpace
    <3> QED BY <1>2, <1>10, <2>2, <3>1, <3>2
  <2> QED BY <2>1, <2>2
<1>15. ASSUME NEW u \in Slot, u # s PROVE StateOf(c, u) /\ MarkOf(c, u)
  <2>1. StateOf(b, u) /\ MarkOf(b, u)
    BY DEF Good
  <2> QED BY <1>7, <1>9, <1>10, <1>15, <2>1 DEF StateOf, MarkOf, MarkHolds
<1>16. NodesApart(c)
  <2>1. NodesApart(b) /\ b.space \in [Slot -> RanaSpace]
    BY <1>1, BankParts DEF Good, Apart
  <2>2. d.space[s] = x
    BY <1>2, <1>7, <2>1
  <2>3. NodesKnown(d, s)
    BY <1>2, <1>6, <1>7, <2>1, <2>2 DEF NodesApart, NodesKnown, Known
  <2>4. NodesKnown(c, s)
    BY <1>9, <2>3 DEF Touches
  <2>5. OtherNodesIn(b, c.exits, s) /\ OtherStaleIn(b, c.stale, s)
    BY <1>7, <1>9 DEF Touches, SameOthers, OtherNodesIn, OtherStaleIn
  <2>6. ASSUME NEW u \in Slot, u # s PROVE NodesKnown(c, u)
    BY <1>2, <1>10, <2>1, <2>5, <2>6, NodesKnownKept DEF NodesApart
  <2> QED BY <2>4, <2>6 DEF NodesApart
<1> QED BY <1>2, <1>3, <1>7, <1>9, <1>10, <1>12, <1>13, <1>14, <1>15, <1>16
        DEF GoodBut, Apart, c, d, s

\* delSpace on a space that is in the table.
LEMMA DelSpaceGood ==
    ASSUME NEW b, NEW s \in Slot, GoodBut(b, s)
    PROVE  LET c == delSpace(b, HandleOf(b, s)) IN
           /\ Good(c) /\ c.table = b.table \ {s} /\ c.next = b.next
           /\ c.active = b.active \ {s} /\ c.crashed = b.crashed
           /\ \A u \in Slot : u # s => c.space[u] = b.space[u]
<1>1. b \in Bank /\ s \in b.table
  BY DEF GoodBut, Apart, UnusedApart
<1>2. getLuaSpace(b, HandleOf(b, s)) = s
  BY <1>1 DEF getLuaSpace, HandleOf
<1>3. delSpace(b, HandleOf(b, s)) = Freed(NoExit(b, s), s)
  BY <1>2 DEF delSpace, HandleOf, Slot
<1> DEFINE d == NoExit(b, s)
           c == Freed(d, s)
<1>4. Touches(b, d, s) /\ SameNames(b, d, s) /\ ~d.space[s].error
  BY <1>1, NoExitEffect
<1> HIDE DEF d
<1>5. GoodBut(d, s)
  BY <1>4, TouchedGoodBut
<1>6. /\ Good(c) /\ c.table = d.table \ {s} /\ c.next = d.next /\ c.active = d.active \ {s}
      /\ c.crashed = d.crashed
      /\ \A u \in Slot : u # s => c.space[u] = d.space[u]
  BY <1>4, <1>5, FreedGood
<1> HIDE DEF c
<1> QED BY <1>3, <1>4, <1>6 DEF c, d, Touches, SameContainers, SameOthers

-----------------------------------------------------------------------------
(* The operations. *)

\* The handles of spaces that went find nothing in what comes after.
LEMMA OutdatedKept ==
    ASSUME NEW b \in Bank, NEW c \in Bank, NEW g, g \subseteq Slot \X Nat, Outdated(b, g),
           c.next \in {b.next, b.next + 1},
           \A u \in Slot : u \in c.table => \/ u \in b.table /\ c.space[u].serial = b.space[u].serial
                                            \/ c.space[u].serial = b.next
    PROVE  Outdated(c, g)
<1> SUFFICES ASSUME NEW h \in g
             PROVE  h[2] < c.next /\ (h[1] \in c.table => c.space[h[1]].serial # h[2])
  BY DEF Outdated
<1>1. b.next \in Nat /\ h[1] \in Slot /\ h[2] \in Nat
  BY BankParts
<1>2. h[2] < b.next /\ (h[1] \in b.table => b.space[h[1]].serial # h[2])
  BY DEF Outdated
<1> QED BY <1>1, <1>2

\* The handle of space s joins them when the space has left the table.
LEMMA OutdatedJoined ==
    ASSUME NEW b \in Bank, NEW g, Outdated(b, g), NEW s \in Slot, NEW n \in Nat,
           s \notin b.table, n < b.next
    PROVE  Outdated(b, g \cup {<<s, n>>})
BY DEF Outdated

LEMMA CanNoteSame ==
    ASSUME NEW b, NEW c, NEW s, CanNote(b, s), c.exits = b.exits
    PROVE  CanNote(c, s)
BY DEF CanNote

\* The new space when its script has run: all that createSpace has still to do
\* is to set its state.
LEMMA StartedGoodBut ==
    ASSUME IInv, NEW n \in Name, NEW t \in Type, NEW k \in Context \cup {None},
           NEW raised \in BOOLEAN, Creatable(n, t), raised => CanNote(bank, Head(bank.unused))
    PROVE  LET s == Head(bank.unused)
               d == Started(n, t, k, raised) IN
           /\ s \in Slot /\ s \notin bank.active /\ GoodBut(d, s) /\ MarkHolds(d, s)
           /\ d.space[s].open /\ d.space[s].serial = bank.next /\ d.next = bank.next + 1
           /\ d.table = bank.table \cup {s} /\ d.space[s].type = t
           /\ d.crashed = bank.crashed
           /\ \A u \in Slot : u # s => d.space[u] = bank.space[u]
<1> DEFINE s == Head(bank.unused)
           c == Opened(Taken(bank, n, t), s, n, t, k)
           d == Loaded(c, s, raised)
<1>1. Good(bank) /\ bank.unused # <<>> /\ ~\E u \in Slot : <<t, n, u>> \in bank.names
  BY DEF IInv, Creatable
<1>2. /\ s \in Slot /\ s \notin bank.active /\ GoodBut(c, s) /\ MarkHolds(c, s)
      /\ c.space[s].open /\ c.space[s].serial = bank.next /\ c.next = bank.next + 1
      /\ c.table = bank.table \cup {s} /\ c.exits = bank.exits /\ c.space[s].type = t
      /\ c.crashed = bank.crashed
      /\ \A u \in Slot : u # s => c.space[u] = bank.space[u]
  BY <1>1, TakenOpenedGoodBut
<1>3. Started(n, t, k, raised) = d
  BY DEF Started
<1> HIDE DEF c, s
<1>4. (raised => CanNote(c, s)) /\ c \in Bank
  BY <1>2, CanNoteSame DEF s, GoodBut, Apart
<1>5. Touches(c, d, s) /\ SameNames(c, d, s) /\ MarkHolds(d, s) /\ SameState(c, d, s)
  BY <1>2, <1>4, LoadedEffect
<1> HIDE DEF d
<1>6. GoodBut(d, s)
  BY <1>2, <1>5, TouchedGoodBut
<1>7. /\ d.space[s].open /\ d.space[s].serial = bank.next /\ d.next = bank.next + 1
      /\ d.table = bank.table \cup {s} /\ d.space[s].type = t /\ d.crashed = bank.crashed
      /\ \A u \in Slot : u # s => d.space[u] = bank.space[u]
  BY <1>2, <1>5 DEF Touches, SameContainers, SameOthers, SameNames, SameState
<1> QED BY <1>2, <1>3, <1>5, <1>6, <1>7 DEF s, d

\* What createSpace and reloadSpace do last: the space runs.
LEMMA RunningGood ==
    ASSUME NEW d, NEW s \in Slot, GoodBut(d, s), MarkHolds(d, s), d.space[s].open
    PROVE  LET c == Running(d, s) IN
           /\ Good(c) /\ c \in Bank /\ c.next = d.next /\ c.table = d.table
           /\ c.active = d.active /\ c.crashed = d.crashed
           /\ c.space[s].serial = d.space[s].serial /\ c.space[s].type = d.space[s].type
           /\ \A u \in Slot : u # s => c.space[u] = d.space[u]
<1> DEFINE c == Running(d, s)
<1>1. d \in Bank /\ "SS_RUNING" \in Status
  BY DEF GoodBut, Apart, Status
<1>2. /\ Touches(d, c, s) /\ SameNames(d, c, s) /\ c.space[s].status = "SS_RUNING"
      /\ c.space[s].open = d.space[s].open /\ MarkHolds(c, s)
  BY <1>1, StatusEffect DEF Running
<1> HIDE DEF c
<1>3. GoodBut(c, s)
  BY <1>2, TouchedGoodBut
<1>4. Good(c)
  BY <1>2, <1>3, Completed
<1> QED BY <1>2, <1>4 DEF c, Touches, SameContainers, SameOthers, SameNames

LEMMA CreateSpaceKeeps ==
    ASSUME IInv, NEW n \in Name, NEW t \in Type, NEW k \in Context \cup {None},
           NEW raised \in BOOLEAN, createSpace(n, t, k, raised), ~bank.crashed
    PROVE  IInv'
<1> DEFINE s == Head(bank.unused)
           d == Started(n, t, k, raised)
           c == Running(d, s)
<1>1. /\ Creatable(n, t) /\ (raised => CanNote(bank, s)) /\ bank' = c /\ gone' = gone
  BY DEF createSpace, Goes
<1>2. /\ s \in Slot /\ s \notin bank.active /\ GoodBut(d, s) /\ MarkHolds(d, s)
      /\ d.space[s].open /\ d.space[s].serial = bank.next /\ d.next = bank.next + 1
      /\ d.table = bank.table \cup {s} /\ ~d.crashed
      /\ \A u \in Slot : u # s => d.space[u] = bank.space[u]
  BY <1>1, StartedGoodBut
<1> HIDE DEF s, d
<1>3. /\ Good(c) /\ c \in Bank /\ c.next = d.next /\ c.table = d.table /\ ~c.crashed
      /\ c.space[s].serial = d.space[s].serial
      /\ \A u \in Slot : u # s => c.space[u] = d.space[u]
  BY <1>2, RunningGood
<1> HIDE DEF c
<1>4. bank \in Bank /\ gone \subseteq Slot \X Nat /\ Outdated(bank, gone)
  BY DEF IInv, TypeOK
<1>5. \A u \in Slot : u \in c.table => \/ u \in bank.table /\ c.space[u].serial = bank.space[u].serial
                                       \/ c.space[u].serial = bank.next
  BY <1>2, <1>3
<1>6. Outdated(c, gone)
  BY <1>2, <1>3, <1>4, <1>5, OutdatedKept
<1> QED BY <1>1, <1>3, <1>4, <1>6 DEF IInv, TypeOK, CrashExplained

\* delSpace on space s of b, which has just been made or comes from bank.
LEMMA DeletionKeeps ==
    ASSUME IInv, NEW b, NEW s \in Slot, GoodBut(b, s),
           b.next \in {bank.next, bank.next + 1}, b.space[s].serial < b.next,
           b.table \subseteq bank.table \cup {s}, ~b.crashed,
           \A u \in Slot : u # s => b.space[u].serial = bank.space[u].serial,
           bank' = delSpace(b, HandleOf(b, s)), gone' = gone \cup {HandleOf(b, s)}
    PROVE  IInv'
<1> DEFINE c == delSpace(b, HandleOf(b, s))
           n == b.space[s].serial
<1>1. b \in Bank /\ bank \in Bank /\ gone \subseteq Slot \X Nat /\ Outdated(bank, gone)
  BY DEF IInv, TypeOK, GoodBut, Apart
<1>2. n \in Nat /\ HandleOf(b, s) = <<s, n>>
  BY <1>1, BankParts DEF RanaSpace, HandleOf
<1>3. /\ Good(c) /\ c.table = b.table \ {s} /\ c.next = b.next /\ ~c.crashed
      /\ \A u \in Slot : u # s => c.space[u] = b.space[u]
  BY DelSpaceGood
<1>4. bank' = c /\ gone' = gone \cup {<<s, n>>}
  BY <1>2
<1> HIDE DEF c, n
<1>5. c \in Bank
  BY <1>3 DEF Good, Apart
<1>6. \A u \in Slot : u \in c.table => u \in bank.table /\ c.space[u].serial = bank.space[u].serial
  BY <1>3
<1>7. Outdated(c, gone)
  BY <1>1, <1>3, <1>5, <1>6, OutdatedKept
<1>8. Outdated(c, gone \cup {<<s, n>>})
  BY <1>2, <1>3, <1>5, <1>7, OutdatedJoined DEF n
<1>9. gone \cup {<<s, n>>} \subseteq Slot \X Nat
  BY <1>1, <1>2
<1> QED BY <1>3, <1>4, <1>5, <1>8, <1>9 DEF IInv, TypeOK, CrashExplained

LEMMA CreateSpaceFailsKeeps ==
    ASSUME IInv, NEW n \in Name, NEW t \in Type, NEW k \in Context \cup {None},
           NEW raised \in BOOLEAN, createSpaceFails(n, t, k, raised), ~bank.crashed
    PROVE  IInv'
<1> DEFINE s == Head(bank.unused)
           d == Started(n, t, k, raised)
           b == Closed(d, s)
<1>1. /\ Creatable(n, t) /\ (raised => CanNote(bank, s))
      /\ bank' = delSpace(b, HandleOf(b, s)) /\ gone' = gone \cup {HandleOf(b, s)}
  BY DEF createSpaceFails, Goes
<1>2. /\ s \in Slot /\ GoodBut(d, s)
      /\ d.space[s].serial = bank.next /\ d.next = bank.next + 1
      /\ d.table = bank.table \cup {s} /\ ~d.crashed
      /\ \A u \in Slot : u # s => d.space[u] = bank.space[u]
  BY <1>1, StartedGoodBut
<1> HIDE DEF s, d
<1>3. Touches(d, b, s) /\ SameNames(d, b, s)
  BY <1>2, ClosedEffect DEF GoodBut, Apart
<1> HIDE DEF b
<1>4. GoodBut(b, s)
  BY <1>2, <1>3, TouchedGoodBut
<1>5. /\ b.next = bank.next + 1 /\ b.space[s].serial = bank.next
      /\ b.table = bank.table \cup {s} /\ ~b.crashed
      /\ \A u \in Slot : u # s => b.space[u] = bank.space[u]
  BY <1>2, <1>3 DEF Touches, SameContainers, SameOthers
<1>6. bank.next \in Nat
  BY BankParts DEF IInv, TypeOK
<1> QED BY <1>1, <1>2, <1>4, <1>5, <1>6, DeletionKeeps

\* The space that is to be deleted or reloaded.
LEMMA TableSpace ==
    ASSUME IInv, NEW s \in Slot, s \in bank.table
    PROVE  /\ bank \in Bank /\ GoodBut(bank, s) /\ MarkHolds(bank, s) /\ s \in bank.active
           /\ bank.space[s].open /\ bank.space[s].status = "SS_RUNING"
           /\ bank.space[s].serial \in Nat /\ bank.space[s].serial < bank.next
<1>1. /\ bank \in Bank /\ GoodBut(bank, s) /\ s \in bank.active /\ MarkHolds(bank, s)
      /\ bank.space[s].open /\ bank.space[s].status = "SS_RUNING"
  BY GoodIsGoodBut DEF IInv
<1>2. bank.space[s].serial \in Nat
  BY <1>1, BankParts DEF RanaSpace
<1> QED BY <1>1, <1>2 DEF GoodBut, Apart, SerialsGiven

\* What is done to one active space, and leaves it running and its handle.
LEMMA TouchKeeps ==
    ASSUME IInv, NEW s \in Slot, NEW c, s \in bank.table, Touches(bank, c, s),
           SameNames(bank, c, s), MarkHolds(c, s), c.space[s].open,
           c.space[s].status = "SS_RUNING", ~bank.crashed, bank' = c, gone' = gone
    PROVE  IInv'
<1>1. GoodBut(bank, s)
  BY TableSpace
<1>2. GoodBut(c, s)
  BY <1>1, TouchedGoodBut
<1>3. Good(c)
  BY <1>2, Completed
<1>4. bank \in Bank /\ c \in Bank /\ gone \subseteq Slot \X Nat /\ Outdated(bank, gone)
  BY <1>3 DEF IInv, TypeOK, Good, Apart
<1>5. /\ c.next = bank.next /\ ~c.crashed
      /\ \A u \in Slot : u \in c.table => u \in bank.table /\ c.space[u].serial = bank.space[u].serial
  BY DEF Touches, SameContainers, SameOthers
<1>6. Outdated(c, gone)
  BY <1>4, <1>5, OutdatedKept
<1> QED BY <1>3, <1>4, <1>5, <1>6 DEF IInv, TypeOK, CrashExplained

LEMMA DeleteSpaceKeeps ==
    ASSUME IInv, NEW s \in Slot, deleteSpace(s), ~bank.crashed
    PROVE  IInv'
<1>1. s \in bank.table /\ bank' = delSpace(bank, HandleOf(bank, s))
      /\ gone' = gone \cup {HandleOf(bank, s)}
  BY DEF deleteSpace, Goes
<1>2. GoodBut(bank, s) /\ bank.space[s].serial < bank.next
  BY <1>1, TableSpace
<1> QED BY <1>1, <1>2, DeletionKeeps

\* The space when its new script has run.
LEMMA ReloadedTouches ==
    ASSUME IInv, NEW s \in Slot, NEW raised \in BOOLEAN, s \in bank.table,
           raised => CanNote(bank, s)
    PROVE  LET d == Reloaded(s, raised) IN
           /\ Touches(bank, d, s) /\ SameNames(bank, d, s) /\ MarkHolds(d, s)
           /\ d.space[s].open
<1> DEFINE r == bank.space[s]
           a == Closed(bank, s)
           b == [a EXCEPT !.space[s].status = "SS_INIT"]
           c == Opened(b, s, r.name, r.type, r.context)
           d == Loaded(c, s, raised)
<1>1. bank \in Bank /\ r \in RanaSpace /\ "SS_INIT" \in Status
  BY TableSpace, BankParts DEF Status
<1>2. r.name \in Name \cup {None} /\ r.type \in Type \cup {None} /\ r.context \in Context \cup {None}
  BY <1>1 DEF RanaSpace
<1>3. Reloaded(s, raised) = d
  BY DEF Reloaded
<1>4. Touches(bank, a, s) /\ a.exits = bank.exits
  BY <1>1, ClosedEffect
<1> HIDE DEF a
<1>5. Touches(a, b, s) /\ b.exits = a.exits
  BY <1>1, <1>4, StatusEffect DEF Touches
<1> HIDE DEF b, r
<1>6. /\ Touches(b, c, s) /\ MarkHolds(c, s) /\ c.exits = b.exits
      /\ c.space[s].type = r.type /\ c.space[s].name = r.name /\ c.space[s].open
  <2>1. b \in Bank
    BY <1>5 DEF Touches
  <2> DEFINE n == r.name
             t == r.type
             k == r.context
  <2>2. n \in Name \cup {None} /\ t \in Type \cup {None} /\ k \in Context \cup {None}
    BY <1>2
  <2> HIDE DEF n, t, k
  <2>3. LET o == Opened(b, s, n, t, k) IN
        /\ Touches(b, o, s) /\ MarkHolds(o, s) /\ o.exits = b.exits
        /\ o.space[s].type = t /\ o.space[s].name = n /\ o.space[s].open
    BY <2>1, <2>2, OpenedEffect, Z3
  <2> QED BY <2>3 DEF n, t, k
<1> HIDE DEF c
<1>7. c \in Bank /\ (raised => CanNote(c, s))
  BY <1>4, <1>5, <1>6, CanNoteSame DEF Touches
<1>8. Touches(c, d, s) /\ SameNames(c, d, s) /\ MarkHolds(d, s) /\ SameState(c, d, s)
  BY <1>6, <1>7, LoadedEffect
<1> HIDE DEF d
<1>9. Touches(bank, d, s)
  BY <1>4, <1>5, <1>6, <1>8, TouchesTransitive
<1> QED BY <1>3, <1>6, <1>8, <1>9 DEF SameNames, SameState, r, d

LEMMA ReloadSpaceKeeps ==
    ASSUME IInv, NEW s \in Slot, NEW raised \in BOOLEAN, reloadSpace(s, raised),
           ~bank.crashed
    PROVE  IInv'
<1> DEFINE d == Reloaded(s, raised)
           c == Running(d, s)
<1>1. s \in bank.table /\ (raised => CanNote(bank, s)) /\ bank' = c /\ gone' = gone
  BY DEF reloadSpace, Goes
<1>2. /\ Touches(bank, d, s) /\ SameNames(bank, d, s) /\ MarkHolds(d, s)
      /\ d.space[s].open
  BY <1>1, ReloadedTouches
<1> HIDE DEF d
<1>3. d \in Bank /\ "SS_RUNING" \in Status
  BY <1>2 DEF Touches, Status
<1>4. /\ Touches(d, c, s) /\ SameNames(d, c, s) /\ c.space[s].status = "SS_RUNING"
      /\ c.space[s].open = d.space[s].open /\ MarkHolds(c, s)
  BY <1>2, <1>3, StatusEffect DEF Running
<1> HIDE DEF c
<1>5. Touches(bank, c, s) /\ SameNames(bank, c, s)
  BY <1>2, <1>4, TouchesTransitive DEF SameNames
<1> QED BY <1>1, <1>2, <1>4, <1>5, TouchKeeps

LEMMA ReloadSpaceFailsKeeps ==
    ASSUME IInv, NEW s \in Slot, NEW raised \in BOOLEAN, reloadSpaceFails(s, raised),
           ~bank.crashed
    PROVE  IInv'
<1> DEFINE d == Reloaded(s, raised)
           b == Closed(d, s)
<1>1. /\ s \in bank.table /\ (raised => CanNote(bank, s))
      /\ bank' = delSpace(b, HandleOf(b, s)) /\ gone' = gone \cup {HandleOf(b, s)}
  BY DEF reloadSpaceFails, Goes
<1>2. Touches(bank, d, s) /\ SameNames(bank, d, s)
  BY <1>1, ReloadedTouches
<1> HIDE DEF d
<1>3. Touches(d, b, s) /\ SameNames(d, b, s)
  BY <1>2, ClosedEffect DEF Touches
<1> HIDE DEF b
<1>4. Touches(bank, b, s) /\ SameNames(bank, b, s)
  BY <1>2, <1>3, TouchesTransitive DEF SameNames
<1>5. GoodBut(bank, s) /\ bank.space[s].serial < bank.next
  BY <1>1, TableSpace
<1>6. GoodBut(b, s)
  BY <1>4, <1>5, TouchedGoodBut
<1>7. /\ b.next = bank.next /\ b.space[s].serial < bank.next
      /\ b.table = bank.table /\ ~b.crashed
      /\ \A u \in Slot : u # s => b.space[u] = bank.space[u]
  BY <1>4, <1>5 DEF Touches, SameContainers, SameOthers
<1> QED BY <1>1, <1>6, <1>7, DeletionKeeps

LEMMA RunFunctionFailsKeeps ==
    ASSUME IInv, NEW s \in Slot, runFunctionFails(s), ~bank.crashed
    PROVE  IInv'
<1>1. s \in bank.table /\ CanNote(bank, s) /\ bank' = setSpaceExit(bank, s) /\ gone' = gone
  BY DEF runFunctionFails, Goes
<1>2. /\ bank \in Bank /\ MarkHolds(bank, s) /\ bank.space[s].open
      /\ bank.space[s].status = "SS_RUNING"
  BY <1>1, TableSpace
<1> DEFINE c == setSpaceExit(bank, s)
<1>3. /\ Touches(bank, c, s) /\ SameNames(bank, c, s) /\ MarkHolds(c, s)
      /\ SameState(bank, c, s)
  BY <1>1, <1>2, ExitEffect
<1> QED BY <1>1, <1>2, <1>3, TouchKeeps DEF SameState

\* A space is taken off the list of the failed ones.
LEMMA TakenOffEffect ==
    ASSUME NEW b \in Bank, NEW e \in Node, e \in b.exits
    PROVE  LET s == e[1]
               c == TakenOff(b, e) IN
           /\ s \in Slot /\ Touches(b, c, s) /\ SameNames(b, c, s) /\ SameState(b, c, s)
           /\ ~c.space[s].error
<1> DEFINE s == e[1]
           x == [b.space[s] EXCEPT !.error = FALSE]
           X == b.exits \ {e}
           S == {u \in b.stale : u = s => \E f \in b.exits : f # e /\ f[1] = u}
           c == Replaced(b, s, x, X, S)
<1>1. s \in Slot
  BY DEF Node
<1>2. b.space[s] \in RanaSpace
  BY <1>1, BankParts
<1>3. x \in RanaSpace
  BY <1>2 DEF RanaSpace
<1>4. /\ x.serial = b.space[s].serial /\ x.error = FALSE /\ x.open = b.space[s].open
      /\ x.type = b.space[s].type /\ x.name = b.space[s].name
      /\ x.status = b.space[s].status
  BY <1>2 DEF RanaSpace
<1>5. X \subseteq Node /\ OtherNodesIn(b, X, s) /\ S \subseteq Slot /\ OtherStaleIn(b, S, s)
  BY BankParts DEF OtherNodesIn, OtherStaleIn
<1>6. TakenOff(b, e) = c
  BY DEF TakenOff, Replaced, Bank
<1>8. NodesKnown(b, s) => Known(s, x, X, S)
  \* A second node of the space is not the one it remembers, or e was not.
  <2> SUFFICES ASSUME NodesKnown(b, s), NEW f \in Node, f \in X, f[1] = s
               PROVE  s \in S
    BY DEF Known
  <2>1. f \in b.exits /\ f # e /\ e[1] = s
    OBVIOUS
  <2>2. e[2] # f[2]
    BY <2>1 DEF Node
  <2>3. s \in b.stale
    BY <2>1, <2>2 DEF NodesKnown, Known
  <2> QED BY <2>1, <2>3
<1> HIDE DEF x, X, S, s
<1>7. Touches(b, c, s) /\ c.space[s] = x
  BY <1>1, <1>3, <1>4, <1>5, <1>8, SpaceAndNodesReplaced
<1> HIDE DEF c
<1> QED BY <1>1, <1>4, <1>6, <1>7 DEF s, SameNames, SameState

LEMMA RoutineKeeps ==
    ASSUME IInv, NEW e \in Node, NEW a \in Answer, routine(e, a), ~bank.crashed,
           bank.space[e[1]].context # None
    PROVE  IInv'
<1> DEFINE s == e[1]
           b == TakenOff(bank, e)
           h == HandleOf(bank, s)
<1>1. /\ bank \in Bank /\ Good(bank) /\ gone \subseteq Slot \X Nat /\ Outdated(bank, gone)
      /\ e \in bank.exits
  BY DEF IInv, TypeOK, routine
<1>2. /\ s \in Slot /\ Touches(bank, b, s) /\ SameNames(bank, b, s)
      /\ SameState(bank, b, s) /\ ~b.space[s].error
  BY <1>1, TakenOffEffect
<1>3. IF a = "EM_DELSPACE"
      THEN /\ bank' = delSpace(b, h)
           /\ gone' = gone \cup IF getLuaSpace(b, h) = None THEN {} ELSE {h}
      ELSE bank' = b /\ gone' = gone
  BY DEF routine, Goes
<1>4. h = HandleOf(b, s) /\ h[1] = s
  BY <1>2 DEF HandleOf, Touches
<1>5. b.table = bank.table
  BY <1>2 DEF Touches, SameContainers
<1>6. getLuaSpace(b, h) = None <=> s \notin b.table
  BY <1>2, <1>4 DEF getLuaSpace, HandleOf, Slot
<1> HIDE DEF b, h, s
<1>7. CASE s \in bank.table
  <2>1. /\ GoodBut(bank, s) /\ bank.space[s].open /\ bank.space[s].status = "SS_RUNING"
        /\ bank.space[s].serial < bank.next
    BY <1>2, <1>7, TableSpace
  <2>2. GoodBut(b, s)
    BY <1>2, <2>1, TouchedGoodBut
  <2>3. CASE a = "EM_DELSPACE"
    <3>1. bank' = delSpace(b, HandleOf(b, s)) /\ gone' = gone \cup {HandleOf(b, s)}
      BY <1>3, <1>4, <1>5, <1>6, <1>7, <2>3
    <3>2. /\ b.next = bank.next /\ b.space[s].serial < b.next /\ ~b.crashed
          /\ \A u \in Slot : u # s => b.space[u] = bank.space[u]
      BY <1>2, <2>1 DEF Touches, SameContainers, SameOthers
    <3> QED BY <1>2, <1>5, <2>2, <3>1, <3>2, DeletionKeeps
  <2>4. CASE a # "EM_DELSPACE"
    <3>1. MarkHolds(b, s) /\ b.space[s].open /\ b.space[s].status = "SS_RUNING"
      BY <1>2, <2>1 DEF MarkHolds, SameState
    <3>2. bank' = b /\ gone' = gone
      BY <1>3, <2>4
    <3> QED BY <1>2, <1>7, <3>1, <3>2, TouchKeeps
  <2> QED BY <2>3, <2>4
<1>8. CASE s \notin bank.table
  \* A node that a reload or a failed creation has left behind.
  <2>1. bank' = b /\ gone' = gone
    BY <1>3, <1>5, <1>6, <1>8 DEF delSpace
  <2>2. \A u \in Slot : /\ b.space[u].type = bank.space[u].type
                        /\ b.space[u].name = bank.space[u].name
                        /\ b.space[u].serial = bank.space[u].serial
                        /\ b.space[u].open = bank.space[u].open
                        /\ b.space[u].status = bank.space[u].status
    BY <1>2 DEF Touches, SameNames, SameOthers, SameState
  <2>3. /\ b.active = bank.active /\ b.unused = bank.unused /\ b.table = bank.table
        /\ b.names = bank.names /\ b.next = bank.next /\ b \in Bank /\ ~b.crashed
    BY <1>2 DEF Touches, SameContainers
  <2>4. /\ UnusedApart(bank) /\ NamesApart(bank) /\ SerialsGiven(bank)
        /\ \A u \in Slot : StateOf(bank, u) /\ MarkOf(bank, u)
    BY <1>1 DEF Good, Apart
  <2>5. bank.active \subseteq Slot /\ \A f \in bank.names : f[3] \in Slot
    BY <1>1, BankParts
  <2>6. UnusedApart(b) /\ SerialsGiven(b)
    BY <2>2, <2>3, <2>4, <2>5 DEF UnusedApart, SerialsGiven
  <2>7. NamesApart(b)
    BY <2>2, <2>3, <2>4, <2>5 DEF NamesApart
  <2>8. ASSUME NEW u \in Slot PROVE StateOf(b, u) /\ MarkOf(b, u)
    <3>1. StateOf(b, u)
      BY <2>2, <2>3, <2>4 DEF StateOf
    <3>2. CASE u = s
      BY <1>2, <3>1, <3>2 DEF MarkOf
    <3>3. CASE u # s
      <4>1. b.space[u] = bank.space[u] /\ bank.space[u] \in RanaSpace
        BY <1>1, <1>2, <3>3, BankParts DEF Touches, SameOthers
      <4>2. <<u, bank.space[u].node>> \in bank.exits => <<u, bank.space[u].node>> \in b.exits
        <5>1. bank.exits \subseteq Node
          BY <1>1, BankParts
        <5>2. OtherNodesIn(bank, b.exits, s)
          BY <1>2 DEF Touches, SameOthers
        <5> QED BY <3>3, <5>1, <5>2 DEF OtherNodesIn
      <4> QED BY <2>3, <2>4, <3>1, <4>1, <4>2 DEF MarkOf, MarkHolds
    <3> QED BY <3>1, <3>2, <3>3
  <2>9. Outdated(b, gone)
    BY <1>1, <2>2, <2>3, OutdatedKept
  <2>10. NodesApart(b)
    <3>1. NodesApart(bank)
      BY <1>1 DEF Good, Apart
    <3>2. NodesKnown(b, s)
      BY <1>2, <3>1 DEF NodesApart, Touches
    <3>3. ASSUME NEW u \in Slot, u # s PROVE NodesKnown(b, u)
      BY <1>2, <3>1, <3>3, NodesKnownKept DEF NodesApart, Touches, SameOthers
    <3> QED BY <3>2, <3>3 DEF NodesApart
  <2> QED BY <1>1, <2>1, <2>3, <2>6, <2>7, <2>8, <2>9, <2>10
          DEF IInv, TypeOK, Good, Apart, CrashExplained
<1> QED BY <1>7, <1>8

\* routine meets a space without a context.  No marked space is without one, so the
\* node is one that a reload left.
LEMMA NullContextKeeps ==
    ASSUME IInv, NEW e \in Node, NEW a \in Answer, routine(e, a),
           bank.space[e[1]].context = None
    PROVE  /\ IInv' /\ bank'.active = bank.active
           /\ bank'.space = bank.space
<1>1. /\ bank \in Bank /\ Good(bank) /\ gone \subseteq Slot \X Nat /\ Outdated(bank, gone)
      /\ e \in bank.exits /\ e[1] \in Slot
  BY DEF IInv, TypeOK, routine, Node
<1>2. bank' = [bank EXCEPT !.crashed = TRUE] /\ gone' = gone
  BY DEF routine, Goes
<1>3. /\ bank'.space = bank.space /\ bank'.active = bank.active
      /\ bank'.unused = bank.unused /\ bank'.table = bank.table
      /\ bank'.names = bank.names /\ bank'.exits = bank.exits
      /\ bank'.next = bank.next /\ bank'.stale = bank.stale
      /\ bank' \in Bank
  BY <1>1, <1>2 DEF Bank
<1>4. e[1] \in bank.stale
  <2>1. ~bank.space[e[1]].error
    BY <1>1 DEF Good, MarkOf, MarkHolds
  <2>2. NodesKnown(bank, e[1])
    BY <1>1 DEF Good, Apart, NodesApart
  <2> QED BY <1>1, <2>1, <2>2 DEF NodesKnown, Known
<1>5. Good(bank')
  BY <1>1, <1>3 DEF Good, Apart, UnusedApart, NamesApart, SerialsGiven, NodesApart, NodesKnown,
                    Known, StateOf, MarkOf, MarkHolds
<1>6. Outdated(bank', gone') /\ CrashExplained(bank')
  BY <1>1, <1>2, <1>3, <1>4 DEF Outdated, CrashExplained
<1> QED BY <1>1, <1>2, <1>3, <1>5, <1>6 DEF IInv, TypeOK

LEMMA InitIInv == Init => IInv
<1> SUFFICES ASSUME Init PROVE IInv
  OBVIOUS
<1> DEFINE f == [i \in 1..MaxSpaces |-> i - 1]
<1>1. NewSpace \in RanaSpace /\ NewSpace.error = FALSE /\ NewSpace.open = FALSE
      /\ NewSpace.status = "SS_NONE"
  BY DEF NewSpace, RanaSpace, Status
<1>2. MaxSpaces \in Nat /\ \A i \in 1..MaxSpaces : i - 1 \in Slot
  BY DEF Slot
<1>3. f \in Seq(Slot)
  BY <1>2, IsASeq
<1>4. bank \in Bank /\ gone \subseteq Slot \X Nat
  BY <1>1, <1>3 DEF Init, Bank
<1>5. UnusedApart(bank)
  <2>1. /\ bank.unused = f /\ bank.active = {} /\ bank.table = {}
        /\ DOMAIN f = 1..MaxSpaces
    BY DEF Init
  <2>2. \A u \in Slot : u + 1 \in 1..MaxSpaces /\ f[u + 1] = u
    BY <1>2 DEF Slot
  <2>3. \A i, j \in 1..MaxSpaces : f[i] = f[j] => i = j
    BY <1>2
  <2> HIDE DEF f
  <2> QED BY <2>1, <2>2, <2>3 DEF UnusedApart
<1>6. NamesApart(bank) /\ SerialsGiven(bank) /\ Outdated(bank, gone)
  BY DEF Init, NamesApart, SerialsGiven, Outdated
<1>7. \A u \in Slot : StateOf(bank, u) /\ MarkOf(bank, u)
  BY <1>1 DEF Init, StateOf, MarkOf
<1>8. NodesApart(bank) /\ CrashExplained(bank)
  BY DEF Init, NodesApart, NodesKnown, Known, CrashExplained
<1> QED BY <1>4, <1>5, <1>6, <1>7, <1>8 DEF IInv, TypeOK, Good, Apart

LEMMA NextKeeps == IInv /\ [Next]_vars => IInv'
<1> SUFFICES ASSUME IInv, [Next]_vars PROVE IInv'
  OBVIOUS
<1>1. ASSUME NEW n \in Name, NEW t \in Type, NEW k \in Context \cup {None},
             NEW raised \in BOOLEAN,
             createSpace(n, t, k, raised) \/ createSpaceFails(n, t, k, raised),
             ~bank.crashed
      PROVE  IInv'
  BY <1>1, CreateSpaceKeeps, CreateSpaceFailsKeeps
<1>2. ASSUME NEW s \in Slot, deleteSpace(s) \/ runFunctionFails(s), ~bank.crashed
      PROVE  IInv'
  BY <1>2, DeleteSpaceKeeps, RunFunctionFailsKeeps
<1>3. ASSUME NEW s \in Slot, NEW raised \in BOOLEAN,
             reloadSpace(s, raised) \/ reloadSpaceFails(s, raised), ~bank.crashed
      PROVE  IInv'
  BY <1>3, ReloadSpaceKeeps, ReloadSpaceFailsKeeps
<1>4. ASSUME NEW e \in Node, NEW a \in Answer, routine(e, a), ~bank.crashed PROVE IInv'
  BY <1>4, RoutineKeeps, NullContextKeeps
<1>5. CASE UNCHANGED vars
  <2>1. bank' = bank /\ gone' = gone
    BY <1>5 DEF vars
  <2> QED BY <2>1 DEF IInv, TypeOK
<1> QED BY <1>1, <1>2, <1>3, <1>4, <1>5 DEF Next

LEMMA PoolInvariance == Spec => []IInv
BY InitIInv, NextKeeps, PTL DEF Spec

LEMMA IInvPool == IInv => PoolConsistent
<1> SUFFICES ASSUME IInv PROVE PoolConsistent
  OBVIOUS
<1>1. /\ bank \in Bank /\ UnusedApart(bank) /\ NamesApart(bank)
      /\ \A u \in Slot : StateOf(bank, u) /\ MarkOf(bank, u)
  BY DEF IInv, Good, Apart
<1>2. \A e \in bank.names : e = <<e[1], e[2], e[3]>> /\ e[3] \in Slot
  BY <1>1, BankParts
<1>3. ContainersAgree
  <2>1. \A u \in Slot : u \in bank.active <=> u \notin {bank.unused[i] : i \in DOMAIN bank.unused}
    BY <1>1 DEF UnusedApart
  <2>2. \A i, j \in DOMAIN bank.unused : bank.unused[i] = bank.unused[j] => i = j
    BY <1>1 DEF UnusedApart
  <2>3. bank.table = bank.active
    BY <1>1 DEF UnusedApart
  <2>4. \A s \in Slot :
          /\ s \in bank.active <=> bank.space[s].open
          /\ s \in bank.active <=> bank.space[s].status = "SS_RUNING"
          /\ s \in bank.active => <<bank.space[s].type, bank.space[s].name, s>> \in bank.names
    BY <1>1 DEF StateOf, NamesApart
  <2>5. \A e, f \in bank.names : <<e[1], e[2]>> = <<f[1], f[2]>> => e = f
    BY <1>1 DEF NamesApart
  <2>6. \A e \in bank.names : /\ e[3] \in bank.active
                              /\ <<e[1], e[2]>> = <<bank.space[e[3]].type, bank.space[e[3]].name>>
    BY <1>1 DEF NamesApart
  <2> QED BY <2>1, <2>2, <2>3, <2>4, <2>5, <2>6 DEF ContainersAgree
<1>4. MarkedAreListed
  <2>1. \A s \in Slot : bank.space[s].error =>
          /\ s \in bank.active /\ bank.space[s].context # None
          /\ <<s, bank.space[s].node>> \in bank.exits
    BY <1>1 DEF MarkOf, MarkHolds
  <2>2. \A e \in bank.exits : e \in Node /\ e[1] \in Slot
    BY <1>1, BankParts DEF Node
  <2>3. \A e \in bank.exits :
          \/ e[1] \in bank.stale
          \/ bank.space[e[1]].error /\ bank.space[e[1]].node = e[2]
    BY <2>2 DEF IInv, Good, Apart, NodesApart, NodesKnown, Known
  <2>4. bank.crashed => \E s \in bank.stale : bank.space[s].context = None
    BY DEF IInv, CrashExplained
  <2> QED BY <2>1, <2>3, <2>4 DEF MarkedAreListed
<1> QED BY <1>3, <1>4 DEF PoolConsistent, IInv

LEMMA IInvStale == IInv => StaleHandles
<1> SUFFICES ASSUME IInv, NEW h \in gone PROVE getLuaSpace(bank, h) = None
  BY DEF StaleHandles
<1> QED BY DEF IInv, Outdated, getLuaSpace

\* The pool's containers agree and its spaces are in one of two states; the list of the
\* failed spaces holds what they remember, and beside that only nodes that a reload left
\* there; and routine meets a space without a context only at such a node
\* (RanaSpaceBank), whatever is created, reloaded, deleted and fails.
THEOREM SpacesPoolConsistent == Spec => []PoolConsistent
BY PoolInvariance, IInvPool, PTL

\* A handle that outlives its space finds no other one in its slot
\* (RanaSpaceBank::getLuaSpace).
THEOREM SpacesStaleHandles == Spec => []StaleHandles
BY PoolInvariance, IInvStale, PTL
-----------------------------------------------------------------------------

-----------------------------------------------------------------------------
(* The threads that wait.  Their steps on the pool are steps of the pool.  *)

LEMMA WaitStepsThePool == [WaitNext]_allVars => [Next]_vars
<1> SUFFICES ASSUME [WaitNext]_allVars PROVE [Next]_vars
  OBVIOUS
<1>1. ASSUME NEW t \in Thread, NEW s \in Slot, RunAction(t, s) PROVE UNCHANGED vars
  BY <1>1 DEF RunAction, vars
<1>2. ASSUME Pool PROVE Next
  <2>1. ASSUME NEW n \in Name, NEW ty \in Type, NEW c \in Context \cup {None}, NEW r \in BOOLEAN,
               createSpace(n, ty, c, r) \/ createSpaceFails(n, ty, c, r)
        PROVE  Next
    BY <1>2, <2>1 DEF Pool, Next
  <2>2. ASSUME NEW s \in Slot, NEW r \in BOOLEAN,
               \/ deleteSpace(s) \/ runFunctionFails(s)
               \/ reloadSpace(s, r) \/ reloadSpaceFails(s, r)
        PROVE  Next
    BY <1>2, <2>2 DEF Pool, Next
  <2>3. ASSUME NEW e \in Node, Routine(e) PROVE Next
    BY <2>3 DEF Routine, Next
  <2> QED BY <1>2, <2>1, <2>2, <2>3 DEF Pool
<1>3. ASSUME Ticks PROVE UNCHANGED vars
  BY <1>3 DEF Ticks, TickBegins, TickEnds, Starts, GoesOn, Awakes, vars
<1>4. CASE UNCHANGED allVars
  BY <1>4 DEF allVars, vars
<1> QED BY <1>1, <1>2, <1>3, <1>4 DEF WaitNext

\* The threads only read the pool, or call its operations: RanaWait.cpp keeps to the
\* interface of RanaSpaceBank.
THEOREM WaitsUseThePool == WaitSpec => Spec
<1>1. WaitInit => Init
  BY DEF WaitInit
<1> QED BY <1>1, WaitStepsThePool, PTL DEF WaitSpec, Spec

\* Some number of a set is the least.
LEMMA LeastNatural ==
    ASSUME NEW S, S \subseteq Nat, S # {}
    PROVE  \E n \in S : \A m \in S : n <= m
<1>1. \E x \in S : \A y \in S : ~(<<y, x>> \in OpToRel(<, Nat))
  BY NatLessThanWellFounded, WFMin
<1>2. PICK x \in S : \A y \in S : ~(<<y, x>> \in OpToRel(<, Nat))
  BY <1>1
<1>3. \A y \in S : ~(y < x)
  BY <1>2 DEF OpToRel
<1> QED BY <1>3

\* A type that an active space has is found.
LEMMA TypeIsFound ==
    ASSUME NEW b \in Bank, NEW s \in Slot, s \in b.active
    PROVE  GetLuaSpace(b, b.space[s].type) \in Slot
<1> DEFINE same == {o \in b.active : b.space[o].type = b.space[s].type}
           S == {b.space[o].serial : o \in same}
<1>1. same \subseteq Slot /\ s \in same /\ \A o \in same : b.space[o].serial \in Nat
  BY BankParts DEF RanaSpace
<1>2. \E n \in S : \A m \in S : n <= m
  <2>1. S \subseteq Nat /\ S # {}
    BY <1>1
  <2> HIDE DEF S
  <2> QED BY <2>1, LeastNatural
<1>3. \E o \in same : \A u \in same : b.space[o].serial <= b.space[u].serial
  BY <1>2
<1>4. GetLuaSpace(b, b.space[s].type) =
        CHOOSE o \in same : \A u \in same : b.space[o].serial <= b.space[u].serial
  BY <1>1 DEF GetLuaSpace
<1> HIDE DEF same
<1> QED BY <1>1, <1>3, <1>4

WaitTypeOK ==
    /\ thread \in [Thread -> [at : {"none", "asleep", "failed"}, space : Slot]]
    /\ timer \in [Thread -> [on : BOOLEAN, type : Type \cup {None}, started : BOOLEAN,
                             lift : Nat, left : Nat]]
    /\ todo \subseteq Thread /\ ticking \in BOOLEAN

WaitIInv == IInv /\ WaitTypeOK /\ WaitsAreLive

LEMMA NoWait ==
    /\ NoThread \in [at : {"none", "asleep", "failed"}, space : Slot]
    /\ NoTimer \in [on : BOOLEAN, type : Type \cup {None}, started : BOOLEAN,
                    lift : Nat, left : Nat]
    /\ ~NoTimer.on
BY DEF NoThread, NoTimer, Slot

\* What a timer and its thread must be.
Lives(b, th, m) ==
    m.on => /\ th.at = "asleep"
            /\ b.space[th.space].open /\ b.space[th.space].type = m.type
            /\ m.left <= m.lift

LEMMA LiveParts ==
    ASSUME WaitTypeOK
    PROVE  WaitsAreLive <=> /\ \A t \in Thread : Lives(bank, thread[t], timer[t])
                            /\ \A t \in todo : ticking /\ timer[t].on
<1>1. \A t \in Thread : timer[t].lift \in Nat /\ timer[t].left \in Nat
  BY DEF WaitTypeOK
<1> QED BY <1>1 DEF WaitsAreLive, Lives

LEMMA LivePartsNext ==
    ASSUME WaitTypeOK'
    PROVE  WaitsAreLive' <=> /\ \A t \in Thread : Lives(bank, thread[t], timer[t])'
                             /\ \A t \in todo' : ticking' /\ timer'[t].on
<1>1. \A t \in Thread : timer'[t].lift \in Nat /\ timer'[t].left \in Nat
  BY DEF WaitTypeOK
<1> QED BY <1>1 DEF WaitsAreLive, Lives

\* The pool changes no space that a timer waits in.
LEMMA SparesKeep ==
    ASSUME WaitIInv, UNCHANGED waits,
           \A u \in Slot : bank.space[u].open =>
               /\ bank'.space[u].open
               /\ bank'.space[u].type = bank.space[u].type
    PROVE  WaitTypeOK' /\ WaitsAreLive'
<1>1. WaitTypeOK /\ thread' = thread /\ timer' = timer /\ todo' = todo /\ ticking' = ticking
  BY DEF waits, WaitIInv
<1>2. WaitTypeOK'
  BY <1>1 DEF WaitTypeOK
<1>3. \A t \in Thread : thread[t].space \in Slot
  BY <1>1 DEF WaitTypeOK
<1>4. /\ \A t \in Thread : Lives(bank, thread[t], timer[t])
      /\ \A t \in todo : ticking /\ timer[t].on
  BY <1>1, LiveParts DEF WaitIInv
<1>5. \A t \in Thread : Lives(bank', thread[t], timer[t])
  BY <1>3, <1>4 DEF Lives
<1>6. WaitsAreLive'
  BY <1>1, <1>2, <1>4, <1>5, LivePartsNext
<1> QED BY <1>2, <1>6

\* Space s goes: the waits of its type are dropped, and the others wait in other spaces.
LEMMA SpaceGoesKeeps ==
    ASSUME WaitIInv, ~ticking, NEW b \in Bank, NEW s \in Slot, s \in b.active,
           SpaceGoes(b, s),
           bank.space[s].open => bank.space[s].type = b.space[s].type,
           \A u \in Slot : u # s => bank'.space[u] = bank.space[u]
    PROVE  WaitTypeOK' /\ WaitsAreLive'
<1> DEFINE ty == b.space[s].type
           first == GetLuaSpace(b, ty)
<1>1. first \in Slot /\ first # None
  BY TypeIsFound DEF Slot
<1>2. WaitTypeOK /\ todo' = todo /\ ticking' = ticking
  BY DEF WaitIInv, SpaceGoes
<1>3. /\ \A t \in Thread : Lives(bank, thread[t], timer[t])
      /\ todo = {}
  BY <1>2, LiveParts DEF WaitIInv
<1>4. timer' = [t \in Thread |-> IF t \in OfType(timer, ty) THEN NoTimer ELSE timer[t]]
  BY <1>1 DEF SpaceGoes, DropTimers
<1> DEFINE th == DropThreads(b, thread, timer, ty)
<1>5. th = [t \in Thread |-> IF t \in OfType(timer, ty) THEN Broken(b, thread, t, first)
                                                       ELSE thread[t]]
  BY <1>1 DEF DropThreads
<1>6. thread' = [t \in Thread |-> IF th[t].space = s THEN NoThread ELSE th[t]]
  BY DEF SpaceGoes, CloseThreads
<1> HIDE DEF th, first
<1>7. \A t \in Thread : timer'[t] = IF t \in OfType(timer, ty) THEN NoTimer ELSE timer[t]
  BY <1>4
<1>8. \A t \in Thread : th[t] \in {NoThread, thread[t]}
  BY <1>5 DEF Broken
<1>9. \A t \in Thread : thread'[t] \in {NoThread, thread[t]}
  BY <1>6, <1>8
<1>10. WaitTypeOK'
  <2>1. \A t \in Thread : timer'[t] \in {NoTimer, timer[t]}
    BY <1>7
  <2>2. timer' = [t \in Thread |-> timer'[t]] /\ thread' = [t \in Thread |-> thread'[t]]
    BY <1>4, <1>6
  <2> QED BY <1>2, <1>9, <2>1, <2>2, NoWait DEF WaitTypeOK
<1>11. ASSUME NEW t \in Thread, timer'[t].on
       PROVE  Lives(bank', thread'[t], timer'[t])
  <2>1. t \notin OfType(timer, ty) /\ timer'[t] = timer[t] /\ timer[t].on
    BY <1>7, <1>11, NoWait
  <2>2. timer[t].type # ty
    BY <2>1 DEF OfType
  <2>3. thread[t].space \in Slot
    BY <1>2 DEF WaitTypeOK
  <2>4. thread[t].space # s
    BY <1>3, <2>1, <2>2 DEF Lives
  <2>5. th[t] = thread[t]
    BY <1>5, <2>1
  <2>6. thread'[t] = thread[t]
    BY <1>6, <2>4, <2>5
  <2> QED BY <1>3, <2>1, <2>3, <2>4, <2>6 DEF Lives
<1>12. \A t \in Thread : Lives(bank', thread'[t], timer'[t])
  BY <1>11 DEF Lives
<1> QED BY <1>2, <1>3, <1>10, <1>12, LivePartsNext

\* The operations of the pool, and the waits they take with them.
LEMMA CreateWaits ==
    ASSUME WaitIInv, NEW n \in Name, NEW t \in Type, NEW k \in Context \cup {None},
           NEW raised \in BOOLEAN, createSpace(n, t, k, raised), UNCHANGED waits
    PROVE  WaitTypeOK' /\ WaitsAreLive'
<1> DEFINE s == Head(bank.unused)
           d == Started(n, t, k, raised)
           c == Running(d, s)
<1>1. IInv /\ Creatable(n, t) /\ (raised => CanNote(bank, s)) /\ bank' = c
  BY DEF createSpace, Goes, WaitIInv
<1>2. /\ s \in Slot /\ s \notin bank.active /\ GoodBut(d, s) /\ MarkHolds(d, s)
      /\ d.space[s].open /\ \A u \in Slot : u # s => d.space[u] = bank.space[u]
  BY <1>1, StartedGoodBut
<1>3. ~bank.space[s].open
  BY <1>1, <1>2 DEF IInv, Good, StateOf
<1> HIDE DEF s, d
<1>4. \A u \in Slot : u # s => c.space[u] = d.space[u]
  BY <1>2, RunningGood
<1> HIDE DEF c
<1> QED BY <1>1, <1>2, <1>3, <1>4, SparesKeep

LEMMA CreateFailsWaits ==
    ASSUME WaitIInv, ~ticking, NEW n \in Name, NEW t \in Type, NEW k \in Context \cup {None},
           NEW raised \in BOOLEAN, createSpaceFails(n, t, k, raised),
           LET s == Head(bank.unused) IN SpaceGoes(Closed(Started(n, t, k, raised), s), s)
    PROVE  WaitTypeOK' /\ WaitsAreLive'
<1> DEFINE s == Head(bank.unused)
           d == Started(n, t, k, raised)
           b == Closed(d, s)
<1>1. /\ IInv /\ Creatable(n, t) /\ (raised => CanNote(bank, s))
      /\ bank' = delSpace(b, HandleOf(b, s))
      /\ SpaceGoes(b, s)
  BY DEF createSpaceFails, Goes, WaitIInv
<1>2. /\ s \in Slot /\ s \notin bank.active /\ GoodBut(d, s)
      /\ \A u \in Slot : u # s => d.space[u] = bank.space[u]
  BY <1>1, StartedGoodBut
<1>3. ~bank.space[s].open
  BY <1>1, <1>2 DEF IInv, Good, StateOf
<1> HIDE DEF s, d
<1>4. Touches(d, b, s) /\ SameNames(d, b, s)
  BY <1>2, ClosedEffect DEF GoodBut, Apart
<1> HIDE DEF b
<1>5. GoodBut(b, s)
  BY <1>2, <1>4, TouchedGoodBut
<1>6. b \in Bank /\ s \in b.active /\ \A u \in Slot : u # s => b.space[u] = bank.space[u]
  BY <1>2, <1>4, <1>5 DEF GoodBut, Apart, Touches, SameOthers
<1>7. \A u \in Slot : u # s => bank'.space[u] = bank.space[u]
  BY <1>1, <1>2, <1>5, <1>6, DelSpaceGood
<1> QED BY <1>1, <1>2, <1>3, <1>6, <1>7, SpaceGoesKeeps

LEMMA DeleteWaits ==
    ASSUME WaitIInv, ~ticking, NEW s \in Slot, deleteSpace(s), SpaceGoes(bank, s)
    PROVE  WaitTypeOK' /\ WaitsAreLive'
<1>1. IInv /\ s \in bank.table /\ bank' = delSpace(bank, HandleOf(bank, s))
  BY DEF deleteSpace, Goes, WaitIInv
<1>2. bank \in Bank /\ GoodBut(bank, s) /\ s \in bank.active
  BY <1>1, TableSpace
<1>3. \A u \in Slot : u # s => bank'.space[u] = bank.space[u]
  BY <1>1, <1>2, DelSpaceGood
<1> QED BY <1>2, <1>3, SpaceGoesKeeps

LEMMA FailureWaits ==
    ASSUME WaitIInv, NEW s \in Slot, runFunctionFails(s), UNCHANGED waits
    PROVE  WaitTypeOK' /\ WaitsAreLive'
<1>1. IInv /\ s \in bank.table /\ CanNote(bank, s) /\ bank' = setSpaceExit(bank, s)
  BY DEF runFunctionFails, Goes, WaitIInv
<1> DEFINE c == setSpaceExit(bank, s)
<1>2. Touches(bank, c, s) /\ SameNames(bank, c, s) /\ SameState(bank, c, s)
  BY <1>1, TableSpace, ExitEffect
<1> HIDE DEF c
<1>3. \A u \in Slot : /\ c.space[u].open = bank.space[u].open
                      /\ c.space[u].type = bank.space[u].type
  BY <1>2 DEF Touches, SameOthers, SameNames, SameState
<1>4. bank' = c
  BY <1>1 DEF c
<1> QED BY <1>3, <1>4, SparesKeep

LEMMA ReloadWaits ==
    ASSUME WaitIInv, ~ticking, NEW s \in Slot, NEW raised \in BOOLEAN,
           reloadSpace(s, raised) \/ reloadSpaceFails(s, raised), SpaceGoes(bank, s)
    PROVE  WaitTypeOK' /\ WaitsAreLive'
<1> DEFINE d == Reloaded(s, raised)
           b == Closed(d, s)
<1>1. /\ IInv /\ s \in bank.table /\ (raised => CanNote(bank, s))
      /\ bank' = Running(d, s) \/ bank' = delSpace(b, HandleOf(b, s))
  BY DEF reloadSpace, reloadSpaceFails, Goes, WaitIInv
<1>2. bank \in Bank /\ GoodBut(bank, s) /\ s \in bank.active
  BY <1>1, TableSpace
<1>3. /\ Touches(bank, d, s) /\ SameNames(bank, d, s) /\ MarkHolds(d, s) /\ d.space[s].open
  BY <1>1, ReloadedTouches
<1> HIDE DEF d
<1>4. GoodBut(d, s) /\ d \in Bank
  BY <1>2, <1>3, TouchedGoodBut DEF Touches
<1>5. Touches(d, b, s) /\ SameNames(d, b, s)
  BY <1>4, ClosedEffect
<1>6. \A u \in Slot : u # s => Running(d, s).space[u] = d.space[u]
  BY <1>3, <1>4, RunningGood
<1> HIDE DEF b
<1>7. GoodBut(b, s)
  BY <1>4, <1>5, TouchedGoodBut
<1>8. \A u \in Slot : u # s => delSpace(b, HandleOf(b, s)).space[u] = b.space[u]
  BY <1>7, DelSpaceGood
<1>9. \A u \in Slot : u # s => bank'.space[u] = bank.space[u]
  <2>1. \A u \in Slot : u # s => d.space[u] = bank.space[u] /\ b.space[u] = d.space[u]
    BY <1>3, <1>5 DEF Touches, SameOthers
  <2> QED BY <1>1, <1>6, <1>8, <2>1
<1> QED BY <1>2, <1>9, SpaceGoesKeeps

LEMMA RoutineWaits ==
    ASSUME WaitIInv, NEW e \in Node, Routine(e)
    PROVE  WaitTypeOK' /\ WaitsAreLive'
<1>1. PICK a \in Answer : routine(e, a)
  BY DEF Routine
<1> DEFINE s == e[1]
           b == TakenOff(bank, e)
           h == HandleOf(bank, s)
<1>2. IInv /\ bank \in Bank /\ e \in bank.exits
  BY <1>1 DEF WaitIInv, IInv, TypeOK, routine
<1>3. /\ s \in Slot /\ Touches(bank, b, s) /\ SameNames(bank, b, s) /\ SameState(bank, b, s)
  BY <1>2, TakenOffEffect
<1>10. CASE bank.space[e[1]].context = None
  <2>1. bank'.active = bank.active /\ bank'.space = bank.space
    BY <1>1, <1>2, <1>10, NullContextKeeps
  <2>2. UNCHANGED waits
    BY <2>1 DEF Routine
  <2> QED BY <2>1, <2>2, SparesKeep
<1>4. bank.space[e[1]].context # None => bank' = b \/ bank' = delSpace(b, h)
  BY <1>1 DEF routine, Goes
<1>5. h = HandleOf(b, s) /\ h[1] = s
  BY <1>3 DEF HandleOf, Touches
<1> HIDE DEF b, h, s
<1>6. b.active = bank.active /\ b.table = bank.table
  BY <1>3 DEF Touches, SameContainers
<1>7. \A u \in Slot : /\ b.space[u].open = bank.space[u].open
                      /\ b.space[u].type = bank.space[u].type
                      /\ u # s => b.space[u] = bank.space[u]
  BY <1>3 DEF Touches, SameNames, SameOthers, SameState
<1>8. CASE bank' = b
  <2>1. UNCHANGED waits
    BY <1>6, <1>8 DEF Routine
  <2> QED BY <1>7, <1>8, <2>1, SparesKeep
<1>9. CASE bank' # b /\ bank.space[e[1]].context # None
  <2>1. bank' = delSpace(b, h)
    BY <1>4, <1>9
  <2>2. s \in bank.table
    BY <1>5, <1>6, <1>9, <2>1 DEF delSpace, getLuaSpace
  <2>3. GoodBut(bank, s) /\ s \in bank.active
    BY <1>2, <1>3, <2>2, TableSpace
  <2>4. GoodBut(b, s)
    BY <1>3, <2>3, TouchedGoodBut
  <2>5. /\ bank'.active = bank.active \ {s}
        /\ \A u \in Slot : u # s => bank'.space[u] = b.space[u]
    BY <1>3, <1>5, <1>6, <2>1, <2>4, DelSpaceGood
  <2>6. SpaceGoes(bank, s) /\ ~ticking
    BY <2>3, <2>5 DEF Routine, s
  <2> QED BY <1>2, <1>3, <1>7, <2>3, <2>5, <2>6, SpaceGoesKeeps
<1> QED BY <1>8, <1>9, <1>10

LEMMA PoolWaits ==
    ASSUME WaitIInv, Pool
    PROVE  WaitTypeOK' /\ WaitsAreLive'
<1>1. ~ticking
  BY DEF Pool
<1>2. ASSUME NEW n \in Name, NEW ty \in Type, NEW c \in Context \cup {None}, NEW r \in BOOLEAN,
             createSpace(n, ty, c, r), UNCHANGED waits
      PROVE  WaitTypeOK' /\ WaitsAreLive'
  BY <1>2, CreateWaits
<1>3. ASSUME NEW n \in Name, NEW ty \in Type, NEW c \in Context \cup {None}, NEW r \in BOOLEAN,
             createSpaceFails(n, ty, c, r),
             LET s == Head(bank.unused) IN SpaceGoes(Closed(Started(n, ty, c, r), s), s)
      PROVE  WaitTypeOK' /\ WaitsAreLive'
  BY <1>1, <1>3, CreateFailsWaits
<1>4. ASSUME NEW s \in Slot, deleteSpace(s), SpaceGoes(bank, s)
      PROVE  WaitTypeOK' /\ WaitsAreLive'
  BY <1>1, <1>4, DeleteWaits
<1>5. ASSUME NEW s \in Slot, runFunctionFails(s), UNCHANGED waits
      PROVE  WaitTypeOK' /\ WaitsAreLive'
  BY <1>5, FailureWaits
<1>6. ASSUME NEW s \in Slot, NEW r \in BOOLEAN,
             reloadSpace(s, r) \/ reloadSpaceFails(s, r), SpaceGoes(bank, s)
      PROVE  WaitTypeOK' /\ WaitsAreLive'
  BY <1>1, <1>6, ReloadWaits
<1>7. ASSUME NEW e \in Node, Routine(e)
      PROVE  WaitTypeOK' /\ WaitsAreLive'
  BY <1>7, RoutineWaits
<1> QED BY <1>2, <1>3, <1>4, <1>5, <1>6, <1>7 DEF Pool

\* A thread of a space that is open sleeps under a new timer.
LEMMA AddKeeps ==
    ASSUME WaitIInv, NEW t \in Thread, NEW s \in Slot, NEW time \in Times,
           bank.space[s].open, Add(t, s, time), UNCHANGED <<bank, gone, ticking>>
    PROVE  WaitTypeOK' /\ WaitsAreLive'
<1> DEFINE lift == LiftOf(time)
           type == bank.space[s].type
           m == [on |-> TRUE, type |-> type, started |-> FALSE, lift |-> lift, left |-> lift]
           th == [at |-> "asleep", space |-> s]
<1>1. time \in Nat /\ Milli \in Nat \ {0}
  BY WaitAssumption
<1>2. lift \in Nat
  <2>1. time + Milli - 1 \in Nat
    BY <1>1
  <2> DEFINE n == time + Milli - 1
  <2>2. n \div Milli \in Nat
    <3> HIDE DEF n
    <3> QED BY <1>1, <2>1 DEF n
  <2> QED BY <2>2 DEF LiftOf
<1>3. type \in Type \cup {None}
  BY BankParts DEF RanaSpace, WaitIInv, IInv, TypeOK
<1>4. /\ thread' = [thread EXCEPT ![t] = th] /\ timer' = [timer EXCEPT ![t] = m]
      /\ todo' = IF ticking THEN todo \cup {t} ELSE todo
      /\ bank' = bank /\ ticking' = ticking
  BY DEF Add, NewTimer
<1>5. WaitTypeOK
  BY DEF WaitIInv
<1> HIDE DEF lift, type
<1>6. WaitTypeOK'
  BY <1>2, <1>3, <1>4, <1>5 DEF WaitTypeOK
<1>7. /\ \A u \in Thread : Lives(bank, thread[u], timer[u])
      /\ \A u \in todo : ticking /\ timer[u].on
  BY <1>5, LiveParts DEF WaitIInv
<1>8. Lives(bank, th, m)
  BY <1>2 DEF Lives, type
<1>9. \A u \in Thread : /\ thread'[u] = IF u = t THEN th ELSE thread[u]
                        /\ timer'[u] = IF u = t THEN m ELSE timer[u]
  BY <1>4, <1>5 DEF WaitTypeOK
<1>10. m.on
  OBVIOUS
<1>11. todo \subseteq Thread
  BY <1>5 DEF WaitTypeOK
<1> HIDE DEF th, m
<1>12. \A u \in Thread : Lives(bank', thread'[u], timer'[u])
  BY <1>4, <1>7, <1>8, <1>9
<1>13. \A u \in todo' : ticking' /\ timer'[u].on
  BY <1>4, <1>7, <1>9, <1>10, <1>11
<1> QED BY <1>6, <1>12, <1>13, LivePartsNext

LEMMA RunActionWaits ==
    ASSUME WaitIInv, NEW t \in Thread, NEW s \in Slot, RunAction(t, s)
    PROVE  WaitTypeOK' /\ WaitsAreLive'
<1>1. /\ thread[t].at = "none" /\ s \in bank.active
      /\ bank' = bank /\ gone' = gone /\ ticking' = ticking
  BY DEF RunAction
<1>2. bank.space[s].open
  BY <1>1 DEF WaitIInv, IInv, Good, StateOf
<1>3. ASSUME NEW time \in Times, Add(t, s, time) PROVE WaitTypeOK' /\ WaitsAreLive'
  BY <1>1, <1>2, <1>3, AddKeeps
<1>4. ASSUME thread' = [thread EXCEPT ![t] = [NoThread EXCEPT !.at = "failed", !.space = s]],
             UNCHANGED <<timer, todo>>
      PROVE  WaitTypeOK' /\ WaitsAreLive'
  <2> DEFINE a == "failed"
             th == [NoThread EXCEPT !.at = a, !.space = s]
  <2>1. thread' = [thread EXCEPT ![t] = th] /\ timer' = timer /\ todo' = todo
    BY <1>4
  <2>2. WaitTypeOK
    BY DEF WaitIInv
  <2> DEFINE At == {"none", "asleep", "failed"}
  <2>8. NoThread \in [at : At, space : Slot] /\ a \in At
    BY NoWait
  <2> HIDE DEF a, At
  <2>9. th \in [at : At, space : Slot]
    BY <2>8
  <2> HIDE DEF th
  <2>3. WaitTypeOK'
    BY <1>1, <2>1, <2>2, <2>9 DEF WaitTypeOK, At
  <2>4. /\ \A u \in Thread : Lives(bank, thread[u], timer[u])
        /\ \A u \in todo : ticking /\ timer[u].on
    BY <2>2, LiveParts DEF WaitIInv
  <2>5. ~timer[t].on
    BY <1>1, <2>4 DEF Lives
  <2>6. \A u \in Thread : u # t => thread'[u] = thread[u]
    BY <2>1, <2>2 DEF WaitTypeOK
  <2>7. \A u \in Thread : Lives(bank', thread'[u], timer'[u])
    BY <1>1, <2>1, <2>4, <2>5, <2>6 DEF Lives
  <2> QED BY <1>1, <2>1, <2>3, <2>4, <2>7, LivePartsNext
<1> QED BY <1>3, <1>4 DEF RunAction

\* A pass over the timers.
LEMMA TickBeginsWaits ==
    ASSUME WaitIInv, NEW d \in 1..MaxStep, TickBegins(d)
    PROVE  WaitTypeOK' /\ WaitsAreLive'
<1> DEFINE m(t) == IF timer[t].started THEN [timer[t] EXCEPT !.left = AtLeast0(@ - d)]
                                       ELSE timer[t]
<1>1. WaitTypeOK /\ MaxStep \in Nat
  BY WaitAssumption DEF WaitIInv
<1>2. /\ bank' = bank /\ thread' = thread /\ ticking' = TRUE
      /\ todo' = {t \in Thread : timer[t].on} /\ timer' = [t \in Thread |-> m(t)]
  BY DEF TickBegins
<1>3. ASSUME NEW t \in Thread
      PROVE  /\ timer'[t] \in [on : BOOLEAN, type : Type \cup {None}, started : BOOLEAN,
                               lift : Nat, left : Nat]
             /\ timer'[t].on = timer[t].on /\ timer'[t].type = timer[t].type
             /\ timer'[t].lift = timer[t].lift /\ timer'[t].left <= timer[t].left
  <2>1. timer[t] \in [on : BOOLEAN, type : Type \cup {None}, started : BOOLEAN,
                      lift : Nat, left : Nat]
    BY <1>1 DEF WaitTypeOK
  <2>2. timer'[t] = m(t)
    BY <1>2
  <2>3. CASE timer[t].started
    <3> DEFINE left == AtLeast0(timer[t].left - d)
    <3>1. left \in Nat /\ left <= timer[t].left
      BY <1>1, <2>1 DEF AtLeast0
    <3> HIDE DEF left
    <3>2. timer'[t] = [timer[t] EXCEPT !.left = left]
      BY <2>2, <2>3 DEF left
    <3> QED BY <2>1, <3>1, <3>2
  <2>4. CASE ~timer[t].started
    BY <2>1, <2>2, <2>4
  <2> QED BY <2>3, <2>4
<1> HIDE DEF m
<1>4. WaitTypeOK'
  <2>1. timer' = [t \in Thread |-> timer'[t]]
    BY <1>2
  <2> QED BY <1>1, <1>2, <1>3, <2>1 DEF WaitTypeOK
<1>5. \A t \in Thread : Lives(bank, thread[t], timer[t])
  BY <1>1, LiveParts DEF WaitIInv
<1>6. \A t \in Thread : Lives(bank', thread'[t], timer'[t])
  <2>1. \A t \in Thread : timer[t].left \in Nat /\ timer[t].lift \in Nat /\ timer'[t].left \in Nat
    BY <1>1, <1>3 DEF WaitTypeOK
  <2> QED BY <1>2, <1>3, <1>5, <2>1 DEF Lives
<1>7. \A t \in todo' : ticking' /\ timer'[t].on
  BY <1>2, <1>3
<1> QED BY <1>4, <1>6, <1>7, LivePartsNext

LEMMA TickStepsWaits ==
    ASSUME WaitIInv, NEW t \in Thread, Starts(t) \/ GoesOn(t) \/ Awakes(t)
    PROVE  WaitTypeOK' /\ WaitsAreLive'
<1>1. WaitTypeOK
  BY DEF WaitIInv
<1>2. /\ \A u \in Thread : Lives(bank, thread[u], timer[u])
      /\ \A u \in todo : ticking /\ timer[u].on
  BY <1>1, LiveParts DEF WaitIInv
<1>3. CASE Starts(t)
  <2>1. /\ timer' = [timer EXCEPT ![t].started = TRUE] /\ todo' = todo \ {t}
        /\ bank' = bank /\ thread' = thread /\ ticking' = ticking
    BY <1>3 DEF Starts
  <2>2. WaitTypeOK'
    BY <1>1, <2>1 DEF WaitTypeOK
  <2>3. \A u \in Thread : /\ timer'[u].on = timer[u].on /\ timer'[u].type = timer[u].type
                          /\ timer'[u].lift = timer[u].lift /\ timer'[u].left = timer[u].left
    BY <1>1, <2>1 DEF WaitTypeOK
  <2>4. \A u \in Thread : Lives(bank', thread'[u], timer'[u])
    BY <1>2, <2>1, <2>3 DEF Lives
  <2>5. todo \subseteq Thread
    BY <1>1 DEF WaitTypeOK
  <2> QED BY <1>2, <2>1, <2>2, <2>3, <2>4, <2>5, LivePartsNext
<1>4. CASE GoesOn(t)
  <2>1. /\ todo' = todo \ {t} /\ timer' = timer
        /\ bank' = bank /\ thread' = thread /\ ticking' = ticking
    BY <1>4 DEF GoesOn
  <2>2. WaitTypeOK'
    BY <1>1, <2>1 DEF WaitTypeOK
  <2> QED BY <1>2, <2>1, <2>2, LivePartsNext
<1>5. CASE Awakes(t)
  <2>1. /\ t \in todo /\ bank' = bank /\ gone' = gone /\ ticking' = ticking
    BY <1>5 DEF Awakes
  <2>2. ASSUME NEW time \in Times, Add(t, thread[t].space, time)
        PROVE  WaitTypeOK' /\ WaitsAreLive'
    <3>1. thread[t].space \in Slot /\ bank.space[thread[t].space].open
      BY <1>1, <1>2, <2>1 DEF Lives, WaitTypeOK
    <3> QED BY <2>1, <2>2, <3>1, AddKeeps
  <2>3. ASSUME thread' = [thread EXCEPT ![t] = NoThread], timer' = [timer EXCEPT ![t] = NoTimer],
               todo' = todo \ {t}
        PROVE  WaitTypeOK' /\ WaitsAreLive'
    <3>1. WaitTypeOK'
      BY <1>1, <2>1, <2>3, NoWait DEF WaitTypeOK
    <3>2. \A u \in Thread : /\ thread'[u] = IF u = t THEN NoThread ELSE thread[u]
                            /\ timer'[u] = IF u = t THEN NoTimer ELSE timer[u]
      BY <1>1, <2>3 DEF WaitTypeOK
    <3>3. \A u \in Thread : Lives(bank', thread'[u], timer'[u])
      BY <1>2, <2>1, <3>2, NoWait DEF Lives
    <3>4. \A u \in todo' : ticking' /\ timer'[u].on
      BY <1>1, <1>2, <2>1, <2>3, <3>2 DEF WaitTypeOK
    <3> QED BY <3>1, <3>3, <3>4, LivePartsNext
  <2> QED BY <1>5, <2>2, <2>3 DEF Awakes
<1> QED BY <1>3, <1>4, <1>5

LEMMA InitWaitIInv == WaitInit => WaitIInv
<1> SUFFICES ASSUME WaitInit PROVE WaitIInv
  OBVIOUS
<1>1. IInv
  BY InitIInv DEF WaitInit
<1>2. WaitTypeOK
  BY NoWait DEF WaitInit, WaitTypeOK
<1>3. WaitsAreLive
  BY NoWait DEF WaitInit, WaitsAreLive
<1> QED BY <1>1, <1>2, <1>3 DEF WaitIInv

LEMMA WaitNextKeeps == WaitIInv /\ [WaitNext]_allVars => WaitIInv'
<1> SUFFICES ASSUME WaitIInv, [WaitNext]_allVars PROVE WaitIInv'
  OBVIOUS
<1>1. IInv'
  BY WaitStepsThePool, NextKeeps DEF WaitIInv
<1>2. ASSUME NEW t \in Thread, NEW s \in Slot, RunAction(t, s)
      PROVE  WaitTypeOK' /\ WaitsAreLive'
  BY <1>2, RunActionWaits
<1>3. ASSUME Pool PROVE WaitTypeOK' /\ WaitsAreLive'
  BY <1>1, <1>3, PoolWaits DEF WaitIInv
<1>4. ASSUME Ticks PROVE WaitTypeOK' /\ WaitsAreLive'
  <2>1. ASSUME NEW d \in 1..MaxStep, TickBegins(d) PROVE WaitTypeOK' /\ WaitsAreLive'
    BY <2>1, TickBeginsWaits
  <2>2. ASSUME TickEnds PROVE WaitTypeOK' /\ WaitsAreLive'
    <3>1. WaitTypeOK /\ UNCHANGED <<bank, thread, timer, todo>> /\ todo = {} /\ ticking' = FALSE
      BY <2>2 DEF TickEnds, WaitIInv
    <3> QED BY <3>1 DEF WaitTypeOK, WaitsAreLive, WaitIInv
  <2>3. ASSUME NEW t \in Thread, Starts(t) \/ GoesOn(t) \/ Awakes(t)
        PROVE  WaitTypeOK' /\ WaitsAreLive'
    BY <2>3, TickStepsWaits
  <2>4. CASE \E d \in 1..MaxStep : TickBegins(d)
    BY <2>1, <2>4
  <2>5. CASE \E t \in Thread : Starts(t) \/ GoesOn(t) \/ Awakes(t)
    BY <2>3, <2>5
  <2> QED BY <1>4, <2>2, <2>4, <2>5 DEF Ticks
<1>5. ASSUME UNCHANGED allVars PROVE WaitTypeOK' /\ WaitsAreLive'
  <2>1. UNCHANGED <<bank, gone, thread, timer, todo, ticking>>
    BY <1>5 DEF allVars, waits
  <2> QED BY <2>1 DEF WaitIInv, WaitTypeOK, WaitsAreLive
<1>6. WaitTypeOK' /\ WaitsAreLive'
  BY <1>2, <1>3, <1>4, <1>5 DEF WaitNext
<1> QED BY <1>1, <1>6 DEF WaitIInv

\* A timer resumes only a thread that exists, in an open space of the type the timer is
\* kept under (cb_LuaThreadAwake, LuaWaitBridge), however spaces come, reload and go
\* between two ticks.
THEOREM WaitsLive == WaitSpec => []WaitsAreLive
<1>1. WaitIInv => WaitsAreLive
  BY DEF WaitIInv
<1> QED BY <1>1, InitWaitIInv, WaitNextKeeps, PTL DEF WaitSpec

\* The pool's containers, marks and handles agree as well while threads wait in its
\* spaces: the list of the failed spaces is that of the marks and of what reloads left.
THEOREM WaitsKeepThePool == WaitSpec => [](PoolConsistent /\ StaleHandles)
<1>1. Spec => []PoolConsistent
  BY SpacesPoolConsistent
<1>2. Spec => []StaleHandles
  BY SpacesStaleHandles
<1> QED BY <1>1, <1>2, WaitsUseThePool, PTL
=============================================================================
