---------------------------- MODULE RanaSpaceBank ----------------------------
(***************************************************************************)
(* The pool of Lua spaces, RanaSpaceBank (Vek/LuaBind): slots that are     *)
(* reused and told apart by a serial, the tables by slot and by name, and  *)
(* the list of spaces whose Lua has failed.  m_activeSpaces is a set here: *)
(* its order is that of the serials.  The list of failed spaces is a set   *)
(* of nodes, <<slot, number>>: routine empties it whatever its order.      *)
(***************************************************************************)
EXTENDS Integers, Sequences, FiniteSets

CONSTANTS
    MaxSpaces,  \* the size of the pool
    Name, Type, \* what a space is created under
    Context,    \* the RanaContext objects of the host program
    MaxSerial,  \* bound: the spaces created in a run
    MaxNodes,   \* bound: the nodes one space has in m_exitSpaces
    None

ASSUME BankAssumption ==
    /\ MaxSpaces \in Nat \ {0} /\ MaxSerial \in Nat /\ MaxNodes \in Nat \ {0}
    /\ None \notin Context /\ None \notin Nat

VARIABLES
    bank,       \* the members of RanaSpaceBank and of its RanaSpaces; crashed: the
                \* program has ended; stale, auxiliary: the slots with a node that
                \* a reload left on the list
    gone        \* auxiliary: the handles of spaces that were deleted

vars == <<bank, gone>>

Slot == 0..(MaxSpaces - 1)
Status == {"SS_NONE", "SS_INIT", "SS_RUNING", "SS_PENDING", "SS_TERMINATE"}
RanaSpace == [serial : Nat, status : Status, type : Type \cup {None},
              name : Name \cup {None}, open : BOOLEAN, error : BOOLEAN,
              context : Context \cup {None}, node : 0..MaxNodes]
NewSpace == [serial |-> 0, status |-> "SS_NONE", type |-> None, name |-> None,
             open |-> FALSE, error |-> FALSE, context |-> None, node |-> 0]

\* initMaxSpaces, on an empty bank.
Init ==
    /\ bank = [space |-> [s \in Slot |-> NewSpace], active |-> {},
               unused |-> [i \in 1..MaxSpaces |-> i - 1], table |-> {},
               names |-> {}, exits |-> {}, next |-> 0,
             stale |-> {}, crashed |-> FALSE]
    /\ gone = {}

-----------------------------------------------------------------------------
\* The parts of the operations, as functions of the bank.
HandleOf(b, s) == <<s, b.space[s].serial>>

getLuaSpace(b, h) ==
    IF h[1] \in b.table /\ b.space[h[1]].serial = h[2] THEN h[1] ELSE None

\* The first active space of a type.
GetLuaSpace(b, t) ==
    LET same == {s \in b.active : b.space[s].type = t} IN
    IF same = {} THEN None
    ELSE CHOOSE s \in same : \A o \in same : b.space[s].serial <= b.space[o].serial

\* A failed function puts a space that has a context on the list, once.
CanNote(b, s) == \E n \in 1..MaxNodes : <<s, n>> \notin b.exits
setSpaceExit(b, s) ==
    IF b.space[s].error \/ b.space[s].context = None THEN b
    ELSE LET n == CHOOSE n \in 1..MaxNodes : <<s, n>> \notin b.exits IN
         [b EXCEPT !.space[s] = [@ EXCEPT !.error = TRUE, !.node = n],
                   !.exits = @ \cup {<<s, n>>}]

NoExit(b, s) ==
    IF b.space[s].error
    THEN [b EXCEPT !.space[s].error = FALSE,
                   !.exits = @ \ {<<s, b.space[s].node>>}]
    ELSE b

\* (Slip: the name stays taken.)
Freed_KeepsName(b, s) ==
    [b EXCEPT !.space[s] = [@ EXCEPT !.status = "SS_TERMINATE", !.open = FALSE],
              !.active = @ \ {s}, !.unused = Append(@, s), !.table = @ \ {s}]

Freed(b, s) ==
    [b EXCEPT !.space[s] = [@ EXCEPT !.status = "SS_TERMINATE", !.open = FALSE],
              !.active = @ \ {s}, !.unused = Append(@, s), !.table = @ \ {s},
              !.names = {e \in @ : <<e[1], e[2]>> # <<b.space[s].type, b.space[s].name>>}]

delSpace(b, h) ==
    IF getLuaSpace(b, h) = None THEN b
    ELSE Freed(NoExit(b, h[1]), h[1])

\* initialEmptySpace: the mark is cleared, a node on the list stays.
Opened(b, s, n, t, c) ==
    [b EXCEPT !.space[s] = [@ EXCEPT !.type = t, !.name = n, !.open = TRUE,
                                     !.context = c, !.error = FALSE],
              !.stale = IF b.space[s].error THEN @ \cup {s} ELSE @]

\* The script of the space is loaded and main is run, whose Lua may fail.
Loaded(b, s, raised) == IF raised THEN setSpaceExit(b, s) ELSE b

Running(b, s) == [b EXCEPT !.space[s].status = "SS_RUNING"]

\* clear.
Closed(b, s) ==
    [b EXCEPT !.space[s] = [@ EXCEPT !.open = FALSE, !.status = "SS_TERMINATE"]]

-----------------------------------------------------------------------------
Goes(handles, b) == bank' = b /\ gone' = gone \cup handles

Creatable(n, t) ==
    /\ bank.unused # <<>> /\ bank.next < MaxSerial
    /\ ~\E s \in Slot : <<t, n, s>> \in bank.names

\* (Slip: the serial is not counted up.)
Taken_SameSerial(b, n, t) ==
    LET s == Head(b.unused) IN
    [b EXCEPT !.space[s] = [@ EXCEPT !.status = "SS_INIT", !.serial = b.next],
              !.unused = Tail(@), !.active = @ \cup {s},
              !.names = @ \cup {<<t, n, s>>}, !.table = @ \cup {s}]

Taken(b, n, t) ==
    LET s == Head(b.unused) IN
    [b EXCEPT !.space[s] = [@ EXCEPT !.status = "SS_INIT", !.serial = b.next],
              !.next = @ + 1, !.unused = Tail(@), !.active = @ \cup {s},
              !.names = @ \cup {<<t, n, s>>}, !.table = @ \cup {s}]

\* The bank when the script has run.
Started(n, t, c, raised) ==
    LET s == Head(bank.unused) IN
    Loaded(Opened(Taken(bank, n, t), s, n, t, c), s, raised)

\* createSpace, when the script runs or the space is to be made anyway ...
createSpace(n, t, c, raised) ==
    /\ Creatable(n, t) /\ (raised => CanNote(bank, Head(bank.unused)))
    /\ Goes({}, Running(Started(n, t, c, raised), Head(bank.unused)))

\* ... and when it does not.
createSpaceFails(n, t, c, raised) ==
    /\ Creatable(n, t) /\ (raised => CanNote(bank, Head(bank.unused)))
    /\ LET s == Head(bank.unused)
           b == Closed(Started(n, t, c, raised), s)
       IN  Goes({HandleOf(b, s)}, delSpace(b, HandleOf(b, s)))

\* The host program deletes a space.
deleteSpace(s) ==
    /\ s \in bank.table
    /\ Goes({HandleOf(bank, s)}, delSpace(bank, HandleOf(bank, s)))

\* The new program of a space, under its old handle.
Reloaded(s, raised) ==
    LET r == bank.space[s]
        b == [Closed(bank, s) EXCEPT !.space[s].status = "SS_INIT"]
    IN  Loaded(Opened(b, s, r.name, r.type, r.context), s, raised)

reloadSpace(s, raised) ==
    /\ s \in bank.table /\ (raised => CanNote(bank, s))
    /\ Goes({}, Running(Reloaded(s, raised), s))

reloadSpaceFails(s, raised) ==
    /\ s \in bank.table /\ (raised => CanNote(bank, s))
    /\ LET b == Closed(Reloaded(s, raised), s) IN
        Goes({HandleOf(b, s)}, delSpace(b, HandleOf(b, s)))

\* A Lua function that the bank was asked to run fails.
runFunctionFails(s) ==
    /\ s \in bank.table /\ bank.space[s].status = "SS_RUNING" /\ CanNote(bank, s)
    /\ Goes({}, setSpaceExit(bank, s))

\* (Slip: the mark is left.)
TakenOff_KeepsMark(b, e) == [b EXCEPT !.exits = @ \ {e}]

TakenOff(b, e) ==
    [b EXCEPT !.exits = @ \ {e}, !.space[e[1]].error = FALSE,
              !.stale = {s \in @ : s = e[1] => \E f \in b.exits : f # e /\ f[1] = s}]

\* One turn of routine's loop: the context of the space answers what is to be
\* done about its failure.  A node that is older than the space in its slot may
\* meet one without a context: a null pointer.
routine(e, answer) ==
    /\ e \in bank.exits
    /\ LET b == TakenOff(bank, e)
           h == HandleOf(bank, e[1])
       IN  IF bank.space[e[1]].context = None
           THEN Goes({}, [bank EXCEPT !.crashed = TRUE])
           ELSE IF answer = "EM_DELSPACE"
           THEN Goes(IF getLuaSpace(b, h) = None THEN {} ELSE {h}, delSpace(b, h))
           ELSE Goes({}, b)

Answer == {"EM_DELSPACE", "EM_CUSTOM"}
Node == Slot \X (1..MaxNodes)

Next ==
    /\ ~bank.crashed
    /\ \/ \E n \in Name, t \in Type, c \in Context \cup {None}, raised \in BOOLEAN :
             createSpace(n, t, c, raised) \/ createSpaceFails(n, t, c, raised)
       \/ \E s \in Slot :
             \/ deleteSpace(s) \/ runFunctionFails(s)
             \/ \E raised \in BOOLEAN :
                   reloadSpace(s, raised) \/ reloadSpaceFails(s, raised)
       \/ \E e \in Node, a \in Answer : routine(e, a)

Spec == Init /\ [][Next]_vars

-----------------------------------------------------------------------------
Bank == [space : [Slot -> RanaSpace], active : SUBSET Slot, unused : Seq(Slot),
         table : SUBSET Slot, names : SUBSET (Type \X Name \X Slot),
         exits : SUBSET Node, next : Nat, stale : SUBSET Slot,
         crashed : BOOLEAN]

TypeOK == bank \in Bank /\ gone \subseteq Slot \X Nat

\* The four containers agree: a slot is either unused or active, once; the
\* active ones are those of the table and of the names, each under the name it
\* has, with its Lua state open (the assertions at RanaSpaceBank.cpp:38, 168,
\* 223 and 255).
ContainersAgree ==
    LET b == bank IN
    /\ \A i, j \in DOMAIN b.unused : b.unused[i] = b.unused[j] => i = j
    /\ \A s \in Slot : s \in b.active <=> s \notin {b.unused[i] : i \in DOMAIN b.unused}
    /\ b.table = b.active
    /\ \A s \in Slot :
        /\ s \in b.active <=> b.space[s].open
        /\ s \in b.active <=> b.space[s].status = "SS_RUNING"
        /\ s \in b.active => <<b.space[s].type, b.space[s].name, s>> \in b.names
    /\ \A e, f \in b.names : <<e[1], e[2]>> = <<f[1], f[2]>> => e = f
    /\ \A e \in b.names : /\ e[3] \in b.active
                          /\ <<e[1], e[2]>> = <<b.space[e[3]].type, b.space[e[3]].name>>

\* A handle of a space that was deleted never finds the space that has its
\* slot now (RanaSpaceBank.cpp:127; timers, clients and waits keep handles).
StaleHandles == \A h \in gone : getLuaSpace(bank, h) = None

\* What a marked space remembers as its node is on the list, so taking it off
\* (RanaSpaceBank.cpp:227, 370) erases an element of it, and its context can be
\* asked (line 331).  A node on the list is that of a marked space or one that
\* a reload left there (RanaSpace.cpp:116), and only such a node may meet a
\* space without a context.
MarkedAreListed ==
    /\ \A s \in Slot : bank.space[s].error =>
        /\ s \in bank.active /\ bank.space[s].context # None
        /\ <<s, bank.space[s].node>> \in bank.exits
    /\ \A e \in bank.exits :
        \/ e[1] \in bank.stale
        \/ bank.space[e[1]].error /\ bank.space[e[1]].node = e[2]
    /\ bank.crashed => \E s \in bank.stale : bank.space[s].context = None

\* The pool holds together over every order of creations, failing scripts,
\* reloads, deletions and failures: its four containers agree, and so do the
\* marks and the list of the spaces that failed, but for what reloads leave.
PoolConsistent == TypeOK /\ ContainersAgree /\ MarkedAreListed

\* A failure of a space comes to an end: its context is asked, or the space is
\* reloaded or deleted; unless routine meets a space without a context.
FailuresServed ==
    \A s \in Slot : bank.space[s].error ~> ~bank.space[s].error \/ bank.crashed
=============================================================================
