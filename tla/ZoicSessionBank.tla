--------------------------- MODULE ZoicSessionBank ---------------------------
(***************************************************************************)
(* The server's pool of connections, Zoic::SessionBank: a fixed number of  *)
(* SessionS objects that are opened for one connection after another, told *)
(* apart by a handle that is reused and a serial, and driven one by one by *)
(* run.  What a session does inside routine is in ZoicSession; here it may *)
(* fail, and its handlers may end any session they find by a handle and a  *)
(* serial they have kept, however old.                                     *)
(***************************************************************************)
EXTENDS Integers, SequencesExt

CONSTANTS
    Sizes,      \* what setMaxSessions is called with
    Conn,       \* the connections clients may make
    End         \* the end of m_activeSessions

ASSUME BankAssumption == Sizes \subseteq Nat /\ End \notin Nat

VARIABLES
    bank,       \* the members of SessionBank and of its SessionS objects
    it,         \* run: the iterator, and whether the loop is under way
    net,        \* the listening socket and the sockets that were accepted
    known       \* auxiliary: handle, serial and connection of every session opened

vars == <<bank, it, net, known>>

Handles(n) == 0..(n - 1)
Handle == UNION {Handles(n) : n \in Sizes}
NoConn == "none"

\* A SessionS that createSession has made.
NewSession == [serial |-> 0, conn |-> NoConn, error |-> FALSE]

\* The bank with n sessions that createSession has made; next is m_nextSerial.
Created(n, next) ==
    [max |-> n, sess |-> [h \in Handle |-> NewSession], active |-> <<>>,
     unused |-> [i \in 1..n |-> i - 1], table |-> {}, next |-> next]

Init ==
    /\ \E n \in Sizes : bank = Created(n, 0)
    /\ it = [on |-> FALSE, at |-> End, todo |-> {}, twice |-> FALSE]
    /\ net = [waiting |-> <<>>, came |-> {}, open |-> {}, canRecv |-> TRUE]
    /\ known = {}

-----------------------------------------------------------------------------
\* findSession: the handle, or End.
findSession(b, h, n) ==
    IF h < b.max /\ h \in b.table /\ b.sess[h].serial = n THEN h ELSE End

\* addSessionToActiveList.
Activated(b, h) == [b EXCEPT !.active = Append(@, h), !.table = @ \cup {h}]

\* recvData: a connection is given the first unused session.  The serial is
\* assigned before open, which may fail; the session stays unused then.
\* (Slip: it is taken off the list first.)
Opened_Popped(b, c, ok) ==
    LET h == Head(b.unused)
        t == [b EXCEPT !.sess[h].serial = b.next, !.unused = Tail(@)]
    IN  IF ~ok THEN t
        ELSE Activated([t EXCEPT !.next = @ + 1,
                                 !.sess[h] = [@ EXCEPT !.conn = c, !.error = FALSE]], h)

\* (Slip: the serial stays the same.)
Opened_SameSerial(b, c, ok) ==
    LET h == Head(b.unused)
        t == [b EXCEPT !.sess[h].serial = b.next]
    IN  IF ~ok THEN t
        ELSE Activated([t EXCEPT !.unused = Tail(@),
                                 !.sess[h] = [@ EXCEPT !.conn = c, !.error = FALSE]], h)

Opened(b, c, ok) ==
    LET h == Head(b.unused)
        t == [b EXCEPT !.sess[h].serial = b.next]
    IN  IF ~ok THEN t
        ELSE Activated([t EXCEPT !.next = @ + 1, !.unused = Tail(@),
                                 !.sess[h] = [@ EXCEPT !.conn = c, !.error = FALSE]], h)

\* m_itList, the place of a session in the list.
Place(b, h) == CHOOSE i \in DOMAIN b.active : b.active[i] = h

\* closeSession: close, and back to the unused ones.
closeSession(b, h) ==
    [b EXCEPT !.sess[h].conn = NoConn, !.active = RemoveAt(@, Place(b, h)),
              !.table = @ \ {h}, !.unused = Append(@, h)]

First(b) == IF b.active = <<>> THEN End ELSE Head(b.active)
After(b, h) ==
    IF Place(b, h) = Len(b.active) THEN End ELSE b.active[Place(b, h) + 1]

-----------------------------------------------------------------------------
\* setMaxSessions: refused while there are connections.
\* (Slip: not refused.)
setMaxSessions_Always(n) ==
    /\ ~it.on
    /\ bank' = Created(n, bank.next)
    /\ UNCHANGED <<it, net, known>>

setMaxSessions(n) ==
    /\ ~it.on /\ bank.active = <<>>
    /\ bank' = Created(n, bank.next)
    /\ UNCHANGED <<it, net, known>>

\* A client connects; Selector::Tick finds the listening socket readable.
Connects(c) ==
    /\ c \notin net.came
    /\ net' = [net EXCEPT !.waiting = Append(@, c), !.came = @ \cup {c}]
    /\ UNCHANGED <<bank, it, known>>
selectorTick ==
    /\ ~it.on /\ net.waiting # <<>> /\ ~net.canRecv
    /\ net' = [net EXCEPT !.canRecv = TRUE]
    /\ UNCHANGED <<bank, it, known>>

\* run: one connection is accepted, or refused when no session is left or open
\* fails; then the loop begins.
\* (Slip: it is accepted when there is a session for it.)
Accepted_Waits(ok) ==
    IF ~net.canRecv \/ net.waiting = <<>> \/ bank.unused = <<>>
    THEN bank' = bank /\ net' = [net EXCEPT !.canRecv = FALSE] /\ known' = known
    ELSE LET b == Opened(bank, Head(net.waiting), ok)
         IN  /\ bank' = b
             /\ net' = [net EXCEPT !.canRecv = FALSE, !.waiting = Tail(@),
                                   !.open = IF ok THEN @ \cup {Head(net.waiting)} ELSE @]
             /\ known' = known

Accepted(ok) ==
    IF ~net.canRecv \/ net.waiting = <<>>
    THEN bank' = bank /\ net' = [net EXCEPT !.canRecv = FALSE] /\ known' = known
    ELSE LET c == Head(net.waiting)
             b == IF bank.unused = <<>> THEN bank ELSE Opened(bank, c, ok)
             h == Last(b.active)
             opened == bank.unused # <<>> /\ ok
         IN  /\ bank' = b
             /\ net' = [net EXCEPT !.canRecv = FALSE, !.waiting = Tail(@),
                                   !.open = IF opened THEN @ \cup {c} ELSE @]
             /\ known' = IF opened THEN known \cup {<<h, b.sess[h].serial, c>>} ELSE known
runBegins ==
    /\ ~it.on
    /\ \E ok \in BOOLEAN : Accepted(ok)
    /\ it' = [it EXCEPT !.on = TRUE, !.at = First(bank'), !.todo = bank'.table]

\* What a handler may do to a session it has noted: setError.
\* (Slip: the session is closed at once.)
Noted(b) == {h \in b.table : \E k \in known : findSession(b, k[1], k[2]) = h}
setErrors_Close(b) == {b} \cup {closeSession(b, h) : h \in Noted(b) \ {it.at}}

setErrors(b) == {b} \cup {[b EXCEPT !.sess[h].error = TRUE] : h \in Noted(b)}

\* One turn: the iterator moves on, a handler ends what it finds, the session
\* fails or not, and one that has an error is closed.
Driven(b, closed, at) ==
    LET h == it.at IN
    /\ bank' = IF closed THEN closeSession(b, h) ELSE b
    /\ it' = [it EXCEPT !.at = at, !.todo = @ \ {h}, !.twice = @ \/ h \notin it.todo]
    /\ net' = IF closed THEN [net EXCEPT !.open = @ \ {b.sess[h].conn}] ELSE net
    /\ UNCHANGED known

\* (Slips: after a session was closed the loop starts again; only a failure of
\* the session's own closes it.)
drive_Restarts ==
    /\ it.on /\ it.at # End
    /\ \E fails \in BOOLEAN : \E d \in setErrors(bank) :
       LET b == [d EXCEPT !.sess[it.at].error = @ \/ fails]
           closed == b.sess[it.at].error
       IN  Driven(b, closed, IF closed THEN First(closeSession(b, it.at))
                             ELSE After(bank, it.at))
drive_OwnFailure ==
    /\ it.on /\ it.at # End
    /\ \E fails \in BOOLEAN : \E d \in setErrors(bank) :
       Driven(d, fails, After(bank, it.at))

drive ==
    /\ it.on /\ it.at # End
    /\ \E fails \in BOOLEAN : \E d \in setErrors(bank) :
       LET b == [d EXCEPT !.sess[it.at].error = @ \/ fails]
       IN  Driven(b, b.sess[it.at].error, After(bank, it.at))
runEnds ==
    /\ it.on /\ it.at = End
    /\ it' = [it EXCEPT !.on = FALSE]
    /\ UNCHANGED <<bank, net, known>>

\* Outside run the program may end a session as well.
programError ==
    /\ ~it.on
    /\ \E b \in setErrors(bank) : b # bank /\ bank' = b
    /\ UNCHANGED <<it, net, known>>

Next ==
    \/ \E n \in Sizes : setMaxSessions(n)
    \/ \E c \in Conn : Connects(c)
    \/ selectorTick
    \/ runBegins
    \/ drive
    \/ runEnds
    \/ programError

Spec == Init /\ [][Next]_vars

\* Each frame of the service ticks the selector and the bank, so the selector has
\* its turn between two runs (SF, for it is not enabled while one is under way).
FairSpec == Spec /\ SF_vars(selectorTick) /\ WF_vars(runBegins \/ drive \/ runEnds)

-----------------------------------------------------------------------------
SessionS == [serial : Nat, conn : Conn \cup {NoConn}, error : BOOLEAN]

\* TypeOK: the members keep their shape, and the loop's iterator stands on a
\* session of the list (closeSession erases the place of one that was passed).
TypeOK ==
    /\ bank.max \in Sizes /\ bank.sess \in [Handle -> SessionS] /\ bank.next \in Nat
    /\ bank.active \in Seq(Handle) /\ bank.unused \in Seq(Handle)
    /\ bank.table \subseteq Handle
    /\ it.on \in BOOLEAN /\ it.at \in Handle \cup {End}
    /\ it.at # End => it.on /\ it.at \in bank.table

\* PoolConsistent: each session is either unused or active, once, and the index
\* holds the active ones (setMaxSessions, recvData, closeSession).
PoolConsistent ==
    /\ IsInjective(bank.active \o bank.unused)
    /\ ToSet(bank.active) \cup ToSet(bank.unused) = Handles(bank.max)
    /\ bank.table = ToSet(bank.active)

\* SocketsOwned: a socket that was accepted is open as long as a session has it,
\* and no longer; each is of one session.
SocketsOwned ==
    /\ net.open = {bank.sess[h].conn : h \in bank.table}
    /\ \A h, i \in bank.table : bank.sess[h].conn = bank.sess[i].conn => h = i

\* StaleHandles: a handle and a serial that were noted find the session of that
\* connection or none, whatever the handle has been used for since.
StaleHandles ==
    \A k \in known : LET h == findSession(bank, k[1], k[2]) IN
                     h # End => bank.sess[h].conn = k[3]

\* DrivenOnce: a run drives each session that is connected when its loop begins,
\* once, although sessions leave the list under the iterator.
DrivenOnce == ~it.twice /\ (it.on /\ it.at = End => it.todo = {})

\* PoolHolds: session objects, sockets, handles and the loop's iterator agree
\* while handlers end sessions by old handles (SessionBank::run, recvData).
PoolHolds == TypeOK /\ PoolConsistent /\ SocketsOwned /\ StaleHandles /\ DrivenOnce

\* ErrorsClose: a session that has an error is closed.
ErrorsClose ==
    \A h \in Handle : (h \in bank.table /\ bank.sess[h].error)
                      ~> (h \notin bank.table \/ ~bank.sess[h].error)

\* AllAnswered: a client that connects is accepted or refused.
AllAnswered == \A c \in Conn : c \in ToSet(net.waiting) ~> c \notin ToSet(net.waiting)
=============================================================================
