----------------------------- MODULE EditorClient -----------------------------
(***************************************************************************)
(* The editor's connection to the Lua server: LuaClient (TriggerEditor/    *)
(* Protocol), its base Zoic::SessionC, the requests it sends and the frame *)
(* that shows whether it is connected.  The session's buffers are in       *)
(* ZoicSession; here a message is queued whole, and what decides whether   *)
(* routine fails is kept: the socket, the error, the two flags, the queue  *)
(* and the keep-alive.  Times are in the units of the constants.           *)
(***************************************************************************)
EXTENDS Integers, Sequences, FiniteSetsExt

CONSTANTS
    Waits,      \* s_waitTime: 3 s, times 1.5 with each Tick, at most 180 s
    PingTimesC,  \* the silences after which the session probes
    MaxQueue    \* the requests that fit in the send buffer

\* The times grow, the first probe (SYSPING_KEEPIDLE) takes some, and the buffer has
\* room for a request.
ASSUME EditorAssumption ==
    /\ Waits \in Seq(Nat) /\ Waits # <<>> /\ PingTimesC \in Seq(Nat) /\ PingTimesC # <<>>
    /\ \A i \in 1..(Len(Waits) - 1) : Waits[i] <= Waits[i + 1]
    /\ PingTimesC[1] > 0 /\ MaxQueue \in Nat \ {0}

VARIABLES
    m_kNetState,    \* LuaClient: "wait" for, "connect", "disconnect"
    session,        \* the session: see Session below
    retry,          \* Tick's statics: the time since the last try, and the wait
    shown,          \* m_bConnected of the frame, which enables its menu items
    server          \* the server, and what it heard on the present connection

editorVars == <<m_kNetState, session, retry, shown, server>>

Request == {"login", "reload", "probe"}
LastPingC == PingTimesC[Len(PingTimesC)]
LastWait == Waits[Len(Waits)]

\* A queued message is fresh when the connection it was queued on is the present
\* one.  Nothing was received since the start, long ago (m_lastReceivedTick = 0).
NewSessionC == [open |-> FALSE, error |-> FALSE, canRecv |-> TRUE, canSend |-> TRUE,
               buffer |-> FALSE, queue |-> <<>>, pings |-> 0, quiet |-> LastPingC]
Silent == [first |-> "none", stale |-> FALSE]

EditorInit ==
    /\ m_kNetState = "wait" /\ session = NewSessionC /\ shown = FALSE
    /\ retry = [since |-> LastWait + 1, wait |-> 1, begun |-> FALSE]
    /\ server \in [up : BOOLEAN, link : {"none"}, heard : {Silent}]

-----------------------------------------------------------------------------
\* sendMessage of the session: it is queued whether or not there is a connection,
\* when there is a buffer; when it does not fit the session has an error.
sendMessageC(t, kind) ==
    CASE ~t.buffer -> t
      [] t.buffer /\ Len(t.queue) >= MaxQueue -> [t EXCEPT !.error = TRUE]
      [] OTHER -> [t EXCEPT !.queue = Append(@, [kind |-> kind, fresh |-> t.open])]

\* Session::close leaves the error and the flags.
Closed(t) == [t EXCEPT !.open = FALSE, !.queue = <<>>, !.pings = 0]

OpenedC(t) ==
    [t EXCEPT !.open = TRUE, !.error = FALSE, !.canRecv = TRUE, !.canSend = TRUE,
              !.buffer = TRUE, !.quiet = 0,
              !.queue = [i \in DOMAIN t.queue |-> [t.queue[i] EXCEPT !.fresh = FALSE]]]

\* The server hears what is sent to it, in order.
Heard(h, q) ==
    IF q = <<>> THEN h
    ELSE [first |-> IF h.first = "none" THEN q[1].kind ELSE h.first,
          stale |-> h.stale \/ \E i \in DOMAIN q : ~q[i].fresh]

\* The parts of routine, each the set of what it may come to: x.t is the session,
\* x.h what the server heard.  On a closed socket every call fails.
recvDataC(x) ==
    LET t == [x.t EXCEPT !.canRecv = FALSE] IN
    CASE ~x.t.canRecv -> {x}
      [] x.t.canRecv /\ (~x.t.open \/ server.link = "closed") ->
            {[x EXCEPT !.t = [t EXCEPT !.error = TRUE]]}
      [] OTHER -> {[x EXCEPT !.t = t]} \cup
                  {[x EXCEPT !.t = [t EXCEPT !.pings = 0, !.quiet = 0]] :
                   k \in IF server.link = "mute" THEN {} ELSE {1}}
\* (Slip: a session without a socket is not probed.)
probeC_Open(x) ==
    IF x.t.open /\ x.t.pings < Len(PingTimesC) /\ x.t.quiet >= PingTimesC[x.t.pings + 1]
    THEN {[x EXCEPT !.t = [sendMessageC(@, "probe") EXCEPT
              !.canSend = TRUE, !.pings = @ + 1,
              !.error = @ \/ x.t.pings + 1 >= Len(PingTimesC)]]}
    ELSE {x}

probeC(x) ==
    LET t == [x.t EXCEPT !.pings = @ + 1] IN
    CASE x.t.pings >= Len(PingTimesC) -> {x}
      [] x.t.pings < Len(PingTimesC) /\ x.t.quiet < PingTimesC[x.t.pings + 1] -> {x}
      [] OTHER -> IF t.pings >= Len(PingTimesC)
                  THEN {[x EXCEPT !.t = [t EXCEPT !.error = TRUE]]}
                  ELSE {[x EXCEPT !.t = [sendMessageC(t, "probe") EXCEPT !.canSend = TRUE]]}
sendDataC(x) ==
    LET q == x.t.queue IN
    CASE q = <<>> -> {x}
      [] q # <<>> /\ (~x.t.open \/ server.link = "closed") ->
            {[x EXCEPT !.t = [x.t EXCEPT !.error = TRUE]]}
      [] OTHER -> {[t |-> [x.t EXCEPT !.queue = SubSeq(q, n + 1, Len(q))],
                    h |-> Heard(x.h, SubSeq(q, 1, n))] : n \in 0..Len(q)}
sendIf(x) ==
    IF x.t.canSend
    THEN {[y EXCEPT !.t = [y.t EXCEPT !.canSend = FALSE]] : y \in sendDataC(x)} ELSE {x}
routine(t, h) ==
    LET got  == recvDataC([t |-> t, h |-> h])
        due  == UNION {probeC(x) : x \in got}
        sent == UNION {sendIf(x) : x \in due}
    IN  UNION {IF x.t.error THEN sendDataC(x) ELSE {x} : x \in sent}

\* SessionC::run closes the session when routine fails.
\* (Slip: it does not.)
RunC_Open(t, h) == {[t |-> x.t, h |-> x.h, ok |-> ~x.t.error] : x \in routine(t, h)}

RunC(t, h) ==
    {IF x.t.error THEN [t |-> Closed(x.t), h |-> x.h, ok |-> FALSE]
     ELSE [t |-> x.t, h |-> x.h, ok |-> TRUE] : x \in routine(t, h)}

-----------------------------------------------------------------------------
\* CloseServer and ConnectGameServer.  x: the net state, the session, what was
\* heard.  start may fail or time out; DoConnect does not look at its result.
CloseServer(x) ==
    [x EXCEPT !.t = Closed(@), !.net = IF @ = "connect" THEN "disconnect" ELSE @]
DoConnect(x) ==
    LET y == IF server.up THEN [x EXCEPT !.t = OpenedC(@), !.h = Silent] ELSE x
    IN  {[net |-> IF r.ok THEN "connect" ELSE "wait", t |-> r.t, h |-> r.h] :
         r \in RunC(y.t, y.h)}

\* (Slip: a session that waits for a connection is not closed first.)
ConnectGameServer_NoClose(x) ==
    DoConnect(IF x.net = "connect" THEN CloseServer(x) ELSE x)

ConnectGameServer(x) ==
    DoConnect(IF x.net \in {"connect", "wait"} THEN CloseServer(x) ELSE x)

\* The connection on the server's side, and what the frame is told.
Link(t) == IF t.open THEN IF session.open THEN server.link ELSE "up" ELSE "none"
Becomes(x) ==
    /\ m_kNetState' = x.net /\ session' = x.t
    /\ server' = [server EXCEPT !.link = Link(x.t), !.heard = IF x.t.open THEN x.h ELSE Silent]
    /\ shown' = (x.net = "connect")     \* UpdateConnectState
Present == [net |-> m_kNetState, t |-> session, h |-> server.heard]

\* A try to connect, and the login that is queued whatever came of it.
TriesFrom(x) ==
    \E y \in ConnectGameServer(x) : Becomes([y EXCEPT !.t = sendMessageC(@, "login")])

LuaClientInit ==
    /\ ~retry.begun /\ retry' = [retry EXCEPT !.begun = TRUE]
    /\ TriesFrom(Present)

\* Tick: drive the session, or wait for the next try.  The wait grows with each
\* Tick of a client that waits, and not with each try.
Waited == IF m_kNetState = "disconnect" THEN 1 ELSE Min({retry.wait + 1, Len(Waits)})
TickConnected ==
    /\ retry.begun /\ m_kNetState = "connect"
    /\ \E r \in RunC(session, server.heard) :
         Becomes([net |-> IF r.ok THEN "connect" ELSE "disconnect", t |-> r.t, h |-> r.h])
    /\ UNCHANGED retry
\* (Slip: the time of the last try is noted by each Tick.)
TickWaits_Notes ==
    /\ retry.begun /\ m_kNetState # "connect" /\ retry.since <= Waits[Waited]
    /\ retry' = [retry EXCEPT !.wait = Waited, !.since = 0]
    /\ UNCHANGED <<m_kNetState, session, shown, server>>

TickWaits ==
    /\ retry.begun /\ m_kNetState # "connect" /\ retry.since <= Waits[Waited]
    /\ retry' = [retry EXCEPT !.wait = Waited]
    /\ UNCHANGED <<m_kNetState, session, shown, server>>
TickTries ==
    /\ retry.begun /\ m_kNetState # "connect" /\ retry.since > Waits[Waited]
    /\ retry' = [retry EXCEPT !.wait = Waited, !.since = 0]
    /\ TriesFrom(Present)
Tick == TickConnected \/ TickWaits \/ TickTries

\* The menu items of the frame, which are enabled by what is shown.
Connect ==
    /\ retry.begun /\ ~shown /\ m_kNetState # "connect"
    /\ TriesFrom(CloseServer(Present)) /\ UNCHANGED retry
DisConnect ==
    /\ retry.begun /\ shown
    /\ Becomes(CloseServer(Present)) /\ UNCHANGED retry

\* Generating code asks the server to reload the space, when it is connected.
\* (Slip: it asks in any case.)
Gen_Always ==
    /\ retry.begun
    /\ session' = sendMessageC(session, "reload") /\ UNCHANGED <<m_kNetState, retry, shown, server>>

Gen ==
    /\ retry.begun /\ shown
    /\ session' = sendMessageC(session, "reload") /\ UNCHANGED <<m_kNetState, retry, shown, server>>

\* Selector::Tick: only a socket that is open is selected.
SelectorTick ==
    /\ session.open
    /\ \E r, w \in BOOLEAN :
         /\ server.link = "closed" => r
         /\ session' = [session EXCEPT !.canRecv = @ \/ r, !.canSend = @ \/ w]
    /\ UNCHANGED <<m_kNetState, retry, shown, server>>

\* Time passes.
clockTick ==
    /\ session' = [session EXCEPT !.quiet = Min({@ + 1, LastPingC})]
    /\ retry' = [retry EXCEPT !.since = Min({@ + 1, LastWait + 1})]
    /\ UNCHANGED <<m_kNetState, shown, server>>

\* The server starts and stops; the connection ends, or nothing comes any more.
ServerChanges ==
    /\ \/ server' = [server EXCEPT !.up = ~@]
       \/ /\ server.link = "up"
          /\ \E l \in {"closed", "mute"} : server' = [server EXCEPT !.link = l]
    /\ UNCHANGED <<m_kNetState, session, retry, shown>>

EditorNext ==
    \/ LuaClientInit
    \/ TickConnected
    \/ TickWaits
    \/ TickTries
    \/ Connect
    \/ DisConnect
    \/ Gen
    \/ SelectorTick
    \/ clockTick
    \/ ServerChanges

EditorSpec == EditorInit /\ [][EditorNext]_editorVars

\* OnIdle ticks the service for ever (the selector and the client), and time goes on.
EditorFairSpec ==
    /\ EditorSpec
    /\ WF_editorVars(LuaClientInit) /\ WF_editorVars(Tick)
    /\ WF_editorVars(SelectorTick) /\ WF_editorVars(clockTick)

-----------------------------------------------------------------------------
Session == [open : BOOLEAN, error : BOOLEAN, canRecv : BOOLEAN, canSend : BOOLEAN,
            buffer : BOOLEAN, queue : Seq([kind : Request, fresh : BOOLEAN]),
            pings : 0..Len(PingTimesC), quiet : 0..LastPingC]

\* EditorTypeOK: the members keep their shape; what is shown is the state of the net,
\* whichever way it was reached (UpdateConnectState), and an open socket is one
\* the client knows of, or it would never be closed (run, CloseServer).
EditorTypeOK ==
    /\ m_kNetState \in {"wait", "connect", "disconnect"} /\ session \in Session
    /\ retry \in [since : 0..(LastWait + 1), wait : 1..Len(Waits), begun : BOOLEAN]
    /\ shown = (m_kNetState = "connect")
    /\ session.open => m_kNetState = "connect"

\* NothingStale: what the server hears on a connection was asked for on that
\* connection, although requests are queued with and without one.
NothingStale == ~server.heard.stale

\* LoginFirst: the first thing the server hears on a connection is the login.
LoginFirst == server.heard.first \in {"none", "login"}

\* ServerHears: a server hears the login first, nothing that was queued for an
\* earlier connection, and an open socket is one the client knows of
\* (ConnectGameServer, Tick).
ServerHears == LoginFirst /\ NothingStale /\ EditorTypeOK

\* FalseEnds: a client that believes it is connected and is not finds it out.
FalseEnds == m_kNetState = "connect" /\ ~session.open ~> m_kNetState # "connect" \/ session.open

\* Reconnects: once the server stays up the client is connected again and again,
\* whatever the user asks for in between.
Reconnects == <>[]server.up => []<>(m_kNetState = "connect" /\ session.open)
=============================================================================
