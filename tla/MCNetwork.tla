------------------------------ MODULE MCNetwork ------------------------------
(***************************************************************************)
(* Model checking of the network's three modules in one run.  They share   *)
(* no state: what they have in common is Session::routine, of which        *)
(* ZoicSession models the bytes, ZoicSessionBank the failure and           *)
(* EditorClient what it tells the editor.  A behaviour is one of one part, *)
(* chosen in the initial state; the variables of the others rest.          *)
(***************************************************************************)
EXTENDS ZoicSession, ZoicSessionBank, EditorClient

VARIABLE part                                       \* which module runs

networkVars == <<part, sessionVars, vars, editorVars>>

\* What the peer of a connection may send: messages, some whose handler refuses
\* or sets an error, and lengths that no message has.
Ping == [len |-> 2, kind |-> "ping"]
Packets ==
    {[len |-> 2, kind |-> "plain"], [len |-> 4, kind |-> "plain"], [len |-> 3, kind |-> "refuse"],
     [len |-> 3, kind |-> "error"], [len |-> 1, kind |-> "plain"], [len |-> 5, kind |-> "plain"]}

\* A connection three ways: what it receives, what it sends, the keep-alive.
Receiving ==
    [bufSize |-> 4, sendInit |-> 4, sendMax |-> 4, dynamic |-> FALSE, pingTimes |-> <<1>>,
     packets |-> Packets, outSizes |-> {}, maxIn |-> 2, maxOut |-> 0, maxConns |-> 2,
     stall |-> 1, mayFail |-> FALSE]
Sending ==
    [bufSize |-> 3, sendInit |-> 3, sendMax |-> 5, dynamic |-> TRUE, pingTimes |-> <<1>>,
     packets |-> {Ping}, outSizes |-> {2, 3}, maxIn |-> 1, maxOut |-> 2, maxConns |-> 2,
     stall |-> 1, mayFail |-> TRUE]
Probing ==
    [Receiving EXCEPT !.pingTimes = <<1, 2, 3>>, !.packets = {Ping}, !.maxIn = 1, !.stall = 3]
NetworkSetups == {Receiving, Sending, Probing}

\* The waits and the silences of the editor's client.
EditorWaits == <<1, 2, 3>>
EditorPings == <<2, 3>>

-----------------------------------------------------------------------------
\* Every part is in an initial state; where it is not the one that runs, in one.
NetworkInit ==
    /\ part \in {"session", "bank", "editor"}
    /\ SessionInit /\ Init /\ EditorInit
    /\ part = "session" \/ conf = Receiving
    /\ part = "bank" \/ bank.max = 1
    /\ part = "editor" \/ server.up

\* A step of one part.
Is(p, A) == part = p /\ A /\ UNCHANGED part
InSession(A) == Is("session", A) /\ UNCHANGED <<vars, editorVars>>
InBank(A) == Is("bank", A) /\ UNCHANGED <<sessionVars, editorVars>>
InEditor(A) == Is("editor", A) /\ UNCHANGED <<sessionVars, vars>>

NextSession ==
    \/ InSession(\E made \in BOOLEAN : open(made))
    \/ InSession(run)
    \/ InSession(\E n \in OutSize : sendMessage(n))
    \/ InSession(sessionError)
    \/ InSession(close)
    \/ InSession(sessionTick)
    \/ InSession(tick)
    \/ InSession(\E p \in Packet : PeerSends(p))
    \/ InSession(PeerEnds)
NextBank ==
    \/ InBank(\E n \in Sizes : setMaxSessions(n))
    \/ InBank(\E c \in Conn : Connects(c))
    \/ InBank(selectorTick)
    \/ InBank(runBegins)
    \/ InBank(drive)
    \/ InBank(runEnds)
    \/ InBank(programError)
NextEditor ==
    \/ InEditor(LuaClientInit)
    \/ InEditor(TickConnected)
    \/ InEditor(TickWaits)
    \/ InEditor(TickTries)
    \/ InEditor(Connect)
    \/ InEditor(DisConnect)
    \/ InEditor(Gen)
    \/ InEditor(SelectorTick)
    \/ InEditor(clockTick)
    \/ InEditor(ServerChanges)
NetworkNext == NextSession \/ NextBank \/ NextEditor

\* The fairness of each module; of the connections, that of the one that probes.
InProbing(A) == InSession(conf = Probing /\ A)
Fairness ==
    /\ WF_networkVars(InProbing(run)) /\ WF_networkVars(InProbing(tick))
    /\ SF_networkVars(InBank(selectorTick))
    /\ WF_networkVars(InBank(runBegins \/ drive \/ runEnds))
    /\ WF_networkVars(InEditor(LuaClientInit)) /\ WF_networkVars(InEditor(Tick))
    /\ WF_networkVars(InEditor(SelectorTick)) /\ WF_networkVars(InEditor(clockTick))
NetworkSpec == NetworkInit /\ [][NetworkNext]_networkVars /\ Fairness

-----------------------------------------------------------------------------
\* FramesInOrder and SentInOrder are ZoicSession's, PoolHolds is ZoicSessionBank's and
\* ServerHears EditorClient's: in the other parts their variables rest in an
\* initial state.

\* EndsAreServed: a peer that stays silent is given up, and counted silent only
\* when it was; an error ends in a close, and a client that connects is answered
\* (Session::routine, SessionBank::run).
EndsAreServed ==
    /\ part = "session" => []ProbesAreDue
    /\ part = "session" /\ conf = Probing => SilenceEnds
    /\ part = "bank" => ErrorsClose /\ AllAnswered

\* ComesBack: a client that is wrong about its connection finds out, and when
\* the server stays up it is connected again and again (LuaClient::Tick).
ComesBack == part = "editor" => FalseEnds /\ Reconnects
=============================================================================
