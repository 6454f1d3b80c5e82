---------------------------- MODULE RanaDispatch ----------------------------
(***************************************************************************)
(* Messages, events and triggers of one Lua space: RanaEventBank,          *)
(* RanaTriggerBank and RanaSpace::onMessage (Vek/LuaBind).  A message      *)
(* walks the events of its type and bursts their triggers; the Lua of a    *)
(* trigger may register events, switch them, run other triggers and, in    *)
(* functions of the host program, send messages, all while the walk        *)
(* stands.  The calls under way are a stack of frames.                     *)
(***************************************************************************)
EXTENDS Integers, Sequences, FiniteSets

CONSTANTS
    Name,       \* names of triggers
    Key,        \* timers, and the arguments and labels of other events
    MaxDepth,   \* bound: the calls under way
    MaxEvents,  \* bound: the events of the space
    None

ASSUME DispatchAssumption ==
    MaxDepth \in Nat /\ MaxEvents \in Nat /\ None \notin Key /\ None \notin Nat

VARIABLES
    trigger,    \* m_triggersByHandle
    event,      \* m_eventsByHandle; m_typeMap keeps the same order
    stack,      \* the calls under way, innermost last
    bursting,   \* m_BurstingTrigger
    putting,    \* m_puttingVariantMap: what it holds
    contexts,   \* m_VMapStack
    unused,     \* m_unusedVMaps
    crashed     \* an iterator of a vector that was moved has been used

vars == <<trigger, event, stack, bursting, putting, contexts, unused, crashed>>

\* A time event is found by its type and compares its timer when it is
\* invoked; the others carry their key as argument and as sort label.
EventType == {"time", "labelled"}
NewTrigger(n) == [name |-> n, on |-> TRUE]
Walk(ty, k, first) ==
    [call |-> "onMessage", type |-> ty, key |-> k, first |-> first, at |-> 0,
     ok |-> FALSE, moved |-> FALSE, bursts |-> 0]
Burst(t, phase) == [call |-> phase, trigger |-> t]
Phase == {"checkCondtion", "doAction"}

Init ==
    /\ trigger = <<>> /\ event = <<>> /\ stack = <<>> /\ bursting = None
    /\ putting = None /\ contexts = <<>> /\ unused = <<>>
    /\ crashed = FALSE

-----------------------------------------------------------------------------
Depth == Len(stack)
Top == stack[Depth]
Below == SubSeq(stack, 1, Depth - 1)
Calling == stack # <<>>

\* Lua runs in a trigger, or the host program and a resumed thread run it.
LuaRuns == ~crashed /\ (Calling => Top.call \in Phase)

Banks == <<trigger, event>>
Maps == <<putting, contexts, unused>>

TriggersNamed(n) == {i \in DOMAIN trigger : trigger[i].name = n}

\* (Slip: a trigger of the name is not looked for.)
WithTrigger_Always(n) == Append(trigger, NewTrigger(n))

\* addTrigger: an existing trigger of that name is used.
WithTrigger(n) == IF TriggersNamed(n) = {} THEN Append(trigger, NewTrigger(n)) ELSE trigger
HandleIn(ts, n) == CHOOSE i \in DOMAIN ts : ts[i].name = n

\* operator==: the arguments of a time event do not hold its timer.
Args(e) == IF e.type = "time" THEN None ELSE e.key
SameEvent(d, e) == d.trigger = e.trigger /\ d.type = e.type /\ Args(d) = Args(e)

Registrable(e) ==
    Len(event) < MaxEvents /\ ~\E i \in DOMAIN event : SameEvent(event[i], e)

\* A push_back may move the vector of a type, under the walks of that type;
\* the labels are a multimap, whose iterators stay.
Moved(fs, ty, move) ==
    [i \in DOMAIN fs |->
        IF fs[i].call = "onMessage" /\ fs[i].type = ty /\ ty = "time" /\ move
        THEN [fs[i] EXCEPT !.moved = TRUE] ELSE fs[i]]

registerEvent(n, ty, k, move) ==
    LET ts == WithTrigger(n)
        e == [trigger |-> HandleIn(ts, n), type |-> ty, key |-> k, on |-> TRUE]
    IN  /\ LuaRuns
        /\ trigger' = ts
        /\ IF Registrable(e)
           THEN event' = Append(event, e) /\ stack' = Moved(stack, ty, move)
           ELSE UNCHANGED <<event, stack>>
        /\ UNCHANGED <<bursting, crashed, Maps>>

\* ranaSetTriggerOnOff, and the switches of the events of a trigger, of a type
\* and of the space.
setTriggerOnOff(n, b) ==
    /\ LuaRuns /\ TriggersNamed(n) # {}
    /\ trigger' = [trigger EXCEPT ![HandleIn(trigger, n)].on = b]
    /\ UNCHANGED <<event, stack, bursting, crashed, Maps>>

Switched(P(_), b) ==
    /\ LuaRuns /\ event # <<>>
    /\ event' = [i \in DOMAIN event |-> IF P(event[i]) THEN [event[i] EXCEPT !.on = b] ELSE event[i]]
    /\ UNCHANGED <<trigger, stack, bursting, crashed, Maps>>

setEventOnOff(b) == Switched(LAMBDA e : TRUE, b)
setEventOnOffByType(ty, b) == Switched(LAMBDA e : e.type = ty, b)
setEventOnOffByTrigger(n, b) == Switched(LAMBDA e : trigger[e.trigger].name = n, b)

\* delSpace and reloadSpace: nothing of the space is running.
deleteTrigger ==
    /\ ~Calling /\ ~crashed /\ trigger # <<>>
    /\ trigger' = <<>> /\ event' = <<>>
    /\ UNCHANGED <<stack, bursting, crashed, Maps>>

-----------------------------------------------------------------------------
\* RanaSpace::onMessage, when what the host program has put under the keys of
\* the message is k.
PushMap(k) ==
    /\ contexts' = Append(contexts, k)
    /\ IF unused = <<>> THEN putting' = None /\ UNCHANGED unused
       ELSE putting' = Head(unused) /\ unused' = Tail(unused)

\* (Slip: the map that comes back is not cleared.)
PopMap_Full ==
    /\ putting' = contexts[Len(contexts)] /\ unused' = Append(unused, None)
    /\ contexts' = SubSeq(contexts, 1, Len(contexts) - 1)

\* Both maps are cleared.
PopMap ==
    /\ putting' = None /\ unused' = Append(unused, None)
    /\ contexts' = SubSeq(contexts, 1, Len(contexts) - 1)

HasType(ty) == \E i \in DOMAIN event : event[i].type = ty

onMessage(ty, k, first) ==
    /\ LuaRuns /\ Depth < MaxDepth /\ HasType(ty)
    /\ PushMap(k)
    /\ stack' = Append(stack, Walk(ty, k, first))
    /\ UNCHANGED <<Banks, bursting, crashed>>

\* The events the walk w has still to visit: all of the type, or those that
\* carry the label.
ToVisit(w) ==
    {i \in DOMAIN event : /\ i > w.at /\ event[i].type = w.type
                          /\ w.type = "labelled" => event[i].key = w.key}
NextEvent(w) == CHOOSE i \in ToVisit(w) : \A j \in ToVisit(w) : i <= j

\* (Slip: the walk goes on when the message is for the first only.)
Done_All(w) == ToVisit(w) = {}

Done(w) == (w.ok /\ w.first) \/ ToVisit(w) = {}
Walking == ~crashed /\ Calling /\ Top.call = "onMessage"

WalkEnds ==
    /\ Walking /\ (~Top.moved \/ (Top.ok /\ Top.first)) /\ Done(Top)
    /\ stack' = Below /\ PopMap
    /\ UNCHANGED <<Banks, bursting, crashed>>

\* The walk goes on in a vector that was moved: undefined.
WalkCrashes ==
    /\ Walking /\ Top.moved /\ ~(Top.ok /\ Top.first)
    /\ crashed' = TRUE
    /\ UNCHANGED <<Banks, stack, bursting, Maps>>

preValidate(e, w) == e.key = w.key
Ready(e, w) == e.on /\ preValidate(e, w) /\ trigger[e.trigger].on

Passed(w, i) == [w EXCEPT !.at = i]
Bursts(w, i) == [w EXCEPT !.at = i, !.ok = TRUE, !.bursts = @ + 1]

\* onInvokeEvent, and burstTrigger up to the call of the condition; what it
\* returns, that a trigger was found, is known then.
onInvokeEvent ==
    /\ Walking /\ ~Top.moved /\ ~Done(Top)
    /\ LET i == NextEvent(Top)
           e == event[i]
       IN  IF Ready(e, Top)
           THEN /\ Depth < MaxDepth
                /\ stack' = Append(Append(Below, Bursts(Top, i)), Burst(e.trigger, "checkCondtion"))
                /\ bursting' = e.trigger
           ELSE stack' = Append(Below, Passed(Top, i)) /\ UNCHANGED bursting
    /\ UNCHANGED <<Banks, crashed, Maps>>

\* r_RunTrigger: the trigger is made if there is none of that name; a check of
\* the condition goes with one of the switch.
RunTrigger(n, check) ==
    LET ts == WithTrigger(n)
        t == HandleIn(ts, n)
    IN  /\ LuaRuns /\ Depth < MaxDepth
        /\ trigger' = ts
        /\ IF check /\ ~ts[t].on THEN UNCHANGED <<stack, bursting>>
           ELSE /\ stack' = Append(stack, Burst(t, IF check THEN "checkCondtion" ELSE "doAction"))
                /\ bursting' = t
        /\ UNCHANGED <<event, crashed, Maps>>

\* The condition holds, or is missing or fails, which counts as holding ...
ConditionHolds ==
    /\ LuaRuns /\ Calling /\ Top.call = "checkCondtion"
    /\ stack' = Append(Below, Burst(Top.trigger, "doAction"))
    /\ UNCHANGED <<Banks, bursting, crashed, Maps>>

\* ... or it does not, or the action has run: the burst returns.
BurstEnds ==
    /\ LuaRuns /\ Calling
    /\ stack' = Below /\ bursting' = None
    /\ UNCHANGED <<Banks, crashed, Maps>>

-----------------------------------------------------------------------------
Lua ==
    \/ \E n \in Name, ty \in EventType, k \in Key, move \in BOOLEAN : registerEvent(n, ty, k, move)
    \/ \E n \in Name, b \in BOOLEAN : \/ setTriggerOnOff(n, b) \/ setEventOnOffByTrigger(n, b)
                                      \/ RunTrigger(n, b)
    \/ \E ty \in EventType, b \in BOOLEAN : setEventOnOffByType(ty, b)
    \/ \E b \in BOOLEAN : setEventOnOff(b)
    \/ \E ty \in EventType, k \in Key, first \in BOOLEAN : onMessage(ty, k, first)

Next == Lua \/ deleteTrigger \/ onInvokeEvent \/ WalkEnds \/ WalkCrashes
        \/ ConditionHolds \/ BurstEnds

Spec == Init /\ [][Next]_vars

-----------------------------------------------------------------------------
Frame ==
    [call : {"onMessage"}, type : EventType, key : Key, first : BOOLEAN, at : Nat,
     ok : BOOLEAN, moved : BOOLEAN, bursts : Nat]
    \cup [call : Phase, trigger : Nat]

TypeOK ==
    /\ trigger \in Seq([name : Name, on : BOOLEAN])
    /\ event \in Seq([trigger : DOMAIN trigger, type : EventType, key : Key, on : BOOLEAN])
    /\ stack \in Seq(Frame)
    /\ bursting \in DOMAIN trigger \cup {None}
    /\ putting \in Key \cup {None} /\ contexts \in Seq(Key) /\ unused \in Seq({None})
    /\ crashed \in BOOLEAN

\* Names are those of one trigger each, no event is there twice, and a burst
\* under way and every event know a trigger that is there, whatever Lua has
\* registered since (RanaTriggerBank.cpp:150 keeps the pointer over the call).
BanksConsistent ==
    /\ TypeOK
    /\ \A i, j \in DOMAIN trigger : trigger[i].name = trigger[j].name => i = j
    /\ \A i, j \in DOMAIN event : SameEvent(event[i], event[j]) => i = j
    /\ \A f \in DOMAIN stack : stack[f].call \in Phase => stack[f].trigger \in DOMAIN trigger

Walks == {f \in DOMAIN stack : stack[f].call = "onMessage"}

\* While a message is under way Lua reads the context of the innermost one,
\* and what is put next goes into a map that is empty (RanaSpace.cpp:783).  A map
\* is made only when all are in use: there are never more than the messages that
\* were under way at once.
ContextOfMessage ==
    /\ Len(contexts) = Cardinality(Walks)
    /\ \A f \in Walks :
        contexts[Cardinality({g \in Walks : g <= f})] = stack[f].key
    /\ putting = None
    /\ Len(unused) + Len(contexts) <= MaxDepth

\* A message for the first trigger only bursts no second, whatever the first
\* one did (RanaEventBank.cpp:282, 295).
FirstOnlyOne == \A f \in Walks : stack[f].first => stack[f].bursts <= 1
=============================================================================
