--------------------------- MODULE RanaTimerBank ---------------------------
(***************************************************************************)
(* The timers of the Lua spaces, RanaTimerBank (Vek/LuaBind).  A frame of  *)
(* the server moves the clock and calls routine, which sends a message for *)
(* every timer that is due; the message runs Lua, which calls back into    *)
(* the bank.  Times are kept relative to g_Clock, so that a state does not *)
(* grow with the time that has passed.                                     *)
(***************************************************************************)
EXTENDS Integers, FiniteSets

CONSTANTS
    Space,      \* spaces, each a handle together with its serial
    Handle,     \* bound: the timers of one space
    MaxPeriod,  \* bound: the longest period
    MaxStep,    \* bound: the time one frame takes
    IntMax,     \* the largest value of an int
    Garbage,    \* what m_curTime may lead to before initCurrentTime
    None

ASSUME TimerAssumption ==
    /\ MaxPeriod \in Nat /\ MaxStep \in Nat \ {0} /\ IntMax \in Nat
    /\ Handle \subseteq Nat \ {0} /\ Garbage \subseteq Int /\ Garbage # {}

T == Space \X Handle

ASSUME NoneAssumption == None \notin T

VARIABLES
    live,       \* the spaces that RanaSpaceBank finds
    timer,      \* what RanaTimer and its ListIterator hold
    active,     \* m_activeTimer
    paused,     \* m_pausedTimer
    nextHandle, \* per space, in m_timerMap
    lag,        \* g_Clock - m_curTime
    mode,       \* where the server is in its frame
    ticked,     \* the clock has moved since routine was called last
    expiring,   \* m_ExpiringTimer
    waited,     \* auxiliary: time since the timer was armed or was due last
    want,       \* auxiliary: the delay it was armed for
    wild        \* auxiliary: the timers reset before initCurrentTime

bank == <<timer, active, paused, nextHandle, waited, want, wild>>
vars == <<live, bank, lag, mode, ticked, expiring>>

Timer == [kind : {"none", "active", "paused"}, on : BOOLEAN,
          period : 0..MaxPeriod, rest : 0..MaxPeriod, repeat : BOOLEAN, left : Int]
Fresh(k) == [kind |-> k, on |-> FALSE, period |-> 0, rest |-> 0,
             repeat |-> FALSE, left |-> 0]
NoTimer == Fresh("none")
NewTimer == Fresh("paused")

Init ==
    /\ live = {}
    /\ timer = [t \in T |-> NoTimer]
    /\ active = {} /\ paused = {} /\ nextHandle = [s \in Space |-> 1]
    /\ lag \in Garbage
    /\ mode = "boot" /\ ticked = FALSE
    /\ expiring = None
    /\ waited = [t \in T |-> 0] /\ want = [t \in T |-> 0] /\ wild = {}

-----------------------------------------------------------------------------
\* Where a timer is: its list, the kind of its iterator and its switch.
Rec(t, r) == timer' = [timer EXCEPT ![t] = r]

\* (Slip: the switch and the iterator are set, the timer is not inserted.)
Activate_NotInserted(t, r) ==
    /\ Rec(t, [r EXCEPT !.kind = "active", !.on = TRUE])
    /\ paused' = paused \ {t} /\ active' = active

Activate(t, r) ==
    /\ Rec(t, [r EXCEPT !.kind = "active", !.on = TRUE])
    /\ paused' = paused \ {t} /\ active' = active \cup {t}

\* (Slip: the iterator keeps its kind.)
Pause_KeepsKind(t, r) ==
    /\ Rec(t, [r EXCEPT !.on = FALSE, !.rest = 0, !.left = 0])
    /\ active' = active \ {t} /\ paused' = paused \cup {t}

Pause(t, r) ==
    /\ Rec(t, [r EXCEPT !.kind = "paused", !.on = FALSE, !.rest = 0, !.left = 0])
    /\ active' = active \ {t} /\ paused' = paused \cup {t}

\* History: timer t is to expire after the delay d, from now on.
Armed(t, d) ==
    /\ want' = [want EXCEPT ![t] = d]
    /\ waited' = [waited EXCEPT ![t] = 0]
SameDelays == UNCHANGED <<want, waited>>

\* Lua runs while main scripts are loaded, between two calls of routine and
\* while a timer's message is handled.
LuaRuns == mode \in {"boot", "host", "callback"}
Frame == UNCHANGED <<live, lag, mode, ticked, expiring>>

\* getTimer: the space is registered and the timer is in its map.
Known(t) == t[1] \in live /\ timer[t].kind # "none"

-----------------------------------------------------------------------------
\* Handles are counted up from 1 in the map of the space.
createTimer(s) ==
    /\ LuaRuns /\ s \in live /\ nextHandle[s] \in Handle
    /\ LET t == <<s, nextHandle[s]>> IN
        /\ Rec(t, NewTimer)
        /\ paused' = paused \cup {t}
    /\ nextHandle' = [nextHandle EXCEPT ![s] = @ + 1]
    /\ UNCHANGED <<active, wild>> /\ SameDelays /\ Frame

setTimerPeriodTime(t, p) ==
    /\ LuaRuns /\ Known(t) /\ p > 0
    /\ Rec(t, [timer[t] EXCEPT !.period = p, !.rest = p])
    /\ UNCHANGED <<active, paused, nextHandle, wild>> /\ SameDelays /\ Frame

setTimerRepeat(t, b) ==
    /\ LuaRuns /\ Known(t)
    /\ Rec(t, [timer[t] EXCEPT !.repeat = b])
    /\ UNCHANGED <<active, paused, nextHandle, wild>> /\ SameDelays /\ Frame

\* The time to the expiry of a timer that is switched on.
DelayOf(r) == IF r.rest <= 0 THEN r.period ELSE r.rest

SwitchOn(t) ==
    /\ LuaRuns /\ Known(t) /\ ~timer[t].on /\ DelayOf(timer[t]) > 0
    /\ LET d == DelayOf(timer[t]) IN
        /\ Activate(t, [timer[t] EXCEPT !.left = d])
        /\ Armed(t, d)
    /\ wild' = wild \ {t}
    /\ UNCHANGED nextHandle /\ Frame

\* The rest that is computed first is overwritten with 0.
SwitchOff(t) ==
    /\ LuaRuns /\ Known(t) /\ timer[t].on
    /\ Pause(t, timer[t]) /\ Armed(t, 0)
    /\ UNCHANGED <<nextHandle, wild>> /\ Frame

setTimerOnOff(t, b) == IF b THEN SwitchOn(t) ELSE SwitchOff(t)

\* (Slip: a reset goes back to the rest.)
Restarted_FromRest(r) == [r EXCEPT !.left = r.rest - lag]

\* A running timer starts again from the time routine was called last.
Restarted(r) == [r EXCEPT !.left = r.period - lag]

resetTimer(t) ==
    /\ LuaRuns /\ Known(t)
    /\ IF timer[t].on
       THEN /\ Rec(t, Restarted(timer[t])) /\ Armed(t, timer[t].period)
            /\ wild' = IF mode = "boot" THEN wild \cup {t} ELSE wild \ {t}
       ELSE /\ Rec(t, [timer[t] EXCEPT !.rest = timer[t].period]) /\ SameDelays
            /\ UNCHANGED wild
    /\ UNCHANGED <<active, paused, nextHandle>> /\ Frame

-----------------------------------------------------------------------------
\* The timers of a space go with it: nothing is done when the space is not
\* registered any more.
OfSpace(s) == {t \in T : t[1] = s}

\* (Slip: the space is unregistered before its timers are asked for.)
delTimer_Late(s) == UNCHANGED bank

delTimer(s) ==
    LET gone == IF s \in live THEN OfSpace(s) ELSE {} IN
    /\ timer' = [t \in T |-> IF t \in gone THEN NoTimer ELSE timer[t]]
    /\ active' = active \ gone /\ paused' = paused \ gone /\ wild' = wild \ gone
    /\ nextHandle' = IF s \in live THEN [nextHandle EXCEPT ![s] = 1] ELSE nextHandle
    /\ want' = [t \in T |-> IF t \in gone THEN 0 ELSE want[t]]
    /\ waited' = [t \in T |-> IF t \in gone THEN 0 ELSE waited[t]]

\* Spaces are created and deleted by the server between two messages, never by
\* Lua.
createSpace(s) ==
    /\ mode \in {"boot", "host"} /\ s \notin live
    /\ live' = live \cup {s}
    /\ UNCHANGED <<bank, lag, mode, ticked, expiring>>

delSpace(s) ==
    /\ mode \in {"boot", "host"} /\ s \in live
    /\ delTimer(s)
    /\ live' = live \ {s}
    /\ UNCHANGED <<lag, mode, ticked, expiring>>

reloadSpace(s) ==
    /\ mode = "host" /\ s \in live
    /\ delTimer(s)
    /\ Frame

-----------------------------------------------------------------------------
\* RanaService::Init, after the first spaces have been created.
initCurrentTime ==
    /\ mode = "boot"
    /\ lag' = 0 /\ mode' = "host"
    /\ UNCHANGED <<live, bank, ticked, expiring>>

\* Clock::Tick, once in a frame, before or after the other modules.
ClockTick(d) ==
    /\ mode = "host" /\ ~ticked
    /\ ticked' = TRUE /\ lag' = lag + d
    /\ timer' = [t \in T |->
         IF t \in active THEN [timer[t] EXCEPT !.left = @ - d] ELSE timer[t]]
    /\ waited' = [t \in T |-> IF t \in active THEN waited[t] + d ELSE waited[t]]
    /\ UNCHANGED <<live, active, paused, nextHandle, mode, expiring, want, wild>>

routine ==
    /\ mode = "host" /\ ticked
    /\ mode' = "loop" /\ lag' = 0 /\ ticked' = FALSE
    /\ UNCHANGED <<live, bank, expiring>>

\* The timers the loop may take: m_activeTimer is sorted by time.
Due == {t \in active : timer[t].left <= 0}
First == {t \in Due : \A u \in active : timer[t].left <= timer[u].left}

\* (int)getPeriodTime().
AsInt(p) == ((p + IntMax + 1) % (2 * (IntMax + 1))) - (IntMax + 1)
PutBack(r) == r.repeat /\ AsInt(r.period) > 0

\* (Slip: one period from now.)
NextDue_FromNow(r) == r.period

\* One period after the time the timer was due, however late it is served.
NextDue(r) == r.left + r.period

Expire(t) ==
    /\ mode = "loop" /\ t \in First
    /\ IF PutBack(timer[t])
       THEN /\ Rec(t, [timer[t] EXCEPT !.left = NextDue(timer[t])])
            /\ waited' = [waited EXCEPT ![t] = @ - want[t]]
            /\ want' = [want EXCEPT ![t] = timer[t].period]
            /\ UNCHANGED <<active, paused>>
       ELSE Pause(t, timer[t]) /\ Armed(t, 0)
    /\ wild' = IF PutBack(timer[t]) THEN wild ELSE wild \ {t}
    /\ expiring' = t /\ mode' = "callback"
    /\ UNCHANGED <<live, nextHandle, lag, ticked>>

\* RanaSpace::onMessage has returned.
CallbackReturns ==
    /\ mode = "callback"
    /\ expiring' = None /\ mode' = "loop"
    /\ UNCHANGED <<live, bank, lag, ticked>>

RoutineEnds ==
    /\ mode = "loop" /\ Due = {}
    /\ mode' = "host"
    /\ UNCHANGED <<live, bank, lag, ticked, expiring>>

-----------------------------------------------------------------------------
Lua ==
    \/ \E s \in Space : createTimer(s)
    \/ \E t \in T : \/ \E p \in 0..MaxPeriod : setTimerPeriodTime(t, p)
                    \/ \E b \in BOOLEAN : setTimerRepeat(t, b)
                    \/ \E b \in BOOLEAN : setTimerOnOff(t, b)
                    \/ resetTimer(t)

Spaces == \E s \in Space : createSpace(s) \/ delSpace(s) \/ reloadSpace(s)

Server ==
    \/ initCurrentTime \/ routine \/ CallbackReturns \/ RoutineEnds
    \/ \E d \in 1..MaxStep : ClockTick(d)
    \/ \E t \in T : Expire(t)

Next == Lua \/ Spaces \/ Server

Spec == Init /\ [][Next]_vars

\* The main loop calls Tick for ever and a message's Lua returns; nothing makes
\* Lua or the operator do anything.
FairSpec == Spec /\ WF_vars(Server)

-----------------------------------------------------------------------------
TypeOK ==
    /\ live \subseteq Space
    /\ timer \in [T -> Timer]
    /\ active \subseteq T /\ paused \subseteq T /\ wild \subseteq T
    /\ nextHandle \in [Space -> Nat]
    /\ lag \in Int /\ ticked \in BOOLEAN
    /\ mode \in {"boot", "host", "loop", "callback"}
    /\ expiring \in T \cup {None}
    /\ waited \in [T -> Int] /\ want \in [T -> 0..MaxPeriod]

\* The iterator of a timer is of the list the timer is in, its switch says the
\* same, and a running timer has a period (getTimer dereferences the iterator,
\* RanaTimerBank.cpp:195; a repeating timer without a period would stop).
Containers ==
    \A t \in T :
        /\ t \in active <=> timer[t].kind = "active"
        /\ t \in paused <=> timer[t].kind = "paused"
        /\ t \in active <=> timer[t].on
        /\ t \in active => timer[t].period > 0

\* Every timer belongs to a space that is registered: routine uses the space
\* of an expired timer without a test (RanaTimerBank.cpp:165).
OwnersLive == \A t \in active \cup paused : t[1] \in live

\* When routine has run, and until the clock moves, nothing is due, however
\* the messages it sent have set the timers.  A timer that was reset before
\* m_curTime had a value is left out.
NothingOverdue ==
    mode = "host" /\ ~ticked => \A t \in active \ wild : timer[t].left > 0

\* No timer expires before the delay it was armed for has passed, but for the
\* part of a frame a reset starts too early by; and none owes an expiry once
\* routine has run (RanaTimerBank.cpp:151 adds the period to the time at which
\* the timer was due, not to the time of the call).
NeverEarly ==
    \A t \in active \ wild : want[t] - waited[t] - timer[t].left \in 0..MaxStep

\* A timer that is on and is not reset for ever expires, whatever Lua does
\* with the others.
EveryTimerServed ==
    \A t \in T : <>[](timer[t].on /\ expiring # t) => []<><<resetTimer(t)>>_vars
=============================================================================
