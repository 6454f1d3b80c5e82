------------------------------ MODULE RanaWait ------------------------------
(***************************************************************************)
(* The Lua threads that wait: LuaWaitBridge (Vek/LuaBind/RanaWait.cpp)     *)
(* keeps a Vek::Timer for each, by the TYPE of its space; TimerBank ticks  *)
(* the timers and their callback resumes the thread.  A space that is      *)
(* deleted or reloaded takes the waits of its type with it.  Waiters       *)
(* (FLuaWaiter) have no class and no caller in this program.               *)
(***************************************************************************)
EXTENDS RanaSpaceBank

CONSTANTS
    Thread,     \* lua_States made by lua_newthread
    Times,      \* what Lua asks to wait for, in milliseconds
    Milli,      \* what a time is divided by: 1000 in the code
    MaxStep     \* bound: the milliseconds between two frames

ASSUME WaitAssumption ==
    Times \subseteq Nat /\ Milli \in Nat \ {0} /\ MaxStep \in Nat \ {0}

VARIABLES
    thread,     \* the threads on the Lua stacks of the spaces
    timer,      \* the Vek::Timer of a thread, in m_ThreadTimers and TimerBank
    todo,       \* the timers TimerBank::Tick has still to tick
    ticking     \* TimerBank::Tick is running

waits == <<thread, timer, todo, ticking>>
allVars == <<bank, gone, waits>>

NoThread == [at |-> "none", space |-> 0]
NoTimer == [on |-> FALSE, type |-> None, started |-> FALSE, lift |-> 0, left |-> 0]

WaitInit ==
    /\ Init
    /\ thread = [t \in Thread |-> NoThread]
    /\ timer = [t \in Thread |-> NoTimer]
    /\ todo = {} /\ ticking = FALSE

-----------------------------------------------------------------------------
\* The life of a timer in units of AppTime, which the host program passes to
\* Tick in milliseconds: time/1000.f, compared with whole numbers.
LiftOf(time) == (time + Milli - 1) \div Milli

NewTimer(s, time) ==
    [on |-> TRUE, type |-> bank.space[s].type, started |-> FALSE,
     lift |-> LiftOf(time), left |-> LiftOf(time)]

\* Add, called by Lua's Wait on thread t of space s: the thread yields.
Add(t, s, time) ==
    /\ thread' = [thread EXCEPT ![t] = [at |-> "asleep", space |-> s]]
    /\ timer' = [timer EXCEPT ![t] = NewTimer(s, time)]
    /\ todo' = IF ticking THEN todo \cup {t} ELSE todo

\* runFunctionInNewThread: the action of a trigger runs to its end, waits, or
\* fails; a thread that fails is not taken off the stack of the space.
RunAction(t, s) ==
    /\ ~bank.crashed /\ thread[t].at = "none" /\ s \in bank.active
    /\ \/ \E time \in Times : Add(t, s, time)
       \/ /\ thread' = [thread EXCEPT ![t] = [NoThread EXCEPT !.at = "failed", !.space = s]]
          /\ UNCHANGED <<timer, todo>>
    /\ UNCHANGED <<bank, gone, ticking>>

-----------------------------------------------------------------------------
\* The timers RemoveTimers finds.
OfType(tm, ty) == {t \in Thread : tm[t].on /\ tm[t].type = ty}

\* ThreadBreak without a check: only the stack of the first space is searched.
Broken(b, th, t, first) ==
    IF th[t].space = first /\ b.space[first].open THEN NoThread ELSE th[t]

\* DeleteSpace is given the type of the space.
DropTimers(b, tm, ty) ==
    [t \in Thread |->
        IF GetLuaSpace(b, ty) # None /\ t \in OfType(tm, ty) THEN NoTimer ELSE tm[t]]
DropThreads(b, th, tm, ty) ==
    LET first == GetLuaSpace(b, ty) IN
    [t \in Thread |->
        IF first # None /\ t \in OfType(tm, ty) THEN Broken(b, th, t, first) ELSE th[t]]

\* lua_close frees the threads of the space.
CloseThreads(th, s) ==
    [t \in Thread |-> IF th[t].space = s THEN NoThread ELSE th[t]]

\* What the waits become when space s of the bank b goes.  (Slip: the space
\* is not active any more, as in initMaxSpaces.)
SpaceGoes_Late(b, s) ==
    LET ty == b.space[s].type
        late == [b EXCEPT !.active = @ \ {s}]
    IN  /\ timer' = DropTimers(late, timer, ty)
        /\ thread' = CloseThreads(DropThreads(late, thread, timer, ty), s)
        /\ UNCHANGED <<todo, ticking>>

SpaceGoes(b, s) ==
    LET ty == b.space[s].type IN
    /\ timer' = DropTimers(b, timer, ty)
    /\ thread' = CloseThreads(DropThreads(b, thread, timer, ty), s)
    /\ UNCHANGED <<todo, ticking>>

\* RanaSpaceBank::routine on one of the spaces that failed.
Routine(e) ==
    /\ ~bank.crashed /\ ~ticking
    /\ \E a \in Answer : routine(e, a)
    /\ IF bank'.active # bank.active THEN SpaceGoes(bank, e[1]) ELSE UNCHANGED waits

\* The operations of the pool, outside TimerBank::Tick.  In a failed creation
\* the Lua state is closed before the waits are removed.
Pool ==
    /\ ~bank.crashed /\ ~ticking
    /\ \/ \E n \in Name, ty \in Type, c \in Context \cup {None}, raised \in BOOLEAN :
            \/ createSpace(n, ty, c, raised) /\ UNCHANGED waits
            \/ /\ createSpaceFails(n, ty, c, raised)
               /\ LET s == Head(bank.unused) IN
                   SpaceGoes(Closed(Started(n, ty, c, raised), s), s)
       \/ \E s \in Slot :
            \/ deleteSpace(s) /\ SpaceGoes(bank, s)
            \/ runFunctionFails(s) /\ UNCHANGED waits
            \/ \E raised \in BOOLEAN :
                  /\ reloadSpace(s, raised) \/ reloadSpaceFails(s, raised)
                  /\ SpaceGoes(bank, s)
       \/ \E e \in Node : Routine(e)

-----------------------------------------------------------------------------
AtLeast0(n) == IF n < 0 THEN 0 ELSE n

\* (Slip: only the timers that run are ticked.)
TickBegins_Started(d) ==
    /\ ~ticking
    /\ ticking' = TRUE /\ todo' = {t \in Thread : timer[t].started}
    /\ timer' = [t \in Thread |->
         IF timer[t].started THEN [timer[t] EXCEPT !.left = AtLeast0(@ - d)] ELSE timer[t]]
    /\ UNCHANGED <<bank, gone, thread>>

\* The host program's next frame, d milliseconds later: the service ticks the
\* timers.
TickBegins(d) ==
    /\ ~ticking
    /\ ticking' = TRUE /\ todo' = {t \in Thread : timer[t].on}
    /\ timer' = [t \in Thread |->
         IF timer[t].started THEN [timer[t] EXCEPT !.left = AtLeast0(@ - d)] ELSE timer[t]]
    /\ UNCHANGED <<bank, gone, thread>>

TickEnds ==
    /\ ticking /\ todo = {}
    /\ ticking' = FALSE
    /\ UNCHANGED <<bank, gone, thread, timer, todo>>

\* Timer::Tick: the first one starts the timer.
Starts(t) ==
    /\ t \in todo /\ ~timer[t].started
    /\ timer' = [timer EXCEPT ![t].started = TRUE]
    /\ todo' = todo \ {t}
    /\ UNCHANGED <<bank, gone, thread, ticking>>

Expired(m) == m.started /\ m.lift # 0 /\ m.left = 0

GoesOn(t) ==
    /\ t \in todo /\ timer[t].started /\ ~Expired(timer[t])
    /\ todo' = todo \ {t}
    /\ UNCHANGED <<bank, gone, thread, timer, ticking>>

\* cb_LuaThreadAwake: the thread is resumed.  It ends and is taken off the
\* stack, or waits again with another timer, which this pass ticks as well.
Awakes(t) ==
    /\ t \in todo /\ Expired(timer[t])
    /\ \/ \E time \in Times : Add(t, thread[t].space, time)
       \/ /\ thread' = [thread EXCEPT ![t] = NoThread]
          /\ timer' = [timer EXCEPT ![t] = NoTimer]
          /\ todo' = todo \ {t}
    /\ UNCHANGED <<bank, gone, ticking>>

Ticks ==
    /\ ~bank.crashed
    /\ \/ \E d \in 1..MaxStep : TickBegins(d)
       \/ TickEnds
       \/ \E t \in Thread : Starts(t) \/ GoesOn(t) \/ Awakes(t)

WaitNext ==
    \/ \E t \in Thread, s \in Slot : RunAction(t, s)
    \/ Pool
    \/ Ticks

WaitSpec == WaitInit /\ [][WaitNext]_allVars

\* The host program ticks the service for ever: the timers, and the
\* spaces that failed.
WaitFairness == WF_allVars(Ticks) /\ \A e \in Node : SF_allVars(Routine(e))
WaitFairSpec == WaitSpec /\ WaitFairness

-----------------------------------------------------------------------------
\* A timer is kept for each thread it resumes, and that thread exists, in a
\* space that is open and of the type the timer is kept under: the callback uses
\* the lua_State without a test (RanaWait.cpp:13) and takes the timer off by the
\* space's type.  What is left of a pass is such timers (TimerBank.cpp:40 walks
\* the list while callbacks append to it).
WaitsAreLive ==
    /\ \A t \in Thread : timer[t].on =>
        /\ thread[t].at = "asleep"
        /\ bank.space[thread[t].space].open
        /\ bank.space[thread[t].space].type = timer[t].type
        /\ timer[t].lift \in Nat /\ timer[t].left \in 0..timer[t].lift
    /\ \A t \in todo : ticking /\ timer[t].on

\* A timer with a life comes to its end, unless its space or the program goes.
EveryLifeEnds ==
    \A t \in Thread :
        <>[](timer[t].on /\ timer[t].lift # 0 /\ ~bank.crashed) => []<><<Awakes(t)>>_allVars
=============================================================================
