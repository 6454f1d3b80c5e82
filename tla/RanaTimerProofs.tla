-------------------------- MODULE RanaTimerProofs --------------------------
(***************************************************************************)
(* Theorems about the timers for any number of spaces and timers, any      *)
(* periods and any length of a frame.                                      *)
(***************************************************************************)
EXTENDS RanaTimerBank, TLAPS

\* The parts of the loop: m_curTime is the clock of now while routine runs and
\* until the clock moves.
Phase ==
    /\ mode = "boot" => ~ticked
    /\ mode \in {"loop", "callback"} => ~ticked /\ lag = 0
    /\ mode = "host" => lag \in 0..MaxStep
    /\ mode = "host" /\ ~ticked => lag = 0

\* A handle that was given out is below the next one, and its space is there.
Given ==
    \A t \in T : timer[t].kind # "none" => t[1] \in live /\ t[2] < nextHandle[t[1]]

\* Nothing is due, but in the loop and between the clock and the loop.
NothingDue ==
    mode \in {"boot", "host"} /\ ~ticked => \A t \in active \ wild : timer[t].left > 0

\* The rest that is kept is no longer than the period.
RestOfPeriod == \A t \in T : timer[t].rest <= timer[t].period

(* The inductive invariant.  That nothing is due when routine returns rests  *)
(* on a running timer having a period (Containers) and on m_curTime being    *)
(* the time of now (Phase): otherwise a reset could arm a timer in the past. *)
IInv ==
    /\ TypeOK /\ Containers /\ Phase /\ Given /\ RestOfPeriod
    /\ NothingDue /\ NeverEarly

USE TimerAssumption, NoneAssumption

\* A pair of T and its parts.
LEMMA PairsOfT ==
    /\ \A t \in T : t[1] \in Space /\ t[2] \in Handle /\ t = <<t[1], t[2]>>
    /\ \A s \in Space, h \in Handle : <<s, h>> \in T
BY DEF T

\* The record of a new timer.
LEMMA Records ==
    /\ NoTimer \in Timer /\ NewTimer \in Timer
    /\ NewTimer.kind = "paused" /\ ~NewTimer.on
    /\ NewTimer.rest <= NewTimer.period
BY DEF NoTimer, NewTimer, Fresh, Timer

\* The records of a timer that stops and of one whose time goes by.
LEMMA PausedRecord ==
    ASSUME NEW x \in Timer,
           NEW r, r = [x EXCEPT !.kind = "paused", !.on = FALSE, !.rest = 0, !.left = 0]
    PROVE  r \in Timer /\ r.kind = "paused" /\ ~r.on /\ r.rest = 0 /\ r.period = x.period
<1>0. x.period \in 0..MaxPeriod /\ 0 \in 0..MaxPeriod /\ 0 \in Int
  BY TimerAssumption DEF Timer
<1>1. r \in Timer
  BY <1>0, Zenon DEF Timer
<1>2. r.kind = "paused" /\ ~r.on /\ r.rest = 0 /\ r.period = x.period
  BY Zenon DEF Timer
<1> QED BY <1>1, <1>2

LEMMA LaterRecord ==
    ASSUME NEW x \in Timer, NEW d \in Int, NEW r, r = [x EXCEPT !.left = d]
    PROVE  /\ r \in Timer /\ r.kind = x.kind /\ r.on = x.on /\ r.left = d
           /\ r.rest = x.rest /\ r.period = x.period
BY DEF Timer

LEMMA InitIInv == Init => IInv
<1> SUFFICES ASSUME Init PROVE IInv
  OBVIOUS
<1>1. TypeOK
  <2>1. timer \in [T -> Timer] /\ active \subseteq T /\ paused \subseteq T /\ wild \subseteq T
    BY Records DEF Init
  <2>2. waited \in [T -> Int] /\ want \in [T -> 0..MaxPeriod]
    BY DEF Init
  <2>3. lag \in Int /\ nextHandle \in [Space -> Nat] /\ live \subseteq Space
    BY DEF Init
  <2>4. ticked \in BOOLEAN /\ mode \in {"boot", "host", "loop", "callback"}
        /\ expiring \in T \cup {None}
    BY DEF Init
  <2> QED BY <2>1, <2>2, <2>3, <2>4 DEF TypeOK
<1>2. Containers /\ Phase /\ Given /\ RestOfPeriod /\ NothingDue /\ NeverEarly
  BY DEF Init, Containers, Phase, Given, RestOfPeriod, NothingDue, NeverEarly, NoTimer, Fresh
<1> QED BY <1>1, <1>2 DEF IInv

LEMMA CreateTimerKeeps ==
    ASSUME IInv, NEW s \in Space, createTimer(s)
    PROVE  IInv'
<1> DEFINE t == <<s, nextHandle[s]>>
<1> NewTimer \in Timer /\ NewTimer.kind = "paused" /\ ~NewTimer.on
    /\ NewTimer.rest <= NewTimer.period
  BY Records
<1>1. t \in T /\ t[1] = s /\ t[2] = nextHandle[s] /\ nextHandle[s] \in Nat
  BY PairsOfT DEF createTimer, IInv, TypeOK
<1>2. timer[t].kind = "none" /\ t \notin active /\ t \notin paused
  BY <1>1 DEF IInv, Given, Containers, TypeOK
<1>3. /\ timer' = [timer EXCEPT ![t] = NewTimer] /\ paused' = paused \cup {t}
      /\ nextHandle' = [nextHandle EXCEPT ![s] = @ + 1] /\ s \in live
      /\ UNCHANGED <<active, wild, want, waited, live, lag, mode, ticked, expiring>>
  BY DEF createTimer, Rec, SameDelays, Frame
<1> HIDE DEF t
<1>4. TypeOK'
  BY <1>1, <1>3 DEF IInv, TypeOK
<1>5. \A u \in active : timer'[u] = timer[u]
  BY <1>2, <1>3 DEF IInv, TypeOK
<1>6. Containers' /\ RestOfPeriod'
  BY <1>1, <1>2, <1>3 DEF IInv, TypeOK, Containers, RestOfPeriod
<1>7. Given'
  <2> SUFFICES ASSUME NEW u \in T, timer'[u].kind # "none"
               PROVE  u[1] \in live' /\ u[2] < nextHandle'[u[1]]
    BY DEF Given
  <2>1. u[1] \in Space /\ u[2] \in Nat
    BY PairsOfT
  <2>2. CASE u = t
    BY <2>2, <1>1, <1>3, <2>1 DEF IInv, TypeOK
  <2>3. CASE u # t
    BY <2>3, <1>1, <1>3, <2>1 DEF IInv, TypeOK, Given
  <2> QED BY <2>2, <2>3
<1>8. Phase' /\ NothingDue' /\ NeverEarly'
  BY <1>3, <1>5 DEF IInv, TypeOK, Phase, NothingDue, NeverEarly
<1> QED BY <1>4, <1>6, <1>7, <1>8 DEF IInv

\* A setting of a timer that leaves its list, its kind and its time alone.
LEMMA SettingKeeps ==
    ASSUME IInv, NEW t \in T, NEW r \in Timer, timer[t].kind # "none",
           r.kind = timer[t].kind, r.on = timer[t].on, r.left = timer[t].left,
           r.period = timer[t].period \/ r.period > 0, r.rest <= r.period,
           Rec(t, r), SameDelays, Frame,
           UNCHANGED <<active, paused, nextHandle, wild>>
    PROVE  IInv'
<1>1. timer' = [timer EXCEPT ![t] = r] /\ timer \in [T -> Timer]
  BY DEF Rec, IInv, TypeOK
<1>2. TypeOK'
  BY <1>1 DEF IInv, TypeOK, SameDelays, Frame
<1>3. \A u \in T : /\ timer'[u].kind = timer[u].kind /\ timer'[u].on = timer[u].on
                   /\ timer'[u].left = timer[u].left
                   /\ timer'[u].period = timer[u].period \/ timer'[u].period > 0
  BY <1>1
<1>4. Containers' /\ Given' /\ RestOfPeriod'
  BY <1>1, <1>3 DEF IInv, Containers, Given, RestOfPeriod, Frame
<1>5. Phase' /\ NothingDue' /\ NeverEarly'
  BY <1>3 DEF IInv, TypeOK, Phase, NothingDue, NeverEarly, SameDelays, Frame
<1> QED BY <1>2, <1>4, <1>5 DEF IInv

LEMMA SetPeriodKeeps ==
    ASSUME IInv, NEW t \in T, NEW p \in 0..MaxPeriod, setTimerPeriodTime(t, p)
    PROVE  IInv'
<1> DEFINE r == [timer[t] EXCEPT !.period = p, !.rest = p]
<1>0. r = [timer[t] EXCEPT !.period = p, !.rest = p]
  OBVIOUS
<1> HIDE DEF r
<1>1. /\ r \in Timer
      /\ r.kind = timer[t].kind /\ r.on = timer[t].on /\ r.left = timer[t].left
      /\ r.period = p /\ p > 0 /\ r.rest <= r.period
  <2>1. timer[t] \in Timer /\ p > 0
    BY DEF IInv, TypeOK, setTimerPeriodTime
  <2>2. /\ r \in Timer /\ r.kind = timer[t].kind /\ r.on = timer[t].on
        /\ r.left = timer[t].left /\ r.rest = p /\ r.period = p
    BY <1>0, <2>1, Zenon DEF Timer
  <2> QED BY <2>1, <2>2
<1> QED BY <1>1, SettingKeeps DEF setTimerPeriodTime, Known, r

LEMMA SetRepeatKeeps ==
    ASSUME IInv, NEW t \in T, NEW b \in BOOLEAN, setTimerRepeat(t, b)
    PROVE  IInv'
<1> DEFINE r == [timer[t] EXCEPT !.repeat = b]
<1>1. /\ r \in Timer
      /\ r.kind = timer[t].kind /\ r.on = timer[t].on /\ r.left = timer[t].left
      /\ r.period = timer[t].period /\ r.rest <= r.period
  BY DEF IInv, TypeOK, Timer, RestOfPeriod
<1> HIDE DEF r
<1> QED BY <1>1, SettingKeeps DEF setTimerRepeat, Known, r

\* A timer moves between the lists, or is put back, with another record: the
\* others are not touched.
LEMMA MoveKeeps ==
    ASSUME IInv, NEW t \in T, timer[t].kind # "none",
           NEW r \in Timer, Rec(t, r), r.kind # "none", r.rest <= r.period,
           \/ /\ r.kind = "active" /\ r.on /\ r.period > 0
              /\ active' = active \cup {t} /\ paused' = paused \ {t}
           \/ /\ r.kind = "paused" /\ ~r.on
              /\ active' = active \ {t} /\ paused' = paused \cup {t},
           UNCHANGED <<live, nextHandle>>
    PROVE  /\ timer' \in [T -> Timer] /\ active' \subseteq T /\ paused' \subseteq T
           /\ Containers' /\ Given' /\ RestOfPeriod'
           /\ timer'[t] = r
           /\ \A u \in active' \ {t} : u \in active /\ timer'[u] = timer[u]
<1>1. timer' = [timer EXCEPT ![t] = r] /\ timer \in [T -> Timer]
      /\ active \subseteq T /\ paused \subseteq T
  BY DEF Rec, IInv, TypeOK
<1>2. timer'[t] = r /\ \A u \in T \ {t} : timer'[u] = timer[u]
  BY <1>1
<1>3. Containers'
  <2> SUFFICES ASSUME NEW u \in T
               PROVE  /\ u \in active' <=> timer'[u].kind = "active"
                      /\ u \in paused' <=> timer'[u].kind = "paused"
                      /\ u \in active' <=> timer'[u].on
                      /\ u \in active' => timer'[u].period > 0
    BY DEF Containers
  <2>1. CASE u = t
    BY <2>1, <1>2
  <2>2. CASE u # t
    BY <2>2, <1>2 DEF IInv, Containers
  <2> QED BY <2>1, <2>2
<1>4. Given' /\ RestOfPeriod'
  BY <1>1, <1>2 DEF IInv, Given, RestOfPeriod
<1> QED BY <1>1, <1>2, <1>3, <1>4

LEMMA SwitchOnKeeps ==
    ASSUME IInv, NEW t \in T, SwitchOn(t)
    PROVE  IInv'
<1> DEFINE d == DelayOf(timer[t])
           r == [[timer[t] EXCEPT !.left = d] EXCEPT !.kind = "active", !.on = TRUE]
<1>1. /\ timer[t] \in Timer /\ timer[t].kind # "none" /\ ~timer[t].on
      /\ timer[t].rest <= timer[t].period /\ d > 0
  BY DEF IInv, TypeOK, RestOfPeriod, SwitchOn, Known
<1>2. timer[t].period > 0 /\ d \in 0..MaxPeriod
  BY <1>1 DEF DelayOf, Timer
<1> HIDE DEF d
<1>0. r = [[timer[t] EXCEPT !.left = d] EXCEPT !.kind = "active", !.on = TRUE]
  OBVIOUS
<1> HIDE DEF r
<1>3. /\ r \in Timer /\ r.kind = "active" /\ r.on /\ r.left = d
      /\ r.rest <= r.period /\ r.period > 0
  <2>1. /\ r \in Timer /\ r.kind = "active" /\ r.on /\ r.left = d
        /\ r.rest = timer[t].rest /\ r.period = timer[t].period
    <3>1. d \in Int
      BY <1>2
    <3> QED BY <1>0, <1>1, <3>1, Zenon DEF Timer
  <2> QED BY <1>1, <1>2, <2>1
<1>4. /\ Rec(t, r) /\ active' = active \cup {t} /\ paused' = paused \ {t}
      /\ want' = [want EXCEPT ![t] = d] /\ waited' = [waited EXCEPT ![t] = 0]
      /\ wild' = wild \ {t}
      /\ UNCHANGED <<live, nextHandle, lag, mode, ticked, expiring>>
  BY DEF SwitchOn, Activate, Armed, Frame, d, r
<1>5. /\ timer' \in [T -> Timer] /\ active' \subseteq T /\ paused' \subseteq T
      /\ Containers' /\ Given' /\ RestOfPeriod' /\ timer'[t] = r
      /\ \A u \in active' \ {t} : u \in active /\ timer'[u] = timer[u]
  BY <1>1, <1>3, <1>4, MoveKeeps
<1>6. TypeOK' /\ Phase'
  <2>1. /\ live' \subseteq Space /\ wild' \subseteq T /\ nextHandle' \in [Space -> Nat]
        /\ waited' \in [T -> Int] /\ want' \in [T -> 0..MaxPeriod]
    BY <1>2, <1>4 DEF IInv, TypeOK
  <2>2. Phase' /\ lag' \in Int /\ ticked' \in BOOLEAN /\ expiring' \in T \cup {None}
        /\ mode' \in {"boot", "host", "loop", "callback"}
    BY <1>4 DEF IInv, TypeOK, Phase
  <2> QED BY <1>5, <2>1, <2>2 DEF TypeOK
<1>7. NothingDue' /\ NeverEarly'
  <2> SUFFICES ASSUME NEW u \in active' \ wild'
               PROVE  /\ mode \in {"boot", "host"} /\ ~ticked => timer'[u].left > 0
                      /\ want'[u] - waited'[u] - timer'[u].left \in 0..MaxStep
    BY <1>4 DEF NothingDue, NeverEarly
  <2>1. CASE u = t
    BY <2>1, <1>1, <1>2, <1>3, <1>4, <1>5 DEF IInv, TypeOK
  <2>2. CASE u # t
    BY <2>2, <1>4, <1>5 DEF IInv, TypeOK, NothingDue, NeverEarly
  <2> QED BY <2>1, <2>2
<1> QED BY <1>5, <1>6, <1>7 DEF IInv

LEMMA SwitchOffKeeps ==
    ASSUME IInv, NEW t \in T, SwitchOff(t)
    PROVE  IInv'
<1> DEFINE r == [timer[t] EXCEPT !.kind = "paused", !.on = FALSE, !.rest = 0, !.left = 0]
<1>1. timer[t] \in Timer /\ timer[t].kind # "none"
  BY DEF IInv, TypeOK, SwitchOff, Known
<1>0. r = [timer[t] EXCEPT !.kind = "paused", !.on = FALSE, !.rest = 0, !.left = 0]
  OBVIOUS
<1> HIDE DEF r
<1>2. r \in Timer /\ r.kind = "paused" /\ ~r.on /\ r.rest <= r.period
  <2>1. r \in Timer /\ r.kind = "paused" /\ ~r.on /\ r.rest = 0 /\ r.period = timer[t].period
    BY <1>0, <1>1, PausedRecord, Zenon
  <2> QED BY <1>1, <2>1 DEF Timer
<1>3. /\ Rec(t, r) /\ active' = active \ {t} /\ paused' = paused \cup {t}
      /\ want' = [want EXCEPT ![t] = 0] /\ waited' = [waited EXCEPT ![t] = 0]
      /\ UNCHANGED <<live, nextHandle, wild, lag, mode, ticked, expiring>>
  BY DEF SwitchOff, Pause, Armed, Frame, r
<1>4. /\ timer' \in [T -> Timer] /\ active' \subseteq T /\ paused' \subseteq T
      /\ Containers' /\ Given' /\ RestOfPeriod' /\ timer'[t] = r
      /\ \A u \in active' \ {t} : u \in active /\ timer'[u] = timer[u]
  BY <1>1, <1>2, <1>3, MoveKeeps
<1>5. TypeOK' /\ Phase'
  <2>1. /\ live' \subseteq Space /\ wild' \subseteq T /\ nextHandle' \in [Space -> Nat]
        /\ waited' \in [T -> Int] /\ want' \in [T -> 0..MaxPeriod]
    BY <1>3 DEF IInv, TypeOK
  <2>2. Phase' /\ lag' \in Int /\ ticked' \in BOOLEAN /\ expiring' \in T \cup {None}
        /\ mode' \in {"boot", "host", "loop", "callback"}
    BY <1>3 DEF IInv, TypeOK, Phase
  <2> QED BY <1>4, <2>1, <2>2 DEF TypeOK
<1>6. NothingDue' /\ NeverEarly'
  BY <1>3, <1>4 DEF IInv, TypeOK, NothingDue, NeverEarly
<1> QED BY <1>4, <1>5, <1>6 DEF IInv

LEMMA ResetKeeps ==
    ASSUME IInv, NEW t \in T, resetTimer(t)
    PROVE  IInv'
<1>1. timer[t] \in Timer /\ timer[t].kind # "none"
  BY DEF IInv, TypeOK, resetTimer, Known
<1>2. CASE ~timer[t].on
  <2> DEFINE r == [timer[t] EXCEPT !.rest = timer[t].period]
  <2>1. /\ r \in Timer /\ r.kind = timer[t].kind /\ r.on = timer[t].on
        /\ r.left = timer[t].left /\ r.period = timer[t].period /\ r.rest <= r.period
    BY <1>1 DEF Timer
  <2>2. Rec(t, r) /\ SameDelays /\ Frame /\ UNCHANGED <<active, paused, nextHandle, wild>>
    BY <1>2 DEF resetTimer
  <2> HIDE DEF r
  <2> QED BY <1>1, <2>1, <2>2, SettingKeeps
<1>3. CASE timer[t].on
  <2> DEFINE r == [timer[t] EXCEPT !.left = timer[t].period - lag]
  <2>1. /\ t \in active /\ t \notin paused /\ timer[t].kind = "active"
        /\ timer[t].period \in 1..MaxPeriod /\ lag \in Int
        /\ timer[t].rest <= timer[t].period
    BY <1>1, <1>3 DEF IInv, TypeOK, Containers, RestOfPeriod, Timer
  <2>2. /\ r \in Timer /\ r.kind = "active" /\ r.on /\ r.rest <= r.period /\ r.period > 0
        /\ r.left = timer[t].period - lag
    BY <1>1, <1>3, <2>1 DEF Timer
  <2>3. /\ Rec(t, r) /\ active' = active \cup {t} /\ paused' = paused \ {t}
        /\ want' = [want EXCEPT ![t] = timer[t].period]
        /\ waited' = [waited EXCEPT ![t] = 0]
        /\ wild' = IF mode = "boot" THEN wild \cup {t} ELSE wild \ {t}
        /\ UNCHANGED <<live, nextHandle, lag, mode, ticked, expiring>>
    BY <1>3, <2>1 DEF resetTimer, Restarted, Armed, Frame
  <2> HIDE DEF r
  <2>4. /\ timer' \in [T -> Timer] /\ active' \subseteq T /\ paused' \subseteq T
        /\ Containers' /\ Given' /\ RestOfPeriod' /\ timer'[t] = r
        /\ \A u \in active' \ {t} : u \in active /\ timer'[u] = timer[u]
    BY <1>1, <2>2, <2>3, MoveKeeps
  <2>5. TypeOK' /\ Phase'
    <3>1. /\ live' \subseteq Space /\ wild' \subseteq T /\ nextHandle' \in [Space -> Nat]
          /\ waited' \in [T -> Int] /\ want' \in [T -> 0..MaxPeriod]
      BY <2>1, <2>3 DEF IInv, TypeOK
    <3>2. Phase' /\ lag' \in Int /\ ticked' \in BOOLEAN /\ expiring' \in T \cup {None}
          /\ mode' \in {"boot", "host", "loop", "callback"}
      BY <2>3 DEF IInv, TypeOK, Phase
    <3> QED BY <2>4, <3>1, <3>2 DEF TypeOK
  <2>6. NothingDue' /\ NeverEarly'
    <3> SUFFICES ASSUME NEW u \in active' \ wild'
                 PROVE  /\ mode \in {"boot", "host"} /\ ~ticked => timer'[u].left > 0
                        /\ want'[u] - waited'[u] - timer'[u].left \in 0..MaxStep
      BY <2>3 DEF NothingDue, NeverEarly
    <3>1. CASE u = t
      <4>1. mode # "boot"
        BY <3>1, <2>3
      <4>2. lag \in 0..MaxStep /\ (mode = "host" /\ ~ticked => lag = 0)
        BY <4>1, <2>1 DEF IInv, TypeOK, Phase
      <4> QED BY <4>1, <4>2, <3>1, <2>1, <2>2, <2>3, <2>4 DEF IInv, TypeOK
    <3>2. CASE u # t
      BY <3>2, <2>3, <2>4 DEF IInv, TypeOK, NothingDue, NeverEarly
    <3> QED BY <3>1, <3>2
  <2> QED BY <2>4, <2>5, <2>6 DEF IInv
<1> QED BY <1>2, <1>3

-----------------------------------------------------------------------------
(* The spaces. *)

\* Whatever of the timers of a space is deleted, those of the others stay.
LEMMA DelTimerKeeps ==
    ASSUME IInv, NEW s \in Space, s \in live, delTimer(s), live' \in {live, live \ {s}},
           UNCHANGED <<lag, mode, ticked, expiring>>
    PROVE  IInv'
<1>1. /\ timer' = [t \in T |-> IF t \in OfSpace(s) THEN NoTimer ELSE timer[t]]
      /\ active' = active \ OfSpace(s) /\ paused' = paused \ OfSpace(s)
      /\ wild' = wild \ OfSpace(s)
      /\ nextHandle' = [nextHandle EXCEPT ![s] = 1]
      /\ want' = [t \in T |-> IF t \in OfSpace(s) THEN 0 ELSE want[t]]
      /\ waited' = [t \in T |-> IF t \in OfSpace(s) THEN 0 ELSE waited[t]]
  BY DEF delTimer
<1>2. /\ \A t \in OfSpace(s) : timer'[t] = NoTimer
      /\ \A t \in T \ OfSpace(s) : timer'[t] = timer[t]
      /\ OfSpace(s) \subseteq T
  BY <1>1 DEF OfSpace
<1>3. NoTimer \in Timer /\ NoTimer.kind = "none" /\ ~NoTimer.on /\ NoTimer.rest <= NoTimer.period
  BY DEF NoTimer, Fresh, Timer
<1> HIDE DEF NoTimer
<1>4. TypeOK'
  BY <1>1, <1>3 DEF IInv, TypeOK
<1>5. Containers'
  <2> SUFFICES ASSUME NEW u \in T
               PROVE  /\ u \in active' <=> timer'[u].kind = "active"
                      /\ u \in paused' <=> timer'[u].kind = "paused"
                      /\ u \in active' <=> timer'[u].on
                      /\ u \in active' => timer'[u].period > 0
    BY DEF Containers
  <2>1. CASE u \in OfSpace(s)
    BY <2>1, <1>1, <1>2, <1>3
  <2>2. CASE u \notin OfSpace(s)
    BY <2>2, <1>1, <1>2 DEF IInv, Containers
  <2> QED BY <2>1, <2>2
<1>6. Given' /\ RestOfPeriod'
  <2> SUFFICES ASSUME NEW u \in T
               PROVE  /\ timer'[u].kind # "none" =>
                           u[1] \in live' /\ u[2] < nextHandle'[u[1]]
                      /\ timer'[u].rest <= timer'[u].period
    BY DEF Given, RestOfPeriod
  <2>1. CASE u \in OfSpace(s)
    BY <2>1, <1>2, <1>3
  <2>2. CASE u \notin OfSpace(s)
    <3>1. u[1] # s /\ u[1] \in Space
      BY <2>2, PairsOfT DEF OfSpace
    <3> QED BY <2>2, <3>1, <1>1, <1>2 DEF IInv, TypeOK, Given, RestOfPeriod
  <2> QED BY <2>1, <2>2
<1>7. Phase' /\ NothingDue' /\ NeverEarly'
  BY <1>1, <1>2 DEF IInv, TypeOK, Phase, NothingDue, NeverEarly
<1> QED BY <1>4, <1>5, <1>6, <1>7 DEF IInv

LEMMA SpacesKeep ==
    ASSUME IInv, NEW s \in Space, createSpace(s) \/ delSpace(s) \/ reloadSpace(s)
    PROVE  IInv'
<1>1. CASE createSpace(s)
  BY <1>1 DEF createSpace, bank, IInv, TypeOK, Containers, Phase, Given,
              RestOfPeriod, NothingDue, NeverEarly
<1>2. CASE delSpace(s)
  BY <1>2, DelTimerKeeps DEF delSpace
<1>3. CASE reloadSpace(s)
  BY <1>3, DelTimerKeeps DEF reloadSpace, Frame
<1> QED BY <1>1, <1>2, <1>3

-----------------------------------------------------------------------------
(* The frame of the server. *)

LEMMA ClockKeeps ==
    ASSUME IInv, NEW d \in 1..MaxStep, ClockTick(d)
    PROVE  IInv'
<1>1. \A t \in T :
        /\ timer[t] \in Timer
        /\ timer'[t] = IF t \in active THEN [timer[t] EXCEPT !.left = @ - d] ELSE timer[t]
  BY DEF ClockTick, IInv, TypeOK
<1>2. \A t \in T :
        /\ timer'[t] \in Timer
        /\ timer'[t].kind = timer[t].kind /\ timer'[t].on = timer[t].on
        /\ timer'[t].period = timer[t].period /\ timer'[t].rest = timer[t].rest
        /\ t \in active => timer'[t].left = timer[t].left - d
  <2> SUFFICES ASSUME NEW t \in T
               PROVE  /\ timer'[t] \in Timer
                      /\ timer'[t].kind = timer[t].kind /\ timer'[t].on = timer[t].on
                      /\ timer'[t].period = timer[t].period /\ timer'[t].rest = timer[t].rest
                      /\ t \in active => timer'[t].left = timer[t].left - d
    OBVIOUS
  <2>1. CASE t \in active
    <3>0. timer[t] \in Timer
      BY <1>1
    <3>1. timer[t].left - d \in Int
      BY <3>0 DEF Timer
    <3>2. timer'[t] = [timer[t] EXCEPT !.left = timer[t].left - d]
      BY <1>1, <2>1
    <3> QED BY <1>1, <3>1, <3>2, LaterRecord
  <2>2. CASE t \notin active
    BY <1>1, <2>2
  <2> QED BY <2>1, <2>2
<1>3. timer' \in [T -> Timer]
  BY <1>2 DEF ClockTick
<1>4. TypeOK'
  BY <1>3 DEF ClockTick, IInv, TypeOK
<1>5. Containers' /\ Given' /\ RestOfPeriod'
  BY <1>2 DEF ClockTick, IInv, Containers, Given, RestOfPeriod
<1>6. Phase' /\ NothingDue'
  BY DEF ClockTick, IInv, TypeOK, Phase, NothingDue
<1>7. NeverEarly'
  <2> SUFFICES ASSUME NEW u \in active \ wild
               PROVE  want[u] - waited'[u] - timer'[u].left \in 0..MaxStep
    BY DEF NeverEarly, ClockTick
  <2>1. u \in T /\ waited'[u] = waited[u] + d /\ timer'[u].left = timer[u].left - d
    BY <1>2 DEF ClockTick, IInv, TypeOK
  <2>2. want[u] \in Int /\ waited[u] \in Int /\ timer[u].left \in Int
    BY <1>1, <2>1 DEF IInv, TypeOK, Timer
  <2> QED BY <2>1, <2>2 DEF IInv, NeverEarly
<1> QED BY <1>4, <1>5, <1>6, <1>7 DEF IInv

LEMMA ExpireKeeps ==
    ASSUME IInv, NEW t \in T, Expire(t)
    PROVE  IInv'
<1>1. /\ t \in active /\ mode = "loop" /\ mode' = "callback" /\ lag = 0 /\ ~ticked
      /\ timer[t] \in Timer /\ timer[t].kind = "active" /\ timer[t].on
      /\ timer[t].period > 0 /\ timer[t].rest <= timer[t].period
      /\ expiring' = t /\ UNCHANGED <<live, nextHandle, lag, ticked>>
  BY DEF Expire, First, Due, IInv, TypeOK, Containers, Phase, RestOfPeriod
<1>2. Phase' /\ NothingDue'
  BY <1>1 DEF Phase, NothingDue
<1>3. CASE PutBack(timer[t])
  <2> DEFINE r == [timer[t] EXCEPT !.left = timer[t].left + timer[t].period]
  <2>1. /\ r \in Timer /\ r.kind = "active" /\ r.on /\ r.rest <= r.period /\ r.period > 0
        /\ r.left = timer[t].left + timer[t].period
    BY <1>1 DEF Timer
  <2>2. /\ Rec(t, r) /\ active' = active \cup {t} /\ paused' = paused \ {t}
        /\ waited' = [waited EXCEPT ![t] = @ - want[t]]
        /\ want' = [want EXCEPT ![t] = timer[t].period]
        /\ wild' = wild
    BY <1>1, <1>3 DEF Expire, NextDue, IInv, Containers
  <2> HIDE DEF r
  <2>3. /\ timer' \in [T -> Timer] /\ active' \subseteq T /\ paused' \subseteq T
        /\ Containers' /\ Given' /\ RestOfPeriod' /\ timer'[t] = r
        /\ \A u \in active' \ {t} : u \in active /\ timer'[u] = timer[u]
    BY <1>1, <2>1, <2>2, MoveKeeps
  <2>4. timer[t].period \in 0..MaxPeriod /\ timer[t].left \in Int
    BY <1>1 DEF Timer
  <2>5. TypeOK'
    <3>1. /\ live' \subseteq Space /\ wild' \subseteq T /\ nextHandle' \in [Space -> Nat]
          /\ waited' \in [T -> Int] /\ want' \in [T -> 0..MaxPeriod]
      BY <1>1, <2>2, <2>4 DEF IInv, TypeOK
    <3>2. lag' \in Int /\ ticked' \in BOOLEAN /\ expiring' \in T \cup {None}
          /\ mode' \in {"boot", "host", "loop", "callback"}
      BY <1>1 DEF IInv, TypeOK, Phase
    <3> QED BY <2>3, <3>1, <3>2 DEF TypeOK
  <2>6. NeverEarly'
    <3> SUFFICES ASSUME NEW u \in active' \ wild'
                 PROVE  want'[u] - waited'[u] - timer'[u].left \in 0..MaxStep
      BY DEF NeverEarly
    <3>1. CASE u = t
      BY <3>1, <1>1, <2>1, <2>2, <2>3, <2>4 DEF IInv, TypeOK, NeverEarly
    <3>2. CASE u # t
      BY <3>2, <2>2, <2>3 DEF IInv, TypeOK, NeverEarly
    <3> QED BY <3>1, <3>2
  <2> QED BY <1>2, <2>3, <2>5, <2>6 DEF IInv
<1>4. CASE ~PutBack(timer[t])
  <2> DEFINE r == [timer[t] EXCEPT !.kind = "paused", !.on = FALSE, !.rest = 0, !.left = 0]
  <2>0. r = [timer[t] EXCEPT !.kind = "paused", !.on = FALSE, !.rest = 0, !.left = 0]
    OBVIOUS
  <2> HIDE DEF r
  <2>1. r \in Timer /\ r.kind = "paused" /\ ~r.on /\ r.rest <= r.period
    <3>1. r \in Timer /\ r.kind = "paused" /\ ~r.on /\ r.rest = 0 /\ r.period = timer[t].period
      BY <1>1, <2>0, PausedRecord, Zenon
    <3> QED BY <1>1, <3>1 DEF Timer
  <2>2. /\ Rec(t, r) /\ active' = active \ {t} /\ paused' = paused \cup {t}
        /\ want' = [want EXCEPT ![t] = 0] /\ waited' = [waited EXCEPT ![t] = 0]
        /\ wild' = wild \ {t}
    BY <1>4 DEF Expire, Pause, Armed, r
  <2>3. /\ timer' \in [T -> Timer] /\ active' \subseteq T /\ paused' \subseteq T
        /\ Containers' /\ Given' /\ RestOfPeriod' /\ timer'[t] = r
        /\ \A u \in active' \ {t} : u \in active /\ timer'[u] = timer[u]
    BY <1>1, <2>1, <2>2, MoveKeeps
  <2>4. TypeOK'
    <3>1. /\ live' \subseteq Space /\ wild' \subseteq T /\ nextHandle' \in [Space -> Nat]
          /\ waited' \in [T -> Int] /\ want' \in [T -> 0..MaxPeriod]
      BY <1>1, <2>2 DEF IInv, TypeOK
    <3>2. lag' \in Int /\ ticked' \in BOOLEAN /\ expiring' \in T \cup {None}
          /\ mode' \in {"boot", "host", "loop", "callback"}
      BY <1>1 DEF IInv, TypeOK, Phase
    <3> QED BY <2>3, <3>1, <3>2 DEF TypeOK
  <2>5. NeverEarly'
    BY <2>2, <2>3 DEF IInv, TypeOK, NeverEarly
  <2> QED BY <1>2, <2>3, <2>4, <2>5 DEF IInv
<1> QED BY <1>3, <1>4

LEMMA ServerKeeps ==
    ASSUME IInv, initCurrentTime \/ routine \/ CallbackReturns \/ RoutineEnds
    PROVE  IInv'
<1>1. CASE initCurrentTime
  BY <1>1 DEF initCurrentTime, bank, IInv, TypeOK, Containers, Phase, Given,
              RestOfPeriod, NothingDue, NeverEarly
<1>2. CASE routine
  <2>1. UNCHANGED <<live, bank, expiring>> /\ mode' = "loop" /\ lag' = 0 /\ ticked' = FALSE
    BY <1>2, Zenon DEF routine
  <2>2. TypeOK'
    <3>1. ticked' = FALSE /\ lag' = 0
      BY <2>1
    <3>2. ticked' \in BOOLEAN
      BY <3>1
    <3>3. lag' \in Int
      BY <3>1
    <3> QED BY <2>1, <3>2, <3>3 DEF bank, IInv, TypeOK
  <2> QED BY <2>1, <2>2 DEF bank, IInv, Containers, Phase, Given,
              RestOfPeriod, NothingDue, NeverEarly
<1>3. CASE CallbackReturns
  BY <1>3 DEF CallbackReturns, bank, IInv, TypeOK, Containers, Phase, Given,
              RestOfPeriod, NothingDue, NeverEarly
<1>4. CASE RoutineEnds
  <2>1. \A t \in active : timer[t].left > 0
    <3> SUFFICES ASSUME NEW t \in active PROVE timer[t].left > 0
      OBVIOUS
    <3>1. timer[t].left \in Int /\ t \notin Due
      BY <1>4 DEF RoutineEnds, IInv, TypeOK, Timer
    <3> QED BY <3>1 DEF Due
  <2> QED BY <1>4, <2>1 DEF RoutineEnds, bank, IInv, TypeOK, Containers, Phase,
              Given, RestOfPeriod, NothingDue, NeverEarly
<1> QED BY <1>1, <1>2, <1>3, <1>4

-----------------------------------------------------------------------------
\* Every step keeps the inductive invariant.
LEMMA NextKeeps == IInv /\ [Next]_vars => IInv'
<1> SUFFICES ASSUME IInv, [Next]_vars PROVE IInv'
  OBVIOUS
<1>1. CASE Lua
  <2>1. ASSUME NEW t \in T, NEW b \in BOOLEAN, setTimerOnOff(t, b) PROVE IInv'
    BY <2>1, SwitchOnKeeps, SwitchOffKeeps DEF setTimerOnOff
  <2> QED BY <1>1, <2>1, CreateTimerKeeps, SetPeriodKeeps, SetRepeatKeeps, ResetKeeps
          DEF Lua
<1>2. CASE Spaces
  BY <1>2, SpacesKeep DEF Spaces
<1>3. CASE Server
  BY <1>3, ServerKeeps, ClockKeeps, ExpireKeeps DEF Server
<1>4. CASE UNCHANGED vars
  BY <1>4 DEF vars, bank, IInv, TypeOK, Containers, Phase, Given, RestOfPeriod,
              NothingDue, NeverEarly
<1> QED BY <1>1, <1>2, <1>3, <1>4 DEF Next

LEMMA Invariance == Spec => []IInv
BY InitIInv, NextKeeps, PTL DEF Spec

\* Types: each timer's record, the two lists and the clocks keep their shape.
THEOREM TimerTypeOK == Spec => []TypeOK
<1>1. IInv => TypeOK
  BY DEF IInv
<1> QED BY <1>1, Invariance, PTL

\* A timer is in the list its iterator says and on exactly when it is in
\* m_activeTimer, and a running timer has a period.
THEOREM TimerContainers == Spec => []Containers
<1>1. IInv => Containers
  BY DEF IInv
<1> QED BY <1>1, Invariance, PTL

\* routine never looks up a space that is gone (RanaTimerBank.cpp:165).
THEOREM TimerOwnersLive == Spec => []OwnersLive
<1>1. IInv => OwnersLive
  BY DEF IInv, TypeOK, Containers, Given, OwnersLive
<1> QED BY <1>1, Invariance, PTL

\* When routine has returned and the clock has not moved, no timer is due,
\* whatever the Lua it ran has set.
THEOREM TimerNothingOverdue == Spec => []NothingOverdue
<1>1. IInv => NothingOverdue
  BY DEF IInv, NothingDue, NothingOverdue
<1> QED BY <1>1, Invariance, PTL

\* No timer is more than the length of a frame early, and no expiry is lost:
\* the time a running timer has left is what it was armed for less the time
\* that has passed, less what a reset may have started too early.
THEOREM TimerNeverEarly == Spec => []NeverEarly
<1>1. IInv => NeverEarly
  BY DEF IInv
<1> QED BY <1>1, Invariance, PTL
=============================================================================
