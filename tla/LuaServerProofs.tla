---------------------------- MODULE LuaServerProofs ----------------------------
(***************************************************************************)
(* The Lua server's two halves: what becomes of an event that is raised    *)
(* (RanaDispatch), and of what the editor uploads (RanaClient).            *)
(***************************************************************************)
EXTENDS RanaDispatch, RanaClient, FiniteSetTheorems, SequenceTheorems, WellFoundedInduction,
        TLAPS

USE DispatchAssumption

-----------------------------------------------------------------------------
(* The inductive invariant, in parts that are functions of the variables.  *)

Trigger == [name : Name, on : BOOLEAN]
Event(ts) == [trigger : DOMAIN ts, type : EventType, key : Key, on : BOOLEAN]
WalkFrame ==
    [call : {"onMessage"}, type : EventType, key : Key, first : BOOLEAN, at : Nat,
     ok : BOOLEAN, moved : BOOLEAN, bursts : Nat]
BurstFrame == [call : Phase, trigger : Nat]

TriggersOK(ts) ==
    /\ ts \in Seq(Trigger)
    /\ \A i, j \in DOMAIN ts : ts[i].name = ts[j].name => i = j
EventsOK(ts, es) ==
    /\ es \in Seq(Event(ts))
    /\ \A i, j \in DOMAIN es : SameEvent(es[i], es[j]) => i = j

\* A walk for the first trigger has burst one exactly if it has found one.
FrameOK(ts, x) ==
    /\ x \in Frame
    /\ x.call \in Phase => x.trigger \in DOMAIN ts
    /\ x.call = "onMessage" /\ x.first => x.bursts = IF x.ok THEN 1 ELSE 0
StackOK(ts, st) == st \in Seq(Frame) /\ \A f \in DOMAIN st : FrameOK(ts, st[f])

\* m_BurstingTrigger is set only while a trigger bursts: what deletes the
\* triggers runs outside of all.
BurstingOK(ts, st, t) ==
    /\ t \in DOMAIN ts \cup {None}
    /\ t # None => \E f \in DOMAIN st : st[f].call \in Phase

\* The context of each walk is at its rank among the walks.
WalksOf(st) == {f \in DOMAIN st : st[f].call = "onMessage"}
RankOf(st, f) == Cardinality({g \in WalksOf(st) : g <= f})
ContextsOK(st, cs) ==
    /\ cs \in Seq(Key) /\ Len(cs) = Cardinality(WalksOf(st))
    /\ \A f \in WalksOf(st) : cs[RankOf(st, f)] = st[f].key

MapsOK(p, cs, us) == p = None /\ us \in Seq({None}) /\ Len(us) + Len(cs) <= MaxDepth

IInv ==
    /\ TriggersOK(trigger) /\ EventsOK(trigger, event) /\ StackOK(trigger, stack)
    /\ BurstingOK(trigger, stack, bursting) /\ ContextsOK(stack, contexts)
    /\ MapsOK(putting, contexts, unused) /\ crashed \in BOOLEAN

-----------------------------------------------------------------------------
(* Frames and contexts. *)

LEMMA FrameKinds ==
    /\ Frame = WalkFrame \cup BurstFrame
    /\ \A x \in Frame : x.call = "onMessage" => x \in WalkFrame
    /\ \A x \in Frame : x.call \in Phase => x \in BurstFrame
    /\ \A x \in Frame : x.call = "onMessage" <=> x.call \notin Phase
BY DEF Frame, WalkFrame, BurstFrame, Phase

LEMMA WalksFinite ==
    ASSUME NEW st \in Seq(Frame)
    PROVE  /\ IsFiniteSet(WalksOf(st)) /\ Cardinality(WalksOf(st)) \in Nat
           /\ Cardinality(WalksOf(st)) <= Len(st)
           /\ WalksOf(st) \subseteq 1..Len(st)
           /\ \A f \in WalksOf(st) : /\ RankOf(st, f) \in 1..Cardinality(WalksOf(st))
<1>1. WalksOf(st) \subseteq 1..Len(st) /\ Len(st) \in Nat
  BY DEF WalksOf
<1>2. IsFiniteSet(1..Len(st)) /\ Cardinality(1..Len(st)) = Len(st)
  <2>1. IsFiniteSet(1..Len(st)) /\ Cardinality(1..Len(st)) = IF 1 > Len(st) THEN 0 ELSE Len(st) - 1 + 1
    <3>1. 1 \in Int /\ Len(st) \in Int
      BY <1>1
    <3> QED BY <3>1, FS_Interval, Zenon
  <2> QED BY <1>1, <2>1
<1>3. IsFiniteSet(WalksOf(st)) /\ Cardinality(WalksOf(st)) <= Len(st)
  BY <1>1, <1>2, FS_Subset
<1>4. Cardinality(WalksOf(st)) \in Nat
  BY <1>3, FS_CardinalityType
<1>5. ASSUME NEW f \in WalksOf(st) PROVE RankOf(st, f) \in 1..Cardinality(WalksOf(st))
  <2> DEFINE S == {g \in WalksOf(st) : g <= f}
  <2>1. S \subseteq WalksOf(st) /\ f \in S
    BY <1>1
  <2>2. IsFiniteSet(S) /\ Cardinality(S) <= Cardinality(WalksOf(st))
    BY <1>3, <2>1, FS_Subset
  <2>3. Cardinality(S) \in Nat /\ Cardinality(S) # 0
    BY <2>1, <2>2, FS_CardinalityType, FS_EmptySet
  <2> QED BY <1>4, <2>2, <2>3 DEF RankOf
<1> QED BY <1>1, <1>3, <1>4, <1>5

LEMMA BelowProperties ==
    ASSUME NEW S, NEW st \in Seq(S), st # <<>>
    PROVE  LET su == SubSeq(st, 1, Len(st) - 1) IN
           /\ Len(st) \in Nat /\ Len(st) > 0 /\ DOMAIN st = 1..Len(st)
           /\ su \in Seq(S) /\ Len(su) = Len(st) - 1 /\ DOMAIN su = 1..(Len(st) - 1)
           /\ \A f \in 1..(Len(st) - 1) : su[f] = st[f]
<1>1. Len(st) \in Nat /\ Len(st) > 0 /\ DOMAIN st = 1..Len(st)
  OBVIOUS
<1> DEFINE k == Len(st) - 1
           su == SubSeq(st, 1, k)
<1>2. k \in Nat
  BY <1>1
<1>3. \A i \in 1..k : st[i] \in S
  BY <1>1, ElementOfSeq
<1> HIDE DEF k
<1>4. su \in Seq(S) /\ Len(su) = k
  BY <1>2, <1>3, SubSeqProperties
<1>5. \A f \in 1..k : su[f] = st[f]
  BY <1>2, <1>3, SubSeqProperties
<1> HIDE DEF su
<1>6. DOMAIN su = 1..k
  BY <1>4
<1> QED BY <1>1, <1>4, <1>5, <1>6 DEF su, k

\* Frames that change neither their kind nor the key of their message.
LEMMA ContextsSame ==
    ASSUME NEW st \in Seq(Frame), NEW su \in Seq(Frame), NEW cs, ContextsOK(st, cs),
           Len(su) = Len(st),
           \A f \in DOMAIN st : /\ su[f].call = "onMessage" <=> st[f].call = "onMessage"
                                /\ st[f].call = "onMessage" => su[f].key = st[f].key
    PROVE  ContextsOK(su, cs)
<1>1. WalksOf(su) = WalksOf(st)
  BY DEF WalksOf
<1>2. \A f \in WalksOf(su) : su[f].key = st[f].key /\ RankOf(su, f) = RankOf(st, f)
  BY <1>1 DEF WalksOf, RankOf
<1> QED BY <1>1, <1>2 DEF ContextsOK

LEMMA ContextsPushed ==
    ASSUME NEW st \in Seq(Frame), NEW cs, ContextsOK(st, cs), NEW x \in WalkFrame
    PROVE  ContextsOK(Append(st, x), Append(cs, x.key))
<1> DEFINE n == Len(st) + 1
           su == Append(st, x)
           W == WalksOf(st)
<1>1. /\ x.call = "onMessage" /\ x.key \in Key /\ Len(st) \in Nat
      /\ DOMAIN su = 1..n /\ su[n] = x /\ \A f \in 1..Len(st) : su[f] = st[f]
      /\ DOMAIN st = 1..Len(st)
  BY DEF WalkFrame
<1>2. W \subseteq 1..Len(st) /\ IsFiniteSet(W) /\ Cardinality(W) \in Nat
      /\ \A f \in W : RankOf(st, f) \in 1..Cardinality(W)
  BY WalksFinite
<1> HIDE DEF su
<1>3. WalksOf(su) = W \cup {n} /\ n \notin W
  <2>1. \A f \in DOMAIN su : su[f].call = "onMessage" <=> f \in W \/ f = n
    BY <1>1 DEF WalksOf
  <2> QED BY <1>1, <1>2, <2>1 DEF WalksOf
<1>4. Cardinality(WalksOf(su)) = Cardinality(W) + 1
  BY <1>2, <1>3, FS_AddElement
<1>5. ASSUME NEW f \in W PROVE RankOf(su, f) = RankOf(st, f) /\ su[f] = st[f]
  <2>1. {g \in WalksOf(su) : g <= f} = {g \in W : g <= f}
    BY <1>1, <1>2, <1>3
  <2> QED BY <1>1, <1>2, <2>1 DEF RankOf
<1>6. RankOf(su, n) = Cardinality(W) + 1
  <2>1. {g \in WalksOf(su) : g <= n} = WalksOf(su)
    BY <1>1, <1>2, <1>3
  <2> QED BY <1>4, <2>1 DEF RankOf
<1>7. cs \in Seq(Key) /\ Len(cs) = Cardinality(W) /\ \A f \in W : cs[RankOf(st, f)] = st[f].key
  BY DEF ContextsOK
<1> HIDE DEF W
<1> DEFINE ds == Append(cs, x.key)
<1>8. /\ ds \in Seq(Key) /\ Len(ds) = Cardinality(W) + 1 /\ ds[Cardinality(W) + 1] = x.key
      /\ \A i \in 1..Cardinality(W) : ds[i] = cs[i]
  BY <1>1, <1>2, <1>7
<1> HIDE DEF ds
<1>9. \A f \in WalksOf(su) : ds[RankOf(su, f)] = su[f].key
  BY <1>1, <1>2, <1>3, <1>5, <1>6, <1>7, <1>8
<1> QED BY <1>4, <1>8, <1>9 DEF ContextsOK, su, ds

LEMMA ContextsPopped ==
    ASSUME NEW st \in Seq(Frame), NEW cs, ContextsOK(st, cs), st # <<>>,
           st[Len(st)].call = "onMessage"
    PROVE  /\ Len(cs) > 0
           /\ ContextsOK(SubSeq(st, 1, Len(st) - 1), SubSeq(cs, 1, Len(cs) - 1))
<1> DEFINE n == Len(st)
           su == SubSeq(st, 1, n - 1)
           ds == SubSeq(cs, 1, Len(cs) - 1)
           W == WalksOf(su)
<1>1. /\ n \in Nat /\ n > 0 /\ su \in Seq(Frame) /\ Len(su) = n - 1
      /\ DOMAIN st = 1..n /\ DOMAIN su = 1..(n - 1) /\ \A f \in 1..(n - 1) : su[f] = st[f]
  BY BelowProperties
<1> HIDE DEF su
<1>2. W \subseteq 1..(n - 1) /\ IsFiniteSet(W) /\ Cardinality(W) \in Nat
      /\ \A f \in W : RankOf(su, f) \in 1..Cardinality(W)
  BY <1>1, WalksFinite
<1>3. WalksOf(st) = W \cup {n} /\ n \notin W
  <2>1. \A f \in 1..n : st[f].call = "onMessage" <=> f \in W \/ f = n
    BY <1>1 DEF WalksOf
  <2> QED BY <1>1, <1>2, <2>1 DEF WalksOf
<1>4. Cardinality(WalksOf(st)) = Cardinality(W) + 1
  BY <1>2, <1>3, FS_AddElement
<1>5. ASSUME NEW f \in W PROVE RankOf(su, f) = RankOf(st, f) /\ su[f] = st[f]
  <2>1. {g \in WalksOf(st) : g <= f} = {g \in W : g <= f}
    BY <1>1, <1>2, <1>3
  <2> QED BY <1>1, <1>2, <2>1 DEF RankOf
<1>6. /\ cs \in Seq(Key) /\ Len(cs) = Cardinality(W) + 1
      /\ \A f \in W : cs[RankOf(st, f)] = st[f].key
  BY <1>3, <1>4 DEF ContextsOK
<1> HIDE DEF W
<1>7. /\ ds \in Seq(Key) /\ Len(ds) = Cardinality(W)
      /\ \A i \in 1..Cardinality(W) : ds[i] = cs[i]
  BY <1>2, <1>6
<1> HIDE DEF ds
<1>8. \A f \in W : ds[RankOf(su, f)] = su[f].key
  BY <1>2, <1>5, <1>6, <1>7
<1> QED BY <1>2, <1>6, <1>7, <1>8 DEF ContextsOK, su, ds, W, n

\* A burst on top changes no context.
LEMMA ContextsUnder ==
    ASSUME NEW st \in Seq(Frame), NEW cs, NEW x \in BurstFrame
    PROVE  ContextsOK(Append(st, x), cs) <=> ContextsOK(st, cs)
<1> DEFINE su == Append(st, x)
<1>1. /\ x.call \in Phase /\ x.call # "onMessage" /\ Len(st) \in Nat /\ DOMAIN st = 1..Len(st)
      /\ DOMAIN su = 1..(Len(st) + 1) /\ su[Len(st) + 1] = x
      /\ \A f \in 1..Len(st) : su[f] = st[f]
  BY DEF BurstFrame, Phase
<1> HIDE DEF su
<1>2. WalksOf(su) = WalksOf(st)
  <2>1. \A f \in 1..(Len(st) + 1) : su[f].call = "onMessage" <=> f \in WalksOf(st)
    BY <1>1 DEF WalksOf
  <2> QED BY <1>1, <2>1 DEF WalksOf
<1>3. \A f \in WalksOf(st) : su[f] = st[f] /\ RankOf(su, f) = RankOf(st, f)
  BY <1>1, <1>2 DEF RankOf, WalksOf
<1> QED BY <1>2, <1>3 DEF ContextsOK, su

-----------------------------------------------------------------------------
(* The banks. *)

LEMMA FunctionIsSeq ==
    ASSUME NEW S, NEW n \in Nat, NEW f \in [1..n -> S]
    PROVE  f \in Seq(S) /\ Len(f) = n
<1>1. f \in Seq(S)
  BY SeqDef
<1>2. DOMAIN f = 1..Len(f) /\ DOMAIN f = 1..n /\ Len(f) \in Nat
  BY <1>1
<1>3. Len(f) = n
  BY <1>2
<1> QED BY <1>1, <1>3

\* A sequence that is changed in place.
LEMMA SameLength ==
    ASSUME NEW S, NEW T, NEW s \in Seq(S), NEW t, t = [i \in DOMAIN s |-> t[i]],
           \A i \in DOMAIN s : t[i] \in T
    PROVE  t \in Seq(T) /\ Len(t) = Len(s) /\ DOMAIN t = DOMAIN s
<1>1. Len(s) \in Nat /\ DOMAIN s = 1..Len(s)
  OBVIOUS
<1>2. t \in [1..Len(s) -> T]
  BY <1>1
<1> QED BY <1>1, <1>2, FunctionIsSeq

\* When triggers are added what knows one knows it still.
LEMMA TriggersGrown ==
    ASSUME NEW ts, NEW us, DOMAIN ts \subseteq DOMAIN us
    PROVE  /\ \A es : EventsOK(ts, es) => EventsOK(us, es)
           /\ \A st : StackOK(ts, st) => StackOK(us, st)
           /\ \A st, t : BurstingOK(ts, st, t) => BurstingOK(us, st, t)
<1>1. ASSUME NEW es, EventsOK(ts, es) PROVE EventsOK(us, es)
  <2>1. Event(ts) \subseteq Event(us)
    BY DEF Event
  <2> QED BY <1>1, <2>1, SeqMonotonic DEF EventsOK
<1>2. ASSUME NEW st, StackOK(ts, st) PROVE StackOK(us, st)
  BY <1>2 DEF StackOK, FrameOK
<1>3. ASSUME NEW st, NEW t, BurstingOK(ts, st, t) PROVE BurstingOK(us, st, t)
  BY <1>3 DEF BurstingOK
<1> QED BY <1>1, <1>2, <1>3

LEMMA WithTriggerOK ==
    ASSUME TriggersOK(trigger), NEW n \in Name
    PROVE  LET ts == WithTrigger(n) IN
           /\ TriggersOK(ts) /\ DOMAIN trigger \subseteq DOMAIN ts
           /\ HandleIn(ts, n) \in DOMAIN ts
<1> DEFINE ts == WithTrigger(n)
<1>1. trigger \in Seq(Trigger) /\ Len(trigger) \in Nat /\ DOMAIN trigger = 1..Len(trigger)
  BY DEF TriggersOK
<1>2. NewTrigger(n) \in Trigger /\ NewTrigger(n).name = n
  BY DEF NewTrigger, Trigger
<1>3. /\ TriggersOK(ts) /\ DOMAIN trigger \subseteq DOMAIN ts
      /\ \E i \in DOMAIN ts : ts[i].name = n
  <2>1. CASE TriggersNamed(n) = {}
    <3> DEFINE us == Append(trigger, NewTrigger(n))
    <3>1. ts = us
      BY <2>1 DEF WithTrigger
    <3>2. /\ us \in Seq(Trigger) /\ DOMAIN us = 1..(Len(trigger) + 1)
          /\ us[Len(trigger) + 1] = NewTrigger(n)
          /\ \A i \in 1..Len(trigger) : us[i] = trigger[i]
      BY <1>1, <1>2
    <3> HIDE DEF us
    <3>3. \A i \in 1..Len(trigger) : trigger[i].name # n
      BY <1>1, <2>1 DEF TriggersNamed
    <3>4. \A i, j \in DOMAIN us : us[i].name = us[j].name => i = j
      BY <1>1, <1>2, <3>2, <3>3 DEF TriggersOK
    <3> QED BY <1>1, <1>2, <3>1, <3>2, <3>4 DEF TriggersOK
  <2>2. CASE TriggersNamed(n) # {}
    <3>1. ts = trigger
      BY <2>2 DEF WithTrigger
    <3> QED BY <2>2, <3>1 DEF TriggersNamed
  <2> QED BY <2>1, <2>2
<1> HIDE DEF ts
<1>4. HandleIn(ts, n) \in DOMAIN ts
  BY <1>3 DEF HandleIn
<1> QED BY <1>3, <1>4 DEF ts

LEMMA EventAdded ==
    ASSUME NEW ts, NEW es, EventsOK(ts, es), NEW e \in Event(ts),
           ~\E i \in DOMAIN es : SameEvent(es[i], e)
    PROVE  EventsOK(ts, Append(es, e))
<1> DEFINE fs == Append(es, e)
           n == Len(es)
<1>1. /\ es \in Seq(Event(ts)) /\ n \in Nat /\ DOMAIN es = 1..n
      /\ fs \in Seq(Event(ts)) /\ DOMAIN fs = 1..(n + 1) /\ fs[n + 1] = e
      /\ \A i \in 1..n : fs[i] = es[i]
  BY DEF EventsOK
<1> HIDE DEF fs, n
<1>2. ASSUME NEW i \in 1..(n + 1), NEW j \in 1..(n + 1), SameEvent(fs[i], fs[j])
      PROVE  i = j
  <2>1. SameEvent(fs[j], fs[i])
    BY <1>2 DEF SameEvent
  <2>2. CASE i \in 1..n /\ j \in 1..n
    BY <1>1, <1>2, <2>2 DEF EventsOK
  <2>3. CASE i = n + 1 /\ j \in 1..n
    BY <1>1, <2>1, <2>3
  <2>4. CASE i \in 1..n /\ j = n + 1
    BY <1>1, <1>2, <2>4
  <2>5. CASE i = n + 1 /\ j = n + 1
    BY <2>5
  <2> QED BY <1>1, <2>2, <2>3, <2>4, <2>5
<1> QED BY <1>1, <1>2 DEF EventsOK, fs

LEMMA EventsSwitched ==
    ASSUME NEW ts, NEW es, EventsOK(ts, es), NEW fs, NEW b \in BOOLEAN,
           fs = [i \in DOMAIN es |-> fs[i]],
           \A i \in DOMAIN es : fs[i] \in {es[i], [es[i] EXCEPT !.on = b]}
    PROVE  EventsOK(ts, fs)
<1>1. es \in Seq(Event(ts)) /\ \A i \in DOMAIN es : es[i] \in Event(ts)
  BY DEF EventsOK
<1>2. \A i \in DOMAIN es : /\ fs[i] \in Event(ts) /\ fs[i].trigger = es[i].trigger
                           /\ fs[i].type = es[i].type /\ fs[i].key = es[i].key
  BY <1>1 DEF Event
<1>3. fs \in Seq(Event(ts)) /\ DOMAIN fs = DOMAIN es
  BY <1>1, <1>2, SameLength
<1>4. \A i, j \in DOMAIN es : SameEvent(fs[i], fs[j]) <=> SameEvent(es[i], es[j])
  BY <1>2 DEF SameEvent, Args
<1> QED BY <1>3, <1>4 DEF EventsOK

-----------------------------------------------------------------------------
(* The stack. *)

\* The innermost call is given another frame.
Retopped(x) == Append(Below, x)

LEMMA TopProperties ==
    ASSUME StackOK(trigger, stack), Calling
    PROVE  /\ stack \in Seq(Frame) /\ stack # <<>> /\ Depth \in Nat /\ Depth > 0
           /\ DOMAIN stack = 1..Depth /\ Top = stack[Depth] /\ Top \in Frame
           /\ FrameOK(trigger, Top)
           /\ Below \in Seq(Frame) /\ Len(Below) = Depth - 1 /\ DOMAIN Below = 1..(Depth - 1)
           /\ \A f \in 1..(Depth - 1) : Below[f] = stack[f]
<1>1. stack \in Seq(Frame) /\ stack # <<>>
  BY DEF StackOK, Calling
<1>2. Depth \in Nat /\ Depth > 0 /\ DOMAIN stack = 1..Depth
  BY <1>1 DEF Depth
<1> QED BY <1>1, <1>2, BelowProperties DEF Depth, Top, Below, StackOK

LEMMA RetoppedProperties ==
    ASSUME StackOK(trigger, stack), Calling, NEW x \in Frame
    PROVE  LET st == Retopped(x) IN
           /\ st \in Seq(Frame) /\ Len(st) = Depth /\ DOMAIN st = DOMAIN stack /\ st[Depth] = x
           /\ \A f \in 1..(Depth - 1) : st[f] = stack[f]
<1>1. /\ Depth \in Nat /\ Depth > 0 /\ DOMAIN stack = 1..Depth
      /\ Below \in Seq(Frame) /\ Len(Below) = Depth - 1
      /\ \A f \in 1..(Depth - 1) : Below[f] = stack[f]
  BY TopProperties
<1> DEFINE st == Append(Below, x)
           n == Depth - 1
<1>2. /\ st \in Seq(Frame) /\ Len(st) = n + 1 /\ st[n + 1] = x
      /\ \A f \in 1..n : st[f] = Below[f]
  BY <1>1
<1> HIDE DEF st
<1>3. n + 1 = Depth
  BY <1>1
<1> QED BY <1>1, <1>2, <1>3 DEF Retopped, st

LEMMA StackPushed ==
    ASSUME NEW ts, NEW st, StackOK(ts, st), NEW x, FrameOK(ts, x)
    PROVE  StackOK(ts, Append(st, x))
<1>1. st \in Seq(Frame) /\ x \in Frame
  BY DEF StackOK, FrameOK
<1> DEFINE su == Append(st, x)
<1>2. /\ su \in Seq(Frame) /\ DOMAIN su = 1..(Len(st) + 1) /\ su[Len(st) + 1] = x
      /\ Len(st) \in Nat /\ DOMAIN st = 1..Len(st) /\ \A f \in 1..Len(st) : su[f] = st[f]
  BY <1>1
<1> HIDE DEF su
<1>3. \A f \in DOMAIN su : FrameOK(ts, su[f])
  BY <1>2 DEF StackOK
<1> QED BY <1>2, <1>3 DEF StackOK, su

LEMMA StackRetopped ==
    ASSUME StackOK(trigger, stack), Calling, NEW x, FrameOK(trigger, x)
    PROVE  StackOK(trigger, Retopped(x))
<1>1. x \in Frame
  BY DEF FrameOK
<1> DEFINE st == Retopped(x)
<1>2. /\ st \in Seq(Frame) /\ DOMAIN st = 1..Depth /\ st[Depth] = x /\ Depth \in Nat
      /\ DOMAIN stack = 1..Depth /\ \A f \in 1..(Depth - 1) : st[f] = stack[f]
  BY <1>1, TopProperties, RetoppedProperties
<1> HIDE DEF st
<1>3. \A f \in DOMAIN st : FrameOK(trigger, st[f])
  BY <1>2 DEF StackOK
<1> QED BY <1>2, <1>3 DEF StackOK, st

LEMMA StackPopped ==
    ASSUME StackOK(trigger, stack), Calling
    PROVE  StackOK(trigger, Below)
<1>1. /\ Below \in Seq(Frame) /\ DOMAIN Below = 1..(Depth - 1) /\ Depth \in Nat
      /\ DOMAIN stack = 1..Depth /\ \A f \in 1..(Depth - 1) : Below[f] = stack[f]
  BY TopProperties
<1>2. \A f \in DOMAIN Below : FrameOK(trigger, Below[f])
  BY <1>1 DEF StackOK
<1> QED BY <1>1, <1>2 DEF StackOK

\* A walk on top stays a walk of the same message, a burst a burst.
LEMMA ContextsRetopped ==
    ASSUME StackOK(trigger, stack), Calling, NEW cs, ContextsOK(stack, cs), NEW x \in Frame,
           x.call = "onMessage" <=> Top.call = "onMessage",
           Top.call = "onMessage" => x.key = Top.key
    PROVE  ContextsOK(Retopped(x), cs)
<1> DEFINE st == Retopped(x)
<1>1. /\ stack \in Seq(Frame) /\ Len(stack) = Depth /\ DOMAIN stack = 1..Depth /\ Depth \in Nat
      /\ Top = stack[Depth]
  BY TopProperties DEF Depth
<1>2. /\ st \in Seq(Frame) /\ Len(st) = Depth /\ DOMAIN st = DOMAIN stack /\ st[Depth] = x
      /\ \A f \in 1..(Depth - 1) : st[f] = stack[f]
  BY RetoppedProperties
<1> HIDE DEF st
<1>3. \A f \in DOMAIN stack : /\ st[f].call = "onMessage" <=> stack[f].call = "onMessage"
                              /\ stack[f].call = "onMessage" => st[f].key = stack[f].key
  BY <1>1, <1>2
<1>4. ContextsOK(st, cs)
  BY <1>1, <1>2, <1>3, ContextsSame
<1> QED BY <1>4 DEF st

\* A burst that returns leaves the contexts.
LEMMA ContextsBelow ==
    ASSUME StackOK(trigger, stack), Calling, NEW cs, ContextsOK(stack, cs),
           Top.call # "onMessage"
    PROVE  ContextsOK(Below, cs)
<1>1. /\ stack \in Seq(Frame) /\ Len(stack) = Depth /\ Top = stack[Depth] /\ Top \in Frame
      /\ Depth \in Nat /\ Depth > 0 /\ DOMAIN stack = 1..Depth
      /\ Below \in Seq(Frame) /\ Len(Below) = Depth - 1 /\ DOMAIN Below = 1..(Depth - 1)
      /\ \A f \in 1..(Depth - 1) : Below[f] = stack[f]
  BY TopProperties DEF Depth
<1>2. WalksOf(Below) = WalksOf(stack)
  <2>1. \A f \in 1..Depth : f \in WalksOf(stack) <=> f \in 1..(Depth - 1) /\ Below[f].call = "onMessage"
    BY <1>1 DEF WalksOf
  <2> QED BY <1>1, <2>1 DEF WalksOf
<1>3. \A f \in WalksOf(stack) : Below[f] = stack[f] /\ RankOf(Below, f) = RankOf(stack, f)
  BY <1>1, <1>2 DEF RankOf, WalksOf
<1> QED BY <1>2, <1>3 DEF ContextsOK

-----------------------------------------------------------------------------
(* The actions. *)

\* A trigger that bursts is one of the stack while its frame is there.
LEMMA BurstingStays ==
    ASSUME NEW ts, NEW st, NEW su, NEW t, BurstingOK(ts, st, t),
           \A f \in DOMAIN st : st[f].call \in Phase =>
               f \in DOMAIN su /\ su[f].call \in Phase
    PROVE  BurstingOK(ts, su, t)
BY DEF BurstingOK

LEMMA PushedFrames ==
    ASSUME NEW st \in Seq(Frame), NEW x \in Frame
    PROVE  LET su == Append(st, x) IN
           /\ su \in Seq(Frame) /\ DOMAIN su = 1..(Len(st) + 1) /\ su[Len(st) + 1] = x
           /\ Len(st) \in Nat /\ DOMAIN st = 1..Len(st)
           /\ \A f \in DOMAIN st : f \in DOMAIN su /\ su[f] = st[f]
OBVIOUS

LEMMA RegisterKeeps ==
    ASSUME IInv, NEW n \in Name, NEW ty \in EventType, NEW k \in Key, NEW move \in BOOLEAN,
           registerEvent(n, ty, k, move)
    PROVE  IInv'
<1> DEFINE ts == WithTrigger(n)
           e == [trigger |-> HandleIn(ts, n), type |-> ty, key |-> k, on |-> TRUE]
           st == Moved(stack, ty, move)
<1>1. /\ TriggersOK(trigger) /\ EventsOK(trigger, event) /\ StackOK(trigger, stack)
      /\ BurstingOK(trigger, stack, bursting) /\ ContextsOK(stack, contexts)
      /\ MapsOK(putting, contexts, unused) /\ crashed \in BOOLEAN
  BY DEF IInv
<1>2. /\ trigger' = ts /\ bursting' = bursting /\ crashed' = crashed
      /\ putting' = putting /\ contexts' = contexts /\ unused' = unused
      /\ IF Registrable(e) THEN event' = Append(event, e) /\ stack' = st
                           ELSE event' = event /\ stack' = stack
  BY DEF registerEvent, Maps
<1>3. /\ TriggersOK(ts) /\ DOMAIN trigger \subseteq DOMAIN ts /\ HandleIn(ts, n) \in DOMAIN ts
  BY <1>1, WithTriggerOK
<1> HIDE DEF ts
<1>4. EventsOK(ts, event) /\ StackOK(ts, stack) /\ BurstingOK(ts, stack, bursting)
  BY <1>1, <1>3, TriggersGrown
<1>5. e \in Event(ts)
  BY <1>3 DEF Event
<1> HIDE DEF e
<1>6. Registrable(e) => EventsOK(ts, Append(event, e))
  BY <1>4, <1>5, EventAdded DEF Registrable
<1>7. /\ st \in Seq(Frame) /\ Len(st) = Len(stack) /\ DOMAIN st = DOMAIN stack
      /\ \A f \in DOMAIN stack : FrameOK(ts, st[f]) /\ st[f].call = stack[f].call
      /\ \A f \in DOMAIN stack : stack[f].call = "onMessage" => st[f].key = stack[f].key
  <2>1. st = [i \in DOMAIN stack |-> st[i]] /\ stack \in Seq(Frame)
    BY <1>4 DEF Moved, StackOK
  <2>2. ASSUME NEW f \in DOMAIN stack
        PROVE  /\ st[f] \in Frame /\ FrameOK(ts, st[f]) /\ st[f].call = stack[f].call
               /\ stack[f].call = "onMessage" => st[f].key = stack[f].key
    <3> DEFINE x == stack[f]
               y == [x EXCEPT !.moved = TRUE]
    <3>1. FrameOK(ts, x) /\ x \in Frame
      BY <1>4 DEF StackOK, FrameOK
    <3>2. st[f] = x \/ (x.call = "onMessage" /\ st[f] = y)
      <4>1. st[f] = IF x.call = "onMessage" /\ x.type = ty /\ ty = "time" /\ move THEN y ELSE x
        BY DEF Moved
      <4> HIDE DEF x, y, st
      <4> QED BY <4>1
    <3> HIDE DEF x, st
    <3>3. ASSUME x.call = "onMessage"
          PROVE  /\ y \in WalkFrame /\ y.call = x.call /\ y.key = x.key
                 /\ y.first = x.first /\ y.bursts = x.bursts /\ y.ok = x.ok
      <4>1. x \in WalkFrame
        BY <3>1, <3>3, FrameKinds
      <4> QED BY <4>1 DEF WalkFrame
    <3> HIDE DEF y
    <3>4. FrameOK(ts, st[f]) /\ st[f].call = x.call /\ (x.call = "onMessage" => st[f].key = x.key)
      BY <3>1, <3>2, <3>3, FrameKinds DEF FrameOK, Phase
    <3> QED BY <3>4 DEF FrameOK, x
  <2> HIDE DEF st
  <2>3. st \in Seq(Frame) /\ Len(st) = Len(stack) /\ DOMAIN st = DOMAIN stack
    BY <2>1, <2>2, SameLength
  <2> QED BY <2>2, <2>3
<1> HIDE DEF st
<1>8. StackOK(ts, st)
  BY <1>7 DEF StackOK
<1>9. BurstingOK(ts, st, bursting)
  BY <1>4, <1>7 DEF BurstingOK
<1>10. ContextsOK(st, contexts)
  BY <1>1, <1>7, ContextsSame DEF StackOK
<1> QED BY <1>1, <1>2, <1>3, <1>4, <1>6, <1>8, <1>9, <1>10 DEF IInv

LEMMA SwitchTriggerKeeps ==
    ASSUME IInv, NEW n \in Name, NEW b \in BOOLEAN, setTriggerOnOff(n, b)
    PROVE  IInv'
<1> DEFINE h == HandleIn(trigger, n)
<1>1. /\ TriggersOK(trigger) /\ EventsOK(trigger, event) /\ StackOK(trigger, stack)
      /\ BurstingOK(trigger, stack, bursting)
  BY DEF IInv
<1>2. /\ trigger' = [trigger EXCEPT ![h].on = b] /\ event' = event /\ stack' = stack
      /\ bursting' = bursting /\ crashed' = crashed
      /\ putting' = putting /\ contexts' = contexts /\ unused' = unused
  BY DEF setTriggerOnOff, Maps
<1>3. h \in DOMAIN trigger
  BY DEF setTriggerOnOff, TriggersNamed, HandleIn
<1> HIDE DEF h
<1>4. \A i \in DOMAIN trigger : trigger[i] \in Trigger
  BY <1>1 DEF TriggersOK
<1>5. \A i \in DOMAIN trigger : trigger'[i] \in Trigger /\ trigger'[i].name = trigger[i].name
  BY <1>2, <1>3, <1>4 DEF Trigger
<1>6. trigger' = [i \in DOMAIN trigger |-> trigger'[i]]
  BY <1>2
<1>7. trigger' \in Seq(Trigger) /\ DOMAIN trigger' = DOMAIN trigger
  BY <1>1, <1>5, <1>6, SameLength DEF TriggersOK
<1>8. TriggersOK(trigger')
  BY <1>1, <1>5, <1>7 DEF TriggersOK
<1>9. EventsOK(trigger', event) /\ StackOK(trigger', stack) /\ BurstingOK(trigger', stack, bursting)
  BY <1>1, <1>7, TriggersGrown
<1> QED BY <1>2, <1>8, <1>9 DEF IInv

LEMMA SwitchEventsKeep ==
    ASSUME IInv, NEW b \in BOOLEAN,
           \/ \E n \in Name : setEventOnOffByTrigger(n, b)
           \/ \E ty \in EventType : setEventOnOffByType(ty, b)
           \/ setEventOnOff(b)
    PROVE  IInv'
<1>1. /\ trigger' = trigger /\ stack' = stack /\ bursting' = bursting /\ crashed' = crashed
      /\ putting' = putting /\ contexts' = contexts /\ unused' = unused
  BY DEF setEventOnOff, setEventOnOffByType, setEventOnOffByTrigger, Switched, Maps
<1>2. /\ event' = [i \in DOMAIN event |-> event'[i]]
      /\ \A i \in DOMAIN event : event'[i] \in {event[i], [event[i] EXCEPT !.on = b]}
  BY DEF setEventOnOff, setEventOnOffByType, setEventOnOffByTrigger, Switched
<1>3. EventsOK(trigger, event')
  BY <1>2, EventsSwitched DEF IInv
<1> QED BY <1>1, <1>3 DEF IInv

LEMMA DeleteTriggerKeeps ==
    ASSUME IInv, deleteTrigger
    PROVE  IInv'
<1>1. /\ trigger' = <<>> /\ event' = <<>> /\ stack = <<>> /\ stack' = stack
      /\ bursting' = bursting /\ crashed' = crashed
      /\ putting' = putting /\ contexts' = contexts /\ unused' = unused
  BY DEF deleteTrigger, Calling, Maps
<1>2. bursting = None
  BY <1>1 DEF IInv, BurstingOK
<1>3. TriggersOK(<<>>) /\ EventsOK(<<>>, <<>>) /\ StackOK(<<>>, <<>>)
  BY EmptySeq DEF TriggersOK, EventsOK, StackOK
<1>4. BurstingOK(<<>>, <<>>, None)
  BY DEF BurstingOK
<1> QED BY <1>1, <1>2, <1>3, <1>4 DEF IInv

LEMMA MessageKeeps ==
    ASSUME IInv, NEW ty \in EventType, NEW k \in Key, NEW first \in BOOLEAN,
           onMessage(ty, k, first)
    PROVE  IInv'
<1> DEFINE w == Walk(ty, k, first)
<1>1. /\ stack' = Append(stack, w) /\ trigger' = trigger /\ event' = event
      /\ bursting' = bursting /\ crashed' = crashed /\ Len(stack) < MaxDepth
      /\ contexts' = Append(contexts, k)
      /\ IF unused = <<>> THEN putting' = None /\ unused' = unused
                          ELSE putting' = Head(unused) /\ unused' = Tail(unused)
  BY DEF onMessage, PushMap, Banks, Depth
<1>2. w \in WalkFrame /\ w.key = k /\ FrameOK(trigger, w)
  <2>1. w \in WalkFrame /\ w.key = k /\ w.call = "onMessage" /\ w.bursts = 0 /\ w.ok = FALSE
    BY DEF Walk, WalkFrame
  <2> QED BY <2>1, FrameKinds DEF FrameOK, Phase
<1> HIDE DEF w
<1>3. stack \in Seq(Frame) /\ w \in Frame
  BY <1>2 DEF IInv, StackOK, FrameOK
<1>4. StackOK(trigger, stack')
  BY <1>1, <1>2, StackPushed DEF IInv
<1>5. BurstingOK(trigger, stack', bursting)
  <2>1. \A f \in DOMAIN stack : f \in DOMAIN Append(stack, w) /\ Append(stack, w)[f] = stack[f]
    BY <1>3, PushedFrames
  <2>2. BurstingOK(trigger, stack, bursting)
    BY DEF IInv
  <2> QED BY <1>1, <2>1, <2>2 DEF BurstingOK
<1>6. ContextsOK(stack', contexts')
  BY <1>1, <1>2, <1>3, ContextsPushed DEF IInv
<1>7. /\ Len(contexts) <= Len(stack) /\ Len(stack) \in Nat /\ contexts \in Seq(Key)
      /\ Len(contexts') = Len(contexts) + 1 /\ Len(contexts) \in Nat
  BY <1>1, <1>3, WalksFinite DEF IInv, ContextsOK
<1>8. MapsOK(putting', contexts', unused')
  <2>1. unused \in Seq({None}) /\ putting = None /\ Len(unused) + Len(contexts) <= MaxDepth
    BY DEF IInv, MapsOK
  <2>2. CASE unused = <<>>
    <3>1. Len(unused) = 0
      BY <2>2
    <3> QED BY <1>1, <1>7, <2>1, <2>2, <3>1 DEF MapsOK
  <2>3. CASE unused # <<>>
    <3>1. Head(unused) = None /\ Tail(unused) \in Seq({None}) /\ Len(Tail(unused)) = Len(unused) - 1
          /\ Len(unused) \in Nat
      BY <2>1, <2>3
    <3>2. putting' = None /\ unused' = Tail(unused)
      BY <1>1, <2>3, <3>1
    <3>3. unused' \in Seq({None}) /\ Len(unused') = Len(unused) - 1
      BY <3>1, <3>2
    <3>4. Len(unused') + Len(contexts') <= MaxDepth
      BY <1>7, <2>1, <3>1, <3>3
    <3> QED BY <3>2, <3>3, <3>4 DEF MapsOK
  <2> QED BY <2>2, <2>3
<1> QED BY <1>1, <1>4, <1>5, <1>6, <1>8 DEF IInv

LEMMA RunTriggerKeeps ==
    ASSUME IInv, NEW n \in Name, NEW check \in BOOLEAN, RunTrigger(n, check)
    PROVE  IInv'
<1> DEFINE ts == WithTrigger(n)
           t == HandleIn(ts, n)
           x == Burst(t, IF check THEN "checkCondtion" ELSE "doAction")
<1>1. /\ trigger' = ts /\ event' = event /\ crashed' = crashed
      /\ putting' = putting /\ contexts' = contexts /\ unused' = unused
      /\ \/ stack' = stack /\ bursting' = bursting
         \/ stack' = Append(stack, x) /\ bursting' = t
  BY DEF RunTrigger, Maps
<1>2. TriggersOK(ts) /\ DOMAIN trigger \subseteq DOMAIN ts /\ t \in DOMAIN ts
  BY WithTriggerOK DEF IInv
<1> HIDE DEF ts, t
<1>3. EventsOK(ts, event) /\ StackOK(ts, stack) /\ BurstingOK(ts, stack, bursting)
  BY <1>2, TriggersGrown DEF IInv
<1>4. t \in Nat
  BY <1>2 DEF TriggersOK
<1>5. x \in BurstFrame /\ x.call \in Phase /\ x.trigger = t
  BY <1>4 DEF Burst, BurstFrame, Phase
<1> HIDE DEF x
<1>6. FrameOK(ts, x)
  BY <1>2, <1>5, FrameKinds DEF FrameOK
<1>7. StackOK(ts, Append(stack, x))
  BY <1>3, <1>6, StackPushed
<1>8. stack \in Seq(Frame) /\ x \in Frame
  BY <1>3, <1>6 DEF StackOK, FrameOK
<1>9. ContextsOK(Append(stack, x), contexts)
  BY <1>5, <1>8, ContextsUnder DEF IInv
<1>10. BurstingOK(ts, Append(stack, x), t)
  <2> DEFINE st == Append(stack, x)
  <2>1. \E f \in DOMAIN st : st[f] = x
    BY <1>8, PushedFrames
  <2> HIDE DEF st
  <2>2. BurstingOK(ts, st, t)
    BY <1>2, <1>5, <2>1 DEF BurstingOK
  <2> QED BY <2>2 DEF st
<1> QED BY <1>1, <1>2, <1>3, <1>7, <1>9, <1>10 DEF IInv

\* Some number of a set is the least.
LEMMA LeastNatural ==
    ASSUME NEW S, S \subseteq Nat, S # {}
    PROVE  \E n \in S : \A k \in S : n <= k
<1>1. \E x \in S : \A y \in S : ~(<<y, x>> \in OpToRel(<, Nat))
  BY NatLessThanWellFounded, WFMin
<1>2. PICK x \in S : \A y \in S : ~(<<y, x>> \in OpToRel(<, Nat))
  BY <1>1
<1>3. \A y \in S : ~(y < x)
  BY <1>2 DEF OpToRel
<1> QED BY <1>3

LEMMA NextEventFound ==
    ASSUME EventsOK(trigger, event), NEW w, ToVisit(w) # {}
    PROVE  NextEvent(w) \in DOMAIN event /\ NextEvent(w) \in Nat
<1>1. ToVisit(w) \subseteq DOMAIN event /\ DOMAIN event \subseteq Nat
  BY DEF ToVisit, EventsOK
<1>2. \E i \in ToVisit(w) : \A j \in ToVisit(w) : i <= j
  BY <1>1, LeastNatural
<1>3. NextEvent(w) \in ToVisit(w)
  BY <1>2 DEF NextEvent
<1> QED BY <1>1, <1>3

\* A walk that goes on has burst none if it is for the first.
LEMMA InvokeKeeps ==
    ASSUME IInv, onInvokeEvent
    PROVE  IInv'
<1> DEFINE i == NextEvent(Top)
           e == event[i]
           p == Passed(Top, i)
           w == Bursts(Top, i)
           x == Burst(e.trigger, "checkCondtion")
<1>1. /\ Calling /\ Top.call = "onMessage" /\ ~(Top.ok /\ Top.first) /\ ToVisit(Top) # {}
      /\ trigger' = trigger /\ event' = event /\ crashed' = crashed
      /\ putting' = putting /\ contexts' = contexts /\ unused' = unused
      /\ \/ stack' = Append(Retopped(w), x) /\ bursting' = e.trigger
         \/ stack' = Retopped(p) /\ bursting' = bursting
  BY DEF onInvokeEvent, Walking, Done, Banks, Maps, Retopped
<1>2. /\ StackOK(trigger, stack) /\ EventsOK(trigger, event) /\ ContextsOK(stack, contexts)
      /\ TriggersOK(trigger) /\ BurstingOK(trigger, stack, bursting)
  BY DEF IInv
<1>3. i \in DOMAIN event /\ i \in Nat
  BY <1>1, <1>2, NextEventFound
<1>4. e.trigger \in DOMAIN trigger /\ e.trigger \in Nat
  <2>1. e \in Event(trigger)
    BY <1>2, <1>3 DEF EventsOK
  <2> HIDE DEF e
  <2> QED BY <1>2, <2>1 DEF Event, TriggersOK
<1> HIDE DEF i, e
<1>5. Top \in WalkFrame /\ FrameOK(trigger, Top)
  BY <1>1, <1>2, TopProperties, FrameKinds
<1>6. /\ p \in WalkFrame /\ p.call = "onMessage" /\ p.key = Top.key
      /\ p.first = Top.first /\ p.ok = Top.ok /\ p.bursts = Top.bursts
  BY <1>3, <1>5 DEF Passed, WalkFrame
<1>7. /\ w \in WalkFrame /\ w.call = "onMessage" /\ w.key = Top.key
      /\ w.first = Top.first /\ w.ok = TRUE /\ w.bursts = Top.bursts + 1
  <2> DEFINE n == Top.bursts + 1
             t == Top
  <2>1. n \in Nat /\ t \in WalkFrame
    BY <1>5 DEF WalkFrame
  <2>2. w = [t EXCEPT !.at = i, !.ok = TRUE, !.bursts = n]
    BY DEF Bursts
  <2> HIDE DEF n, t, w
  <2>3. /\ w \in WalkFrame /\ w.call = "onMessage" /\ w.key = t.key
        /\ w.first = t.first /\ w.ok = TRUE /\ w.bursts = n
    BY <1>3, <2>1, <2>2 DEF WalkFrame
  <2> QED BY <2>3 DEF n, t
<1>8. x \in BurstFrame /\ x.call \in Phase /\ x.trigger = e.trigger
  BY <1>4 DEF Burst, BurstFrame, Phase
<1> HIDE DEF p, w, x
<1>9. FrameOK(trigger, p) /\ FrameOK(trigger, w) /\ FrameOK(trigger, x)
  <2>1. FrameOK(trigger, p)
    BY <1>1, <1>5, <1>6, FrameKinds DEF FrameOK, Phase
  <2>2. FrameOK(trigger, w)
    <3>1. w.first => w.bursts = 1
      BY <1>1, <1>5, <1>7 DEF FrameOK
    <3> QED BY <1>7, <3>1, FrameKinds DEF FrameOK, Phase
  <2>3. FrameOK(trigger, x)
    BY <1>4, <1>8, FrameKinds DEF FrameOK, Phase
  <2> QED BY <2>1, <2>2, <2>3
<1>10. p \in Frame /\ w \in Frame /\ x \in Frame
  BY <1>9 DEF FrameOK
<1>11. /\ StackOK(trigger, Retopped(p)) /\ StackOK(trigger, Retopped(w))
       /\ ContextsOK(Retopped(p), contexts) /\ ContextsOK(Retopped(w), contexts)
  BY <1>1, <1>2, <1>6, <1>7, <1>9, <1>10, StackRetopped, ContextsRetopped
<1>12. CASE stack' = Append(Retopped(w), x) /\ bursting' = e.trigger
  <2>1. Retopped(w) \in Seq(Frame)
    BY <1>11 DEF StackOK
  <2>2. StackOK(trigger, stack') /\ ContextsOK(stack', contexts)
    BY <1>8, <1>9, <1>11, <1>12, <2>1, StackPushed, ContextsUnder
  <2>3. BurstingOK(trigger, stack', bursting')
    <3>1. \E f \in DOMAIN stack' : stack'[f] = x
      BY <1>10, <1>12, <2>1, PushedFrames
    <3> QED BY <1>4, <1>8, <1>12, <3>1 DEF BurstingOK
  <2> QED BY <1>1, <1>2, <2>2, <2>3 DEF IInv
<1>13. CASE stack' = Retopped(p) /\ bursting' = bursting
  <2>1. /\ DOMAIN stack' = DOMAIN stack /\ DOMAIN stack = 1..Depth /\ Depth \in Nat
        /\ \A f \in 1..(Depth - 1) : stack'[f] = stack[f]
        /\ Top = stack[Depth]
    BY <1>1, <1>2, <1>10, <1>13, TopProperties, RetoppedProperties
  <2>2. \A f \in DOMAIN stack : stack[f].call \in Phase => stack'[f].call \in Phase
    BY <1>1, <2>1 DEF Phase
  <2>3. BurstingOK(trigger, stack', bursting')
    BY <1>2, <1>13, <2>1, <2>2 DEF BurstingOK
  <2> QED BY <1>1, <1>2, <1>11, <1>13, <2>3 DEF IInv
<1> QED BY <1>1, <1>12, <1>13

LEMMA WalkEndsKeeps ==
    ASSUME IInv, WalkEnds
    PROVE  IInv'
<1>1. /\ Calling /\ Top.call = "onMessage" /\ stack' = Below
      /\ trigger' = trigger /\ event' = event /\ bursting' = bursting /\ crashed' = crashed
      /\ putting' = None /\ unused' = Append(unused, None)
      /\ contexts' = SubSeq(contexts, 1, Len(contexts) - 1)
  BY DEF WalkEnds, Walking, PopMap, Banks
<1>2. /\ StackOK(trigger, stack) /\ ContextsOK(stack, contexts)
      /\ BurstingOK(trigger, stack, bursting) /\ MapsOK(putting, contexts, unused)
  BY DEF IInv
<1>3. /\ stack \in Seq(Frame) /\ stack # <<>> /\ stack[Len(stack)].call = "onMessage"
      /\ Depth \in Nat /\ DOMAIN stack = 1..Depth /\ Top = stack[Depth]
      /\ DOMAIN Below = 1..(Depth - 1) /\ \A f \in 1..(Depth - 1) : Below[f] = stack[f]
  BY <1>1, <1>2, TopProperties DEF Depth
<1>4. StackOK(trigger, stack')
  BY <1>1, <1>2, StackPopped
<1>5. BurstingOK(trigger, stack', bursting')
  <2>1. \A f \in DOMAIN stack : stack[f].call \in Phase => f \in 1..(Depth - 1)
    BY <1>1, <1>3 DEF Phase
  <2> QED BY <1>1, <1>2, <1>3, <2>1 DEF BurstingOK
<1>6. Len(contexts) > 0 /\ ContextsOK(stack', contexts')
  BY <1>1, <1>2, <1>3, ContextsPopped DEF Below, Depth
<1>7. MapsOK(putting', contexts', unused')
  <2>1. contexts \in Seq(Key) /\ contexts # <<>> /\ unused \in Seq({None})
    BY <1>2, <1>6 DEF ContextsOK, MapsOK
  <2>2. Len(contexts') = Len(contexts) - 1 /\ Len(contexts) \in Nat
    BY <1>1, <2>1, BelowProperties
  <2>3. unused' \in Seq({None}) /\ Len(unused') = Len(unused) + 1 /\ Len(unused) \in Nat
    BY <1>1, <2>1
  <2>4. Len(unused') + Len(contexts') <= MaxDepth
    BY <1>2, <2>2, <2>3 DEF MapsOK
  <2> QED BY <1>1, <2>3, <2>4 DEF MapsOK
<1> QED BY <1>1, <1>4, <1>5, <1>6, <1>7 DEF IInv

LEMMA ConditionKeeps ==
    ASSUME IInv, ConditionHolds
    PROVE  IInv'
<1> DEFINE x == Burst(Top.trigger, "doAction")
<1>1. /\ Calling /\ Top.call = "checkCondtion" /\ stack' = Retopped(x)
      /\ trigger' = trigger /\ event' = event /\ bursting' = bursting /\ crashed' = crashed
      /\ putting' = putting /\ contexts' = contexts /\ unused' = unused
  BY DEF ConditionHolds, Banks, Maps, Retopped
<1>2. /\ StackOK(trigger, stack) /\ ContextsOK(stack, contexts) /\ TriggersOK(trigger)
      /\ BurstingOK(trigger, stack, bursting)
  BY DEF IInv
<1>3. Top \in Frame /\ FrameOK(trigger, Top) /\ Top.call \in Phase
  BY <1>1, <1>2, TopProperties DEF Phase
<1>4. Top.trigger \in DOMAIN trigger /\ Top.trigger \in Nat
  BY <1>2, <1>3 DEF FrameOK, TriggersOK
<1>5. /\ x \in BurstFrame /\ x.call = "doAction" /\ x.trigger = Top.trigger
  BY <1>4 DEF Burst, BurstFrame, Phase
<1> HIDE DEF x
<1>6. FrameOK(trigger, x) /\ x \in Frame
  BY <1>4, <1>5, FrameKinds DEF FrameOK, Phase
<1>7. StackOK(trigger, stack')
  BY <1>1, <1>2, <1>6, StackRetopped
<1>8. ContextsOK(stack', contexts)
  BY <1>1, <1>2, <1>5, <1>6, ContextsRetopped
<1>9. BurstingOK(trigger, stack', bursting)
  <2>1. /\ DOMAIN stack' = DOMAIN stack /\ DOMAIN stack = 1..Depth /\ Depth \in Nat
        /\ stack'[Depth] = x /\ \A f \in 1..(Depth - 1) : stack'[f] = stack[f]
    BY <1>1, <1>2, <1>6, TopProperties, RetoppedProperties
  <2>2. \A f \in DOMAIN stack : stack[f].call \in Phase => stack'[f].call \in Phase
    BY <1>5, <2>1 DEF Phase
  <2> QED BY <1>2, <2>1, <2>2 DEF BurstingOK
<1> QED BY <1>1, <1>7, <1>8, <1>9 DEF IInv

LEMMA BurstEndsKeeps ==
    ASSUME IInv, BurstEnds
    PROVE  IInv'
<1>1. /\ Calling /\ Top.call \in Phase /\ stack' = Below /\ bursting' = None
      /\ trigger' = trigger /\ event' = event /\ crashed' = crashed
      /\ putting' = putting /\ contexts' = contexts /\ unused' = unused
  BY DEF BurstEnds, LuaRuns, Banks, Maps
<1>2. StackOK(trigger, stack) /\ ContextsOK(stack, contexts)
  BY DEF IInv
<1>3. StackOK(trigger, stack')
  BY <1>1, <1>2, StackPopped
<1>4. ContextsOK(stack', contexts)
  BY <1>1, <1>2, ContextsBelow DEF Phase
<1>5. BurstingOK(trigger, stack', bursting')
  BY <1>1 DEF BurstingOK
<1> QED BY <1>1, <1>3, <1>4, <1>5 DEF IInv

LEMMA InitIInv == Init => IInv
<1> SUFFICES ASSUME Init PROVE IInv
  OBVIOUS
<1>1. TriggersOK(<<>>) /\ EventsOK(<<>>, <<>>) /\ StackOK(<<>>, <<>>)
  BY EmptySeq DEF TriggersOK, EventsOK, StackOK
<1>2. BurstingOK(<<>>, <<>>, None)
  BY DEF BurstingOK
<1>3. WalksOf(<<>>) = {}
  BY DEF WalksOf
<1>4. ContextsOK(<<>>, <<>>)
  BY <1>3, FS_EmptySet, EmptySeq DEF ContextsOK
<1>5. MapsOK(None, <<>>, <<>>)
  BY EmptySeq DEF MapsOK
<1> QED BY <1>1, <1>2, <1>4, <1>5 DEF Init, IInv

LEMMA NextKeeps == IInv /\ [Next]_vars => IInv'
<1> SUFFICES ASSUME IInv, [Next]_vars PROVE IInv'
  OBVIOUS
<1>1. ASSUME Lua PROVE IInv'
  <2>1. ASSUME NEW n \in Name, NEW ty \in EventType, NEW k \in Key, NEW move \in BOOLEAN,
               registerEvent(n, ty, k, move)
        PROVE  IInv'
    BY <2>1, RegisterKeeps
  <2>2. ASSUME NEW n \in Name, NEW b \in BOOLEAN,
               setTriggerOnOff(n, b) \/ RunTrigger(n, b)
        PROVE  IInv'
    BY <2>2, SwitchTriggerKeeps, RunTriggerKeeps
  <2>3. ASSUME NEW b \in BOOLEAN,
               \/ \E n \in Name : setEventOnOffByTrigger(n, b)
               \/ \E ty \in EventType : setEventOnOffByType(ty, b)
               \/ setEventOnOff(b)
        PROVE  IInv'
    BY <2>3, SwitchEventsKeep
  <2>4. ASSUME NEW ty \in EventType, NEW k \in Key, NEW first \in BOOLEAN,
               onMessage(ty, k, first)
        PROVE  IInv'
    BY <2>4, MessageKeeps
  <2> QED BY <1>1, <2>1, <2>2, <2>3, <2>4 DEF Lua
<1>2. ASSUME WalkCrashes PROVE IInv'
  BY <1>2 DEF WalkCrashes, Banks, Maps, IInv
<1>3. CASE UNCHANGED vars
  BY <1>3 DEF vars, IInv
<1> QED BY <1>1, <1>2, <1>3, DeleteTriggerKeeps, InvokeKeeps, WalkEndsKeeps, ConditionKeeps,
           BurstEndsKeeps DEF Next

LEMMA DispatchInvariance == Spec => []IInv
BY InitIInv, NextKeeps, PTL DEF Spec

\* Triggers and events stay without doubles, and what bursts and what an event names is
\* a trigger of the bank (RanaEventBank, RanaTriggerBank), whatever Lua registers in a walk.
THEOREM DispatchBanks == Spec => []BanksConsistent
<1>1. IInv => BanksConsistent
  <2> SUFFICES ASSUME IInv PROVE BanksConsistent
    OBVIOUS
  <2>1. TypeOK
    BY DEF IInv, TriggersOK, EventsOK, StackOK, BurstingOK, ContextsOK, MapsOK, TypeOK,
           Trigger, Event
  <2> QED BY <2>1 DEF IInv, TriggersOK, EventsOK, StackOK, FrameOK, BanksConsistent
<1> QED BY <1>1, DispatchInvariance, PTL

\* However deep messages nest each is read with its own context, and the map that is
\* filled for the next one is empty (RanaSpace::onMessage).
THEOREM DispatchContexts == Spec => []ContextOfMessage
<1>1. IInv => ContextOfMessage
  <2> SUFFICES ASSUME IInv PROVE ContextOfMessage
    OBVIOUS
  <2>1. Walks = WalksOf(stack)
    BY DEF Walks, WalksOf
  <2>2. ContextsOK(stack, contexts) /\ MapsOK(putting, contexts, unused)
    BY DEF IInv
  <2> QED BY <2>1, <2>2 DEF ContextsOK, MapsOK, RankOf, ContextOfMessage
<1> QED BY <1>1, DispatchInvariance, PTL

\* A message for the first trigger bursts no second (RanaEventBank::onMessage).
THEOREM DispatchFirst == Spec => []FirstOnlyOne
<1>1. IInv => FirstOnlyOne
  BY DEF IInv, StackOK, FrameOK, Walks, FirstOnlyOne
<1> QED BY <1>1, DispatchInvariance, PTL

-----------------------------------------------------------------------------
(* The editor's clients.                                                   *)

HIDE DispatchAssumption

Kinds == Files \cup {"action"}
Byte == Nat \X Kinds \X Nat

\* What the clients have announced: the lengths of two files, or of an action.
Lengths == [Files -> Nat] \cup [{"action"} -> Nat]

Buf == [there : BOOLEAN, len : Nat, data : Seq(Byte)]
Write == [path : Path \cup {Nothing}, type : Type \cup {Nothing}, name : Nat,
          buf : [Files -> Buf]]
Object == [open : BOOLEAN, access : BOOLEAN, write : Write, action : Buf]
Sender == [id : Nat, next : [Kinds -> Nat]]
Info == {NoInfo} \cup [type : AnyType, name : Nat \ {0}]
Table == [Path -> Info]
Manager == [info : Table, ofType : [AnyType -> SUBSET Path], changed : BOOLEAN]
Disk == [file : [Path -> [Files -> Seq(Byte)]], conf : Table]
Log == [begun : Nat, runs : Nat, good : [Path -> Nat], len : Seq(Lengths),
        lost : SUBSET Path, cut : BOOLEAN, risk : SUBSET Path]

-----------------------------------------------------------------------------
(* The inductive invariant.                                                *)

\* A buffer holds the beginning of file f of transfer id.
Begins(b, id, f) == b.data = Bytes(id, f, 1, Len(b.data)) /\ Len(b.data) <= b.len

\* A client that still sends file f of this buffer goes on where the buffer ends.
GoesOn(b, q, id, f, lens) ==
    q.id # Nothing /\ f \in DOMAIN lens[q.id] => q.id = id /\ q.next[f] = Len(b.data) + 1

\* The upload an object holds is of one transfer, of both its files.
UploadOK(s, q, lens) ==
    LET w == s.write
    IN  \/ w.buf = [f \in Files |-> NoBuf]
        \/ /\ s.open /\ w.path \in Path /\ w.type \in Type
           /\ w.name \in DOMAIN lens /\ lens[w.name] \in [Files -> Nat]
           /\ \A f \in Files : /\ w.buf[f].there /\ w.buf[f].len = lens[w.name][f]
                               /\ Begins(w.buf[f], w.name, f)
                               /\ GoesOn(w.buf[f], q, w.name, f, lens)

\* So is the action, which may be left from an earlier connection.
ActionOK(s, q, lens) ==
    s.action.there =>
        \E id \in DOMAIN lens : /\ "action" \in DOMAIN lens[id]
                                /\ s.action.len = lens[id]["action"]
                                /\ Begins(s.action, id, "action")
                                /\ GoesOn(s.action, q, id, "action", lens)

ObjectOK(s, q, lens) ==
    /\ s \in Object /\ q \in Sender
    /\ q.id # Nothing => q.id \in DOMAIN lens
    /\ UploadOK(s, q, lens)
    /\ ActionOK(s, q, lens)

\* A file on the disk is the beginning of one that was sent.
Stored(d, f, lens) ==
    \/ d = <<>>
    \/ \E id \in DOMAIN lens : /\ lens[id] \in [Files -> Nat] /\ Len(d) <= lens[id][f]
                               /\ d = Bytes(id, f, 1, Len(d))

\* Those of an upload that was answered "ok" are whole unless one was lost.
FilesOK(x, g, lost, lens) ==
    \A p \in Path :
        /\ \A f \in Files : Stored(x.file[p][f], f, lens)
        /\ g[p] # Nothing =>
               /\ g[p] \in DOMAIN lens /\ lens[g[p]] \in [Files -> Nat]
               /\ p \notin lost =>
                      \A f \in Files : x.file[p][f] = Bytes(g[p], f, 1, lens[g[p]][f])

\* Table t was read from the manager's file, or written to it, cut or not.
TableOK(x, t, g, n, cut, risk) ==
    /\ \A y \in AnyType : x.ofType[y] = {p \in Path : x.info[p].type = y}
    /\ x.changed \/ cut \/ t = x.info
    /\ \A p \in Path : /\ cut \/ t[p].type \in {NoType, x.info[p].type}
                       /\ g[p] # Nothing /\ p \notin risk => x.info[p].name = g[p]
                       /\ x.info[p].name \in 0..n /\ t[p].name \in 0..n

ClientIInv ==
    /\ c \in [Client -> Object] /\ peer \in [Client -> Sender]
    /\ m \in Manager /\ disk \in Disk /\ log \in Log /\ Len(log.len) = log.begun
    /\ \A o \in Client : ObjectOK(c[o], peer[o], log.len)
    /\ FilesOK(disk, log.good, log.lost, log.len)
    /\ TableOK(m, disk.conf, log.good, log.begun, log.cut, log.risk)
    /\ ActionsWhole

-----------------------------------------------------------------------------
(* Bytes that follow each other. *)

LEMMA SomeBytes ==
    ASSUME NEW id \in Nat, NEW f \in Kinds, NEW n \in Nat
    PROVE  /\ Bytes(id, f, 1, n) \in Seq(Byte) /\ Len(Bytes(id, f, 1, n)) = n
           /\ n > 0 => Bytes(id, f, 1, n)[1] = <<id, f, 1>>
BY DEF Bytes, Byte

LEMMA NextBytes ==
    ASSUME NEW id \in Nat, NEW f \in Kinds, NEW a \in Nat, NEW n \in Nat
    PROVE  /\ Bytes(id, f, a + 1, n) \in Seq(Byte) /\ Len(Bytes(id, f, a + 1, n)) = n
           /\ Bytes(id, f, 1, a) \o Bytes(id, f, a + 1, n) = Bytes(id, f, 1, a + n)
BY DEF Bytes, Byte

LEMMA FewerBytes ==
    ASSUME NEW id \in Nat, NEW f \in Kinds, NEW n \in Nat, NEW k \in 0..n
    PROVE  /\ SubSeq(Bytes(id, f, 1, n), 1, k) = Bytes(id, f, 1, k)
           /\ IsPrefix(Bytes(id, f, 1, k), Bytes(id, f, 1, n))
BY DEF Bytes, IsPrefix

USE ClientAssumption

-----------------------------------------------------------------------------
(* The invariant implies what the runs check. *)

LEMMA IInvFiles == ClientIInv => FilesWhole
<1> SUFFICES ASSUME ClientIInv PROVE FilesWhole
  OBVIOUS
<1>1. ASSUME NEW o \in Client
      PROVE  /\ \A f \in Files : Len(c[o].write.buf[f].data) <= c[o].write.buf[f].len
             /\ c[o].write.buf["script"].there <=> c[o].write.buf["save"].there
             /\ c[o].write.buf["script"].there => c[o].open
  <2>1. UploadOK(c[o], peer[o], log.len)
    BY DEF ClientIInv, ObjectOK
  <2>2. CASE c[o].write.buf = [f \in Files |-> NoBuf]
    BY <2>2 DEF NoBuf, Files
  <2>3. CASE c[o].write.buf # [f \in Files |-> NoBuf]
    BY <2>1, <2>3 DEF UploadOK, Files, Begins
  <2> QED BY <2>2, <2>3
<1>2. ASSUME NEW t \in Table, \A p \in Path : t[p].name \in 0..log.begun
      PROVE  t \in [Path -> {NoInfo} \cup [type : AnyType, name : 1..log.begun]]
  <2>1. log.begun \in Nat
    BY DEF ClientIInv, Log
  <2>2. ASSUME NEW p \in Path PROVE t[p] \in {NoInfo} \cup [type : AnyType, name : 1..log.begun]
    <3>1. t[p] \in Info /\ t[p].name \in 0..log.begun
      BY <1>2 DEF Table
    <3> QED BY <2>1, <3>1 DEF Info
  <2> QED BY <2>2 DEF Table
<1>3. ClientTypeOK
  <2>1. DOMAIN c = Client /\ DOMAIN peer = Client
    BY DEF ClientIInv
  <2>2. m.info \in Table /\ disk.conf \in Table
    BY DEF ClientIInv, Manager, Disk
  <2>3. \A p \in Path : m.info[p].name \in 0..log.begun /\ disk.conf[p].name \in 0..log.begun
    BY DEF ClientIInv, TableOK
  <2> QED BY <1>1, <1>2, <2>1, <2>2, <2>3 DEF ClientTypeOK
<1>4. ASSUME NEW p \in Path, NEW f \in Files
      PROVE  LET d == disk.file[p][f]
             IN  /\ d = <<>> \/ IsPrefix(d, Whole(d[1][1], f))
                 /\ log.good[p] # Nothing /\ p \notin log.lost => d = Whole(log.good[p], f)
  <2> DEFINE d == disk.file[p][f]
  <2>1. FilesOK(disk, log.good, log.lost, log.len) /\ log.len \in Seq(Lengths) /\ d \in Seq(Byte)
    BY DEF ClientIInv, Log, Disk
  <2>2. d = <<>> \/ IsPrefix(d, Whole(d[1][1], f))
    <3>1. SUFFICES ASSUME d # <<>> PROVE IsPrefix(d, Whole(d[1][1], f))
      OBVIOUS
    <3>2. PICK id \in DOMAIN log.len :
              /\ log.len[id] \in [Files -> Nat] /\ Len(d) <= log.len[id][f]
              /\ d = Bytes(id, f, 1, Len(d))
      BY <2>1, <3>1 DEF FilesOK, Stored
    <3>3. id \in Nat /\ Len(d) \in Nat /\ Len(d) > 0 /\ log.len[id][f] \in Nat /\ f \in Kinds
      BY <2>1, <3>1, <3>2 DEF Kinds
    <3> HIDE DEF d
    <3>4. d[1] = <<id, f, 1>>
      BY <3>2, <3>3, SomeBytes
    <3>5. d[1][1] = id
      BY <3>4
    <3>6. IsPrefix(Bytes(id, f, 1, Len(d)), Bytes(id, f, 1, log.len[id][f]))
      <4> DEFINE k == Len(d)
                 n == log.len[id][f]
      <4>1. n \in Nat /\ k \in 0..n /\ id \in Nat /\ f \in Kinds
        BY <3>2, <3>3
      <4> HIDE DEF k, n
      <4> QED BY <4>1, FewerBytes DEF k, n
    <3> QED BY <3>2, <3>5, <3>6 DEF Whole
  <2>3. log.good[p] # Nothing /\ p \notin log.lost => d = Whole(log.good[p], f)
    BY <2>1 DEF FilesOK, Whole
  <2> QED BY <2>2, <2>3
<1> QED BY <1>1, <1>3, <1>4 DEF FilesWhole, NoHalfUpload

LEMMA IInvTable == ClientIInv => TableKept
BY DEF ClientIInv, TableOK, TableKept

-----------------------------------------------------------------------------
(* What one step leaves as it was. *)

LEMMA Announced ==
    ASSUME NEW lens \in Seq(Lengths), NEW l \in Lengths
    PROVE  LET t == Append(lens, l)
           IN  /\ t \in Seq(Lengths) /\ Len(t) = Len(lens) + 1 /\ Len(lens) \in Nat
               /\ DOMAIN t = DOMAIN lens \cup {Len(lens) + 1} /\ DOMAIN lens = 1..Len(lens)
               /\ \A id \in DOMAIN lens : t[id] = lens[id]
               /\ t[Len(lens) + 1] = l
OBVIOUS

\* A transfer that begins elsewhere changes nothing for an object.
LEMMA LaterObject ==
    ASSUME NEW lens \in Seq(Lengths), NEW l \in Lengths, NEW s, NEW q, ObjectOK(s, q, lens)
    PROVE  ObjectOK(s, q, Append(lens, l))
<1> DEFINE t == Append(lens, l)
<1>1. DOMAIN lens \subseteq DOMAIN t /\ \A id \in DOMAIN lens : t[id] = lens[id]
  BY Announced
<1> HIDE DEF t
<1>2. q.id # Nothing => q.id \in DOMAIN lens
  BY DEF ObjectOK
<1>3. \A b, id, f : GoesOn(b, q, id, f, lens) => GoesOn(b, q, id, f, t)
  BY <1>1, <1>2 DEF GoesOn
<1>4. UploadOK(s, q, t)
  <2>1. UploadOK(s, q, lens)
    BY DEF ObjectOK
  <2>2. CASE s.write.buf = [f \in Files |-> NoBuf]
    BY <2>2 DEF UploadOK
  <2>3. CASE s.write.buf # [f \in Files |-> NoBuf]
    BY <1>1, <1>3, <2>1, <2>3 DEF UploadOK
  <2> QED BY <2>2, <2>3
<1>5. ActionOK(s, q, t)
  <2>1. SUFFICES ASSUME s.action.there PROVE ActionOK(s, q, t)
    BY DEF ActionOK
  <2>2. PICK id \in DOMAIN lens : /\ "action" \in DOMAIN lens[id]
                                  /\ s.action.len = lens[id]["action"]
                                  /\ Begins(s.action, id, "action")
                                  /\ GoesOn(s.action, q, id, "action", lens)
    BY <2>1 DEF ObjectOK, ActionOK
  <2>3. id \in DOMAIN t /\ t[id] = lens[id] /\ GoesOn(s.action, q, id, "action", t)
    BY <1>1, <1>3, <2>2
  <2> QED BY <2>2, <2>3 DEF ActionOK
<1> QED BY <1>1, <1>2, <1>4, <1>5 DEF ObjectOK, t

LEMMA LaterFiles ==
    ASSUME NEW lens \in Seq(Lengths), NEW l \in Lengths, NEW x, NEW g, NEW lost,
           FilesOK(x, g, lost, lens)
    PROVE  FilesOK(x, g, lost, Append(lens, l))
<1> DEFINE t == Append(lens, l)
<1>1. DOMAIN lens \subseteq DOMAIN t /\ \A id \in DOMAIN lens : t[id] = lens[id]
  BY Announced
<1> HIDE DEF t
<1>2. \A d, f : Stored(d, f, lens) => Stored(d, f, t)
  BY <1>1 DEF Stored
<1>3. FilesOK(x, g, lost, t)
  BY <1>1, <1>2 DEF FilesOK
<1> QED BY <1>3 DEF t

\* Only the object of one client changes, and one transfer may begin.
LEMMA OneObject ==
    ASSUME ClientIInv, NEW o \in Client, NEW s, NEW q,
           c' = [c EXCEPT ![o] = s], peer' = [peer EXCEPT ![o] = q],
           log'.len = log.len \/ \E l \in Lengths : log'.len = Append(log.len, l),
           ObjectOK(s, q, log'.len)
    PROVE  /\ c' \in [Client -> Object] /\ peer' \in [Client -> Sender]
           /\ \A x \in Client : ObjectOK(c'[x], peer'[x], log'.len)
<1>1. c \in [Client -> Object] /\ peer \in [Client -> Sender] /\ log.len \in Seq(Lengths)
  BY DEF ClientIInv, Log
<1>2. c' \in [Client -> Object] /\ peer' \in [Client -> Sender]
  BY <1>1 DEF ObjectOK
<1>3. ASSUME NEW x \in Client PROVE ObjectOK(c'[x], peer'[x], log'.len)
  <2>1. CASE x = o
    BY <1>1, <2>1
  <2>2. CASE x # o
    <3>1. c'[x] = c[x] /\ peer'[x] = peer[x] /\ ObjectOK(c[x], peer[x], log.len)
      BY <1>1, <2>2 DEF ClientIInv
    <3> QED BY <1>1, <3>1, LaterObject
  <2> QED BY <2>1, <2>2
<1> QED BY <1>2, <1>3

\* A transfer begins.
Announces(l) == log' = [log EXCEPT !.begun = log.begun + 1, !.len = Append(log.len, l)]

LEMMA TableLater ==
    ASSUME NEW x, NEW t, NEW g, NEW n \in Nat, NEW cut, NEW risk, TableOK(x, t, g, n, cut, risk)
    PROVE  TableOK(x, t, g, n + 1, cut, risk)
BY DEF TableOK

\* The log is only given another transfer, and the rest stays.
LEMMA RestStays ==
    ASSUME ClientIInv, UNCHANGED <<m, disk, acts>>,
           UNCHANGED log \/ \E l \in Lengths : Announces(l)
    PROVE  /\ m' \in Manager /\ disk' \in Disk /\ log' \in Log /\ Len(log'.len) = log'.begun
           /\ log'.len = log.len \/ \E l \in Lengths : log'.len = Append(log.len, l)
           /\ FilesOK(disk', log'.good, log'.lost, log'.len)
           /\ TableOK(m', disk'.conf, log'.good, log'.begun, log'.cut, log'.risk)
           /\ ActionsWhole'
<1>1. CASE UNCHANGED log
  BY <1>1 DEF ClientIInv, ActionsWhole, Whole
<1>2. CASE \E l \in Lengths : Announces(l)
  <2>1. PICK l \in Lengths : Announces(l)
    BY <1>2
  <2>2. log \in Log /\ log.len \in Seq(Lengths) /\ log.begun \in Nat /\ Len(log.len) = log.begun
    BY DEF ClientIInv, Log
  <2>3. /\ log'.good = log.good /\ log'.len = Append(log.len, l) /\ log'.begun = log.begun + 1
        /\ log'.lost = log.lost /\ log'.cut = log.cut /\ log'.risk = log.risk
    BY <2>1, <2>2 DEF Log, Announces
  <2>4. log' \in Log /\ Len(log'.len) = log'.begun
    <3>1. Append(log.len, l) \in Seq(Lengths) /\ Len(Append(log.len, l)) = log.begun + 1
      BY <2>1, <2>2, Announced
    <3>2. ASSUME NEW t \in Seq(Lengths), NEW n \in Nat
          PROVE  [log EXCEPT !.begun = n, !.len = t] \in Log
      BY <2>2 DEF Log
    <3>3. log.begun + 1 \in Nat
      BY <2>2
    <3>4. log' \in Log
      BY <2>1, <3>1, <3>2, <3>3, Zenon DEF Announces
    <3> QED BY <2>3, <3>1, <3>4
  <2>5. FilesOK(disk', log'.good, log'.lost, log'.len)
    BY <2>1, <2>2, <2>3, LaterFiles DEF ClientIInv
  <2>6. TableOK(m', disk'.conf, log'.good, log'.begun, log'.cut, log'.risk)
    BY <2>2, <2>3, TableLater DEF ClientIInv
  <2>7. ActionsWhole'
    <3>1. ASSUME NEW a \in acts'
          PROVE  \E id \in 1..log'.begun :
                     "action" \in DOMAIN log'.len[id] /\ a = Whole(id, "action")'
      <4>1. PICK id \in 1..log.begun : "action" \in DOMAIN log.len[id] /\ a = Whole(id, "action")
        BY DEF ClientIInv, ActionsWhole
      <4>2. id \in 1..log'.begun /\ log'.len[id] = log.len[id]
        BY <2>1, <2>2, <2>3, Announced
      <4> QED BY <4>1, <4>2 DEF Whole
    <3> QED BY <3>1 DEF ActionsWhole
  <2> QED BY <2>3, <2>4, <2>5, <2>6, <2>7 DEF ClientIInv
<1> QED BY <1>1, <1>2

\* A step of one client that writes no file and gives no trigger an action.
LEMMA ClientStep ==
    ASSUME ClientIInv, NEW o \in Client, NEW s, NEW q,
           c' = [c EXCEPT ![o] = s], peer' = [peer EXCEPT ![o] = q],
           UNCHANGED <<m, disk, acts>>,
           UNCHANGED log \/ \E l \in Lengths : Announces(l),
           ObjectOK(s, q, log'.len)
    PROVE  ClientIInv'
<1>1. /\ m' \in Manager /\ disk' \in Disk /\ log' \in Log /\ Len(log'.len) = log'.begun
      /\ log'.len = log.len \/ \E l \in Lengths : log'.len = Append(log.len, l)
      /\ FilesOK(disk', log'.good, log'.lost, log'.len)
      /\ TableOK(m', disk'.conf, log'.good, log'.begun, log'.cut, log'.risk)
      /\ ActionsWhole'
  BY RestStays
<1>2. /\ c' \in [Client -> Object] /\ peer' \in [Client -> Sender]
      /\ \A x \in Client : ObjectOK(c'[x], peer'[x], log'.len)
  BY <1>1, OneObject
<1> QED BY <1>1, <1>2 DEF ClientIInv

-----------------------------------------------------------------------------
(* What the handlers do to one object. *)

LEMMA Nobody ==
    /\ NoBuf \in Buf /\ NoPeer \in Sender /\ NoPeer.id = Nothing
    /\ \A f \in Kinds : NoPeer.next[f] = 1
    /\ NoWrite \in Write /\ NoWrite.buf = [f \in Files |-> NoBuf]
    /\ NewClient \in Object /\ NewClient.write = NoWrite /\ NewClient.action = NoBuf
BY DEF NoBuf, Buf, NoPeer, Sender, Kinds, Files, NoWrite, Write, NewClient, Object, Nothing

\* The flags, but for one that an upload under way needs.
LEMMA OtherFlags ==
    ASSUME NEW s, NEW q, NEW lens, ObjectOK(s, q, lens), NEW t \in Object,
           t.write = s.write, t.action = s.action, s.open => t.open
    PROVE  ObjectOK(t, q, lens)
BY DEF ObjectOK, UploadOK, ActionOK

\* A client that is refused or gone sends nothing more.
LEMMA Silenced ==
    ASSUME NEW s, NEW q, NEW lens, ObjectOK(s, q, lens)
    PROVE  ObjectOK(s, NoPeer, lens)
BY Nobody DEF ObjectOK, UploadOK, ActionOK, GoesOn

\* The buffers of an upload are freed.
LEMMA UploadFreed ==
    ASSUME NEW s, NEW q, NEW lens, ObjectOK(s, q, lens), NEW t \in Object,
           t.write.buf = [f \in Files |-> NoBuf], t.action = s.action
    PROVE  ObjectOK(t, q, lens)
BY DEF ObjectOK, UploadOK, ActionOK

\* The buffer of an action is.
LEMMA ActionFreed ==
    ASSUME NEW s, NEW q, NEW lens, ObjectOK(s, q, lens), NEW t \in Object,
           t.write = s.write, t.action = NoBuf, t.open = s.open
    PROVE  ObjectOK(t, q, lens)
BY DEF ObjectOK, UploadOK, ActionOK, NoBuf

\* A new object.
LEMMA NewObject == ASSUME NEW lens PROVE ObjectOK(NewClient, NoPeer, lens)
BY Nobody DEF ObjectOK, UploadOK, ActionOK, NoBuf

-----------------------------------------------------------------------------
(* The steps. *)

LEMMA InitClientIInv == ClientInit => ClientIInv
<1> SUFFICES ASSUME ClientInit PROVE ClientIInv
  OBVIOUS
<1>1. c \in [Client -> Object] /\ peer \in [Client -> Sender]
  BY Nobody DEF ClientInit
<1>2. EmptyTable \in Table /\ \A p \in Path : EmptyTable[p] = NoInfo
  BY DEF EmptyTable, Table, Info
<1>3. m \in Manager /\ disk \in Disk /\ log \in Log /\ Len(log.len) = log.begun
  <2>1. m \in Manager
    BY <1>2 DEF ClientInit, Loaded, Manager
  <2>2. disk \in Disk
    BY <1>2 DEF ClientInit, Disk
  <2>3. log \in Log /\ Len(log.len) = log.begun
    BY DEF ClientInit, Log, Nothing
  <2> QED BY <2>1, <2>2, <2>3
<1>4. \A o \in Client : ObjectOK(c[o], peer[o], log.len)
  BY NewObject DEF ClientInit
<1>5. FilesOK(disk, log.good, log.lost, log.len)
  BY DEF ClientInit, FilesOK, Stored, Nothing
<1>6. TableOK(m, disk.conf, log.good, log.begun, log.cut, log.risk)
  BY <1>2 DEF ClientInit, TableOK, Loaded, NoInfo, Nothing
<1>7. ActionsWhole
  BY DEF ClientInit, ActionsWhole
<1> QED BY <1>1, <1>3, <1>4, <1>5, <1>6, <1>7 DEF ClientIInv

LEMMA OpenKeeps == ASSUME ClientIInv, NEW o \in Client, open(o) PROVE ClientIInv'
<1> DEFINE s == [c[o] EXCEPT !.open = TRUE]
<1>1. c \in [Client -> Object] /\ peer \in [Client -> Sender] /\ ObjectOK(c[o], peer[o], log.len)
  BY DEF ClientIInv
<1>2. s \in Object /\ s.write = c[o].write /\ s.action = c[o].action /\ s.open
  BY <1>1 DEF Object
<1>3. c' = [c EXCEPT ![o] = s] /\ peer' = [peer EXCEPT ![o] = peer[o]]
  BY <1>1 DEF open
<1> HIDE DEF s
<1>4. ObjectOK(s, peer[o], log'.len) /\ UNCHANGED <<m, disk, acts>> /\ UNCHANGED log
  BY <1>1, <1>2, OtherFlags DEF open
<1> QED BY <1>3, <1>4, ClientStep

LEMMA LoginKeeps == ASSUME ClientIInv, NEW o \in Client, Login(o) PROVE ClientIInv'
<1> DEFINE s == [c[o] EXCEPT !.access = TRUE]
<1>1. c \in [Client -> Object] /\ peer \in [Client -> Sender] /\ ObjectOK(c[o], peer[o], log.len)
  BY DEF ClientIInv
<1>2. s \in Object /\ s.write = c[o].write /\ s.action = c[o].action /\ s.open = c[o].open
  BY <1>1 DEF Object
<1>3. c' = [c EXCEPT ![o] = s] /\ peer' = [peer EXCEPT ![o] = peer[o]]
  BY <1>1 DEF Login
<1> HIDE DEF s
<1>4. ObjectOK(s, peer[o], log'.len) /\ UNCHANGED <<m, disk, acts>> /\ UNCHANGED log
  BY <1>1, <1>2, OtherFlags DEF Login
<1> QED BY <1>3, <1>4, ClientStep

LEMMA CloseKeeps == ASSUME ClientIInv, NEW o \in Client, close(o) PROVE ClientIInv'
<1> DEFINE s == Closed(c[o])
<1>1. c \in [Client -> Object] /\ peer \in [Client -> Sender] /\ ObjectOK(c[o], peer[o], log.len)
  BY DEF ClientIInv
<1>2. s \in Object /\ s.write.buf = [f \in Files |-> NoBuf] /\ s.action = c[o].action
  BY <1>1, Nobody DEF Object, Write, Closed
<1>3. c' = [c EXCEPT ![o] = s] /\ peer' = [peer EXCEPT ![o] = NoPeer]
  BY <1>1 DEF close
<1> HIDE DEF s
<1>4. ObjectOK(s, NoPeer, log'.len) /\ UNCHANGED <<m, disk, acts>> /\ UNCHANGED log
  BY <1>1, <1>2, UploadFreed, Silenced DEF close
<1> QED BY <1>3, <1>4, ClientStep

\* A sender of files sends no action, and one of an action no file.
LEMMA OneKind ==
    ASSUME NEW l \in Lengths
    PROVE  /\ "action" \in DOMAIN l => l \in [{"action"} -> Nat] /\ \A f \in Files : f \notin DOMAIN l
           /\ \A f \in Files : f \in DOMAIN l => l \in [Files -> Nat] /\ "action" \notin DOMAIN l
BY DEF Lengths, Files

LEMMA UploadBegins ==
    ASSUME ClientIInv, NEW o \in Client, NEW p \in Path, NEW y \in Type, NEW l \in [Files -> Length],
           scriptWriteBegin(o, p, y, l)
    PROVE  ClientIInv'
<1>1. /\ c \in [Client -> Object] /\ peer \in [Client -> Sender]
      /\ ObjectOK(c[o], peer[o], log.len)
      /\ log \in Log /\ log.len \in Seq(Lengths) /\ log.begun \in Nat
      /\ Len(log.len) = log.begun
  BY DEF ClientIInv, Log
<1>2. UNCHANGED <<m, disk, acts>>
  BY DEF scriptWriteBegin
<1>3. CASE ~MayBegin(o, p, y)
  <2>1. c' = [c EXCEPT ![o] = c[o]] /\ peer' = [peer EXCEPT ![o] = NoPeer] /\ UNCHANGED log
    BY <1>1, <1>3 DEF scriptWriteBegin, Refused
  <2>2. ObjectOK(c[o], NoPeer, log'.len)
    BY <1>1, <2>1, Silenced
  <2> QED BY <1>2, <2>1, <2>2, ClientStep
<1>4. CASE MayBegin(o, p, y)
  <2> DEFINE id == log.begun + 1
             b == [f \in Files |-> NewBuf(l[f])]
             w == [path |-> p, type |-> y, name |-> id, buf |-> b]
             s == [c[o] EXCEPT !.write = w]
             q == [NoPeer EXCEPT !.id = id]
             t == Append(log.len, l)
  <2>1. /\ c' = [c EXCEPT ![o] = s] /\ peer' = [peer EXCEPT ![o] = q] /\ Announces(l)
        /\ c[o].open
    BY <1>1, <1>4 DEF scriptWriteBegin, Begun, Announces, Served
  <2>2. l \in [Files -> Nat] /\ l \in Lengths
    BY DEF Lengths
  <2>3. /\ t \in Seq(Lengths) /\ id \in DOMAIN t /\ t[id] = l /\ DOMAIN log.len \subseteq DOMAIN t
        /\ \A i \in DOMAIN log.len : t[i] = log.len[i]
    BY <1>1, <2>2, Announced
  <2>4. log'.len = t
    BY <1>1, <2>1 DEF Announces, Log
  <2>5. /\ id \in Nat /\ id # Nothing /\ q \in Sender /\ q.id = id
        /\ \A f \in Files : q.next[f] = 1
    <3>1. id \in Nat /\ id # Nothing
      BY <1>1 DEF Nothing
    <3> HIDE DEF id
    <3>2. q \in Sender /\ q.id = id /\ q.next = NoPeer.next
      BY <3>1, Nobody DEF Sender
    <3> QED BY <3>1, <3>2, Nobody DEF Kinds
  <2>6. b \in [Files -> Buf] /\ \A f \in Files : b[f] = NewBuf(l[f])
    BY <2>2 DEF NewBuf, Buf
  <2>7. w \in Write
    BY <2>5, <2>6 DEF Write
  <2>8. /\ s \in Object /\ s.open /\ s.action = c[o].action
        /\ s.write.path = p /\ s.write.type = y /\ s.write.name = id /\ s.write.buf = b
    BY <1>1, <2>1, <2>7 DEF Object
  <2> HIDE DEF id, b, w, s, q, t
  <2>9. UploadOK(s, q, t)
    <3>1. ASSUME NEW f \in Files
          PROVE  /\ b[f].there /\ b[f].len = l[f] /\ Begins(b[f], id, f)
                 /\ GoesOn(b[f], q, id, f, t)
      <4>1. b[f].there /\ b[f].len = l[f] /\ b[f].data = <<>> /\ l[f] \in Nat
        BY <2>2, <2>6 DEF NewBuf
      <4>2. Bytes(id, f, 1, 0) = <<>>
        BY DEF Bytes
      <4>3. Begins(b[f], id, f)
        BY <4>1, <4>2 DEF Begins
      <4>4. GoesOn(b[f], q, id, f, t)
        BY <2>5, <4>1 DEF GoesOn
      <4> QED BY <4>1, <4>3, <4>4
    <3> QED BY <2>2, <2>3, <2>8, <3>1 DEF UploadOK
  <2>10. ActionOK(s, q, t)
    <3>1. SUFFICES ASSUME s.action.there PROVE ActionOK(s, q, t)
      BY DEF ActionOK
    <3>2. PICK i \in DOMAIN log.len : /\ "action" \in DOMAIN log.len[i]
                                      /\ s.action.len = log.len[i]["action"]
                                      /\ Begins(s.action, i, "action")
      BY <1>1, <2>8, <3>1 DEF ObjectOK, ActionOK
    <3>3. "action" \notin DOMAIN t[q.id]
      BY <2>2, <2>3, <2>5 DEF Files
    <3>4. i \in DOMAIN t /\ t[i] = log.len[i] /\ GoesOn(s.action, q, i, "action", t)
      BY <2>3, <3>2, <3>3 DEF GoesOn
    <3> QED BY <3>2, <3>4 DEF ActionOK
  <2>11. ObjectOK(s, q, log'.len)
    BY <2>3, <2>4, <2>5, <2>8, <2>9, <2>10 DEF ObjectOK
  <2> QED BY <1>2, <2>1, <2>2, <2>11, ClientStep
<1> QED BY <1>3, <1>4

\* Another piece of file f was sent.
Further(q, f, n) == [q EXCEPT !.next[f] = @ + n]

LEMMA FurtherSender ==
    ASSUME NEW q \in Sender, NEW f \in Kinds, NEW n \in Nat
    PROVE  /\ Further(q, f, n) \in Sender /\ Further(q, f, n).id = q.id
           /\ Further(q, f, n).next[f] = q.next[f] + n
           /\ \A g \in Kinds \ {f} : Further(q, f, n).next[g] = q.next[g]
BY DEF Sender, Further

\* The buffer is given the piece that comes next.
Joined(b, piece) == b.data \o piece

LEMMA PieceJoins ==
    ASSUME NEW b \in Buf, NEW id \in Nat, NEW f \in Kinds, NEW n \in Nat, Begins(b, id, f),
           NEW k \in Nat, k = Len(b.data) + 1
    PROVE  LET data == Joined(b, Bytes(id, f, k, n))
           IN  /\ data \in Seq(Byte) /\ Len(data) = Len(b.data) + n
               /\ data = Bytes(id, f, 1, Len(data))
<1> DEFINE data == b.data \o Bytes(id, f, Len(b.data) + 1, n)
           a == Len(b.data)
<1>1. a \in Nat /\ b.data \in Seq(Byte) /\ b.data = Bytes(id, f, 1, a)
  BY DEF Buf, Begins
<1>2. data = Bytes(id, f, 1, a + n) /\ data \in Seq(Byte) /\ Len(data) = a + n
  <2> HIDE DEF a
  <2>1. /\ Bytes(id, f, 1, a) \o Bytes(id, f, a + 1, n) = Bytes(id, f, 1, a + n)
        /\ a + n \in Nat
    <3>1. a + n \in Nat
      BY <1>1
    <3>2. a \in Nat
      BY <1>1
    <3> HIDE ClientAssumption
    <3>3. Bytes(id, f, 1, a) \o Bytes(id, f, a + 1, n) = Bytes(id, f, 1, a + n)
      BY <3>2 DEF Bytes
    <3> QED BY <3>1, <3>3
  <2>2. Bytes(id, f, 1, a + n) \in Seq(Byte) /\ Len(Bytes(id, f, 1, a + n)) = a + n
    BY <2>1, SomeBytes
  <2> QED BY <1>1, <2>1, <2>2 DEF a
<1> HIDE DEF data, a
<1> QED BY <1>2 DEF data, a, Joined

LEMMA PieceComes ==
    ASSUME ClientIInv, NEW o \in Client, NEW f \in Files, NEW n \in Piece, scriptAppend(o, f, n)
    PROVE  ClientIInv'
<1> DEFINE lens == log.len
           q == peer[o]
           r == Further(q, f, n)
           w == c[o].write
<1>1. /\ c \in [Client -> Object] /\ peer \in [Client -> Sender]
      /\ ObjectOK(c[o], q, lens) /\ lens \in Seq(Lengths)
      /\ c[o] \in Object /\ q \in Sender /\ n \in Nat /\ f \in Kinds
      /\ w \in Write /\ w.buf \in [Files -> Buf]
  BY DEF ClientIInv, Log, Object, Write, Kinds
<1>2. /\ q.id # Nothing /\ q.id \in DOMAIN lens /\ f \in DOMAIN lens[q.id]
      /\ peer' = [peer EXCEPT ![o] = r] /\ UNCHANGED <<m, disk, acts>> /\ UNCHANGED log
  BY <1>1 DEF scriptAppend, NextPiece, ObjectOK, Further
<1>3. /\ r \in Sender /\ r.id = q.id /\ r.next[f] = q.next[f] + n
      /\ \A g \in Kinds \ {f} : r.next[g] = q.next[g]
  BY <1>1, FurtherSender
<1>4. "action" \notin DOMAIN lens[q.id]
  <2>1. lens[q.id] \in Lengths
    BY <1>1, <1>2
  <2> QED BY <1>2, <2>1, OneKind
<1> HIDE DEF r
<1>5. \A s \in Object : s.action = c[o].action => ActionOK(s, r, lens)
  BY <1>1, <1>3, <1>4 DEF ObjectOK, ActionOK, GoesOn
<1>6. CASE w.buf = [g \in Files |-> NoBuf]
  <2>1. c' = [c EXCEPT ![o] = c[o]]
    <3>1. ~w.buf[f].there
      BY <1>6 DEF NoBuf
    <3> QED BY <1>1, <3>1 DEF scriptAppend
  <2>2. ObjectOK(c[o], r, lens)
    BY <1>1, <1>2, <1>3, <1>5, <1>6 DEF ObjectOK, UploadOK
  <2> QED BY <1>2, <2>1, <2>2, ClientStep
<1>7. CASE w.buf # [g \in Files |-> NoBuf]
  <2> DEFINE b == w.buf[f]
             data == Joined(b, Sent(o, f, n))
             s == [c[o] EXCEPT !.write = Appended(w, f, Sent(o, f, n))]
  <2>1. /\ c[o].open /\ w.path \in Path /\ w.type \in Type
        /\ w.name \in DOMAIN lens /\ lens[w.name] \in [Files -> Nat]
        /\ \A g \in Files : /\ w.buf[g].there /\ w.buf[g].len = lens[w.name][g]
                            /\ Begins(w.buf[g], w.name, g)
                            /\ GoesOn(w.buf[g], q, w.name, g, lens)
    BY <1>1, <1>7 DEF ObjectOK, UploadOK
  <2>2. q.id = w.name /\ q.next[f] = Len(b.data) + 1 /\ w.name \in Nat /\ b \in Buf
    BY <1>1, <1>2, <2>1 DEF GoesOn, Write
  <2>3. Sent(o, f, n) = Bytes(w.name, f, q.next[f], n)
    BY <2>2 DEF Sent
  <2>4. /\ data \in Seq(Byte) /\ Len(data) = Len(b.data) + n /\ Len(b.data) \in Nat
        /\ data = Bytes(w.name, f, 1, Len(data))
    <3>1. Begins(b, w.name, f) /\ Len(b.data) \in Nat
      BY <2>1, <2>2 DEF Buf
    <3> HIDE DEF b
    <3>2. w.name \in Nat /\ f \in Kinds /\ n \in Nat /\ b \in Buf /\ q.next[f] \in Nat
      BY <1>1, <2>2 DEF Sender
    <3>3. q.next[f] = Len(b.data) + 1
      BY <2>2
    <3> HIDE DEF q
    <3> QED BY <2>3, <3>1, <3>2, <3>3, PieceJoins
  <2>5. c' = [c EXCEPT ![o] = s]
    BY <1>1, <2>1 DEF scriptAppend
  <2>6. CASE Len(data) > b.len
    <3>1. s = [c[o] EXCEPT !.write = [w EXCEPT !.buf = NoWrite.buf]]
      BY <2>6 DEF Appended, Joined
    <3>2. [w EXCEPT !.buf = NoWrite.buf] \in Write
      BY <1>1, Nobody DEF Write
    <3>3. /\ s \in Object /\ s.action = c[o].action
          /\ s.write.buf = [g \in Files |-> NoBuf]
      BY <1>1, <3>1, <3>2, Nobody DEF Object, Write
    <3> HIDE DEF s
    <3>4. ObjectOK(s, r, lens)
      BY <1>2, <1>3, <1>5, <3>3 DEF ObjectOK, UploadOK
    <3> QED BY <1>2, <2>5, <3>4, ClientStep
  <2>7. CASE ~(Len(data) > b.len)
    <3> DEFINE d == [b EXCEPT !.data = data]
               u == [w EXCEPT !.buf = [w.buf EXCEPT ![f] = d]]
    <3>1. d \in Buf /\ d.there = b.there /\ d.len = b.len /\ d.data = data
      BY <2>2, <2>4 DEF Buf
    <3>2. s = [c[o] EXCEPT !.write = u]
      BY <1>1, <2>7 DEF Appended, Joined
    <3> HIDE DEF d, data
    <3>9. Len(d.data) = Len(b.data) + n /\ Len(d.data) <= d.len
      <4>1. Len(data) = Len(b.data) + n /\ Len(b.data) \in Nat /\ n \in Nat /\ b.len \in Nat
        BY <1>1, <2>2, <2>4 DEF Buf
      <4> HIDE DEF b
      <4> QED BY <2>7, <3>1, <4>1
    <3>3. Begins(d, w.name, f)
      BY <2>4, <3>1, <3>9 DEF Begins
    <3>4. /\ u \in Write /\ u.path = w.path /\ u.type = w.type /\ u.name = w.name
          /\ u.buf[f] = d /\ \A g \in Files \ {f} : u.buf[g] = w.buf[g]
      BY <1>1, <3>1 DEF Write
    <3> HIDE DEF u
    <3>5. s \in Object /\ s.write = u /\ s.action = c[o].action /\ s.open
      BY <1>1, <2>1, <3>2, <3>4 DEF Object
    <3> HIDE DEF s, b
    <3>6. ASSUME NEW g \in Files
          PROVE  /\ u.buf[g].there /\ u.buf[g].len = lens[u.name][g]
                 /\ Begins(u.buf[g], u.name, g) /\ GoesOn(u.buf[g], r, u.name, g, lens)
      <4>1. CASE g = f
        <5>1. r.id = w.name /\ r.next[f] = Len(d.data) + 1
          <6>1. Len(b.data) \in Nat /\ n \in Nat
            BY <1>1, <2>4
          <6> HIDE DEF q
          <6> QED BY <1>3, <2>2, <3>9, <6>1
        <5> QED BY <2>1, <3>1, <3>3, <3>4, <4>1, <5>1 DEF GoesOn, b
      <4>2. CASE g # f
        <5>1. u.buf[g] = w.buf[g] /\ r.next[g] = q.next[g]
          BY <1>3, <3>4, <4>2 DEF Kinds
        <5> QED BY <1>3, <2>1, <3>4, <5>1 DEF GoesOn
      <4> QED BY <4>1, <4>2
    <3>7. UploadOK(s, r, lens)
      BY <2>1, <3>4, <3>5, <3>6 DEF UploadOK
    <3>8. ObjectOK(s, r, lens)
      BY <1>2, <1>3, <1>5, <3>5, <3>7 DEF ObjectOK
    <3> QED BY <1>2, <2>5, <3>8, ClientStep
  <2> QED BY <2>6, <2>7
<1> QED BY <1>6, <1>7

-----------------------------------------------------------------------------
(* The end of an upload. *)

\* The buffers of one client are freed, and what the disk and the table hold is sound.
LEMMA SaveStep ==
    ASSUME ClientIInv, NEW o \in Client, NEW noted \in Log, Ended(o, noted),
           noted.len = log.len, noted.begun = log.begun, m' \in Manager, disk' \in Disk,
           FilesOK(disk', noted.good, noted.lost, log.len),
           TableOK(m', disk'.conf, noted.good, log.begun, noted.cut, noted.risk)
    PROVE  ClientIInv'
<1> DEFINE s == [c[o] EXCEPT !.write = [c[o].write EXCEPT !.buf = NoWrite.buf]]
<1>1. /\ c \in [Client -> Object] /\ peer \in [Client -> Sender]
      /\ ObjectOK(c[o], peer[o], log.len) /\ log \in Log
  BY DEF ClientIInv
<1>2. [c[o].write EXCEPT !.buf = NoWrite.buf] \in Write
  BY <1>1, Nobody DEF Object, Write
<1>3. s \in Object /\ s.action = c[o].action /\ s.write.buf = [f \in Files |-> NoBuf]
  BY <1>1, <1>2, Nobody DEF Object, Write
<1>4. c' = [c EXCEPT ![o] = s] /\ peer' = [peer EXCEPT ![o] = NoPeer]
  BY <1>1 DEF Ended
<1> HIDE DEF s
<1>5. /\ log' \in Log /\ log' = noted /\ log'.len = log.len /\ log'.begun = log.begun
      /\ acts' = acts
  BY <1>1 DEF Ended
<1>6. ObjectOK(s, NoPeer, log'.len)
  BY <1>1, <1>3, <1>5, UploadFreed, Silenced
<1>7. /\ c' \in [Client -> Object] /\ peer' \in [Client -> Sender]
      /\ \A x \in Client : ObjectOK(c'[x], peer'[x], log'.len)
  BY <1>4, <1>5, <1>6, OneObject
<1>8. ActionsWhole'
  BY <1>5 DEF ClientIInv, ActionsWhole, Whole
<1> QED BY <1>5, <1>7, <1>8 DEF ClientIInv

LEMMA NothingSavedKeeps == ASSUME ClientIInv, NEW o \in Client, NothingSaved(o) PROVE ClientIInv'
<1>1. Ended(o, log) /\ UNCHANGED <<m, disk>>
  BY DEF NothingSaved
<1>2. /\ m' \in Manager /\ disk' \in Disk /\ FilesOK(disk', log.good, log.lost, log.len)
      /\ TableOK(m', disk'.conf, log.good, log.begun, log.cut, log.risk)
  BY <1>1 DEF ClientIInv
<1>3. log \in Log
  BY DEF ClientIInv
<1> QED BY <1>1, <1>2, <1>3, SaveStep

\* What a write leaves is the beginning of a file, and all of it when it succeeds.
LEMMA WrittenIsStored ==
    ASSUME NEW lens \in Seq(Lengths), NEW f \in Files, NEW old \in Seq(Byte), Stored(old, f, lens),
           NEW id \in DOMAIN lens, lens[id] \in [Files -> Nat],
           NEW data, data = Bytes(id, f, 1, lens[id][f]), NEW a \in Written(old, data)
    PROVE  /\ a.data \in Seq(Byte) /\ Stored(a.data, f, lens)
           /\ a.ok \in BOOLEAN /\ a.closed \in BOOLEAN
           /\ a.ok /\ a.closed => a.data = data
<1> DEFINE n == lens[id][f]
<1>1. n \in Nat /\ id \in Nat /\ f \in Kinds
  BY DEF Kinds
<1> HIDE DEF n
<1>2. data = Bytes(id, f, 1, n) /\ data \in Seq(Byte) /\ Len(data) = n
  BY <1>1, SomeBytes DEF n
<1>3. CASE a = [ok |-> TRUE, closed |-> TRUE, data |-> data]
  BY <1>1, <1>2, <1>3 DEF Stored, n
<1>4. CASE a = [ok |-> FALSE, closed |-> TRUE, data |-> old]
  BY <1>4
<1>5. CASE \E ok \in BOOLEAN, k \in 0..(Len(data) - 1) :
               a = [ok |-> ok, closed |-> ~ok, data |-> SubSeq(data, 1, k)]
  <2>1. PICK ok \in BOOLEAN, k \in 0..(Len(data) - 1) :
            a = [ok |-> ok, closed |-> ~ok, data |-> SubSeq(data, 1, k)]
    BY <1>5
  <2>2. k \in Nat /\ k \in 0..n /\ k <= n
    BY <1>1, <1>2, <2>1
  <2>3. /\ a.data = Bytes(id, f, 1, k)
        /\ a.ok \in BOOLEAN /\ a.closed \in BOOLEAN /\ ~(a.ok /\ a.closed)
    <3>1. SubSeq(Bytes(id, f, 1, n), 1, k) = Bytes(id, f, 1, k)
      BY <1>1, <2>2 DEF Bytes
    <3> QED BY <1>2, <2>1, <3>1
  <2>4. Bytes(id, f, 1, k) \in Seq(Byte) /\ Len(Bytes(id, f, 1, k)) = k
    BY <1>1, <2>2, SomeBytes
  <2> QED BY <2>2, <2>3, <2>4 DEF Stored, n
<1> QED BY <1>3, <1>4, <1>5 DEF Written

\* The files of one path are written; i is the upload answered "ok", if one was.
LEMMA OnePathStored ==
    ASSUME ClientIInv, NEW p \in Path, NEW h \in [Files -> Seq(Byte)],
           NEW i \in {Nothing} \cup DOMAIN log.len, NEW x, x.file = [disk.file EXCEPT ![p] = h],
           NEW lost, \A r \in Path \ {p} : r \in log.lost => r \in lost,
           \A f \in Files : Stored(h[f], f, log.len),
           i # Nothing => /\ log.len[i] \in [Files -> Nat]
                          /\ p \notin lost =>
                                 \A f \in Files : h[f] = Bytes(i, f, 1, log.len[i][f])
    PROVE  FilesOK(x, [log.good EXCEPT ![p] = i], lost, log.len)
<1>1. /\ disk.file \in [Path -> [Files -> Seq(Byte)]] /\ log.good \in [Path -> Nat]
      /\ FilesOK(disk, log.good, log.lost, log.len)
  BY DEF ClientIInv, Disk, Log
<1> DEFINE g == [log.good EXCEPT ![p] = i]
<1>2. x.file[p] = h /\ g[p] = i /\ \A r \in Path \ {p} : x.file[r] = disk.file[r] /\ g[r] = log.good[r]
  BY <1>1
<1> HIDE DEF g
<1>3. ASSUME NEW r \in Path
      PROVE  /\ \A f \in Files : Stored(x.file[r][f], f, log.len)
             /\ g[r] # Nothing =>
                    /\ g[r] \in DOMAIN log.len /\ log.len[g[r]] \in [Files -> Nat]
                    /\ r \notin lost =>
                           \A f \in Files : x.file[r][f] = Bytes(g[r], f, 1, log.len[g[r]][f])
  <2>1. CASE r = p
    BY <1>2, <2>1
  <2>2. CASE r # p
    <3>1. x.file[r] = disk.file[r] /\ g[r] = log.good[r] /\ (r \notin lost => r \notin log.lost)
      BY <1>2, <2>2
    <3> QED BY <1>1, <3>1 DEF FilesOK
  <2> QED BY <2>1, <2>2
<1>4. FilesOK(x, g, lost, log.len)
  BY <1>3 DEF FilesOK
<1> QED BY <1>4 DEF g

\* What is left of a type that is cut may be left of one already cut.
LEMMA CutTypes == ASSUME NEW y \in AnyType, NEW tens \in Tens PROVE CutType(y, tens) \in AnyType
<1>1. CASE y \in Type
  BY <1>1 DEF AnyType
<1>2. CASE y \notin Type
  <2>1. PICK z \in Type, ten \in Tens : y = CutType(z, ten)
    BY <1>2 DEF AnyType
  <2>2. z \in 0..255
    OBVIOUS
  <2>3. \E t \in Tens : CutType(y, tens) = CutType(z, t)
    <3>1. CASE ten = 10 /\ tens = 10
      <4>1. CutType(y, tens) = CutType(z, 100)
        BY <2>1, <2>2, <3>1 DEF CutType
      <4> QED BY <4>1 DEF Tens
    <3>2. CASE ten # 10 \/ tens # 10
      <4>1. CutType(y, tens) = 0
        <5>1. (ten = 10 \/ ten = 100 \/ ten = 1000) /\ (tens = 10 \/ tens = 100 \/ tens = 1000)
          BY DEF Tens
        <5> QED BY <2>1, <2>2, <3>2, <5>1 DEF CutType
      <4>2. CutType(z, 1000) = 0
        BY <2>2 DEF CutType
      <4> QED BY <4>1, <4>2 DEF Tens
    <3> QED BY <3>1, <3>2
  <2> QED BY <2>3 DEF AnyType
<1> QED BY <1>1, <1>2

\* What may be left of a table is a table, of the same names.
LEMMA CutTables ==
    ASSUME NEW t \in Table, NEW n \in Nat, \A p \in Path : t[p].name \in 0..n, NEW u \in CutFiles(t)
    PROVE  u \in Table /\ \A p \in Path : u[p].name \in 0..n
<1>1. NoInfo \in Info /\ NoInfo.name = 0
  BY DEF Info, NoInfo, Nothing
<1>2. ASSUME NEW s \in SomeLines(t)
      PROVE  s \in Table /\ \A p \in Path : s[p].name \in 0..n
  <2>1. PICK kept \in SUBSET LinesOf(t) : s = [p \in Path |-> IF p \in kept THEN t[p] ELSE NoInfo]
    BY DEF SomeLines
  <2>2. \A p \in Path : s[p] \in Info /\ s[p].name \in 0..n
    BY <1>1, <2>1 DEF Table
  <2> QED BY <2>1, <2>2 DEF Table
<1>3. CASE u \in SomeLines(t)
  BY <1>2, <1>3
<1>4. CASE u \notin SomeLines(t)
  <2>1. PICK s \in SomeLines(t), q \in LinesOf(t), tens \in Tens :
            u = [s EXCEPT ![q] = [t[q] EXCEPT !.type = CutType(@, tens)]]
    BY <1>4 DEF CutFiles
  <2> DEFINE e == [t[q] EXCEPT !.type = CutType(t[q].type, tens)]
  <2>2. q \in Path /\ t[q] \in [type : AnyType, name : Nat \ {0}]
    BY DEF LinesOf, Table, Info
  <2>3. e \in Info /\ e.name = t[q].name
    BY <2>2, CutTypes DEF Info
  <2>4. u = [s EXCEPT ![q] = e] /\ s \in Table /\ \A p \in Path : s[p].name \in 0..n
    BY <1>2, <2>1
  <2> HIDE DEF e
  <2> QED BY <2>2, <2>3, <2>4 DEF Table
<1> QED BY <1>3, <1>4

\* Path p is listed as upload i with type y, in table t and the table by type v.
LEMMA PathListed ==
    ASSUME ClientIInv, NEW p \in Path, NEW y \in Type, NEW i \in DOMAIN log.len, Admits(p, y)
    PROVE  LET x == Listed(p, y, i)
           IN  /\ x \in Manager /\ x.changed
               /\ TableOK(x, disk.conf, [log.good EXCEPT ![p] = i], log.begun, log.cut,
                          log.risk \ {p})
<1>1. /\ m \in Manager /\ m.info \in Table /\ m.ofType \in [AnyType -> SUBSET Path]
      /\ disk.conf \in Table /\ log.good \in [Path -> Nat] /\ log.len \in Seq(Lengths)
      /\ Len(log.len) = log.begun
      /\ TableOK(m, disk.conf, log.good, log.begun, log.cut, log.risk)
  BY DEF ClientIInv, Manager, Disk, Log
<1>2. i \in Nat \ {0} /\ i \in 0..log.begun
  BY <1>1
<1>15. y \in AnyType /\ m.info[p].type \in {NoType, y}
  BY DEF AnyType, Admits
<1> DEFINE e == [type |-> y, name |-> i]
           t == [m.info EXCEPT ![p] = e]
           v == [m.ofType EXCEPT ![y] = m.ofType[y] \cup {p}]
           x == Listed(p, y, i)
           g == [log.good EXCEPT ![p] = i]
           risk == log.risk \ {p}
<1>3. e \in Info /\ e.type = y /\ e.name = i
  BY <1>2, <1>15 DEF Info
<1> HIDE DEF e
<1>4. t \in Table /\ t[p] = e /\ \A q \in Path \ {p} : t[q] = m.info[q]
  BY <1>1, <1>3 DEF Table
<1>5. /\ v \in [AnyType -> SUBSET Path] /\ v[y] = m.ofType[y] \cup {p}
      /\ \A z \in AnyType \ {y} : v[z] = m.ofType[z]
  BY <1>1, <1>15
<1>6. g[p] = i /\ \A q \in Path \ {p} : g[q] = log.good[q] /\ (q \notin risk => q \notin log.risk)
  BY <1>1
<1>7. x = [m EXCEPT !.info = t, !.ofType = v, !.changed = TRUE]
  BY <1>1 DEF Listed, Manager, e
<1> HIDE DEF t, v, g, risk
<1>8. x \in Manager /\ x.info = t /\ x.ofType = v /\ x.changed
  BY <1>1, <1>4, <1>5, <1>7 DEF Manager
<1> HIDE DEF x
<1>9. \A z \in AnyType : v[z] = {q \in Path : t[q].type = z}
  <2>1. ASSUME NEW z \in AnyType PROVE v[z] = {q \in Path : t[q].type = z}
    <3>1. m.ofType[z] = {q \in Path : m.info[q].type = z}
      BY <1>1 DEF TableOK
    <3>4. z # NoType
      <4>1. z \in Nat
        <5>1. ASSUME NEW a \in Type, NEW ten \in Tens PROVE CutType(a, ten) \in Nat
          <6>1. a \in Nat /\ ten \in Nat \ {0}
            BY DEF Tens
          <6> QED BY <6>1 DEF CutType
        <5> QED BY <5>1 DEF AnyType
      <4> QED BY <4>1 DEF NoType
    <3>2. ASSUME NEW q \in Path PROVE q \in v[z] <=> t[q].type = z
      <4>1. CASE q = p
        <5>1. t[q].type = y /\ (z = y => q \in v[z])
          BY <1>3, <1>4, <1>5, <4>1
        <5>2. z # y => q \notin m.ofType[z]
          BY <1>15, <3>1, <3>4, <4>1
        <5> QED BY <1>5, <5>1, <5>2
      <4>2. CASE q # p
        <5>1. t[q] = m.info[q] /\ (q \in v[z] <=> q \in m.ofType[z])
          BY <1>4, <1>5, <4>2
        <5> QED BY <3>1, <5>1
      <4> QED BY <4>1, <4>2
    <3>3. v[z] \subseteq Path
      BY <1>5
    <3> QED BY <3>2, <3>3
  <2> QED BY <2>1
<1>10. \A q \in Path : /\ g[q] # Nothing /\ q \notin risk => t[q].name = g[q]
                       /\ t[q].name \in 0..log.begun
                       /\ log.cut \/ disk.conf[q].type \in {NoType, t[q].type}
                       /\ disk.conf[q].name \in 0..log.begun
  <2>1. ASSUME NEW q \in Path
        PROVE  /\ log.cut \/ disk.conf[q].type \in {NoType, m.info[q].type}
               /\ log.good[q] # Nothing /\ q \notin log.risk => m.info[q].name = log.good[q]
               /\ m.info[q].name \in 0..log.begun /\ disk.conf[q].name \in 0..log.begun
    BY <1>1 DEF TableOK
  <2> QED BY <1>2, <1>3, <1>4, <1>6, <1>15, <2>1
<1>11. TableOK(x, disk.conf, g, log.begun, log.cut, risk)
  BY <1>8, <1>9, <1>10 DEF TableOK
<1> QED BY <1>8, <1>11 DEF x, g, risk

\* The table's file is written, or a part of it, or nothing.
LEMMA TableSaved ==
    ASSUME ClientIInv, NEW x \in Manager, NEW g, NEW risk,
           TableOK(x, disk.conf, g, log.begun, log.cut, risk), NEW r \in Saved(x)
    PROVE  /\ r.m \in Manager /\ r.conf \in Table /\ r.cut \in BOOLEAN
           /\ TableOK(r.m, r.conf, g, log.begun, r.cut, risk)
           /\ r.m.info = x.info
<1>1. disk.conf \in Table /\ log.cut \in BOOLEAN /\ log.begun \in Nat /\ x.info \in Table
  BY DEF ClientIInv, Disk, Log, Manager
<1> DEFINE y == [x EXCEPT !.changed = FALSE]
<1>2. y \in Manager /\ y.info = x.info /\ y.ofType = x.ofType
  BY DEF Manager
<1>3. \A p \in Path : x.info[p].name \in 0..log.begun
  BY DEF TableOK
<1> HIDE DEF y
<1>4. CASE r = Kept(x)
  BY <1>1, <1>4 DEF Kept
<1>5. CASE r = [m |-> y, conf |-> x.info, cut |-> FALSE]
  <2>1. TableOK(y, x.info, g, log.begun, FALSE, risk)
    BY <1>2 DEF TableOK
  <2> QED BY <1>1, <1>2, <1>5, <2>1
<1>6. CASE \E t \in CutFiles(x.info) : r = [m |-> y, conf |-> t, cut |-> TRUE]
  <2>1. PICK t \in CutFiles(x.info) : r = [m |-> y, conf |-> t, cut |-> TRUE]
    BY <1>6
  <2>2. t \in Table /\ \A p \in Path : t[p].name \in 0..log.begun
    BY <1>1, <1>3, CutTables
  <2>3. TableOK(y, t, g, log.begun, TRUE, risk)
    BY <1>2, <2>2 DEF TableOK
  <2> QED BY <1>2, <2>1, <2>2, <2>3
<1> QED BY <1>4, <1>5, <1>6 DEF Saved, y

\* What is noted when the answer is a failure.
LEMMA RefusalNoted ==
    ASSUME log \in Log, NEW p \in Path
    PROVE  LET noted == Refusing(p)
           IN  /\ noted \in Log /\ noted.good = [log.good EXCEPT ![p] = Nothing]
               /\ noted.len = log.len /\ noted.begun = log.begun
               /\ noted.lost = log.lost /\ noted.cut = log.cut /\ noted.risk = log.risk
<1> DEFINE torn == [log.good EXCEPT ![p] = Nothing]
           noted == Refusing(p)
<1>1. torn \in [Path -> Nat] /\ noted = [log EXCEPT !.good = torn]
  BY DEF Refusing, Log, Nothing
<1> HIDE DEF torn, noted
<1>2. /\ noted \in Log /\ noted.good = torn /\ noted.len = log.len /\ noted.begun = log.begun
      /\ noted.lost = log.lost /\ noted.cut = log.cut /\ noted.risk = log.risk
  BY <1>1 DEF Log
<1> QED BY <1>2 DEF torn, noted

\* An upload whose write is noticed to fail, or that is not listed.
LEMMA UploadRefused ==
    ASSUME ClientIInv, NEW o \in Client, NEW p \in Path, NEW h \in [Files -> Seq(Byte)],
           \A f \in Files : Stored(h[f], f, log.len), disk' \in Disk,
           disk'.file = [disk.file EXCEPT ![p] = h], disk'.conf = disk.conf,
           UNCHANGED m, Ended(o, Refusing(p))
    PROVE  ClientIInv'
<1> DEFINE noted == Refusing(p)
           torn == [log.good EXCEPT ![p] = Nothing]
<1>1. log \in Log /\ log.good \in [Path -> Nat] /\ m \in Manager
  BY DEF ClientIInv, Log
<1>2. /\ noted \in Log /\ noted.good = torn /\ noted.len = log.len /\ noted.begun = log.begun
      /\ noted.lost = log.lost /\ noted.cut = log.cut /\ noted.risk = log.risk
  BY <1>1, RefusalNoted
<1>3. FilesOK(disk', torn, log.lost, log.len)
  BY OnePathStored
<1>4. TableOK(m', disk'.conf, torn, log.begun, log.cut, log.risk)
  <2>1. \A q \in Path : torn[q] # Nothing => torn[q] = log.good[q]
    BY <1>1
  <2>2. TableOK(m, disk.conf, log.good, log.begun, log.cut, log.risk)
    BY DEF ClientIInv
  <2> HIDE DEF torn
  <2> QED BY <2>1, <2>2 DEF TableOK
<1> HIDE DEF noted, torn
<1>5. Ended(o, noted) /\ m' \in Manager
  BY <1>1 DEF noted
<1> QED BY <1>2, <1>3, <1>4, <1>5, SaveStep

\* An upload that is listed and answered "ok", though it may not be closed.
LEMMA UploadAnswered ==
    ASSUME ClientIInv, NEW o \in Client, NEW p \in Path, NEW h \in [Files -> Seq(Byte)],
           NEW i \in DOMAIN log.len, log.len[i] \in [Files -> Nat], NEW y \in Type, Admits(p, y),
           \A f \in Files : Stored(h[f], f, log.len), NEW closed \in BOOLEAN,
           closed => \A f \in Files : h[f] = Bytes(i, f, 1, log.len[i][f]),
           NEW r \in Saved(Listed(p, y, i)),
           m' = r.m, disk' = [disk EXCEPT !.file = [disk.file EXCEPT ![p] = h], !.conf = r.conf],
           Ended(o, Answering(p, i, closed, r.cut))
    PROVE  ClientIInv'
<1> DEFINE x == Listed(p, y, i)
           g == [log.good EXCEPT ![p] = i]
           risk == log.risk \ {p}
           cut == r.cut
           noted == Answering(p, i, closed, cut)
<1>1. /\ log \in Log /\ log.good \in [Path -> Nat] /\ log.len \in Seq(Lengths)
      /\ disk \in Disk /\ disk.file \in [Path -> [Files -> Seq(Byte)]] /\ i \in Nat
  BY DEF ClientIInv, Log, Disk
<1>2. x \in Manager /\ TableOK(x, disk.conf, g, log.begun, log.cut, risk)
  BY PathListed
<1> HIDE DEF x, g, risk
<1>3. /\ r.m \in Manager /\ r.conf \in Table /\ cut \in BOOLEAN
      /\ TableOK(r.m, r.conf, g, log.begun, cut, risk)
  BY <1>2, TableSaved DEF x
<1> HIDE DEF cut
<1>4. /\ noted \in Log /\ noted.good = g /\ noted.len = log.len /\ noted.begun = log.begun
      /\ noted.cut = cut /\ noted.risk = risk /\ (p \notin noted.lost => closed)
      /\ \A q \in Path \ {p} : q \in log.lost => q \in noted.lost
  <2> DEFINE lost == IF closed THEN log.lost \ {p} ELSE log.lost \cup {p}
  <2>1. g \in [Path -> Nat] /\ lost \in SUBSET Path /\ risk \in SUBSET Path
    BY <1>1 DEF g, risk, Log
  <2>2. noted = [log EXCEPT !.good = g, !.cut = cut, !.risk = risk, !.lost = lost]
    BY <1>1 DEF Answering, Log, g, risk
  <2>3. (p \notin lost => closed) /\ \A q \in Path \ {p} : q \in log.lost => q \in lost
    OBVIOUS
  <2> HIDE DEF lost, noted
  <2>4. /\ noted \in Log /\ noted.good = g /\ noted.len = log.len /\ noted.begun = log.begun
        /\ noted.cut = cut /\ noted.risk = risk /\ noted.lost = lost
    BY <1>1, <1>3, <2>1, <2>2 DEF Log
  <2> QED BY <2>3, <2>4
<1>5. disk' \in Disk /\ disk'.file = [disk.file EXCEPT ![p] = h] /\ disk'.conf = r.conf
  <2>1. [disk.file EXCEPT ![p] = h] \in [Path -> [Files -> Seq(Byte)]]
    BY <1>1
  <2> QED BY <1>1, <1>3, <2>1 DEF Disk
<1> HIDE DEF noted
<1>6. FilesOK(disk', g, noted.lost, log.len)
  BY <1>4, <1>5, OnePathStored DEF g
<1>7. Ended(o, noted) /\ m' = r.m
  BY DEF noted, cut
<1> QED BY <1>3, <1>4, <1>5, <1>6, <1>7, SaveStep

LEMMA UploadSaved == ASSUME ClientIInv, NEW o \in Client, scriptWriteSave(o) PROVE ClientIInv'
<1> DEFINE w == c[o].write
           p == w.path
           lens == log.len
           data(f) == w.buf[f].data
<1>1. /\ c[o] \in Object /\ ObjectOK(c[o], peer[o], lens) /\ lens \in Seq(Lengths)
      /\ disk \in Disk /\ FilesOK(disk, log.good, log.lost, lens)
  BY DEF ClientIInv, Log
<1>2. (\A f \in Files : w.buf[f].there) /\ Complete(w)
  BY DEF scriptWriteSave
<1>3. /\ p \in Path /\ w.type \in Type /\ w.name \in DOMAIN lens
      /\ lens[w.name] \in [Files -> Nat]
      /\ \A f \in Files : data(f) = Bytes(w.name, f, 1, lens[w.name][f])
  <2>1. w.buf # [f \in Files |-> NoBuf]
    BY <1>2 DEF NoBuf, Files
  <2>2. /\ p \in Path /\ w.type \in Type /\ w.name \in DOMAIN lens
        /\ lens[w.name] \in [Files -> Nat]
        /\ \A f \in Files : w.buf[f].len = lens[w.name][f] /\ Begins(w.buf[f], w.name, f)
    BY <1>1, <2>1 DEF ObjectOK, UploadOK
  <2>3. ASSUME NEW f \in Files PROVE data(f) = Bytes(w.name, f, 1, lens[w.name][f])
    BY <1>2, <2>2 DEF Begins, Complete
  <2> QED BY <2>2, <2>3
<1>4. /\ disk.file \in [Path -> [Files -> Seq(Byte)]] /\ disk.file[p] \in [Files -> Seq(Byte)]
      /\ \A f \in Files : Stored(disk.file[p][f], f, lens)
  BY <1>1, <1>3 DEF Disk, FilesOK
<1>5. ASSUME NEW f \in Files, NEW a \in Written(disk.file[p][f], data(f))
      PROVE  /\ a.data \in Seq(Byte) /\ Stored(a.data, f, lens)
             /\ a.ok \in BOOLEAN /\ a.closed \in BOOLEAN
             /\ a.ok /\ a.closed => a.data = Bytes(w.name, f, 1, lens[w.name][f])
  <2> DEFINE old == disk.file[p][f]
             all == data(f)
             id == w.name
  <2>1. /\ old \in Seq(Byte) /\ Stored(old, f, lens) /\ id \in DOMAIN lens
        /\ lens[id] \in [Files -> Nat] /\ all = Bytes(id, f, 1, lens[id][f])
        /\ lens \in Seq(Lengths) /\ a \in Written(old, all)
    BY <1>1, <1>3, <1>4, <1>5
  <2> HIDE DEF old, all, id, lens
  <2>2. /\ a.data \in Seq(Byte) /\ Stored(a.data, f, lens)
        /\ a.ok \in BOOLEAN /\ a.closed \in BOOLEAN
        /\ a.ok /\ a.closed => a.data = all
    BY <2>1, WrittenIsStored, SMTT(60)
  <2> QED BY <2>1, <2>2 DEF id
<1>6. PICK a \in Written(disk.file[p]["script"], data("script")) :
          IF ~a.ok
          THEN /\ disk' = [disk EXCEPT !.file[p]["script"] = a.data] /\ UNCHANGED m
               /\ Ended(o, Refusing(p))
          ELSE \E b \in Written(disk.file[p]["save"], data("save")) :
               LET both == [disk EXCEPT !.file[p] = [script |-> a.data, save |-> b.data]]
               IN  IF ~b.ok \/ ~Admits(p, w.type)
                   THEN disk' = both /\ UNCHANGED m /\ Ended(o, Refusing(p))
                   ELSE \E r \in Saved(Listed(p, w.type, w.name)) :
                        /\ disk' = [both EXCEPT !.conf = r.conf] /\ m' = r.m
                        /\ Ended(o, Answering(p, w.name, a.closed /\ b.closed, r.cut))
  BY DEF scriptWriteSave
<1>7. /\ a.data \in Seq(Byte) /\ Stored(a.data, "script", lens)
      /\ a.ok \in BOOLEAN /\ a.closed \in BOOLEAN
      /\ a.ok /\ a.closed => a.data = Bytes(w.name, "script", 1, lens[w.name]["script"])
  <2>1. "script" \in Files
    BY DEF Files
  <2> QED BY <1>5, <1>6, <2>1
<1>8. CASE ~a.ok
  <2> DEFINE h == [disk.file[p] EXCEPT !["script"] = a.data]
  <2>1. disk' = [disk EXCEPT !.file[p]["script"] = a.data] /\ UNCHANGED m /\ Ended(o, Refusing(p))
    BY <1>6, <1>8
  <2>2. h \in [Files -> Seq(Byte)] /\ \A f \in Files : Stored(h[f], f, lens)
    BY <1>4, <1>7 DEF Files
  <2>3. disk'.file = [disk.file EXCEPT ![p] = h] /\ disk'.conf = disk.conf /\ disk' \in Disk
    BY <1>1, <1>3, <1>4, <2>1, <2>2 DEF Disk
  <2> HIDE DEF h, w
  <2> QED BY <1>3, <2>1, <2>2, <2>3, UploadRefused
<1>9. CASE a.ok
  <2>1. PICK b \in Written(disk.file[p]["save"], data("save")) :
          LET both == [disk EXCEPT !.file[p] = [script |-> a.data, save |-> b.data]]
          IN  IF ~b.ok \/ ~Admits(p, w.type)
              THEN disk' = both /\ UNCHANGED m /\ Ended(o, Refusing(p))
              ELSE \E r \in Saved(Listed(p, w.type, w.name)) :
                   /\ disk' = [both EXCEPT !.conf = r.conf] /\ m' = r.m
                   /\ Ended(o, Answering(p, w.name, a.closed /\ b.closed, r.cut))
    BY <1>6, <1>9
  <2>2. /\ b.data \in Seq(Byte) /\ Stored(b.data, "save", lens)
        /\ b.ok \in BOOLEAN /\ b.closed \in BOOLEAN
        /\ b.ok /\ b.closed => b.data = Bytes(w.name, "save", 1, lens[w.name]["save"])
    <3>1. "save" \in Files
      BY DEF Files
    <3> QED BY <1>5, <2>1, <3>1
  <2> DEFINE h == [script |-> a.data, save |-> b.data]
             files == [disk.file EXCEPT ![p] = h]
             both == [disk EXCEPT !.file = files]
  <2>3. /\ h \in [Files -> Seq(Byte)] /\ \A f \in Files : Stored(h[f], f, lens)
        /\ h["script"] = a.data /\ h["save"] = b.data
    BY <1>7, <2>2 DEF Files
  <2>4. both = [disk EXCEPT !.file[p] = [script |-> a.data, save |-> b.data]]
    BY <1>1 DEF Disk
  <2> HIDE DEF h
  <2>5. both.file = files /\ both.conf = disk.conf /\ both \in Disk
    BY <1>1, <1>3, <1>4, <2>3 DEF Disk
  <2>6. CASE ~b.ok \/ ~Admits(p, w.type)
    <3>1. disk' = both /\ UNCHANGED m /\ Ended(o, Refusing(p))
      BY <2>1, <2>4, <2>6
    <3> HIDE DEF both, w
    <3> QED BY <1>3, <2>3, <2>5, <3>1, UploadRefused
  <2>7. CASE b.ok /\ Admits(p, w.type)
    <3> DEFINE closed == a.closed /\ b.closed
               y == w.type
               i == w.name
    <3> HIDE DEF files, both, closed
    <3>1. PICK r \in Saved(Listed(p, y, i)) :
              /\ disk' = [both EXCEPT !.conf = r.conf] /\ m' = r.m
              /\ Ended(o, Answering(p, i, closed, r.cut))
      BY <2>1, <2>4, <2>7 DEF closed
    <3>2. closed \in BOOLEAN /\ (closed => \A f \in Files : h[f] = Bytes(i, f, 1, lens[i][f]))
      BY <1>7, <1>9, <2>2, <2>3, <2>7 DEF closed, Files
    <3>3. disk' = [disk EXCEPT !.file = files, !.conf = r.conf]
      BY <1>1, <3>1 DEF both, Disk
    <3>4. /\ p \in Path /\ y \in Type /\ i \in DOMAIN lens /\ lens[i] \in [Files -> Nat]
          /\ Admits(p, y)
      BY <1>3, <2>7
    <3> HIDE DEF w, p, y, i
    <3> QED BY <2>3, <3>1, <3>2, <3>3, <3>4, UploadAnswered DEF files
  <2> QED BY <2>6, <2>7
<1> QED BY <1>8, <1>9

-----------------------------------------------------------------------------
(* The actions of triggers. *)

LEMMA ActionBegins ==
    ASSUME ClientIInv, NEW o \in Client, NEW n \in ActionLength, triggerActionReceiveBegin(o, n)
    PROVE  ClientIInv'
<1>1. /\ c \in [Client -> Object] /\ peer \in [Client -> Sender]
      /\ ObjectOK(c[o], peer[o], log.len)
      /\ log \in Log /\ log.len \in Seq(Lengths) /\ log.begun \in Nat
      /\ Len(log.len) = log.begun
  BY DEF ClientIInv, Log
<1>2. UNCHANGED <<m, disk, acts>>
  BY DEF triggerActionReceiveBegin
<1>3. CASE UNCHANGED c /\ Refused(o)
  <2>1. c' = [c EXCEPT ![o] = c[o]] /\ peer' = [peer EXCEPT ![o] = NoPeer] /\ UNCHANGED log
    BY <1>1, <1>3 DEF Refused
  <2>2. ObjectOK(c[o], NoPeer, log'.len)
    BY <1>1, <2>1, Silenced
  <2> QED BY <1>2, <2>1, <2>2, ClientStep
<1>4. CASE /\ c' = [c EXCEPT ![o].action = NewAction(@, n)]
           /\ Begun(o, log.begun + 1, [action |-> n])
  <2> DEFINE id == log.begun + 1
             l == [action |-> n]
             b == NewBuf(n)
             s == [c[o] EXCEPT !.action = b]
             q == [NoPeer EXCEPT !.id = id]
             t == Append(log.len, l)
  <2>1. c' = [c EXCEPT ![o] = s] /\ peer' = [peer EXCEPT ![o] = q] /\ Announces(l)
    BY <1>1, <1>4 DEF NewAction, Begun, Announces
  <2>2. l \in [{"action"} -> Nat] /\ l \in Lengths /\ l["action"] = n /\ n \in Nat
    <3>1. n \in Nat
      OBVIOUS
    <3>2. l \in [{"action"} -> Nat] /\ l["action"] = n
      BY <3>1
    <3> HIDE DEF l
    <3> QED BY <3>1, <3>2 DEF Lengths
  <2> HIDE DEF l
  <2>3. /\ t \in Seq(Lengths) /\ id \in DOMAIN t /\ t[id] = l /\ DOMAIN log.len \subseteq DOMAIN t
        /\ \A i \in DOMAIN log.len : t[i] = log.len[i]
    BY <1>1, <2>2, Announced
  <2>4. log'.len = t
    BY <1>1, <2>1 DEF Announces, Log
  <2>5. /\ id \in Nat /\ id # Nothing /\ q \in Sender /\ q.id = id /\ q.next["action"] = 1
    <3>1. id \in Nat /\ id # Nothing
      BY <1>1 DEF Nothing
    <3> HIDE DEF id
    <3>2. q \in Sender /\ q.id = id /\ q.next = NoPeer.next
      BY <3>1, Nobody DEF Sender
    <3> QED BY <3>1, <3>2, Nobody DEF Kinds
  <2>6. b \in Buf /\ b.there /\ b.len = n /\ b.data = <<>>
    BY <2>2 DEF NewBuf, Buf
  <2>7. s \in Object /\ s.action = b /\ s.open = c[o].open /\ s.write = c[o].write
    BY <1>1, <2>6 DEF Object
  <2> HIDE DEF id, b, s, q, t
  <2>8. UploadOK(s, q, t)
    <3>1. CASE s.write.buf = [f \in Files |-> NoBuf]
      BY <3>1 DEF UploadOK
    <3>2. CASE s.write.buf # [f \in Files |-> NoBuf]
      <4> DEFINE w == s.write
      <4>1. /\ s.open /\ w.path \in Path /\ w.type \in Type
            /\ w.name \in DOMAIN log.len /\ log.len[w.name] \in [Files -> Nat]
            /\ \A f \in Files : /\ w.buf[f].there /\ w.buf[f].len = log.len[w.name][f]
                                /\ Begins(w.buf[f], w.name, f)
        BY <1>1, <2>7, <3>2 DEF ObjectOK, UploadOK
      <4>2. \A f \in Files : f \notin DOMAIN t[q.id]
        BY <2>2, <2>3, <2>5 DEF Files
      <4>3. \A f \in Files : GoesOn(w.buf[f], q, w.name, f, t)
        BY <4>2 DEF GoesOn
      <4> QED BY <2>3, <4>1, <4>3 DEF UploadOK
    <3> QED BY <3>1, <3>2
  <2>9. ActionOK(s, q, t)
    <3>1. Bytes(id, "action", 1, 0) = <<>>
      BY DEF Bytes
    <3>2. Begins(b, id, "action") /\ GoesOn(b, q, id, "action", t)
      BY <2>2, <2>5, <2>6, <3>1 DEF Begins, GoesOn
    <3> QED BY <2>2, <2>3, <2>6, <2>7, <3>2 DEF ActionOK
  <2>10. ObjectOK(s, q, log'.len)
    BY <2>3, <2>4, <2>5, <2>7, <2>8, <2>9 DEF ObjectOK
  <2> QED BY <1>2, <2>1, <2>2, <2>10, ClientStep
<1> QED BY <1>3, <1>4 DEF triggerActionReceiveBegin

LEMMA ActionPieceComes ==
    ASSUME ClientIInv, NEW o \in Client, NEW n \in Piece, triggerActionReceiveAppend(o, n)
    PROVE  ClientIInv'
<1> DEFINE lens == log.len
           q == peer[o]
           r == Further(q, "action", n)
           b == c[o].action
<1>1. /\ c \in [Client -> Object] /\ peer \in [Client -> Sender]
      /\ ObjectOK(c[o], q, lens) /\ lens \in Seq(Lengths)
      /\ c[o] \in Object /\ q \in Sender /\ n \in Nat /\ "action" \in Kinds /\ b \in Buf
  BY DEF ClientIInv, Log, Object, Kinds
<1>2. /\ q.id # Nothing /\ q.id \in DOMAIN lens /\ "action" \in DOMAIN lens[q.id]
      /\ peer' = [peer EXCEPT ![o] = r] /\ UNCHANGED <<m, disk, acts>> /\ UNCHANGED log
  BY <1>1 DEF triggerActionReceiveAppend, NextPiece, ObjectOK, Further
<1>3. /\ r \in Sender /\ r.id = q.id /\ r.next["action"] = q.next["action"] + n
  BY <1>1, FurtherSender
<1>4. \A f \in Files : f \notin DOMAIN lens[q.id]
  <2>1. lens[q.id] \in Lengths
    BY <1>1, <1>2
  <2> QED BY <1>2, <2>1, OneKind
<1> HIDE DEF r
<1>5. \A s \in Object : s.write = c[o].write /\ s.open = c[o].open => UploadOK(s, r, lens)
  <2>1. ASSUME NEW s \in Object, s.write = c[o].write, s.open = c[o].open
        PROVE  UploadOK(s, r, lens)
    <3>1. \A f \in Files : \A id, a : GoesOn(a, r, id, f, lens)
      BY <1>3, <1>4 DEF GoesOn
    <3> QED BY <1>1, <2>1, <3>1 DEF ObjectOK, UploadOK
  <2> QED BY <2>1
<1>6. CASE ~b.there
  <2>1. c' = [c EXCEPT ![o] = c[o]]
    BY <1>1, <1>6 DEF triggerActionReceiveAppend
  <2>2. ObjectOK(c[o], r, lens)
    BY <1>1, <1>2, <1>3, <1>5, <1>6 DEF ObjectOK, ActionOK
  <2> QED BY <1>2, <2>1, <2>2, ClientStep
<1>7. CASE b.there
  <2> DEFINE data == Joined(b, Sent(o, "action", n))
             d == IF Len(data) > b.len THEN NoBuf ELSE [b EXCEPT !.data = data]
             s == [c[o] EXCEPT !.action = d]
  <2>1. c' = [c EXCEPT ![o] = s]
    BY <1>1, <1>7 DEF triggerActionReceiveAppend, Joined
  <2>2. PICK id \in DOMAIN lens : /\ "action" \in DOMAIN lens[id] /\ b.len = lens[id]["action"]
                                  /\ Begins(b, id, "action")
                                  /\ GoesOn(b, q, id, "action", lens)
    BY <1>1, <1>7 DEF ObjectOK, ActionOK
  <2>3. /\ q.id = id /\ q.next["action"] = Len(b.data) + 1 /\ id \in Nat
        /\ Len(b.data) \in Nat /\ q.next["action"] \in Nat /\ b.len \in Nat
    BY <1>1, <1>2, <2>2 DEF GoesOn, Buf, Sender
  <2>4. Sent(o, "action", n) = Bytes(id, "action", q.next["action"], n)
    BY <2>3 DEF Sent
  <2>5. /\ data \in Seq(Byte) /\ Len(data) = Len(b.data) + n
        /\ data = Bytes(id, "action", 1, Len(data))
    <3> HIDE DEF b, q
    <3> QED BY <1>1, <2>2, <2>3, <2>4, PieceJoins
  <2> HIDE DEF data
  <2>6. d \in Buf
    BY <1>1, <2>5, Nobody DEF Buf
  <2>7. d.there => /\ d.len = b.len /\ d.data = data /\ Len(data) <= b.len
    <3>1. CASE Len(data) > b.len
      BY <3>1 DEF NoBuf
    <3>2. CASE ~(Len(data) > b.len)
      <4>1. d = [b EXCEPT !.data = data] /\ Len(data) <= b.len
        BY <1>1, <2>3, <2>5, <3>2
      <4> QED BY <1>1, <4>1 DEF Buf
    <3> QED BY <3>1, <3>2
  <2> HIDE DEF d
  <2>8. s \in Object /\ s.action = d /\ s.write = c[o].write /\ s.open = c[o].open
    BY <1>1, <2>6 DEF Object
  <2> HIDE DEF s
  <2>9. ActionOK(s, r, lens)
    <3>1. SUFFICES ASSUME d.there PROVE ActionOK(s, r, lens)
      BY <2>8 DEF ActionOK
    <3>2. d.len = lens[id]["action"] /\ Begins(d, id, "action")
      BY <2>2, <2>5, <2>7, <3>1 DEF Begins
    <3>3. r.next["action"] = Len(d.data) + 1
      <4>1. d.data = data /\ Len(b.data) \in Nat /\ n \in Nat
        BY <1>1, <2>3, <2>7, <3>1
      <4> HIDE DEF q
      <4> QED BY <1>3, <2>3, <2>5, <4>1
    <3>4. GoesOn(d, r, id, "action", lens)
      BY <1>3, <2>3, <3>3 DEF GoesOn
    <3> QED BY <2>2, <2>8, <3>2, <3>4 DEF ActionOK
  <2>10. ObjectOK(s, r, lens)
    BY <1>2, <1>3, <1>5, <2>8, <2>9 DEF ObjectOK
  <2> QED BY <1>2, <2>1, <2>10, ClientStep
<1> QED BY <1>6, <1>7

LEMMA ActionGiven == ASSUME ClientIInv, NEW o \in Client, triggerActionCommit(o) PROVE ClientIInv'
<1> DEFINE b == c[o].action
           s == [c[o] EXCEPT !.action = NoBuf]
<1>1. /\ c \in [Client -> Object] /\ peer \in [Client -> Sender]
      /\ ObjectOK(c[o], peer[o], log.len) /\ log.len \in Seq(Lengths)
      /\ Len(log.len) = log.begun
  BY DEF ClientIInv, Log
<1>2. s \in Object /\ s.write = c[o].write /\ s.open = c[o].open /\ s.action = NoBuf
  BY <1>1, Nobody DEF Object
<1>3. /\ c' = [c EXCEPT ![o] = s] /\ peer' = [peer EXCEPT ![o] = NoPeer]
      /\ UNCHANGED <<m, disk>> /\ UNCHANGED log
  BY <1>1 DEF triggerActionCommit
<1> HIDE DEF s
<1>4. ObjectOK(s, NoPeer, log'.len)
  BY <1>1, <1>2, <1>3, ActionFreed, Silenced
<1>5. /\ c' \in [Client -> Object] /\ peer' \in [Client -> Sender]
      /\ \A x \in Client : ObjectOK(c'[x], peer'[x], log'.len)
  BY <1>3, <1>4, OneObject
<1>6. ActionsWhole'
  <2>1. ASSUME NEW a \in acts'
        PROVE  \E id \in 1..log.begun : "action" \in DOMAIN log.len[id] /\ a = Whole(id, "action")
    <3>1. CASE a \in acts
      BY <3>1 DEF ClientIInv, ActionsWhole
    <3>2. CASE a \notin acts
      <4>1. b.there /\ Len(b.data) = b.len /\ a = b.data
        BY <3>2 DEF triggerActionCommit
      <4>2. PICK id \in DOMAIN log.len : /\ "action" \in DOMAIN log.len[id]
                                         /\ b.len = log.len[id]["action"]
                                         /\ Begins(b, id, "action")
        BY <1>1, <4>1 DEF ObjectOK, ActionOK
      <4>3. a = Whole(id, "action") /\ id \in 1..log.begun
        BY <1>1, <4>1, <4>2 DEF Begins, Whole
      <4> QED BY <4>2, <4>3
    <3> QED BY <3>1, <3>2
  <2> QED BY <1>3, <2>1 DEF ActionsWhole, Whole
<1> QED BY <1>3, <1>5, <1>6 DEF ClientIInv

-----------------------------------------------------------------------------
(* The server is started again. *)

LEMMA RestartKeeps == ASSUME ClientIInv, Restart PROVE ClientIInv'
<1>1. PICK r \in Saved(m) :
          /\ disk' = [disk EXCEPT !.conf = r.conf] /\ m' = Loaded(r.conf)
          /\ log' = [log EXCEPT !.runs = @ + 1, !.cut = FALSE,
                                !.risk = IF r.cut \/ r.m.changed THEN Path ELSE @]
  BY DEF Restart
<1> DEFINE conf == r.conf
           risk == IF r.cut \/ r.m.changed THEN Path ELSE log.risk
<1>2. /\ m \in Manager /\ m.info \in Table /\ disk \in Disk /\ log \in Log
      /\ TableOK(m, disk.conf, log.good, log.begun, log.cut, log.risk)
      /\ FilesOK(disk, log.good, log.lost, log.len)
      /\ log.good \in [Path -> Nat] /\ log.runs \in Nat /\ log.risk \in SUBSET Path
  BY DEF ClientIInv, Manager, Disk, Log
<1>3. /\ r.m \in Manager /\ conf \in Table /\ r.m.info = m.info
      /\ TableOK(r.m, conf, log.good, log.begun, r.cut, log.risk)
  BY <1>1, <1>2, TableSaved
<1>4. disk' = [disk EXCEPT !.conf = conf] /\ m' = Loaded(conf)
  BY <1>1
<1>5. log' = [log EXCEPT !.runs = log.runs + 1, !.cut = FALSE, !.risk = risk]
  BY <1>1
<1>6. \A p \in Path : conf[p].name \in 0..log.begun
  BY <1>3 DEF TableOK
<1>7. risk \in SUBSET Path /\ \A p \in Path : p \notin risk => p \notin log.risk /\ conf = m.info
  BY <1>2, <1>3 DEF TableOK
<1> HIDE DEF conf, risk
<1>8. disk' \in Disk /\ disk'.file = disk.file /\ disk'.conf = conf
  BY <1>2, <1>3, <1>4 DEF Disk
<1>9. /\ log' \in Log /\ log'.good = log.good /\ log'.len = log.len /\ log'.begun = log.begun
      /\ log'.lost = log.lost /\ log'.cut = FALSE /\ log'.risk = risk
  <2>1. log.runs + 1 \in Nat
    BY <1>2
  <2> QED BY <1>2, <1>5, <1>7, <2>1 DEF Log
<1>10. m' \in Manager
  BY <1>3, <1>4 DEF Loaded, Manager
<1>11. FilesOK(disk', log'.good, log'.lost, log'.len)
  BY <1>2, <1>8, <1>9 DEF FilesOK
<1>12. TableOK(m', disk'.conf, log'.good, log'.begun, log'.cut, log'.risk)
  <2>1. \A p \in Path : log.good[p] # Nothing /\ p \notin risk => conf[p].name = log.good[p]
    BY <1>2, <1>7 DEF TableOK
  <2>2. m'.info = conf /\ \A y \in AnyType : m'.ofType[y] = {p \in Path : conf[p].type = y}
    BY <1>4 DEF Loaded
  <2> QED BY <1>6, <1>8, <1>9, <2>1, <2>2 DEF TableOK
<1>13. ActionsWhole'
  BY <1>9 DEF ClientIInv, ActionsWhole, Whole, Restart
<1>14. c' = [o \in Client |-> NewClient] /\ peer' = [o \in Client |-> NoPeer]
  BY DEF Restart
<1>15. /\ c' \in [Client -> Object] /\ peer' \in [Client -> Sender]
       /\ \A o \in Client : ObjectOK(c'[o], peer'[o], log'.len)
  BY <1>14, Nobody, NewObject
<1>16. Len(log'.len) = log'.begun
  BY <1>9 DEF ClientIInv
<1> QED BY <1>8, <1>9, <1>10, <1>11, <1>12, <1>13, <1>15, <1>16 DEF ClientIInv

-----------------------------------------------------------------------------
(* The theorems. *)

LEMMA ClientNextKeeps == ClientIInv /\ [ClientNext]_clientVars => ClientIInv'
<1> SUFFICES ASSUME ClientIInv, [ClientNext]_clientVars PROVE ClientIInv'
  OBVIOUS
<1>1. CASE UNCHANGED clientVars
  BY <1>1 DEF clientVars, ClientIInv, ActionsWhole, Whole
<1>2. ASSUME NEW o \in Client, open(o) \/ close(o) \/ Login(o) PROVE ClientIInv'
  BY <1>2, OpenKeeps, CloseKeeps, LoginKeeps
<1>3. ASSUME NEW o \in Client, Uploads(o) PROVE ClientIInv'
  BY <1>3, UploadBegins, PieceComes, NothingSavedKeeps, UploadSaved DEF Uploads
<1>4. ASSUME NEW o \in Client, Actions(o) PROVE ClientIInv'
  BY <1>4, ActionBegins, ActionPieceComes, ActionGiven DEF Actions
<1>5. CASE Restart
  BY <1>5, RestartKeeps
<1> QED BY <1>1, <1>2, <1>3, <1>4, <1>5 DEF ClientNext

LEMMA ClientInvariance == ClientSpec => []ClientIInv
BY InitClientIInv, ClientNextKeeps, PTL DEF ClientSpec

\* However uploads interleave, break off and fail to be written, a file on the disk is
\* the beginning of one client's file, and both files of an upload that was answered
\* "ok" are there whole, but for one that could not be closed, which the code does not
\* look at (RanaClient::scriptWriteBegin to scriptWriteSave, saveBuffToFile, close).
THEOREM UploadsFilesWhole == ClientSpec => []FilesWhole
BY ClientInvariance, IInvFiles, PTL

\* The table of scripts and the table by type agree, and the manager's file with both
\* while it is not cut and no change is noted; what was answered "ok" is listed until
\* the server is started again from a file that is cut or old
\* (RanaScriptManager::setScriptInfo, save, load).
THEOREM UploadsTableKept == ClientSpec => []TableKept
BY ClientInvariance, IInvTable, PTL

\* A trigger is given one whole action that a client sent, though its buffer outlives
\* the connection (RanaClient::triggerActionReceiveBegin to triggerActionCommit, close).
THEOREM ActionsGivenWhole == ClientSpec => []ActionsWhole
<1>1. ClientIInv => ActionsWhole
  BY DEF ClientIInv
<1> QED BY <1>1, ClientInvariance, PTL
================================================================================
