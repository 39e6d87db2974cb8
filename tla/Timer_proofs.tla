---------------------------- MODULE Timer_proofs ----------------------------
(***************************************************************************)
(* Proofs about Timer.tla, for every set of objects, handles and callbacks *)
(* and every choice of delays, intervals and clock bound.                  *)
(***************************************************************************)
EXTENDS Timer, TLAPS

USE NoneIsNil, TimesAreInts, MaxTimeIsNat

\* An armed handle was set up by AddTimer, carries a start_id already drawn
\* from the counter, and repeats as its closure believes.
ArmedInv ==
    \A h \in Handles : uv[h].armed =>
        /\ closure[h].obj \in Objects
        /\ uv[h].id < counter
        /\ uv[h].repeat = closure[h].interval

\* start_id tells armed handles apart.
DistinctIds ==
    \A h, k \in Handles :
        uv[h].armed /\ uv[k].armed /\ uv[h].id = uv[k].id => h = k

\* The deadline of an armed tick is the loop time at which it was posted: it
\* lies in the past, and it grows with start_id.
TickTimes ==
    /\ \A h \in Handles : IsTick(h) /\ uv[h].armed => uv[h].timeout <= now
    /\ \A h, k \in Handles :
          /\ IsTick(h) /\ uv[h].armed
          /\ IsTick(k) /\ uv[k].armed
          /\ uv[h].id < uv[k].id
          => uv[h].timeout <= uv[k].timeout

\* What was due when an armed timer was started is still armed, with a
\* deadline that is no later and an earlier start_id.
AheadInv ==
    \A h \in Handles : \A k \in ahead[h] : uv[h].armed =>
        /\ uv[k].armed
        /\ uv[k].timeout <= uv[h].timeout
        /\ uv[k].id < uv[h].id

IInv == TypeOK /\ Coherent /\ ArmedInv /\ DistinctIds /\ TickTimes /\ AheadInv

\* What Passed leaves of the history.
LEMMA PassedFacts ==
  ASSUME ahead \in [Handles -> SUBSET Handles], NEW S \in SUBSET Handles
  PROVE  /\ Passed(S) \in [Handles -> SUBSET Handles]
         /\ \A k \in Handles : \A l \in Passed(S)[k] :
               k \notin S /\ l \in ahead[k] /\ l \notin S
  BY DEF Passed

LEMMA InitIInv == Init => IInv
<1> SUFFICES ASSUME Init PROVE IInv
  OBVIOUS
<1> USE DEF Init, Stopped
<1>1. TypeOK
  BY DEF TypeOK, UvTimer, Closure
<1>2. Coherent /\ ArmedInv /\ DistinctIds /\ TickTimes /\ AheadInv
  BY DEF Coherent, ArmedInv, DistinctIds, TickTimes, IsTick, AheadInv
<1> QED
  BY <1>1, <1>2 DEF IInv

\* AddTimer keeps the invariant.
LEMMA AddTimerIInv ==
  ASSUME IInv, NEW o \in Objects, NEW d \in Int, NEW i \in Int,
         NEW f \in Funcs, NEW h \in Handles, AddTimer(o, d, i, f, h)
  PROVE  IInv'
<1> USE DEF AddTimer, ValidTimes, Started, IInv, Fresh
<1>1. d \in Nat /\ i \in Nat
  OBVIOUS
<1>2. TypeOK'
  BY <1>1 DEF TypeOK, UvTimer, Closure, Due
<1>3. Coherent'
  BY DEF Coherent, TypeOK, UvTimer, Closure, ArmedInv
<1>4. ArmedInv'
  BY DEF ArmedInv, TypeOK, UvTimer, Closure
<1>5. /\ \A k \in Handles \ {h} : uv'[k] = uv[k] /\ closure'[k] = closure[k]
      /\ uv'[h].id = counter /\ uv'[h].timeout = now + d
      /\ closure'[h].delay = d
      /\ \A k \in Handles : uv[k].armed \in BOOLEAN /\ uv[k].id \in Nat
                            /\ uv[k].timeout \in Nat
      /\ counter \in Nat /\ now \in Nat /\ now' = now
  BY <1>1 DEF TypeOK, UvTimer, Closure
<1>6. DistinctIds'
  <2> SUFFICES ASSUME NEW k \in Handles, NEW l \in Handles,
                      uv'[k].armed, uv'[l].armed, uv'[k].id = uv'[l].id
               PROVE  k = l
    BY DEF DistinctIds
  <2> QED
    BY <1>5 DEF DistinctIds, ArmedInv
<1>7. TickTimes'
  <2>1. \A k \in Handles \ {h} : IsTick(k)' <=> IsTick(k)
    BY <1>5 DEF IsTick
  <2>2. IsTick(h)' => uv'[h].timeout = now
    BY <1>1, <1>5 DEF IsTick
  <2>3. \A k \in Handles : IsTick(k)' /\ uv'[k].armed => uv'[k].timeout <= now
    BY <1>5, <2>1, <2>2 DEF TickTimes
  <2>4. ASSUME NEW k \in Handles, NEW l \in Handles,
               IsTick(k)', uv'[k].armed, IsTick(l)', uv'[l].armed,
               uv'[k].id < uv'[l].id
        PROVE  uv'[k].timeout <= uv'[l].timeout
    <3>1. CASE l = h
      BY <1>5, <2>2, <2>3, <2>4, <3>1
    <3>2. CASE l # h
      <4>1. k # h
        BY <1>5, <2>4, <3>2 DEF ArmedInv
      <4> QED
        BY <1>5, <2>1, <2>4, <3>2, <4>1 DEF TickTimes
    <3> QED
      BY <3>1, <3>2
  <2> QED
    BY <1>5, <2>3, <2>4 DEF TickTimes
<1>8. AheadInv'
  <2>1. /\ \A k \in Handles \ {h} : ahead'[k] = ahead[k]
        /\ \A k \in ahead'[h] : k # h /\ k \in Handles /\ Due(k)
        /\ ~uv[h].armed
    BY DEF TypeOK, Due, Coherent, ArmedInv, Closure
  <2> SUFFICES ASSUME NEW k \in Handles, NEW l \in ahead'[k], uv'[k].armed
               PROVE  /\ uv'[l].armed
                      /\ uv'[l].timeout <= uv'[k].timeout
                      /\ uv'[l].id < uv'[k].id
    BY DEF AheadInv
  <2>2. CASE k = h
    BY <1>1, <1>5, <2>1, <2>2 DEF Due, ArmedInv
  <2>3. CASE k # h
    <3>1. l \in ahead[k] /\ l \in Handles /\ uv[k].armed
      BY <1>5, <2>1, <2>3 DEF TypeOK
    <3>2. uv[l].armed /\ l # h
      BY <2>1, <3>1 DEF AheadInv
    <3> QED
      BY <1>5, <2>3, <3>1, <3>2 DEF AheadInv
  <2> QED
    BY <2>2, <2>3
<1> QED
  BY <1>2, <1>3, <1>4, <1>6, <1>7, <1>8

\* Removing timers of one object from its table keeps the invariant.
LEMMA RemoveIInv ==
  ASSUME IInv, NEW o \in Objects, NEW S \in SUBSET Handles,
         \A h \in S : table[o][h] # None, Remove(o, S)
  PROVE  IInv'
<1> USE DEF Remove, Stopped, IInv
<1>1. TypeOK'
  BY DEF TypeOK, UvTimer, Closure, Passed
<1>2. Coherent'
  BY DEF Coherent, TypeOK, UvTimer, Closure
<1>3. ArmedInv' /\ DistinctIds'
  BY DEF ArmedInv, DistinctIds, TypeOK, UvTimer, Closure
<1>4. TickTimes'
  BY DEF TickTimes, TypeOK, UvTimer, Closure, IsTick, Fresh
<1>5. AheadInv'
  BY DEF AheadInv, TypeOK, UvTimer, Passed
<1> QED
  BY <1>1, <1>2, <1>3, <1>4, <1>5

\* Popping a due timer keeps the invariant.
LEMMA RunTimerIInv ==
  ASSUME IInv, NEW h \in Handles, RunTimer(h)
  PROVE  IInv'
<1> DEFINE o == closure[h].obj
<1>1. /\ uv[h].armed /\ o \in Objects /\ closure[h].interval \in Nat
      /\ uv[h].repeat = closure[h].interval
      /\ counter \in Nat /\ now \in Nat /\ now' = now /\ closure' = closure
      /\ counter' \in {counter, counter + 1}
      /\ table[o][h] # None
  BY DEF RunTimer, IsFirst, IInv, ArmedInv, Coherent, TypeOK, UvTimer, Closure
<1>2. \A k \in Handles : uv[k] \in UvTimer /\ closure[k] \in Closure
  BY DEF IInv, TypeOK
<1>3. CASE closure[h].interval = 0
  <2>1. /\ uv' = [uv EXCEPT ![h] = Stopped]
        /\ table' = [table EXCEPT ![o][h] = None]
        /\ counter' = counter
        /\ ahead' = Passed({h})
    BY <1>1, <1>3 DEF RunTimer
  <2>2. TypeOK'
    <3>1. ahead' \in [Handles -> SUBSET Handles]
      BY <2>1, PassedFacts DEF IInv, TypeOK
    <3>2. uv' \in [Handles -> UvTimer]
      BY <2>1 DEF IInv, TypeOK, UvTimer, Stopped
    <3>3. table' \in [Objects -> [Handles -> Funcs \union {None}]]
      BY <2>1, <1>1 DEF IInv, TypeOK
    <3>4. /\ closure' \in [Handles -> Closure] /\ now' \in Nat /\ counter' \in Nat
          /\ served' \in Seq(Handles) /\ pc' \in {"poll", "timers", "callback"}
      BY <2>1, <1>1 DEF IInv, TypeOK, RunTimer
    <3> QED
      BY <3>1, <3>2, <3>3, <3>4 DEF TypeOK
  <2>3. Coherent'
    BY <2>1, <1>1 DEF IInv, TypeOK, Coherent, UvTimer, Closure, Stopped
  <2>4. ArmedInv' /\ DistinctIds'
    BY <2>1, <1>1 DEF IInv, TypeOK, ArmedInv, DistinctIds, UvTimer, Closure, Stopped
  <2>5. TickTimes'
    BY <2>1, <1>1 DEF IInv, TypeOK, TickTimes, UvTimer, Closure, Stopped, IsTick, Fresh
  <2>6. AheadInv'
    <3> SUFFICES ASSUME NEW k \in Handles, NEW l \in ahead'[k], uv'[k].armed
                 PROVE  /\ uv'[l].armed
                        /\ uv'[l].timeout <= uv'[k].timeout
                        /\ uv'[l].id < uv'[k].id
      BY DEF AheadInv
    <3>1. k # h /\ l # h /\ l \in ahead[k] /\ l \in Handles
      BY <2>1, PassedFacts DEF IInv, TypeOK
    <3>2. uv'[k] = uv[k] /\ uv'[l] = uv[l]
      BY <2>1, <3>1 DEF IInv, TypeOK
    <3> QED
      BY <3>1, <3>2 DEF IInv, AheadInv
  <2> QED
    BY <2>2, <2>3, <2>4, <2>5, <2>6 DEF IInv
<1>4. CASE closure[h].interval > 0
  <2>0. uv[h].repeat > 0 /\ closure[h].interval # 0
    BY <1>1, <1>4
  <2>1. /\ uv' = [uv EXCEPT ![h] = Started(uv[h].repeat, uv[h].repeat)]
        /\ table' = table
        /\ counter' = counter + 1
        /\ ahead' = [Passed({h}) EXCEPT ![h] = {k \in Handles \ {h} : Due(k)}]
    BY <2>0 DEF RunTimer, Started, Stopped
  <2>2. TypeOK'
    <3>1. uv' \in [Handles -> UvTimer]
      BY <2>1, <1>1, <1>2 DEF IInv, TypeOK, UvTimer, Started
    <3>2. served' \in Seq(Handles) /\ pc' \in {"poll", "timers", "callback"}
      BY DEF IInv, TypeOK, RunTimer
    <3>3. ahead' \in [Handles -> SUBSET Handles]
      <4>1. Passed({h}) \in [Handles -> SUBSET Handles]
        BY PassedFacts DEF IInv, TypeOK
      <4> QED
        BY <2>1, <4>1
    <3>4. /\ table' \in [Objects -> [Handles -> Funcs \union {None}]]
          /\ closure' \in [Handles -> Closure] /\ now' \in Nat /\ counter' \in Nat
      BY <2>1, <1>1 DEF IInv, TypeOK
    <3> QED
      BY <3>1, <3>2, <3>3, <3>4 DEF TypeOK
  <2>3. Coherent'
    BY <2>1, <1>1 DEF IInv, TypeOK, Coherent, UvTimer, Closure, Started
  <2>4. /\ \A k \in Handles \ {h} : uv'[k] = uv[k]
        /\ uv'[h].id = counter /\ uv'[h].repeat = closure[h].interval
        /\ \A k \in Handles : uv[k].armed \in BOOLEAN /\ uv[k].id \in Nat
                              /\ uv[k].timeout \in Nat
    BY <2>1, <1>1, <1>2 DEF IInv, TypeOK, UvTimer, Started
  <2>5. ArmedInv'
    BY <2>1, <2>4, <1>1 DEF IInv, ArmedInv
  <2>6. DistinctIds'
    <3> SUFFICES ASSUME NEW k \in Handles, NEW l \in Handles,
                        uv'[k].armed, uv'[l].armed, uv'[k].id = uv'[l].id
                 PROVE  k = l
      BY DEF DistinctIds
    <3> QED
      BY <1>1, <2>4 DEF IInv, DistinctIds, ArmedInv
  <2>7. TickTimes'
    <3>1. ~IsTick(h) /\ ~IsTick(h)'
      BY <1>1, <1>4 DEF IsTick
    <3>2. \A k \in Handles \ {h} : IsTick(k)' <=> IsTick(k)
      BY <1>1 DEF IsTick, Fresh
    <3> QED
      BY <1>1, <2>4, <3>1, <3>2 DEF IInv, TickTimes
  <2>8. AheadInv'
    <3> SUFFICES ASSUME NEW k \in Handles, NEW l \in ahead'[k], uv'[k].armed
                 PROVE  /\ uv'[l].armed
                        /\ uv'[l].timeout <= uv'[k].timeout
                        /\ uv'[l].id < uv'[k].id
      BY DEF AheadInv
    <3>1. CASE k = h
      <4>1. l \in Handles \ {h} /\ Due(l)
        BY <2>1, <3>1 DEF IInv, TypeOK, Passed
      <4>2. uv'[h].timeout = now + uv[h].repeat /\ uv[h].repeat \in Nat
        BY <2>1, <1>2 DEF IInv, TypeOK, Started, UvTimer
      <4> QED
        BY <1>1, <2>4, <3>1, <4>1, <4>2 DEF Due, IInv, ArmedInv
    <3>2. CASE k # h
      <4>1. l \in ahead[k] /\ l # h /\ l \in Handles /\ uv[k].armed
        BY <2>1, <2>4, <3>2 DEF IInv, TypeOK, Passed
      <4> QED
        BY <2>4, <3>2, <4>1 DEF IInv, AheadInv
    <3> QED
      BY <3>1, <3>2
  <2> QED
    BY <2>2, <2>3, <2>5, <2>6, <2>7, <2>8 DEF IInv
<1> QED
  BY <1>1, <1>3, <1>4

\* The remaining steps of uv_run touch only the clock and the phase.
LEMMA LoopIInv ==
  ASSUME IInv, UpdateTime \/ Return \/ EndTimers
  PROVE  IInv'
<1>1. /\ UNCHANGED <<table, uv, closure, counter, served, ahead>>
      /\ now \in Nat /\ now' \in Nat /\ now <= now'
      /\ pc' \in {"poll", "timers", "callback"}
  BY DEF UpdateTime, Return, EndTimers, IInv, TypeOK
<1>2. TypeOK' /\ Coherent' /\ ArmedInv' /\ DistinctIds' /\ AheadInv'
  BY <1>1 DEF IInv, TypeOK, Coherent, ArmedInv, DistinctIds, AheadInv
<1>3. \A h \in Handles : /\ IsTick(h)' <=> IsTick(h)
                         /\ uv[h].timeout \in Nat
  BY <1>1 DEF IsTick, Fresh, IInv, TypeOK, UvTimer
<1>4. TickTimes'
  BY <1>1, <1>3 DEF IInv, TickTimes
<1> QED
  BY <1>2, <1>4 DEF IInv

LEMMA NextIInv == IInv /\ [Next]_vars => IInv'
<1> SUFFICES ASSUME IInv, [Next]_vars PROVE IInv'
  OBVIOUS
<1>1. ASSUME NEW o \in Objects, NEW d \in Delays, NEW i \in Intervals,
             NEW f \in Funcs, NEW h \in Handles, AddTimer(o, d, i, f, h)
      PROVE  IInv'
  BY <1>1, AddTimerIInv
<1>2. ASSUME NEW o \in Objects, NEW f \in Funcs, NEW h \in Handles,
             NextTick(o, f, h)
      PROVE  IInv'
  BY <1>2, AddTimerIInv DEF NextTick
<1>3. ASSUME NEW o \in Objects, NEW h \in Handles, DelTimer(o, h)
      PROVE  IInv'
  BY <1>3, RemoveIInv DEF DelTimer
<1>4. ASSUME NEW o \in Objects, NEW f \in Funcs, DelTimerByName(o, f)
      PROVE  IInv'
  BY <1>4, RemoveIInv DEF DelTimerByName
<1>5. ASSUME NEW o \in Objects, DelAll(o)
      PROVE  IInv'
  BY <1>5, RemoveIInv DEF DelAll
<1>6. CASE User
  BY <1>1, <1>2, <1>3, <1>4, <1>5, <1>6 DEF User
<1>7. CASE Loop
  BY <1>7, RunTimerIInv, LoopIInv DEF Loop
<1>8. CASE UNCHANGED vars
  BY <1>8 DEF vars, IInv, TypeOK, Coherent, ArmedInv, DistinctIds, TickTimes,
              AheadInv, IsTick, Fresh
<1> QED
  BY <1>6, <1>7, <1>8 DEF Next

LEMMA SpecIInv == Spec => []IInv
  BY InitIInv, NextIInv, PTL DEF Spec

\* Every reachable state is well typed.
THEOREM TypeCorrect == Spec => []TypeOK
<1>1. IInv => TypeOK
  BY DEF IInv
<1> QED
  BY <1>1, SpecIInv, PTL

\* obj.__Timer and the armed handles of libuv agree in every reachable state:
\* a closure of timer.lua never reads a nil callback.
THEOREM TableMatchesLoop == Spec => []Coherent
<1>1. IInv => Coherent
  BY DEF IInv
<1> QED
  BY <1>1, SpecIInv, PTL

-----------------------------------------------------------------------------
(* Timer implements TickQueue.                                             *)

LEMMA AddTimerPosts ==
  ASSUME IInv, NEW o \in Objects, NEW d \in Int, NEW i \in Int,
         NEW f \in Funcs, NEW h \in Handles, AddTimer(o, d, i, f, h)
  PROVE  Ticks!Next
<1>1. /\ \A k \in Handles \ {h} : uv'[k] = uv[k] /\ closure'[k] = closure[k]
      /\ uv'[h].id = counter /\ uv'[h].armed
      /\ ~IsTick(h)
      /\ counter' = counter + 1 /\ served' = served
  BY DEF AddTimer, Started, IInv, TypeOK, IsTick
<1>2. \A k \in Handles \ {h} : IsTick(k)' <=> IsTick(k)
  BY <1>1 DEF IsTick, Fresh
<1>3. CASE IsTick(h)'
  <2>1. PendingTicks' = PendingTicks \union {<<counter, h>>}
    BY <1>1, <1>2, <1>3 DEF PendingTicks
  <2> QED
    BY <1>1, <2>1 DEF Ticks!Next, Ticks!Post
<1>4. CASE ~IsTick(h)'
  <2>1. PendingTicks' = PendingTicks
    BY <1>1, <1>2, <1>4 DEF PendingTicks
  <2> QED
    BY <1>1, <2>1 DEF Ticks!Next, Ticks!SkipNumber
<1> QED
  BY <1>3, <1>4

LEMMA RemoveWithdraws ==
  ASSUME IInv, NEW o \in Objects, NEW S \in SUBSET Handles, Remove(o, S)
  PROVE  Ticks!Next
<1>1. /\ \A k \in Handles : uv'[k].armed => uv'[k] = uv[k]
      /\ \A k \in Handles : IsTick(k)' <=> IsTick(k)
      /\ UNCHANGED <<counter, served>>
  BY DEF Remove, Stopped, IInv, TypeOK, IsTick, Fresh
<1>2. PendingTicks' \subseteq PendingTicks
  BY <1>1 DEF PendingTicks
<1> DEFINE W == PendingTicks \ PendingTicks'
<1>3. PendingTicks' = PendingTicks \ W /\ W \in SUBSET PendingTicks
  BY <1>2
<1>4. Ticks!Withdraw(W)
  BY <1>1, <1>3 DEF Ticks!Withdraw
<1> QED
  BY <1>3, <1>4 DEF Ticks!Next

LEMMA RunTimerDispatches ==
  ASSUME IInv, NEW h \in Handles, RunTimer(h)
  PROVE  [Ticks!Next]_Ticks!vars
<1> DEFINE p == <<uv[h].id, h>>
<1>1. /\ \A k \in Handles \ {h} : uv'[k] = uv[k]
      /\ closure' = closure
      /\ uv[h].armed /\ uv[h].repeat = closure[h].interval
      /\ counter \in Nat /\ uv[h].repeat \in Nat
      /\ \A k \in Handles : uv[k].id \in Nat /\ uv[k].timeout \in Nat
  BY DEF RunTimer, IsFirst, IInv, TypeOK, ArmedInv, UvTimer
<1>2. \A k \in Handles : IsTick(k)' <=> IsTick(k)
  BY <1>1 DEF IsTick, Fresh
<1>3. CASE IsTick(h)
  <2>1. /\ uv[h].repeat = 0
        /\ ~uv'[h].armed /\ counter' = counter /\ served' = Append(served, h)
    BY <1>1, <1>3 DEF RunTimer, IsTick, Stopped, IInv, TypeOK
  <2>2. p \in PendingTicks /\ PendingTicks' = PendingTicks \ {p}
    BY <1>1, <1>2, <1>3, <2>1 DEF PendingTicks
  <2>3. ASSUME NEW k \in Handles, IsTick(k), uv[k].armed
        PROVE  uv[h].id <= uv[k].id
    <3>1. CASE k = h
      BY <1>1, <3>1
    <3>2. CASE k # h
      <4>1. Before(h, k)
        BY <2>3, <3>2 DEF RunTimer, IsFirst
      <4> QED
        BY <1>1, <1>3, <2>3, <4>1 DEF Before, IInv, TickTimes
    <3> QED
      BY <3>1, <3>2
  <2>4. \A q \in PendingTicks : p[1] <= q[1]
    BY <2>3 DEF PendingTicks
  <2>5. Ticks!Dispatch(p)
    BY <2>1, <2>2, <2>4 DEF Ticks!Dispatch
  <2> QED
    BY <2>2, <2>5 DEF Ticks!Next
<1>4. CASE ~IsTick(h)
  <2>1. PendingTicks' = PendingTicks
    BY <1>1, <1>2, <1>4 DEF PendingTicks
  <2>2. served' = served /\ counter' \in {counter, counter + 1}
    BY <1>4 DEF RunTimer
  <2> QED
    BY <2>1, <2>2 DEF Ticks!Next, Ticks!SkipNumber, Ticks!vars
<1> QED
  BY <1>3, <1>4

\* NextTick implements the queue of deferred calls: they run in the order
\* they were posted, each at most once, and only deletion withdraws one.
THEOREM TimerImplementsTickQueue == Spec => TicksAreQueue
<1>1. Init => Ticks!Init
  BY DEF Init, Stopped, Ticks!Init, PendingTicks
<1>2. ASSUME IInv, [Next]_vars
      PROVE  [Ticks!Next]_Ticks!vars
  <2>1. ASSUME NEW o \in Objects, NEW d \in Delays, NEW i \in Intervals,
               NEW f \in Funcs, NEW h \in Handles, AddTimer(o, d, i, f, h)
        PROVE  Ticks!Next
    BY <1>2, <2>1, AddTimerPosts
  <2>2. ASSUME NEW o \in Objects, NEW f \in Funcs, NEW h \in Handles,
               NextTick(o, f, h)
        PROVE  Ticks!Next
    BY <1>2, <2>2, AddTimerPosts DEF NextTick
  <2>3. ASSUME NEW o \in Objects, NEW h \in Handles, DelTimer(o, h)
        PROVE  Ticks!Next
    BY <1>2, <2>3, RemoveWithdraws DEF DelTimer
  <2>4. ASSUME NEW o \in Objects, NEW f \in Funcs, DelTimerByName(o, f)
        PROVE  Ticks!Next
    BY <1>2, <2>4, RemoveWithdraws DEF DelTimerByName
  <2>5. ASSUME NEW o \in Objects, DelAll(o)
        PROVE  Ticks!Next
    BY <1>2, <2>5, RemoveWithdraws DEF DelAll
  <2>6. CASE User
    BY <2>1, <2>2, <2>3, <2>4, <2>5, <2>6 DEF User
  <2>7. ASSUME \/ UpdateTime \/ Return \/ EndTimers \/ UNCHANGED vars
        PROVE  UNCHANGED Ticks!vars
    BY <2>7 DEF UpdateTime, Return, EndTimers, vars, Ticks!vars, PendingTicks,
                IsTick, Fresh
  <2>8. CASE Loop
    BY <1>2, <2>7, <2>8, RunTimerDispatches DEF Loop
  <2> QED
    BY <1>2, <2>6, <2>7, <2>8 DEF Next
<1> QED
  BY <1>1, <1>2, SpecIInv, PTL DEF Spec, TicksAreQueue, Ticks!Spec

\* A stopped timer stays stopped, whatever its own or other callbacks do.
THEOREM StoppedForGood == Spec => StaysStopped
<1>1. ASSUME IInv, [Next]_vars
      PROVE  \A h \in Handles :
                closure[h].obj # None /\ ~uv[h].armed => ~uv'[h].armed
  <2> SUFFICES ASSUME NEW k \in Handles, closure[k].obj # None, ~uv[k].armed
               PROVE  ~uv'[k].armed
    OBVIOUS
  <2> USE <1>1 DEF IInv, TypeOK
  <2>1. ASSUME NEW o \in Objects, NEW d, NEW i, NEW f \in Funcs,
               NEW h \in Handles, AddTimer(o, d, i, f, h)
        PROVE  ~uv'[k].armed
    BY <2>1 DEF AddTimer, Fresh
  <2>2. ASSUME NEW o \in Objects, NEW S \in SUBSET Handles, Remove(o, S)
        PROVE  ~uv'[k].armed
    BY <2>2 DEF Remove, Stopped
  <2>3. CASE User
    BY <2>1, <2>2, <2>3 DEF User, NextTick, DelTimer, DelTimerByName, DelAll
  <2>4. ASSUME NEW h \in Handles, RunTimer(h)
        PROVE  ~uv'[k].armed
    BY <2>4 DEF RunTimer, IsFirst
  <2>5. CASE Loop
    BY <2>4, <2>5 DEF Loop, UpdateTime, Return, EndTimers
  <2> QED
    BY <2>3, <2>5 DEF Next, vars
<1>2. ASSUME IInv, [Next]_vars
      PROVE [\A h \in Handles :
                closure[h].obj # None /\ ~uv[h].armed => ~uv'[h].armed]_vars
  BY <1>1, <1>2
<1> QED
  BY <1>2, SpecIInv, PTL DEF Spec, StaysStopped

\* Every tick has run when the timer phase ends.
THEOREM NoTickLeftBehind == Spec => TicksDrained
<1>1. ASSUME IInv, [Next]_vars
      PROVE  [pc = "timers" /\ pc' = "poll" =>
                \A h \in Handles : ~(IsTick(h) /\ uv[h].armed)]_vars
  <2>1. CASE EndTimers
    BY <1>1, <2>1 DEF IInv, TickTimes, EndTimers, Due
  <2>2. CASE ~EndTimers
    BY <1>1, <2>2 DEF Next, User, Loop, AddTimer, NextTick, DelTimer,
         DelTimerByName, DelAll, Remove, InLua, UpdateTime, RunTimer, Return
  <2> QED
    BY <2>1, <2>2
<1> QED
  BY <1>1, SpecIInv, PTL DEF Spec, TicksDrained

\* A timer that runs leaves nobody waiting that was due when it was started:
\* no chain of posted ticks holds back another timer, however long it grows.
THEOREM NoOvertaking == Spec => NotOvertaken
<1>1. ASSUME IInv, [Next]_vars
      PROVE  \A h \in Handles : RunTimer(h) => ahead[h] = {}
  <2> SUFFICES ASSUME NEW h \in Handles, RunTimer(h), NEW k \in ahead[h]
               PROVE  FALSE
    OBVIOUS
  <2>1. /\ k \in Handles /\ uv[h].armed /\ uv[k].armed
        /\ uv[k].timeout <= uv[h].timeout /\ uv[k].id < uv[h].id
        /\ uv[h] \in UvTimer /\ uv[k] \in UvTimer
    BY <1>1 DEF IInv, TypeOK, AheadInv, RunTimer, IsFirst
  <2>2. k # h /\ Before(h, k)
    BY <2>1 DEF RunTimer, IsFirst, UvTimer
  <2> QED
    BY <2>1, <2>2 DEF Before, UvTimer
<1>2. ASSUME IInv, [Next]_vars
      PROVE  [\A h \in Handles : RunTimer(h) => ahead[h] = {}]_vars
  BY <1>1, <1>2
<1> QED
  BY <1>2, SpecIInv, PTL DEF Spec, NotOvertaken
=============================================================================
