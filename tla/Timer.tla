-------------------------------- MODULE Timer --------------------------------
(***************************************************************************)
(* gameserver/base/timer.lua over the libuv timers it drives, with the     *)
(* methods CObject adds (AddTimer, DelTimer, DelTimerAll, NextTick).       *)
(*                                                                         *)
(* An object keeps its timers in obj.__Timer, a table from uv handles to   *)
(* the callback; libuv keeps the armed handles in a heap.  A uv handle is  *)
(* never closed by timer.lua, so every AddTimer uses a fresh one.  All Lua *)
(* code runs on the loop's thread: either inside a timer callback          *)
(* (pc = "callback") or in another phase of uv_run (pc = "poll").          *)
(***************************************************************************)
EXTENDS Naturals, Integers, Sequences

CONSTANTS
    Objects,        \* objects that own timers
    Handles,        \* uv timer handles
    Funcs,          \* callbacks: functions or method names
    None,           \* Lua nil
    Delays,         \* delays passed to AddTimer, in loop time
    Intervals,      \* repeat intervals passed to AddTimer
    MaxTime         \* bound on the loop time

ASSUME NoneIsNil == None \notin Funcs /\ None \notin Objects
ASSUME TimesAreInts == Delays \subseteq Int /\ Intervals \subseteq Int
ASSUME MaxTimeIsNat == MaxTime \in Nat

VARIABLES
    table,          \* table[o][h]: obj.__Timer[h], None when absent
    uv,             \* the uv_timer_t of each handle
    closure,        \* the upvalues of the Lua closure given to timer_start
    now,            \* loop->time
    counter,        \* loop->timer_counter, the source of start_id
    pc,             \* where uv_run is
    served,         \* history: the NextTick handles in the order they ran
    ahead           \* history: ahead[h] are the timers that were already due
                    \* when h was started, and have neither run nor been
                    \* stopped since

vars == <<table, uv, closure, now, counter, pc, served, ahead>>

UvTimer == [armed : BOOLEAN, timeout : Nat, repeat : Nat, id : Nat]
Closure == [obj : Objects \union {None}, delay : Nat, interval : Nat]

\* uv_timer_stop; the fields it leaves behind are written before they are
\* read again, so they are forgotten here.
Stopped == [armed |-> FALSE, timeout |-> 0, repeat |-> 0, id |-> 0]

\* Mutant: a stopped handle is handed out again.
Fresh_Pooled(h) == ~uv[h].armed

\* No Lua code has called timer_new for this handle yet.
Fresh(h) == closure[h].obj = None

Init ==
    /\ table = [o \in Objects |-> [h \in Handles |-> None]]
    /\ uv = [h \in Handles |-> Stopped]
    /\ closure = [h \in Handles |-> [obj |-> None, delay |-> 0, interval |-> 0]]
    /\ now = 0
    /\ counter = 0
    /\ pc = "poll"
    /\ served = <<>>
    /\ ahead = [h \in Handles |-> {}]

-----------------------------------------------------------------------------
(* libuv's timers, as luv drives them.                                     *)

\* Mutant: no order among equal deadlines.
Before_ByTimeOnly(h, k) == uv[h].timeout <= uv[k].timeout

\* Mutant: of equal deadlines the latest start goes first.
Before_Latest(h, k) == \/ uv[h].timeout < uv[k].timeout
                       \/ uv[h].timeout = uv[k].timeout /\ uv[h].id > uv[k].id

\* timer_less_than: by deadline, then by start_id.
Before(h, k) == \/ uv[h].timeout < uv[k].timeout
                \/ uv[h].timeout = uv[k].timeout /\ uv[h].id < uv[k].id

\* The handle at the root of the heap.
IsFirst(h) == /\ uv[h].armed
              /\ \A k \in Handles \ {h} : uv[k].armed => Before(h, k)

Due(h) == uv[h].armed /\ uv[h].timeout <= now

\* uv_timer_start on an unarmed handle: what the handle becomes.
Started(delay, interval) ==
    [armed |-> TRUE, timeout |-> now + delay, repeat |-> interval, id |-> counter]

\* History: the timers S have run or were stopped, nobody is behind them.
Passed(S) == [h \in Handles |-> IF h \in S THEN {} ELSE ahead[h] \ S]

-----------------------------------------------------------------------------
(* timer.lua, called from Lua code that the loop is running.               *)

InLua == pc \in {"poll", "callback"}

ValidTimes(delay, interval) == delay >= 0 /\ interval >= 0

AddTimer(o, delay, interval, f, h) ==
    /\ InLua
    /\ ValidTimes(delay, interval)
    /\ Fresh(h)
    /\ uv' = [uv EXCEPT ![h] = Started(delay, interval)]
    /\ counter' = counter + 1
    /\ closure' = [closure EXCEPT ![h] =
                      [obj |-> o, delay |-> delay, interval |-> interval]]
    /\ table' = [table EXCEPT ![o][h] = f]
    /\ ahead' = [ahead EXCEPT ![h] = {k \in Handles : Due(k)}]
    /\ UNCHANGED <<now, pc, served>>

\* Mutant: the table is replaced and the handles keep running.
Remove_NoStop(o, S) ==
    /\ table' = [table EXCEPT ![o] =
                    [h \in Handles |-> IF h \in S THEN None ELSE @[h]]]
    /\ UNCHANGED <<uv, closure, now, counter, pc, served, ahead>>

\* The timers S of object o leave its table and are stopped.
Remove(o, S) ==
    /\ table' = [table EXCEPT ![o] =
                    [h \in Handles |-> IF h \in S THEN None ELSE @[h]]]
    /\ uv' = [h \in Handles |-> IF h \in S THEN Stopped ELSE uv[h]]
    /\ ahead' = Passed(S)
    /\ UNCHANGED <<closure, now, counter, pc, served>>

\* The handle may be any that Lua still holds, of this object or of another.
DelTimer(o, h) ==
    /\ InLua
    /\ table[o][h] # None
    /\ Remove(o, {h})

HasTimer(o, f) == \E h \in Handles : table[o][h] = f

DelTimerByName(o, f) ==
    /\ InLua
    /\ HasTimer(o, f)
    /\ Remove(o, {h \in Handles : table[o][h] = f})

DelAll(o) ==
    /\ InLua
    /\ \E h \in Handles : table[o][h] # None
    /\ Remove(o, {h \in Handles : table[o][h] # None})

\* CObject:NextTick, which CObject:OnEvent uses with "DispatchEvent".
NextTick(o, f, h) == AddTimer(o, 0, 0, f, h)

IsTick(h) == ~Fresh(h) /\ closure[h].delay = 0 /\ closure[h].interval = 0

-----------------------------------------------------------------------------
(* One iteration of uv_run.                                                *)

\* uv__update_time; the clock read may not have moved.
UpdateTime ==
    /\ pc = "poll"
    /\ now' \in now .. MaxTime
    /\ pc' = "timers"
    /\ UNCHANGED <<table, uv, closure, counter, served, ahead>>

\* uv__run_timers pops one due handle: uv_timer_stop, uv_timer_again, then
\* the closure up to the call of the callback.  A one-shot closure removes
\* the entry and stops the handle before it calls.  Calling a nil callback
\* raises an error that luv_pcall reports, and the loop goes on.
RunTimer(h) ==
    LET c     == closure[h]
        again == uv[h].repeat > 0
    IN
    /\ pc = "timers"
    /\ IsFirst(h) /\ Due(h)
    /\ uv' = [uv EXCEPT ![h] =
                 IF c.interval = 0 \/ ~again THEN Stopped
                 ELSE Started(@.repeat, @.repeat)]
    /\ counter' = IF again THEN counter + 1 ELSE counter
    /\ table' = IF c.interval = 0 THEN [table EXCEPT ![c.obj][h] = None]
                                  ELSE table
    /\ pc' = IF table[c.obj][h] = None THEN "timers" ELSE "callback"
    /\ served' = IF IsTick(h) THEN Append(served, h) ELSE served
    /\ ahead' = IF c.interval = 0 \/ ~again THEN Passed({h})
                ELSE [Passed({h}) EXCEPT ![h] = {k \in Handles \ {h} : Due(k)}]
    /\ UNCHANGED <<closure, now>>

\* The callback returns to uv__run_timers.
Return ==
    /\ pc = "callback"
    /\ pc' = "timers"
    /\ UNCHANGED <<table, uv, closure, now, counter, served, ahead>>

\* Mutant: one timer is run per pass.
EndTimers_Early ==
    /\ pc = "timers"
    /\ pc' = "poll"
    /\ UNCHANGED <<table, uv, closure, now, counter, served, ahead>>

\* No handle is due: uv_run goes on to its other phases.
EndTimers ==
    /\ pc = "timers"
    /\ \A h \in Handles : ~Due(h)
    /\ pc' = "poll"
    /\ UNCHANGED <<table, uv, closure, now, counter, served, ahead>>

User ==
    \/ \E o \in Objects, d \in Delays, i \in Intervals, f \in Funcs, h \in Handles :
          AddTimer(o, d, i, f, h)
    \/ \E o \in Objects, f \in Funcs, h \in Handles : NextTick(o, f, h)
    \/ \E o \in Objects, h \in Handles : DelTimer(o, h)
    \/ \E o \in Objects, f \in Funcs : DelTimerByName(o, f)
    \/ \E o \in Objects : DelAll(o)

Loop ==
    \/ UpdateTime
    \/ \E h \in Handles : RunTimer(h)
    \/ Return
    \/ EndTimers

Next == User \/ Loop

Spec == Init /\ [][Next]_vars

-----------------------------------------------------------------------------
(* Properties.                                                             *)

TypeOK ==
    /\ table \in [Objects -> [Handles -> Funcs \union {None}]]
    /\ uv \in [Handles -> UvTimer]
    /\ closure \in [Handles -> Closure]
    /\ now \in Nat
    /\ counter \in Nat
    /\ pc \in {"poll", "timers", "callback"}
    /\ served \in Seq(Handles)
    /\ ahead \in [Handles -> SUBSET Handles]

\* The two records of a timer never drift apart: a handle is in the table of
\* the object its closure belongs to exactly while libuv has it armed.  So a
\* closure never finds a nil callback (timer.lua:14,27), DelAll leaves no
\* armed handle behind, and no handle fires for an object that forgot it.
Coherent ==
    \A o \in Objects, h \in Handles :
        (table[o][h] # None) <=> (uv[h].armed /\ closure[h].obj = o)

\* When the timer phase ends and I/O callbacks may run, every NextTick call
\* has been made, those posted by other ticks in the same pass included: no
\* I/O callback runs between a deferred event and its dispatch.
TicksDrained ==
    [][pc = "timers" /\ pc' = "poll" =>
          \A h \in Handles : ~(IsTick(h) /\ uv[h].armed)]_vars

\* A timer that fired for the last time or was deleted, even by its own
\* callback or by another timer of the same pass, stays stopped.
StaysStopped ==
    [][\A h \in Handles :
          closure[h].obj # None /\ ~uv[h].armed => ~uv'[h].armed]_vars

\* The posted ticks with their start_ids: the queue the loop's heap holds.
PendingTicks ==
    {<<uv[h].id, h>> : h \in {k \in Handles : IsTick(k) /\ uv[k].armed}}

Ticks == INSTANCE TickQueue WITH
    Calls <- Handles, pending <- PendingTicks, issued <- counter

\* Deferred calls are served in the order they were posted, whatever other
\* timers, deletions and clock readings come between (class.lua:660-663).
TicksAreQueue == Ticks!Spec

\* No timer overtakes one that was already due when it was started: each
\* timer that runs leaves nobody waiting that was due before it.  A callback
\* that keeps posting new ticks, and a repeating timer, so cannot hold back a
\* timer of another kind, in a pass that drains the ticks it posts.
NotOvertaken ==
    [][\A h \in Handles : RunTimer(h) => ahead[h] = {}]_vars
==============================================================================
