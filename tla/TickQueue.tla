------------------------------ MODULE TickQueue ------------------------------
(***************************************************************************)
(* What CObject:NextTick (gameserver/base/class.lua) promises to the code  *)
(* that defers an event with CObject:OnEvent: a queue of deferred calls.   *)
(* A call posted later is dispatched later; a pending call is dispatched   *)
(* at most once; it may be withdrawn (DelTimer, DelTimerAll) before that.  *)
(* Timer.tla is shown to implement this specification.                     *)
(***************************************************************************)
EXTENDS Naturals, Sequences

CONSTANT Calls      \* identities of the deferred calls

VARIABLES
    pending,        \* the posted calls not dispatched yet: <<number, call>>
    issued,         \* the next number to give out
    served          \* the calls dispatched so far, oldest first

vars == <<pending, issued, served>>

Init == /\ pending = {}
        /\ issued = 0
        /\ served = <<>>

\* A call takes the next number.
Post(c) == /\ pending' = pending \union {<<issued, c>>}
           /\ issued' = issued + 1
           /\ UNCHANGED served

\* Only the pending call with the least number may be dispatched.
Dispatch(p) == /\ \A q \in pending : p[1] <= q[1]
               /\ pending' = pending \ {p}
               /\ served' = Append(served, p[2])
               /\ UNCHANGED issued

\* Any pending calls may be withdrawn; a withdrawn call is never served.
Withdraw(S) == /\ pending' = pending \ S
               /\ UNCHANGED <<issued, served>>

\* Numbers may be left unused: other timers draw from the same counter.
SkipNumber == /\ issued' = issued + 1
              /\ UNCHANGED <<pending, served>>

Next == \/ \E c \in Calls : Post(c)
        \/ \E p \in pending : Dispatch(p)
        \/ \E S \in SUBSET pending : Withdraw(S)
        \/ SkipNumber

Spec == Init /\ [][Next]_vars
==============================================================================
