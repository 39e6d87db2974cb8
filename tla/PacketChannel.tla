---------------------------- MODULE PacketChannel ----------------------------
(***************************************************************************)
(* What the packet format of gameserver/base/net/pack.lua promises: a      *)
(* first-in first-out channel of packet bodies, whatever the segments the  *)
(* network cuts the byte stream into.                                      *)
(***************************************************************************)
EXTENDS Sequences

CONSTANT Bodies         \* the packet bodies that may be sent

VARIABLES
    queue,              \* bodies sent and not delivered yet
    delivered           \* bodies handed to the "recv" event, oldest first

vars == <<queue, delivered>>

Init == queue = <<>> /\ delivered = <<>>

Send(b) == queue' = Append(queue, b) /\ UNCHANGED delivered

Deliver == /\ queue # <<>>
           /\ delivered' = Append(delivered, Head(queue))
           /\ queue' = Tail(queue)

Next == (\E b \in Bodies : Send(b)) \/ Deliver

Spec == Init /\ [][Next]_vars
==============================================================================
