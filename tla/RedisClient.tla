----------------------------- MODULE RedisClient -----------------------------
(***************************************************************************)
(* CRedis (gameserver/base/redis.lua) over a CTcpClient                    *)
(* (gameserver/base/tcp.lua): commands are locked while they execute,      *)
(* replies are matched to them by their order, commands wait until SELECT  *)
(* was answered, and a connection that fails is made again.                *)
(*                                                                         *)
(* The events of the connection are posted with OnEvent and served one per *)
(* tick in the order they were posted (EventDispatch.tla, Timer.tla).  The *)
(* functions of a reply are called one by one: each may use the client     *)
(* again, or raise an error, which the rest are then not called for.  The  *)
(* redis server executes the commands of a connection in order; a reply is *)
(* known by the command it answers.  CRedis:Create names the client class  *)
(* tcp.TcpClient; it is taken to be CTcpClient, the one there is.          *)
(***************************************************************************)
EXTENDS Integers, SequencesExt

CONSTANTS
    Gets, Sets,     \* commands with a function (Get, HGetAll) and without (Set, HSet)
    HGetAlls,       \* those of Gets that are answered by a table
    Callers,        \* functions that may be given to Get, each at most once
    TIMEOUT,        \* age at which a lock is dropped
    Faults,         \* what may happen to a connection, and whether functions raise errors
    MaxTime,        \* bound on the clock
    MaxFaults,      \* bound on the faults
    MaxSets         \* bound on the calls of Set

ASSUME BoundsAreNat == {TIMEOUT, MaxTime, MaxFaults, MaxSets} \subseteq Nat
ASSUME CommandsDiffer ==
    Gets \cap Sets = {} /\ "SELECT" \notin Gets \cup Sets /\ HGetAlls \subseteq Gets
ASSUME CallersAreFunctions == {"onselect", "nofunc", "none"} \cap Callers = {}
ASSUME FaultKinds == Faults \subseteq {"error", "eof", "refused", "raise"}

VARIABLES
    conn,           \* m_Sock and m_Connected of the CTcpClient
    c,              \* m_Inited, m_InitFuncs, m_LockList, m_SendList and the timer
    wire,           \* commands sent on this connection and not yet answered
    selected,       \* SELECT was sent on this connection
    ticks,          \* events posted and not yet dispatched
    call,           \* the functions still to be called with a reply, and who runs
    asked, got,     \* history: the command of each caller, the replies it got
    dropped,        \* history: callers replaced before the client was ready
    behind,         \* history: functions behind one that raised an error
    misread,        \* history: functions whose reply was not the table of HGETALL
    now, faults, sets

vars == <<conn, c, wire, selected, ticks, call, asked, got, dropped, behind, misread,
          now, faults, sets>>
history == <<asked, got, dropped, behind, misread>>
bounded == <<now, faults, sets>>

Select == "onselect"
NoFunc == "nofunc"
Nothing == "nothing"
Nil == <<>>
NoCall == [by |-> "none", funcs |-> Nil, reply |-> Nothing]

\* The loop is not within the functions of a reply.
Idle == call.funcs = Nil

\* The program may call the client: from the loop, or from a function the
\* client has called.
ProgramRuns == Idle \/ call.by \in Callers

-----------------------------------------------------------------------------
(* The state one call works on: all that CRedis may change.                *)

This == [c |-> c, wire |-> wire, selected |-> selected, got |-> got]
Becomes(x) == c' = x.c /\ wire' = x.wire /\ selected' = x.selected /\ got' = x.got

\* CTcpClient:Send, message by message
ClientSend(x, msgs) ==
    IF ~conn.connected THEN x
    ELSE [x EXCEPT !.wire = @ \o msgs, !.selected = @ \/ "SELECT" \in ToSet(msgs)]

\* The functions of a new lock, or those added to one.
Funcs(func) == IF func = NoFunc THEN Nil ELSE <<func>>

\* The lock of a command with a function for it, whether it was locked or not.
Locked(x, msg, func) ==
    IF msg \notin DOMAIN x.c.lock THEN [funcs |-> Funcs(func), time |-> now]
    ELSE [x.c.lock[msg] EXCEPT !.funcs = @ \o Funcs(func)]

\* CRedis:Send for each command of cmds, which gives its function.  Only the
\* ones that were not locked are sent, in the given order.
Send(x, cmds, order) ==
    ClientSend([x EXCEPT
        !.c.lock = [msg \in DOMAIN x.c.lock \cup DOMAIN cmds |->
                        IF msg \in DOMAIN cmds THEN Locked(x, msg, cmds[msg])
                        ELSE x.c.lock[msg]],
        !.c.sendList = @ \o order,
        !.c.timer = @ \/ \E msg \in ToSet(order) : cmds[msg] # NoFunc], order)

SendOne(x, msg, func) ==
    Send(x, [m \in {msg} |-> func], IF msg \in DOMAIN x.c.lock THEN <<>> ELSE <<msg>>)

\* m_InitFuncs with one more command, or another function for a command.
Waits(x, msg, func) ==
    [x EXCEPT !.c.initFuncs = [m \in DOMAIN @ \cup {msg} |-> IF m = msg THEN func ELSE @[m]]]

\* Mutant: SELECT waits to be ready like any command.
Exec_Waits(x, msg, func, ignore) ==
    IF ~x.c.inited THEN Waits(x, msg, func) ELSE SendOne(x, msg, func)

\* CRedis:Exec
Exec(x, msg, func, ignore) ==
    IF ~ignore /\ ~x.c.inited THEN Waits(x, msg, func) ELSE SendOne(x, msg, func)

\* The function given to SELECT: the commands that waited are sent, in the
\* order pairs() finds them.
OnSelect(x, order) ==
    Send([x EXCEPT !.c.inited = TRUE, !.c.initFuncs = <<>>], x.c.initFuncs, order)

Orders(x) == SetToSeqs(DOMAIN x.c.initFuncs \ DOMAIN x.c.lock)

\* Where the functions of these commands are, and the orders they are called
\* in: that of pairs() for the commands, that of ipairs() within a lock.
Places(msgs) == UNION {{msg} \X DOMAIN c.lock[msg].funcs : msg \in msgs}

CallOrders(msgs) ==
    {p \in Bijection(1 .. Cardinality(Places(msgs)), Places(msgs)) :
        \A i, k \in DOMAIN p : i < k /\ p[i][1] = p[k][1] =>
            p[i][2] < p[k][2] /\ \A j \in i .. k : p[j][1] = p[i][1]}

\* With their locks gone, the functions of these commands will be called.
Call(x, msgs, reply) ==
    \E p \in CallOrders(msgs) :
        /\ Becomes(x)
        /\ call' = [NoCall EXCEPT !.funcs = [i \in DOMAIN p |-> c.lock[p[i][1]].funcs[p[i][2]]],
                                  !.reply = reply]

\* Mutant: the functions of a command are left in its lock.
Unlock_Keeps(x, msgs) == x

\* The locks go, and with the last one the timer.
Unlock(x, msgs) ==
    LET rest == Restrict(x.c.lock, DOMAIN x.c.lock \ msgs)
    IN [x EXCEPT !.c.lock = rest, !.c.timer = @ /\ DOMAIN rest # {}]

\* A command is answered.  Without functions it keeps its lock.  What is not
\* an error and not a table cannot be read as HGETALL's answer: CRedis:Recv
\* raises an error then, behind the lock.
Answer(msg, x, reply) ==
    IF msg \notin DOMAIN c.lock \/ c.lock[msg].funcs = Nil
    THEN Becomes(x) /\ UNCHANGED <<call, misread>>
    ELSE \/ Call(Unlock(x, {msg}), {msg}, reply) /\ UNCHANGED misread
         \/ /\ msg \in HGetAlls /\ reply \notin HGetAlls
            /\ Becomes(Unlock(x, {msg}))
            /\ misread' = misread \cup ToSet(c.lock[msg].funcs)
            /\ UNCHANGED call

\* Mutant: the last command is taken for the answered one.
Recv_Last(reply) ==
    \/ /\ c.sendList = Nil
       /\ Becomes(This) /\ UNCHANGED <<call, misread>>
    \/ /\ c.sendList # Nil
       /\ Answer(Last(c.sendList), [This EXCEPT !.c.sendList = Front(@)], reply)

\* CRedis:Recv
Recv(reply) ==
    \/ /\ c.sendList = Nil
       /\ Becomes(This) /\ UNCHANGED <<call, misread>>
    \/ /\ c.sendList # Nil
       /\ Answer(Head(c.sendList), [This EXCEPT !.c.sendList = Tail(@)], reply)

-----------------------------------------------------------------------------
(* Calls of the program.                                                   *)

Init ==
    /\ conn = [sock |-> "connecting", connected |-> FALSE]
    /\ c = [inited |-> FALSE, initFuncs |-> <<>>, lock |-> <<>>, sendList |-> <<>>,
            timer |-> FALSE]
    /\ wire = <<>> /\ selected = FALSE /\ ticks = <<>>
    /\ call = NoCall /\ asked = <<>> /\ got = [f \in Callers |-> <<>>]
    /\ dropped = {} /\ behind = {} /\ misread = {}
    /\ now = 0 /\ faults = 0 /\ sets = 0

\* Replaces the function that waits for the same command before SELECT.
Get(msg, func) ==
    /\ ProgramRuns /\ func \notin DOMAIN asked
    /\ asked' = [f \in DOMAIN asked \cup {func} |-> IF f = func THEN msg ELSE asked[f]]
    /\ dropped' = IF ~c.inited /\ msg \in DOMAIN c.initFuncs
                  THEN dropped \cup {c.initFuncs[msg]} ELSE dropped
    /\ Becomes(Exec(This, msg, func, FALSE))
    /\ UNCHANGED <<conn, ticks, call, behind, misread, bounded>>

Set(msg) ==
    /\ ProgramRuns /\ sets < MaxSets /\ sets' = sets + 1
    /\ Becomes(Exec(This, msg, NoFunc, FALSE))
    /\ UNCHANGED <<conn, ticks, call, asked, dropped, behind, misread, now, faults>>

\* CRedis:Recv and CRedis:TimeOut call the next function.
CallNext ==
    /\ ~Idle
    /\ LET f == Head(call.funcs)
           rest == Tail(call.funcs)
       IN /\ call' = IF rest = Nil THEN NoCall ELSE [call EXCEPT !.by = f, !.funcs = rest]
          /\ IF f = Select THEN \E order \in Orders(This) : Becomes(OnSelect(This, order))
             ELSE Becomes([This EXCEPT !.got[f] = Append(@, call.reply)])
    /\ UNCHANGED <<conn, ticks, asked, dropped, behind, misread, bounded>>

\* A function that was called raises an error: luv_pcall reports it, and the
\* functions behind it are not called.
Raise ==
    /\ "raise" \in Faults /\ call.by \in Callers
    /\ call' = NoCall /\ behind' = behind \cup ToSet(call.funcs)
    /\ UNCHANGED <<conn, c, wire, selected, ticks, asked, got, dropped, misread, bounded>>

-----------------------------------------------------------------------------
(* The connection.                                                         *)

Post(ev) == ticks' = Append(ticks, ev)

\* The connect callback of CTcpClient:Start: Connected, then read_start.
Connected ==
    /\ Idle /\ conn.sock = "connecting" /\ conn' = [sock |-> "up", connected |-> TRUE]
    /\ Post([name |-> "connect"])
    /\ UNCHANGED <<c, wire, selected, call, history, bounded>>

\* The connection is lost with all that was on it.
Lost(ev) ==
    /\ Idle /\ conn' = [sock |-> "dead", connected |-> FALSE]
    /\ wire' = <<>> /\ faults' = faults + 1 /\ faults < MaxFaults
    /\ Post([name |-> ev])
    /\ UNCHANGED <<c, selected, call, history, now, sets>>

\* CTcpClient:Error, from the connect callback or the read callback.
Error ==
    \/ "refused" \in Faults /\ conn.sock = "connecting" /\ Lost("error")
    \/ "error" \in Faults /\ conn.sock = "up" /\ Lost("error")

\* CTcpClient:Close
Close == "eof" \in Faults /\ conn.sock = "up" /\ Lost("close")

\* The server answers, and CTcpClient:Recv posts the reply.
ClientRecv ==
    /\ Idle /\ conn.sock = "up" /\ wire # <<>>
    /\ wire' = Tail(wire) /\ Post([name |-> "recv", of |-> Head(wire)])
    /\ UNCHANGED <<conn, c, selected, call, history, bounded>>

-----------------------------------------------------------------------------
(* The listeners of CRedis:Start.                                          *)

NextIs(ev) == Idle /\ ticks # <<>> /\ ticks[1].name = ev /\ ticks' = Tail(ticks)

OnConnect ==
    /\ NextIs("connect")
    /\ Becomes(Exec(This, "SELECT", Select, TRUE))
    /\ UNCHANGED <<conn, call, asked, dropped, behind, misread, bounded>>

OnRecv ==
    /\ NextIs("recv")
    /\ Recv(ticks[1].of)
    /\ UNCHANGED <<conn, asked, dropped, behind, bounded>>

OnClose ==
    /\ NextIs("close")
    /\ c' = [c EXCEPT !.inited = FALSE]
    /\ UNCHANGED <<conn, wire, selected, call, history, bounded>>

\* Mutant: the client still counts as ready while it connects again.
OnError_Ready ==
    /\ NextIs("error")
    /\ IF conn.connected THEN UNCHANGED <<conn, wire, selected>>
       ELSE /\ conn' = [sock |-> "connecting", connected |-> FALSE]
            /\ wire' = <<>> /\ selected' = FALSE
    /\ UNCHANGED <<c, call, history, bounded>>

\* CTcpClient:ReStart makes a new socket; the locks and the send list stay.
OnError ==
    /\ NextIs("error")
    /\ c' = [c EXCEPT !.inited = FALSE]
    /\ IF conn.connected THEN UNCHANGED <<conn, wire, selected>>
       ELSE /\ conn' = [sock |-> "connecting", connected |-> FALSE]
            /\ wire' = <<>> /\ selected' = FALSE
    /\ UNCHANGED <<call, history, bounded>>

-----------------------------------------------------------------------------
(* CRedis:TimeOut.                                                         *)

Pass ==
    /\ now < MaxTime /\ now' = now + 1
    /\ UNCHANGED <<conn, c, wire, selected, ticks, call, history, faults, sets>>

Expired == {msg \in DOMAIN c.lock : now - c.lock[msg].time >= TIMEOUT}

\* Mutant: the commands are taken out of the send list with their locks.
Expire_Both(x) ==
    [Unlock(x, Expired) EXCEPT !.c.sendList = SelectSeq(@, LAMBDA msg : msg \notin Expired)]

\* The locks go, the send list stays.
Expire(x) == Unlock(x, Expired)

TimeOut ==
    /\ Idle /\ c.timer /\ Expired # {}
    /\ Call(Expire(This), Expired, Nothing)
    /\ UNCHANGED <<conn, ticks, asked, dropped, behind, misread, bounded>>

-----------------------------------------------------------------------------

Serve == OnConnect \/ OnRecv \/ OnClose \/ OnError

Next ==
    \/ \E msg \in Gets, func \in Callers : Get(msg, func)
    \/ \E msg \in Sets : Set(msg)
    \/ CallNext \/ Raise
    \/ Connected \/ Error \/ Close \/ ClientRecv
    \/ Serve \/ Pass \/ TimeOut

Spec == Init /\ [][Next]_vars

\* The loop runs, functions return, and the server answers.
FairSpec == Spec /\ WF_vars(Serve) /\ WF_vars(CallNext) /\ WF_vars(Connected) /\ WF_vars(ClientRecv)

-----------------------------------------------------------------------------

\* The replies among the events posted, which the event of the connection
\* comes before.
Arrived == LET k == IF ticks # <<>> /\ ticks[1].name = "connect" THEN 1 ELSE 0
           IN [i \in 1 .. Len(ticks) - k |-> ticks[i + k].of]

\* Until the connection fails, m_SendList is the queue of the commands that
\* were sent on it and whose replies were not handled yet (CRedis:Send,
\* CRedis:Recv), also when locks are dropped after TIMEOUT: replies carry no
\* name, so everything rests on it.
SendListIsSent == (faults = 0 /\ conn.connected) => c.sendList = Arrived \o wire

\* Until the connection fails, a function gets the reply to its own command,
\* or nothing after a timeout, and HGETALL is answered by a table (CRedis:Recv,
\* CRedis:TimeOut).
RightAnswer ==
    faults = 0 => /\ \A f \in DOMAIN asked : got[f] # Nil => got[f][1] \in {asked[f], Nothing}
                  /\ misread = {}

\* The functions that wait, for SELECT, for a reply or for the one before them.
Waiting ==
    Range(c.initFuncs) \cup ToSet(call.funcs)
        \cup UNION {ToSet(c.lock[msg].funcs) : msg \in DOMAIN c.lock}

\* The functions the client has lost: replaced, behind one that raised an
\* error, or whose reply could not be read.
Forgotten == dropped \cup behind \cup misread

\* Whatever fails or times out, a function that was given to Get is in one place:
\* it waits, or was called, once, or was lost in one of the three ways
\* (CRedis:Exec, CRedis:Recv, CRedis:TimeOut).
KeptOrCalled ==
    \A f \in DOMAIN asked :
        /\ Len(got[f]) <= 1
        /\ IF f \in Forgotten THEN f \notin Waiting /\ got[f] = Nil
           ELSE (f \in Waiting) # (got[f] # Nil)

\* Commands only reach the server after SELECT on the same connection, however
\* often the connection fails (CRedis:Start, CRedis:Exec), as long as the lock
\* of a SELECT whose connection failed has not timed out: TimeOut then calls
\* the function of the lock, which takes the client for ready.
DbSelected ==
    (faults = 0 \/ now < TIMEOUT) => \A i \in DOMAIN wire : wire[i] # "SELECT" => selected

\* While the connection stands every function is called that was not lost: the
\* client becomes ready, sends what waited, and the replies release the locks.
\* An error raised before the function of a SELECT that timed out keeps the
\* client from becoming ready (CRedis:TimeOut).
Answered ==
    \A f \in Callers :
        f \in DOMAIN asked ~> (got[f] # Nil \/ f \in Forgotten \/ Select \in behind \/ faults > 0)
=============================================================================
