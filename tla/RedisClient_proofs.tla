------------------------- MODULE RedisClient_proofs -------------------------
(***************************************************************************)
(* Proofs about RedisClient.tla, for every set of commands and callers and *)
(* all bounds.                                                             *)
(***************************************************************************)
EXTENDS RedisClient, SequenceTheorems, FiniteSetTheorems, TLAPS

Msgs == Gets \cup Sets
Cmds == Msgs \cup {"SELECT"}
Funs == Callers \cup {Select}

\* A table of Lua: some keys have a value.
Table(t, Keys, Values) == DOMAIN t \subseteq Keys /\ t \in [DOMAIN t -> Values]

Waiters(w) ==
    /\ Table(w, Msgs, Callers \cup {NoFunc}) /\ IsFiniteSet(DOMAIN w)
    /\ \A m \in DOMAIN w \cap Gets : w[m] \in Callers
Lock == [funcs : Seq(Funs), time : Nat]
Event == [name : {"connect", "close", "error"}] \cup [name : {"recv"}, of : Cmds]
Calls == [by : Funs \cup {"none"}, funcs : Seq(Funs), reply : Cmds \cup {Nothing}]

\* The state one call works on.
Redis(r) ==
    /\ r = [inited |-> r.inited, initFuncs |-> r.initFuncs, lock |-> r.lock,
            sendList |-> r.sendList, timer |-> r.timer]
    /\ r.inited \in BOOLEAN /\ r.timer \in BOOLEAN
    /\ Waiters(r.initFuncs) /\ Table(r.lock, Cmds, Lock) /\ IsFiniteSet(DOMAIN r.lock)
    /\ r.sendList \in Seq(Cmds)
State(x) ==
    /\ x = [c |-> x.c, wire |-> x.wire, selected |-> x.selected, got |-> x.got]
    /\ Redis(x.c) /\ x.wire \in Seq(Cmds) /\ x.selected \in BOOLEAN
    /\ x.got \in [Callers -> Seq(Cmds \cup {Nothing})]

TypeOK ==
    /\ State(This)
    /\ conn \in [sock : {"connecting", "up", "dead"}, connected : BOOLEAN]
    /\ ticks \in Seq(Event)
    /\ call \in Calls
    /\ Table(asked, Callers, Gets)
    /\ dropped \subseteq Callers /\ behind \subseteq Funs /\ misread \subseteq Funs
    /\ now \in Nat /\ faults \in Nat /\ sets \in Nat

-----------------------------------------------------------------------------
(* The inductive invariant.                                                *)

\* The function f waits for SELECT with the command m, or is the i-th function
\* of the lock of m.
Parked(x, f, m) == m \in DOMAIN x.c.initFuncs /\ x.c.initFuncs[m] = f
Queued(x, f, m, i) ==
    m \in DOMAIN x.c.lock /\ i \in DOMAIN x.c.lock[m].funcs /\ x.c.lock[m].funcs[i] = f

\* The functions that have left the tables of the client without being called.
Out == Forgotten \cup ToSet(call.funcs)

\* A function is nowhere before it is asked for; then it is in one place, with
\* its own command, until it leaves, and is called at most once.
Kept(x, f, ask, drop) ==
    /\ \A m \in Cmds : Parked(x, f, m) => f \in DOMAIN ask /\ ask[f] = m
    /\ \A m \in Cmds, i \in Nat : Queued(x, f, m, i) => f \in DOMAIN ask /\ ask[f] = m
    /\ \A m \in Cmds, i, j \in Nat : Queued(x, f, m, i) /\ Queued(x, f, m, j) => i = j
    /\ \A m \in Cmds, i \in Nat : ~(Parked(x, f, m) /\ Queued(x, f, m, i))
    /\ f \in drop \/ x.got[f] # <<>> =>
          /\ f \in DOMAIN ask
          /\ \A m \in Cmds : ~Parked(x, f, m) /\ \A i \in Nat : ~Queued(x, f, m, i)
    /\ f \in drop => x.got[f] = <<>>
    /\ Len(x.got[f]) <= 1
    /\ f \in DOMAIN ask =>
          \/ f \in drop \/ x.got[f] # <<>>
          \/ \E m \in Cmds : Parked(x, f, m) \/ \E i \in Nat : Queued(x, f, m, i)

\* Only SELECT is locked with the function of SELECT.
SelectOK(x) == \A m \in Cmds, i \in Nat : Queued(x, Select, m, i) => m = "SELECT"

\* An error is the last thing that is heard of a connection.
ConnOK ==
    /\ conn.connected <=> conn.sock = "up"
    /\ \A i \in DOMAIN ticks :
          ticks[i].name = "error" => conn.sock = "dead" /\ i = Len(ticks)

\* Until a lock can time out: whoever was answered, or may be, has selected.
SelectedOK ==
    now < TIMEOUT /\ (c.inited \/ wire # <<>> \/ \E i \in DOMAIN ticks : ticks[i].name = "recv")
        => selected

\* Each function will be called once, and none that was lost; until the first
\* fault, with the reply to its own command or with nothing.  SELECT's function
\* is called on a connection that has selected, until a lock can time out.
CalledOK ==
    /\ \A i, j \in DOMAIN call.funcs :
          call.funcs[i] \in Callers /\ call.funcs[i] = call.funcs[j] => i = j
    /\ \A i \in DOMAIN call.funcs : call.funcs[i] \in Callers =>
          /\ call.funcs[i] \notin Forgotten
          /\ faults = 0 => call.reply \in {asked[call.funcs[i]], Nothing}
    /\ now < TIMEOUT /\ Select \in ToSet(call.funcs) => selected

\* Until the first fault: the client waits for the connection, or for the
\* event of it, or m_SendList is what was sent and not yet answered.
Before == wire = <<>> /\ c.sendList = <<>> /\ ~c.inited /\ DOMAIN c.lock = {} /\ Idle
Connecting == conn.sock = "connecting" /\ ticks = <<>> /\ Before
Announced == conn.sock = "up" /\ ticks = <<[name |-> "connect"]>> /\ Before
Replies == [i \in 1 .. Len(ticks) |-> ticks[i].of]
Serving ==
    /\ conn.sock = "up" /\ selected
    /\ \A i \in DOMAIN ticks : ticks[i].name = "recv"
    /\ c.sendList = Replies \o wire
LinkOK == faults = 0 => Connecting \/ Announced \/ Serving

IInv ==
    /\ TypeOK /\ (\A f \in Callers : Kept(This, f, asked, Out)) /\ CalledOK
    /\ SelectOK(This) /\ ConnOK /\ SelectedOK /\ LinkOK /\ RightAnswer

-----------------------------------------------------------------------------
(* What the operations on the state of a call do to its parts.             *)

\* The state of a call, from its parts.
Client(i, w, l, s, t) ==
    [inited |-> i, initFuncs |-> w, lock |-> l, sendList |-> s, timer |-> t]
CallState(r, w, s, g) == [c |-> r, wire |-> w, selected |-> s, got |-> g]
Shaped(x) ==
    /\ x = CallState(x.c, x.wire, x.selected, x.got)
    /\ x.c = Client(x.c.inited, x.c.initFuncs, x.c.lock, x.c.sendList, x.c.timer)

\* What an assignment to one field of the client makes of the state of a call.
LEMMA PutParts ==
  ASSUME NEW x, Shaped(x), NEW v
  PROVE  LET C(r) == CallState(r, x.wire, x.selected, x.got)
         IN /\ [x EXCEPT !.c.inited = v] =
                  C(Client(v, x.c.initFuncs, x.c.lock, x.c.sendList, x.c.timer))
            /\ [x EXCEPT !.c.initFuncs = v] =
                  C(Client(x.c.inited, v, x.c.lock, x.c.sendList, x.c.timer))
            /\ [x EXCEPT !.c.lock = v] =
                  C(Client(x.c.inited, x.c.initFuncs, v, x.c.sendList, x.c.timer))
            /\ [x EXCEPT !.c.sendList = v] =
                  C(Client(x.c.inited, x.c.initFuncs, x.c.lock, v, x.c.timer))
            /\ [x EXCEPT !.c.timer = v] =
                  C(Client(x.c.inited, x.c.initFuncs, x.c.lock, x.c.sendList, v))
<1> DEFINE C(r) == CallState(r, x.wire, x.selected, x.got)
<1>1. \A r : [x EXCEPT !.c = r] = C(r)
  BY DEF Shaped, CallState
<1>2. [x EXCEPT !.c.inited = v] = C(Client(v, x.c.initFuncs, x.c.lock, x.c.sendList, x.c.timer))
  <2> DEFINE r == [x.c EXCEPT !.inited = v]
  <2>1. r = Client(v, x.c.initFuncs, x.c.lock, x.c.sendList, x.c.timer)
    BY DEF Shaped, Client
  <2>2. [x EXCEPT !.c.inited = v] = [x EXCEPT !.c = r]
    BY DEF Shaped, CallState
  <2> HIDE DEF r, C
  <2> QED
    BY <1>1, <2>1, <2>2
<1>3. [x EXCEPT !.c.initFuncs = v] = C(Client(x.c.inited, v, x.c.lock, x.c.sendList, x.c.timer))
  <2> DEFINE r == [x.c EXCEPT !.initFuncs = v]
  <2>1. r = Client(x.c.inited, v, x.c.lock, x.c.sendList, x.c.timer)
    BY DEF Shaped, Client
  <2>2. [x EXCEPT !.c.initFuncs = v] = [x EXCEPT !.c = r]
    BY DEF Shaped, CallState
  <2> HIDE DEF r, C
  <2> QED
    BY <1>1, <2>1, <2>2
<1>4. [x EXCEPT !.c.lock = v] = C(Client(x.c.inited, x.c.initFuncs, v, x.c.sendList, x.c.timer))
  <2> DEFINE r == [x.c EXCEPT !.lock = v]
  <2>1. r = Client(x.c.inited, x.c.initFuncs, v, x.c.sendList, x.c.timer)
    BY DEF Shaped, Client
  <2>2. [x EXCEPT !.c.lock = v] = [x EXCEPT !.c = r]
    BY DEF Shaped, CallState
  <2> HIDE DEF r, C
  <2> QED
    BY <1>1, <2>1, <2>2
<1>5. [x EXCEPT !.c.sendList = v] = C(Client(x.c.inited, x.c.initFuncs, x.c.lock, v, x.c.timer))
  <2> DEFINE r == [x.c EXCEPT !.sendList = v]
  <2>1. r = Client(x.c.inited, x.c.initFuncs, x.c.lock, v, x.c.timer)
    BY DEF Shaped, Client
  <2>2. [x EXCEPT !.c.sendList = v] = [x EXCEPT !.c = r]
    BY DEF Shaped, CallState
  <2> HIDE DEF r, C
  <2> QED
    BY <1>1, <2>1, <2>2
<1>6. [x EXCEPT !.c.timer = v] = C(Client(x.c.inited, x.c.initFuncs, x.c.lock, x.c.sendList, v))
  <2> DEFINE r == [x.c EXCEPT !.timer = v]
  <2>1. r = Client(x.c.inited, x.c.initFuncs, x.c.lock, x.c.sendList, v)
    BY DEF Shaped, Client
  <2>2. [x EXCEPT !.c.timer = v] = [x EXCEPT !.c = r]
    BY DEF Shaped, CallState
  <2> HIDE DEF r, C
  <2> QED
    BY <1>1, <2>1, <2>2
<1> QED
  BY <1>2, <1>3, <1>4, <1>5, <1>6

LEMMA StateShaped ==
  ASSUME NEW x, State(x)
  PROVE  Shaped(x)
BY DEF State, Redis, Shaped, CallState, Client

Waited(x, msg, func, y) ==
    /\ State(y)
    /\ y.c.initFuncs = [m \in DOMAIN x.c.initFuncs \cup {msg} |->
                           IF m = msg THEN func ELSE x.c.initFuncs[m]]
    /\ y.c.inited = x.c.inited /\ y.c.lock = x.c.lock /\ y.c.sendList = x.c.sendList
    /\ y.wire = x.wire /\ y.selected = x.selected /\ y.got = x.got

LEMMA WaitsParts ==
  ASSUME NEW x, State(x), NEW msg \in Msgs, NEW func \in Callers \cup {NoFunc},
         msg \in Gets => func \in Callers
  PROVE  Waited(x, msg, func, Waits(x, msg, func))
<1> DEFINE w == [m \in DOMAIN x.c.initFuncs \cup {msg} |->
                    IF m = msg THEN func ELSE x.c.initFuncs[m]]
           y == Waits(x, msg, func)
<1>1. Waiters(w)
  <2>1. Waiters(x.c.initFuncs)
    BY DEF State, Redis
  <2>2. IsFiniteSet(DOMAIN w)
    BY <2>1, FS_AddElement DEF Waiters
  <2>3. Table(w, Msgs, Callers \cup {NoFunc}) /\ \A m \in DOMAIN w \cap Gets : w[m] \in Callers
    BY <2>1 DEF Waiters, Table
  <2> QED
    BY <2>2, <2>3 DEF Waiters
<1>2. y = [x EXCEPT !.c.initFuncs = w]
  BY DEF Waits
<1> HIDE DEF w, y
<1>3. /\ y = [c |-> y.c, wire |-> y.wire, selected |-> y.selected, got |-> y.got]
      /\ y.wire = x.wire /\ y.selected = x.selected /\ y.got = x.got
      /\ y.c = [inited |-> x.c.inited, initFuncs |-> w, lock |-> x.c.lock,
                sendList |-> x.c.sendList, timer |-> x.c.timer]
  BY <1>2 DEF State, Redis
<1>4. State(y)
  BY <1>1, <1>3 DEF State, Redis
<1>5. Waited(x, msg, func, y)
  BY <1>3, <1>4 DEF w, Waited
<1> QED
  BY <1>5 DEF y

\* The lock of m after cmds were sent.
LockAfter(x, cmds, m) == IF m \in DOMAIN cmds THEN Locked(x, m, cmds[m]) ELSE x.c.lock[m]

LEMMA LockedParts ==
  ASSUME NEW x, State(x), now \in Nat, NEW m \in Cmds, NEW func \in Funs \cup {NoFunc}
  PROVE  /\ Locked(x, m, func) \in Lock
         /\ m \in DOMAIN x.c.lock =>
               Locked(x, m, func).funcs = x.c.lock[m].funcs \o Funcs(func)
         /\ m \notin DOMAIN x.c.lock => Locked(x, m, func).funcs = Funcs(func)
<1>1. Funcs(func) \in Seq(Funs)
  BY DEF Funcs, Nil
<1>2. CASE m \in DOMAIN x.c.lock
  <2>1. x.c.lock[m] \in Lock
    BY <1>2 DEF State, Redis, Table
  <2>2. Locked(x, m, func) = [funcs |-> x.c.lock[m].funcs \o Funcs(func), time |-> x.c.lock[m].time]
    BY <1>2, <2>1 DEF Locked, Lock
  <2>3. x.c.lock[m].funcs \o Funcs(func) \in Seq(Funs)
    BY <1>1, <2>1, ConcatProperties DEF Lock
  <2> QED
    BY <1>2, <2>1, <2>2, <2>3 DEF Lock
<1>3. CASE m \notin DOMAIN x.c.lock
  BY <1>1, <1>3 DEF Locked, Lock
<1> QED
  BY <1>2, <1>3

Sent(x, cmds, order, y) ==
    /\ State(y)
    /\ y.c.inited = x.c.inited /\ y.c.initFuncs = x.c.initFuncs
    /\ y.c.lock = [m \in DOMAIN x.c.lock \cup DOMAIN cmds |-> LockAfter(x, cmds, m)]
    /\ y.c.sendList = x.c.sendList \o order
    /\ y.wire = IF conn.connected THEN x.wire \o order ELSE x.wire
    /\ x.selected => y.selected
    /\ conn.connected /\ "SELECT" \in ToSet(order) => y.selected
    /\ y.got = x.got

LEMMA SendParts ==
  ASSUME NEW x, State(x), now \in Nat, NEW cmds, Table(cmds, Cmds, Funs \cup {NoFunc}),
         IsFiniteSet(DOMAIN cmds), NEW order \in Seq(Cmds)
  PROVE  Sent(x, cmds, order, Send(x, cmds, order))
<1> DEFINE l == [m \in DOMAIN x.c.lock \cup DOMAIN cmds |-> LockAfter(x, cmds, m)]
           t == x.c.timer \/ \E m \in ToSet(order) : cmds[m] # NoFunc
           z == [x EXCEPT !.c.lock = l, !.c.sendList = @ \o order, !.c.timer = t]
           y == Send(x, cmds, order)
<1>0. IsFiniteSet(DOMAIN l)
  BY FS_Union DEF State, Redis
<1>1. Table(l, Cmds, Lock)
  <2>1. Table(x.c.lock, Cmds, Lock)
    BY DEF State, Redis
  <2>2. ASSUME NEW m \in DOMAIN l PROVE l[m] \in Lock /\ m \in Cmds
    <3>1. CASE m \in DOMAIN cmds
      BY <3>1, LockedParts DEF LockAfter, Table
    <3>2. CASE m \notin DOMAIN cmds
      BY <2>1, <3>2 DEF LockAfter, Table
    <3> QED
      BY <3>1, <3>2
  <2> QED
    BY <2>2 DEF Table
<1>2. y = ClientSend(z, order)
  BY DEF Send, LockAfter
<1>3. t \in BOOLEAN
  BY Zenon DEF State, Redis
<1> HIDE DEF l, t, y
<1> DEFINE r == [x.c EXCEPT !.lock = l, !.sendList = @ \o order, !.timer = t]
<1>4. r = [inited |-> x.c.inited, initFuncs |-> x.c.initFuncs, lock |-> l,
           sendList |-> x.c.sendList \o order, timer |-> t]
  <2> DEFINE s == x.c.sendList \o order
             r1 == [x.c EXCEPT !.lock = l]
             r2 == [r1 EXCEPT !.sendList = s]
  <2>1. r1 = [inited |-> x.c.inited, initFuncs |-> x.c.initFuncs, lock |-> l,
              sendList |-> x.c.sendList, timer |-> x.c.timer]
    BY DEF State, Redis
  <2>2. r = [r2 EXCEPT !.timer = t]
    OBVIOUS
  <2> HIDE DEF r1, s, r
  <2>3. r2 = [inited |-> x.c.inited, initFuncs |-> x.c.initFuncs, lock |-> l,
              sendList |-> s, timer |-> x.c.timer]
    BY <2>1
  <2> HIDE DEF r2
  <2>4. r = [inited |-> x.c.inited, initFuncs |-> x.c.initFuncs, lock |-> l,
             sendList |-> s, timer |-> t]
    BY <2>2, <2>3
  <2> QED
    BY <2>4 DEF s
<1>5. z = [x EXCEPT !.c = r]
  <2>1. z = [[[x EXCEPT !.c = [x.c EXCEPT !.lock = l]] EXCEPT !.c.sendList = @ \o order]
               EXCEPT !.c.timer = t]
    BY DEF State, Redis
  <2> QED
    BY <2>1 DEF State, Redis
<1> HIDE DEF r, z
<1>6. /\ z = [c |-> z.c, wire |-> z.wire, selected |-> z.selected, got |-> z.got]
      /\ z.c = r /\ z.wire = x.wire /\ z.selected = x.selected /\ z.got = x.got
  BY <1>5 DEF State
<1>7. x.c.sendList \o order \in Seq(Cmds) /\ x.wire \o order \in Seq(Cmds)
  BY ConcatProperties DEF State, Redis
<1>8. Redis(z.c)
  BY <1>0, <1>1, <1>3, <1>4, <1>6, <1>7 DEF State, Redis
<1>9. ASSUME ~conn.connected PROVE Sent(x, cmds, order, y)
  <2>1. y = z
    BY <1>2, <1>9 DEF ClientSend
  <2>2. State(y)
    BY <1>6, <1>8, <2>1 DEF State
  <2> QED
    BY <1>4, <1>6, <1>9, <2>1, <2>2 DEF l, Sent
<1>10. ASSUME conn.connected PROVE Sent(x, cmds, order, y)
  <2> DEFINE s == z.selected \/ "SELECT" \in ToSet(order)
  <2>1. s \in BOOLEAN /\ (z.selected => s) /\ ("SELECT" \in ToSet(order) => s)
    BY <1>6, Zenon DEF State
  <2>2. y = [z EXCEPT !.wire = z.wire \o order, !.selected = s]
    BY <1>2, <1>6, <1>10 DEF ClientSend
  <2> HIDE DEF s
  <2>3. /\ y = [c |-> y.c, wire |-> y.wire, selected |-> y.selected, got |-> y.got]
        /\ y.c = z.c /\ y.wire = x.wire \o order /\ y.got = x.got /\ y.selected = s
    BY <1>6, <2>2
  <2>4. State(y)
    BY <1>6, <1>7, <1>8, <2>1, <2>3 DEF State
  <2> QED
    BY <1>4, <1>6, <1>10, <2>1, <2>3, <2>4 DEF l, Sent
<1> QED
  BY <1>9, <1>10 DEF y

Unlocked(x, msgs, y) ==
    /\ State(y)
    /\ y.c.inited = x.c.inited /\ y.c.initFuncs = x.c.initFuncs
    /\ y.c.lock = [m \in DOMAIN x.c.lock \ msgs |-> x.c.lock[m]]
    /\ y.c.sendList = x.c.sendList
    /\ y.wire = x.wire /\ y.selected = x.selected /\ y.got = x.got

LEMMA UnlockParts ==
  ASSUME NEW x, State(x), NEW msgs
  PROVE  Unlocked(x, msgs, Unlock(x, msgs))
<1> DEFINE l == [m \in DOMAIN x.c.lock \ msgs |-> x.c.lock[m]]
           t == x.c.timer /\ DOMAIN l # {}
           z == [x EXCEPT !.c.lock = l]
           y == Unlock(x, msgs)
<1>0. IsFiniteSet(DOMAIN l)
  BY FS_Subset DEF State, Redis
<1>1. Table(l, Cmds, Lock)
  BY DEF State, Redis, Table
<1>2. t \in BOOLEAN
  BY Zenon DEF State, Redis
<1>3. y = [z EXCEPT !.c.timer = t]
  BY DEF Unlock, Restrict, State, Redis
<1> HIDE DEF l, t, y
<1>4. z = CallState(Client(x.c.inited, x.c.initFuncs, l, x.c.sendList, x.c.timer),
                    x.wire, x.selected, x.got)
  BY PutParts, StateShaped
<1> HIDE DEF z
<1>5. Shaped(z)
  BY <1>4 DEF Shaped, CallState, Client
<1>6. y = CallState(Client(x.c.inited, x.c.initFuncs, l, x.c.sendList, t),
                    x.wire, x.selected, x.got)
  <2>1. [z EXCEPT !.c.timer = t] =
            CallState(Client(z.c.inited, z.c.initFuncs, z.c.lock, z.c.sendList, t),
                      z.wire, z.selected, z.got)
    BY <1>5, PutParts
  <2> QED
    BY <1>3, <1>4, <2>1 DEF CallState, Client
<1>7. State(y)
  BY <1>0, <1>1, <1>2, <1>6 DEF State, Redis, CallState, Client
<1> QED
  <2>1. Unlocked(x, msgs, y)
    BY <1>6, <1>7 DEF l, Unlocked, CallState, Client
  <2> QED
    BY <2>1 DEF y

Popped(x, y) ==
    /\ State(y)
    /\ y.c.inited = x.c.inited /\ y.c.initFuncs = x.c.initFuncs
    /\ y.c.lock = x.c.lock /\ y.c.sendList = Tail(x.c.sendList)
    /\ y.wire = x.wire /\ y.selected = x.selected /\ y.got = x.got

LEMMA TailParts ==
  ASSUME NEW x, State(x), x.c.sendList # <<>>
  PROVE  Popped(x, [x EXCEPT !.c.sendList = Tail(@)])
<1> DEFINE s == Tail(x.c.sendList)
           y == [x EXCEPT !.c.sendList = s]
<1>1. s \in Seq(Cmds)
  BY DEF State, Redis
<1> HIDE DEF s
<1>2. y = CallState(Client(x.c.inited, x.c.initFuncs, x.c.lock, s, x.c.timer),
                    x.wire, x.selected, x.got)
  BY PutParts, StateShaped
<1> HIDE DEF y
<1>3. State(y)
  BY <1>1, <1>2 DEF State, Redis, CallState, Client
<1> QED
  <2>1. Popped(x, y)
    BY <1>2, <1>3 DEF s, Popped, CallState, Client
  <2> QED
    BY <2>1 DEF s, y

LEMMA OrdersParts ==
  ASSUME NEW x, State(x), NEW order \in Orders(x)
  PROVE  order \in Seq(Msgs) /\ order \in Seq(Cmds)
<1> DEFINE S == DOMAIN x.c.initFuncs \ DOMAIN x.c.lock
<1>1. IsFiniteSet(S)
  BY FS_Subset DEF State, Redis, Waiters
<1>2. PICK n \in Nat : n = Cardinality(S)
  BY <1>1, FS_CardinalityType
<1>3. order \in [1 .. n -> S]
  BY <1>2 DEF Orders, SetToSeqs
<1>4. S \subseteq Msgs /\ S \subseteq Cmds
  BY DEF State, Redis, Waiters, Table, Cmds
<1> HIDE DEF S
<1>5. order \in Seq(S)
  BY <1>2, <1>3
<1> QED
  BY <1>4, <1>5

Readied(x, order, y) ==
    /\ State(y)
    /\ y.c.inited = TRUE /\ y.c.initFuncs = <<>>
    /\ y.c.lock = [m \in DOMAIN x.c.lock \cup DOMAIN x.c.initFuncs |->
                       LockAfter(x, x.c.initFuncs, m)]
    /\ y.c.sendList = x.c.sendList \o order
    /\ y.wire = IF conn.connected THEN x.wire \o order ELSE x.wire
    /\ x.selected => y.selected
    /\ y.got = x.got

LEMMA OnSelectParts ==
  ASSUME NEW x, State(x), now \in Nat, NEW order \in Orders(x)
  PROVE  Readied(x, order, OnSelect(x, order))
<1> DEFINE w == x.c.initFuncs
           yes == TRUE
           none == <<>>
           z1 == [x EXCEPT !.c.inited = yes]
           z == [z1 EXCEPT !.c.initFuncs = none]
           y == Send(z, w, order)
<1>1. Table(w, Cmds, Funs \cup {NoFunc}) /\ IsFiniteSet(DOMAIN w)
  BY DEF State, Redis, Waiters, Table, Cmds, Funs
<1>2. Waiters(none)
  BY FS_EmptySet DEF Waiters, Table
<1>3. OnSelect(x, order) = Send(z, w, order)
  BY DEF OnSelect
<1> HIDE DEF yes, none
<1>4. z1 = CallState(Client(yes, x.c.initFuncs, x.c.lock, x.c.sendList, x.c.timer),
                     x.wire, x.selected, x.got)
  BY PutParts, StateShaped
<1> HIDE DEF z1
<1>5. Shaped(z1)
  BY <1>4 DEF Shaped, CallState, Client
<1>6. z = CallState(Client(yes, none, x.c.lock, x.c.sendList, x.c.timer),
                    x.wire, x.selected, x.got)
  <2>1. [z1 EXCEPT !.c.initFuncs = none] =
            CallState(Client(z1.c.inited, none, z1.c.lock, z1.c.sendList, z1.c.timer),
                      z1.wire, z1.selected, z1.got)
    BY <1>5, PutParts
  <2> QED
    BY <1>4, <2>1 DEF CallState, Client
<1> HIDE DEF z
<1>7. yes \in BOOLEAN
  BY DEF yes
<1>8. State(z)
  BY <1>2, <1>6, <1>7 DEF State, Redis, CallState, Client
<1>9. /\ z.c.lock = x.c.lock /\ z.c.sendList = x.c.sendList /\ z.wire = x.wire
      /\ z.selected = x.selected /\ z.got = x.got /\ z.c.inited = yes /\ z.c.initFuncs = none
  BY <1>6 DEF CallState, Client
<1>10. \A m : LockAfter(z, w, m) = LockAfter(x, w, m)
  BY <1>9 DEF LockAfter, Locked
<1>11. order \in Seq(Cmds)
  BY OrdersParts
<1>12. Sent(z, w, order, y)
  BY <1>1, <1>8, <1>11, SendParts
<1> HIDE DEF y
<1>13. y.c.lock = [m \in DOMAIN x.c.lock \cup DOMAIN w |-> LockAfter(x, w, m)]
  BY <1>9, <1>10, <1>12 DEF Sent
<1> QED
  <2>1. Readied(x, order, y)
    BY <1>9, <1>12, <1>13 DEF Sent, Readied, yes, none
  <2> QED
    BY <1>3, <2>1 DEF y

-----------------------------------------------------------------------------
(* Where functions are after such an operation.                            *)

\* The place after the last function of the lock of m.
Place(x, m) == IF m \in DOMAIN x.c.lock THEN Len(x.c.lock[m].funcs) + 1 ELSE 1

\* The locks of y are those of x after cmds were sent.
Relocked(x, cmds, y) ==
    y.c.lock = [m \in DOMAIN x.c.lock \cup DOMAIN cmds |-> LockAfter(x, cmds, m)]

LEMMA QueuedAfter ==
  ASSUME NEW x, State(x), now \in Nat, NEW cmds, Table(cmds, Cmds, Funs \cup {NoFunc}),
         NEW y, Relocked(x, cmds, y),
         NEW f \in Funs, NEW m \in Cmds, NEW i \in Nat
  PROVE  Queued(y, f, m, i) <=>
            Queued(x, f, m, i) \/ (m \in DOMAIN cmds /\ cmds[m] = f /\ i = Place(x, m))
<1>1. f # NoFunc
  BY CallersAreFunctions DEF Funs, NoFunc, Select
<1>2. CASE m \notin DOMAIN cmds
  BY <1>2 DEF Queued, LockAfter, Relocked
<1>3. CASE m \in DOMAIN cmds
  <2> DEFINE g == cmds[m]
  <2>1. g \in Funs \cup {NoFunc}
    BY <1>3 DEF Table
  <2>2. m \in DOMAIN y.c.lock /\ y.c.lock[m] = Locked(x, m, g)
    BY <1>3 DEF LockAfter, Relocked
  <2>3. (g = NoFunc => Funcs(g) = <<>>) /\ (g # NoFunc => Funcs(g) = <<g>>)
    BY DEF Funcs, Nil
  <2> HIDE DEF g
  <2>4. CASE m \in DOMAIN x.c.lock
    <3> DEFINE s == x.c.lock[m].funcs
    <3>1. s \in Seq(Funs)
      BY <2>4 DEF State, Redis, Table, Lock
    <3>2. y.c.lock[m].funcs = s \o Funcs(g)
      BY <2>1, <2>2, <2>4, LockedParts
    <3>3. Place(x, m) = Len(s) + 1
      BY <2>4 DEF Place
    <3>4. Queued(x, f, m, i) <=> i \in DOMAIN s /\ s[i] = f
      BY <2>4 DEF Queued
    <3>5. Queued(y, f, m, i) <=> i \in DOMAIN (s \o Funcs(g)) /\ (s \o Funcs(g))[i] = f
      BY <2>2, <3>2 DEF Queued
    <3> HIDE DEF s
    <3>6. CASE g = NoFunc
      BY <1>1, <1>3, <2>3, <3>1, <3>4, <3>5, <3>6 DEF g
    <3>7. CASE g # NoFunc
      <4>1. Funcs(g) = <<g>>
        BY <2>3, <3>7
      <4>2. i \in DOMAIN (s \o <<g>>) /\ (s \o <<g>>)[i] = f <=>
              (i \in DOMAIN s /\ s[i] = f) \/ (i = Len(s) + 1 /\ g = f)
        BY <3>1
      <4> QED
        BY <1>3, <3>3, <3>4, <3>5, <4>1, <4>2 DEF g
    <3> QED
      BY <3>6, <3>7
  <2>5. CASE m \notin DOMAIN x.c.lock
    <3>1. y.c.lock[m].funcs = Funcs(g)
      BY <2>1, <2>2, <2>5, LockedParts
    <3>2. Place(x, m) = 1 /\ ~Queued(x, f, m, i)
      BY <2>5 DEF Place, Queued
    <3>3. Queued(y, f, m, i) <=> i \in DOMAIN Funcs(g) /\ Funcs(g)[i] = f
      BY <2>2, <3>1 DEF Queued
    <3>4. CASE g = NoFunc
      BY <1>1, <1>3, <2>3, <3>2, <3>3, <3>4 DEF g
    <3>5. CASE g # NoFunc
      BY <1>3, <2>3, <3>2, <3>3, <3>5 DEF g
    <3> QED
      BY <3>4, <3>5
  <2> QED
    BY <2>4, <2>5
<1> QED
  BY <1>2, <1>3

LEMMA PlaceIsFree ==
  ASSUME NEW x, State(x), NEW f, NEW m \in Cmds
  PROVE  Place(x, m) \in Nat /\ ~Queued(x, f, m, Place(x, m))
<1>1. CASE m \in DOMAIN x.c.lock
  <2>1. x.c.lock[m].funcs \in Seq(Funs)
    BY <1>1 DEF State, Redis, Table, Lock
  <2> QED
    BY <1>1, <2>1 DEF Place, Queued
<1>2. CASE m \notin DOMAIN x.c.lock
  BY <1>2 DEF Place, Queued
<1> QED
  BY <1>1, <1>2

LEMMA CallersDiffer ==
  ASSUME NEW f \in Callers
  PROVE  f # Select /\ f # NoFunc /\ f \in Funs
BY CallersAreFunctions DEF Select, NoFunc, Funs

\* Commands that are sent when the client gets ready take their functions with
\* them.
LEMMA KeptReadied ==
  ASSUME NEW x, State(x), now \in Nat, NEW order, NEW y, Readied(x, order, y),
         NEW f \in Callers, NEW ask, NEW drop, Kept(x, f, ask, drop)
  PROVE  Kept(y, f, ask, drop)
<1> DEFINE w == x.c.initFuncs
<1>1. Table(w, Cmds, Funs \cup {NoFunc})
  BY DEF State, Redis, Waiters, Table, Cmds, Funs
<1>2. ASSUME NEW m \in Cmds, NEW i \in Nat
      PROVE  Queued(y, f, m, i) <=>
                Queued(x, f, m, i) \/ (Parked(x, f, m) /\ i = Place(x, m))
  <2>1. Relocked(x, w, y) /\ f \in Funs
    BY CallersDiffer DEF Readied, Relocked
  <2>2. Queued(y, f, m, i) <=>
            Queued(x, f, m, i) \/ (m \in DOMAIN w /\ w[m] = f /\ i = Place(x, m))
    BY <1>1, <2>1, QueuedAfter
  <2> QED
    BY <2>2 DEF Parked
<1>3. \A m \in Cmds : ~Parked(y, f, m)
  BY DEF Readied, Parked
<1>4. y.got = x.got
  BY DEF Readied
<1>5. \A m \in Cmds : Place(x, m) \in Nat
  BY PlaceIsFree
<1> QED
  BY <1>2, <1>3, <1>4, <1>5 DEF Kept

\* Nothing changes for the others when a command is sent with a function.
LEMMA KeptSent ==
  ASSUME NEW x, State(x), now \in Nat, NEW msg \in Cmds, NEW func \in Funs \cup {NoFunc},
         NEW order, NEW y, Sent(x, [m \in {msg} |-> func], order, y),
         NEW f \in Callers, f # func, NEW ask, NEW drop, Kept(x, f, ask, drop)
  PROVE  Kept(y, f, ask, drop)
<1> DEFINE cmds == [m \in {msg} |-> func]
<1>1. Table(cmds, Cmds, Funs \cup {NoFunc})
  BY DEF Table
<1>2. ASSUME NEW m \in Cmds, NEW i \in Nat
      PROVE  Queued(y, f, m, i) <=> Queued(x, f, m, i)
  <2>1. Relocked(x, cmds, y) /\ f \in Funs
    BY CallersDiffer DEF Sent, Relocked
  <2> HIDE DEF cmds
  <2>2. Queued(y, f, m, i) <=>
            Queued(x, f, m, i) \/ (m \in DOMAIN cmds /\ cmds[m] = f /\ i = Place(x, m))
    BY <1>1, <2>1, QueuedAfter
  <2> QED
    BY <2>2 DEF cmds
<1>3. \A m \in Cmds : Parked(y, f, m) <=> Parked(x, f, m)
  BY DEF Sent, Parked
<1>4. y.got = x.got
  BY DEF Sent
<1> QED
  BY <1>2, <1>3, <1>4 DEF Kept

\* A function that is new is then in the lock of its command.
LEMMA KeptSentNew ==
  ASSUME NEW x, State(x), now \in Nat, NEW msg \in Cmds, NEW f \in Callers,
         NEW order, NEW y, Sent(x, [m \in {msg} |-> f], order, y),
         NEW ask, NEW drop, Kept(x, f, ask, drop), f \notin DOMAIN ask, NEW new,
         f \in DOMAIN new, new[f] = msg
  PROVE  Kept(y, f, new, drop)
<1> DEFINE cmds == [m \in {msg} |-> f]
<1>1. Table(cmds, Cmds, Funs \cup {NoFunc})
  BY CallersDiffer DEF Table
<1>2. ASSUME NEW m \in Cmds, NEW i \in Nat
      PROVE  Queued(y, f, m, i) <=> m = msg /\ i = Place(x, m)
  <2>1. Relocked(x, cmds, y) /\ f \in Funs
    BY CallersDiffer DEF Sent, Relocked
  <2> HIDE DEF cmds
  <2>2. Queued(y, f, m, i) <=>
            Queued(x, f, m, i) \/ (m \in DOMAIN cmds /\ cmds[m] = f /\ i = Place(x, m))
    BY <1>1, <2>1, QueuedAfter
  <2>3. ~Queued(x, f, m, i)
    BY DEF Kept
  <2> QED
    BY <2>2, <2>3 DEF cmds
<1>3. \A m \in Cmds : ~Parked(y, f, m)
  BY DEF Sent, Parked, Kept
<1>4. y.got = x.got /\ x.got[f] = <<>> /\ f \notin drop
  BY DEF Sent, Kept
<1>5. \A m \in Cmds : Place(x, m) \in Nat
  BY PlaceIsFree
<1> QED
  BY <1>2, <1>3, <1>4, <1>5 DEF Kept

\* A command that waits takes the place of the function that waited with it.
LEMMA KeptWaited ==
  ASSUME NEW x, NEW msg \in Cmds, NEW func, NEW y, Waited(x, msg, func, y),
         NEW f \in Callers, f # func, NEW ask, NEW drop, Kept(x, f, ask, drop),
         NEW new, f \in DOMAIN new <=> f \in DOMAIN ask, f \in DOMAIN ask => new[f] = ask[f],
         NEW less, f \in less <=> f \in drop \/ Parked(x, f, msg)
  PROVE  Kept(y, f, new, less)
<1>1. \A m \in Cmds, i \in Nat : Queued(y, f, m, i) <=> Queued(x, f, m, i)
  BY DEF Waited, Queued
<1>2. \A m \in Cmds : Parked(y, f, m) <=> Parked(x, f, m) /\ m # msg
  BY DEF Waited, Parked
<1>3. y.got = x.got
  BY DEF Waited
<1>4. CASE Parked(x, f, msg)
  BY <1>1, <1>2, <1>3, <1>4 DEF Kept
<1>5. CASE ~Parked(x, f, msg)
  BY <1>1, <1>2, <1>3, <1>5 DEF Kept
<1> QED
  BY <1>4, <1>5

LEMMA KeptWaitedNew ==
  ASSUME NEW x, NEW msg \in Cmds, NEW f \in Callers, NEW y, Waited(x, msg, f, y),
         NEW ask, NEW drop, Kept(x, f, ask, drop), f \notin DOMAIN ask,
         NEW new, f \in DOMAIN new, new[f] = msg, NEW less, f \in less => f \in drop
  PROVE  Kept(y, f, new, less)
<1>1. \A m \in Cmds, i \in Nat : ~Queued(y, f, m, i)
  BY DEF Waited, Queued, Kept
<1>2. \A m \in Cmds : Parked(y, f, m) <=> m = msg
  BY DEF Waited, Parked, Kept
<1>3. y.got = x.got /\ x.got[f] = <<>> /\ f \notin less
  BY DEF Waited, Kept
<1> QED
  BY <1>1, <1>2, <1>3 DEF Kept

-----------------------------------------------------------------------------
(* The functions of some locks are taken to be called.                     *)

\* The function f is in the lock of one of these commands.
Due(msgs, f) == \E m \in msgs, i \in Nat : Queued(This, f, m, i)

LEMMA PlacesParts ==
  ASSUME State(This), NEW msgs, msgs \subseteq DOMAIN c.lock
  PROVE  /\ \A m \in msgs, i \in Nat :
               i \in DOMAIN c.lock[m].funcs <=> <<m, i>> \in Places(msgs)
         /\ \A q \in Places(msgs) :
               /\ q[1] \in msgs /\ q[2] \in Nat /\ q = <<q[1], q[2]>>
               /\ q[2] \in DOMAIN c.lock[q[1]].funcs
               /\ c.lock[q[1]].funcs[q[2]] \in Funs
<1>1. ASSUME NEW m \in msgs
      PROVE  c.lock[m].funcs \in Seq(Funs)
  BY DEF State, Redis, Table, Lock, This
<1>2. ASSUME NEW m \in msgs, NEW i \in Nat
      PROVE  i \in DOMAIN c.lock[m].funcs <=> <<m, i>> \in Places(msgs)
  BY DEF Places
<1>3. ASSUME NEW q \in Places(msgs)
      PROVE  /\ q[1] \in msgs /\ q[2] \in Nat /\ q = <<q[1], q[2]>>
             /\ q[2] \in DOMAIN c.lock[q[1]].funcs
             /\ c.lock[q[1]].funcs[q[2]] \in Funs
  <2>1. PICK m \in msgs : q \in {m} \X DOMAIN c.lock[m].funcs
    BY <1>3 DEF Places
  <2>2. PICK i \in DOMAIN c.lock[m].funcs : q = <<m, i>>
    BY <2>1
  <2>3. i \in Nat /\ c.lock[m].funcs[i] \in Funs
    BY <1>1, <2>2
  <2> QED
    BY <2>2, <2>3
<1> QED
  BY <1>2, <1>3

LEMMA PlacesFinite ==
  ASSUME State(This), NEW msgs, msgs \subseteq DOMAIN c.lock
  PROVE  Cardinality(Places(msgs)) \in Nat
<1> DEFINE In(m) == {m} \X DOMAIN c.lock[m].funcs
           each == {In(m) : m \in msgs}
           g == [m \in msgs |-> In(m)]
<1>1. IsFiniteSet(msgs)
  BY FS_Subset DEF State, Redis, This
<1>2. ASSUME NEW m \in msgs PROVE IsFiniteSet(In(m))
  <2>1. c.lock[m].funcs \in Seq(Funs)
    BY DEF State, Redis, Table, Lock, This
  <2>2. PICK n \in Nat : DOMAIN c.lock[m].funcs = 1 .. n
    BY <2>1
  <2>3. IsFiniteSet(1 .. n)
    BY FS_Interval
  <2>4. IsFiniteSet({m} \X (1 .. n))
    BY <2>3, FS_Singleton, FS_Product
  <2> QED
    BY <2>2, <2>4
<1> HIDE DEF In
<1>3. g \in Surjection(msgs, each)
  BY DEF Surjection
<1>4. IsFiniteSet(each)
  BY <1>1, <1>3, FS_Surjection
<1>5. \A s \in each : IsFiniteSet(s)
  BY <1>2
<1>6. IsFiniteSet(UNION each)
  BY <1>4, <1>5, FS_UNION
<1>7. Places(msgs) = UNION each
  BY DEF Places, In
<1> QED
  BY <1>6, <1>7, FS_CardinalityType

\* The sequence fs has the functions of the locks of msgs, each caller once.
Gathered(fs, msgs) ==
    /\ fs \in Seq(Funs)
    /\ \A f \in Funs : f \in ToSet(fs) <=> Due(msgs, f)
    /\ \A i, j \in DOMAIN fs : fs[i] \in Callers /\ fs[i] = fs[j] => i = j

LEMMA CallGathers ==
  ASSUME State(This), NEW msgs, msgs \subseteq DOMAIN c.lock,
         \A f \in Callers : Kept(This, f, asked, Out), NEW p \in CallOrders(msgs)
  PROVE  Gathered([i \in DOMAIN p |-> c.lock[p[i][1]].funcs[p[i][2]]], msgs)
<1> DEFINE fs == [i \in DOMAIN p |-> c.lock[p[i][1]].funcs[p[i][2]]]
<1>1. PICK n \in Nat : n = Cardinality(Places(msgs))
  BY PlacesFinite
<1>2. /\ p \in [1 .. n -> Places(msgs)]
      /\ \A i, j \in 1 .. n : p[i] = p[j] => i = j
      /\ \A q \in Places(msgs) : \E i \in 1 .. n : p[i] = q
  <2>1. p \in Bijection(1 .. n, Places(msgs))
    BY <1>1 DEF CallOrders
  <2> QED
    BY <2>1 DEF Bijection, Injection, Surjection, IsInjective
<1>3. ASSUME NEW i \in 1 .. n
      PROVE  /\ p[i][1] \in msgs /\ p[i][2] \in Nat /\ p[i] = <<p[i][1], p[i][2]>>
             /\ fs[i] \in Funs /\ Queued(This, fs[i], p[i][1], p[i][2])
  <2>1. p[i] \in Places(msgs)
    BY <1>2
  <2>2. /\ p[i][1] \in msgs /\ p[i][2] \in Nat /\ p[i] = <<p[i][1], p[i][2]>>
        /\ p[i][2] \in DOMAIN c.lock[p[i][1]].funcs
        /\ c.lock[p[i][1]].funcs[p[i][2]] \in Funs
    BY <2>1, PlacesParts
  <2>3. fs[i] = c.lock[p[i][1]].funcs[p[i][2]]
    BY <1>2
  <2> QED
    BY <2>2, <2>3 DEF Queued, This
<1>4. DOMAIN fs = 1 .. n /\ fs \in Seq(Funs)
  BY <1>2, <1>3
<1>5. ASSUME NEW m \in msgs, NEW k \in Nat, NEW f, Queued(This, f, m, k)
      PROVE  \E i \in 1 .. n : fs[i] = f
  <2>1. <<m, k>> \in Places(msgs) /\ c.lock[m].funcs[k] = f
    BY <1>5, PlacesParts DEF Queued, This
  <2>2. PICK i \in 1 .. n : p[i] = <<m, k>>
    BY <1>2, <2>1
  <2>3. fs[i] = f
    BY <1>2, <2>1, <2>2
  <2> QED
    BY <2>3
<1> HIDE DEF fs
<1>6. \A f \in Funs : f \in ToSet(fs) <=> Due(msgs, f)
  <2>1. ASSUME NEW f, Due(msgs, f) PROVE f \in ToSet(fs)
    BY <1>4, <1>5, <2>1 DEF Due, ToSet
  <2>2. ASSUME NEW f, f \in ToSet(fs) PROVE Due(msgs, f)
    BY <1>3, <1>4, <2>2 DEF Due, ToSet
  <2> QED
    BY <2>1, <2>2
<1>7. msgs \subseteq Cmds
  BY DEF State, Redis, Table, This
<1>8. ASSUME NEW i \in 1 .. n, NEW j \in 1 .. n, fs[i] \in Callers, fs[i] = fs[j]
      PROVE  i = j
  <2>1. Queued(This, fs[i], p[i][1], p[i][2]) /\ Queued(This, fs[i], p[j][1], p[j][2])
    BY <1>3, <1>8
  <2>2. p[i][1] = p[j][1] /\ p[i][2] = p[j][2]
    BY <1>3, <1>7, <1>8, <2>1 DEF Kept
  <2> QED
    BY <1>2, <1>3, <2>2
<1>9. Gathered(fs, msgs)
  BY <1>4, <1>6, <1>8 DEF Gathered
<1> QED
  BY <1>9 DEF fs

\* The functions that are taken have left the locks.
LEMMA KeptTaken ==
  ASSUME State(This), NEW x, x.c.initFuncs = c.initFuncs, x.got = got,
         NEW msgs, msgs \subseteq DOMAIN c.lock,
         x.c.lock = [m \in DOMAIN c.lock \ msgs |-> c.lock[m]],
         NEW f \in Callers, NEW out, Kept(This, f, asked, out),
         NEW more, f \in more <=> f \in out \/ Due(msgs, f)
  PROVE  Kept(x, f, asked, more)
<1>1. \A m \in Cmds : Parked(x, f, m) <=> Parked(This, f, m)
  BY DEF Parked, This
<1>2. \A m \in Cmds, i \in Nat : Queued(x, f, m, i) <=> Queued(This, f, m, i) /\ m \notin msgs
  BY DEF Queued, This
<1>3. msgs \subseteq Cmds
  BY DEF State, Redis, Table, This
<1>4. This.got = got
  BY DEF This
<1>5. CASE Due(msgs, f)
  <2>1. PICK m \in msgs, i \in Nat : Queued(This, f, m, i)
    BY <1>5 DEF Due
  <2>2. got[f] = <<>> /\ f \in DOMAIN asked
    BY <1>3, <1>4, <2>1 DEF Kept
  <2>3. \A n \in Cmds : ~Parked(x, f, n) /\ \A j \in Nat : ~Queued(x, f, n, j)
    BY <1>1, <1>2, <1>3, <2>1 DEF Kept
  <2>4. Len(x.got[f]) <= 1
    BY <1>4 DEF Kept
  <2> QED
    BY <1>5, <2>2, <2>3, <2>4 DEF Kept
<1>6. CASE ~Due(msgs, f)
  <2>1. \A m \in Cmds, i \in Nat : Queued(x, f, m, i) <=> Queued(This, f, m, i)
    BY <1>2, <1>6 DEF Due
  <2> QED
    BY <1>1, <1>4, <1>6, <2>1 DEF Kept
<1> QED
  BY <1>5, <1>6

LEMMA BecomesParts ==
  ASSUME NEW y, State(y), Becomes(y)
  PROVE  This' = y /\ c' = y.c /\ wire' = y.wire /\ selected' = y.selected /\ got' = y.got
BY DEF Becomes, This, State

\* No function is left to be called.
LEMMA IdleCalled ==
  ASSUME call'.funcs = <<>>
  PROVE  CalledOK'
<1>1. DOMAIN call'.funcs = {}
  OBVIOUS
<1> QED
  BY <1>1 DEF CalledOK, ToSet

\* The state of a call without the locks of msgs.
Calling(x, msgs) ==
    /\ State(x) /\ x.c.initFuncs = c.initFuncs /\ x.got = got /\ x.selected = selected
    /\ msgs \subseteq DOMAIN c.lock
    /\ x.c.lock = [m \in DOMAIN c.lock \ msgs |-> c.lock[m]]

\* What the client keeps without these locks.
LEMMA SelectTaken ==
  ASSUME NEW x, NEW msgs, Calling(x, msgs), SelectOK(This)
  PROVE  SelectOK(x)
<1>1. ASSUME NEW m \in Cmds, NEW i \in Nat, Queued(x, Select, m, i)
      PROVE  Queued(This, Select, m, i)
  BY <1>1 DEF Calling, Queued, This
<1> QED
  BY <1>1 DEF SelectOK

\* The functions of msgs will be called.
LEMMA CallStep ==
  ASSUME IInv, Idle, NEW x, NEW msgs, Calling(x, msgs), NEW reply \in Cmds \cup {Nothing},
         faults = 0 => reply = Nothing \/ msgs = {reply}, now < TIMEOUT => selected,
         Call(x, msgs, reply), UNCHANGED <<asked, dropped, behind, misread, now, faults>>
  PROVE  /\ This' = x /\ State(This)' /\ SelectOK(This)' /\ call' \in Calls
         /\ (\A f \in Callers : Kept(This, f, asked, Out))' /\ CalledOK'
<1>1. PICK p \in CallOrders(msgs) :
         /\ Becomes(x)
         /\ call' = [NoCall EXCEPT
                        !.funcs = [i \in DOMAIN p |-> c.lock[p[i][1]].funcs[p[i][2]]],
                        !.reply = reply]
  BY DEF Call
<1>2. PICK fs : fs = [i \in DOMAIN p |-> c.lock[p[i][1]].funcs[p[i][2]]]
  OBVIOUS
<1>3. State(This) /\ State(x) /\ This' = x /\ selected' = selected
  BY <1>1, BecomesParts DEF IInv, TypeOK, Calling
<1>4. \A f \in Callers : Kept(This, f, asked, Out)
  BY DEF IInv
<1>5. Gathered(fs, msgs)
  BY <1>1, <1>2, <1>3, <1>4, CallGathers DEF Calling
<1>6. call' = [by |-> "none", funcs |-> fs, reply |-> reply]
  BY <1>1, <1>2 DEF NoCall
<1>7. call' \in Calls
  BY <1>5, <1>6 DEF Calls, Gathered
<1>8. call'.funcs = fs /\ call'.reply = reply
  BY <1>6
<1>9. Out = Forgotten /\ Forgotten' = Forgotten
  BY DEF Out, Idle, Nil, ToSet, Forgotten
<1>10. PICK more : more = Forgotten \cup ToSet(fs)
  OBVIOUS
<1>11. ASSUME NEW f \in Callers PROVE Kept(x, f, asked, more)
  <2>1. f \in more <=> f \in Out \/ Due(msgs, f)
    BY <1>5, <1>9, <1>10, CallersDiffer DEF Gathered
  <2> QED
    BY <1>3, <1>4, <2>1, KeptTaken DEF Calling
<1>12. (\A f \in Callers : Kept(This, f, asked, Out))'
  <2>1. Out' = more
    BY <1>8, <1>9, <1>10 DEF Out
  <2> QED
    BY <1>3, <1>11, <2>1
<1>13. SelectOK(This)'
  <2>1. SelectOK(x)
    BY SelectTaken DEF IInv
  <2> QED
    BY <1>3, <2>1
<1>14. ASSUME NEW i \in DOMAIN fs, fs[i] \in Callers
       PROVE  fs[i] \notin Forgotten /\ (faults = 0 => reply \in {asked[fs[i]], Nothing})
  <2>1. Due(msgs, fs[i])
    BY <1>5, <1>14, CallersDiffer DEF Gathered, ToSet
  <2>2. PICK m \in msgs, k \in Nat : Queued(This, fs[i], m, k)
    BY <2>1 DEF Due
  <2>3. m \in Cmds
    BY <1>3 DEF Calling, State, Redis, Table, This
  <2>4. fs[i] \notin Out /\ asked[fs[i]] = m
    BY <1>4, <1>14, <2>2, <2>3 DEF Kept
  <2> QED
    BY <1>9, <2>2, <2>4
<1>15. CalledOK'
  BY <1>3, <1>5, <1>8, <1>9, <1>14 DEF CalledOK, Gathered
<1> QED
  BY <1>3, <1>7, <1>12, <1>13, <1>15

\* The functions of msgs are lost.
LEMMA MisreadStep ==
  ASSUME IInv, Idle, NEW x, NEW m \in DOMAIN c.lock, Calling(x, {m}), Becomes(x),
         misread' = misread \cup ToSet(c.lock[m].funcs),
         UNCHANGED <<call, asked, dropped, behind, now, faults>>
  PROVE  /\ This' = x /\ State(This)' /\ SelectOK(This)' /\ misread' \subseteq Funs
         /\ (\A f \in Callers : Kept(This, f, asked, Out))' /\ CalledOK'
<1>1. State(This) /\ State(x) /\ This' = x
  BY BecomesParts DEF IInv, TypeOK, Calling
<1>2. c.lock[m].funcs \in Seq(Funs)
  BY <1>1 DEF State, Redis, Table, Lock, This
<1>3. misread' \subseteq Funs
  BY <1>2 DEF IInv, TypeOK, ToSet
<1>4. \A f : f \in ToSet(c.lock[m].funcs) <=> Due({m}, f)
  BY <1>2 DEF ToSet, Due, Queued, This
<1>5. PICK more : more = Out'
  OBVIOUS
<1>6. ASSUME NEW f \in Callers PROVE Kept(x, f, asked, more)
  <2>1. f \in more <=> f \in Out \/ Due({m}, f)
    BY <1>4, <1>5 DEF Out, Forgotten
  <2> QED
    BY <1>1, <2>1, KeptTaken DEF IInv, Calling
<1>7. (\A f \in Callers : Kept(This, f, asked, Out))'
  BY <1>1, <1>5, <1>6
<1>8. SelectOK(This)'
  <2>1. SelectOK(x)
    BY SelectTaken DEF IInv
  <2> QED
    BY <1>1, <2>1
<1>9. CalledOK'
  BY IdleCalled DEF Idle, Nil
<1> QED
  BY <1>1, <1>3, <1>7, <1>8, <1>9

\* A client that gets ready locks no other command with the function of SELECT.
LEMMA SelectReadied ==
  ASSUME NEW x, State(x), now \in Nat, NEW order, NEW y, Readied(x, order, y), SelectOK(x)
  PROVE  SelectOK(y)
<1> DEFINE w == x.c.initFuncs
<1>1. Table(w, Cmds, Funs \cup {NoFunc}) /\ \A m \in DOMAIN w : w[m] \in Callers \cup {NoFunc}
  BY DEF State, Redis, Waiters, Table, Cmds, Funs
<1>2. ASSUME NEW m \in Cmds, NEW i \in Nat, Queued(y, Select, m, i)
      PROVE  m = "SELECT"
  <2>1. Relocked(x, w, y) /\ Select \in Funs
    BY DEF Readied, Relocked, Funs
  <2>2. Queued(x, Select, m, i) \/ (m \in DOMAIN w /\ w[m] = Select /\ i = Place(x, m))
    BY <1>1, <1>2, <2>1, QueuedAfter
  <2>3. Select \notin Callers \cup {NoFunc}
    BY CallersAreFunctions DEF Select, NoFunc
  <2> QED
    BY <1>1, <2>2, <2>3 DEF SelectOK
<1> QED
  BY <1>2 DEF SelectOK

LEMMA SendOneParts ==
  ASSUME NEW x, State(x), now \in Nat, NEW msg \in Cmds, NEW func \in Funs \cup {NoFunc}
  PROVE  \E order \in Seq(Cmds) :
            /\ Sent(x, [m \in {msg} |-> func], order, SendOne(x, msg, func))
            /\ msg \notin DOMAIN x.c.lock => order = <<msg>>
            /\ msg \in DOMAIN x.c.lock => order = <<>>
<1> DEFINE cmds == [m \in {msg} |-> func]
           order == IF msg \in DOMAIN x.c.lock THEN <<>> ELSE <<msg>>
<1>1. Table(cmds, Cmds, Funs \cup {NoFunc}) /\ IsFiniteSet(DOMAIN cmds)
  BY FS_Singleton DEF Table
<1>2. order \in Seq(Cmds)
  OBVIOUS
<1>3. SendOne(x, msg, func) = Send(x, cmds, order)
  BY DEF SendOne
<1>4. (msg \notin DOMAIN x.c.lock => order = <<msg>>) /\ (msg \in DOMAIN x.c.lock => order = <<>>)
  OBVIOUS
<1> HIDE DEF cmds, order
<1>5. Sent(x, cmds, order, SendOne(x, msg, func))
  BY <1>1, <1>2, <1>3, SendParts
<1> QED
  BY <1>2, <1>4, <1>5 DEF cmds

LEMMA SelectSent ==
  ASSUME NEW x, State(x), now \in Nat, NEW msg \in Cmds, NEW func \in Funs \cup {NoFunc},
         func = Select => msg = "SELECT",
         NEW order, NEW y, Sent(x, [m \in {msg} |-> func], order, y), SelectOK(x)
  PROVE  SelectOK(y)
<1> DEFINE cmds == [m \in {msg} |-> func]
<1>1. Table(cmds, Cmds, Funs \cup {NoFunc})
  BY DEF Table
<1>2. ASSUME NEW m \in Cmds, NEW i \in Nat, Queued(y, Select, m, i)
      PROVE  m = "SELECT"
  <2>1. Relocked(x, cmds, y) /\ Select \in Funs
    BY DEF Sent, Relocked, Funs
  <2> HIDE DEF cmds
  <2>2. Queued(x, Select, m, i) \/ (m \in DOMAIN cmds /\ cmds[m] = Select /\ i = Place(x, m))
    BY <1>1, <1>2, <2>1, QueuedAfter
  <2> QED
    BY <2>2 DEF SelectOK, cmds
<1> QED
  BY <1>2 DEF SelectOK

LEMMA SelectWaited ==
  ASSUME NEW x, NEW msg, NEW func, NEW y, Waited(x, msg, func, y), SelectOK(x)
  PROVE  SelectOK(y)
BY DEF Waited, Queued, SelectOK

-----------------------------------------------------------------------------
(* The connection, when a call sent the commands of order on it.           *)

\* Nothing happens to the connection and its events.
Stands == UNCHANGED <<conn, ticks, call, now, faults>>

LEMMA RepliesTyped ==
  ASSUME TypeOK, Serving
  PROVE  Replies \in Seq(Cmds) /\ Len(Replies) = Len(ticks)
<1>1. ticks \in Seq(Event)
  BY DEF TypeOK
<1>2. ASSUME NEW i \in 1 .. Len(ticks) PROVE ticks[i].of \in Cmds
  <2>1. ticks[i] \in Event /\ ticks[i].name = "recv"
    BY <1>1 DEF Serving
  <2> QED
    BY <2>1 DEF Event
<1> QED
  BY <1>1, <1>2 DEF Replies

LEMMA ServingSent ==
  ASSUME TypeOK, ConnOK, Serving, NEW order \in Seq(Cmds),
         c'.sendList = c.sendList \o order,
         wire' = IF conn.connected THEN wire \o order ELSE wire,
         selected', conn' = conn, ticks' = ticks
  PROVE  Serving'
<1>1. Replies \in Seq(Cmds)
  BY RepliesTyped
<1>2. Replies' = Replies
  BY DEF Replies
<1>3. wire' = wire \o order
  BY DEF Serving, ConnOK
<1>4. wire \in Seq(Cmds)
  BY DEF TypeOK, State, This
<1>5. (Replies \o wire) \o order = Replies \o (wire \o order)
  BY <1>1, <1>4
<1>6. c'.sendList = Replies' \o wire'
  BY <1>2, <1>3, <1>5 DEF Serving
<1> QED
  BY <1>6 DEF Serving

-----------------------------------------------------------------------------
(* Every action preserves the invariant.                                   *)

\* A call of Exec for Get or Set.
LEMMA ExecStep ==
  ASSUME IInv, NEW msg \in Msgs, NEW func \in Callers \cup {NoFunc},
         msg \in Gets => func \in Callers,
         Becomes(Exec(This, msg, func, FALSE)), Stands
  PROVE  \E y, order :
            /\ State(y) /\ SelectOK(y) /\ This' = y /\ got' = got /\ (selected => selected')
            /\ ConnOK' /\ SelectedOK' /\ LinkOK'
            /\ IF c.inited THEN Sent(This, [m \in {msg} |-> func], order, y)
               ELSE Waited(This, msg, func, y)
<1>1. /\ State(This) /\ now \in Nat /\ SelectOK(This) /\ ConnOK /\ SelectedOK /\ LinkOK
      /\ TypeOK
  BY DEF IInv, TypeOK
<1>2. msg \in Cmds /\ func \in Funs \cup {NoFunc} /\ func # Select
  BY CallersAreFunctions DEF Cmds, Funs, Select, NoFunc
<1>3. This.c = c /\ This.wire = wire /\ This.selected = selected /\ This.got = got
  BY DEF This
<1>4. ConnOK'
  BY <1>1 DEF ConnOK, Stands
<1>5. CASE ~c.inited
  <2>1. PICK y : y = Waits(This, msg, func)
    OBVIOUS
  <2>2. Becomes(y)
    BY <1>3, <1>5, <2>1 DEF Exec
  <2>3. Waited(This, msg, func, y)
    BY <1>1, <2>1, WaitsParts
  <2>4. State(y)
    BY <2>3 DEF Waited
  <2>5. This' = y /\ c' = y.c /\ wire' = y.wire /\ selected' = y.selected /\ got' = y.got
    BY <2>2, <2>4, BecomesParts
  <2>6. /\ c'.inited = c.inited /\ c'.lock = c.lock /\ c'.sendList = c.sendList
        /\ wire' = wire /\ selected' = selected /\ got' = got
    BY <1>3, <2>3, <2>5 DEF Waited
  <2>7. SelectOK(y)
    BY <1>1, <2>3, SelectWaited
  <2>8. SelectedOK'
    BY <1>1, <2>6 DEF SelectedOK, Stands
  <2>9. LinkOK'
    BY <1>1, <2>6 DEF LinkOK, Stands, Connecting, Announced, Serving, Before, Replies, Idle
  <2> QED
    BY <1>4, <1>5, <2>3, <2>4, <2>5, <2>6, <2>7, <2>8, <2>9
<1>6. CASE c.inited
  <2>1. PICK y : y = SendOne(This, msg, func)
    OBVIOUS
  <2>2. Becomes(y)
    BY <1>3, <1>6, <2>1 DEF Exec
  <2>3. PICK order \in Seq(Cmds) : Sent(This, [m \in {msg} |-> func], order, y)
    BY <1>1, <1>2, <2>1, SendOneParts
  <2>4. State(y)
    BY <2>3 DEF Sent
  <2>5. This' = y /\ c' = y.c /\ wire' = y.wire /\ selected' = y.selected /\ got' = y.got
    BY <2>2, <2>4, BecomesParts
  <2>6. /\ c'.inited = c.inited /\ c'.sendList = c.sendList \o order
        /\ wire' = IF conn.connected THEN wire \o order ELSE wire
        /\ selected => selected'
        /\ got' = got
    BY <1>3, <2>3, <2>5 DEF Sent
  <2>7. SelectOK(y)
    BY <1>1, <1>2, <2>3, SelectSent
  <2>8. SelectedOK'
    BY <1>1, <1>6, <2>6 DEF SelectedOK, Stands
  <2>9. LinkOK'
    <3>1. SUFFICES ASSUME faults = 0 PROVE Serving'
      BY DEF LinkOK, Stands
    <3>2. Serving
      BY <1>1, <1>6, <3>1 DEF LinkOK, Connecting, Announced, Before
    <3>3. selected'
      BY <2>6, <3>2 DEF Serving
    <3> QED
      BY <1>1, <2>6, <3>2, <3>3, ServingSent DEF Stands
  <2> QED
    BY <1>4, <1>6, <2>3, <2>4, <2>5, <2>6, <2>7, <2>8, <2>9
<1> QED
  BY <1>5, <1>6

LEMMA GetStep ==
  ASSUME IInv, NEW msg \in Gets, NEW func \in Callers, Get(msg, func)
  PROVE  IInv'
<1>1. /\ func \notin DOMAIN asked
      /\ asked' = [f \in DOMAIN asked \cup {func} |-> IF f = func THEN msg ELSE asked[f]]
      /\ dropped' = IF ~c.inited /\ msg \in DOMAIN c.initFuncs
                    THEN dropped \cup {c.initFuncs[msg]} ELSE dropped
      /\ Becomes(Exec(This, msg, func, FALSE)) /\ Stands
      /\ UNCHANGED <<conn, ticks, call, behind, misread, now, faults, sets>>
  BY DEF Get, Stands, bounded
<1>2. msg \in Msgs /\ msg \in Cmds /\ func \in Funs \cup {NoFunc} /\ func \in Callers \cup {NoFunc}
  BY DEF Msgs, Cmds, Funs
<1>3. PICK y, order :
         /\ State(y) /\ SelectOK(y) /\ This' = y /\ got' = got /\ (selected => selected')
         /\ ConnOK' /\ SelectedOK' /\ LinkOK'
         /\ IF c.inited THEN Sent(This, [m \in {msg} |-> func], order, y)
            ELSE Waited(This, msg, func, y)
  BY <1>1, <1>2, ExecStep
<1>4. State(This)' /\ SelectOK(This)'
  BY <1>3
<1>5. State(This) /\ now \in Nat /\ TypeOK
  BY DEF IInv, TypeOK
<1>6. PICK new : new = asked'
  OBVIOUS
<1>7. PICK less : less = Out'
  OBVIOUS
<1>8. /\ func \in DOMAIN new /\ new[func] = msg
      /\ \A f \in Callers \ {func} : (f \in DOMAIN new <=> f \in DOMAIN asked)
                                    /\ (f \in DOMAIN asked => new[f] = asked[f])
  BY <1>1, <1>6
<1>9. ASSUME NEW f \in Callers
      PROVE  Kept(y, f, new, less)
  <2>1. Kept(This, f, asked, Out)
    BY DEF IInv
  <2>2. CASE c.inited
    <3>1. Sent(This, [m \in {msg} |-> func], order, y) /\ less = Out
      BY <1>1, <1>3, <1>7, <2>2 DEF Out, Forgotten
    <3>2. CASE f = func
      BY <1>1, <1>2, <1>5, <1>8, <2>1, <3>1, <3>2, KeptSentNew
    <3>3. CASE f # func
      <4>1. Kept(y, f, asked, Out)
        BY <1>2, <1>5, <2>1, <3>1, <3>3, KeptSent
      <4> QED
        BY <1>8, <3>1, <3>3, <4>1 DEF Kept
    <3> QED
      BY <3>2, <3>3
  <2>3. CASE ~c.inited
    <3>1. Waited(This, msg, func, y)
      BY <1>3, <2>3
    <3>2. f \in less <=> f \in Out \/ Parked(This, f, msg)
      BY <1>1, <1>7, <2>3 DEF Parked, This, Out, Forgotten
    <3>3. CASE f = func
      <4>1. ~Parked(This, f, msg)
        BY <1>1, <1>2, <2>1, <3>3 DEF Kept
      <4>2. f \in less => f \in Out
        BY <3>2, <4>1
      <4> QED
        BY <1>1, <1>2, <1>8, <2>1, <3>1, <3>3, <4>2, KeptWaitedNew
    <3>4. CASE f # func
      <4>1. (f \in DOMAIN new <=> f \in DOMAIN asked) /\ (f \in DOMAIN asked => new[f] = asked[f])
        BY <1>8, <3>4
      <4> QED
        BY <1>2, <2>1, <3>1, <3>2, <3>4, <4>1, KeptWaited
    <3> QED
      BY <3>3, <3>4
  <2> QED
    BY <2>2, <2>3
<1>10. (\A f \in Callers : Kept(This, f, asked, Out))'
  BY <1>3, <1>6, <1>7, <1>9
<1>11. TypeOK'
  <2>1. Table(new, Callers, Gets)
    BY <1>1, <1>5, <1>6 DEF TypeOK, Table
  <2>2. dropped' \subseteq Callers
    <3>1. CASE ~c.inited /\ msg \in DOMAIN c.initFuncs
      <4>1. c.initFuncs[msg] \in Callers
        BY <1>5, <3>1 DEF State, Redis, Waiters, This
      <4> QED
        BY <1>1, <1>5, <3>1, <4>1 DEF TypeOK
    <3>2. CASE ~(~c.inited /\ msg \in DOMAIN c.initFuncs)
      BY <1>1, <1>5, <3>2 DEF TypeOK
    <3> QED
      BY <3>1, <3>2
  <2>3. Table(asked, Callers, Gets)' /\ (dropped \subseteq Callers)'
    BY <1>6, <2>1, <2>2
  <2> QED
    BY <1>1, <1>4, <1>5, <2>3 DEF TypeOK
<1>12. RightAnswer'
  <2>0. faults = 0 => misread = {}
    BY DEF IInv, RightAnswer
  <2>1. SUFFICES ASSUME NEW f \in DOMAIN new, faults = 0, got[f] # <<>>
                 PROVE  got[f][1] \in {new[f], Nothing}
    BY <1>1, <1>3, <1>6, <2>0 DEF RightAnswer, Nil
  <2>2. f \in Callers
    BY <1>1, <1>5, <1>6 DEF TypeOK, Table
  <2>3. f \in DOMAIN asked
    BY <2>1, <2>2 DEF IInv, Kept, This
  <2>4. new[f] = asked[f]
    BY <1>1, <1>8, <2>2, <2>3
  <2> QED
    BY <2>1, <2>3, <2>4 DEF IInv, RightAnswer, Nil
<1>13. CalledOK'
  <2>1. ASSUME NEW i \in DOMAIN call.funcs, call.funcs[i] \in Callers
        PROVE  call.funcs[i] \notin Forgotten' /\ new[call.funcs[i]] = asked[call.funcs[i]]
    <3>1. PICK f \in Callers : f = call.funcs[i]
      BY <2>1
    <3>2. f \in Out /\ f \notin Forgotten
      BY <3>1 DEF IInv, CalledOK, Out, ToSet
    <3>3. f \in DOMAIN asked /\ \A m \in Cmds : ~Parked(This, f, m)
      BY <3>2 DEF IInv, Kept
    <3>4. f \notin Forgotten'
      BY <1>1, <1>2, <3>2, <3>3 DEF Forgotten, Parked, This
    <3> QED
      BY <1>1, <1>8, <3>1, <3>3, <3>4
  <2> QED
    BY <1>1, <1>3, <1>6, <2>1 DEF CalledOK, IInv
<1> QED
  BY <1>3, <1>4, <1>10, <1>11, <1>12, <1>13 DEF IInv

LEMMA SetStep ==
  ASSUME IInv, NEW msg \in Sets, Set(msg)
  PROVE  IInv'
<1>1. /\ Becomes(Exec(This, msg, NoFunc, FALSE)) /\ Stands
      /\ sets' = sets + 1
      /\ UNCHANGED <<conn, ticks, call, asked, dropped, behind, misread, now, faults>>
  BY DEF Set, Stands
<1>2. msg \in Msgs /\ msg \in Cmds /\ msg \notin Gets
  BY CommandsDiffer DEF Msgs, Cmds
<1>3. PICK y, order :
         /\ State(y) /\ SelectOK(y) /\ This' = y /\ got' = got /\ (selected => selected')
         /\ ConnOK' /\ SelectedOK' /\ LinkOK'
         /\ IF c.inited THEN Sent(This, [m \in {msg} |-> NoFunc], order, y)
            ELSE Waited(This, msg, NoFunc, y)
  BY <1>1, <1>2, ExecStep
<1>4. State(This)' /\ SelectOK(This)'
  BY <1>3
<1>5. State(This) /\ now \in Nat /\ TypeOK
  BY DEF IInv, TypeOK
<1>6. ASSUME NEW f \in Callers
      PROVE  Kept(y, f, asked, Out)
  <2>1. Kept(This, f, asked, Out) /\ f # NoFunc
    BY CallersDiffer DEF IInv
  <2>2. CASE c.inited
    BY <1>2, <1>3, <1>5, <2>1, <2>2, KeptSent
  <2>3. CASE ~c.inited
    <3>1. ~Parked(This, f, msg)
      BY <1>2, <1>5, <2>1 DEF Kept, TypeOK, Table
    <3>2. (f \in Out <=> f \in Out \/ Parked(This, f, msg)) /\ Waited(This, msg, NoFunc, y)
      BY <1>3, <2>3, <3>1
    <3> QED
      BY <1>2, <2>1, <3>2, KeptWaited
  <2> QED
    BY <2>2, <2>3
<1>7. (\A f \in Callers : Kept(This, f, asked, Out))'
  <2>1. Out' = Out
    BY <1>1 DEF Out, Forgotten
  <2> QED
    BY <1>1, <1>3, <1>6, <2>1
<1>8. TypeOK'
  BY <1>1, <1>4, <1>5 DEF TypeOK
<1>9. RightAnswer'
  BY <1>1, <1>3 DEF RightAnswer, IInv
<1>10. CalledOK'
  BY <1>1, <1>3 DEF CalledOK, Forgotten, IInv
<1> QED
  BY <1>3, <1>4, <1>7, <1>8, <1>9, <1>10 DEF IInv

\* A step that leaves the functions where they are, and calls none.
LEMMA Unmoved ==
  ASSUME IInv, c'.initFuncs = c.initFuncs, c'.lock = c.lock,
         UNCHANGED <<call, asked, got, dropped, behind, misread>>,
         Idle \/ (UNCHANGED <<selected, faults>> /\ (now' < TIMEOUT => now < TIMEOUT))
  PROVE  /\ (\A f \in Callers : Kept(This, f, asked, Out))'
         /\ SelectOK(This)' /\ CalledOK'
<1>1. PICK y : y = This'
  OBVIOUS
<1>2. y.c.initFuncs = This.c.initFuncs /\ y.c.lock = This.c.lock /\ y.got = This.got
  BY <1>1 DEF This
<1>3. \A f, m, i : /\ Queued(y, f, m, i) <=> Queued(This, f, m, i)
                   /\ Parked(y, f, m) <=> Parked(This, f, m)
  BY <1>2 DEF Queued, Parked
<1>4. ASSUME NEW f \in Callers PROVE Kept(y, f, asked, Out)
  <2>1. Kept(This, f, asked, Out)
    BY DEF IInv
  <2> QED
    BY <1>2, <1>3, <2>1 DEF Kept
<1>5. SelectOK(y)
  BY <1>3 DEF SelectOK, IInv
<1>6. Out' = Out
  BY DEF Out, Forgotten
<1>7. CASE Idle
  BY <1>1, <1>4, <1>5, <1>6, <1>7, IdleCalled DEF Idle, Nil
<1>8. CASE ~Idle
  <2>1. CalledOK'
    BY <1>8 DEF CalledOK, Forgotten, IInv
  <2> QED
    BY <1>1, <1>4, <1>5, <1>6, <2>1
<1> QED
  BY <1>7, <1>8

\* One more event is posted.
Longer(t, e, u) ==
    /\ u \in Seq(Event) /\ Len(u) = Len(t) + 1
    /\ \A i \in DOMAIN u : (i = Len(t) + 1 /\ u[i] = e) \/ (i \in DOMAIN t /\ u[i] = t[i])

LEMMA Posted ==
  ASSUME NEW t \in Seq(Event), NEW e \in Event
  PROVE  Longer(t, e, Append(t, e))
<1> DEFINE u == Append(t, e)
<1>1. u \in Seq(Event) /\ Len(u) = Len(t) + 1 /\ u[Len(u)] = e
  BY AppendProperties
<1>2. \A i \in 1 .. Len(t) : u[i] = t[i]
  BY AppendProperties
<1>3. DOMAIN u = 1 .. Len(u) /\ DOMAIN t = 1 .. Len(t) /\ Len(t) \in Nat
  BY <1>1
<1> HIDE DEF u
<1>4. Longer(t, e, u)
  BY <1>1, <1>2, <1>3 DEF Longer
<1> QED
  BY <1>4 DEF u

LEMMA ConnectedStep ==
  ASSUME IInv, Connected
  PROVE  IInv'
<1>1. /\ conn.sock = "connecting" /\ conn' = [sock |-> "up", connected |-> TRUE]
      /\ ticks' = Append(ticks, [name |-> "connect"])
      /\ UNCHANGED <<c, wire, selected, call, asked, got, dropped, behind, misread, now, faults, sets>>
      /\ Idle
  BY DEF Connected, Post, history, bounded
<1>2. TypeOK /\ ConnOK /\ SelectedOK /\ LinkOK /\ RightAnswer /\ ticks \in Seq(Event)
  BY DEF IInv, TypeOK
<1>3. This' = This
  BY <1>1 DEF This
<1>4. [name |-> "connect"] \in [name : {"connect", "close", "error"}]
  OBVIOUS
<1>5. PICK e \in Event : e = [name |-> "connect"]
  BY <1>4 DEF Event
<1>6. /\ ticks' \in Seq(Event) /\ Len(ticks') = Len(ticks) + 1
      /\ \A i \in DOMAIN ticks' : \/ i = Len(ticks) + 1 /\ ticks'[i] = e
                                  \/ i \in DOMAIN ticks /\ ticks'[i] = ticks[i]
  <2>1. Longer(ticks, e, ticks')
    BY <1>1, <1>2, <1>5, Posted
  <2> QED
    BY <2>1 DEF Longer
<1>7. TypeOK'
  <2>1. conn' \in [sock : {"connecting", "up", "dead"}, connected : BOOLEAN]
    BY <1>1
  <2> QED
    BY <1>1, <1>2, <1>3, <1>6, <2>1 DEF TypeOK
<1>8. ConnOK'
  BY <1>1, <1>2, <1>5, <1>6 DEF ConnOK
<1>9. SelectedOK'
  BY <1>1, <1>2, <1>5, <1>6 DEF SelectedOK
<1>10. LinkOK'
  <2>1. CASE faults = 0
    <3>1. Connecting
      BY <1>1, <1>2, <2>1 DEF LinkOK, Announced, Serving
    <3>2. Announced'
      BY <1>1, <3>1 DEF Connecting, Announced, Before, Idle
    <3> QED
      BY <3>2 DEF LinkOK
  <2>2. CASE faults # 0
    BY <1>1, <2>2 DEF LinkOK
  <2> QED
    BY <2>1, <2>2
<1>11. RightAnswer'
  BY <1>1, <1>2 DEF RightAnswer
<1>12. (\A f \in Callers : Kept(This, f, asked, Out))' /\ SelectOK(This)' /\ CalledOK'
  BY <1>1, Unmoved
<1> QED
  BY <1>7, <1>8, <1>9, <1>10, <1>11, <1>12 DEF IInv

LEMMA LostStep ==
  ASSUME IInv, NEW ev \in {"error", "close"}, conn.sock # "dead", Lost(ev)
  PROVE  IInv'
<1>1. /\ conn' = [sock |-> "dead", connected |-> FALSE]
      /\ wire' = <<>> /\ faults' = faults + 1
      /\ ticks' = Append(ticks, [name |-> ev])
      /\ UNCHANGED <<c, selected, call, asked, got, dropped, behind, misread, now, sets>>
      /\ Idle
  BY DEF Lost, Post, history
<1>2. TypeOK /\ ConnOK /\ SelectedOK /\ ticks \in Seq(Event) /\ faults \in Nat
  BY DEF IInv, TypeOK
<1>3. PICK e \in Event : e = [name |-> ev] /\ e.name = ev
  <2>1. [name |-> ev] \in [name : {"connect", "close", "error"}]
    OBVIOUS
  <2> QED
    BY <2>1 DEF Event
<1>4. /\ ticks' \in Seq(Event) /\ Len(ticks') = Len(ticks) + 1
      /\ \A i \in DOMAIN ticks' : \/ i = Len(ticks) + 1 /\ ticks'[i] = e
                                  \/ i \in DOMAIN ticks /\ ticks'[i] = ticks[i]
  <2>1. Longer(ticks, e, ticks')
    BY <1>1, <1>2, <1>3, Posted
  <2> QED
    BY <2>1 DEF Longer
<1>5. TypeOK'
  <2>1. conn' \in [sock : {"connecting", "up", "dead"}, connected : BOOLEAN] /\ faults' \in Nat
    BY <1>1, <1>2
  <2>2. State(This)'
    BY <1>1, <1>2 DEF TypeOK, State, This
  <2> QED
    BY <1>1, <1>2, <1>4, <2>1, <2>2 DEF TypeOK
<1>6. ConnOK'
  BY <1>1, <1>2, <1>3, <1>4 DEF ConnOK
<1>7. SelectedOK'
  BY <1>1, <1>2, <1>3, <1>4 DEF SelectedOK
<1>8. LinkOK' /\ RightAnswer'
  BY <1>1, <1>2 DEF LinkOK, RightAnswer
<1>9. (\A f \in Callers : Kept(This, f, asked, Out))' /\ SelectOK(This)' /\ CalledOK'
  BY <1>1, Unmoved
<1> QED
  BY <1>5, <1>6, <1>7, <1>8, <1>9 DEF IInv

\* The first event is served.
Shorter(t, u) ==
    /\ u \in Seq(Event) /\ Len(u) = Len(t) - 1
    /\ \A i \in DOMAIN u : i + 1 \in DOMAIN t /\ u[i] = t[i + 1]

LEMMA Served ==
  ASSUME NEW t \in Seq(Event), t # <<>>
  PROVE  Shorter(t, Tail(t)) /\ Len(t) \in Nat \ {0} /\ t[1] \in Event
<1> HIDE DEF Event
<1> QED
  BY DEF Shorter

LEMMA AppendIsFunction ==
  ASSUME NEW S, NEW a \in Seq(S), NEW h
  PROVE  Append(a, h) = [i \in 1 .. Len(a) + 1 |-> IF i = Len(a) + 1 THEN h ELSE a[i]]
<1> DEFINE T == S \cup {h}
           l == Append(a, h)
           r == [i \in 1 .. Len(a) + 1 |-> IF i = Len(a) + 1 THEN h ELSE a[i]]
<1>1. a \in Seq(T) /\ h \in T
  OBVIOUS
<1> HIDE DEF T
<1>2. l \in Seq(T) /\ Len(l) = Len(a) + 1 /\ \A i \in 1 .. Len(a) + 1 : l[i] = r[i]
  BY <1>1
<1>3. r \in Seq(T) /\ Len(r) = Len(a) + 1
  BY <1>1
<1> HIDE DEF l, r
<1>4. l = r
  BY <1>2, <1>3, SeqEqual
<1> QED
  BY <1>4 DEF l, r

LEMMA MoveFirst ==
  ASSUME NEW S, NEW a \in Seq(S), NEW w \in Seq(S), w # <<>>
  PROVE  Append(a, Head(w)) \o Tail(w) = a \o w
<1> DEFINE l == Append(a, Head(w)) \o Tail(w)
           r == a \o w
<1>1. l \in Seq(S) /\ r \in Seq(S)
  BY ConcatProperties, AppendProperties
<1>2. Len(l) = Len(r)
  OBVIOUS
<1>3. \A i \in 1 .. Len(l) : l[i] = r[i]
  OBVIOUS
<1> QED
  BY <1>1, <1>2, <1>3, SeqEqual

LEMMA DropFirst ==
  ASSUME NEW S, NEW a \in Seq(S), NEW w \in Seq(S), a # <<>>
  PROVE  Tail(a \o w) = Tail(a) \o w /\ Head(a \o w) = a[1] /\ a \o w # <<>>
<1> DEFINE l == Tail(a \o w)
           r == Tail(a) \o w
<1>1. l \in Seq(S) /\ r \in Seq(S)
  BY ConcatProperties
<1>2. Len(l) = Len(r)
  OBVIOUS
<1>3. \A i \in 1 .. Len(l) : l[i] = r[i]
  OBVIOUS
<1> QED
  BY <1>1, <1>2, <1>3, SeqEqual

LEMMA ClientRecvStep ==
  ASSUME IInv, ClientRecv
  PROVE  IInv'
<1>1. /\ conn.sock = "up" /\ wire # <<>> /\ wire' = Tail(wire)
      /\ ticks' = Append(ticks, [name |-> "recv", of |-> Head(wire)])
      /\ UNCHANGED <<conn, c, selected, call, asked, got, dropped, behind, misread, now, faults, sets>>
      /\ Idle
  BY DEF ClientRecv, Post, history, bounded
<1>2. /\ TypeOK /\ ConnOK /\ SelectedOK /\ LinkOK /\ RightAnswer /\ ticks \in Seq(Event)
      /\ wire \in Seq(Cmds)
  BY DEF IInv, TypeOK, State, This
<1>3. PICK e \in Event : /\ e = [name |-> "recv", of |-> Head(wire)]
                        /\ e.name = "recv" /\ e.of = Head(wire)
  <2>1. Head(wire) \in Cmds
    BY <1>1, <1>2
  <2>2. [name |-> "recv", of |-> Head(wire)] \in [name : {"recv"}, of : Cmds]
    BY <2>1
  <2>3. [name |-> "recv", of |-> Head(wire)] \in Event
    BY <2>2, Zenon DEF Event
  <2>4. PICK e : e = [name |-> "recv", of |-> Head(wire)]
    OBVIOUS
  <2>5. e.name = "recv" /\ e.of = Head(wire)
    BY <2>4
  <2> QED
    BY <2>3, <2>4, <2>5, Zenon
<1>4. /\ ticks' \in Seq(Event) /\ Len(ticks') = Len(ticks) + 1
      /\ \A i \in DOMAIN ticks' : \/ i = Len(ticks) + 1 /\ ticks'[i] = e
                                  \/ i \in DOMAIN ticks /\ ticks'[i] = ticks[i]
  <2>1. Longer(ticks, e, ticks')
    BY <1>1, <1>2, <1>3, Posted
  <2> QED
    BY <2>1 DEF Longer
<1>5. TypeOK'
  <2>1. wire' \in Seq(Cmds)
    BY <1>1, <1>2
  <2>2. State(This)'
    BY <1>1, <1>2, <2>1 DEF TypeOK, State, This
  <2> QED
    BY <1>1, <1>2, <1>4, <2>2 DEF TypeOK
<1>6. ConnOK'
  BY <1>1, <1>2, <1>3, <1>4 DEF ConnOK
<1>7. SelectedOK'
  BY <1>1, <1>2 DEF SelectedOK
<1>8. LinkOK'
  <2>1. SUFFICES ASSUME faults = 0 PROVE Serving'
    BY <1>1 DEF LinkOK
  <2>2. Serving
    BY <1>1, <1>2, <2>1 DEF LinkOK, Connecting, Announced, Before
  <2>3. Replies \in Seq(Cmds) /\ Len(Replies) = Len(ticks)
    BY <1>2, <2>2, RepliesTyped
  <2>4. Replies' = Append(Replies, Head(wire))
    <3>1. \A i \in 1 .. Len(ticks) + 1 :
             ticks'[i].of = IF i = Len(ticks) + 1 THEN Head(wire) ELSE ticks[i].of
      BY <1>2, <1>3, <1>4
    <3>2. Append(Replies, Head(wire)) =
             [i \in 1 .. Len(ticks) + 1 |-> IF i = Len(ticks) + 1 THEN Head(wire) ELSE Replies[i]]
      BY <2>3, AppendIsFunction
    <3>3. \A i \in 1 .. Len(ticks) + 1 : i # Len(ticks) + 1 => Replies[i] = ticks[i].of
      BY <1>2 DEF Replies
    <3> QED
      BY <1>4, <3>1, <3>2, <3>3 DEF Replies
  <2>5. Append(Replies, Head(wire)) \o Tail(wire) = Replies \o wire
    BY <1>1, <1>2, <2>3, MoveFirst
  <2>6. c'.sendList = Replies' \o wire'
    BY <1>1, <2>2, <2>4, <2>5 DEF Serving
  <2>7. \A i \in DOMAIN ticks' : ticks'[i].name = "recv"
    BY <1>3, <1>4, <2>2 DEF Serving
  <2> QED
    BY <1>1, <2>2, <2>6, <2>7 DEF Serving
<1>9. RightAnswer'
  BY <1>1, <1>2 DEF RightAnswer
<1>10. (\A f \in Callers : Kept(This, f, asked, Out))' /\ SelectOK(This)' /\ CalledOK'
  BY <1>1, Unmoved
<1> QED
  BY <1>5, <1>6, <1>7, <1>8, <1>9, <1>10 DEF IInv

LEMMA PassStep ==
  ASSUME IInv, Pass
  PROVE  IInv'
<1>1. /\ now' = now + 1
      /\ UNCHANGED <<conn, c, wire, selected, ticks, call, asked, got, dropped, behind, misread,
                     faults, sets>>
  BY DEF Pass, history
<1>2. TypeOK /\ ConnOK /\ SelectedOK /\ LinkOK /\ RightAnswer /\ now \in Nat
  BY DEF IInv, TypeOK
<1>3. This' = This
  BY <1>1 DEF This
<1>4. TypeOK'
  BY <1>1, <1>2, <1>3 DEF TypeOK
<1>5. ConnOK' /\ RightAnswer'
  BY <1>1, <1>2 DEF ConnOK, RightAnswer
<1>6. SelectedOK'
  BY <1>1, <1>2, BoundsAreNat DEF SelectedOK
<1>7. LinkOK'
  BY <1>1, <1>2 DEF LinkOK, Connecting, Announced, Serving, Before, Replies, Idle
<1>8. (\A f \in Callers : Kept(This, f, asked, Out))' /\ SelectOK(This)' /\ CalledOK'
  BY <1>1, <1>2, BoundsAreNat, Unmoved
<1> QED
  BY <1>4, <1>5, <1>6, <1>7, <1>8 DEF IInv

\* An event is taken from the queue.
LEMMA TakeEvent ==
  ASSUME IInv, NEW ev, NextIs(ev)
  PROVE  /\ Idle /\ ticks # <<>> /\ ticks[1].name = ev /\ ticks[1] \in Event /\ Len(ticks) \in Nat \ {0}
         /\ 1 \in DOMAIN ticks
         /\ ticks' = Tail(ticks) /\ ticks' \in Seq(Event) /\ Len(ticks') = Len(ticks) - 1
         /\ \A i \in DOMAIN ticks' : i + 1 \in DOMAIN ticks /\ ticks'[i] = ticks[i + 1]
<1>1. Idle /\ ticks # <<>> /\ ticks[1].name = ev /\ ticks' = Tail(ticks) /\ ticks \in Seq(Event)
  BY DEF NextIs, IInv, TypeOK
<1>2. Shorter(ticks, ticks') /\ Len(ticks) \in Nat \ {0} /\ ticks[1] \in Event
  BY <1>1, Served
<1>3. 1 \in DOMAIN ticks
  BY <1>1, <1>2
<1> QED
  BY <1>1, <1>2, <1>3 DEF Shorter

\* The client is no longer ready, its locks and its queue stay.
LEMMA NotReady ==
  ASSUME State(This), NEW r, r = [c EXCEPT !.inited = FALSE]
  PROVE  /\ Redis(r) /\ ~r.inited /\ r.initFuncs = c.initFuncs /\ r.lock = c.lock
<1> DEFINE no == FALSE
<1>1. r = [c EXCEPT !.inited = no]
  OBVIOUS
<1>2. no \in BOOLEAN /\ ~no
  OBVIOUS
<1> HIDE DEF no
<1>3. r = Client(no, c.initFuncs, c.lock, c.sendList, c.timer)
  BY <1>1 DEF State, Redis, This, Client
<1>4. Redis(r)
  BY <1>2, <1>3 DEF State, Redis, This, Client
<1> QED
  BY <1>2, <1>3, <1>4 DEF Client

\* No fault, no event of one.
LEMMA FirstEvent ==
  ASSUME LinkOK, faults = 0, 1 \in DOMAIN ticks
  PROVE  ticks[1].name \in {"connect", "recv"}
<1>1. CASE Connecting
  BY <1>1 DEF Connecting
<1>2. CASE Announced
  <2>1. ticks[1] = [name |-> "connect"]
    BY <1>2 DEF Announced
  <2> QED
    BY <2>1
<1>3. CASE Serving
  BY <1>3 DEF Serving
<1> QED
  BY <1>1, <1>2, <1>3 DEF LinkOK

LEMMA OnCloseStep ==
  ASSUME IInv, OnClose
  PROVE  IInv'
<1>1. /\ NextIs("close") /\ c' = [c EXCEPT !.inited = FALSE]
      /\ UNCHANGED <<conn, wire, selected, call, asked, got, dropped, behind, misread, now, faults, sets>>
      /\ Idle
  BY DEF OnClose, NextIs, history, bounded
<1>2. /\ TypeOK /\ ConnOK /\ SelectedOK /\ LinkOK /\ RightAnswer /\ State(This)
  BY DEF IInv, TypeOK
<1>3. /\ ticks # <<>> /\ ticks[1].name = "close" /\ 1 \in DOMAIN ticks
      /\ ticks' \in Seq(Event) /\ Len(ticks') = Len(ticks) - 1 /\ Len(ticks) \in Nat \ {0}
      /\ \A i \in DOMAIN ticks' : i + 1 \in DOMAIN ticks /\ ticks'[i] = ticks[i + 1]
  BY <1>1, TakeEvent
<1>4. Redis(c') /\ ~c'.inited /\ c'.initFuncs = c.initFuncs /\ c'.lock = c.lock
  BY <1>1, <1>2, NotReady
<1>5. TypeOK'
  <2>1. State(This)'
    BY <1>1, <1>2, <1>4 DEF State, This
  <2> QED
    BY <1>1, <1>2, <1>3, <2>1 DEF TypeOK
<1>6. ConnOK'
  BY <1>1, <1>2, <1>3 DEF ConnOK
<1>7. SelectedOK'
  BY <1>1, <1>2, <1>3, <1>4 DEF SelectedOK
<1>8. faults # 0
  BY <1>2, <1>3, FirstEvent
<1>9. LinkOK' /\ RightAnswer'
  BY <1>1, <1>8 DEF LinkOK, RightAnswer
<1>10. (\A f \in Callers : Kept(This, f, asked, Out))' /\ SelectOK(This)' /\ CalledOK'
  BY <1>1, <1>4, Unmoved
<1> QED
  BY <1>5, <1>6, <1>7, <1>9, <1>10 DEF IInv

LEMMA OnErrorStep ==
  ASSUME IInv, OnError
  PROVE  IInv'
<1>1. /\ NextIs("error") /\ c' = [c EXCEPT !.inited = FALSE]
      /\ UNCHANGED <<call, asked, got, dropped, behind, misread, now, faults, sets>>
      /\ Idle
  BY DEF OnError, NextIs, history, bounded
<1>2. /\ TypeOK /\ ConnOK /\ SelectedOK /\ LinkOK /\ RightAnswer /\ State(This)
  BY DEF IInv, TypeOK
<1>3. /\ ticks # <<>> /\ ticks[1].name = "error" /\ 1 \in DOMAIN ticks
      /\ ticks' \in Seq(Event) /\ Len(ticks') = Len(ticks) - 1 /\ Len(ticks) \in Nat \ {0}
      /\ \A i \in DOMAIN ticks' : i + 1 \in DOMAIN ticks /\ ticks'[i] = ticks[i + 1]
  BY <1>1, TakeEvent
<1>4. Redis(c') /\ ~c'.inited /\ c'.initFuncs = c.initFuncs /\ c'.lock = c.lock
  BY <1>1, <1>2, NotReady
<1>5. conn.sock = "dead" /\ ~conn.connected /\ Len(ticks) = 1
  BY <1>2, <1>3 DEF ConnOK
<1>6. /\ conn' = [sock |-> "connecting", connected |-> FALSE]
      /\ wire' = <<>> /\ selected' = FALSE
  BY <1>5 DEF OnError
<1>7. ticks' = <<>>
  BY <1>3, <1>5
<1>8. TypeOK'
  <2>1. State(This)'
    <3>1. (wire \in Seq(Cmds))'
      BY <1>6
    <3>2. (selected \in BOOLEAN)'
      BY <1>6, Zenon
    <3> QED
      BY <1>1, <1>2, <1>4, <3>1, <3>2 DEF State, This
  <2>2. conn' \in [sock : {"connecting", "up", "dead"}, connected : BOOLEAN]
    BY <1>6
  <2> QED
    BY <1>1, <1>2, <1>3, <2>1, <2>2 DEF TypeOK
<1>9. ConnOK'
  BY <1>6, <1>7 DEF ConnOK
<1>10. SelectedOK'
  BY <1>4, <1>6, <1>7 DEF SelectedOK
<1>11. faults # 0
  BY <1>2, <1>3, FirstEvent
<1>12. LinkOK' /\ RightAnswer'
  BY <1>1, <1>11 DEF LinkOK, RightAnswer
<1>13. (\A f \in Callers : Kept(This, f, asked, Out))' /\ SelectOK(This)' /\ CalledOK'
  BY <1>1, <1>4, Unmoved
<1> QED
  BY <1>8, <1>9, <1>10, <1>12, <1>13 DEF IInv

LEMMA OnConnectStep ==
  ASSUME IInv, OnConnect
  PROVE  IInv'
<1>1. /\ NextIs("connect") /\ Becomes(SendOne(This, "SELECT", Select))
      /\ UNCHANGED <<conn, call, asked, dropped, behind, misread, now, faults, sets>>
      /\ Idle
  BY DEF OnConnect, Exec, NextIs, bounded
<1>2. /\ TypeOK /\ ConnOK /\ SelectedOK /\ LinkOK /\ RightAnswer /\ State(This) /\ now \in Nat
      /\ SelectOK(This)
  BY DEF IInv, TypeOK
<1>3. /\ ticks # <<>> /\ ticks[1].name = "connect" /\ 1 \in DOMAIN ticks
      /\ ticks' = Tail(ticks)
      /\ ticks' \in Seq(Event) /\ Len(ticks') = Len(ticks) - 1 /\ Len(ticks) \in Nat \ {0}
      /\ \A i \in DOMAIN ticks' : i + 1 \in DOMAIN ticks /\ ticks'[i] = ticks[i + 1]
  BY <1>1, TakeEvent
<1>4. "SELECT" \in Cmds /\ Select \in Funs \cup {NoFunc}
  BY DEF Cmds, Funs
<1>5. PICK y : y = SendOne(This, "SELECT", Select)
  OBVIOUS
<1>6. PICK order \in Seq(Cmds) :
         /\ Sent(This, [m \in {"SELECT"} |-> Select], order, y)
         /\ "SELECT" \notin DOMAIN This.c.lock => order = <<"SELECT">>
         /\ "SELECT" \in DOMAIN This.c.lock => order = <<>>
  BY <1>2, <1>4, <1>5, SendOneParts
<1>7. State(y)
  BY <1>6 DEF Sent
<1>8. This' = y /\ c' = y.c /\ wire' = y.wire /\ selected' = y.selected /\ got' = y.got
  BY <1>1, <1>5, <1>7, BecomesParts
<1>9. This.c = c /\ This.wire = wire /\ This.selected = selected /\ This.got = got
  BY DEF This
<1>10. /\ c'.inited = c.inited /\ c'.sendList = c.sendList \o order /\ got' = got
       /\ wire' = IF conn.connected THEN wire \o order ELSE wire
       /\ selected => selected'
       /\ conn.connected /\ "SELECT" \in ToSet(order) => selected'
  BY <1>6, <1>8, <1>9 DEF Sent
<1>11. SelectOK(This)'
  <2>1. SelectOK(y)
    BY <1>2, <1>4, <1>6, SelectSent
  <2> QED
    BY <1>8, <2>1
<1>12. (\A f \in Callers : Kept(This, f, asked, Out))'
  <2>1. ASSUME NEW f \in Callers PROVE Kept(y, f, asked, Out)
    <3>1. Kept(This, f, asked, Out) /\ f # Select
      BY CallersDiffer DEF IInv
    <3> QED
      BY <1>2, <1>4, <1>6, <3>1, KeptSent
  <2>2. Out' = Out
    BY <1>1 DEF Out, Forgotten
  <2> QED
    BY <1>1, <1>8, <2>1, <2>2
<1>13. TypeOK'
  BY <1>1, <1>2, <1>3, <1>7, <1>8 DEF TypeOK
<1>14. ConnOK'
  BY <1>1, <1>2, <1>3 DEF ConnOK
<1>15. order = <<>> \/ "SELECT" \in ToSet(order)
  BY <1>6, <1>9 DEF ToSet
<1>16. SelectedOK'
  <2>1. CASE conn.connected /\ order # <<>>
    BY <1>10, <1>15, <2>1 DEF SelectedOK
  <2>2. CASE ~(conn.connected /\ order # <<>>)
    <3>1. wire' = wire
      BY <1>2, <1>10, <2>2 DEF State, This
    <3> QED
      BY <1>1, <1>2, <1>3, <1>10, <3>1 DEF SelectedOK
  <2> QED
    BY <2>1, <2>2
<1>17. LinkOK'
  <2>1. SUFFICES ASSUME faults = 0 PROVE Serving'
    BY <1>1 DEF LinkOK
  <2>2. Announced
    BY <1>2, <1>3, <2>1 DEF LinkOK, Connecting, Serving
  <2>3. conn.connected /\ order = <<"SELECT">> /\ c.sendList = <<>> /\ wire = <<>>
    BY <1>2, <1>6, <1>9, <2>2 DEF Announced, Before, ConnOK
  <2>4. selected' /\ c'.sendList = <<"SELECT">> /\ wire' = <<"SELECT">>
    BY <1>10, <1>15, <2>3
  <2>5. ticks' = <<>>
    BY <1>3, <2>2 DEF Announced
  <2>6. Replies' = <<>>
    BY <2>5 DEF Replies
  <2>7. c'.sendList = Replies' \o wire'
    BY <2>4, <2>6
  <2> QED
    BY <1>1, <2>2, <2>4, <2>5, <2>7 DEF Serving, Announced
<1>18. RightAnswer'
  BY <1>1, <1>2, <1>10 DEF RightAnswer
<1>19. CalledOK'
  BY <1>1, IdleCalled DEF Idle, Nil
<1> QED
  BY <1>11, <1>12, <1>13, <1>14, <1>16, <1>17, <1>18, <1>19 DEF IInv

LEMMA TailIsFunction ==
  ASSUME NEW S, NEW a \in Seq(S), a # <<>>
  PROVE  Tail(a) = [i \in 1 .. Len(a) - 1 |-> a[i + 1]]
<1> DEFINE l == Tail(a)
           r == [i \in 1 .. Len(a) - 1 |-> a[i + 1]]
<1>1. l \in Seq(S) /\ Len(l) = Len(a) - 1 /\ \A i \in 1 .. Len(a) - 1 : l[i] = r[i]
  OBVIOUS
<1>2. r \in Seq(S) /\ Len(r) = Len(a) - 1
  OBVIOUS
<1> HIDE DEF l, r
<1>3. l = r
  BY <1>1, <1>2, SeqEqual
<1> QED
  BY <1>3 DEF l, r

-----------------------------------------------------------------------------
(* Functions are taken to be called, and called.                           *)

LEMMA TimeOutStep ==
  ASSUME IInv, TimeOut
  PROVE  IInv'
<1>1. PICK msgs : msgs = Expired
  OBVIOUS
<1>2. /\ Idle /\ msgs # {} /\ Call(Expire(This), msgs, Nothing)
      /\ UNCHANGED <<conn, ticks, asked, dropped, behind, misread, now, faults, sets>>
  BY <1>1 DEF TimeOut, bounded
<1>3. /\ TypeOK /\ ConnOK /\ SelectedOK /\ LinkOK /\ RightAnswer /\ State(This) /\ now \in Nat
  BY DEF IInv, TypeOK
<1>4. PICK x : x = Unlock(This, msgs)
  OBVIOUS
<1>5. Unlocked(This, msgs, x)
  BY <1>3, <1>4, UnlockParts
<1>6. Call(x, msgs, Nothing)
  BY <1>1, <1>2, <1>4 DEF Expire
<1>7. This.c = c /\ This.wire = wire /\ This.selected = selected /\ This.got = got
  BY DEF This
<1>8. msgs \subseteq DOMAIN c.lock
  BY <1>1 DEF Expired
<1>9. Calling(x, msgs) /\ x.c.sendList = c.sendList /\ x.wire = wire
  BY <1>5, <1>7, <1>8 DEF Unlocked, Calling
<1>10. ~(now < TIMEOUT)
  <2>1. PICK m \in DOMAIN c.lock : now - c.lock[m].time >= TIMEOUT
    BY <1>1, <1>2 DEF Expired
  <2>2. c.lock[m].time \in Nat
    BY <1>3 DEF State, Redis, Table, Lock, This
  <2> QED
    BY <1>3, <2>1, <2>2, BoundsAreNat
<1>11. /\ This' = x /\ State(This)' /\ SelectOK(This)' /\ call' \in Calls
       /\ (\A f \in Callers : Kept(This, f, asked, Out))' /\ CalledOK'
  BY <1>2, <1>6, <1>9, <1>10, CallStep
<1>12. c' = x.c /\ wire' = wire /\ selected' = selected /\ got' = got
  <2>1. Becomes(x)
    BY <1>6 DEF Call
  <2> QED
    BY <1>9, <2>1 DEF Becomes, Calling
<1>13. TypeOK'
  BY <1>2, <1>3, <1>11 DEF TypeOK
<1>14. ConnOK'
  BY <1>2, <1>3 DEF ConnOK
<1>15. SelectedOK'
  BY <1>2, <1>10 DEF SelectedOK
<1>16. LinkOK'
  <2>1. SUFFICES ASSUME faults = 0 PROVE Serving'
    BY <1>2 DEF LinkOK
  <2>2. Serving
    BY <1>2, <1>3, <1>8, <2>1 DEF LinkOK, Connecting, Announced, Before
  <2> QED
    BY <1>2, <1>9, <1>12, <2>2 DEF Serving, Replies
<1>17. RightAnswer'
  BY <1>2, <1>3, <1>12 DEF RightAnswer
<1> QED
  BY <1>11, <1>13, <1>14, <1>15, <1>16, <1>17 DEF IInv

\* A reply is handled: the first command of m_SendList is taken for answered.
LEMMA RecvStep ==
  ASSUME IInv, Idle, c.sendList # <<>>, NEW reply \in Cmds, Recv(reply),
         faults = 0 => reply = Head(c.sendList), now < TIMEOUT => selected,
         UNCHANGED <<asked, dropped, behind, now, faults>>
  PROVE  /\ State(This)' /\ SelectOK(This)' /\ call' \in Calls /\ misread' \subseteq Funs
         /\ (\A f \in Callers : Kept(This, f, asked, Out))' /\ CalledOK'
         /\ c'.sendList = Tail(c.sendList)
         /\ UNCHANGED <<wire, selected, got>>
         /\ faults = 0 => misread' = misread
<1>1. /\ State(This) /\ This.c = c /\ This.wire = wire /\ This.selected = selected
      /\ This.got = got /\ call \in Calls /\ misread \subseteq Funs
  BY DEF IInv, TypeOK, This
<1>2. PICK msg : msg = Head(c.sendList)
  OBVIOUS
<1>3. PICK x : x = [This EXCEPT !.c.sendList = Tail(@)]
  OBVIOUS
<1>4. Popped(This, x)
  BY <1>1, <1>3, TailParts
<1>5. Answer(msg, x, reply)
  BY <1>2, <1>3 DEF Recv, Nil
<1>6. CASE msg \notin DOMAIN c.lock \/ c.lock[msg].funcs = Nil
  <2>1. Becomes(x) /\ State(x) /\ UNCHANGED <<call, misread>>
    BY <1>4, <1>5, <1>6 DEF Popped, Answer
  <2>2. This' = x /\ c' = x.c /\ wire' = x.wire /\ selected' = x.selected /\ got' = x.got
    BY <2>1, BecomesParts
  <2>3. /\ c'.initFuncs = c.initFuncs /\ c'.lock = c.lock /\ got' = got
        /\ c'.sendList = Tail(c.sendList) /\ wire' = wire /\ selected' = selected
    BY <1>1, <1>4, <2>2 DEF Popped
  <2>4. /\ (\A f \in Callers : Kept(This, f, asked, Out))'
        /\ SelectOK(This)' /\ CalledOK'
    BY <2>1, <2>3, Unmoved
  <2>5. State(This)'
    BY <2>1, <2>2
  <2> QED
    BY <1>1, <2>1, <2>3, <2>4, <2>5
<1>7. CASE ~(msg \notin DOMAIN c.lock \/ c.lock[msg].funcs = Nil)
  <2>1. PICK y : y = Unlock(x, {msg})
    OBVIOUS
  <2>2. Unlocked(x, {msg}, y)
    BY <1>4, <2>1, UnlockParts DEF Popped
  <2>3. Calling(y, {msg}) /\ y.c.sendList = Tail(c.sendList) /\ y.wire = wire
    BY <1>1, <1>4, <1>7, <2>2 DEF Popped, Unlocked, Calling
  <2>4. ASSUME Becomes(y)
        PROVE  /\ c'.sendList = Tail(c.sendList)
               /\ UNCHANGED <<wire, selected, got>>
    BY <2>3, <2>4 DEF Becomes, Calling
  <2>5. CASE Call(y, {msg}, reply) /\ UNCHANGED misread
    <3>1. Becomes(y)
      BY <2>5 DEF Call
    <3>2. reply \in Cmds \cup {Nothing} /\ (faults = 0 => {msg} = {reply})
      BY <1>2
    <3>3. /\ State(This)' /\ SelectOK(This)' /\ call' \in Calls
          /\ (\A f \in Callers : Kept(This, f, asked, Out))' /\ CalledOK'
      BY <2>3, <2>5, <3>2, CallStep
    <3> QED
      BY <1>1, <2>4, <2>5, <3>1, <3>3
  <2>6. CASE /\ msg \in HGetAlls /\ reply \notin HGetAlls
             /\ Becomes(y)
             /\ misread' = misread \cup ToSet(c.lock[msg].funcs)
             /\ UNCHANGED call
    <3>1. /\ State(This)' /\ SelectOK(This)' /\ misread' \subseteq Funs
          /\ (\A f \in Callers : Kept(This, f, asked, Out))' /\ CalledOK'
      BY <1>7, <2>3, <2>6, MisreadStep
    <3>2. faults # 0
      BY <1>2, <2>6
    <3> QED
      BY <1>1, <2>4, <2>6, <3>1, <3>2
  <2> QED
    BY <1>5, <1>7, <2>1, <2>5, <2>6 DEF Answer
<1> QED
  BY <1>6, <1>7

LEMMA OnRecvStep ==
  ASSUME IInv, OnRecv
  PROVE  IInv'
<1>1. /\ NextIs("recv") /\ Recv(ticks[1].of) /\ Idle
      /\ UNCHANGED <<conn, asked, dropped, behind, now, faults, sets>>
  BY DEF OnRecv, NextIs, bounded
<1>2. /\ TypeOK /\ ConnOK /\ SelectedOK /\ LinkOK /\ RightAnswer /\ State(This)
      /\ ticks \in Seq(Event) /\ wire \in Seq(Cmds)
  BY DEF IInv, TypeOK, State, This
<1>3. /\ ticks # <<>> /\ ticks[1].name = "recv" /\ 1 \in DOMAIN ticks /\ ticks[1] \in Event
      /\ ticks' \in Seq(Event) /\ Len(ticks') = Len(ticks) - 1 /\ Len(ticks) \in Nat \ {0}
      /\ \A i \in DOMAIN ticks' : i + 1 \in DOMAIN ticks /\ ticks'[i] = ticks[i + 1]
  BY <1>1, TakeEvent
<1>4. PICK reply \in Cmds : reply = ticks[1].of
  BY <1>3 DEF Event
<1>5. ConnOK'
  BY <1>1, <1>2, <1>3 DEF ConnOK
<1>6. ASSUME faults = 0
      PROVE  /\ Serving /\ Replies \in Seq(Cmds) /\ Len(Replies) = Len(ticks)
             /\ c.sendList # <<>> /\ Head(c.sendList) = reply
             /\ Tail(c.sendList) = Tail(Replies) \o wire /\ Replies # <<>>
  <2>1. ~Announced /\ ~Connecting
    BY <1>3 DEF Announced, Connecting
  <2>2. Serving
    BY <1>2, <1>6, <2>1 DEF LinkOK
  <2>3. Replies \in Seq(Cmds) /\ Len(Replies) = Len(ticks)
    BY <1>2, <2>2, RepliesTyped
  <2>4. Replies # <<>> /\ Replies[1] = reply
    BY <1>3, <1>4, <2>3 DEF Replies
  <2>5. /\ Tail(Replies \o wire) = Tail(Replies) \o wire
        /\ Head(Replies \o wire) = Replies[1] /\ Replies \o wire # <<>>
    BY <1>2, <2>3, <2>4, DropFirst
  <2> QED
    BY <2>2, <2>3, <2>4, <2>5 DEF Serving
<1>7. now < TIMEOUT => selected
  BY <1>2, <1>3 DEF SelectedOK
<1>8. CASE c.sendList = <<>>
  <2>1. Becomes(This) /\ UNCHANGED <<call, misread>>
    BY <1>1, <1>8 DEF Recv, Nil
  <2>2. This' = This /\ UNCHANGED <<c, wire, selected, got>>
    BY <2>1 DEF Becomes, This
  <2>3. TypeOK'
    BY <1>1, <1>2, <1>3, <2>1, <2>2 DEF TypeOK
  <2>4. SelectedOK'
    BY <1>1, <1>2, <1>3, <2>2 DEF SelectedOK
  <2>5. LinkOK' /\ RightAnswer'
    BY <1>1, <1>6, <1>8 DEF LinkOK, RightAnswer
  <2>6. (\A f \in Callers : Kept(This, f, asked, Out))' /\ SelectOK(This)' /\ CalledOK'
    BY <1>1, <2>1, <2>2, Unmoved
  <2> QED
    BY <1>5, <2>3, <2>4, <2>5, <2>6 DEF IInv
<1>9. CASE c.sendList # <<>>
  <2>1. /\ State(This)' /\ SelectOK(This)' /\ call' \in Calls /\ misread' \subseteq Funs
        /\ (\A f \in Callers : Kept(This, f, asked, Out))' /\ CalledOK'
        /\ c'.sendList = Tail(c.sendList)
        /\ UNCHANGED <<wire, selected, got>>
        /\ faults = 0 => misread' = misread
    BY <1>1, <1>4, <1>6, <1>7, <1>9, RecvStep
  <2>2. TypeOK'
    BY <1>1, <1>2, <1>3, <2>1 DEF TypeOK
  <2>3. SelectedOK'
    BY <1>1, <1>7, <2>1 DEF SelectedOK
  <2>4. LinkOK'
    <3>1. SUFFICES ASSUME faults = 0 PROVE Serving'
      BY <1>1 DEF LinkOK
    <3>2. /\ Serving /\ Replies \in Seq(Cmds) /\ Len(Replies) = Len(ticks) /\ Replies # <<>>
          /\ Tail(c.sendList) = Tail(Replies) \o wire
      BY <1>6, <3>1
    <3>3. Replies' = Tail(Replies)
      <4>1. Tail(Replies) = [i \in 1 .. Len(ticks) - 1 |-> Replies[i + 1]]
        BY <3>2, TailIsFunction
      <4>2. \A i \in 1 .. Len(ticks) - 1 : Replies[i + 1] = ticks[i + 1].of
        BY <1>3 DEF Replies
      <4>3. \A i \in 1 .. Len(ticks) - 1 : ticks'[i] = ticks[i + 1]
        BY <1>3
      <4> QED
        BY <1>3, <4>1, <4>2, <4>3 DEF Replies
    <3>4. c'.sendList = Replies' \o wire'
      BY <2>1, <3>2, <3>3
    <3>5. \A i \in DOMAIN ticks' : ticks'[i].name = "recv"
      BY <1>3, <3>2 DEF Serving
    <3> QED
      BY <1>1, <2>1, <3>2, <3>4, <3>5 DEF Serving
  <2>5. RightAnswer'
    BY <1>1, <1>2, <2>1 DEF RightAnswer
  <2> QED
    BY <1>5, <2>1, <2>2, <2>3, <2>4, <2>5 DEF IInv
<1> QED
  BY <1>8, <1>9

\* The next function is taken from those to be called.
NextCalled ==
    /\ call' \in Calls /\ CalledOK'
    /\ \A f \in Callers : f \in Out' <=> f \in Out /\ f # Head(call.funcs)

LEMMA CallRest ==
  ASSUME IInv, ~Idle, selected => selected',
         call' = IF Tail(call.funcs) = Nil THEN NoCall
                 ELSE [call EXCEPT !.by = Head(call.funcs), !.funcs = Tail(call.funcs)],
         UNCHANGED <<asked, dropped, behind, misread, now, faults>>
  PROVE  NextCalled
<1>1. PICK fs \in Seq(Funs) : fs = call.funcs /\ fs # <<>>
  BY DEF IInv, TypeOK, Calls, Idle, Nil
<1>2. /\ Tail(fs) \in Seq(Funs) /\ Head(fs) \in Funs /\ Head(fs) = fs[1]
      /\ Len(Tail(fs)) = Len(fs) - 1 /\ Len(fs) \in Nat \ {0}
      /\ \A i \in DOMAIN Tail(fs) : i + 1 \in DOMAIN fs /\ i + 1 # 1 /\ Tail(fs)[i] = fs[i + 1]
      /\ \A i \in DOMAIN fs : i = 1 \/ (i - 1 \in DOMAIN Tail(fs) /\ Tail(fs)[i - 1] = fs[i])
      /\ 1 \in DOMAIN fs
  BY <1>1
<1>3. call'.funcs = Tail(fs) /\ (Tail(fs) # <<>> => call'.reply = call.reply)
  <2>1. call \in Calls
    BY DEF IInv, TypeOK
  <2> QED
    BY <1>1, <2>1 DEF Calls, NoCall, Nil
<1>4. call' \in Calls
  <2>1. call \in Calls
    BY DEF IInv, TypeOK
  <2>2. CASE Tail(fs) = <<>>
    BY <1>1, <2>2 DEF NoCall, Nil, Calls
  <2>3. CASE Tail(fs) # <<>>
    BY <1>1, <1>2, <2>1, <2>3 DEF Nil, Calls
  <2> QED
    BY <2>2, <2>3
<1>5. Forgotten' = Forgotten
  BY DEF Forgotten
<1>6. CalledOK
  BY DEF IInv
<1>7. CalledOK'
  <2>1. ASSUME NEW i \in DOMAIN Tail(fs), NEW j \in DOMAIN Tail(fs),
               Tail(fs)[i] \in Callers, Tail(fs)[i] = Tail(fs)[j]
        PROVE  i = j
    <3>1. fs[i + 1] \in Callers /\ fs[i + 1] = fs[j + 1]
          /\ i + 1 \in DOMAIN fs /\ j + 1 \in DOMAIN fs
      BY <1>2, <2>1
    <3>2. i + 1 = j + 1
      BY <1>1, <1>6, <3>1 DEF CalledOK
    <3>3. i \in Nat /\ j \in Nat
      BY <1>2
    <3> QED
      BY <3>2, <3>3
  <2>2. ASSUME NEW i \in DOMAIN Tail(fs), Tail(fs)[i] \in Callers
        PROVE  /\ Tail(fs)[i] \notin Forgotten
               /\ faults = 0 => call'.reply \in {asked[Tail(fs)[i]], Nothing}
    <3>1. fs[i + 1] = Tail(fs)[i] /\ i + 1 \in DOMAIN fs
      BY <1>2, <2>2
    <3>2. Tail(fs) # <<>>
      BY <2>2
    <3> QED
      BY <1>1, <1>3, <1>6, <2>2, <3>1, <3>2 DEF CalledOK
  <2>3. Select \in ToSet(Tail(fs)) => Select \in ToSet(fs)
    BY <1>2 DEF ToSet
  <2>4. now' < TIMEOUT /\ Select \in ToSet(Tail(fs)) => selected'
    BY <1>1, <1>6, <2>3 DEF CalledOK
  <2>5. PICK rest : rest = Tail(fs)
    OBVIOUS
  <2>6. call'.funcs = rest /\ asked' = asked /\ faults' = faults
    BY <1>3, <2>5
  <2>7. \A i, j \in DOMAIN rest : rest[i] \in Callers /\ rest[i] = rest[j] => i = j
    BY <2>1, <2>5
  <2>8. \A i \in DOMAIN rest : rest[i] \in Callers =>
           /\ rest[i] \notin Forgotten
           /\ faults = 0 => call'.reply \in {asked[rest[i]], Nothing}
    BY <2>2, <2>5
  <2>9. now' < TIMEOUT /\ Select \in ToSet(rest) => selected'
    BY <2>4, <2>5
  <2> QED
    BY <1>5, <2>6, <2>7, <2>8, <2>9 DEF CalledOK
<1>8. ASSUME NEW f \in Callers
      PROVE  f \in Out' <=> f \in Out /\ f # Head(call.funcs)
  <2>1. f \in ToSet(fs) <=> f = Head(fs) \/ f \in ToSet(Tail(fs))
    <3>1. ASSUME NEW i \in DOMAIN fs, f = fs[i] PROVE f = Head(fs) \/ f \in ToSet(Tail(fs))
      <4>1. CASE i = 1
        BY <1>2, <3>1, <4>1
      <4>2. CASE i # 1
        BY <1>2, <3>1, <4>2 DEF ToSet
      <4> QED
        BY <4>1, <4>2
    <3>2. f = Head(fs) => f \in ToSet(fs)
      BY <1>2 DEF ToSet
    <3>3. f \in ToSet(Tail(fs)) => f \in ToSet(fs)
      BY <1>2 DEF ToSet
    <3> QED
      BY <3>1, <3>2, <3>3 DEF ToSet
  <2>2. ~(f = Head(fs) /\ f \in ToSet(Tail(fs)))
    <3>1. SUFFICES ASSUME f = fs[1], NEW i \in DOMAIN Tail(fs), f = Tail(fs)[i] PROVE FALSE
      BY <1>2 DEF ToSet
    <3>2. f = fs[i + 1] /\ i + 1 \in DOMAIN fs /\ i + 1 # 1 /\ 1 \in DOMAIN fs
      BY <1>2, <3>1
    <3> QED
      BY <1>1, <1>6, <3>1, <3>2 DEF CalledOK
  <2>3. f = Head(fs) => f \notin Forgotten
    BY <1>1, <1>2, <1>6 DEF CalledOK
  <2> QED
    BY <1>1, <1>3, <1>5, <2>1, <2>2, <2>3 DEF Out
<1> QED
  BY <1>4, <1>7, <1>8 DEF NextCalled

LEMMA CallNextStep ==
  ASSUME IInv, CallNext
  PROVE  IInv'
<1>1. PICK f : f = Head(call.funcs)
  OBVIOUS
<1>2. /\ ~Idle
      /\ call' = IF Tail(call.funcs) = Nil THEN NoCall
                 ELSE [call EXCEPT !.by = Head(call.funcs), !.funcs = Tail(call.funcs)]
      /\ IF f = Select THEN \E order \in Orders(This) : Becomes(OnSelect(This, order))
         ELSE Becomes([This EXCEPT !.got[f] = Append(@, call.reply)])
      /\ UNCHANGED <<conn, ticks, asked, dropped, behind, misread, now, faults, sets>>
  BY <1>1 DEF CallNext, bounded
<1>3. /\ TypeOK /\ ConnOK /\ SelectedOK /\ LinkOK /\ RightAnswer /\ CalledOK /\ State(This)
      /\ SelectOK(This) /\ now \in Nat /\ call \in Calls
  BY DEF IInv, TypeOK
<1>4. 1 \in DOMAIN call.funcs /\ f = call.funcs[1] /\ f \in Funs /\ f \in ToSet(call.funcs)
  <2>1. PICK fs \in Seq(Funs) : fs = call.funcs /\ fs # <<>>
    BY <1>2, <1>3 DEF Calls, Idle, Nil
  <2>2. 1 \in DOMAIN fs /\ Head(fs) = fs[1] /\ fs[1] \in Funs
    BY <2>1
  <2> QED
    BY <1>1, <2>1, <2>2 DEF ToSet
<1>5. faults = 0 => Serving
  BY <1>2, <1>3 DEF LinkOK, Connecting, Announced, Before
<1>6. ConnOK'
  BY <1>2, <1>3 DEF ConnOK
<1>7. This.c = c /\ This.wire = wire /\ This.selected = selected /\ This.got = got
  BY DEF This
<1>8. CASE f = Select
  <2>1. PICK order \in Orders(This) : Becomes(OnSelect(This, order))
    BY <1>2, <1>8
  <2>2. PICK y : y = OnSelect(This, order)
    OBVIOUS
  <2>3. Readied(This, order, y) /\ order \in Seq(Cmds)
    BY <1>3, <2>2, OnSelectParts, OrdersParts
  <2>4. State(y)
    BY <2>3 DEF Readied
  <2>5. This' = y /\ c' = y.c /\ wire' = y.wire /\ selected' = y.selected /\ got' = y.got
    BY <2>1, <2>2, <2>4, BecomesParts
  <2>6. /\ c'.sendList = c.sendList \o order /\ got' = got
        /\ wire' = IF conn.connected THEN wire \o order ELSE wire
        /\ selected => selected'
    BY <1>7, <2>3, <2>5 DEF Readied
  <2>7. NextCalled
    BY <1>2, <2>6, CallRest
  <2>8. SelectOK(This)'
    <3>1. SelectOK(y)
      BY <1>3, <2>3, SelectReadied
    <3> QED
      BY <2>5, <3>1
  <2>9. PICK out : out = Out'
    OBVIOUS
  <2>10. ASSUME NEW g \in Callers PROVE Kept(y, g, asked, out)
    <3>1. Kept(This, g, asked, Out)
      BY DEF IInv
    <3>2. Kept(y, g, asked, Out)
      BY <1>3, <2>3, <3>1, KeptReadied
    <3>3. g \in out <=> g \in Out
      BY <1>1, <1>8, <2>7, <2>9, CallersDiffer DEF NextCalled
    <3> QED
      BY <3>2, <3>3 DEF Kept
  <2>11. (\A g \in Callers : Kept(This, g, asked, Out))'
    BY <1>2, <2>5, <2>9, <2>10
  <2>12. TypeOK'
    BY <1>2, <1>3, <2>4, <2>5, <2>7 DEF TypeOK, NextCalled
  <2>13. SelectedOK'
    BY <1>2, <1>3, <1>4, <1>8, <2>6 DEF SelectedOK, CalledOK
  <2>14. LinkOK'
    <3>1. SUFFICES ASSUME faults = 0 PROVE Serving'
      BY <1>2 DEF LinkOK
    <3>2. Serving /\ selected'
      BY <1>5, <2>6, <3>1 DEF Serving
    <3> QED
      BY <1>2, <1>3, <2>3, <2>6, <3>2, ServingSent
  <2>15. RightAnswer'
    BY <1>2, <1>3, <2>6 DEF RightAnswer
  <2> QED
    BY <1>6, <2>7, <2>8, <2>11, <2>12, <2>13, <2>14, <2>15 DEF IInv, NextCalled
<1>9. CASE f # Select
  <2>1. f \in Callers
    BY <1>4, <1>9 DEF Funs
  <2>2. f \in Out /\ Kept(This, f, asked, Out)
    BY <1>4, <2>1 DEF Out, IInv
  <2>3. got[f] = <<>> /\ f \in DOMAIN asked
    BY <1>7, <2>2 DEF Kept
  <2>4. PICK y : y = [This EXCEPT !.got[f] = Append(@, call.reply)]
    OBVIOUS
  <2>5. PICK g : g = [got EXCEPT ![f] = <<call.reply>>]
    OBVIOUS
  <2>6. got \in [Callers -> Seq(Cmds \cup {Nothing})] /\ call.reply \in Cmds \cup {Nothing}
    BY <1>3 DEF State, This, Calls
  <2>7. /\ g \in [Callers -> Seq(Cmds \cup {Nothing})] /\ g[f] = <<call.reply>>
        /\ \A h \in Callers : h # f => g[h] = got[h]
    BY <2>1, <2>5, <2>6
  <2>8. y = [c |-> c, wire |-> wire, selected |-> selected, got |-> g]
    <3>1. Append(<<>>, call.reply) = <<call.reply>>
      OBVIOUS
    <3>2. y = [c |-> c, wire |-> wire, selected |-> selected,
               got |-> [got EXCEPT ![f] = Append(got[f], call.reply)]]
      BY <2>4 DEF This
    <3> QED
      BY <2>3, <2>5, <3>1, <3>2
  <2>9. State(y)
    BY <1>3, <2>7, <2>8 DEF State, This
  <2>10. This' = y /\ c' = y.c /\ wire' = y.wire /\ selected' = y.selected /\ got' = y.got
    BY <1>2, <1>9, <2>4, <2>9, BecomesParts
  <2>11. c' = c /\ wire' = wire /\ selected' = selected /\ got' = g
    BY <2>8, <2>10
  <2>12. NextCalled
    BY <1>2, <2>11, CallRest
  <2>13. y.c = c /\ y.got = g
    BY <2>8
  <2>14. \A h, m, i : /\ Queued(y, h, m, i) <=> Queued(This, h, m, i)
                      /\ Parked(y, h, m) <=> Parked(This, h, m)
    BY <1>7, <2>13 DEF Queued, Parked
  <2>15. SelectOK(This)'
    <3>1. SelectOK(y)
      BY <1>3, <2>14 DEF SelectOK
    <3> QED
      BY <2>10, <3>1
  <2>16. PICK out : out = Out'
    OBVIOUS
  <2>17. ASSUME NEW h \in Callers PROVE Kept(y, h, asked, out)
    <3>1. Kept(This, h, asked, Out)
      BY DEF IInv
    <3>2. h \in out <=> h \in Out /\ h # f
      BY <1>1, <2>12, <2>16 DEF NextCalled
    <3>3. CASE h = f
      <4>0. <<call.reply>> # <<>> /\ Len(<<call.reply>>) = 1
        OBVIOUS
      <4>1. y.got[h] # <<>> /\ Len(y.got[h]) = 1
        BY <2>7, <2>13, <3>3, <4>0
      <4>2. \A m \in Cmds : ~Parked(y, h, m) /\ \A i \in Nat : ~Queued(y, h, m, i)
        BY <2>2, <2>14, <3>1, <3>3 DEF Kept
      <4> QED
        BY <2>3, <3>2, <3>3, <4>1, <4>2 DEF Kept
    <3>4. CASE h # f
      <4>1. y.got[h] = This.got[h]
        BY <1>7, <2>7, <2>13, <3>4
      <4> QED
        BY <2>14, <3>1, <3>2, <3>4, <4>1 DEF Kept
    <3> QED
      BY <3>3, <3>4
  <2>18. (\A h \in Callers : Kept(This, h, asked, Out))'
    BY <1>2, <2>10, <2>16, <2>17
  <2>19. TypeOK'
    BY <1>2, <1>3, <2>9, <2>10, <2>12 DEF TypeOK, NextCalled
  <2>20. SelectedOK'
    BY <1>2, <1>3, <2>11 DEF SelectedOK
  <2>21. LinkOK'
    BY <1>2, <1>5, <2>11 DEF LinkOK, Serving, Replies
  <2>22. RightAnswer'
    <3>0. faults = 0 => misread = {}
      BY <1>3 DEF RightAnswer
    <3>1. SUFFICES ASSUME NEW h \in DOMAIN asked, faults = 0, g[h] # <<>>
                   PROVE  g[h][1] \in {asked[h], Nothing}
      BY <1>2, <2>11, <3>0 DEF RightAnswer, Nil
    <3>2. h \in Callers
      BY <1>3 DEF TypeOK, Table
    <3>3. CASE h = f
      <4>1. call.reply \in {asked[f], Nothing}
        BY <1>3, <1>4, <2>1, <3>1 DEF CalledOK
      <4> QED
        BY <2>7, <3>3, <4>1
    <3>4. CASE h # f
      BY <1>3, <2>7, <3>1, <3>2, <3>4 DEF RightAnswer, Nil
    <3> QED
      BY <3>3, <3>4
  <2> QED
    BY <1>6, <2>12, <2>15, <2>18, <2>19, <2>20, <2>21, <2>22 DEF IInv, NextCalled
<1> QED
  BY <1>8, <1>9

LEMMA RaiseStep ==
  ASSUME IInv, Raise
  PROVE  IInv'
<1>1. /\ call' = NoCall /\ behind' = behind \cup ToSet(call.funcs)
      /\ UNCHANGED <<conn, c, wire, selected, ticks, asked, got, dropped, misread,
                     now, faults, sets>>
  BY DEF Raise, bounded
<1>2. /\ TypeOK /\ ConnOK /\ SelectedOK /\ LinkOK /\ RightAnswer /\ call \in Calls
      /\ SelectOK(This)
  BY DEF IInv, TypeOK
<1>3. This' = This
  BY <1>1 DEF This
<1>4. call' \in Calls /\ call'.funcs = <<>>
  BY <1>1 DEF NoCall, Calls, Nil
<1>5. ToSet(call.funcs) \subseteq Funs
  BY <1>2 DEF Calls, ToSet
<1>6. Out' = Out
  BY <1>1, <1>4 DEF Out, Forgotten, ToSet
<1>7. TypeOK'
  BY <1>1, <1>2, <1>3, <1>4, <1>5 DEF TypeOK
<1>8. (\A f \in Callers : Kept(This, f, asked, Out))' /\ SelectOK(This)'
  BY <1>1, <1>2, <1>3, <1>6 DEF IInv
<1>9. CalledOK'
  BY <1>4, IdleCalled
<1>10. ConnOK' /\ SelectedOK' /\ RightAnswer'
  BY <1>1, <1>2 DEF ConnOK, SelectedOK, RightAnswer
<1>11. LinkOK'
  BY <1>1, <1>2, <1>4 DEF LinkOK, Connecting, Announced, Serving, Before, Replies, Idle, Nil
<1> QED
  BY <1>7, <1>8, <1>9, <1>10, <1>11 DEF IInv

-----------------------------------------------------------------------------
(* The theorems.                                                           *)

LEMMA InitInv ==
  ASSUME Init
  PROVE  IInv
<1>1. /\ conn = [sock |-> "connecting", connected |-> FALSE]
      /\ c = Client(FALSE, <<>>, <<>>, <<>>, FALSE)
      /\ wire = <<>> /\ selected = FALSE /\ ticks = <<>>
      /\ call = NoCall /\ asked = <<>> /\ got = [f \in Callers |-> <<>>]
      /\ dropped = {} /\ behind = {} /\ misread = {}
      /\ now = 0 /\ faults = 0 /\ sets = 0
  BY DEF Init, Client
<1>2. /\ c.inited = FALSE /\ c.initFuncs = <<>> /\ c.lock = <<>> /\ c.sendList = <<>>
      /\ c.timer = FALSE
      /\ c = Client(c.inited, c.initFuncs, c.lock, c.sendList, c.timer)
  BY <1>1 DEF Client
<1>3. Waiters(<<>>) /\ Table(<<>>, Cmds, Lock) /\ Table(<<>>, Callers, Gets)
  BY FS_EmptySet DEF Waiters, Table
<1>4. c.inited \in BOOLEAN /\ c.timer \in BOOLEAN /\ selected \in BOOLEAN
  BY <1>1, <1>2, Zenon
<1>5. Redis(c)
  <2>1. DOMAIN c.lock = {} /\ IsFiniteSet(DOMAIN c.lock)
    BY <1>2, FS_EmptySet
  <2> QED
    BY <1>2, <1>3, <1>4, <2>1 DEF Redis, Client
<1>6. State(This)
  <2>1. got \in [Callers -> Seq(Cmds \cup {Nothing})] /\ wire \in Seq(Cmds)
    BY <1>1
  <2> QED
    BY <1>4, <1>5, <2>1 DEF State, This
<1>7. TypeOK
  <2>1. call \in Calls
    BY <1>1 DEF NoCall, Nil, Calls
  <2> QED
    BY <1>1, <1>3, <1>6, <2>1 DEF TypeOK
<1>8. \A f, m, i : ~Parked(This, f, m) /\ ~Queued(This, f, m, i)
  BY <1>2 DEF Parked, Queued, This
<1>9. \A f \in Callers : Kept(This, f, asked, Out)
  <2>1. Out = {}
    BY <1>1 DEF Out, Forgotten, NoCall, Nil, ToSet
  <2>2. \A f \in Callers : This.got[f] = <<>> /\ f \notin DOMAIN asked /\ f \notin Out
    BY <1>1, <2>1 DEF This
  <2> QED
    BY <1>8, <2>2 DEF Kept
<1>10. SelectOK(This)
  BY <1>8 DEF SelectOK
<1>11. conn.sock = "connecting" /\ ~conn.connected /\ DOMAIN ticks = {}
  BY <1>1
<1>12. ~c.inited /\ DOMAIN c.lock = {}
  BY <1>2
<1>13. ConnOK
  BY <1>11 DEF ConnOK
<1>14. SelectedOK
  BY <1>1, <1>11, <1>12 DEF SelectedOK
<1>15. LinkOK
  BY <1>1, <1>2, <1>11, <1>12 DEF LinkOK, Connecting, Before, Idle, NoCall
<1>16. RightAnswer
  BY <1>1 DEF RightAnswer
<1>17. CalledOK
  <2>1. DOMAIN call.funcs = {}
    BY <1>1 DEF NoCall, Nil
  <2> QED
    BY <2>1 DEF CalledOK, ToSet
<1> QED
  BY <1>7, <1>9, <1>10, <1>13, <1>14, <1>15, <1>16, <1>17 DEF IInv

LEMMA NextInv ==
  ASSUME IInv, [Next]_vars
  PROVE  IInv'
<1>1. ASSUME NEW msg \in Gets, NEW func \in Callers, Get(msg, func) PROVE IInv'
  BY <1>1, GetStep
<1>2. ASSUME NEW msg \in Sets, Set(msg) PROVE IInv'
  BY <1>2, SetStep
<1>3. CASE Connected
  BY <1>3, ConnectedStep
<1>4. CASE Error
  <2>1. conn.sock # "dead" /\ Lost("error")
    BY <1>4 DEF Error
  <2> QED
    BY <2>1, LostStep
<1>5. CASE Close
  <2>1. conn.sock # "dead" /\ Lost("close")
    BY <1>5 DEF Close
  <2> QED
    BY <2>1, LostStep
<1>6. CASE ClientRecv
  BY <1>6, ClientRecvStep
<1>7. CASE Serve
  BY <1>7, OnConnectStep, OnRecvStep, OnCloseStep, OnErrorStep DEF Serve
<1>8. CASE Pass
  BY <1>8, PassStep
<1>9. CASE TimeOut
  BY <1>9, TimeOutStep
<1>10. CASE UNCHANGED vars
  <2>1. /\ This' = This
        /\ UNCHANGED <<conn, c, wire, selected, ticks, call, asked, got, dropped, behind, misread,
                       now, faults, sets>>
    BY <1>10 DEF vars, This
  <2>2. TypeOK'
    BY <2>1 DEF IInv, TypeOK
  <2>3. ConnOK' /\ SelectedOK' /\ RightAnswer'
    BY <2>1 DEF IInv, ConnOK, SelectedOK, RightAnswer
  <2>4. LinkOK'
    BY <2>1 DEF IInv, LinkOK, Connecting, Announced, Serving, Before, Replies, Idle
  <2>5. (\A f \in Callers : Kept(This, f, asked, Out))' /\ SelectOK(This)' /\ CalledOK'
    BY <2>1, Unmoved
  <2> QED
    BY <2>2, <2>3, <2>4, <2>5 DEF IInv
<1>11. CASE CallNext
  BY <1>11, CallNextStep
<1>12. CASE Raise
  BY <1>12, RaiseStep
<1> QED
  BY <1>1, <1>2, <1>3, <1>4, <1>5, <1>6, <1>7, <1>8, <1>9, <1>10, <1>11, <1>12 DEF Next

LEMMA Inductive == Spec => []IInv
<1>1. Init => IInv
  BY InitInv
<1>2. IInv /\ [Next]_vars => IInv'
  BY NextInv
<1> QED
  BY <1>1, <1>2, PTL DEF Spec

\* The client's tables map commands to functions and to locks, its queues hold
\* commands, and its flags are booleans, whatever happens to the connection.
THEOREM TypeCorrect == Spec => []TypeOK
<1>1. IInv => TypeOK
  BY DEF IInv
<1> QED
  BY <1>1, Inductive, PTL

\* Until the connection fails, m_SendList is what was sent and not yet handled.
THEOREM QueueMatchesWire == Spec => []SendListIsSent
<1>1. ASSUME IInv PROVE SendListIsSent
  <2>1. SUFFICES ASSUME faults = 0, conn.connected PROVE c.sendList = Arrived \o wire
    BY DEF SendListIsSent
  <2>2. TypeOK /\ ConnOK /\ LinkOK /\ ticks \in Seq(Event)
    BY <1>1 DEF IInv, TypeOK
  <2>3. Announced \/ Serving
    BY <2>1, <2>2 DEF ConnOK, LinkOK, Connecting
  <2>4. CASE Announced
    <3>1. ticks[1] = [name |-> "connect"] /\ Len(ticks) = 1 /\ ticks # <<>>
      BY <2>4 DEF Announced
    <3>2. ticks[1].name = "connect"
      BY <3>1
    <3>3. Arrived = [i \in 1 .. 0 |-> ticks[i + 1].of]
      BY <3>1, <3>2 DEF Arrived
    <3>4. Arrived = <<>>
      BY <3>3
    <3> QED
      BY <2>4, <3>4 DEF Announced, Before
  <2>5. CASE Serving
    <3>1. ~(ticks # <<>> /\ ticks[1].name = "connect")
      BY <2>2, <2>5 DEF Serving
    <3>2. Arrived = [i \in 1 .. Len(ticks) - 0 |-> ticks[i + 0].of]
      BY <3>1 DEF Arrived
    <3>3. Arrived = Replies
      BY <2>2, <3>2 DEF Replies
    <3> QED
      BY <2>5, <3>3 DEF Serving
  <2> QED
    BY <2>3, <2>4, <2>5
<1> QED
  BY <1>1, Inductive, PTL

\* Until the connection fails, a function gets the reply to its own command,
\* or nothing after a time out, and HGETALL is answered by a table.
THEOREM ReplyIsOwn == Spec => []RightAnswer
<1>1. IInv => RightAnswer
  BY DEF IInv
<1> QED
  BY <1>1, Inductive, PTL

\* Whatever fails, times out or raises errors, a function that was given to Get
\* is in one place: it waits, or was called, once, or was lost because another
\* took its place, because one before it raised an error, or because its reply
\* could not be read.
THEOREM NoneForgotten == Spec => []KeptOrCalled
<1>1. ASSUME IInv PROVE KeptOrCalled
  <2>1. SUFFICES ASSUME NEW f \in DOMAIN asked
                 PROVE  /\ Len(got[f]) <= 1
                        /\ IF f \in Forgotten THEN f \notin Waiting /\ got[f] = Nil
                           ELSE (f \in Waiting) # (got[f] # Nil)
    BY DEF KeptOrCalled
  <2>2. f \in Callers /\ State(This)
    BY <1>1 DEF IInv, TypeOK, Table
  <2>3. Kept(This, f, asked, Out)
    BY <1>1, <2>2 DEF IInv
  <2>4. /\ DOMAIN c.lock \subseteq Cmds /\ DOMAIN c.initFuncs \subseteq Cmds
        /\ \A m \in DOMAIN c.lock : c.lock[m].funcs \in Seq(Funs)
    BY <2>2 DEF State, Redis, Waiters, Table, Lock, This, Cmds
  <2> DEFINE placed == \E m \in Cmds : Parked(This, f, m) \/ \E i \in Nat : Queued(This, f, m, i)
  <2>5. f \in Waiting <=> placed \/ f \in ToSet(call.funcs)
    <3>1. f \in Range(c.initFuncs) <=> \E m \in Cmds : Parked(This, f, m)
      BY <2>4 DEF Range, Parked, This
    <3>2. ASSUME NEW m \in DOMAIN c.lock
          PROVE  f \in ToSet(c.lock[m].funcs) <=> \E i \in Nat : Queued(This, f, m, i)
      BY <2>4 DEF ToSet, Queued, This
    <3>3. \A m, i : Queued(This, f, m, i) => m \in DOMAIN c.lock
      BY DEF Queued, This
    <3>4. f \in UNION {ToSet(c.lock[m].funcs) : m \in DOMAIN c.lock} <=>
             \E m \in Cmds : \E i \in Nat : Queued(This, f, m, i)
      BY <2>4, <3>2, <3>3
    <3> DEFINE locked == UNION {ToSet(c.lock[m].funcs) : m \in DOMAIN c.lock}
               parked == Range(c.initFuncs)
               called == ToSet(call.funcs)
    <3>5. Waiting = (parked \cup called) \cup locked
      BY DEF Waiting
    <3>6. placed <=> f \in parked \/ f \in locked
      BY <3>1, <3>4
    <3> HIDE DEF locked, parked, called, placed
    <3>7. f \in Waiting <=> placed \/ f \in called
      BY <3>5, <3>6
    <3> QED
      BY <3>7 DEF called, placed
  <2>6. Len(got[f]) <= 1
    BY <2>3 DEF Kept, This
  <2>7. f \in Forgotten => f \notin ToSet(call.funcs)
    BY <1>1, <2>2 DEF IInv, CalledOK, ToSet
  <2>8. f \in Out => ~placed /\ got[f] = Nil
    BY <2>3 DEF Kept, This, Nil
  <2>9. f \notin Out => (placed <=> got[f] = Nil)
    BY <2>1, <2>3 DEF Kept, This, Nil
  <2>10. f \in Out <=> f \in Forgotten \/ f \in ToSet(call.funcs)
    BY DEF Out
  <2> HIDE DEF placed
  <2> QED
    BY <2>5, <2>6, <2>7, <2>8, <2>9, <2>10
<1> QED
  BY <1>1, Inductive, PTL

\* Commands only reach the server after SELECT on the same connection, until
\* the lock of a SELECT whose connection failed can time out.
THEOREM SelectFirst == Spec => []DbSelected
<1>1. ASSUME IInv PROVE DbSelected
  <2>1. SUFFICES ASSUME faults = 0 \/ now < TIMEOUT, NEW i \in DOMAIN wire PROVE selected
    BY DEF DbSelected
  <2>2. wire # <<>>
    BY <2>1
  <2> QED
    BY <1>1, <2>1, <2>2
    DEF IInv, SelectedOK, LinkOK, Connecting, Announced, Serving, Before
<1> QED
  BY <1>1, Inductive, PTL
=============================================================================
