-------------------------- MODULE TcpServer_proofs --------------------------
(***************************************************************************)
(* Proofs about TcpServer.tla, for every set of client handles and all     *)
(* values of the bounds.                                                   *)
(***************************************************************************)
EXTENDS TcpServer, TLAPS

USE NoneIsNil, BoundsAreNat

\* A vfd not given out yet is not registered: Accept overwrites no entry.
Unissued == \A v \in Vfds : v > m_ClientVfd => vfd2obj[v] = None

IInv == TypeOK /\ TablesAgree /\ Unissued /\ NoErrorBeforeStop

\* The head and the tail of a queue have its type.
LEMMA HeadTailTyped ==
  ASSUME NEW S, NEW q \in Seq(S), q # <<>>
  PROVE  Head(q) \in S /\ Tail(q) \in Seq(S)
  OBVIOUS

\* Posting events keeps the queue well typed.
LEMMA PostsTyped ==
  ASSUME TypeOK, NEW n \in Nat, NEW e \in EventRecord,
         OnEvents(n, e)
  PROVE  /\ events' \in Seq(EventRecord)
         /\ posts' \in 0 .. MaxPosts
<1>1. [i \in 1 .. n |-> e] \in Seq(EventRecord)
  OBVIOUS
<1> QED
  BY <1>1 DEF OnEvents, TypeOK

LEMMA InitIInv == Init => IInv
  BY DEF Init, IInv, TypeOK, TablesAgree, Unissued, NoErrorBeforeStop, Vfds,
         EventNames, HandleStates

LEMMA AcceptIInv ==
  ASSUME IInv, NEW c \in Clients, Accept(c)
  PROVE  IInv'
<1> DEFINE w == m_ClientVfd + 1
<1> USE DEF NextVfd
<1>1. w \in Vfds /\ vfd2obj[w] = None
  BY DEF Accept, IInv, TypeOK, Vfds, Unissued
<1>2. obj2vfd[c] = None /\ w \notin keys
  BY <1>1 DEF Accept, IInv, TypeOK, TablesAgree
<1>3. TypeOK'
  <2>1. Event("accept", w) \in EventRecord
    BY <1>1 DEF Event, EventRecord, EventNames
  <2>2. /\ events' \in Seq(EventRecord)
        /\ posts' \in 0 .. MaxPosts
    BY <2>1, PostsTyped DEF Accept, OnEvent, IInv
  <2> QED
    BY <1>1, <2>2 DEF Accept, IInv, TypeOK, Vfds, HandleStates
<1>4. TablesAgree'
  <2>1. /\ vfd2obj' = [vfd2obj EXCEPT ![w] = c]
        /\ obj2vfd' = [obj2vfd EXCEPT ![c] = w]
        /\ keys' = keys \union {w}
        /\ handle' = [handle EXCEPT ![c] = "new"]
        /\ w # None /\ c # None
    BY <1>1 DEF Accept, Vfds
  <2>2. /\ vfd2obj \in [Vfds -> Clients \union {None}]
        /\ obj2vfd \in [Clients -> Vfds \union {None}]
        /\ handle \in [Clients -> HandleStates]
        /\ TablesAgree
    BY DEF IInv, TypeOK
  <2>3. \A v \in Vfds, d \in Clients : vfd2obj'[v] = d <=> obj2vfd'[d] = v
    <3> SUFFICES ASSUME NEW v \in Vfds, NEW d \in Clients
                 PROVE  vfd2obj'[v] = d <=> obj2vfd'[d] = v
      OBVIOUS
    <3>1. vfd2obj[v] = d <=> obj2vfd[d] = v
      BY <2>2 DEF TablesAgree
    <3>2. CASE v = w /\ d = c
      BY <3>2, <1>1, <2>1, <2>2
    <3>3. CASE v = w /\ d # c
      <4>1. vfd2obj'[v] = c /\ obj2vfd'[d] = obj2vfd[d]
        BY <3>3, <1>1, <2>1, <2>2
      <4>2. obj2vfd[d] # v
        BY <3>1, <3>3, <1>1
      <4> QED
        BY <3>3, <4>1, <4>2
    <3>4. CASE v # w /\ d = c
      <4>1. vfd2obj'[v] = vfd2obj[v] /\ obj2vfd'[d] = w
        BY <3>4, <1>1, <2>1, <2>2
      <4>2. obj2vfd[d] # v
        BY <3>4, <1>2 DEF Vfds
      <4> QED
        BY <3>1, <3>4, <4>1, <4>2
    <3>5. CASE v # w /\ d # c
      BY <3>1, <3>5, <1>1, <2>1, <2>2
    <3> QED
      BY <3>2, <3>3, <3>4, <3>5
  <2>4. \A v \in Vfds : v \in keys' <=> vfd2obj'[v] # None
    BY <1>1, <2>1, <2>2 DEF TablesAgree
  <2>5. \A d \in Clients : obj2vfd'[d] # None <=> handle'[d] \in {"new", "reading"}
    BY <1>1, <2>1, <2>2 DEF TablesAgree
  <2> QED
    BY <2>3, <2>4, <2>5 DEF TablesAgree
<1>5. Unissued' /\ NoErrorBeforeStop'
  BY <1>1 DEF Accept, IInv, TypeOK, Unissued, NoErrorBeforeStop, Vfds
<1> QED
  BY <1>3, <1>4, <1>5 DEF IInv

\* Dropping a registered client keeps the tables in step, and its handle is
\* not closed twice.
LEMMA DropTables ==
  ASSUME IInv, NEW v \in Vfds, NEW c \in Clients, vfd2obj[v] = c,
         NEW op \in {"OnClientLost", "CloseClient"}, Drop(v, c, op),
         m_ClientVfd' = m_ClientVfd, state' = state
  PROVE  /\ TablesAgree' /\ Unissued' /\ NoErrorBeforeStop'
         /\ vfd2obj' \in [Vfds -> Clients \union {None}]
         /\ obj2vfd' \in [Clients -> Vfds \union {None}]
         /\ keys' \subseteq Vfds
         /\ handle' \in [Clients -> HandleStates]
         /\ raised' = raised
<1>1. obj2vfd[c] = v /\ handle[c] \in {"new", "reading"}
  BY DEF IInv, TablesAgree, TypeOK, Vfds
<1>2. raised' = raised
  BY <1>1 DEF Drop
<1>3. TablesAgree'
  BY <1>1 DEF Drop, IInv, TablesAgree, TypeOK, HandleStates, Vfds
<1> QED
  BY <1>1, <1>2, <1>3 DEF Drop, IInv, TypeOK, Unissued, NoErrorBeforeStop,
                          HandleStates

LEMMA OnClientLostIInv ==
  ASSUME IInv, NEW c \in Clients, OnClientLost(c)
  PROVE  IInv'
<1> DEFINE v == obj2vfd[c]
<1>1. v \in Vfds /\ vfd2obj[v] = c
  BY DEF OnClientLost, IInv, TypeOK, TablesAgree
<1>2. Drop(v, c, "OnClientLost") /\ OnEvent("close", v)
  BY DEF OnClientLost
<1>3. /\ events' \in Seq(EventRecord)
      /\ posts' \in 0 .. MaxPosts
  <2>1. Event("close", v) \in EventRecord
    BY <1>1 DEF Event, EventRecord, EventNames
  <2> QED
    BY <1>2, <2>1, PostsTyped DEF OnEvent, IInv
<1>4. /\ TablesAgree' /\ Unissued' /\ NoErrorBeforeStop'
      /\ vfd2obj' \in [Vfds -> Clients \union {None}]
      /\ obj2vfd' \in [Clients -> Vfds \union {None}]
      /\ keys' \subseteq Vfds
      /\ handle' \in [Clients -> HandleStates]
      /\ raised' = raised
  BY <1>1, <1>2, DropTables DEF OnClientLost
<1> QED
  BY <1>3, <1>4 DEF OnClientLost, IInv, TypeOK

\* A call that raises after Stop changes nothing else.
LEMMA RaisesIInv ==
  ASSUME IInv, NEW op \in {"CloseClient", "Send", "Stop"}, RaisesAfterStop(op)
  PROVE  IInv'
<1>1. /\ state = "stopped" /\ raised' = raised \union {op}
      /\ UNCHANGED <<phase, state, m_ClientVfd, vfd2obj, obj2vfd, keys, cache,
                     handle, events, posts, seen>>
  BY DEF RaisesAfterStop, tables
<1>2. TypeOK'
  BY <1>1 DEF IInv, TypeOK
<1>3. TablesAgree' /\ Unissued'
  BY <1>1 DEF IInv, TablesAgree, Unissued
<1>4. NoErrorBeforeStop'
  BY <1>1 DEF NoErrorBeforeStop
<1> QED
  BY <1>2, <1>3, <1>4 DEF IInv

LEMMA CloseClientIInv ==
  ASSUME IInv, NEW v \in Vfds, CloseClient(v)
  PROVE  IInv'
<1>1. CASE RaisesAfterStop("CloseClient")
  BY <1>1, RaisesIInv
<1>2. CASE state # "stopped"
  <2>1. OnEvent("close", v) /\ UNCHANGED <<phase, state, m_ClientVfd, cache, seen>>
    BY <1>2 DEF CloseClient, RaisesAfterStop
  <2>2. /\ events' \in Seq(EventRecord)
        /\ posts' \in 0 .. MaxPosts
    <3>1. Event("close", v) \in EventRecord
      BY DEF Event, EventRecord, EventNames
    <3> QED
      BY <2>1, <3>1, PostsTyped DEF OnEvent, IInv
  <2>3. CASE vfd2obj[v] # None
    <3>1. vfd2obj[v] \in Clients /\ Drop(v, vfd2obj[v], "CloseClient")
      BY <1>2, <2>3 DEF CloseClient, RaisesAfterStop, IInv, TypeOK
    <3>2. /\ TablesAgree' /\ Unissued' /\ NoErrorBeforeStop'
          /\ vfd2obj' \in [Vfds -> Clients \union {None}]
          /\ obj2vfd' \in [Clients -> Vfds \union {None}]
          /\ keys' \subseteq Vfds
          /\ handle' \in [Clients -> HandleStates]
          /\ raised' = raised
      BY <2>1, <3>1, DropTables
    <3> QED
      BY <2>1, <2>2, <3>2 DEF IInv, TypeOK
  <2>4. CASE vfd2obj[v] = None
    <3>1. UNCHANGED <<tables, handle, raised>>
      BY <1>2, <2>4 DEF CloseClient, RaisesAfterStop
    <3> QED
      BY <2>1, <2>2, <3>1 DEF tables, IInv, TypeOK, TablesAgree, Unissued,
                              NoErrorBeforeStop
  <2> QED
    BY <2>3, <2>4
<1> QED
  BY <1>1, <1>2 DEF CloseClient

LEMMA RecvIInv ==
  ASSUME IInv, NEW c \in Clients, NEW n \in 0 .. MaxPaks, Recv(c, n)
  PROVE  IInv'
<1>1. obj2vfd[c] \in Vfds
  BY DEF Recv, IInv, TypeOK, TablesAgree
<1>2. Event("recv", obj2vfd[c]) \in EventRecord
  BY <1>1 DEF Event, EventRecord, EventNames
<1>3. /\ events' \in Seq(EventRecord)
      /\ posts' \in 0 .. MaxPosts
  <2>1. n \in Nat
    OBVIOUS
  <2> QED
    BY <1>2, <2>1, PostsTyped DEF Recv, IInv
<1> QED
  BY <1>1, <1>3 DEF Recv, tables, IInv, TypeOK, TablesAgree, Unissued,
                    NoErrorBeforeStop

LEMMA StopIInv ==
  ASSUME IInv, Stop
  PROVE  IInv'
<1>1. CASE RaisesAfterStop("Stop")
  BY <1>1, RaisesIInv
<1>2. CASE state # "stopped"
  <2>1. TypeOK' /\ Unissued' /\ NoErrorBeforeStop'
    BY <1>2 DEF Stop, RaisesAfterStop, IInv, TypeOK, Unissued,
                NoErrorBeforeStop, HandleStates
  <2>2. TablesAgree'
    BY <1>2 DEF Stop, RaisesAfterStop, IInv, TypeOK, TablesAgree, HandleStates, Vfds
  <2> QED
    BY <2>1, <2>2 DEF IInv
<1> QED
  BY <1>1, <1>2 DEF Stop

LEMMA DispatchIInv ==
  ASSUME IInv, Dispatch
  PROVE  IInv'
<1> DEFINE e == Head(events)
<1>1. /\ e \in EventRecord
      /\ Tail(events) \in Seq(EventRecord)
  BY HeadTailTyped DEF Dispatch, IInv, TypeOK
<1>2. /\ events' \in Seq(EventRecord)
      /\ seen' \in [Vfds -> Seq(EventNames)]
  <2>1. CASE e.name \in {"accept", "close"}
    <3>1. Event(Forwarded(e.name), e.vfd) \in EventRecord
      BY <1>1, <2>1 DEF Event, EventRecord, Forwarded, EventNames
    <3>2. /\ events' = Append(Tail(events), Event(Forwarded(e.name), e.vfd))
          /\ seen' = seen
      BY <2>1 DEF Dispatch
    <3> HIDE DEF e
    <3> QED
      BY <1>1, <3>1, <3>2 DEF IInv, TypeOK
  <2>2. CASE e.name \notin {"accept", "close"}
    <3>1. e.name \in EventNames /\ e.vfd \in Vfds
      BY <1>1 DEF EventRecord
    <3>2. /\ events' = Tail(events)
          /\ seen' = [seen EXCEPT ![e.vfd] = Append(@, e.name)]
      BY <2>2 DEF Dispatch
    <3> HIDE DEF e
    <3>3. seen[e.vfd] \in Seq(EventNames)
      BY <3>1 DEF IInv, TypeOK
    <3>4. Append(seen[e.vfd], e.name) \in Seq(EventNames)
      BY <3>1, <3>3
    <3> QED
      BY <1>1, <3>1, <3>2, <3>4 DEF IInv, TypeOK
  <2> QED
    BY <2>1, <2>2
<1> QED
  BY <1>2 DEF Dispatch, tables, IInv, TypeOK, TablesAgree, Unissued,
              NoErrorBeforeStop

LEMMA NextIInv == IInv /\ [Next]_vars => IInv'
<1> SUFFICES ASSUME IInv, [Next]_vars PROVE IInv'
  OBVIOUS
<1>1. ASSUME NEW v \in Vfds, Send(v) PROVE IInv'
  <2>1. CASE RaisesAfterStop("Send")
    BY <2>1, RaisesIInv
  <2>2. CASE UNCHANGED vars
    <3>1. UNCHANGED <<phase, state, m_ClientVfd, vfd2obj, obj2vfd, keys, cache,
                      handle, events, posts, seen, raised>>
      BY <2>2 DEF vars, tables
    <3> QED
      BY <3>1 DEF IInv, TypeOK, TablesAgree, Unissued, NoErrorBeforeStop
  <2> QED
    BY <1>1, <2>1, <2>2 DEF Send
<1>2. CASE BeginPoll
  <2>1. TypeOK'
    BY <1>2 DEF BeginPoll, IInv, TypeOK, tables, HandleStates
  <2>2. \A c \in Clients : handle'[c] \in {"new", "reading"}
                          <=> handle[c] \in {"new", "reading"}
    BY <1>2 DEF BeginPoll, IInv, TypeOK, HandleStates
  <2>3. TablesAgree' /\ Unissued' /\ NoErrorBeforeStop'
    BY <1>2, <2>2 DEF BeginPoll, IInv, TablesAgree, Unissued,
                      NoErrorBeforeStop, tables
  <2> QED
    BY <2>1, <2>3 DEF IInv
<1>3. CASE AcceptFailed \/ Start \/ EndPoll \/ Aborted \/ UNCHANGED vars
  <2>1. /\ UNCHANGED <<m_ClientVfd, tables, cache, handle, events, posts, seen,
                       raised>>
        /\ state' = state \/ (state = "created" /\ state' = "listening")
        /\ phase' \in {phase, "aborted", "timers"}
    BY <1>3 DEF AcceptFailed, Start, EndPoll, Aborted, vars, tables
  <2>2. TypeOK'
    BY <2>1 DEF IInv, TypeOK, tables
  <2>3. TablesAgree' /\ Unissued'
    BY <2>1 DEF IInv, TablesAgree, Unissued, tables
  <2>4. NoErrorBeforeStop'
    BY <2>1 DEF IInv, NoErrorBeforeStop
  <2> QED
    BY <2>2, <2>3, <2>4 DEF IInv
<1> QED
  BY <1>1, <1>2, <1>3, AcceptIInv, OnClientLostIInv, RecvIInv, StopIInv,
     CloseClientIInv, DispatchIInv DEF Next

LEMMA SpecIInv == Spec => []IInv
  BY InitIInv, NextIInv, PTL DEF Spec

\* Every reachable state is well typed.
THEOREM TypeCorrect == Spec => []TypeOK
<1>1. IInv => TypeOK
  BY DEF IInv
<1> QED
  BY <1>1, SpecIInv, PTL

\* The tables of CTcpServer always describe exactly the open connections.
THEOREM TablesDescribeOpenClients == Spec => []TablesAgree
<1>1. IInv => TablesAgree
  BY DEF IInv
<1> QED
  BY <1>1, SpecIInv, PTL

\* Until Stop, no operation of CTcpServer raises a Lua error.
THEOREM OperationsDoNotRaise == Spec => []NoErrorBeforeStop
<1>1. IInv => NoErrorBeforeStop
  BY DEF IInv
<1> QED
  BY <1>1, SpecIInv, PTL
-----------------------------------------------------------------------------
(* What the application is told about one connection.                      *)

Announcing == {"accept", "netaccept"}
Ending == {"close", "netclose"}

\* The places of v's events in the queue.
Of(v) == {i \in DOMAIN events : events[i].vfd = v}

\* A connection that was accepted has one announcing event on its way and
\* nothing else, until the application has seen it; after that no second
\* announcement follows.  Nothing is queued for a vfd not given out yet.
Announced(v) ==
    /\ v > m_ClientVfd => seen[v] = <<>> /\ Of(v) = {}
    /\ v <= m_ClientVfd /\ seen[v] = <<>> =>
          \E i \in Of(v) : Of(v) = {i} /\ events[i].name \in Announcing
    /\ seen[v] # <<>> =>
          /\ seen[v][1] = "netaccept"
          /\ \A i \in Of(v) : events[i].name \notin Announcing

\* From the moment its end is posted a connection is unregistered, and no
\* packet comes after.
Ended(v) ==
    /\ \A i \in Of(v) : events[i].name \in Ending =>
          /\ vfd2obj[v] = None
          /\ \A j \in Of(v) : j > i => events[j].name # "recv"
    /\ \A k \in DOMAIN seen[v] : seen[v][k] = "netclose" =>
          /\ vfd2obj[v] = None
          /\ \A j \in Of(v) : events[j].name # "recv"
          /\ \A l \in DOMAIN seen[v] : l > k => seen[v][l] = "netclose"

\* A handle that epoll watches belongs to a connection the application has
\* been told of: the queue was empty when uv__io_poll added it.
ReadingIsKnown ==
    \A c \in Clients : handle[c] = "reading" => seen[obj2vfd[c]] # <<>>

Told == (\A v \in Vfds : Announced(v) /\ Ended(v)) /\ ReadingIsKnown

ToldInv == IInv /\ Told

\* The queue after n copies of e were posted.
LEMMA PostsAt ==
  ASSUME TypeOK, NEW n \in Nat, NEW e \in EventRecord, OnEvents(n, e)
  PROVE  /\ Len(events) \in Nat
         /\ DOMAIN events = 1 .. Len(events)
         /\ DOMAIN events' = 1 .. Len(events) + n
         /\ \A i \in 1 .. Len(events) : events'[i] = events[i]
         /\ \A i \in 1 .. Len(events) + n : i > Len(events) => events'[i] = e
<1> DEFINE new == [i \in 1 .. n |-> e]
<1>1. new \in Seq(EventRecord) /\ Len(new) = n
  OBVIOUS
<1>2. events \in Seq(EventRecord) /\ events' = events \o new
  BY DEF TypeOK, OnEvents
<1>3. \A i \in 1 .. n : new[i] = e
  OBVIOUS
<1> HIDE DEF new
<1>4. /\ Len(events) \in Nat
      /\ DOMAIN events = 1 .. Len(events)
      /\ DOMAIN events' = 1 .. Len(events) + n
  BY <1>1, <1>2
<1>5. \A i \in 1 .. Len(events) : events'[i] = events[i]
  BY <1>1, <1>2, <1>4
<1>6. ASSUME NEW i \in 1 .. Len(events) + n, i > Len(events)
      PROVE  events'[i] = e
  <2>1. i - Len(events) \in 1 .. n
    BY <1>4, <1>6
  <2>2. events'[i] = new[i - Len(events)]
    BY <1>1, <1>2, <1>4, <1>6, <2>1
  <2> QED
    BY <1>3, <2>1, <2>2
<1> QED
  BY <1>4, <1>5, <1>6

\* Posting a packet of an open, known connection, or the end of a connection
\* that is unregistered by then, keeps what is told about every v in order.
LEMMA PostTold ==
  ASSUME TypeOK, NEW v \in Vfds, Announced(v), Ended(v),
         NEW n \in Nat, NEW e \in EventRecord, OnEvents(n, e),
         seen' = seen, m_ClientVfd' \in Nat,
         (v > m_ClientVfd') = (v > m_ClientVfd),
         vfd2obj'[v] \in {vfd2obj[v], None},
         e.vfd = v => /\ seen[v] # <<>>
                      /\ \/ e.name = "recv" /\ vfd2obj[v] # None
                         \/ e.name = "close" /\ vfd2obj'[v] = None
  PROVE  Announced(v)' /\ Ended(v)'
<1>1. /\ Len(events) \in Nat
      /\ DOMAIN events = 1 .. Len(events)
      /\ DOMAIN events' = 1 .. Len(events) + n
      /\ \A i \in 1 .. Len(events) : events'[i] = events[i]
      /\ \A i \in 1 .. Len(events) + n : i > Len(events) => events'[i] = e
  BY PostsAt
<1>2. \A i \in Of(v)' : i \in Of(v) \/ (e.vfd = v /\ events'[i] = e)
  BY <1>1 DEF Of
<1>3. \A i \in Of(v) : i \in Of(v)' /\ events'[i] = events[i] /\ i <= Len(events)
  BY <1>1 DEF Of
<1>4. m_ClientVfd \in Nat /\ v \in Nat /\ (v <= m_ClientVfd') = (v <= m_ClientVfd)
  BY DEF TypeOK, Vfds
<1>5. e.vfd # v => Of(v)' = Of(v)
  BY <1>2, <1>3
<1>6. Announced(v)'
  <2>1. CASE e.vfd # v
    BY <1>3, <1>4, <1>5, <2>1 DEF Announced
  <2>2. CASE e.vfd = v
    <3>1. seen[v] # <<>> /\ e.name \notin Announcing
      BY <2>2 DEF Announcing
    <3> QED
      BY <1>2, <1>3, <1>4, <3>1 DEF Announced
  <2> QED
    BY <2>1, <2>2
<1>7. Ended(v)'
  <2>1. CASE e.vfd # v
    BY <1>3, <1>5, <2>1 DEF Ended
  <2>2. CASE e.vfd = v /\ e.name = "recv" /\ vfd2obj[v] # None
    <3>1. \A i \in Of(v)' : events'[i].name \notin Ending
      BY <1>2, <1>3, <2>2 DEF Ended, Ending
    <3>2. \A k \in DOMAIN seen[v] : seen[v][k] # "netclose"
      BY <2>2 DEF Ended
    <3> QED
      BY <3>1, <3>2 DEF Ended
  <2>3. CASE e.vfd = v /\ e.name = "close" /\ vfd2obj'[v] = None
    <3>1. \A j \in Of(v)' : events'[j].name = "recv" => j \in Of(v)
      BY <1>2, <2>3
    <3>2. \A i \in Of(v)' : i \notin Of(v) => i > Len(events)
      BY <1>1, <1>2 DEF Of
    <3>3. ASSUME NEW i \in Of(v)', events'[i].name \in Ending,
                 NEW j \in Of(v)', j > i
          PROVE  events'[j].name # "recv"
      <4>1. i \in Nat /\ j \in Nat
        BY <1>1 DEF Of
      <4>2. CASE i \in Of(v)
        BY <1>3, <3>1, <3>3, <4>2 DEF Ended
      <4>3. CASE i \notin Of(v)
        BY <1>1, <1>3, <3>1, <3>2, <3>3, <4>1, <4>3
      <4> QED
        BY <4>2, <4>3
    <3> QED
      BY <1>3, <2>3, <3>1, <3>3 DEF Ended
  <2> QED
    BY <2>1, <2>2, <2>3
<1> QED
  BY <1>6, <1>7

\* A step that posts nothing, tells nothing and registers no one keeps it too.
LEMMA QuietTold ==
  ASSUME NEW v \in Vfds, Announced(v), Ended(v),
         UNCHANGED <<events, seen, m_ClientVfd>>,
         vfd2obj'[v] \in {vfd2obj[v], None}
  PROVE  Announced(v)' /\ Ended(v)'
  BY DEF Announced, Ended, Of

LEMMA AcceptTold ==
  ASSUME ToldInv, NEW c \in Clients, Accept(c)
  PROVE  Told'
<1>0. PICK w \in Vfds : w = m_ClientVfd + 1
  BY DEF Accept, NextVfd
<1> DEFINE e == Event("accept", w)
<1>1. TypeOK /\ w > m_ClientVfd /\ m_ClientVfd' = w
  BY <1>0 DEF ToldInv, IInv, TypeOK, Accept, NextVfd
<1>2. e \in EventRecord /\ e.vfd = w /\ e.name = "accept"
  BY <1>1 DEF Event, EventRecord, EventNames
<1>3. OnEvents(1, e) /\ seen' = seen
  BY <1>0 DEF Accept, OnEvent, NextVfd
<1>4. ASSUME NEW v \in Vfds, v # w
      PROVE  Announced(v)' /\ Ended(v)'
  <2>1. m_ClientVfd' \in Nat /\ (v > m_ClientVfd') = (v > m_ClientVfd)
    BY <1>0, <1>1, <1>4 DEF TypeOK, Vfds
  <2>2. vfd2obj'[v] = vfd2obj[v]
    BY <1>0, <1>4 DEF TypeOK, Accept, NextVfd
  <2>3. Announced(v) /\ Ended(v)
    BY DEF ToldInv, Told
  <2> HIDE DEF e
  <2> QED
    BY <1>1, <1>2, <1>3, <1>4, <2>1, <2>2, <2>3, PostTold
<1>5. Announced(w)' /\ Ended(w)'
  <2>1. seen[w] = <<>> /\ Of(w) = {}
    BY <1>1 DEF ToldInv, Told, Announced
  <2> HIDE DEF e
  <2>2. /\ Len(events) \in Nat
        /\ DOMAIN events = 1 .. Len(events)
        /\ DOMAIN events' = 1 .. Len(events) + 1
        /\ \A i \in 1 .. Len(events) : events'[i] = events[i]
        /\ \A i \in 1 .. Len(events) + 1 : i > Len(events) => events'[i] = e
    BY <1>1, <1>2, <1>3, PostsAt
  <2>3. /\ Of(w)' = {Len(events) + 1}
        /\ events'[Len(events) + 1].name = "accept"
    BY <1>2, <2>1, <2>2 DEF Of
  <2>4. w \in Nat
    BY <1>1 DEF Vfds
  <2>5. Announced(w)'
    BY <1>1, <1>3, <2>1, <2>3, <2>4 DEF Announced, Announcing
  <2>6. Ended(w)'
    BY <1>3, <2>1, <2>3 DEF Ended, Ending
  <2> QED
    BY <2>5, <2>6
<1>6. ReadingIsKnown'
  BY <1>3 DEF Accept, ToldInv, IInv, TypeOK, Told, ReadingIsKnown
<1> QED
  BY <1>4, <1>5, <1>6 DEF Told

\* The queue after the oldest event was taken: everything moves up by one, and
\* an event that is forwarded goes to the end.
LEMMA DispatchAt ==
  ASSUME TypeOK, Dispatch, NEW v \in Vfds
  PROVE  LET e == Head(events)
             forward == e.name \in {"accept", "close"}
         IN  /\ e = events[1] /\ 1 \in DOMAIN events
             /\ \A i \in Of(v) : i \in Nat /\ i >= 1
             /\ \A i \in Of(v) : i > 1 =>
                   i - 1 \in Of(v)' /\ events'[i - 1] = events[i]
             /\ \A i \in Of(v)' :
                   \/ i + 1 \in Of(v) /\ events'[i] = events[i + 1] /\ i \in Nat /\ i >= 1
                   \/ /\ i = Len(events) /\ forward /\ v = e.vfd
                      /\ events'[i] = Event(Forwarded(e.name), v)
             /\ forward /\ v = e.vfd => /\ Len(events) \in Of(v)'
                                        /\ events'[Len(events)] = Event(Forwarded(e.name), v)
<1> DEFINE e == Head(events)
           forward == e.name \in {"accept", "close"}
           t == Tail(events)
           f == Event(Forwarded(e.name), e.vfd)
<1>1. events \in Seq(EventRecord) /\ events # <<>>
  BY DEF TypeOK, Dispatch
<1>2. /\ e = events[1] /\ Len(events) \in Nat /\ Len(events) >= 1
      /\ DOMAIN events = 1 .. Len(events) /\ e \in EventRecord
  BY <1>1
<1>3. /\ t \in Seq(EventRecord) /\ Len(t) = Len(events) - 1
      /\ \A i \in 1 .. Len(events) - 1 : t[i] = events[i + 1]
  BY <1>1
<1>4. forward => f \in EventRecord /\ f.vfd = e.vfd
  BY <1>2 DEF Event, EventRecord, EventNames, Forwarded
<1>5. events' = IF forward THEN Append(t, f) ELSE t
  BY DEF Dispatch
<1> HIDE DEF e, t, f
<1>6. CASE forward
  <2>1. /\ DOMAIN events' = 1 .. Len(events)
        /\ \A i \in 1 .. Len(events) - 1 : events'[i] = events[i + 1]
        /\ events'[Len(events)] = f
    <3>1. events' = Append(t, f) /\ f \in EventRecord
      BY <1>4, <1>5, <1>6
    <3>2. /\ Len(events') = Len(t) + 1 /\ events' \in Seq(EventRecord)
          /\ events'[Len(t) + 1] = f
          /\ \A i \in 1 .. Len(t) : events'[i] = t[i]
      BY <1>3, <3>1
    <3>3. DOMAIN events' = 1 .. Len(events) /\ Len(t) + 1 = Len(events)
      BY <1>2, <1>3, <3>2
    <3> QED
      BY <1>2, <1>3, <3>2, <3>3
  <2>2. v = e.vfd => f = Event(Forwarded(e.name), v)
    BY DEF f
  <2> QED
    BY <1>2, <1>4, <1>6, <2>1, <2>2 DEF Of, e
<1>7. CASE ~forward
  <2>1. /\ DOMAIN events' = 1 .. Len(events) - 1
        /\ \A i \in 1 .. Len(events) - 1 : events'[i] = events[i + 1]
    BY <1>2, <1>3, <1>5, <1>7
  <2> QED
    BY <1>2, <1>7, <2>1 DEF Of, e
<1> QED
  BY <1>6, <1>7

LEMMA DispatchTold ==
  ASSUME ToldInv, Dispatch
  PROVE  Told'
<1>1. TypeOK /\ Told
  BY DEF ToldInv, IInv
<1>2. PICK e \in EventRecord : e = Head(events)
  BY <1>1, HeadTailTyped DEF Dispatch, TypeOK
<1>3. e.vfd \in Vfds /\ e.name \in EventNames
  BY DEF EventRecord
<1>4. /\ m_ClientVfd' = m_ClientVfd /\ vfd2obj' = vfd2obj /\ obj2vfd' = obj2vfd
      /\ handle' = handle
  BY DEF Dispatch, tables
<1>5. /\ e.name \in {"accept", "close"} => seen' = seen
      /\ e.name \notin {"accept", "close"} =>
            seen' = [seen EXCEPT ![e.vfd] = Append(@, e.name)]
  BY <1>2 DEF Dispatch
<1>6. ASSUME NEW v \in Vfds
      PROVE  Announced(v)' /\ Ended(v)'
  <2> DEFINE forward == e.name \in {"accept", "close"}
  <2>1. /\ e = events[1] /\ 1 \in DOMAIN events
        /\ \A i \in Of(v) : i \in Nat /\ i >= 1
        /\ \A i \in Of(v) : i > 1 =>
              i - 1 \in Of(v)' /\ events'[i - 1] = events[i]
        /\ \A i \in Of(v)' :
              \/ i + 1 \in Of(v) /\ events'[i] = events[i + 1] /\ i \in Nat /\ i >= 1
              \/ /\ i = Len(events) /\ forward /\ v = e.vfd
                 /\ events'[i] = Event(Forwarded(e.name), v)
        /\ forward /\ v = e.vfd => /\ Len(events) \in Of(v)'
                                   /\ events'[Len(events)] = Event(Forwarded(e.name), v)
    BY <1>1, <1>2, DispatchAt
  <2>2. Announced(v) /\ Ended(v) /\ v \in Nat /\ m_ClientVfd \in Nat
        /\ seen[v] \in Seq(EventNames) /\ Len(events) \in Nat
    BY <1>1 DEF Told, TypeOK, Vfds
  <2> HIDE DEF forward
  <2>3. CASE v # e.vfd
    <3>1. seen'[v] = seen[v] /\ 1 \notin Of(v)
      BY <1>1, <1>3, <1>5, <2>1, <2>3 DEF TypeOK, Of
    <3>2. /\ \A i \in Of(v) : i - 1 \in Of(v)' /\ events'[i - 1] = events[i]
          /\ \A i \in Of(v)' : i + 1 \in Of(v) /\ events'[i] = events[i + 1]
                               /\ i \in Nat
      BY <2>1, <2>3, <3>1
    <3>3. Announced(v)'
      <4>1. CASE Of(v) = {}
        BY <1>4, <2>2, <3>1, <3>2, <4>1 DEF Announced
      <4>2. CASE \E i \in Of(v) : Of(v) = {i} /\ events[i].name \in Announcing
        <5>1. PICK i \in Of(v) : Of(v) = {i} /\ events[i].name \in Announcing
          BY <4>2
        <5>2. Of(v)' = {i - 1} /\ events'[i - 1].name \in Announcing
          BY <2>1, <3>2, <5>1
        <5> QED
          BY <1>4, <2>2, <3>1, <5>1, <5>2 DEF Announced
      <4>3. CASE seen[v] # <<>>
        BY <1>4, <2>2, <3>1, <3>2, <4>3 DEF Announced
      <4> QED
        BY <2>2, <4>1, <4>2, <4>3 DEF Announced
    <3>4. Ended(v)'
      BY <1>4, <2>2, <3>1, <3>2 DEF Ended
    <3> QED
      BY <3>3, <3>4
  <2>4. CASE v = e.vfd /\ seen[v] = <<>>
    <3>1. Of(v) = {1} /\ e.name \in Announcing /\ v <= m_ClientVfd
      BY <2>1, <2>2, <2>4 DEF Announced, Of
    <3>2. CASE e.name = "accept"
      <4>1. seen' = seen /\ Of(v)' = {Len(events)}
            /\ events'[Len(events)].name = "netaccept"
        BY <1>5, <2>1, <2>2, <2>4, <3>1, <3>2 DEF forward, Event, Forwarded
      <4> QED
        BY <1>4, <2>2, <2>4, <3>1, <4>1 DEF Announced, Ended, Announcing, Ending
    <3>3. CASE e.name = "netaccept"
      <4>1. Of(v)' = {}
        BY <2>1, <2>2, <3>1, <3>3 DEF forward
      <4>2. seen'[v] = Append(<<>>, "netaccept")
        BY <1>1, <1>5, <2>4, <3>3 DEF TypeOK
      <4>3. seen'[v] # <<>> /\ seen'[v][1] = "netaccept" /\ DOMAIN seen'[v] = {1}
        BY <4>2
      <4> QED
        BY <1>4, <2>2, <3>1, <4>1, <4>3 DEF Announced, Ended
    <3> QED
      BY <3>1, <3>2, <3>3 DEF Announcing
  <2>5. CASE v = e.vfd /\ seen[v] # <<>>
    <3>1. 1 \in Of(v) /\ e.name \in {"recv", "close", "netclose"}
          /\ v <= m_ClientVfd /\ seen[v][1] = "netaccept"
      BY <1>3, <2>1, <2>2, <2>5 DEF Announced, Of, Announcing, EventNames
    <3>2. \A i \in Of(v)' : events'[i].name \notin Announcing
      <4>1. \A i \in Of(v) : events[i].name \notin Announcing
        BY <2>2, <2>5 DEF Announced
      <4>2. forward => Event(Forwarded(e.name), v).name \notin Announcing
        BY <3>1 DEF forward, Announcing, Event, Forwarded
      <4> QED
        BY <2>1, <4>1, <4>2
    <3>3. Len(seen[v]) \in Nat \ {0} /\ DOMAIN seen[v] = 1 .. Len(seen[v])
      BY <2>2, <2>5
    <3>4. CASE e.name = "close"
      <4>1. vfd2obj[v] = None /\ seen' = seen
            /\ \A j \in Of(v) : events[j].name # "recv"
        BY <1>5, <2>1, <2>2, <3>1, <3>4 DEF Ended, Ending
      <4>2. \A j \in Of(v)' : events'[j].name # "recv"
        BY <2>1, <2>5, <3>4, <4>1 DEF Event, Forwarded
      <4>3. Announced(v)'
        BY <1>4, <2>2, <2>5, <3>1, <3>2, <4>1 DEF Announced
      <4>4. Ended(v)'
        BY <1>4, <2>2, <4>1, <4>2 DEF Ended
      <4> QED
        BY <4>3, <4>4
    <3>5. CASE e.name \in {"recv", "netclose"}
      <4> DEFINE s == seen[v]
                 t == seen'[v]
      <4>1. t = Append(s, e.name)
        BY <1>1, <1>5, <2>5, <3>5 DEF TypeOK
      <4>2. /\ DOMAIN t = 1 .. Len(s) + 1
            /\ \A k \in 1 .. Len(s) : t[k] = s[k]
            /\ t[Len(s) + 1] = e.name /\ t # <<>>
        BY <1>3, <2>2, <4>1
      <4>3. \A i \in Of(v)' : i + 1 \in Of(v) /\ events'[i] = events[i + 1] /\ i \in Nat
                              /\ i >= 1
        BY <2>1, <3>5 DEF forward
      <4>4. Announced(v)'
        <5>1. t[1] = "netaccept"
          BY <3>1, <3>3, <4>2
        <5> QED
          BY <1>4, <2>2, <3>1, <3>2, <4>2, <5>1 DEF Announced
      <4>5. \A i \in Of(v)' : events'[i].name \in Ending =>
               /\ vfd2obj[v] = None
               /\ \A j \in Of(v)' : j > i => events'[j].name # "recv"
        BY <2>2, <4>3 DEF Ended
      <4>6. ASSUME NEW k \in DOMAIN t, t[k] = "netclose"
            PROVE  /\ vfd2obj[v] = None
                   /\ \A j \in Of(v)' : events'[j].name # "recv"
                   /\ \A l \in DOMAIN t : l > k => t[l] = "netclose"
        <5>1. CASE k \in 1 .. Len(s)
          <6>1. s[k] = "netclose" /\ k \in DOMAIN s
            BY <3>3, <4>2, <4>6, <5>1
          <6>2. /\ vfd2obj[v] = None
                /\ \A j \in Of(v) : events[j].name # "recv"
                /\ \A l \in DOMAIN s : l > k => s[l] = "netclose"
            BY <2>2, <6>1 DEF Ended
          <6>3. e.name = "netclose"
            BY <2>1, <3>1, <3>5, <6>2
          <6> HIDE DEF s, t
          <6>4. \A l \in DOMAIN t : l > k => t[l] = "netclose"
            BY <3>3, <4>2, <6>2, <6>3 DEF s
          <6> QED
            BY <4>3, <6>2, <6>4
        <5>2. CASE k = Len(s) + 1
          <6>1. e.name = "netclose"
            BY <4>2, <4>6, <5>2
          <6>2. /\ vfd2obj[v] = None
                /\ \A j \in Of(v) : j > 1 => events[j].name # "recv"
            BY <2>1, <2>2, <3>1, <6>1 DEF Ended, Ending
          <6>3. \A j \in Of(v)' : events'[j].name # "recv"
            BY <4>3, <6>2
          <6> HIDE DEF s, t
          <6>4. \A l \in DOMAIN t : ~(l > k)
            BY <3>3, <4>2, <5>2 DEF s
          <6> QED
            BY <6>2, <6>3, <6>4
        <5> QED
          BY <3>3, <4>2, <4>6, <5>1, <5>2
      <4>7. Ended(v)'
        BY <1>4, <4>5, <4>6 DEF Ended
      <4> QED
        BY <4>4, <4>7
    <3> QED
      BY <3>1, <3>4, <3>5
  <2> QED
    BY <2>3, <2>4, <2>5
<1>7. ReadingIsKnown'
  <2> SUFFICES ASSUME NEW c \in Clients, handle[c] = "reading"
               PROVE  seen'[obj2vfd[c]] # <<>>
    BY <1>4 DEF ReadingIsKnown
  <2>1. seen[obj2vfd[c]] # <<>> /\ obj2vfd[c] \in Vfds
    BY <1>1 DEF Told, ReadingIsKnown, ToldInv, IInv, TablesAgree, TypeOK
  <2>2. Append(seen[e.vfd], e.name) # <<>>
    <3>1. seen[e.vfd] \in Seq(EventNames)
      BY <1>1, <1>3 DEF TypeOK
    <3> QED
      BY <1>3, <3>1
  <2> QED
    BY <1>1, <1>5, <2>1, <2>2 DEF TypeOK
<1> QED
  BY <1>6, <1>7 DEF Told

LEMMA RecvTold ==
  ASSUME ToldInv, NEW c \in Clients, NEW n \in 0 .. MaxPaks, Recv(c, n)
  PROVE  Told'
<1>1. TypeOK /\ Told /\ obj2vfd[c] \in Vfds /\ vfd2obj[obj2vfd[c]] = c
  BY DEF ToldInv, IInv, Recv, TypeOK, TablesAgree
<1>2. PICK w \in Vfds : w = obj2vfd[c]
  BY <1>1
<1>3. PICK e \in EventRecord : e = Event("recv", w)
  BY DEF Event, EventRecord, EventNames
<1>4. e.vfd = w /\ e.name = "recv"
  BY <1>3 DEF Event
<1>5. /\ OnEvents(n, e) /\ n \in Nat /\ seen' = seen /\ seen[w] # <<>>
      /\ m_ClientVfd' = m_ClientVfd /\ m_ClientVfd \in Nat
      /\ vfd2obj' = vfd2obj /\ obj2vfd' = obj2vfd /\ handle' = handle
  BY <1>1, <1>2, <1>3 DEF Recv, tables, Told, ReadingIsKnown, TypeOK
<1>6. ASSUME NEW v \in Vfds PROVE Announced(v)' /\ Ended(v)'
  <2>1. Announced(v) /\ Ended(v) /\ (e.vfd = v => vfd2obj[v] # None)
    BY <1>1, <1>2, <1>4 DEF Told
  <2> QED
    BY <1>1, <1>4, <1>5, <2>1, PostTold
<1>7. ReadingIsKnown'
  BY <1>1, <1>5 DEF Told, ReadingIsKnown
<1> QED
  BY <1>6, <1>7 DEF Told

\* The end of a connection the application knows is posted when the client
\* is dropped, and when it is gone already.
LEMMA CloseTold ==
  ASSUME ToldInv, NEW w \in Vfds, seen[w] # <<>>, OnEvent("close", w),
         UNCHANGED <<seen, m_ClientVfd>>,
         \/ \E c \in Clients, op \in {"OnClientLost", "CloseClient"} :
               vfd2obj[w] = c /\ Drop(w, c, op)
         \/ vfd2obj[w] = None /\ UNCHANGED <<vfd2obj, obj2vfd, handle>>
  PROVE  Told'
<1>1. TypeOK /\ Told /\ m_ClientVfd \in Nat
  BY DEF ToldInv, IInv, TypeOK
<1>2. PICK e \in EventRecord : e = Event("close", w)
  BY DEF Event, EventRecord, EventNames
<1>3. e.vfd = w /\ e.name = "close" /\ OnEvents(1, e)
  BY <1>2 DEF Event, OnEvent
<1>4. /\ vfd2obj'[w] = None
      /\ \A v \in Vfds : v # w => vfd2obj'[v] = vfd2obj[v]
  BY <1>1 DEF Drop, TypeOK
<1>5. ASSUME NEW v \in Vfds PROVE Announced(v)' /\ Ended(v)'
  <2>1. Announced(v) /\ Ended(v)
    BY <1>1 DEF Told
  <2> QED
    BY <1>1, <1>3, <1>4, <2>1, PostTold
<1>6. ReadingIsKnown'
  <2>1. \A d \in Clients : handle'[d] = "reading" =>
           handle[d] = "reading" /\ obj2vfd'[d] = obj2vfd[d]
    BY <1>1 DEF Drop, TypeOK
  <2> QED
    BY <1>1, <2>1 DEF Told, ReadingIsKnown
<1> QED
  BY <1>5, <1>6 DEF Told

LEMMA NextTold == ToldInv /\ [Next]_vars => ToldInv'
<1> SUFFICES ASSUME ToldInv, [Next]_vars PROVE Told'
  BY NextIInv DEF ToldInv
<1>1. TypeOK /\ Told /\ TablesAgree
  BY DEF ToldInv, IInv
<1>2. ASSUME UNCHANGED <<events, seen, m_ClientVfd>>,
             \A v \in Vfds : vfd2obj'[v] \in {vfd2obj[v], None},
             \A c \in Clients : handle'[c] = "reading" =>
                 \/ handle[c] = "reading" /\ obj2vfd'[c] = obj2vfd[c]
                 \/ obj2vfd'[c] \in Vfds /\ seen[obj2vfd'[c]] # <<>>
      PROVE  Told'
  BY <1>1, <1>2, QuietTold DEF Told, ReadingIsKnown
<1>3. ASSUME NEW op, RaisesAfterStop(op) PROVE Told'
  BY <1>2, <1>3 DEF RaisesAfterStop, tables
<1>4. ASSUME NEW c \in Clients, OnClientLost(c) PROVE Told'
  <2>1. /\ obj2vfd[c] \in Vfds /\ vfd2obj[obj2vfd[c]] = c
        /\ seen[obj2vfd[c]] # <<>>
    BY <1>1, <1>4 DEF OnClientLost, TypeOK, TablesAgree, Told, ReadingIsKnown
  <2> QED
    BY <1>4, <2>1, CloseTold DEF OnClientLost
<1>5. ASSUME NEW v \in Vfds, CloseClient(v) PROVE Told'
  <2>1. CASE state # "stopped"
    <3>1. /\ seen[v] # <<>> /\ OnEvent("close", v)
          /\ UNCHANGED <<seen, m_ClientVfd>>
          /\ IF vfd2obj[v] # None THEN Drop(v, vfd2obj[v], "CloseClient")
             ELSE UNCHANGED <<tables, handle, raised>>
      BY <1>5, <2>1 DEF CloseClient, Known, RaisesAfterStop
    <3>2. vfd2obj[v] \in Clients \union {None}
      BY <1>1 DEF TypeOK
    <3>3. CASE vfd2obj[v] = None
      BY <3>1, <3>3, CloseTold DEF tables
    <3>4. CASE vfd2obj[v] # None
      BY <3>1, <3>2, <3>4, CloseTold
    <3> QED
      BY <3>3, <3>4
  <2> QED
    BY <1>3, <1>5, <2>1 DEF CloseClient
<1>6. CASE Stop
  <2>1. CASE state # "stopped"
    <3>1. \A c \in Clients : handle'[c] # "reading"
      <4>1. \A c \in Clients : handle[c] = "reading" => obj2vfd[c] # None
        BY <1>1 DEF TablesAgree
      <4>2. handle' = [c \in Clients |-> IF obj2vfd[c] # None THEN "closing" ELSE handle[c]]
        BY <1>6, <2>1 DEF Stop, RaisesAfterStop
      <4> QED
        BY <4>1, <4>2
    <3> QED
      BY <1>2, <1>6, <2>1, <3>1 DEF Stop, RaisesAfterStop
  <2> QED
    BY <1>3, <1>6, <2>1 DEF Stop
<1>7. CASE BeginPoll
  <2>1. /\ UNCHANGED <<events, seen, m_ClientVfd, vfd2obj, obj2vfd>>
        /\ events = <<>>
        /\ \A c \in Clients : handle'[c] = "reading" => handle[c] \in {"new", "reading"}
    BY <1>7 DEF BeginPoll, tables
  <2>2. \A v \in Vfds : Of(v) = {}
    BY <2>1 DEF Of
  <2>3. \A v \in Vfds : v <= m_ClientVfd => seen[v] # <<>>
    BY <1>1, <2>2 DEF Told, Announced
  <2>4. ASSUME NEW c \in Clients, handle'[c] = "reading"
        PROVE  obj2vfd'[c] \in Vfds /\ seen[obj2vfd'[c]] # <<>>
    <3>1. obj2vfd[c] \in Vfds /\ vfd2obj[obj2vfd[c]] = c
      BY <1>1, <2>1, <2>4 DEF TypeOK, TablesAgree
    <3>2. obj2vfd[c] <= m_ClientVfd
      <4>1. ~(obj2vfd[c] > m_ClientVfd)
        BY <3>1 DEF ToldInv, IInv, Unissued
      <4>2. obj2vfd[c] \in Nat /\ m_ClientVfd \in Nat
        BY <1>1, <3>1 DEF TypeOK, Vfds
      <4> QED
        BY <4>1, <4>2
    <3> QED
      BY <2>1, <2>3, <3>1, <3>2
  <2> QED
    BY <1>2, <2>1, <2>4
<1>8. CASE AcceptFailed \/ Start \/ EndPoll \/ Aborted \/ UNCHANGED vars
           \/ \E v \in Vfds : Send(v)
  <2>1. CASE UNCHANGED <<events, seen, m_ClientVfd, vfd2obj, obj2vfd, handle>>
    BY <1>2, <2>1
  <2> QED
    BY <1>3, <1>8, <2>1 DEF AcceptFailed, Start, EndPoll, Aborted, Send, vars, tables
<1> QED
  BY <1>4, <1>5, <1>6, <1>7, <1>8, AcceptTold, RecvTold, DispatchTold DEF Next

LEMMA SpecTold == Spec => []ToldInv
<1>1. Init => ToldInv
  <2>1. Init => Told
    <3> SUFFICES ASSUME Init PROVE Told
      OBVIOUS
    <3>1. ASSUME NEW v \in Vfds
          PROVE  Of(v) = {} /\ seen[v] = <<>> /\ DOMAIN seen[v] = {} /\ v > m_ClientVfd
      BY DEF Init, Of, Vfds
    <3> QED
      BY <3>1 DEF Told, Announced, Ended, ReadingIsKnown, Init, Vfds
  <2> QED
    BY <2>1, InitIInv DEF ToldInv
<1> QED
  BY <1>1, NextTold, PTL DEF Spec

\* The application sees netaccept first, then packets, and after netclose only
\* further netclose (CTcpServer with the handlers of server.lua): the events
\* of one connection never overtake each other, although netaccept and
\* netclose are posted twice and a packet once.
THEOREM EventsInOrder == Spec => []AppOrder
<1>1. ToldInv => AppOrder
  <2> SUFFICES ASSUME ToldInv, NEW v \in Vfds
               PROVE  /\ Precedes(v, "netaccept", "recv")
                      /\ Precedes(v, "netaccept", "netclose")
                      /\ \A i, j \in DOMAIN seen[v] :
                            i < j /\ seen[v][i] = "netclose" => seen[v][j] = "netclose"
    BY DEF AppOrder
  <2>1. Announced(v) /\ Ended(v) /\ seen[v] \in Seq(EventNames)
    BY DEF ToldInv, Told, IInv, TypeOK
  <2>2. ASSUME NEW b \in {"recv", "netclose"} PROVE Precedes(v, "netaccept", b)
    <3> SUFFICES ASSUME NEW j \in DOMAIN seen[v], seen[v][j] = b
                 PROVE  \E i \in 1 .. j - 1 : seen[v][i] = "netaccept"
      BY DEF Precedes
    <3>1. seen[v] # <<>> /\ j \in Nat /\ j >= 1
      BY <2>1
    <3>2. seen[v][1] = "netaccept"
      BY <2>1, <3>1 DEF Announced
    <3>3. j # 1
      BY <3>2
    <3> QED
      BY <3>1, <3>2, <3>3
  <2>3. \A i, j \in DOMAIN seen[v] :
           i < j /\ seen[v][i] = "netclose" => seen[v][j] = "netclose"
    BY <2>1 DEF Ended
  <2> QED
    BY <2>2, <2>3
<1> QED
  BY <1>1, SpecTold, PTL

\* A connection whose netclose the application has seen is unregistered, and
\* its vfd is never given to another client.
THEOREM ClosedStaysGone == Spec => []ClosedIsGone
<1>1. ToldInv => ClosedIsGone
  BY DEF ToldInv, Told, Ended, ClosedIsGone
<1> QED
  BY <1>1, SpecTold, PTL
=============================================================================
