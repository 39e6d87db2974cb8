------------------------------ MODULE TcpServer ------------------------------
(***************************************************************************)
(* CTcpServer (gameserver/base/tcp.lua) with the handlers base/server.lua  *)
(* installs on the front-end node, over the libuv stream handles.          *)
(*                                                                         *)
(* I/O callbacks run in the poll phase of uv_run and only post events; the *)
(* events are deferred calls (CObject:OnEvent), served in posting order in *)
(* the timer phase, which ends only when none is left: both facts are      *)
(* theorems about Timer.tla.  The application's code runs in the timer     *)
(* phase: in protocol handlers, in "netaccept"/"netclose" handlers and in  *)
(* timers.  How the byte stream is cut into packets is PacketFraming.tla.  *)
(***************************************************************************)
EXTENDS Naturals, Sequences

CONSTANTS
    Clients,        \* uv_tcp_t handles that Accept may create
    None,           \* Lua nil
    MaxVfd,         \* bound on the connections accepted
    MaxPosts,       \* bound on the events posted by callbacks and application
    MaxPaks         \* bound on the packets completed by one read

ASSUME NoneIsNil == None \notin Clients /\ None \notin Nat
ASSUME BoundsAreNat == MaxVfd \in Nat /\ MaxPosts \in Nat /\ MaxPaks \in Nat

Vfds == 1 .. MaxVfd

VARIABLES
    phase,          \* the phase of uv_run; "aborted" after a failed assertion
    state,          \* of the listening socket
    m_ClientVfd,    \* the last vfd given out
    vfd2obj,        \* m_ClientVfd2Obj
    obj2vfd,        \* m_ClientObj2Vfd
    keys,           \* the vfds with an entry in m_ClientKey
    cache,          \* the vfds with an entry in m_CacheData
    handle,         \* state of each client handle
    events,         \* posted and not yet dispatched: a queue
    posts,          \* number of events posted so far (bounded)
    seen,           \* history: what the application was told about each vfd
    raised          \* history: operations that raised a Lua error

tables == <<vfd2obj, obj2vfd, keys>>
vars == <<phase, state, m_ClientVfd, tables, cache, handle, events, posts,
          seen, raised>>

EventNames == {"accept", "recv", "close", "netaccept", "netclose"}
EventRecord == [name : EventNames, vfd : Vfds]
Event(n, v) == [name |-> n, vfd |-> v]

Init ==
    /\ phase = "timers"
    /\ state = "created"
    /\ m_ClientVfd = 0
    /\ vfd2obj = [v \in Vfds |-> None]
    /\ obj2vfd = [c \in Clients |-> None]
    /\ keys = {}
    /\ cache = {}
    /\ handle = [c \in Clients |-> "none"]
    /\ events = <<>>
    /\ posts = 0
    /\ seen = [v \in Vfds |-> <<>>]
    /\ raised = {}

\* CObject:OnEvent, n times; the callers' guards bound the number of posts.
OnEvents(n, e) ==
    /\ posts + n <= MaxPosts
    /\ posts' = posts + n
    /\ events' = events \o [i \in 1 .. n |-> e]

OnEvent(name, v) == OnEvents(1, Event(name, v))

\* Mutant: the client is forgotten and its handle stays open.
Drop_NoClose(v, c, op) ==
    /\ vfd2obj' = [vfd2obj EXCEPT ![v] = None]
    /\ obj2vfd' = [obj2vfd EXCEPT ![c] = None]
    /\ keys' = keys \ {v}
    /\ UNCHANGED <<handle, raised>>

\* Mutant: the handle is closed and the client stays registered.
Drop_KeepsEntry(v, c, op) ==
    /\ handle' = [handle EXCEPT ![c] = "closing"]
    /\ raised' = IF handle[c] = "closing" THEN raised \union {op} ELSE raised
    /\ UNCHANGED tables

\* The client leaves the three tables, and its handle is closed.  Closing a
\* handle twice raises "handle is already closing" (luv_handle_close).
Drop(v, c, op) ==
    /\ vfd2obj' = [vfd2obj EXCEPT ![v] = None]
    /\ obj2vfd' = [obj2vfd EXCEPT ![c] = None]
    /\ keys' = keys \ {v}
    /\ handle' = [handle EXCEPT ![c] = "closing"]
    /\ raised' = IF handle[c] = "closing" THEN raised \union {op} ELSE raised

-----------------------------------------------------------------------------
(* I/O callbacks, in the poll phase.                                       *)

NextVfd == m_ClientVfd + 1

\* The connection callback with a new connection.  The handle is registered,
\* gets its key and starts to read; epoll knows it from the next poll on.
Accept(c) ==
    /\ phase = "poll" /\ state = "listening"
    /\ NextVfd \in Vfds
    /\ handle[c] = "none"
    /\ m_ClientVfd' = NextVfd
    /\ obj2vfd' = [obj2vfd EXCEPT ![c] = NextVfd]
    /\ vfd2obj' = [vfd2obj EXCEPT ![NextVfd] = c]
    /\ keys' = keys \union {NextVfd}
    /\ handle' = [handle EXCEPT ![c] = "new"]
    /\ OnEvent("accept", NextVfd)
    /\ UNCHANGED <<phase, state, cache, seen, raised>>

\* The connection callback with an error: the callback ignores it, uv_accept
\* finds no pending connection, and uv_read_start asserts on the handle that
\* has no descriptor.
AcceptFailed ==
    /\ phase = "poll" /\ state = "listening"
    /\ phase' = "aborted"
    /\ UNCHANGED <<state, m_ClientVfd, tables, cache, handle, events, posts,
                   seen, raised>>

\* The read callback with data: the parser completes n packets, each posted.
Recv(c, n) ==
    LET v == obj2vfd[c] IN
    /\ phase = "poll"
    /\ handle[c] = "reading"
    /\ cache' = cache \union {v}
    /\ OnEvents(n, Event("recv", v))
    /\ UNCHANGED <<phase, state, m_ClientVfd, tables, handle, seen, raised>>

\* The read callback with an error or the end of the stream.
OnClientLost(c) ==
    LET v == obj2vfd[c] IN
    /\ phase = "poll"
    /\ handle[c] = "reading"
    /\ Drop(v, c, "OnClientLost")
    /\ OnEvent("close", v)
    /\ UNCHANGED <<phase, state, m_ClientVfd, cache, seen>>

-----------------------------------------------------------------------------
(* The application's calls, in the timer phase.                            *)

Start ==
    /\ phase = "timers" /\ state = "created"
    /\ state' = "listening"
    /\ UNCHANGED <<phase, m_ClientVfd, tables, cache, handle, events, posts,
                   seen, raised>>

\* After Stop the tables are nil, and indexing them raises a Lua error.
RaisesAfterStop(op) ==
    /\ state = "stopped"
    /\ raised' = raised \union {op}
    /\ UNCHANGED <<phase, state, m_ClientVfd, tables, cache, handle, events,
                   posts, seen>>

\* The application knows a vfd from the events; the client may be gone.
Known(v) == seen[v] # <<>>

\* Mutant: the event is posted at once, the client dropped some time later.
CloseClient_EventOnly(v) ==
    /\ phase = "timers" /\ Known(v) /\ state # "stopped"
    /\ OnEvent("close", v)
    /\ UNCHANGED <<phase, state, m_ClientVfd, tables, cache, handle, seen, raised>>

\* NetClose.  The event is posted even when the vfd is not registered.
CloseClient(v) ==
    /\ phase = "timers" /\ Known(v)
    /\ \/ RaisesAfterStop("CloseClient")
       \/ /\ state # "stopped"
          /\ IF vfd2obj[v] # None
             THEN Drop(v, vfd2obj[v], "CloseClient")
             ELSE UNCHANGED <<tables, handle, raised>>
          /\ OnEvent("close", v)
          /\ UNCHANGED <<phase, state, m_ClientVfd, cache, seen>>

\* Send to a known vfd, silently dropped when it is not registered; what is
\* written does not matter here.
Send(v) ==
    /\ phase = "timers" /\ Known(v)
    /\ \/ RaisesAfterStop("Send")
       \/ state # "stopped" /\ UNCHANGED vars

\* Stop closes every registered client and the socket; pending events stay,
\* and the clients closed here get no close event.
Stop ==
    /\ phase = "timers"
    /\ \/ RaisesAfterStop("Stop")
       \/ /\ state # "stopped"
          /\ state' = "stopped"
          /\ handle' = [c \in Clients |->
                          IF obj2vfd[c] # None THEN "closing" ELSE handle[c]]
          /\ vfd2obj' = [v \in Vfds |-> None]
          /\ obj2vfd' = [c \in Clients |-> None]
          /\ keys' = {}
          /\ UNCHANGED <<phase, m_ClientVfd, cache, events, posts, seen, raised>>

-----------------------------------------------------------------------------
(* uv_run and the deferred events.                                         *)

\* Mutant: the wrong event is forwarded.
Forwarded_Copied(name) == "netaccept"

Forwarded(name) == CASE name = "accept" -> "netaccept"
                     [] name = "close"  -> "netclose"

\* DispatchEvent for the oldest event: server.lua's handler runs.  It hands
\* "recv" to net.UnpackBody and posts the other two again under a new name.
Dispatch ==
    LET e == Head(events) IN
    /\ phase = "timers" /\ events # <<>>
    /\ IF e.name \in {"accept", "close"}
       THEN /\ events' = Append(Tail(events), Event(Forwarded(e.name), e.vfd))
            /\ UNCHANGED seen
       ELSE /\ events' = Tail(events)
            /\ seen' = [seen EXCEPT ![e.vfd] = Append(@, e.name)]
    /\ UNCHANGED <<phase, state, m_ClientVfd, tables, cache, handle, posts, raised>>

\* Mutant: I/O is polled before the events of the last poll are served.
BeginPoll_Early ==
    /\ phase = "timers"
    /\ phase' = "poll"
    /\ handle' = [c \in Clients |->
                    IF handle[c] = "new" THEN "reading" ELSE handle[c]]
    /\ UNCHANGED <<state, m_ClientVfd, tables, cache, events, posts, seen, raised>>

\* The timer phase ends with no event left; uv__io_poll then adds the new
\* watchers to epoll.
BeginPoll ==
    /\ phase = "timers" /\ events = <<>>
    /\ phase' = "poll"
    /\ handle' = [c \in Clients |->
                    IF handle[c] = "new" THEN "reading" ELSE handle[c]]
    /\ UNCHANGED <<state, m_ClientVfd, tables, cache, events, posts, seen, raised>>

EndPoll ==
    /\ phase = "poll"
    /\ phase' = "timers"
    /\ UNCHANGED <<state, m_ClientVfd, tables, cache, handle, events, posts,
                   seen, raised>>

\* The process is gone.
Aborted == phase = "aborted" /\ UNCHANGED vars

Next ==
    \/ \E c \in Clients : Accept(c) \/ OnClientLost(c)
    \/ \E c \in Clients, n \in 0 .. MaxPaks : Recv(c, n)
    \/ AcceptFailed
    \/ Start \/ Stop
    \/ \E v \in Vfds : CloseClient(v) \/ Send(v)
    \/ Dispatch \/ BeginPoll \/ EndPoll
    \/ Aborted

Spec == Init /\ [][Next]_vars

\* uv_run keeps running, and so every handler returns.
FairSpec == Spec /\ WF_vars(Dispatch \/ BeginPoll \/ EndPoll)

-----------------------------------------------------------------------------
(* Properties.                                                             *)

HandleStates == {"none", "new", "reading", "closing"}

TypeOK ==
    /\ phase \in {"poll", "timers", "aborted"}
    /\ state \in {"created", "listening", "stopped"}
    /\ m_ClientVfd \in 0 .. MaxVfd
    /\ vfd2obj \in [Vfds -> Clients \union {None}]
    /\ obj2vfd \in [Clients -> Vfds \union {None}]
    /\ keys \subseteq Vfds
    /\ cache \subseteq Vfds
    /\ handle \in [Clients -> HandleStates]
    /\ events \in Seq(EventRecord)
    /\ posts \in 0 .. MaxPosts
    /\ seen \in [Vfds -> Seq(EventNames)]
    /\ raised \subseteq {"OnClientLost", "CloseClient", "Send", "Stop"}

\* The three tables describe the same set of connections, and these are the
\* connections whose handle is open: no path leaves a handle open that Lua
\* has forgotten, or an entry whose handle is closed.
TablesAgree ==
    /\ \A v \in Vfds, c \in Clients : vfd2obj[v] = c <=> obj2vfd[c] = v
    /\ \A v \in Vfds : v \in keys <=> vfd2obj[v] # None
    /\ \A c \in Clients : obj2vfd[c] # None <=> handle[c] \in {"new", "reading"}

\* Until Stop, no call and no callback raises a Lua error: a read callback
\* finds its vfd, and no handle is closed twice, whichever of CloseClient and
\* the loss of the connection comes first.
NoErrorBeforeStop == state # "stopped" => raised = {}

\* The user of v saw an a before every b.
Precedes(v, a, b) ==
    \A j \in DOMAIN seen[v] :
        seen[v][j] = b => \E i \in 1 .. j - 1 : seen[v][i] = a

\* What the application sees of one connection: netaccept first, although it
\* is posted twice and a packet only once; then packets; after netclose only
\* further netclose.
AppOrder ==
    \A v \in Vfds :
        /\ Precedes(v, "netaccept", "recv")
        /\ Precedes(v, "netaccept", "netclose")
        /\ \A i, j \in DOMAIN seen[v] :
              i < j /\ seen[v][i] = "netclose" => seen[v][j] = "netclose"

\* When the application hears netclose the client is unregistered: a Send
\* from the handler cannot reach another connection.
ClosedIsGone ==
    \A v \in Vfds : \A i \in DOMAIN seen[v] :
        seen[v][i] = "netclose" => vfd2obj[v] = None

\* A connection that ends, by the peer or by CloseClient, is reported.
\* The report survives a Stop in between; only the abort prevents it.
CloseReported ==
    \A v \in Vfds :
        (v <= m_ClientVfd /\ vfd2obj[v] = None /\ state # "stopped")
            ~> \/ \E i \in DOMAIN seen[v] : seen[v][i] = "netclose"
               \/ phase = "aborted"
==============================================================================
