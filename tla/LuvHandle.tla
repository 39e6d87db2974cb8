----------------------------- MODULE LuvHandle -----------------------------
(***************************************************************************)
(* The life of a uv_handle_t made by luv (luv_lhandle.c, luv_handle.c,     *)
(* luv_loop.c and one file for each type of handle), on the Unix build of  *)
(* libuv, assertions included.                                             *)
(*                                                                         *)
(* A handle is a Lua userdata.  handle->data points to a luv_handle_t that *)
(* holds the registry reference of the userdata and two callbacks, one for *)
(* the end of the close and one for everything else.  libuv links the      *)
(* handle into loop->handle_queue from its making until the loop finishes  *)
(* its close; after that luv releases the luv_handle_t, and the userdata   *)
(* that Lua may still hold has a null handle->data.                        *)
(*                                                                         *)
(* Lua code runs from the main script, from a callback of the loop, or     *)
(* from the function given to walk.  The requests of a handle (writes,     *)
(* connects, datagrams) are LuvReq's; here no request is pending.          *)
(***************************************************************************)
EXTENDS Naturals

CONSTANTS
    Handles,        \* uv_handle_t userdata
    Programs,       \* for each program, which types of handle it makes
    Unrefs,         \* bound: the types of handle a program may unref
    Readers,        \* bound: the types of stream a program reads
    MaxSignals,     \* bound: how often a watcher's signal is caught
    None            \* no handle

Streams == {"tcp", "pipe", "tty"}
Types == Streams \union {"udp", "timer", "idle", "check", "prepare", "poll",
                         "async", "signal", "process", "fs_event", "fs_poll"}

ASSUME NoneIsNoHandle == None \notin Handles
ASSUME ProgramsMakeTypes == Programs \subseteq [Handles -> Types] /\ Unrefs \subseteq Types
ASSUME MaxSignalsNat == MaxSignals \in Nat

\* handle->flags, with what libuv keeps beside them: the handle has a
\* descriptor (FD) that the loop watches for input (POLLIN, of streams), a
\* connection nobody accepted (ACCEPTED), an asynchronous send (PENDING), a
\* timer's repeat, and which close callback it has (UNSPAWNED is
\* luv_spawn_close_cb).  REWATCHED is history: the program listened or read
\* on a listener while its connection waited, and has not accepted it yet.
Flags == {"ACTIVE", "REF", "CLOSING", "CLOSED", "READING", "LISTENING", "FD",
          "POLLIN", "ACCEPTED", "REWATCHED", "PENDING", "REPEAT", "UNSPAWNED"}

\* The events the second callback slot serves.
Events == {"timeout", "prepare", "idle", "check", "async", "poll", "signal",
           "exit", "connection", "read", "recv", "fs_event", "fs_poll"}

VARIABLES
    type,           \* the type of a made handle
    flags,          \* its flags
    data,           \* handle->data: "live", "null", or "freed" and not null
    slot,           \* the event whose function is in the second slot
    caught,         \* caught_signals: messages written to the loop's pipe
    dispatched,     \* dispatched_signals: messages of it that were handled
    queue,          \* loop->handle_queue
    local,          \* the handles uv_walk still has to visit
    walking,        \* a function given to walk is running
    orphans,        \* handles linked to the frame of a walk that is no more
    closing,        \* loop->closing_handles
    batch,          \* the ones uv__run_closing_handles has taken
    stop,           \* loop->stop_flag
    pc,             \* "lua", "return" from a callback, or a phase of uv_run
    inrun,          \* uv_run is on the C stack
    current,        \* the handle whose callback runs, and what comes after it
    loopClosed,     \* uv_loop_close has succeeded
    crashed,        \* an assertion failed or a null or dead pointer was used
    misused         \* history: the program broke a rule of CleanUseIsSafe

signals == <<caught, dispatched>>
walk == <<local, walking, orphans>>
loop == <<closing, batch, stop, pc, inrun, current, loopClosed>>
vars == <<type, flags, data, slot, signals, queue, walk, loop, crashed, misused>>

NoCallback == [handle |-> None, after |-> "nothing"]

Init ==
    /\ type = [h \in Handles |-> "none"]
    /\ flags = [h \in Handles |-> {}]
    /\ data = [h \in Handles |-> "null"]
    /\ slot = [h \in Handles |-> "none"]
    /\ caught = [h \in Handles |-> 0] /\ dispatched = [h \in Handles |-> 0]
    /\ queue = {} /\ local = {} /\ walking = FALSE /\ orphans = {}
    /\ closing = {} /\ batch = {}
    /\ stop = FALSE
    /\ pc = "lua" /\ inrun = FALSE
    /\ current = NoCallback
    /\ loopClosed = FALSE
    /\ crashed = FALSE /\ misused = FALSE

Lua == pc = "lua" /\ ~crashed /\ ~loopClosed
Open(h) == flags[h] \intersect {"CLOSING", "CLOSED"} = {}
Active(h) == "ACTIVE" \in flags[h]

SetFlags(h, f) == flags' = [flags EXCEPT ![h] = f]

\* loop->active_handles counts the handles that are active and referenced.
uv__loop_alive ==
    closing # {} \/ \E h \in Handles : {"ACTIVE", "REF"} \subseteq flags[h]

\* uv__handle_start and uv__handle_stop: on Unix UV__HANDLE_CLOSING is 0, and
\* a handle that is closing starts like any other.
Started(h, more) == flags[h] \union {"ACTIVE"} \union more
Stopped(h, less) == flags[h] \ ({"ACTIVE"} \union less)

-----------------------------------------------------------------------------
(* Making a handle.                                                        *)

\* The handles of a behaviour are those of one program.
Makes(h, t) ==
    \E p \in Programs : p[h] = t /\ \A g \in Handles : type[g] \in {"none", p[g]}

\* luv_*_new after a successful uv_*_init: luv_handle_setup takes a registry
\* reference of the userdata and empties both slots.
luv_handle_setup(h, t, f, e) ==
    /\ Lua /\ type[h] = "none" /\ Makes(h, t)
    /\ type' = [type EXCEPT ![h] = t]
    /\ SetFlags(h, f \union {"REF"})
    /\ data' = [data EXCEPT ![h] = "live"]
    /\ slot' = [slot EXCEPT ![h] = e]
    /\ queue' = queue \union {h}

New(h, t, f, e) ==
    luv_handle_setup(h, t, f, e) /\ UNCHANGED <<signals, walk, loop, crashed, misused>>

luv_timer_new(h) == New(h, "timer", {}, "none")
luv_idle_new(h) == New(h, "idle", {}, "none")
luv_check_new(h) == New(h, "check", {}, "none")
luv_prepare_new(h) == New(h, "prepare", {}, "none")
luv_poll_new(h) == New(h, "poll", {"FD"}, "none")
luv_signal_new(h) == New(h, "signal", {}, "none")
luv_fs_event_new(h) == New(h, "fs_event", {}, "none")
luv_fs_poll_new(h) == New(h, "fs_poll", {}, "none")
luv_tcp_new(h) == New(h, "tcp", {}, "none")
luv_pipe_new(h) == New(h, "pipe", {}, "none")
luv_tty_new(h) == New(h, "tty", {"FD"}, "none")
luv_udp_new(h) == New(h, "udp", {}, "none")

\* Its callback is an argument of new; uv_async_init starts it.
luv_async_new(h) == New(h, "async", {"ACTIVE"}, "async")

\* Mutant: the luv_handle_t is freed while libuv still closes the handle.
luv_process_spawn_failed_Sync(h) ==
    /\ Lua /\ type[h] = "none" /\ Makes(h, "process")
    /\ type' = [type EXCEPT ![h] = "process"]
    /\ SetFlags(h, {"REF", "CLOSING", "UNSPAWNED"})
    /\ data' = [data EXCEPT ![h] = "freed"]
    /\ queue' = queue \union {h}
    /\ closing' = closing \union {h}
    /\ UNCHANGED <<slot, signals, walk, batch, stop, pc, inrun, current, loopClosed,
                   crashed, misused>>

\* A started process, with or without a callback for its exit.
luv_process_spawn(h) ==
    \E e \in {"exit", "none"} : New(h, "process", {"ACTIVE"}, e)

\* uv_spawn failed after it initialised the handle: the close is asynchronous
\* because the collector could take the userdata before libuv is done.
luv_process_spawn_failed(h) ==
    \E e \in {"exit", "none"} :
        /\ luv_handle_setup(h, "process", {"CLOSING", "UNSPAWNED"}, e)
        /\ closing' = closing \union {h}
        /\ UNCHANGED <<signals, walk, batch, stop, pc, inrun, current, loopClosed,
                       crashed, misused>>

-----------------------------------------------------------------------------
(* Starting and stopping.  Each luv_*_check refuses a handle of another    *)
(* type and one whose luv_handle_t is released, except luv_stream_check.   *)

Checked(h, t) == type[h] = t /\ data[h] # "null"

luv_timer_check(h) == Checked(h, "timer")
luv_idle_check(h) == Checked(h, "idle")
luv_check_check(h) == Checked(h, "check")
luv_prepare_check(h) == Checked(h, "prepare")
luv_poll_check(h) == Checked(h, "poll")
luv_async_check(h) == Checked(h, "async")
luv_signal_check(h) == Checked(h, "signal")
luv_fs_event_check(h) == Checked(h, "fs_event")
luv_fs_poll_check(h) == Checked(h, "fs_poll")
luv_tcp_check(h) == Checked(h, "tcp")
luv_pipe_check(h) == Checked(h, "pipe")
luv_udp_check(h) == Checked(h, "udp")
luv_stream_check(h) == type[h] \in Streams

\* luv_callback_check: the function replaces whatever was in the slot.
luv_callback_check(h, e) == slot' = [slot EXCEPT ![h] = e]

\* The call's effect on the handle is f; it is a misuse on a closed handle.
Uses(h, f) ==
    /\ Lua
    /\ SetFlags(h, f)
    /\ misused' = (misused \/ ~Open(h))
    /\ UNCHANGED <<type, data, signals, queue, walk, loop>>

Start(h, e, f) == luv_callback_check(h, e) /\ Uses(h, f) /\ UNCHANGED crashed
Stop(h) == Lua /\ SetFlags(h, Stopped(h, {}))
           /\ UNCHANGED <<type, data, slot, signals, queue, walk, loop, crashed, misused>>

\* An assertion of libuv, or a null luv_handle_t, ends the process; whether
\* the program brought it about is another matter.
Abort(misuse) ==
    /\ crashed' = TRUE
    /\ misused' = (misused \/ misuse)
    /\ UNCHANGED <<type, flags, data, slot, signals, queue, walk, loop>>

luv_timer_start(h, repeat) ==
    luv_timer_check(h) /\ Start(h, "timeout", Started(h, repeat) \ ({"REPEAT"} \ repeat))
luv_timer_stop(h) == luv_timer_check(h) /\ Stop(h)

\* uv_timer_again on a timer that was started before: with a repeat it stops
\* and starts it.
luv_timer_again(h) ==
    /\ luv_timer_check(h) /\ slot[h] # "none" /\ "REPEAT" \in flags[h]
    /\ Uses(h, Started(h, {})) /\ UNCHANGED <<slot, crashed>>

luv_timer_set_repeat(h, repeat) ==
    /\ luv_timer_check(h)
    /\ Lua /\ SetFlags(h, (flags[h] \ {"REPEAT"}) \union repeat)
    /\ UNCHANGED <<type, data, slot, signals, queue, walk, loop, crashed, misused>>

\* An active watcher stays as it is, with its new function.
luv_idle_start(h) == luv_idle_check(h) /\ Start(h, "idle", Started(h, {}))
luv_idle_stop(h) == luv_idle_check(h) /\ Stop(h)
luv_check_start(h) == luv_check_check(h) /\ Start(h, "check", Started(h, {}))
luv_check_stop(h) == luv_check_check(h) /\ Stop(h)
luv_prepare_start(h) == luv_prepare_check(h) /\ Start(h, "prepare", Started(h, {}))
luv_prepare_stop(h) == luv_prepare_check(h) /\ Stop(h)

\* uv_poll_start, uv_poll_stop, uv_signal_start and uv_signal_stop assert that
\* the handle is not closing.
luv_poll_start(h) ==
    /\ luv_poll_check(h) /\ Lua
    /\ IF Open(h) THEN Start(h, "poll", Started(h, {})) ELSE Abort(~Open(h))
luv_poll_stop(h) ==
    luv_poll_check(h) /\ Lua /\ IF Open(h) THEN Stop(h) ELSE Abort(~Open(h))

\* The function is optional; a signal the system refuses leaves the watcher
\* stopped.
luv_signal_start(h) ==
    /\ luv_signal_check(h) /\ Lua
    /\ IF Open(h)
       THEN \E e \in {"signal", slot[h]}, f \in {Started(h, {}), Stopped(h, {})} :
                Start(h, e, f)
       ELSE Abort(~Open(h))
luv_signal_stop(h) ==
    luv_signal_check(h) /\ Lua /\ IF Open(h) THEN Stop(h) ELSE Abort(~Open(h))

\* Refused when the handle is active or the path cannot be watched: the
\* function is replaced all the same.
luv_fs_event_start(h) ==
    /\ luv_fs_event_check(h)
    /\ \E f \in {flags[h], Started(h, {})} : Start(h, "fs_event", f)
luv_fs_event_stop(h) == luv_fs_event_check(h) /\ Stop(h)
luv_fs_poll_start(h) == luv_fs_poll_check(h) /\ Start(h, "fs_poll", Started(h, {}))
luv_fs_poll_stop(h) == luv_fs_poll_check(h) /\ Stop(h)

luv_async_send(h) ==
    /\ luv_async_check(h) /\ Lua
    /\ SetFlags(h, flags[h] \union {"PENDING"})
    /\ UNCHANGED <<type, data, slot, signals, queue, walk, loop, crashed, misused>>

\* A call that gives the handle a descriptor, or fails.
Opens(h) ==
    \E f \in {flags[h], flags[h] \union {"FD"}} :
        Uses(h, f) /\ UNCHANGED <<slot, crashed>>

luv_tcp_open(h) == luv_tcp_check(h) /\ Opens(h)
luv_tcp_bind(h) == luv_tcp_check(h) /\ Opens(h)
luv_tcp_connect(h) == luv_tcp_check(h) /\ Opens(h)
luv_pipe_open(h) == luv_pipe_check(h) /\ Opens(h)
luv_pipe_bind(h) == luv_pipe_check(h) /\ Opens(h)
luv_pipe_connect(h) == luv_pipe_check(h) /\ Opens(h)
luv_udp_open(h) == luv_udp_check(h) /\ Opens(h)
luv_udp_bind(h) == luv_udp_check(h) /\ Opens(h)

\* uv__io_start: a listener is watched again although a connection of it waits.
\* In that connection's own callback it is watched anyway.
Watch(h) ==
    IF "ACCEPTED" \in flags[h] /\ ~(current.handle = h /\ current.after = "connection")
    THEN {"POLLIN", "REWATCHED"} ELSE {"POLLIN"}

\* luv_callback_check of a stream writes through handle->data unchecked.
\* uv_tcp_listen makes a socket when there is none, also on a closing handle;
\* a pipe without a descriptor and a terminal are refused.
luv_stream_listen(h) ==
    /\ luv_stream_check(h) /\ Lua
    /\ IF data[h] = "null" THEN Abort(~Open(h))
       ELSE \E f \in {flags[h], Started(h, {"LISTENING", "FD"} \union Watch(h))} :
                /\ f # flags[h] => \/ type[h] = "tcp"
                                   \/ type[h] = "pipe" /\ "FD" \in flags[h]
                /\ Start(h, "connection", f)

\* uv_read_start refuses a closing stream and asserts a descriptor.  It does
\* not ask whether the stream listens.
luv_stream_read_start(h) ==
    /\ luv_stream_check(h) /\ Lua /\ type[h] \in Readers
    /\ IF data[h] = "null" \/ (Open(h) /\ "FD" \notin flags[h])
       THEN Abort(~Open(h) \/ "FD" \notin flags[h])
       ELSE Start(h, "read",
                  IF Open(h) THEN Started(h, {"READING"} \union Watch(h)) ELSE flags[h])

uv_read_stop(h) ==
    SetFlags(h, IF "READING" \in flags[h] THEN Stopped(h, {"READING", "POLLIN"})
                ELSE flags[h])

luv_stream_read_stop(h) ==
    /\ luv_stream_check(h) /\ Lua
    /\ uv_read_stop(h)
    /\ UNCHANGED <<type, data, slot, signals, queue, walk, loop, crashed, misused>>

\* uv_accept moves the waiting connection into the client handle, and watches
\* the listener again; if the client has a descriptor the connection is closed,
\* and the listener is left as it is.
luv_stream_accept(server, client) ==
    /\ luv_stream_check(server) /\ luv_stream_check(client)
    /\ type[client] # "tty"
    /\ Lua /\ "ACCEPTED" \in flags[server]
    /\ IF "FD" \in flags[client]
       THEN SetFlags(server, flags[server] \ {"ACCEPTED", "REWATCHED"})
       ELSE flags' = [flags EXCEPT ![server] = (@ \ {"ACCEPTED", "REWATCHED"}) \union {"POLLIN"},
                                   ![client] = @ \union {"FD"}]
    /\ misused' = (misused \/ ~Open(client))
    /\ UNCHANGED <<type, data, slot, signals, queue, walk, loop, crashed>>

\* An active watcher is refused with EALREADY, its function replaced.  A
\* socket is made and bound when there is none.
luv_udp_recv_start(h) ==
    /\ luv_udp_check(h)
    /\ \E f \in {flags[h], Started(h, {"FD"})} : Start(h, "recv", f)
luv_udp_recv_stop(h) == luv_udp_check(h) /\ Stop(h)

-----------------------------------------------------------------------------
(* Any handle.  lua_handle_check does not look at handle->data.            *)

luv_handle_ref(h) ==
    /\ Lua /\ type[h] # "none" /\ SetFlags(h, flags[h] \union {"REF"})
    /\ UNCHANGED <<type, data, slot, signals, queue, walk, loop, crashed, misused>>
luv_handle_unref(h) ==
    /\ Lua /\ type[h] # "none" /\ type[h] \in Unrefs /\ SetFlags(h, flags[h] \ {"REF"})
    /\ UNCHANGED <<type, data, slot, signals, queue, walk, loop, crashed, misused>>

\* Mutant: the close leaves the watcher running.
uv_close_Running(h) ==
    /\ SetFlags(h, flags[h] \union {"CLOSING"})
    /\ closing' = closing \union {h}

\* uv_close stops the handle and closes its descriptor.  Signals that have
\* been caught and not dispatched put the end of the close off.
uv_close(h) ==
    /\ SetFlags(h, Stopped(h, {"READING", "FD", "POLLIN", "ACCEPTED", "REWATCHED"}) \union {"CLOSING"})
    /\ closing' = IF caught[h] = dispatched[h] THEN closing \union {h} ELSE closing

\* A second close raises an error.
luv_handle_close(h) ==
    /\ Lua /\ type[h] # "none" /\ Open(h)
    /\ uv_close(h)
    /\ UNCHANGED <<type, data, slot, signals, queue, walk, batch, stop, pc, inrun, current,
                   loopClosed, crashed, misused>>

-----------------------------------------------------------------------------
(* The loop as Lua code sees it.                                           *)

luv_loop_stop ==
    /\ Lua /\ stop' = TRUE
    /\ UNCHANGED <<type, flags, data, slot, signals, queue, walk, closing, batch, pc, inrun,
                   current, loopClosed, crashed, misused>>

\* luv_loop_run, or uv_run from main: not from a callback.
luv_loop_run ==
    /\ Lua /\ ~inrun /\ ~walking
    /\ IF uv__loop_alive /\ ~stop
       THEN pc' = "events" /\ inrun' = TRUE /\ UNCHANGED stop
       ELSE stop' = FALSE /\ UNCHANGED <<pc, inrun>>
    /\ UNCHANGED <<type, flags, data, slot, signals, queue, walk, closing, batch, current,
                   loopClosed, crashed, misused>>

\* uv_loop_close looks at loop->handle_queue, not whether uv_run is under way.
luv_loop_close ==
    /\ Lua /\ queue = {}
    /\ loopClosed' = TRUE
    /\ misused' = (misused \/ inrun)
    /\ UNCHANGED <<type, flags, data, slot, signals, queue, walk, closing, batch, stop, pc,
                   inrun, current, crashed>>

\* Mutant: visited handles are not put back.
Visit_Drops(h, rest) ==
    /\ local' = rest \ {h}
    /\ queue' = queue \ rest
    /\ walking' = TRUE
    /\ UNCHANGED <<type, flags, data, slot, signals, orphans, loop, misused>>
    /\ crashed' = (data[h] # "live")

\* uv_walk moves the queue into its frame and puts each handle back before
\* luv_walk_cb calls the function with it.
Visit(h, rest) ==
    /\ local' = rest \ {h}
    /\ queue' = (queue \ rest) \union {h}
    /\ walking' = TRUE
    /\ UNCHANGED <<type, flags, data, slot, signals, orphans, loop, misused>>
    /\ crashed' = (data[h] # "live")

luv_loop_walk == Lua /\ ~walking /\ \E h \in queue : Visit(h, queue)
luv_walk_cb == Lua /\ walking /\ \E h \in local : Visit(h, local)
WalkEnds ==
    /\ Lua /\ walking /\ local = {}
    /\ walking' = FALSE
    /\ UNCHANGED <<type, flags, data, slot, signals, queue, local, orphans, loop, crashed,
                   misused>>

\* The function raises an error: lua_call unwinds uv_walk's frame, and the
\* handles it had not reached stay linked to it.
WalkRaises ==
    /\ Lua /\ walking
    /\ walking' = FALSE /\ local' = {} /\ orphans' = orphans \union local
    /\ UNCHANGED <<type, flags, data, slot, signals, queue, loop, crashed, misused>>

-----------------------------------------------------------------------------
(* The loop calls back.                                                    *)

InPhase(p) == pc = p /\ ~crashed

\* luv_callback_call: the function in the slot runs, and Lua code with it; an
\* empty slot does nothing.  The luv_handle_t must still be there.
luv_callback_call(h, after, f) ==
    /\ SetFlags(h, f)
    /\ IF data[h] = "live"
       THEN /\ current' = [handle |-> h, after |-> after]
            /\ pc' = IF slot[h] = "none" THEN "return" ELSE "lua"
            /\ UNCHANGED crashed
       ELSE /\ crashed' = TRUE
            /\ UNCHANGED <<current, pc>>
    /\ UNCHANGED <<type, data, slot, signals, queue, walk, closing, batch, stop, inrun,
                   loopClosed, misused>>

Fires(h, t) == InPhase("events") /\ type[h] = t /\ Active(h)

\* uv__run_timers stops the timer, starts it again if it repeats, and calls.
luv_timer_cb(h) ==
    /\ Fires(h, "timer")
    /\ luv_callback_call(h, "nothing",
           IF "REPEAT" \in flags[h] THEN flags[h] ELSE Stopped(h, {}))
luv_idle_cb(h) == Fires(h, "idle") /\ luv_callback_call(h, "nothing", flags[h])
luv_check_cb(h) == Fires(h, "check") /\ luv_callback_call(h, "nothing", flags[h])
luv_prepare_cb(h) ==
    Fires(h, "prepare") /\ luv_callback_call(h, "nothing", flags[h])
\* uv__poll_io stops the handle when the descriptor has an error.
luv_poll_cb(h) ==
    Fires(h, "poll") /\ \E f \in {flags[h], Stopped(h, {})} : luv_callback_call(h, "nothing", f)
luv_fs_event_cb(h) ==
    Fires(h, "fs_event") /\ luv_callback_call(h, "nothing", flags[h])
luv_fs_poll_cb(h) ==
    Fires(h, "fs_poll") /\ luv_callback_call(h, "nothing", flags[h])
luv_udp_recv_cb(h) ==
    Fires(h, "udp") /\ luv_callback_call(h, "nothing", flags[h])

\* uv__async_event clears the mark first.
luv_async_cb(h) ==
    /\ Fires(h, "async") /\ "PENDING" \in flags[h]
    /\ luv_callback_call(h, "nothing", flags[h] \ {"PENDING"})

\* uv__chld stops the handle first.
exit_cb(h) ==
    Fires(h, "process") /\ luv_callback_call(h, "nothing", Stopped(h, {}))

\* The loop reports input on the descriptor, also of a stream that was stopped.
Readable(h) == InPhase("events") /\ type[h] \in Streams /\ "POLLIN" \in flags[h]

\* uv__server_io: an error, or one connection, which waits until it is
\* accepted.  It asserts that no connection waits and no close has begun.
luv_stream_connection_cb(h) ==
    /\ Readable(h) /\ "LISTENING" \in flags[h]
    /\ IF "ACCEPTED" \in flags[h] \/ ~Open(h) THEN Abort(FALSE)
       ELSE \E f \in {flags[h], flags[h] \union {"ACCEPTED"}} :
                luv_callback_call(h, "connection", f)

\* uv__read: data; the end of the stream, which stops it first; or an error.
luv_stream_read_cb(h) ==
    /\ Readable(h) /\ "LISTENING" \notin flags[h] /\ "READING" \in flags[h]
    /\ \/ luv_callback_call(h, "nothing", flags[h])
       \/ luv_callback_call(h, "eof", Stopped(h, {"POLLIN"}))
       \/ luv_callback_call(h, "error", flags[h])

\* The signal handler of the process writes into the loop's pipe at any time.
Catch(h) ==
    /\ ~crashed /\ type[h] = "signal" /\ Active(h)
    /\ caught[h] < MaxSignals
    /\ caught' = [caught EXCEPT ![h] = @ + 1]
    /\ UNCHANGED <<type, flags, data, slot, dispatched, queue, walk, loop, crashed, misused>>

\* The pipe holds a message for the watcher.
Trapped(h) == InPhase("events") /\ caught[h] # dispatched[h]

\* uv__signal_event: the message counts as dispatched after the callback.
luv_signal_cb(h) ==
    Trapped(h) /\ Fires(h, "signal") /\ luv_callback_call(h, "dispatched", flags[h])

\* Mutant: the counters are compared before the message is counted.
Dispatched_Late(h) ==
    /\ dispatched' = [dispatched EXCEPT ![h] = @ + 1]
    /\ closing' = IF ~Open(h) /\ caught[h] = dispatched[h]
                  THEN closing \union {h} ELSE closing
    /\ UNCHANGED caught

\* The message counts; the last one lets a close that waited for it go on.
Dispatched(h) ==
    /\ dispatched' = [dispatched EXCEPT ![h] = @ + 1]
    /\ closing' = IF ~Open(h) /\ caught[h] = dispatched'[h]
                  THEN closing \union {h} ELSE closing
    /\ UNCHANGED caught

\* The watcher was stopped since, or started for another signal.
DropSignal(h) ==
    /\ Trapped(h)
    /\ Dispatched(h)
    /\ UNCHANGED <<type, flags, data, slot, queue, walk, batch, stop, pc, inrun, current,
                   loopClosed, crashed, misused>>

-----------------------------------------------------------------------------
(* The callback has returned, or raised an error: luv_pcall hides it.      *)

\* A loop that was closed under uv_run is not there to go on.
Returns(after, phase) ==
    /\ pc \in {"lua", "return"} /\ ~crashed /\ ~walking
    /\ current.handle # None /\ current.after = after
    /\ current' = NoCallback
    /\ pc' = phase
    /\ crashed' = loopClosed
    /\ UNCHANGED <<type, queue, walk, batch, stop, inrun, loopClosed, misused>>

EventReturns ==
    Returns("nothing", "events") /\ UNCHANGED <<flags, data, slot, signals, closing>>

\* Mutant: the listener is watched while the connection waits.
ConnectionReturns_Watches ==
    /\ Returns("connection", "events")
    /\ UNCHANGED <<flags, data, slot, signals, closing>>

\* uv__server_io stops watching while the connection waits.
ConnectionReturns ==
    LET h == current.handle IN
    /\ Returns("connection", "events")
    /\ SetFlags(h, IF "ACCEPTED" \in flags[h] THEN flags[h] \ {"POLLIN"} ELSE flags[h])
    /\ UNCHANGED <<data, slot, signals, closing>>

\* uv__stream_eof: the stream counts as not reading, even if the function
\* has started it again.
EofReturns ==
    LET h == current.handle IN
    /\ Returns("eof", "events")
    /\ SetFlags(h, flags[h] \ {"READING"})
    /\ UNCHANGED <<data, slot, signals, closing>>

\* uv__read stops the stream whatever the function did.
ReadErrorReturns ==
    /\ Returns("error", "events")
    /\ uv_read_stop(current.handle)
    /\ UNCHANGED <<data, slot, signals, closing>>

SignalReturns ==
    /\ Returns("dispatched", "events")
    /\ Dispatched(current.handle)
    /\ UNCHANGED <<flags, data, slot>>

-----------------------------------------------------------------------------
(* The end of a close.                                                     *)

uv__run_closing_handles ==
    /\ InPhase("events")
    /\ pc' = "close"
    /\ batch' = closing /\ closing' = {}
    /\ UNCHANGED <<type, flags, data, slot, signals, queue, walk, stop, inrun, current,
                   loopClosed, crashed, misused>>

\* A stream or datagram handle must not be watched again by now.
Watched(h) ==
    \/ type[h] \in Streams /\ "POLLIN" \in flags[h]
    \/ type[h] = "udp" /\ (Active(h) \/ "FD" \in flags[h])

\* uv__finish_close up to the callback: the handle leaves the queue it is
\* linked into, which for an orphan is memory that may hold anything.
uv__finish_close(h) ==
    /\ InPhase("close") /\ h \in batch
    /\ batch' = batch \ {h}
    /\ SetFlags(h, (flags[h] \ {"REF"}) \union {"CLOSED"})
    /\ queue' = queue \ {h} /\ local' = local \ {h}
    /\ crashed' \in {Watched(h), Watched(h) \/ h \in orphans}
    /\ orphans' = IF crashed' THEN orphans ELSE orphans \ {h}
    /\ UNCHANGED <<type, signals, walking, closing, stop, inrun, loopClosed, misused>>

\* The userdata and both functions lose their references.
luv_handle_cleanup(h, left) ==
    /\ slot' = [slot EXCEPT ![h] = "none"]
    /\ data' = [data EXCEPT ![h] = left]

\* luv_handle_close_cb: the function given to close, if any, then the release
\* of the luv_handle_t.
CloseCallback(h) ==
    /\ uv__finish_close(h)
    /\ "UNSPAWNED" \notin flags[h]
    /\ current' = [handle |-> h, after |-> "release"]
    /\ pc' \in {"lua", "return"}
    /\ UNCHANGED <<data, slot>>
luv_handle_close_cb ==
    /\ Returns("release", "close")
    /\ luv_handle_cleanup(current.handle, "null")
    /\ UNCHANGED <<flags, signals, closing>>

\* handle->data is left as it was.
luv_spawn_close_cb(h) ==
    /\ uv__finish_close(h)
    /\ "UNSPAWNED" \in flags[h]
    /\ luv_handle_cleanup(h, "freed")
    /\ UNCHANGED <<current, pc>>

\* uv_run goes round again or returns.
EndIteration ==
    /\ InPhase("close") /\ batch = {}
    /\ IF uv__loop_alive /\ ~stop
       THEN pc' = "events" /\ UNCHANGED <<inrun, stop>>
       ELSE pc' = "lua" /\ inrun' = FALSE /\ stop' = FALSE
    /\ UNCHANGED <<type, flags, data, slot, signals, queue, walk, closing, batch, current,
                   loopClosed, crashed, misused>>

\* The process is gone, or its loop is.
Over == (crashed \/ loopClosed) /\ UNCHANGED vars

-----------------------------------------------------------------------------

Make(h) ==
    \/ luv_timer_new(h) \/ luv_idle_new(h) \/ luv_check_new(h) \/ luv_prepare_new(h)
    \/ luv_poll_new(h) \/ luv_signal_new(h) \/ luv_fs_event_new(h)
    \/ luv_fs_poll_new(h) \/ luv_tcp_new(h) \/ luv_pipe_new(h) \/ luv_tty_new(h)
    \/ luv_udp_new(h) \/ luv_async_new(h)
    \/ luv_process_spawn(h) \/ luv_process_spawn_failed(h)

Repeats == SUBSET {"REPEAT"}

Call(h) ==
    \/ luv_timer_stop(h) \/ luv_timer_again(h)
    \/ \E r \in Repeats : luv_timer_start(h, r) \/ luv_timer_set_repeat(h, r)
    \/ luv_idle_start(h) \/ luv_idle_stop(h) \/ luv_check_start(h) \/ luv_check_stop(h)
    \/ luv_prepare_start(h) \/ luv_prepare_stop(h) \/ luv_poll_start(h)
    \/ luv_poll_stop(h) \/ luv_signal_start(h) \/ luv_signal_stop(h)
    \/ luv_fs_event_start(h) \/ luv_fs_event_stop(h) \/ luv_fs_poll_start(h)
    \/ luv_fs_poll_stop(h) \/ luv_async_send(h)
    \/ luv_tcp_open(h) \/ luv_tcp_bind(h) \/ luv_tcp_connect(h) \/ luv_pipe_open(h)
    \/ luv_pipe_bind(h) \/ luv_pipe_connect(h) \/ luv_udp_open(h) \/ luv_udp_bind(h)
    \/ luv_stream_listen(h) \/ luv_stream_read_start(h) \/ luv_stream_read_stop(h)
    \/ \E c \in Handles : luv_stream_accept(h, c)
    \/ luv_udp_recv_start(h) \/ luv_udp_recv_stop(h)
    \/ luv_handle_ref(h) \/ luv_handle_unref(h) \/ luv_handle_close(h)

Fire(h) ==
    \/ luv_timer_cb(h) \/ luv_idle_cb(h) \/ luv_check_cb(h) \/ luv_prepare_cb(h)
    \/ luv_poll_cb(h) \/ luv_fs_event_cb(h) \/ luv_fs_poll_cb(h) \/ luv_udp_recv_cb(h)
    \/ luv_async_cb(h) \/ exit_cb(h) \/ luv_stream_connection_cb(h)
    \/ luv_stream_read_cb(h) \/ luv_signal_cb(h)

Return ==
    \/ EventReturns \/ ConnectionReturns \/ EofReturns \/ ReadErrorReturns
    \/ SignalReturns \/ luv_handle_close_cb
Walk == luv_walk_cb \/ WalkEnds \/ WalkRaises
Finish(h) == CloseCallback(h) \/ luv_spawn_close_cb(h)

Next ==
    \/ \E h \in Handles :
           Make(h) \/ Call(h) \/ Fire(h) \/ Catch(h) \/ DropSignal(h) \/ Finish(h)
    \/ luv_loop_stop \/ luv_loop_run \/ luv_loop_close \/ luv_loop_walk \/ Walk
    \/ Return \/ uv__run_closing_handles \/ EndIteration \/ Over

Spec == Init /\ [][Next]_vars

\* A callback and a walk end.  Each phase of uv_run handles the events it
\* found when it began, so the closing phase comes however many events there
\* are, and so does the pipe of signals.
FairSpec ==
    /\ Spec
    /\ SF_vars(Return) /\ WF_vars(Walk) /\ WF_vars(EndIteration)
    /\ SF_vars(uv__run_closing_handles)
    /\ \A h \in Handles : WF_vars(Finish(h)) /\ SF_vars(luv_signal_cb(h) \/ DropSignal(h))

-----------------------------------------------------------------------------
(* Properties.                                                             *)

TypeOK ==
    /\ type \in [Handles -> Types \union {"none"}]
    /\ flags \in [Handles -> SUBSET Flags]
    /\ data \in [Handles -> {"live", "null", "freed"}]
    /\ slot \in [Handles -> Events \union {"none"}]
    /\ caught \in [Handles -> Nat] /\ dispatched \in [Handles -> Nat]
    /\ queue \subseteq Handles /\ local \subseteq Handles /\ orphans \subseteq Handles
    /\ closing \subseteq Handles /\ batch \subseteq Handles
    /\ walking \in BOOLEAN /\ stop \in BOOLEAN /\ inrun \in BOOLEAN
    /\ loopClosed \in BOOLEAN /\ crashed \in BOOLEAN /\ misused \in BOOLEAN
    /\ pc \in {"lua", "return", "events", "close"}
    /\ current \in [handle : Handles \union {None},
                    after : {"nothing", "connection", "eof", "error", "dispatched", "release"}]

\* The registry keeps the userdata of a handle until libuv has let go of it,
\* also when uv_spawn failed and Lua never saw the handle: it is what
\* luv_walk_cb asserts of every handle of the queue, and what keeps the
\* collector from freeing memory that libuv has linked.  And no longer: after
\* the close callback nothing refers to the handle or its functions, so the
\* registry does not grow with the handles that are closed.
KeptUntilClosed ==
    \A h \in Handles :
        /\ type[h] # "none" /\ "CLOSED" \notin flags[h] => data[h] = "live"
        /\ "CLOSED" \in flags[h] /\ current.handle # h => data[h] # "live" /\ slot[h] = "none"

\* No order of calls and events meets an assertion of libuv or a null
\* luv_handle_t as long as the program starts, opens or reads no handle it has
\* closed, stops no poll or signal watcher it has closed, reads no stream
\* without a descriptor and closes the loop only outside of uv_run (misused),
\* its walks raise no error (orphans), and it does not listen or read again on
\* a listener whose connection waits to be accepted (REWATCHED: libuv watches
\* the listener, and uv__server_io asserts, stream.c:515).
CleanUseIsSafe ==
    crashed => misused \/ orphans # {} \/ \E h \in Handles : "REWATCHED" \in flags[h]

\* Once a close is asked for, no event of the handle reaches Lua: only the
\* close callback does.
ClosedIsQuiet ==
    [][LET h == current'.handle IN
        h # None /\ current.handle = None /\ current'.after # "release" /\ ~misused
            => Open(h)]_vars

\* Every close is finished while the loop runs: a handle is closed once, so a
\* close that never ends would leave the condition false for good.
CloseFinishes ==
    []<>(crashed \/ ~inrun \/
         \A h \in Handles : "CLOSING" \in flags[h] => "CLOSED" \in flags[h])

\* As long as no walk was cut short, the loop is closed only without open
\* handles.
LoopCloseIsLast ==
    loopClosed /\ orphans = {} =>
        \A h \in Handles : type[h] = "none" \/ "CLOSED" \in flags[h]
=============================================================================
