-------------------------- MODULE LuvHandle_proofs --------------------------
(***************************************************************************)
(* Proofs about LuvHandle.tla, for every set of handles and every program. *)
(***************************************************************************)
EXTENDS LuvHandle, TLAPS

Made(h) == type[h] # "none"
Closed(h) == "CLOSED" \in flags[h]

\* The flags uv_close takes from a handle.
Watching == {"ACTIVE", "FD", "POLLIN", "ACCEPTED"}

\* What the invariant says of one handle:
\* - before it is made nothing refers to it;
\* - a luv_handle_t that is freed and not null belongs to a failed spawn;
\* - its luv_handle_t is there until the close is finished, and not longer;
\* - only handles that were closed wait for the end of their close;
\* - loop->handle_queue, or the frame of a walk, links the handles whose close
\*   is not finished, and no others;
\* - a program that does not start closed handles leaves them stopped and
\*   without a descriptor;
\* - a listener is not watched while a connection of it waits, unless the
\*   callback of that connection runs or the program had it watched again.
Connecting(h) == current.handle = h /\ current.after = "connection"

HandleOK(h) ==
    /\ ~Made(h) => flags[h] = {} /\ data[h] = "null" /\ slot[h] = "none"
    /\ data[h] = "freed" \/ "UNSPAWNED" \in flags[h] => type[h] = "process"
    /\ Made(h) /\ ~Closed(h) => data[h] = "live"
    /\ Closed(h) /\ current.handle # h => data[h] # "live" /\ slot[h] = "none"
    /\ h \in closing \union batch => ~Open(h)
    /\ h \in queue \union local => Made(h) /\ ~Closed(h)
    /\ Made(h) /\ ~Closed(h) => h \in queue \union local \union orphans
    /\ ~misused /\ ~Open(h) => Watching \intersect flags[h] = {}
    /\ {"POLLIN", "ACCEPTED"} \subseteq flags[h] =>
          "REWATCHED" \in flags[h] \/ Connecting(h)

\* What it says of the loop: a phase of uv_run starts when no callback runs,
\* the callback of an event is for a handle whose close is not finished, a walk
\* runs inside Lua code, and after its close, which is not for a callback, the
\* loop does nothing more.
LoopOK ==
    /\ pc \in {"events", "close"} => current = NoCallback
    /\ ~inrun => current = NoCallback /\ pc = "lua"
    /\ current.handle # None =>
          Made(current.handle) /\ (current.after = "release" <=> Closed(current.handle))
    /\ walking => queue # {} /\ pc = "lua"
    /\ ~walking => local = {}
    /\ loopClosed /\ ~crashed => pc = "lua"
    /\ loopClosed /\ inrun => misused

IInv == /\ TypeOK /\ (\A h \in Handles : HandleOK(h)) /\ LoopOK
        /\ LoopCloseIsLast /\ CleanUseIsSafe

USE NoneIsNoHandle

LEMMA InitIInv == Init => IInv
<1> SUFFICES ASSUME Init PROVE IInv
  OBVIOUS
<1>1. TypeOK
  <2>1. /\ walking \in BOOLEAN /\ stop \in BOOLEAN /\ inrun \in BOOLEAN
        /\ loopClosed \in BOOLEAN /\ crashed \in BOOLEAN /\ misused \in BOOLEAN
    BY Zenon DEF Init
  <2> QED
    BY <2>1 DEF Init, TypeOK, NoCallback
<1>2. \A h \in Handles : HandleOK(h)
  BY DEF Init, HandleOK, Made, Closed, Open, Watching, NoCallback
<1>3. LoopOK /\ LoopCloseIsLast /\ CleanUseIsSafe
  BY DEF Init, LoopOK, NoCallback, LoopCloseIsLast, CleanUseIsSafe
<1> QED
  BY <1>1, <1>2, <1>3 DEF IInv

-----------------------------------------------------------------------------
(* The calls and events that neither make a handle nor close one.          *)

Marks == {"CLOSING", "CLOSED", "UNSPAWNED"}

\* Flags a call may leave on h, and flags an event may leave on it.
Marked(h, f) == f \subseteq Flags /\ \A x \in Marks : x \in f <=> x \in flags[h]
Idle(h, f) == \A x \in Watching : x \in f => x \in flags[h]
Polls(h, f) ==
    {"POLLIN", "ACCEPTED"} \subseteq f => "REWATCHED" \in f \/ Connecting(h)
Fair(h, f) == Marked(h, f) /\ Polls(h, f)
Lazy(h, f) == Fair(h, f) /\ Idle(h, f)

\* The flags that tell nothing of the watching of a listener.
Plain == Flags \ (Marks \union {"POLLIN", "ACCEPTED", "REWATCHED"})

LEMMA FlagsOfHandle ==
  ASSUME TypeOK, NEW h \in Handles, HandleOK(h)
  PROVE  /\ Lazy(h, flags[h])
         /\ \A less \in SUBSET (Plain \union {"POLLIN", "ACCEPTED"}) :
               Lazy(h, Stopped(h, less)) /\ Lazy(h, flags[h] \ less)
         /\ \A more \in SUBSET Plain : Fair(h, Started(h, more))
         /\ \A more \in SUBSET Plain : Fair(h, flags[h] \union more)
         /\ \A more \in SUBSET Plain :
               {"ACTIVE", "FD"} \intersect more = {} => Lazy(h, flags[h] \union more)
<1>1. flags[h] \subseteq Flags /\ Polls(h, flags[h])
  BY DEF TypeOK, HandleOK, Polls
<1>2. ASSUME NEW less \in SUBSET (Plain \union {"POLLIN", "ACCEPTED"})
      PROVE  Lazy(h, Stopped(h, less)) /\ Lazy(h, flags[h] \ less)
  BY <1>1 DEF Lazy, Fair, Marked, Idle, Polls, Stopped, Marks, Plain, Flags, Watching
<1>3. ASSUME NEW more \in SUBSET Plain
      PROVE  Fair(h, Started(h, more)) /\ Fair(h, flags[h] \union more)
  BY <1>1 DEF Fair, Marked, Polls, Started, Marks, Plain, Flags
<1>4. ASSUME NEW more \in SUBSET Plain, {"ACTIVE", "FD"} \intersect more = {}
      PROVE  Lazy(h, flags[h] \union more)
  BY <1>3, <1>4 DEF Lazy, Idle, Plain, Watching
<1>5. Lazy(h, flags[h])
  BY <1>1 DEF Lazy, Fair, Marked, Idle
<1> QED
  BY <1>2, <1>3, <1>4, <1>5

\* What such a step may do to x.
Tame(x) ==
    /\ ~Made(x) => flags'[x] = flags[x]
    /\ \A y \in Marks : y \in flags'[x] <=> y \in flags[x]
    /\ \A y \in Watching : y \in flags'[x] => y \in flags[x] \/ Open(x) \/ misused'
    /\ {"POLLIN", "ACCEPTED"} \subseteq flags'[x] =>
          "REWATCHED" \in flags'[x] \/ Connecting(x)'
    /\ slot'[x] = slot[x] \/ data[x] = "live"
    /\ type'[x] = type[x] /\ data'[x] = data[x]

\* Its effect on all handles.
Mild ==
    /\ flags' \in [Handles -> SUBSET Flags]
    /\ slot' \in [Handles -> Events \union {"none"}]
    /\ misused' \in BOOLEAN /\ (misused => misused')
    /\ UNCHANGED <<type, data>>
    /\ \A x \in Handles : Tame(x)

\* A step that sets the flags of h and may set its slot is mild.
LEMMA SetFlagsMild ==
  ASSUME TypeOK, \A x \in Handles : HandleOK(x),
         NEW h \in Handles, Made(h), NEW f, SetFlags(h, f), Marked(h, f),
         misused' \in BOOLEAN, misused => misused',
         Idle(h, f) \/ Open(h) \/ misused',
         {"POLLIN", "ACCEPTED"} \subseteq f => "REWATCHED" \in f \/ Connecting(h)',
         \A x \in Handles \ {h} : Connecting(x) => Connecting(x)',
         UNCHANGED <<type, data>>,
         \/ slot' = slot
         \/ \E e \in Events : slot' = [slot EXCEPT ![h] = e] /\ data[h] = "live"
  PROVE  Mild
<1>1. flags' \in [Handles -> SUBSET Flags] /\ slot' \in [Handles -> Events \union {"none"}]
  BY DEF TypeOK, SetFlags, Marked
<1>2. ASSUME NEW x \in Handles PROVE Tame(x)
  <2>1. CASE x = h
    <3>1. flags'[x] = f
      BY <2>1 DEF SetFlags, TypeOK
    <3>2. \A y \in Marks : y \in f <=> y \in flags[h]
      BY DEF Marked
    <3>3. \A y \in Watching : y \in f => y \in flags[h] \/ Open(h) \/ misused'
      BY DEF Idle
    <3>4. slot'[x] = slot[x] \/ data[x] = "live"
      BY <2>1
    <3> QED
      BY <2>1, <3>1, <3>2, <3>3, <3>4 DEF Tame
  <2>2. CASE x # h
    <3>1. flags'[x] = flags[x] /\ slot'[x] = slot[x] /\ type'[x] = type[x] /\ data'[x] = data[x]
      BY <2>2 DEF SetFlags, TypeOK
    <3>2. {"POLLIN", "ACCEPTED"} \subseteq flags[x] => "REWATCHED" \in flags[x] \/ Connecting(x)'
      BY <2>2 DEF HandleOK
    <3> QED
      BY <3>1, <3>2 DEF Tame
  <2> QED
    BY <2>1, <2>2
<1> QED
  BY <1>1, <1>2 DEF Mild

\* Lua code that sets them leaves the callback that runs where it is.
LEMMA CallMild ==
  ASSUME IInv, NEW h \in Handles, Made(h), NEW f, SetFlags(h, f), Fair(h, f),
         misused' \in BOOLEAN, misused => misused',
         Idle(h, f) \/ Open(h) \/ misused',
         UNCHANGED <<type, data, current>>,
         \/ slot' = slot
         \/ \E e \in Events : slot' = [slot EXCEPT ![h] = e] /\ data[h] = "live"
  PROVE  Mild
<1>1. \A x \in Handles : Connecting(x)' = Connecting(x)
  BY DEF Connecting
<1>2. {"POLLIN", "ACCEPTED"} \subseteq f => "REWATCHED" \in f \/ Connecting(h)'
  BY <1>1 DEF Fair, Polls
<1> QED
  BY <1>1, <1>2, SetFlagsMild DEF IInv, Fair

\* A mild step keeps what the invariant says of x, provided it does not take x
\* out of the queues, nor put it in, nor end the callback of its close.
LEMMA MildHandle ==
  ASSUME TypeOK, NEW x \in Handles, HandleOK(x), Tame(x), misused => misused',
         x \in closing' \union batch' => ~Open(x),
         x \in queue' \union local' => x \in queue \union local,
         x \in queue \union local \union orphans =>
             x \in queue' \union local' \union orphans',
         current'.handle # x => current.handle # x \/ ~Closed(x)
  PROVE  HandleOK(x)'
<1>1. Made(x)' = Made(x) /\ Closed(x)' = Closed(x) /\ Open(x)' = Open(x)
  BY DEF Tame, Made, Closed, Open, Marks
<1>2. ~Made(x) => flags'[x] = {} /\ data'[x] = "null" /\ slot'[x] = "none"
  BY DEF HandleOK, Tame
<1>3. data'[x] = "freed" \/ "UNSPAWNED" \in flags'[x] => type'[x] = "process"
  BY DEF HandleOK, Tame, Marks
<1>4. Closed(x) /\ current'.handle # x => data'[x] # "live" /\ slot'[x] = "none"
  BY DEF HandleOK, Tame
<1>5. ~misused' /\ ~Open(x) => Watching \intersect flags'[x] = {}
  BY DEF HandleOK, Tame
<1>6. Made(x) /\ ~Closed(x) => data'[x] = "live"
  BY DEF HandleOK, Tame
<1>7. /\ x \in queue' \union local' => Made(x) /\ ~Closed(x)
      /\ Made(x) /\ ~Closed(x) => x \in queue' \union local' \union orphans'
  BY DEF HandleOK
<1>8. {"POLLIN", "ACCEPTED"} \subseteq flags'[x] => "REWATCHED" \in flags'[x] \/ Connecting(x)'
  BY DEF Tame
<1> QED
  BY <1>1, <1>2, <1>3, <1>4, <1>5, <1>6, <1>7, <1>8 DEF HandleOK

\* A call into luv with such an effect keeps the invariant.
LEMMA MildCall ==
  ASSUME IInv, Lua, Mild, UNCHANGED <<signals, queue, walk, loop, crashed>>
  PROVE  IInv'
<1>1. TypeOK'
  <2>1. walking' \in BOOLEAN /\ stop' \in BOOLEAN /\ inrun' \in BOOLEAN
    BY Zenon DEF IInv, TypeOK, walk, loop
  <2>2. loopClosed' \in BOOLEAN /\ crashed' \in BOOLEAN /\ misused' \in BOOLEAN
    BY Zenon DEF IInv, TypeOK, walk, loop, Mild
  <2> QED
    BY <2>1, <2>2 DEF IInv, TypeOK, signals, walk, loop, Mild
<1>2. ASSUME NEW x \in Handles PROVE HandleOK(x)'
  <2>1. TypeOK /\ HandleOK(x) /\ Tame(x) /\ (misused => misused')
    BY DEF IInv, Mild
  <2>2. UNCHANGED <<queue, local, orphans, closing, batch, current>>
    BY DEF walk, loop
  <2>3. x \in closing \union batch => ~Open(x)
    BY <2>1 DEF HandleOK
  <2> QED
    BY <2>1, <2>2, <2>3, MildHandle
<1>3. LoopOK'
  <2>1. current.handle \in Handles => (Closed(current.handle)' <=> Closed(current.handle))
    BY DEF Mild, Tame, Marks, Closed, loop
  <2>2. current.handle \in Handles \union {None}
    BY DEF IInv, TypeOK
  <2> QED
    BY <2>1, <2>2 DEF IInv, LoopOK, walk, loop, Made, Mild
<1>4. LoopCloseIsLast' /\ CleanUseIsSafe'
  <2>1. \A x \in Handles : type'[x] = type[x] /\ ("CLOSED" \in flags'[x] <=> "CLOSED" \in flags[x])
    BY DEF Mild, Tame, Marks
  <2> QED
    BY <2>1 DEF IInv, Mild, LoopCloseIsLast, CleanUseIsSafe, Lua, walk, loop
<1> QED
  BY <1>1, <1>2, <1>3, <1>4 DEF IInv

\* The end of the process keeps the rest of the invariant.
LEMMA AbortKeeps ==
  ASSUME IInv, NEW m \in BOOLEAN, Abort(m), CleanUseIsSafe', ~crashed
  PROVE  IInv'
<1>1. /\ UNCHANGED <<type, flags, data, slot, signals, queue, walk, loop>>
      /\ misused' = (misused \/ m) /\ crashed' = TRUE
  BY DEF Abort
<1>2. misused => misused'
  BY <1>1
<1>3. TypeOK'
  <2>1. walking' \in BOOLEAN /\ stop' \in BOOLEAN /\ inrun' \in BOOLEAN
    BY <1>1, Zenon DEF IInv, TypeOK, walk, loop
  <2>2. loopClosed' \in BOOLEAN /\ crashed' \in BOOLEAN /\ misused' \in BOOLEAN
    BY <1>1, Zenon DEF IInv, TypeOK, walk, loop
  <2> QED
    BY <1>1, <2>1, <2>2 DEF IInv, TypeOK, signals, walk, loop
<1>4. \A x \in Handles : HandleOK(x)'
  BY <1>1, <1>2 DEF IInv, HandleOK, Made, Closed, Open, Connecting, walk, loop
<1>5. LoopOK' /\ LoopCloseIsLast'
  BY <1>1, <1>2 DEF IInv, LoopOK, LoopCloseIsLast, walk, loop, Closed, Made
<1> QED
  BY <1>3, <1>4, <1>5 DEF IInv

\* A call that ends it because the program broke a rule.
LEMMA AbortCall ==
  ASSUME IInv, Lua, NEW m \in BOOLEAN, Abort(m), m
  PROVE  IInv'
<1>1. CleanUseIsSafe'
  BY DEF Abort, CleanUseIsSafe
<1> QED
  BY <1>1, AbortKeeps DEF Lua

\* A handle that passes its luv_*_check has its luv_handle_t.
LEMMA CheckedIsLive ==
  ASSUME IInv, NEW h \in Handles, type[h] \in Types \ {"process"}, data[h] # "null"
  PROVE  Made(h) /\ data[h] = "live"
BY DEF IInv, TypeOK, HandleOK, Made, Types, Streams

\* A call that starts or opens h, with or without a function.
LEMMA UsesKeeps ==
  ASSUME IInv, NEW h \in Handles, Made(h), NEW f, Uses(h, f), Fair(h, f),
         UNCHANGED crashed,
         \/ slot' = slot
         \/ \E e \in Events : luv_callback_check(h, e) /\ data[h] = "live"
  PROVE  IInv'
<1>1. /\ Lua /\ SetFlags(h, f) /\ UNCHANGED <<type, data>>
      /\ UNCHANGED <<signals, queue, walk, loop, crashed>> /\ UNCHANGED current
  BY DEF Uses, loop
<1>2. misused' \in BOOLEAN /\ (misused => misused') /\ (Open(h) \/ misused')
  BY Zenon DEF Uses, IInv, TypeOK
<1>3. Mild
  BY <1>1, <1>2, CallMild DEF luv_callback_check
<1> QED
  BY <1>1, <1>3, MildCall

LEMMA StartKeeps ==
  ASSUME IInv, NEW h \in Handles, Made(h), data[h] = "live",
         NEW e \in Events \union {slot[h]}, NEW f, Start(h, e, f), Fair(h, f)
  PROVE  IInv'
<1>1. slot' = slot \/ \E d \in Events : luv_callback_check(h, d) /\ data[h] = "live"
  BY DEF Start, luv_callback_check, IInv, TypeOK
<1> QED
  BY <1>1, UsesKeeps DEF Start

\* A call that starts nothing.
LEMMA QuietKeeps ==
  ASSUME IInv, Lua, NEW h \in Handles, Made(h), NEW f, SetFlags(h, f), Lazy(h, f),
         UNCHANGED <<type, data, slot, signals, queue, walk, loop, crashed, misused>>
  PROVE  IInv'
<1>1. misused' \in BOOLEAN /\ (misused => misused') /\ UNCHANGED current
  BY Zenon DEF IInv, TypeOK, loop
<1>2. Mild
  BY <1>1, CallMild DEF Lazy
<1> QED
  BY <1>2, MildCall

LEMMA StopKeeps ==
  ASSUME IInv, NEW h \in Handles, Made(h), Stop(h)
  PROVE  IInv'
<1>1. Lazy(h, Stopped(h, {}))
  BY FlagsOfHandle DEF IInv
<1> QED
  BY <1>1, QuietKeeps DEF Stop

LEMMA TimerCalls ==
  ASSUME IInv, NEW h \in Handles,
         \/ luv_timer_stop(h) \/ luv_timer_again(h)
         \/ \E r \in Repeats : luv_timer_start(h, r) \/ luv_timer_set_repeat(h, r)
  PROVE  IInv'
<1>1. Made(h) /\ data[h] = "live"
  BY CheckedIsLive DEF luv_timer_stop, luv_timer_again, luv_timer_start,
     luv_timer_set_repeat, luv_timer_check, Checked, Types, Streams
<1>2. flags[h] \subseteq Flags /\ Polls(h, flags[h])
  BY DEF IInv, TypeOK, HandleOK, Polls
<1>3. CASE luv_timer_stop(h)
  BY <1>1, <1>3, StopKeeps DEF luv_timer_stop
<1>4. CASE luv_timer_again(h)
  <2>1. Fair(h, Started(h, {}))
    BY FlagsOfHandle DEF IInv
  <2> QED
    BY <1>1, <1>4, <2>1, UsesKeeps DEF luv_timer_again
<1>5. ASSUME NEW r \in Repeats, luv_timer_start(h, r) PROVE IInv'
  <2>1. Fair(h, Started(h, r) \ ({"REPEAT"} \ r))
    BY <1>2 DEF Fair, Marked, Polls, Started, Marks, Flags, Repeats
  <2> QED
    BY <1>1, <1>5, <2>1, StartKeeps DEF luv_timer_start, Events
<1>6. ASSUME NEW r \in Repeats, luv_timer_set_repeat(h, r) PROVE IInv'
  <2>1. Lazy(h, (flags[h] \ {"REPEAT"}) \union r)
    BY <1>2 DEF Lazy, Fair, Marked, Idle, Polls, Watching, Marks, Flags, Repeats
  <2> QED
    BY <1>1, <1>6, <2>1, QuietKeeps DEF luv_timer_set_repeat
<1> QED
  BY <1>3, <1>4, <1>5, <1>6

\* The types of handle whose start and stop only set the watcher.
LEMMA WatcherCalls ==
  ASSUME IInv, NEW h \in Handles,
         \/ luv_idle_start(h) \/ luv_idle_stop(h) \/ luv_check_start(h) \/ luv_check_stop(h)
         \/ luv_prepare_start(h) \/ luv_prepare_stop(h)
         \/ luv_fs_event_start(h) \/ luv_fs_event_stop(h)
         \/ luv_fs_poll_start(h) \/ luv_fs_poll_stop(h)
  PROVE  IInv'
<1>1. Made(h) /\ data[h] = "live"
  BY CheckedIsLive DEF luv_idle_start, luv_idle_stop, luv_check_start, luv_check_stop,
     luv_prepare_start, luv_prepare_stop, luv_fs_event_start, luv_fs_event_stop,
     luv_fs_poll_start, luv_fs_poll_stop, luv_idle_check, luv_check_check,
     luv_prepare_check, luv_fs_event_check, luv_fs_poll_check, Checked, Types, Streams
<1>2. Fair(h, Started(h, {})) /\ Fair(h, flags[h])
  BY FlagsOfHandle DEF IInv, Lazy
<1>3. CASE Stop(h)
  BY <1>1, <1>3, StopKeeps
<1>4. ASSUME NEW e \in Events, NEW f \in {flags[h], Started(h, {})}, Start(h, e, f)
      PROVE  IInv'
  BY <1>1, <1>2, <1>4, StartKeeps
<1> QED
  BY <1>3, <1>4 DEF luv_idle_start, luv_idle_stop, luv_check_start, luv_check_stop,
     luv_prepare_start, luv_prepare_stop, luv_fs_event_start, luv_fs_event_stop,
     luv_fs_poll_start, luv_fs_poll_stop, Events

\* The ones that assert that the handle is not closing.
LEMMA AssertingCalls ==
  ASSUME IInv, NEW h \in Handles,
         luv_poll_start(h) \/ luv_poll_stop(h) \/ luv_signal_start(h) \/ luv_signal_stop(h)
  PROVE  IInv'
<1>1. Made(h) /\ data[h] = "live"
  BY CheckedIsLive DEF luv_poll_start, luv_poll_stop, luv_signal_start, luv_signal_stop,
     luv_poll_check, luv_signal_check, Checked, Types, Streams
<1>2. Fair(h, Started(h, {})) /\ Fair(h, Stopped(h, {}))
  BY FlagsOfHandle DEF IInv, Lazy
<1>3. CASE Lua /\ ~Open(h) /\ Abort(~Open(h))
  BY <1>3, AbortCall
<1>4. CASE Stop(h)
  BY <1>1, <1>4, StopKeeps
<1>5. ASSUME NEW e \in Events \union {slot[h]},
             NEW f \in {Started(h, {}), Stopped(h, {})}, Start(h, e, f)
      PROVE  IInv'
  BY <1>1, <1>2, <1>5, StartKeeps
<1> QED
  BY <1>3, <1>4, <1>5 DEF luv_poll_start, luv_poll_stop, luv_signal_start,
     luv_signal_stop, Events

\* Streams, datagrams, asynchronous sends and references.
LEMMA SocketCalls ==
  ASSUME IInv, NEW h \in Handles,
         \/ luv_tcp_open(h) \/ luv_tcp_bind(h) \/ luv_tcp_connect(h) \/ luv_pipe_open(h)
         \/ luv_pipe_bind(h) \/ luv_pipe_connect(h) \/ luv_udp_open(h) \/ luv_udp_bind(h)
         \/ luv_udp_recv_start(h) \/ luv_udp_recv_stop(h) \/ luv_async_send(h)
         \/ luv_handle_ref(h) \/ luv_handle_unref(h)
  PROVE  IInv'
<1>1. Made(h)
  BY DEF luv_tcp_open, luv_tcp_bind, luv_tcp_connect, luv_pipe_open, luv_pipe_bind,
     luv_pipe_connect, luv_udp_open, luv_udp_bind, luv_udp_recv_start, luv_udp_recv_stop,
     luv_async_send, luv_handle_ref, luv_handle_unref, luv_tcp_check, luv_pipe_check,
     luv_udp_check, luv_async_check, Checked, Made
<1>2. TypeOK /\ HandleOK(h) /\ flags[h] \subseteq Flags
  BY DEF IInv, TypeOK
<1>3. CASE Opens(h)
  <2>1. PICK f \in {flags[h], flags[h] \union {"FD"}} : Uses(h, f) /\ UNCHANGED <<slot, crashed>>
    BY <1>3 DEF Opens
  <2>2. Fair(h, f)
    BY <1>2, FlagsOfHandle DEF Lazy, Plain, Flags, Marks
  <2> QED
    BY <1>1, <2>1, <2>2, UsesKeeps
<1>4. CASE luv_udp_recv_start(h)
  <2>1. PICK f \in {flags[h], Started(h, {"FD"})} : Start(h, "recv", f)
    BY <1>4 DEF luv_udp_recv_start
  <2>2. Fair(h, f)
    BY <1>2, FlagsOfHandle DEF Lazy, Plain, Flags, Marks
  <2>3. data[h] = "live"
    BY <1>4, CheckedIsLive DEF luv_udp_recv_start, luv_udp_check, Checked, Types, Streams
  <2> QED
    BY <1>1, <2>1, <2>2, <2>3, StartKeeps DEF Events
<1>5. CASE luv_udp_recv_stop(h)
  BY <1>1, <1>5, StopKeeps DEF luv_udp_recv_stop
<1>6. CASE luv_async_send(h) \/ luv_handle_ref(h) \/ luv_handle_unref(h)
  <2>1. PICK f \in {flags[h] \union {"PENDING"}, flags[h] \union {"REF"}, flags[h] \ {"REF"}} :
            /\ Lua /\ SetFlags(h, f)
            /\ UNCHANGED <<type, data, slot, signals, queue, walk, loop, crashed, misused>>
    BY <1>6 DEF luv_async_send, luv_handle_ref, luv_handle_unref
  <2>2. Lazy(h, f)
    BY <1>2, FlagsOfHandle DEF Plain, Flags, Marks
  <2> QED
    BY <1>1, <2>1, <2>2, QuietKeeps
<1> QED
  BY <1>3, <1>4, <1>5, <1>6 DEF luv_tcp_open, luv_tcp_bind, luv_tcp_connect, luv_pipe_open,
     luv_pipe_bind, luv_pipe_connect, luv_udp_open, luv_udp_bind

LEMMA StreamCalls ==
  ASSUME IInv, NEW h \in Handles,
         luv_stream_listen(h) \/ luv_stream_read_start(h) \/ luv_stream_read_stop(h)
  PROVE  IInv'
<1>1. Made(h) /\ (data[h] # "null" => data[h] = "live")
  BY CheckedIsLive DEF luv_stream_listen, luv_stream_read_start, luv_stream_read_stop,
     luv_stream_check, Made, Types, Streams
<1>2. TypeOK /\ HandleOK(h) /\ flags[h] \subseteq Flags
  BY DEF IInv, TypeOK
<1>3. CASE luv_stream_read_stop(h)
  <2> DEFINE f == IF "READING" \in flags[h] THEN Stopped(h, {"READING", "POLLIN"})
                  ELSE flags[h]
  <2>1. Lazy(h, f)
    BY <1>2, FlagsOfHandle DEF Plain, Flags, Marks
  <2> QED
    BY <1>1, <1>3, <2>1, QuietKeeps DEF luv_stream_read_stop, uv_read_stop
<1>4. ASSUME NEW m \in BOOLEAN, m, Lua, Abort(m) PROVE IInv'
  BY <1>4, AbortCall
<1>5. Fair(h, flags[h])
  BY <1>2, FlagsOfHandle DEF Lazy
<1>6. ASSUME NEW more \in SUBSET {"LISTENING", "FD", "READING"}
      PROVE  Fair(h, Started(h, more \union Watch(h)))
  BY <1>2 DEF Fair, Marked, Polls, Connecting, Watch, Started, Flags, Marks
<1>7. CASE luv_stream_listen(h)
  <2>1. CASE data[h] = "null"
    <3>1. ~Open(h)
      BY <1>1, <1>2, <2>1 DEF HandleOK, Closed, Open
    <3> QED
      BY <1>4, <1>7, <2>1, <3>1 DEF luv_stream_listen
  <2>2. CASE data[h] # "null"
    <3>1. PICK f \in {flags[h], Started(h, {"LISTENING", "FD"} \union Watch(h))} :
              Start(h, "connection", f)
      BY <1>7, <2>2 DEF luv_stream_listen
    <3> QED
      BY <1>1, <1>5, <1>6, <2>2, <3>1, StartKeeps DEF Events
  <2> QED
    BY <2>1, <2>2
<1>8. CASE luv_stream_read_start(h)
  <2>1. CASE data[h] = "null" \/ (Open(h) /\ "FD" \notin flags[h])
    <3>1. ~Open(h) \/ "FD" \notin flags[h]
      BY <1>1, <1>2, <2>1 DEF HandleOK, Closed, Open
    <3> QED
      BY <1>4, <1>8, <2>1, <3>1 DEF luv_stream_read_start
  <2>2. CASE ~(data[h] = "null" \/ (Open(h) /\ "FD" \notin flags[h]))
    <3>1. PICK f \in {flags[h], Started(h, {"READING"} \union Watch(h))} : Start(h, "read", f)
      BY <1>8, <2>2 DEF luv_stream_read_start
    <3> QED
      BY <1>1, <1>5, <1>6, <2>2, <3>1, StartKeeps DEF Events
  <2> QED
    BY <2>1, <2>2
<1> QED
  BY <1>3, <1>7, <1>8

LEMMA AcceptCall ==
  ASSUME IInv, NEW h \in Handles, NEW c \in Handles, luv_stream_accept(h, c)
  PROVE  IInv'
<1>1. /\ Made(h) /\ Made(c) /\ "ACCEPTED" \in flags[h] /\ Lua
      /\ misused' = (misused \/ ~Open(c))
  BY DEF luv_stream_accept, luv_stream_check, Made, Streams
<1>2. /\ UNCHANGED <<type, data, slot>> /\ UNCHANGED <<signals, queue, walk, loop, crashed>>
      /\ UNCHANGED current
  BY DEF luv_stream_accept, loop
<1>3. misused' \in BOOLEAN /\ (misused => misused') /\ (Open(c) \/ misused')
  BY <1>1, Zenon DEF IInv, TypeOK
<1>4. TypeOK /\ HandleOK(h) /\ HandleOK(c) /\ flags[h] \subseteq Flags /\ flags[c] \subseteq Flags
  BY DEF IInv, TypeOK
<1>5. CASE "FD" \in flags[c]
  <2> DEFINE f == flags[h] \ {"ACCEPTED", "REWATCHED"}
  <2>1. SetFlags(h, f)
    BY <1>5 DEF luv_stream_accept
  <2>2. Lazy(h, f)
    BY <1>4 DEF Lazy, Fair, Marked, Idle, Polls, Flags, Marks, Watching
  <2>3. Mild
    BY <1>1, <1>2, <1>3, <2>1, <2>2, CallMild DEF Lazy
  <2> QED
    BY <1>1, <1>2, <2>3, MildCall
<1>6. CASE "FD" \notin flags[c]
  <2> DEFINE g == (flags[h] \ {"ACCEPTED", "REWATCHED"}) \union {"POLLIN"}
  <2>1. flags' = [flags EXCEPT ![h] = g, ![c] = @ \union {"FD"}]
    BY <1>4, <1>6 DEF luv_stream_accept
  <2>2. /\ c # h => flags'[h] = g /\ flags'[c] = flags[c] \union {"FD"}
        /\ c = h => flags'[h] = g \union {"FD"}
        /\ \A x \in Handles : x # h /\ x # c => flags'[x] = flags[x]
    BY <1>4, <2>1 DEF TypeOK
  <2>3. Open(h) \/ misused'
    BY <1>1, <1>3, <1>4 DEF HandleOK, Watching
  <2>4. flags' \in [Handles -> SUBSET Flags] /\ slot' \in [Handles -> Events \union {"none"}]
    BY <1>2, <1>4, <2>1 DEF TypeOK, Flags
  <2>5. ASSUME NEW x \in Handles PROVE Tame(x)
    <3>1. Made(x)' = Made(x) /\ (Connecting(x) <=> Connecting(x)') /\ HandleOK(x)
      BY <1>2 DEF Made, Connecting, IInv
    <3>2. \A y \in Marks : y \in flags'[x] <=> y \in flags[x]
      BY <2>2 DEF Marks
    <3>3. \A y \in Watching : y \in flags'[x] => y \in flags[x] \/ Open(x) \/ misused'
      BY <1>3, <2>2, <2>3 DEF Watching
    <3>4. {"POLLIN", "ACCEPTED"} \subseteq flags'[x] =>
             "REWATCHED" \in flags'[x] \/ Connecting(x)'
      BY <2>2, <3>1 DEF HandleOK
    <3>5. ~Made(x) => flags'[x] = flags[x]
      BY <1>1, <2>2
    <3> QED
      BY <1>2, <3>2, <3>3, <3>4, <3>5 DEF Tame
  <2>6. Mild
    BY <1>2, <1>3, <2>4, <2>5 DEF Mild
  <2> QED
    BY <1>1, <1>2, <2>6, MildCall
<1> QED
  BY <1>5, <1>6

-----------------------------------------------------------------------------
(* Making and closing a handle.                                            *)

\* The parts that a step which leaves the other handles alone keeps of them.
LEMMA OthersKeep ==
  ASSUME NEW x \in Handles, HandleOK(x), misused => misused',
         type'[x] = type[x], flags'[x] = flags[x], data'[x] = data[x], slot'[x] = slot[x],
         x \in closing' \union batch' => x \in closing \union batch,
         x \in queue' \union local' <=> x \in queue \union local,
         x \in orphans => x \in orphans',
         current'.handle # x => current.handle # x \/ ~Closed(x),
         Connecting(x) => Connecting(x)'
  PROVE  HandleOK(x)'
BY DEF HandleOK, Made, Closed, Open

\* luv_handle_setup, with a handle that is already closing after a failed spawn.
LEMMA SetupKeeps ==
  ASSUME IInv, NEW h \in Handles, NEW t \in Types, NEW f \in SUBSET (Flags \ {"CLOSED", "POLLIN", "ACCEPTED"}),
         NEW e \in Events \union {"none"}, luv_handle_setup(h, t, f, e),
         "UNSPAWNED" \in f => t = "process",
         "CLOSING" \in f => "ACTIVE" \notin f /\ "FD" \notin f,
         \/ UNCHANGED closing
         \/ closing' = closing \union {h} /\ "CLOSING" \in f,
         UNCHANGED <<signals, walk, batch, stop, pc, inrun, current, loopClosed, crashed,
                        misused>>
  PROVE  IInv'
<1>1. /\ Lua /\ type[h] = "none"
      /\ type' = [type EXCEPT ![h] = t]
      /\ flags' = [flags EXCEPT ![h] = f \union {"REF"}]
      /\ data' = [data EXCEPT ![h] = "live"]
      /\ slot' = [slot EXCEPT ![h] = e]
      /\ queue' = queue \union {h}
  BY DEF luv_handle_setup, SetFlags
<1>2. TypeOK
  BY DEF IInv
<1>3. TypeOK'
  <2>1. walking' \in BOOLEAN /\ stop' \in BOOLEAN /\ inrun' \in BOOLEAN
    BY <1>2, Zenon DEF TypeOK, walk
  <2>2. loopClosed' \in BOOLEAN /\ crashed' \in BOOLEAN /\ misused' \in BOOLEAN
    BY <1>2, Zenon DEF TypeOK
  <2>3. flags' \in [Handles -> SUBSET Flags]
    BY <1>1, <1>2 DEF TypeOK, Flags
  <2> QED
    BY <1>1, <1>2, <2>1, <2>2, <2>3 DEF TypeOK, signals, walk
<1>4. ASSUME NEW x \in Handles PROVE HandleOK(x)'
  <2>1. CASE x # h
    <3>1. /\ type'[x] = type[x] /\ flags'[x] = flags[x]
          /\ data'[x] = data[x] /\ slot'[x] = slot[x]
      BY <1>1, <1>2, <2>1 DEF TypeOK
    <3> QED
      BY <1>1, <2>1, <3>1, OthersKeep DEF IInv, walk, Connecting
  <2>2. CASE x = h
    <3>1. /\ type'[h] = t /\ flags'[h] = f \union {"REF"} /\ data'[h] = "live"
      BY <1>1, <1>2 DEF TypeOK
    <3>2. t # "none"
      BY DEF Types, Streams
    <3>3. h \notin closing \union batch
      BY <1>1, Zenon DEF IInv, HandleOK, Made, Open
    <3> QED
      BY <1>1, <2>2, <3>1, <3>2, <3>3 DEF HandleOK, Made, Closed, Open, Watching
  <2> QED
    BY <2>1, <2>2
<1>5. LoopOK'
  <2>1. current.handle # None => Closed(current.handle)' = Closed(current.handle)
    <3>1. CASE current.handle = h
      BY <1>1, <1>2, <3>1 DEF IInv, HandleOK, Made, Closed, TypeOK
    <3>2. CASE current.handle # h
      BY <1>1, <1>2, <3>2 DEF TypeOK, Closed
    <3> QED
      BY <3>1, <3>2
  <2>2. current.handle # None => Made(current.handle) /\ Made(current.handle)'
    <3>1. current.handle # None => Made(current.handle) /\ current.handle # h
      BY <1>1 DEF IInv, LoopOK, Made
    <3> QED
      BY <1>1, <1>2, <3>1 DEF TypeOK, Made
  <2> QED
    BY <1>1, <2>1, <2>2 DEF IInv, LoopOK, walk
<1>6. LoopCloseIsLast' /\ CleanUseIsSafe'
  BY <1>1 DEF Lua, LoopCloseIsLast, CleanUseIsSafe
<1> QED
  BY <1>3, <1>4, <1>5, <1>6 DEF IInv

LEMMA MakeKeeps ==
  ASSUME IInv, NEW h \in Handles, Make(h)
  PROVE  IInv'
<1>1. ASSUME NEW t \in Types, NEW f \in SUBSET {"FD", "ACTIVE"}, NEW e \in Events \union {"none"},
             New(h, t, f, e)
      PROVE  IInv'
  <2>1. f \in SUBSET (Flags \ {"CLOSED", "POLLIN", "ACCEPTED"}) /\ "UNSPAWNED" \notin f /\ "CLOSING" \notin f
    BY DEF Flags
  <2>2. /\ luv_handle_setup(h, t, f, e) /\ UNCHANGED closing
        /\ UNCHANGED <<signals, walk, batch, stop, pc, inrun, current, loopClosed, crashed,
                        misused>>
    BY <1>1 DEF New, loop
  <2> QED
    BY <2>1, <2>2, SetupKeeps
<1>2. CASE luv_process_spawn_failed(h)
  <2> DEFINE f == {"CLOSING", "UNSPAWNED"}
  <2>1. PICK e \in {"exit", "none"} :
            /\ luv_handle_setup(h, "process", f, e)
            /\ closing' = closing \union {h}
            /\ UNCHANGED <<signals, walk, batch, stop, pc, inrun, current, loopClosed, crashed,
                        misused>>
    BY <1>2 DEF luv_process_spawn_failed
  <2>2. f \in SUBSET (Flags \ {"CLOSED", "POLLIN", "ACCEPTED"}) /\ "CLOSING" \in f /\ "ACTIVE" \notin f /\ "FD" \notin f
    BY DEF Flags
  <2>3. e \in Events \union {"none"} /\ "process" \in Types
    BY DEF Events, Types
  <2> QED
    BY <2>1, <2>2, <2>3, SetupKeeps
<1>3. CASE luv_process_spawn(h)
  BY <1>1, <1>3 DEF luv_process_spawn, Events, Types
<1>4. CASE luv_async_new(h)
  BY <1>1, <1>4 DEF luv_async_new, Events, Types
<1>5. CASE luv_tty_new(h) \/ luv_poll_new(h)
  BY <1>1, <1>5 DEF luv_tty_new, luv_poll_new, Streams, Types
<1>6. CASE \/ luv_timer_new(h) \/ luv_idle_new(h) \/ luv_check_new(h) \/ luv_prepare_new(h)
           \/ luv_signal_new(h) \/ luv_fs_event_new(h) \/ luv_fs_poll_new(h)
           \/ luv_tcp_new(h) \/ luv_pipe_new(h) \/ luv_udp_new(h)
  BY <1>1, <1>6 DEF luv_timer_new, luv_idle_new, luv_check_new, luv_prepare_new,
     luv_signal_new, luv_fs_event_new, luv_fs_poll_new, luv_tcp_new, luv_pipe_new,
     luv_udp_new, Streams, Types
<1> QED
  BY <1>2, <1>3, <1>4, <1>5, <1>6 DEF Make

LEMMA CloseKeeps ==
  ASSUME IInv, NEW h \in Handles, luv_handle_close(h)
  PROVE  IInv'
<1> DEFINE f == Stopped(h, {"READING", "FD", "POLLIN", "ACCEPTED", "REWATCHED"})
                  \union {"CLOSING"}
<1>1. /\ Lua /\ Made(h) /\ Open(h)
      /\ flags' = [flags EXCEPT ![h] = f]
      /\ closing' \in {closing, closing \union {h}}
      /\ UNCHANGED <<type, data, slot, signals, queue, walk, batch, stop, pc, inrun, current,
                     loopClosed, crashed, misused>>
  BY DEF luv_handle_close, uv_close, SetFlags, Made
<1>2. TypeOK /\ f \subseteq Flags
  BY DEF IInv, TypeOK, Stopped, Flags
<1>3. "CLOSING" \in f /\ "CLOSED" \notin f /\ Watching \intersect f = {}
      /\ ("UNSPAWNED" \in f => "UNSPAWNED" \in flags[h])
  BY <1>1 DEF Stopped, Open, Watching
<1> HIDE DEF f
<1>4. TypeOK'
  <2>1. walking' \in BOOLEAN /\ stop' \in BOOLEAN /\ inrun' \in BOOLEAN
    BY <1>1, <1>2, Zenon DEF TypeOK, walk
  <2>2. loopClosed' \in BOOLEAN /\ crashed' \in BOOLEAN /\ misused' \in BOOLEAN
    BY <1>1, <1>2, Zenon DEF TypeOK
  <2>3. flags' \in [Handles -> SUBSET Flags]
    BY <1>1, <1>2 DEF TypeOK
  <2> QED
    BY <1>1, <1>2, <2>1, <2>2, <2>3 DEF TypeOK, signals, walk
<1>5. ASSUME NEW x \in Handles PROVE HandleOK(x)'
  <2>1. CASE x # h
    <3>1. flags'[x] = flags[x]
      BY <1>1, <1>2, <2>1 DEF TypeOK
    <3> QED
      BY <1>1, <2>1, <3>1, OthersKeep DEF IInv, walk, Connecting
  <2>2. CASE x = h
    <3>1. flags'[h] = f
      BY <1>1, <1>2 DEF TypeOK
    <3>2. ~Closed(h) /\ HandleOK(h)
      BY <1>1 DEF Open, Closed, IInv
    <3> QED
      BY <1>1, <1>3, <2>2, <3>1, <3>2 DEF HandleOK, Made, Closed, Open, Watching, walk
  <2> QED
    BY <2>1, <2>2
<1>6. LoopOK'
  <2>1. current.handle # None => Closed(current.handle)' = Closed(current.handle)
    <3>1. CASE current.handle = h
      BY <1>1, <1>2, <1>3, <3>1 DEF Closed, TypeOK, Open
    <3>2. CASE current.handle # h
      BY <1>1, <1>2, <3>2 DEF TypeOK, Closed
    <3> QED
      BY <3>1, <3>2
  <2> QED
    BY <1>1, <2>1 DEF IInv, LoopOK, walk, Made
<1>7. LoopCloseIsLast' /\ CleanUseIsSafe'
  BY <1>1 DEF Lua, LoopCloseIsLast, CleanUseIsSafe
<1> QED
  BY <1>4, <1>5, <1>6, <1>7 DEF IInv

\* Whatever Lua code calls.
LEMMA CallKeeps ==
  ASSUME IInv, NEW h \in Handles, Call(h)
  PROVE  IInv'
BY TimerCalls, WatcherCalls, AssertingCalls, SocketCalls, StreamCalls, AcceptCall,
   CloseKeeps, Zenon DEF Call

-----------------------------------------------------------------------------
(* The loop.                                                               *)

\* A mild step of the loop: it puts no handle into a queue that was not in
\* one, adds closed handles to the closing ones, and ends no close callback.
LEMMA MildStep ==
  ASSUME IInv, Mild, TypeOK', LoopOK', CleanUseIsSafe', UNCHANGED loopClosed,
         \A x \in closing' \union batch' : x \in closing \union batch \/ ~Open(x),
         queue' \union local' \subseteq queue \union local,
         queue \union local \union orphans \subseteq queue' \union local' \union orphans',
         orphans \subseteq orphans',
         \A x \in Handles : current.handle = x /\ current'.handle # x => ~Closed(x)
  PROVE  IInv'
<1>1. ASSUME NEW x \in Handles PROVE HandleOK(x)'
  <2>1. TypeOK /\ HandleOK(x) /\ Tame(x) /\ (misused => misused')
    BY DEF IInv, Mild
  <2>2. x \in closing' \union batch' => ~Open(x)
    BY <2>1 DEF HandleOK
  <2> QED
    BY <2>1, <2>2, MildHandle
<1>2. LoopCloseIsLast'
  <2>1. \A x \in Handles : type'[x] = type[x] /\ ("CLOSED" \in flags'[x] <=> "CLOSED" \in flags[x])
    BY DEF Mild, Tame, Marks
  <2>2. orphans' = {} => orphans = {}
    OBVIOUS
  <2> QED
    BY <2>1, <2>2 DEF IInv, LoopCloseIsLast
<1> QED
  BY <1>1, <1>2 DEF IInv

\* An event reaches the function of h.  Without its luv_handle_t the process
\* ends, and then h was started after its close.
LEMMA EventKeeps ==
  ASSUME IInv, NEW h \in Handles, Made(h), ~Open(h) => misused, InPhase("events"),
         NEW after \in {"nothing", "connection", "eof", "error", "dispatched"},
         NEW f, Marked(h, f), Idle(h, f) \/ Open(h),
         Polls(h, f) \/ (after = "connection" /\ Open(h)),
         luv_callback_call(h, after, f)
  PROVE  IInv'
<1>1. /\ SetFlags(h, f)
      /\ UNCHANGED <<type, data, slot, signals, queue, walk, closing, batch, stop, inrun,
                     loopClosed, misused>>
  BY DEF luv_callback_call
<1>2. TypeOK /\ HandleOK(h) /\ LoopOK
  BY DEF IInv
<1>3. current = NoCallback /\ ~walking /\ ~loopClosed /\ pc = "events" /\ ~crashed
  BY <1>2 DEF LoopOK, InPhase
<1>4. misused' \in BOOLEAN /\ (misused => misused')
  BY <1>1, <1>2, Zenon DEF TypeOK
<1>5. /\ data[h] = "live" => /\ current' = [handle |-> h, after |-> after]
                             /\ pc' \in {"lua", "return"} /\ crashed' = crashed
      /\ data[h] # "live" => crashed' = TRUE /\ UNCHANGED <<current, pc>>
  BY DEF luv_callback_call
<1>6. data[h] = "live" <=> ~Closed(h)
  BY <1>2, <1>3 DEF HandleOK, NoCallback
<1>7. data[h] # "live" => misused /\ ~Open(h)
  BY <1>2, <1>6 DEF HandleOK, Closed, Open
<1>8. Mild
  <2>1. \A x \in Handles : ~Connecting(x)
    BY <1>3 DEF Connecting, NoCallback
  <2>2. {"POLLIN", "ACCEPTED"} \subseteq f => "REWATCHED" \in f \/ Connecting(h)'
    BY <1>5, <1>7, <2>1 DEF Polls, Connecting
  <2> QED
    BY <1>1, <1>2, <1>4, <2>1, <2>2, SetFlagsMild DEF IInv
<1>9. TypeOK'
  <2>1. walking' \in BOOLEAN /\ stop' \in BOOLEAN /\ inrun' \in BOOLEAN
    BY <1>1, <1>2, Zenon DEF TypeOK, walk
  <2>2. loopClosed' \in BOOLEAN /\ misused' \in BOOLEAN
    BY <1>1, <1>2, Zenon DEF TypeOK
  <2>3. crashed' \in BOOLEAN
    BY <1>2, <1>5, Zenon DEF TypeOK
  <2>4. /\ pc' \in {"lua", "return", "events", "close"}
        /\ current' \in [handle : Handles \union {None},
                         after : {"nothing", "connection", "eof", "error", "dispatched",
                                  "release"}]
    BY <1>2, <1>5 DEF TypeOK
  <2> QED
    BY <1>1, <1>2, <1>8, <2>1, <2>2, <2>3, <2>4 DEF TypeOK, signals, walk, Mild
<1>10. LoopOK'
  <2>1. Closed(h)' = Closed(h)
    BY <1>8 DEF Mild, Tame, Marks, Closed
  <2>2. CASE data[h] = "live"
    BY <1>1, <1>2, <1>3, <1>5, <1>6, <2>1, <2>2 DEF LoopOK, walk, Made
  <2>3. CASE data[h] # "live"
    BY <1>1, <1>2, <1>3, <1>5, <2>3 DEF LoopOK, walk, NoCallback
  <2> QED
    BY <2>2, <2>3
<1>11. CleanUseIsSafe'
  BY <1>1, <1>3, <1>5, <1>7 DEF CleanUseIsSafe
<1>12. \A x \in Handles : current.handle # x
  BY <1>3 DEF NoCallback
<1> QED
  BY <1>1, <1>8, <1>9, <1>10, <1>11, <1>12, MildStep DEF walk

\* Only a handle that was not closed has events, unless the program misused it.
LEMMA FiresOpen ==
  ASSUME NEW h \in Handles, Fire(h), HandleOK(h)
  PROVE  /\ InPhase("events") /\ Made(h)
         /\ ~Open(h) => misused
<1>1. Active(h) \/ "POLLIN" \in flags[h]
  BY DEF Fire, Fires, Readable, luv_timer_cb, luv_idle_cb, luv_check_cb, luv_prepare_cb,
     luv_poll_cb, luv_fs_event_cb, luv_fs_poll_cb, luv_udp_recv_cb, luv_async_cb, exit_cb,
     luv_stream_connection_cb, luv_stream_read_cb, luv_signal_cb
<1>2. InPhase("events") /\ type[h] \in Types
  BY DEF Fire, Fires, Readable, luv_timer_cb, luv_idle_cb, luv_check_cb, luv_prepare_cb,
     luv_poll_cb, luv_fs_event_cb, luv_fs_poll_cb, luv_udp_recv_cb, luv_async_cb, exit_cb,
     luv_stream_connection_cb, luv_stream_read_cb, luv_signal_cb, Types, Streams
<1> QED
  BY <1>1, <1>2 DEF HandleOK, Watching, Active, Made, Types, Streams

\* Each event calls its function, or meets an assertion of uv__server_io.
LEMMA FireCalls ==
  ASSUME NEW h \in Handles, Fire(h)
  PROVE  \/ \E after \in {"nothing", "eof", "error", "dispatched", "connection"},
               f \in {flags[h], Stopped(h, {}), Stopped(h, {"POLLIN"}),
                      flags[h] \ {"PENDING"}} :
                luv_callback_call(h, after, f)
         \/ /\ luv_callback_call(h, "connection", flags[h] \union {"ACCEPTED"})
            /\ Open(h)
         \/ /\ Readable(h) /\ Abort(FALSE)
            /\ "ACCEPTED" \in flags[h] \/ ~Open(h)
BY DEF Fire, luv_timer_cb, luv_idle_cb, luv_check_cb, luv_prepare_cb, luv_poll_cb,
   luv_fs_event_cb, luv_fs_poll_cb, luv_udp_recv_cb, luv_async_cb, exit_cb,
   luv_stream_connection_cb, luv_stream_read_cb, luv_signal_cb

LEMMA FireKeeps ==
  ASSUME IInv, NEW h \in Handles, Fire(h)
  PROVE  IInv'
<1>1. TypeOK /\ HandleOK(h) /\ LoopOK /\ flags[h] \subseteq Flags
  BY DEF IInv, TypeOK
<1>2. InPhase("events") /\ Made(h) /\ (~Open(h) => misused)
  BY <1>1, FiresOpen
<1>3. ASSUME NEW after \in {"nothing", "eof", "error", "dispatched", "connection"},
             NEW f \in {flags[h], Stopped(h, {}), Stopped(h, {"POLLIN"}), flags[h] \ {"PENDING"}},
             luv_callback_call(h, after, f)
      PROVE  IInv'
  <2>1. Lazy(h, f)
    BY <1>1, FlagsOfHandle DEF Plain, Flags, Marks
  <2> QED
    BY <1>2, <1>3, <2>1, EventKeeps DEF Lazy, Fair
<1>4. CASE luv_callback_call(h, "connection", flags[h] \union {"ACCEPTED"}) /\ Open(h)
  <2>1. Marked(h, flags[h] \union {"ACCEPTED"})
    BY <1>1 DEF Marked, Marks, Flags
  <2> QED
    BY <1>2, <1>4, <2>1, EventKeeps
<1>5. CASE Readable(h) /\ Abort(FALSE) /\ ("ACCEPTED" \in flags[h] \/ ~Open(h))
  <2>1. "REWATCHED" \in flags[h] \/ misused
    BY <1>1, <1>2, <1>5 DEF HandleOK, LoopOK, Readable, InPhase, Connecting, NoCallback
  <2>2. CleanUseIsSafe' /\ ~crashed
    BY <1>5, <2>1 DEF Abort, CleanUseIsSafe, Readable, InPhase
  <2> QED
    BY <1>5, <2>2, AbortKeeps
<1> QED
  BY <1>3, <1>4, <1>5, FireCalls

\* A step that touches no handle is mild.
LEMMA StillMild ==
  ASSUME IInv, UNCHANGED <<type, flags, data, slot>>, misused' \in BOOLEAN, misused => misused',
         \A x \in Handles : Connecting(x) => Connecting(x)'
  PROVE  Mild
<1>1. flags' \in [Handles -> SUBSET Flags] /\ slot' \in [Handles -> Events \union {"none"}]
  BY DEF IInv, TypeOK
<1>2. ASSUME NEW x \in Handles PROVE Tame(x)
  BY DEF IInv, HandleOK, Tame
<1> QED
  BY <1>1, <1>2 DEF Mild

\* A caught signal of h is dispatched: a close that waited for it goes on.
LEMMA DispatchedCloses ==
  ASSUME TypeOK, NEW h \in Handles, Dispatched(h)
  PROVE  /\ closing' \subseteq Handles
         /\ \A x \in closing' : x \in closing \/ ~Open(x)
         /\ caught' \in [Handles -> Nat] /\ dispatched' \in [Handles -> Nat]
BY DEF Dispatched, TypeOK

LEMMA DropSignalKeeps ==
  ASSUME IInv, NEW h \in Handles, DropSignal(h)
  PROVE  IInv'
<1>1. /\ Dispatched(h)
      /\ UNCHANGED <<type, flags, data, slot, queue, walk, batch, stop, pc, inrun, current,
                     loopClosed, crashed, misused>>
  BY DEF DropSignal
<1>2. /\ closing' \subseteq Handles
      /\ \A x \in closing' : x \in closing \/ ~Open(x)
      /\ caught' \in [Handles -> Nat] /\ dispatched' \in [Handles -> Nat]
  BY <1>1, DispatchedCloses DEF IInv
<1>3. misused' \in BOOLEAN /\ (misused => misused')
  BY <1>1, Zenon DEF IInv, TypeOK
<1>4. Mild
  BY <1>1, <1>3, StillMild DEF Connecting
<1>5. TypeOK'
  <2>1. walking' \in BOOLEAN /\ stop' \in BOOLEAN /\ inrun' \in BOOLEAN
    BY <1>1, Zenon DEF IInv, TypeOK, walk
  <2>2. loopClosed' \in BOOLEAN /\ crashed' \in BOOLEAN
    BY <1>1, Zenon DEF IInv, TypeOK
  <2> QED
    BY <1>1, <1>2, <1>3, <2>1, <2>2 DEF IInv, TypeOK, walk
<1>6. LoopOK' /\ CleanUseIsSafe'
  BY <1>1 DEF IInv, LoopOK, CleanUseIsSafe, walk, Made, Closed
<1> QED
  BY <1>1, <1>2, <1>4, <1>5, <1>6, MildStep DEF walk

\* A callback of an event returns, also after the loop was closed under it.
EventEnds == {"nothing", "connection", "eof", "error", "dispatched"}

LEMMA ReturnsMild ==
  ASSUME IInv, NEW after \in EventEnds,
         Returns(after, "events"), Mild,
         closing' \subseteq Handles,
         caught' \in [Handles -> Nat], dispatched' \in [Handles -> Nat],
         \A x \in closing' : x \in closing \/ ~Open(x)
  PROVE  IInv'
<1>1. /\ ~walking /\ current.handle # None /\ current.after = after
      /\ current' = NoCallback /\ pc' = "events" /\ crashed' = loopClosed
      /\ UNCHANGED <<type, queue, walk, batch, stop, inrun, loopClosed, misused>>
  BY DEF Returns
<1>2. TypeOK'
  <2>1. walking' \in BOOLEAN /\ stop' \in BOOLEAN /\ inrun' \in BOOLEAN
    BY <1>1, Zenon DEF IInv, TypeOK, walk
  <2>2. loopClosed' \in BOOLEAN /\ crashed' \in BOOLEAN
    BY <1>1, Zenon DEF IInv, TypeOK
  <2> QED
    BY <1>1, <2>1, <2>2 DEF IInv, TypeOK, walk, Mild, NoCallback
<1>3. inrun /\ (loopClosed => misused)
  BY <1>1 DEF IInv, LoopOK, NoCallback
<1>4. LoopOK' /\ CleanUseIsSafe'
  BY <1>1, <1>3 DEF IInv, LoopOK, CleanUseIsSafe, walk, NoCallback
<1>5. ~Closed(current.handle)
  BY <1>1 DEF IInv, LoopOK, EventEnds
<1> QED
  BY <1>1, <1>2, <1>4, <1>5, MildStep DEF walk

LEMMA EventReturnKeeps ==
  ASSUME IInv,
         \/ EventReturns \/ ConnectionReturns \/ EofReturns \/ ReadErrorReturns
         \/ SignalReturns
  PROVE  IInv'
<1>1. TypeOK /\ \A x \in Handles : HandleOK(x)
  BY DEF IInv
<1>2. PICK h \in Handles : h = current.handle
  BY <1>1 DEF EventReturns, ConnectionReturns, EofReturns, ReadErrorReturns, SignalReturns,
     Returns, TypeOK
<1>3. /\ UNCHANGED <<type, data, slot, misused>>
      /\ \A x \in Handles \ {h} : ~Connecting(x)
  BY <1>2 DEF EventReturns, ConnectionReturns, EofReturns, ReadErrorReturns, SignalReturns,
     Returns, Connecting
<1>4. misused' \in BOOLEAN /\ (misused => misused')
  BY <1>1, <1>3, Zenon DEF TypeOK
<1>5. Made(h) /\ flags[h] \subseteq Flags /\ HandleOK(h)
  BY <1>1, <1>2 DEF IInv, LoopOK, TypeOK
<1>6. ASSUME NEW after \in EventEnds, NEW f, Returns(after, "events"), SetFlags(h, f),
             UNCHANGED <<signals, closing>>, Marked(h, f), Idle(h, f),
             {"POLLIN", "ACCEPTED"} \subseteq f => "REWATCHED" \in f
      PROVE  IInv'
  <2>1. Mild
    BY <1>1, <1>3, <1>4, <1>5, <1>6, SetFlagsMild
  <2>2. /\ closing' \subseteq Handles /\ (\A x \in closing' : x \in closing)
        /\ caught' \in [Handles -> Nat] /\ dispatched' \in [Handles -> Nat]
    BY <1>1, <1>6 DEF TypeOK, signals
  <2> QED
    BY <1>6, <2>1, <2>2, ReturnsMild
<1>7. current.after # "connection" => ~Connecting(h)
  BY DEF Connecting
<1>8. CASE ConnectionReturns
  <2> DEFINE f == IF "ACCEPTED" \in flags[h] THEN flags[h] \ {"POLLIN"} ELSE flags[h]
  <2>1. /\ Returns("connection", "events") /\ SetFlags(h, f)
        /\ UNCHANGED <<signals, closing>>
    BY <1>2, <1>8 DEF ConnectionReturns
  <2>2. Marked(h, f) /\ Idle(h, f) /\ ~({"POLLIN", "ACCEPTED"} \subseteq f)
    BY <1>5 DEF Marked, Idle, Marks, Flags
  <2> QED
    BY <1>6, <2>1, <2>2 DEF EventEnds
<1>9. CASE EofReturns
  <2>1. /\ Returns("eof", "events") /\ SetFlags(h, flags[h] \ {"READING"})
        /\ UNCHANGED <<signals, closing>> /\ current.after # "connection"
    BY <1>2, <1>9 DEF EofReturns, Returns
  <2>2. /\ Marked(h, flags[h] \ {"READING"}) /\ Idle(h, flags[h] \ {"READING"})
        /\ {"POLLIN", "ACCEPTED"} \subseteq flags[h] \ {"READING"} =>
              "REWATCHED" \in flags[h] \ {"READING"}
    BY <1>5, <1>7, <2>1 DEF HandleOK, Marked, Idle, Marks, Flags
  <2> QED
    BY <1>6, <2>1, <2>2 DEF EventEnds
<1>10. CASE ReadErrorReturns
  <2> DEFINE f == IF "READING" \in flags[h] THEN Stopped(h, {"READING", "POLLIN"})
                  ELSE flags[h]
  <2>1. /\ Returns("error", "events") /\ SetFlags(h, f)
        /\ UNCHANGED <<signals, closing>> /\ current.after # "connection"
    BY <1>2, <1>10 DEF ReadErrorReturns, uv_read_stop, Returns
  <2>2. /\ Marked(h, f) /\ Idle(h, f)
        /\ {"POLLIN", "ACCEPTED"} \subseteq f => "REWATCHED" \in f
    BY <1>5, <1>7, <2>1 DEF HandleOK, Marked, Idle, Marks, Flags, Stopped
  <2> QED
    BY <1>6, <2>1, <2>2 DEF EventEnds
<1>11. CASE EventReturns \/ SignalReturns
  <2>1. /\ UNCHANGED flags /\ \A x \in Handles : ~Connecting(x)
        /\ \E after \in EventEnds : Returns(after, "events")
    BY <1>2, <1>3, <1>11 DEF EventReturns, SignalReturns, Returns, Connecting, EventEnds
  <2>2. Mild
    BY <1>3, <1>4, <2>1, StillMild
  <2>3. /\ closing' \subseteq Handles
        /\ \A x \in closing' : x \in closing \/ ~Open(x)
        /\ caught' \in [Handles -> Nat] /\ dispatched' \in [Handles -> Nat]
    <3>1. CASE EventReturns
      BY <1>1, <3>1 DEF EventReturns, TypeOK, signals
    <3>2. CASE SignalReturns
      <4>1. Dispatched(h)
        BY <1>2, <3>2 DEF SignalReturns
      <4> QED
        BY <1>1, <4>1, DispatchedCloses
    <3> QED
      BY <1>11, <3>1, <3>2
  <2> QED
    BY <2>1, <2>2, <2>3, ReturnsMild
<1> QED
  BY <1>8, <1>9, <1>10, <1>11

\* The steps of the loop that touch no handle.
LEMMA LoopKeeps ==
  ASSUME IInv, UNCHANGED <<type, flags, data, slot, misused>>,
         TypeOK', LoopOK', CleanUseIsSafe', UNCHANGED <<loopClosed, current>>,
         closing' \union batch' \subseteq closing \union batch,
         queue' \union local' \subseteq queue \union local,
         queue \union local \union orphans \subseteq queue' \union local' \union orphans',
         orphans \subseteq orphans'
  PROVE  IInv'
<1>1. misused' \in BOOLEAN /\ (misused => misused')
  BY Zenon DEF IInv, TypeOK
<1>2. Mild
  BY <1>1, StillMild DEF Connecting
<1> QED
  BY <1>2, MildStep

\* A signal is caught at any time.
LEMMA CatchKeeps ==
  ASSUME IInv, NEW h \in Handles, Catch(h)
  PROVE  IInv'
<1>1. /\ UNCHANGED <<type, flags, data, slot, queue, walk, loop, crashed, misused>>
      /\ caught' = [caught EXCEPT ![h] = @ + 1] /\ dispatched' = dispatched
  BY DEF Catch
<1>2. TypeOK'
  <2>1. walking' \in BOOLEAN /\ stop' \in BOOLEAN /\ inrun' \in BOOLEAN
    BY <1>1, Zenon DEF IInv, TypeOK, walk, loop
  <2>2. loopClosed' \in BOOLEAN /\ crashed' \in BOOLEAN /\ misused' \in BOOLEAN
    BY <1>1, Zenon DEF IInv, TypeOK, loop
  <2>3. caught' \in [Handles -> Nat]
    BY <1>1 DEF IInv, TypeOK
  <2> QED
    BY <1>1, <2>1, <2>2, <2>3 DEF IInv, TypeOK, walk, loop
<1>3. LoopOK' /\ CleanUseIsSafe'
  BY <1>1 DEF IInv, LoopOK, CleanUseIsSafe, Made, Closed, walk, loop
<1> QED
  BY <1>1, <1>2, <1>3, LoopKeeps DEF walk, loop

LEMMA RunKeeps ==
  ASSUME IInv,
         luv_loop_stop \/ luv_loop_run \/ uv__run_closing_handles \/ EndIteration
  PROVE  IInv'
<1>1. /\ UNCHANGED <<type, flags, data, slot, misused, queue, current, loopClosed, crashed>>
      /\ UNCHANGED <<signals, walk>>
      /\ closing' \in {closing, {}} /\ batch' \in {batch, closing}
  BY DEF luv_loop_stop, luv_loop_run, uv__run_closing_handles, EndIteration
<1>2. TypeOK /\ LoopOK
  BY DEF IInv
<1>3. TypeOK'
  <2>1. walking' \in BOOLEAN /\ loopClosed' \in BOOLEAN /\ crashed' \in BOOLEAN /\ misused' \in BOOLEAN
    BY <1>1, <1>2, Zenon DEF TypeOK, walk
  <2>2. stop' \in BOOLEAN /\ inrun' \in BOOLEAN
    BY <1>2, Zenon DEF TypeOK, luv_loop_stop, luv_loop_run, uv__run_closing_handles, EndIteration
  <2>3. pc' \in {"lua", "return", "events", "close"}
    BY <1>2 DEF TypeOK, luv_loop_stop, luv_loop_run, uv__run_closing_handles, EndIteration
  <2> QED
    BY <1>1, <1>2, <2>1, <2>2, <2>3 DEF TypeOK, signals, walk
<1>4. LoopOK'
  <2>1. current.handle # None => Made(current.handle)' /\ Closed(current.handle)' = Closed(current.handle)
    BY <1>1, <1>2 DEF LoopOK, Made, Closed
  <2>2. CASE luv_loop_stop
    BY <1>1, <1>2, <2>1, <2>2 DEF LoopOK, luv_loop_stop, walk
  <2>3. CASE luv_loop_run
    BY <1>1, <1>2, <2>1, <2>3 DEF LoopOK, luv_loop_run, Lua, walk
  <2>4. CASE uv__run_closing_handles
    BY <1>1, <1>2, <2>1, <2>4 DEF LoopOK, uv__run_closing_handles, InPhase, walk
  <2>5. CASE EndIteration
    BY <1>1, <1>2, <2>1, <2>5 DEF LoopOK, EndIteration, InPhase, walk
  <2> QED
    BY <2>2, <2>3, <2>4, <2>5
<1>5. CleanUseIsSafe'
  BY <1>1 DEF IInv, CleanUseIsSafe, walk
<1>6. closing' \union batch' \subseteq closing \union batch
  BY <1>1
<1> QED
  BY <1>1, <1>3, <1>4, <1>5, <1>6, LoopKeeps DEF walk

\* uv_loop_close finds loop->handle_queue empty: no walk runs, and a handle
\* whose close is not finished is linked to the frame of a walk cut short.
LEMMA LoopCloseKeeps ==
  ASSUME IInv, luv_loop_close
  PROVE  IInv'
<1>1. /\ Lua /\ queue = {} /\ loopClosed' = TRUE
      /\ misused' = (misused \/ inrun)
      /\ UNCHANGED <<type, flags, data, slot, signals, queue, walk, closing, batch, stop, pc,
                     inrun, current, crashed>>
  BY DEF luv_loop_close
<1>2. TypeOK'
  <2>1. walking' \in BOOLEAN /\ stop' \in BOOLEAN /\ inrun' \in BOOLEAN
    BY <1>1, Zenon DEF IInv, TypeOK, walk
  <2>2. loopClosed' \in BOOLEAN /\ crashed' \in BOOLEAN /\ misused' \in BOOLEAN
    BY <1>1, Zenon DEF IInv, TypeOK
  <2> QED
    BY <1>1, <2>1, <2>2 DEF IInv, TypeOK, signals, walk
<1>3. \A x \in Handles : HandleOK(x)'
  BY <1>1 DEF IInv, HandleOK, Made, Closed, Open, Connecting, walk
<1>4. LoopOK'
  BY <1>1 DEF IInv, LoopOK, Lua, Made, Closed, walk
<1>5. LoopCloseIsLast'
  <2>1. local = {}
    BY <1>1 DEF IInv, LoopOK
  <2>2. orphans = {} => \A x \in Handles : ~Made(x) \/ Closed(x)
    BY <1>1, <2>1 DEF IInv, HandleOK
  <2> QED
    BY <1>1, <2>2 DEF LoopCloseIsLast, Made, Closed, walk
<1>6. CleanUseIsSafe'
  BY <1>1 DEF CleanUseIsSafe, Lua
<1> QED
  BY <1>2, <1>3, <1>4, <1>5, <1>6 DEF IInv

\* A walk visits handles of the queue or of its frame: their luv_handle_t is
\* there, which luv_walk_cb asserts.
LEMMA VisitKeeps ==
  ASSUME IInv, Lua, NEW rest \in {queue, local}, rest = local \/ ~walking,
         NEW h \in rest, Visit(h, rest)
  PROVE  IInv'
<1>1. /\ local' = rest \ {h} /\ queue' = (queue \ rest) \union {h} /\ walking' = TRUE
      /\ crashed' = (data[h] # "live")
      /\ UNCHANGED <<type, flags, data, slot, signals, orphans, misused>>
      /\ UNCHANGED <<closing, batch, stop, pc, inrun, current, loopClosed>>
  BY DEF Visit, loop
<1>2. TypeOK /\ LoopOK
  BY DEF IInv
<1>3. h \in Handles /\ h \in queue \union local
  BY <1>2 DEF TypeOK
<1>4. crashed' = FALSE
  BY <1>1, <1>3 DEF IInv, HandleOK
<1>5. queue' \union local' = queue \union local
  BY <1>1, <1>2 DEF LoopOK
<1>6. TypeOK'
  <2>1. walking' \in BOOLEAN /\ stop' \in BOOLEAN /\ inrun' \in BOOLEAN
    BY <1>1, <1>2, Zenon DEF TypeOK
  <2>2. loopClosed' \in BOOLEAN /\ crashed' \in BOOLEAN /\ misused' \in BOOLEAN
    BY <1>1, <1>2, <1>4, Zenon DEF TypeOK
  <2> QED
    BY <1>1, <1>2, <1>3, <2>1, <2>2 DEF TypeOK, signals
<1>7. LoopOK'
  BY <1>1, <1>2 DEF LoopOK, Lua, Made, Closed
<1>8. CleanUseIsSafe'
  BY <1>4 DEF CleanUseIsSafe
<1> QED
  BY <1>1, <1>5, <1>6, <1>7, <1>8, LoopKeeps

LEMMA WalkKeeps ==
  ASSUME IInv, luv_loop_walk \/ Walk
  PROVE  IInv'
<1>1. CASE luv_loop_walk
  <2>1. PICK h \in queue : Visit(h, queue)
    BY <1>1 DEF luv_loop_walk
  <2> QED
    BY <1>1, <2>1, VisitKeeps DEF luv_loop_walk
<1>2. CASE luv_walk_cb
  <2>1. PICK h \in local : Visit(h, local)
    BY <1>2 DEF luv_walk_cb
  <2> QED
    BY <1>2, <2>1, VisitKeeps DEF luv_walk_cb
<1>3. CASE WalkEnds \/ WalkRaises
  <2>1. /\ UNCHANGED <<type, flags, data, slot, signals, queue, crashed, misused>>
        /\ UNCHANGED <<closing, batch, stop, pc, inrun, current, loopClosed>>
        /\ walking' = FALSE /\ local' = {} /\ orphans' \in {orphans, orphans \union local}
        /\ local = {} \/ orphans' = orphans \union local
    BY <1>3 DEF WalkEnds, WalkRaises, loop
  <2>2. TypeOK'
    <3>1. walking' \in BOOLEAN /\ stop' \in BOOLEAN /\ inrun' \in BOOLEAN
      BY <2>1, Zenon DEF IInv, TypeOK
    <3>2. loopClosed' \in BOOLEAN /\ crashed' \in BOOLEAN /\ misused' \in BOOLEAN
      BY <2>1, Zenon DEF IInv, TypeOK
    <3> QED
      BY <2>1, <3>1, <3>2 DEF IInv, TypeOK, signals
  <2>3. LoopOK'
    BY <2>1 DEF IInv, LoopOK, Made, Closed
  <2>4. CleanUseIsSafe'
    BY <1>3 DEF CleanUseIsSafe, WalkEnds, WalkRaises, Lua
  <2> QED
    BY <2>1, <2>2, <2>3, <2>4, LoopKeeps
<1> QED
  BY <1>1, <1>2, <1>3 DEF Walk

-----------------------------------------------------------------------------
(* The end of a close.                                                     *)

\* uv__finish_close: an assertion about a stream or datagram handle fails only
\* when the handle was started again after its close.
LEMMA FinishKeeps ==
  ASSUME IInv, NEW h \in Handles, Finish(h)
  PROVE  IInv'
<1> DEFINE f == (flags[h] \ {"REF"}) \union {"CLOSED"}
<1>1. /\ InPhase("close") /\ h \in batch /\ batch' = batch \ {h}
      /\ flags' = [flags EXCEPT ![h] = f]
      /\ queue' = queue \ {h} /\ local' = local \ {h}
      /\ crashed' \in {Watched(h), Watched(h) \/ h \in orphans}
      /\ orphans' = IF crashed' THEN orphans ELSE orphans \ {h}
      /\ UNCHANGED <<type, signals, walking, closing, stop, inrun, loopClosed, misused>>
  BY DEF Finish, CloseCallback, luv_spawn_close_cb, uv__finish_close, SetFlags
<1>2. TypeOK /\ LoopOK /\ HandleOK(h)
  BY DEF IInv
<1>3. current = NoCallback /\ ~walking /\ ~loopClosed /\ inrun /\ pc = "close"
  BY <1>1, <1>2 DEF LoopOK, InPhase
<1>4. ~Open(h) /\ Made(h)
  BY <1>1, <1>2 DEF HandleOK, Open
<1>5. f \subseteq Flags
  BY <1>2 DEF TypeOK, Flags
<1>6. ~misused => ~Watched(h)
  BY <1>2, <1>4 DEF HandleOK, Watched, Watching, Active
<1>7. crashed' => misused \/ h \in orphans
  BY <1>1, <1>6, Zenon
<1>8. \/ /\ current' = [handle |-> h, after |-> "release"]
         /\ pc' \in {"lua", "return"} /\ UNCHANGED <<data, slot>>
      \/ /\ UNCHANGED <<current, pc>> /\ "UNSPAWNED" \in flags[h]
         /\ slot' = [slot EXCEPT ![h] = "none"] /\ data' = [data EXCEPT ![h] = "freed"]
  BY DEF Finish, CloseCallback, luv_spawn_close_cb, luv_handle_cleanup
<1>9. TypeOK'
  <2>1. walking' \in BOOLEAN /\ stop' \in BOOLEAN /\ inrun' \in BOOLEAN
    BY <1>1, <1>2, Zenon DEF TypeOK
  <2>2. loopClosed' \in BOOLEAN /\ misused' \in BOOLEAN
    BY <1>1, <1>2, Zenon DEF TypeOK
  <2>3. crashed' \in BOOLEAN
    BY <1>1, Zenon DEF Watched
  <2>4. flags' \in [Handles -> SUBSET Flags]
    BY <1>1, <1>2, <1>5 DEF TypeOK
  <2>5. /\ data' \in [Handles -> {"live", "null", "freed"}]
        /\ slot' \in [Handles -> Events \union {"none"}]
        /\ pc' \in {"lua", "return", "events", "close"}
        /\ current' \in [handle : Handles \union {None},
                         after : {"nothing", "connection", "eof", "error", "dispatched",
                                  "release"}]
    BY <1>2, <1>8 DEF TypeOK
  <2>6. type' \in [Handles -> Types \union {"none"}] /\ orphans' \subseteq Handles
    BY <1>1, <1>2 DEF TypeOK
  <2>7. /\ queue' \subseteq Handles /\ local' \subseteq Handles
        /\ closing' \subseteq Handles /\ batch' \subseteq Handles
    BY <1>1, <1>2 DEF TypeOK
  <2>8. caught' \in [Handles -> Nat] /\ dispatched' \in [Handles -> Nat]
    BY <1>1, <1>2 DEF TypeOK, signals
  <2> QED
    BY <2>1, <2>2, <2>3, <2>4, <2>5, <2>6, <2>7, <2>8, Zenon DEF TypeOK
<1>10. flags'[h] = f /\ "CLOSED" \in f /\ ("UNSPAWNED" \in f => "UNSPAWNED" \in flags[h])
       /\ (Watching \intersect f = Watching \intersect flags[h])
       /\ ("REWATCHED" \in flags[h] => "REWATCHED" \in f)
  BY <1>1, <1>2 DEF TypeOK, Watching
<1> HIDE DEF f
<1>11. ASSUME NEW x \in Handles PROVE HandleOK(x)'
  <2>1. CASE x # h
    <3>1. flags'[x] = flags[x] /\ data'[x] = data[x] /\ slot'[x] = slot[x]
      BY <1>1, <1>2, <1>8, <2>1 DEF TypeOK
    <3>2. HandleOK(x) /\ current.handle # x /\ ~Connecting(x)
      BY <1>3 DEF IInv, NoCallback, Connecting
    <3>3. x \in orphans => x \in orphans'
      BY <1>1, <2>1
    <3> QED
      BY <1>1, <2>1, <3>1, <3>2, <3>3, OthersKeep
  <2>2. CASE x = h
    <3>1. Made(h)' /\ Closed(h)' /\ ~Open(h)'
      BY <1>1, <1>4, <1>10 DEF Made, Closed, Open
    <3>2. data'[h] = "freed" \/ "UNSPAWNED" \in flags'[h] => type'[h] = "process"
      BY <1>1, <1>2, <1>8, <1>10 DEF HandleOK
    <3>3. current'.handle # h => data'[h] # "live" /\ slot'[h] = "none"
      BY <1>2, <1>8 DEF TypeOK
    <3>4. ~misused' => Watching \intersect flags'[h] = {}
      BY <1>1, <1>2, <1>4, <1>10 DEF HandleOK
    <3>5. h \notin queue' \union local'
      BY <1>1
    <3>6. {"POLLIN", "ACCEPTED"} \subseteq flags'[h] => "REWATCHED" \in flags'[h]
      BY <1>2, <1>3, <1>10 DEF HandleOK, Watching, Connecting, NoCallback
    <3> QED
      BY <2>2, <3>1, <3>2, <3>3, <3>4, <3>5, <3>6 DEF HandleOK
  <2> QED
    BY <2>1, <2>2
<1>12. LoopOK'
  <2>1. Made(h)' /\ Closed(h)'
    BY <1>1, <1>4, <1>10 DEF Made, Closed
  <2>2. ~walking' /\ local' = {} /\ ~loopClosed' /\ inrun'
    BY <1>1, <1>2, <1>3 DEF LoopOK
  <2> QED
    BY <1>3, <1>8, <2>1, <2>2 DEF LoopOK, NoCallback
<1>13. LoopCloseIsLast' /\ CleanUseIsSafe'
  BY <1>1, <1>3, <1>7 DEF LoopCloseIsLast, CleanUseIsSafe
<1> QED
  BY <1>9, <1>11, <1>12, <1>13 DEF IInv

\* The close callback returns and the luv_handle_t is released.
LEMMA ReleaseKeeps ==
  ASSUME IInv, luv_handle_close_cb
  PROVE  IInv'
<1>1. /\ ~walking /\ current.handle # None /\ current.after = "release"
      /\ current' = NoCallback /\ pc' = "close"
      /\ crashed' = loopClosed
      /\ UNCHANGED <<type, signals, queue, walk, batch, stop, inrun, loopClosed, flags, closing,
                     misused>>
  BY DEF luv_handle_close_cb, Returns
<1>2. TypeOK /\ LoopOK
  BY DEF IInv
<1>3. PICK h \in Handles : h = current.handle
  BY <1>1, <1>2 DEF TypeOK
<1>4. /\ slot' = [slot EXCEPT ![h] = "none"] /\ data' = [data EXCEPT ![h] = "null"]
      /\ Closed(h) /\ Made(h) /\ inrun
  BY <1>1, <1>2, <1>3 DEF luv_handle_close_cb, luv_handle_cleanup, LoopOK, NoCallback
<1>5. misused' \in BOOLEAN /\ (misused => misused') /\ (loopClosed => misused')
  BY <1>1, <1>2, <1>4, Zenon DEF TypeOK, LoopOK
<1>6. TypeOK'
  <2>1. walking' \in BOOLEAN /\ stop' \in BOOLEAN /\ inrun' \in BOOLEAN
    BY <1>1, <1>2, Zenon DEF TypeOK, walk
  <2>2. loopClosed' \in BOOLEAN /\ crashed' \in BOOLEAN
    BY <1>1, <1>2, Zenon DEF TypeOK
  <2> QED
    BY <1>1, <1>2, <1>4, <1>5, <2>1, <2>2 DEF TypeOK, signals, walk, NoCallback
<1>7. ASSUME NEW x \in Handles PROVE HandleOK(x)'
  <2>1. HandleOK(x) /\ UNCHANGED <<local, orphans>>
    BY <1>1 DEF IInv, walk
  <2>2. CASE x # h
    <3>1. data'[x] = data[x] /\ slot'[x] = slot[x]
      BY <1>2, <1>4, <2>2 DEF TypeOK
    <3> QED
      BY <1>1, <1>3, <1>5, <2>1, <2>2, <3>1, OthersKeep DEF Connecting
  <2>3. CASE x = h
    <3>1. data'[h] = "null" /\ slot'[h] = "none"
      BY <1>2, <1>4 DEF TypeOK
    <3> QED
      BY <1>1, <1>4, <1>5, <2>1, <2>3, <3>1 DEF HandleOK, Made, Closed, Open, Connecting
  <2> QED
    BY <2>2, <2>3
<1>8. LoopOK'
  BY <1>1, <1>2, <1>4, <1>5 DEF LoopOK, NoCallback, walk
<1>9. LoopCloseIsLast' /\ CleanUseIsSafe'
  BY <1>1, <1>5 DEF IInv, LoopCloseIsLast, CleanUseIsSafe, walk
<1> QED
  BY <1>6, <1>7, <1>8, <1>9 DEF IInv

-----------------------------------------------------------------------------
(* The theorems.                                                           *)

LEMMA NextIInv == IInv /\ [Next]_vars => IInv'
<1> SUFFICES ASSUME IInv, [Next]_vars PROVE IInv'
  OBVIOUS
<1>1. CASE UNCHANGED vars
  <2>1. TypeOK'
    <3>1. walking' \in BOOLEAN /\ stop' \in BOOLEAN /\ inrun' \in BOOLEAN
      BY <1>1, Zenon DEF IInv, TypeOK, vars, walk, loop
    <3>2. loopClosed' \in BOOLEAN /\ crashed' \in BOOLEAN /\ misused' \in BOOLEAN
      BY <1>1, Zenon DEF IInv, TypeOK, vars, loop
    <3> QED
      BY <1>1, <3>1, <3>2 DEF IInv, TypeOK, vars, signals, walk, loop
  <2>2. \A x \in Handles : HandleOK(x)'
    BY <1>1 DEF IInv, HandleOK, Made, Closed, Open, Connecting, vars, walk, loop
  <2>3. LoopOK' /\ LoopCloseIsLast' /\ CleanUseIsSafe'
    BY <1>1 DEF IInv, LoopOK, LoopCloseIsLast, CleanUseIsSafe, Made, Closed, vars, walk, loop
  <2> QED
    BY <2>1, <2>2, <2>3 DEF IInv
<1>2. ASSUME NEW h \in Handles,
             Make(h) \/ Call(h) \/ Fire(h) \/ Catch(h) \/ DropSignal(h) \/ Finish(h)
      PROVE  IInv'
  BY <1>2, MakeKeeps, CallKeeps, FireKeeps, CatchKeeps, DropSignalKeeps, FinishKeeps, Zenon
<1>3. CASE luv_loop_stop \/ luv_loop_run \/ uv__run_closing_handles \/ EndIteration
  BY <1>3, RunKeeps
<1>4. CASE luv_loop_close
  BY <1>4, LoopCloseKeeps
<1>5. CASE luv_loop_walk \/ Walk
  BY <1>5, WalkKeeps
<1>6. CASE Return
  BY <1>6, EventReturnKeeps, ReleaseKeeps DEF Return
<1>7. CASE Over
  BY <1>1, <1>7 DEF Over
<1> QED
  BY <1>1, <1>2, <1>3, <1>4, <1>5, <1>6, <1>7, Zenon DEF Next

LEMMA SpecIInv == Spec => []IInv
BY InitIInv, NextIInv, PTL DEF Spec

\* The variables keep their types: in particular a flag of libuv, a callback
\* slot and the phase of uv_run are always among the ones the code knows.
THEOREM TypeCorrect == Spec => []TypeOK
<1>1. IInv => TypeOK
  BY DEF IInv
<1> QED
  BY SpecIInv, <1>1, PTL

\* The registry reference of a handle is held from luv_handle_setup until the
\* close callback has returned, and not longer: luv_handle_cleanup runs exactly
\* when libuv has let go of the handle.
THEOREM HandleKept == Spec => []KeptUntilClosed
<1>1. IInv => KeptUntilClosed
  BY DEF IInv, HandleOK, KeptUntilClosed, Made, Closed
<1> QED
  BY SpecIInv, <1>1, PTL

\* Without a misuse, a walk cut short, or a listener watched again while a
\* connection of it waits, neither an assertion of libuv nor a released
\* luv_handle_t ends the process.  Each assertion modelled is one of the cases:
\* a crash by itself says nothing of the program.
THEOREM NoCrash == Spec => []CleanUseIsSafe
<1>1. IInv => CleanUseIsSafe
  BY DEF IInv
<1> QED
  BY SpecIInv, <1>1, PTL

\* uv_loop_close succeeds only when every handle is closed, unless a walk was
\* cut short.
THEOREM LoopClosesLast == Spec => []LoopCloseIsLast
<1>1. IInv => LoopCloseIsLast
  BY DEF IInv
<1> QED
  BY SpecIInv, <1>1, PTL

-----------------------------------------------------------------------------
(* No event of a closed handle.                                            *)

\* Lua code that makes, uses or closes a handle starts no callback.
LEMMA CallsNoCallback ==
  ASSUME NEW h \in Handles, Make(h) \/ Call(h) \/ Catch(h) \/ DropSignal(h)
  PROVE  UNCHANGED current
<1>1. ASSUME NEW t, NEW f, NEW e, New(h, t, f, e) PROVE UNCHANGED current
  BY <1>1 DEF New, loop
<1>2. CASE Make(h)
  BY <1>1, <1>2 DEF Make, luv_timer_new, luv_idle_new, luv_check_new, luv_prepare_new,
     luv_poll_new, luv_signal_new, luv_fs_event_new, luv_fs_poll_new, luv_tcp_new,
     luv_pipe_new, luv_tty_new, luv_udp_new, luv_async_new, luv_process_spawn,
     luv_process_spawn_failed
<1>3. ASSUME NEW f, Uses(h, f) PROVE UNCHANGED current
  BY <1>3 DEF Uses, loop
<1>4. ASSUME NEW e, NEW f, Start(h, e, f) PROVE UNCHANGED current
  BY <1>3, <1>4 DEF Start
<1>5. ASSUME NEW m, Stop(h) \/ Abort(m) PROVE UNCHANGED current
  BY <1>5 DEF Stop, Abort, loop
<1>6. CASE \/ luv_timer_stop(h) \/ luv_timer_again(h)
           \/ \E r \in Repeats : luv_timer_start(h, r) \/ luv_timer_set_repeat(h, r)
  BY <1>3, <1>4, <1>5, <1>6 DEF luv_timer_stop, luv_timer_again, luv_timer_start,
     luv_timer_set_repeat, loop
<1>7. CASE \/ luv_idle_start(h) \/ luv_idle_stop(h) \/ luv_check_start(h) \/ luv_check_stop(h)
           \/ luv_prepare_start(h) \/ luv_prepare_stop(h) \/ luv_poll_start(h)
           \/ luv_poll_stop(h) \/ luv_signal_start(h) \/ luv_signal_stop(h)
           \/ luv_fs_event_start(h) \/ luv_fs_event_stop(h)
           \/ luv_fs_poll_start(h) \/ luv_fs_poll_stop(h)
           \/ luv_udp_recv_start(h) \/ luv_udp_recv_stop(h)
  BY <1>4, <1>5, <1>7 DEF luv_idle_start, luv_idle_stop, luv_check_start, luv_check_stop,
     luv_prepare_start, luv_prepare_stop, luv_poll_start, luv_poll_stop, luv_signal_start,
     luv_signal_stop, luv_fs_event_start, luv_fs_event_stop, luv_fs_poll_start,
     luv_fs_poll_stop, luv_udp_recv_start, luv_udp_recv_stop
<1>8. CASE \/ luv_tcp_open(h) \/ luv_tcp_bind(h) \/ luv_tcp_connect(h) \/ luv_pipe_open(h)
           \/ luv_pipe_bind(h) \/ luv_pipe_connect(h) \/ luv_udp_open(h) \/ luv_udp_bind(h)
  BY <1>3, <1>8 DEF luv_tcp_open, luv_tcp_bind, luv_tcp_connect, luv_pipe_open,
     luv_pipe_bind, luv_pipe_connect, luv_udp_open, luv_udp_bind, Opens
<1>9. CASE \/ luv_stream_listen(h) \/ luv_stream_read_start(h) \/ luv_stream_read_stop(h)
           \/ \E c \in Handles : luv_stream_accept(h, c)
  BY <1>4, <1>5, <1>9 DEF luv_stream_listen, luv_stream_read_start, luv_stream_read_stop,
     luv_stream_accept, loop
<1>10. CASE \/ luv_async_send(h) \/ luv_handle_ref(h) \/ luv_handle_unref(h)
            \/ luv_handle_close(h)
  BY <1>10 DEF luv_async_send, luv_handle_ref, luv_handle_unref, luv_handle_close, loop
<1>11. CASE Call(h)
  BY <1>6, <1>7, <1>8, <1>9, <1>10, <1>11, Zenon DEF Call
<1>12. CASE Catch(h) \/ DropSignal(h)
  BY <1>12 DEF Catch, DropSignal, loop
<1> QED
  BY <1>2, <1>11, <1>12

\* Only events start one before the close callback.
LEMMA FiresOne ==
  ASSUME NEW h \in Handles, Fire(h)
  PROVE  current' = current \/ current'.handle = h
<1>1. CASE Abort(FALSE)
  BY <1>1 DEF Abort, loop
<1>2. ASSUME NEW after, NEW f, luv_callback_call(h, after, f)
      PROVE  current' = current \/ current'.handle = h
  BY <1>2 DEF luv_callback_call
<1> QED
  BY FireCalls, <1>1, <1>2

\* As long as the program starts no closed handle, no event of a handle that
\* luv_handle_close was called on reaches Lua, whatever libuv had already
\* detected: uv_close has stopped the watcher.
THEOREM NoEventAfterClose == Spec => ClosedIsQuiet
<1> DEFINE Quiet ==
        LET h == current'.handle IN
        h # None /\ current.handle = None /\ current'.after # "release" /\ ~misused => Open(h)
<1>1. IInv /\ [Next]_vars => [Quiet]_vars
  <2> SUFFICES ASSUME IInv, Next, current'.handle # None, current.handle = None,
                      current'.after # "release", ~misused
               PROVE  Open(current'.handle)
    BY DEF vars
  <2>1. current' # current /\ current' # NoCallback
    BY DEF NoCallback
  <2>2. ASSUME NEW h \in Handles, Fire(h) PROVE Open(current'.handle)
    <3>1. current'.handle = h
      BY <2>1, <2>2, FiresOne
    <3>2. Open(h)
      BY <2>2, FiresOpen DEF IInv
    <3> QED
      BY <3>1, <3>2
  <2>3. ASSUME NEW h \in Handles, Finish(h) PROVE FALSE
    BY <2>1, <2>3 DEF Finish, CloseCallback, luv_spawn_close_cb
  <2>4. ASSUME luv_loop_stop \/ luv_loop_run \/ luv_loop_close \/ luv_loop_walk \/ Walk
                 \/ Return \/ uv__run_closing_handles \/ EndIteration \/ Over
        PROVE  FALSE
    BY <2>1, <2>4 DEF luv_loop_stop, luv_loop_run, luv_loop_close, luv_loop_walk, Walk,
       luv_walk_cb, WalkEnds, WalkRaises, Visit, Return, EventReturns, ConnectionReturns,
       EofReturns, ReadErrorReturns, SignalReturns, luv_handle_close_cb, Returns, uv__run_closing_handles, EndIteration,
       Over, vars, loop
  <2>5. ASSUME NEW h \in Handles, Make(h) \/ Call(h) \/ Catch(h) \/ DropSignal(h) PROVE FALSE
    BY <2>1, <2>5, CallsNoCallback
  <2> QED
    BY <2>2, <2>3, <2>4, <2>5, Zenon DEF Next
<1> QED
  BY SpecIInv, <1>1, PTL DEF Spec, ClosedIsQuiet
=============================================================================
