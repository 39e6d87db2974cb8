# A TLA+ model of xcore

xcore is a small engine for game servers: a C host (`src/xcore/src`) that embeds
Lua, a binding of libuv (`src/xcore/luv`), and a Lua framework
(`src/gameserver/base`) with objects, timers, events, a TCP server and client,
a packet protocol and a redis client. One thread runs `uv_run` and all of the
Lua code; libuv's pool threads execute file system and DNS requests.

This directory holds TLA+ modules for the core of that system, TLC
configurations that check them on small instances, and TLAPS proofs. `PROJECT.json`
maps every definition to the source lines it models, and lists the runs, the
hazards each property is aimed at, the findings and the theorems.

    tlc -config Timer.cfg MCTimer        # one model-checking run
    tlapm Timer_proofs.tla               # one proof module

## 1. Inventory

| Part | State it keeps | Operations | Model |
|---|---|---|---|
| Timers (`base/timer.lua`, `CObject` wrappers in `base/class.lua`) | `obj.__Timer`: uv handle → callback | AddTimer, DelTimer, DelTimerByName, DelAll, HasTimer, NextTick | `Timer` |
| libuv loop (`deps/libuv/src/unix/core.c`, `timer.c`) | loop time, timer heap, `timer_counter` | uv__update_time, uv__run_timers, poll | `Timer`, `TcpServer` (as far as used) |
| Events of an object (`base/class.lua`) | `__Events`: name → list of listeners and marks | AddEvent, OnceEvent, AddEvents, DelEvent, DelAllEvent, OnEvent, DispatchEvent | `EventDispatch` |
| TCP server (`base/tcp.lua`, CTcpServer) | `m_ClientVfd2Obj`, `m_ClientObj2Vfd`, `m_ClientKey`, `m_CacheData`, `m_ClientVfd` | Start, Stop, Accept, Recv, Send, OnClientLost, CloseClient, Encode, Decode | `TcpServer`, `PacketFraming`, `StreamCipher` |
| Front-end wiring (`base/server.lua`) | the network node and the RPC node | event handlers, package parser, Send2Net | handlers and parser in `TcpServer`, `PacketFraming` |
| Packet format (`base/net/pack.lua`) | none | UnpackHead, Pack, UnpackBody | the first two in `PacketFraming` |
| luv requests (`luv_req.c`, `luv_fs.c`, `luv_dns.c`, `luv_stream.c`, `luv_tcp.c`, …) | `luv_req_t`: references to request, continuation, payload | set-up, fulfil, cleanup, cancel, scandir_next | `LuvReq` |
| libuv thread pool (`deps/libuv/src/threadpool.c`) | work queue, workers, `loop->wq` | submit, cancel, worker, uv__work_done | `LuvReq` |
| luv handles (`luv_lhandle.c`, `luv_handle.c`, `luv_loop.c`, one file per type) | `luv_handle_t`, its references, two callback slots; libuv's flags and queues | new, start, stop, callbacks, ref, unref, close, walk, run, stop, loop close | `LuvHandle` |
| TCP client (`base/tcp.lua`, CTcpClient) | socket, status, cached bytes | Start, ReStart, Connected, Error, Close, Send, Recv | `RedisClient`, `RespParser` |
| redis client (`base/redis.lua`) | `m_SendList`, `m_LockList`, commands waiting for SELECT | Exec, Send, Recv, Get, Set, TimeOut, listeners, reply parser | `RedisClient`, `RespParser` |
| ZIP archives (`xcore/src/miniz.c`, `lminiz.c`) | reader and writer state, central directory, sorted index, the file | open, locate, extract, add, copy, finalize, append in place | `ZipSearch`, `ZipArchive`, `ZipContents` |
| Compression (`miniz.c`, `lminiz.c`) | compressor: lookahead, dictionary, open block, pending output; decompressor: coroutine state, ring | mz_deflate, mz_inflate, and the loops over memory, callbacks and archive members | `Deflate`, `Inflate`, `Zlib` |
| Protocol codec (`base/net/base.lua`, `reader.lua`, `tolua.lua`) | protocol tables, read position | readers and writers of numbers, strings, arrays | section 8 |
| Protocol monitor (`base/net/monitor.lua`) | per-protocol counters | count, report, reset | section 8 |
| Module loader (`base/require.lua`) | loaded modules, class registry | import, reload, `__init__`, `__update__`, `__destroy__` | section 8 |
| Attributes and counters (`base/class.lua`) | temp and saved attributes, dirty flags, counters | Set, Add, RegAttr, AddCounter, DelCounter | section 8 |
| Start-up (`base/setting.lua`, `preload.lua`, `xcore/src/main.c`, `lengine.c`) | settings, engine state | load settings, init, run, exit | section 8 |
| log, utils, REPL, sample account application, C# export, scripts, vendored code | | | section 8 |

**How the parts interact.** libuv calls back into Lua in the poll phase (a
connection, data, the end of a stream) and in the timer phase. I/O callbacks do
little: they change the server's tables and post events. `CObject:OnEvent` never
calls listeners itself; it defers `DispatchEvent` with `NextTick`, a timer with no
delay and no repetition. So all application code runs from timers, and the order
in which events reach the application is the order in which libuv serves timers
that are due at the same time. File system and DNS calls with a continuation leave
the loop's thread: they go through the pool's queue, a worker, and `loop->wq` back
to the loop.

**What is hard here.**
- Deferral: between posting an event and dispatching it, other I/O, `Stop`,
  `CloseClient` or a deleted timer may change what the event is about; "netaccept"
  is deferred twice, a packet once.
- A callback that changes the structure being walked: timers deleted by other
  timers of the same pass, listeners changed during a dispatch.
- The byte stream: TCP may cut it anywhere, and the cipher's key moves with every
  byte decoded.
- Memory shared by Lua's collector, the loop and worker threads: a request is kept
  alive only by registry references that several paths release.
- Handles that are closed asynchronously while callbacks, walks and caught signals
  still refer to them.
- Partial failure: errors of callbacks that are ignored, calls that libuv refuses,
  writes and allocations that fail half way through an archive member.
- Coroutines over buffers: the compressor and the decompressor stop wherever input or
  room runs out, with bytes in three or four places at once.
- A protocol without names: redis replies are matched to commands by their order, over
  timeouts and reconnections.

**What makes each part correct.** Timers: one truth about which timers exist; no
call lost, repeated or out of order. Events: a dispatch is not disturbed by what
its listeners change. TCP server: tables and handles agree; the application sees a
connection begin, carry packets, end. Framing: a FIFO channel of packet bodies.
Requests: memory in use is kept, memory no longer used is let go, every answer is
delivered once. Handles: a `luv_handle_t` lives exactly until the close callback, and
every close is finished. Redis: a command's reply reaches its function, once. Archives:
the file holds the members that were accepted, whatever failed. Compression: what is
compressed and decompressed again is the input, and success means all of it.

## 2. Modules

| Module | Kind |
|---|---|
| `TickQueue` | abstract: deferred calls are a FIFO queue |
| `Timer`, `MCTimer`, `Timer_proofs` | timers over libuv's heap; implements `TickQueue` |
| `EventDispatch`, `MCEventDispatch`, `EventDispatch_proofs` | listeners and dispatch of one object |
| `TcpServer`, `MCTcpServer`, `TcpServer_proofs` | the server's connections and its events |
| `PacketChannel` | abstract: a FIFO channel of packet bodies |
| `StreamCipher`, `PacketFraming`, `MCPacketFraming` | one connection's bytes; implements `PacketChannel` |
| `LuvReq`, `MCLuvReq`, `LuvReq_proofs` | requests between Lua, the pool, the loop and the collector |
| `LuvHandle`, `MCLuvHandle`, `LuvHandle_proofs` | handles of every type between Lua, luv and the loop |
| `RedisClient`, `MCRedisClient`, `RedisClient_proofs` | CRedis over CTcpClient and a redis server |
| `RespParser`, `MCRespParser` | the parser of redis replies, byte for byte |
| `ZipSearch`, `MCZipSearch`, `ZipSearch_proofs` | the end record, the sorted index and the search |
| `ZipContents` | abstract: an archive is a list of members |
| `ZipArchive`, `MCZipArchive`, `ZipArchive_proofs` | writer, reader, copies and appends in place; implements `ZipContents` |
| `SymbolStream` | reference: what a sequence of symbols decompresses to |
| `Deflate`, `Inflate` | the two halves of the compressor as streams |
| `Zlib`, `MCZlib` | both halves composed: the output of one is the input of the other |

A definition named `X_Suffix`, with the comment "Mutant", stands in front of the
definition `X` and is a plausible wrong version of it. The specifications never use
it. Each property of a passing run is violated when its mutant replaces `X`
(`PROJECT.json`, "mutants"), so no property holds by the shape of the model alone.

### Timer

`table[o][h]` is `obj.__Timer[h]`; `uv[h]` the armed flag, deadline, repeat and
`start_id` of the `uv_timer_t`; `closure[h]` the upvalues of the Lua closure that
`AddTimer` hands to libuv; `now` and `counter` are the loop's time and
`timer_counter`; `pc` is where `uv_run` is. `served` and `ahead` are history variables: the
ticks in the order they ran, and the timers that were due when a timer was started.

- `AddTimer`, `DelTimer`, `DelTimerByName`, `DelAll`, `NextTick` are the Lua
  functions, callable whenever Lua runs: in a timer callback or in another phase.
  `AddTimer` refuses negative times. It always takes a fresh handle: `timer.lua`
  never closes or reuses one.
- `UpdateTime`, `RunTimer`, `Return`, `EndTimers` are one iteration of `uv_run`.
  `RunTimer` is `uv_timer_stop`, `uv_timer_again` and the closure up to the call: a
  one-shot closure removes its entry and stops the handle before it calls back. A nil
  callback would raise an error and go on.

`TickQueue` says what `OnEvent` relies on: calls take numbers, only the pending call
with the least number is dispatched, calls may be withdrawn. The refinement maps the
queue to the armed tick handles with their `start_id`, and the numbers to
`counter`.

### EventDispatch

`__Events[name]` is one Lua table with two parts, here `list` (array of entries) and
`mark` (hash of registered callbacks). `running`, `cursor` and `incall` are the state
of `DispatchEvent`'s loop from `#list` down to 1. `DelAllEvent` takes the table out
of `__Events` while a dispatch may be walking it: `orphan` and `old` keep it.
Listeners run between `Call` and `Return` or `Raise`, and may do anything Lua code
may do. `snapshot`, `called` and `spent` are history variables. `DelEvent` is
modelled as the code behaves: `table.remove(list[idx])` works on an entry and not on
the list, so the mark goes and the entry stays: a dispatch calls a deleted listener, and one
that was deleted and added again twice (section 6).

### TcpServer

State is named after the fields of `CTcpServer`; `handle[c]` is the life of a client's
`uv_tcp_t` ("new" between `read_start` and the poll that adds it to epoll), `events`
the queue of deferred events. That this queue is FIFO, and that it is empty whenever
the poll phase begins, is not assumed out of nothing: these are the theorems
`TimerImplementsTickQueue` and `NoTickLeftBehind` about `Timer`.

- Poll phase: `Accept`, `AcceptFailed`, `Recv`, `OnClientLost`.
- Timer phase: `Start`, `Stop`, `CloseClient`, `Send` by the application, on any vfd
  it has ever heard of; `Dispatch` runs `server.lua`'s handler of the oldest event,
  which posts "netaccept" and "netclose" as second events.
- After `Stop` the tables are nil and operations on them raise (`RaisesAfterStop`);
  `raised` records it.

### PacketFraming, StreamCipher

One connection, byte for byte. The client packs a body behind its size in two bytes
and encodes it (`ClientSend`); TCP hands over any prefix of the bytes in flight
(`Recv`); the loop of `CTcpServer:Recv` calls the parser once per `Parse` step.
`Encode` and `Decode` are `tcp.lua`'s: each byte is xored with the key's low byte and
the key moves by the low bits of the plain byte. The client, which is not in the
repository, is modelled from the server's `Encode` and `Pack`.

### LuvReq

`uv[r]` is where libuv has the request, `data[r]` whether `req->data` points to a live
`luv_req_t` (and so whether the registry keeps the userdata), `wq`, `worker`, `loopwq`
and `local` are the queues it moves through, `current` is the request whose
continuation is executing. Lua code makes requests of each kind, cancels them,
iterates listings and drops them (`Collect` is the garbage collector); workers take
and finish work in between; the loop reports in batches. A callback that meets a null
`luv_req_t` is a crash (`Die`), after which nothing else happens. Using memory of a
collected request may crash or not. `uv_cancel` of a request that never went
to the pool reads memory nobody wrote (`CancelListing`). `fs_scandir_next` takes any live
request, as its check assigns where it should compare: it releases one that is queued or
executed (`ScandirNext`), or reads a listing that is not there. `retyped` are the requests it
was called on and somebody may still use; `uv_cancel` no longer knows their type.

### LuvHandle

`flags[h]` are libuv's flags with what it keeps beside them, `data[h]` whether
`handle->data` points to a live `luv_handle_t`, `slot` the event callbacks, `queue` is
`loop->handle_queue`. Lua code runs from the main script, from a callback of the loop or
from the function given to `walk`; it may use any handle it has ever made, also closing
and closed ones, as Lua programs can. One action per luv function and per callback, with
the checks of that type's file: they differ, and that is where the hazards are. An
assertion of libuv, or a null `luv_handle_t`, sets `crashed`. Whether the program is to
blame is recorded apart from it: `misused` is set by a call that starts, opens or reads a
closed handle, stops a poll or signal watcher that is closed (`poll.c:88`, `signal.c:437`),
reads a stream without a descriptor, or closes the loop inside `uv_run`. What libuv asserts in
an event sets `crashed` alone. The loop watches the descriptor of a stream (POLLIN)
apart from the handle being active: `uv__server_io` stops the watch while a connection
waits to be accepted (`ConnectionReturns`), and `listen` and `read_start` start it again
(`Watch`). Signals are caught at any moment (`Catch`), and `caught` and `dispatched` count
the messages in the loop's pipe, which is what makes the close of a signal watcher wait. A walk moves the queue
into its own frame, visits handle by handle and may be left by an error (`WalkRaises`).

### RedisClient, RespParser

`c` holds the fields of `CRedis`, `conn` those of its `CTcpClient`; `wire` are the
commands the server has not answered, `ticks` the deferred events of the client, served
in order. The clock may advance at any moment and `TimeOut` runs over all locks. The
connection may be refused, fail or end (`Faults`), up to `MaxFaults` times. `Recv` and
`TimeOut` drop the locks first and then call the functions one by one: `call` holds those
that are left and the reply, `CallNext` calls the next one, which may use the client again
before it returns (`call.by`, `ProgramRuns`), and `Raise` is an error it raises, which leaves
those behind it uncalled. A reply to HGETALL that is neither an error nor a table raises in
`Recv` itself (`Answer`). `RespParser`
is the function `CRedis:Start` gives to the client, with the loop of `CTcpClient:Recv`
that calls it, over characters: data.meta, data.left and the positions are those of the
code, errors of Lua included.

### ZipSearch, ZipArchive

`ZipSearch` has the algorithms of the reader, one action per turn of each loop: `ReadEnd`
and `ScanWindow` are the backward scan for the end record in overlapping windows, with
unsigned arithmetic modulo `Word`; `Open`, `Heapify`, `Shrink` and `Sift` the two loops of
the heap sort over `pIndices`; `Locate` and `BinarySearch` the search, linear when the flags
require it.

`ZipArchive` keeps the file and the writer's block as sequences of cells (a cell is a
local header, a name, a directory header, an end record or a piece of data) and one step
per write. Each of `Uses` says what a behaviour may do: writing with reserve and
alignment, copying behind stubs, storing archives inside archives, appending in place.
Two of its conventions matter for the proofs. `zip.room` names the arrays known to have place
for one more member; every other growth may fail, which includes all the moments at which
doubling makes an array grow. `SupportedUses` names the uses for which the code keeps its
promises; outside of it members are lost, by these lines of `miniz.c`: an append behind a
stub (3176), an append whose writes fail (3877), and a copy of a member that holds an end
record of its own, when its body is not written to the end (3684) or the push of its directory
header fails (3740): the copied bytes stay behind the end of the archive, and a reader finds
that record first. What the code does in several writes, the zeros, a deflated member
and the body of a copied one, is one step that may stop after any part of it (`Torn`), also on
the heap, where a single write that fails has written nothing.
`ZipContents` says what the writer promises: its members only change by one accepted
member at a time. What it accepted is recorded as the calls return (`accepted`), and
the file is compared with that record, not with what the model's reader finds.

### Deflate, Inflate, Zlib

`Deflate` follows input bytes, by their number, from the caller through the dictionary and
lookahead, the codes of the open block and the pending output to the caller. What a match
finder finds, and how well a block compresses, is any of what it could be; the lazy
parser, the flushes, the raw fallback and the loops of `mz_deflate` are the code's.
`Inflate` decodes a sequence of symbols with the coroutine `tinfl_decompress`, suspended
wherever the code suspends it, under four loops: `mz_inflate`, a growing heap block, a
callback, and the extraction of an archive member. Missing input is padded with zeros,
which decode to anything (`PadZeros`). A member of an archive is as long as its directory
entry says (`have`), and one of length 0 is not looked at. `Zlib` puts the two together: when `mz_deflate` has
answered MZ_STREAM_END, `HandOver` translates its blocks into Inflate's symbols and
`tinfl_decompress_mem_to_heap` reads them, as `miniz.inflate` does for a Lua program.

## 3. Runs

| Run | Property | What it says |
|---|---|---|
| `timer` | `Coherent` | a handle is in its object's table exactly while libuv has it armed |
| | `TicksDrained` | when the timer phase ends no deferred call is waiting, even one posted in that phase |
| | `StaysStopped` | a timer that fired for the last time or was deleted never fires again |
| | `TicksAreQueue` | `Timer` implements `TickQueue` |
| | `NotOvertaken` | no timer runs before one that was already due when it was started |
| `event_dispatch` | `MarkedIsListed` | a callback refused as registered is in the list |
| | `SnapshotDispatch` | a dispatch goes through the entries the table had when it began, latest first, each once; entries that `DelEvent` has left behind are among them |
| | `OnceIsOnce` | a once-entry is called once |
| `tcp_server` | `TablesAgree` | the three tables describe the same connections, those whose handle is open |
| | `NoErrorBeforeStop` | before `Stop` nothing raises: no handle is closed twice |
| | `AppOrder` | netaccept, then packets, then netclose, for every connection |
| | `ClosedIsGone` | at netclose the vfd reaches nobody |
| | `CloseReported` | every connection that ends before `Stop` is reported |
| `packet_framing` | `FramingIsChannel` | `PacketFraming` implements `PacketChannel`: the k-th packet holds the k-th body and at most one more byte |
| | `AllDelivered` | every packet is delivered |
| `packet_framing_exact` | `PaksAreBodies` | *violated*, section 6 |
| `luv_req` | `KeptWhileInUse` | no thread works on released memory, however late a cancel comes |
| | `ReleasedWhenServed` | one answer per request, and then luv lets go of it |
| | `OnePlace` | a cancel and a worker cannot both get a request |
| | `ContinuationRuns` | a request given to the pool is answered |
| `luv_handle` | `KeptUntilClosed` | a handle has its `luv_handle_t` as long as libuv knows it, and nothing of it after the close callback |
| | `CleanUseIsSafe` | a program that leaves closed handles alone, and a listener whose connection waits, meets no assertion and no released memory |
| | `LoopCloseIsLast` | `uv_loop_close` succeeds only without open handles, unless a walk was left by an error |
| | `ClosedIsQuiet` | no callback but the close callback after a close |
| | `CloseFinishes` | while the loop runs every close is finished |
| `redis` | `SendListIsSent` | the send list is what was sent and not answered, over timeouts |
| | `RightAnswer` | a function gets the reply to its own command or nothing, HGETALL a table |
| | `KeptOrCalled` | over failures and timeouts a function waits, was called once, or was lost in one of three ways: replaced, behind an error, reply no table |
| | `DbSelected` | no command before SELECT on the same connection |
| | `Answered` | while the connection stands every function that was not lost is called |
| `resp` | `InStep` | up to the first cut or reply the parser cannot read, a reply is delivered as soon as it is complete, once, with its data |
| `zip_search` | `LocateFinds` | a member is found exactly when one matches |
| | `ScanFindsFar` | the scan finds the last end record while the windows stay inside the file |
| `zip_archive` | `FileHoldsMembers` | the file holds every accepted member, readable |
| | `ReaderStays` | a reader is not disturbed by an append to its file |
| | `WriterIsList` | `ZipArchive` implements `ZipContents`, and its list is what the calls accepted |
| `zlib` | `NothingLost` | every input byte is in exactly one of the four places, in order |
| | `ReceivesContent` | what the decompressor handed out is the beginning of the content |
| | `EndIsWhole` | its success means the whole content; with a check value or CRC also on damaged or cut input |
| | `RoundTrip` | decompressing what was compressed gives the input, with the right check value |
| | `Progress` | every turn of the compressor's loop, and every MZ_OK of `mz_inflate`, has moved something |

The runs check no type invariants: those of the eight components with proofs are proved
(section 7; `ZipArchive`'s is part of its inductive invariant); the other modules have none.

Some limits of the properties come from what the code does; section 6 has the lines.
`KeptWhileInUse` leaves out requests that were cancelled, or given to `fs_scandir_next`, before
their callback had returned: luv releases them early. `CloseReported` says nothing of connections closed by `Stop`: the code posts no
event for them. `AppOrder` allows several netclose: `CloseClient` posts "close" for a vfd
that is already gone. `SendListIsSent` and `RightAnswer` hold up to the first failure of
the connection; after one, `DbSelected` holds until a lock times out.
`InStep` says nothing after the first chunk that ends within a first line or after some
elements of a list were taken, and after the first nil reply or list with elements too short for
`redis.lua:123` (`strayed`); of a bulk's data it says what it begins with, as the parser adds
a carriage return. `zip_archive` lets allocations fail during an
append in place, not writes, and appends to archives without a stub.

## 4. Bounds

- `Timer.cfg`: two objects, three handles, `MaxTime` 1. Three handles let a tick, a
  delayed and a repeating timer be due in the same pass, let a callback delete one and
  post another, and let a delayed timer wait while a tick posts a tick. `NotOvertaken` speaks
  of each timer that runs, so a longer chain would have to break it at one of its links;
  `NoOvertaking` proves it for chains of any length. Delays of -1 (refused), 0 and 1. The loop's time stops at `MaxTime`, the
  loop itself does not.
- `EventDispatch.cfg`: two names, two callbacks, `MaxAdds` 4, `MaxPosts` 2: a list
  grows to its limit, shrinks, is dropped and is built again within one dispatch, and a
  second dispatch follows.
- `TcpServer.cfg`: two handles and `MaxVfd` 2, so connections overlap or follow each
  other; `MaxPosts` 6 leaves room for accept, packets, close and a second close;
  `MaxPaks` 2 for a read that completes several packets. A guard on posts keeps
  callbacks with more events out, which cuts histories short and adds none.
- `PacketFraming.cfg`: `MaxPackets` 3, bodies of length 0, 2 and 3 whose bytes look like
  headers, so a wrong bound misreads them; `InitKey` 253, so the key's low byte wraps;
  `MaxReplies` 1, a reply between two segments. All cuts of the stream are explored.
- `LuvReq.cfg`: three requests and two workers: one waits while two are executed, so
  cancelling, executing and reporting overlap.
- `LuvHandle.cfg`: two handles, in seven pairs of types that cover every type (`Programs`);
  streams come in a pair because a connection needs two. The flags of different handles
  meet only in the loop's queues and counters, for which two are enough: one to stay
  alive while the other closes. Handles of five types may be unreferenced (`Unrefs`), and
  two types of stream are read (`Readers`): a pipe differs from tcp only in where its
  descriptor comes from. `MaxSignals` 2: a close can find two messages of its watcher in
  the pipe, or one while the callback of the other runs.
- `Redis.cfg`: two queries, one of them HGETALL, one store given up to twice, two functions
  that may raise, `TIMEOUT` 1 on a clock of one tick, two faults of the connection of any
  kind: a lock can time out with its reply on the way, a connection can be lost, made again
  and lost again, and a sweep can find the function of SELECT before or behind another
  one (452 428 states).
- `Resp.cfg`: up to three replies out of fourteen of every kind, with nil and empty ones, in
  chunks that end anywhere; a body may hold the characters that begin a reply.
- `ZipSearch.cfg`: directories of up to four of five names; windows of 8 bytes, files of up to
  24 and comments of up to 10, so records straddle windows and the scan gives up.
- `ZipArchive.cfg`: up to three members of at most two cells; every write and allocation
  of a call may fail, and what is made of several writes may stop after any cell or within
  one. `members` and `cells` stop new calls, not calls under way (479 014 states).
- `Zlib.cfg`: six input bytes in pieces of 0 or 3, room of 0, 1 or 4, a dictionary of 4
  cells, a lookahead of 3 and matches of at least 2: blocks outgrow the dictionary, which
  wraps, and output waits in the middle of a block. Inflate reads every stream of three symbols
  (literals, stored bytes, copies of length 3 and 4 from every distance), sound, with one
  symbol damaged, and cut by up to three cells, with and without the zlib wrapping, under
  the heap, callback and extraction loops; and longer ones, with overlapping copies, under
  `mz_inflate` with pieces of 0, 1 or 3 and room of 0, 1 or 5.
- Symmetry is used in `EventDispatch.cfg` only, over sets of interchangeable model values
  and without liveness.
- Deadlock is not checked where the system may stop: `PacketFraming` (everything
  delivered), `LuvReq` (the loop ends when it has no work left), `Redis` (everything
  answered, or the connection closed by the server, which is not made again), `Resp`,
  `ZipSearch`, `ZipArchive` and `Zlib` (calls that come to an end).

## 5. Fairness

- `Timer` has no fairness. That a due timer is served in the end is two things: the loop goes
  on, and nothing that is started later runs first, however many ticks callbacks post. The
  second is what the code has to get right, and a safety property (`NotOvertaken`).
- `TcpServer`: weak fairness of dispatching and of changing the phase: `uv_run` goes on and
  callbacks return. No fairness of connections, data or the application.
- `PacketFraming`: bytes in flight arrive (TCP, while the connection lives) and the
  parser's loop runs.
- `LuvReq`: weak fairness of each worker and of the loop's reporting steps: threads are
  scheduled, calls of the operating system and continuations return. None of I/O
  requests: a peer may stay silent.
- `LuvHandle`: callbacks return, a walk ends, an iteration of `uv_run` ends and begins
  again, and in every iteration every message in the pipe of caught signals is read and the closing handles
  are finished. Fairness is strong where a callback or a walk may come in between: the
  loop comes round to that phase again and takes it each time. None of the events that
  make callbacks run.
- `Redis`: deferred events are served, the functions the client calls return (or raise,
  which is no matter of fairness), an attempt to connect comes to an end, and the
  server answers what it received, as long as no fault happens (`Answered` is
  conditioned on that).

`Zlib` has no fairness: instead of "it ends", `Progress` says that every turn and every
answer that invites another call has moved some of a finite amount of input and output.

## 6. Where the code and its documents differ

`packet_framing_exact` shows one divergence: the parser in `server.lua:63` takes the
position after the body as an inclusive bound. When the next packet is already buffered, a
packet carries its first byte too, against the format documented in `net/pack.lua:9-10`. The
remaining bytes are cut correctly: `FramingIsChannel` holds.

The models follow the code in the following places too, where a document, comment or
assertion says something else. The properties of section 3 are stated so as not to promise
what the code does not do, and each of these was reached by TLC with the stronger property
while the models were built.

| Code | What it does | What is said |
|---|---|---|
| `tcp.lua:25` | the listen callback ignores its error and reads on a handle without a descriptor | the assertion in libuv's `unix/stream.c:1517` |
| `class.lua:599` | `DelEvent` removes the mark and leaves the entry: a deleted listener is still called, and one added again is called twice | the name of the function; no document says more |
| `luv_req.c:106` | `req_cancel` releases the `luv_req_t` at once; the callback then finds none | `docs/src/request.rst:68`: the callback is still invoked |
| `luv_fs.c:23` | `fs_scandir_next` assigns the request's type instead of comparing it: any live request passes, a queued one is released, one that holds no listing is read as if it did | `luv_fs.c:23`: "Expected uv_fs_t" |
| `tcp.c:276`, `stream.c:1523` | `listen` and `read_start` watch a listener again while a connection of it waits: when the next one arrives, `uv__server_io` asserts that none waits | the assertion in libuv's `unix/stream.c:515` |
| `luv_loop.c:85` | an error in the function of `walk` unwinds `uv_walk`, the unvisited handles leave the loop's queue, and `uv_loop_close` succeeds with open handles | `docs/src/loop.rst:74`: UV_EBUSY |
| `miniz.c:2586` | an archive opened without sorting has an index all the same, which is searched by bisection | `miniz.h:534`: locates a file |
| `miniz.c:2295` | the step to a window before the file wraps; short archives with a long comment are refused | `miniz.c:2278`: scans towards the beginning |
| `miniz.c:3877` | after a failed append nothing is finalized, and the old directory is overwritten | `miniz.c:3876`: "Always finalize" |
| `miniz.c:3684`, `:3740` | a member that holds an end record, whose copy fails after some of its body was written, leaves that record behind the end of the archive; the finalized string is then read by it | `miniz.h:96`: the safest way to modify an archive |
| `miniz.c:3176` | an append behind a stub mixes offsets from the file and from the stub; the old members are lost | `miniz.h:90`: appended to |
| `miniz.c:286` | a flush that only delivers pending output is answered MZ_OK with room left and input inside | `miniz.h:275`: as much output as possible |
| `miniz.c:480` | at the end of the ring, with the input used up, output is held back | `miniz.h:311`: as much output as possible |
| `miniz.c:2801` | a member of compressed size 0 is a success with nothing delivered, whatever size and CRC its directory entry gives | `miniz.c:2930`: "Make sure the entire file was decompressed" |
| `miniz.c:563`, `lminiz.c:234` | a raw stream that was cut short is decoded on with zeros and may be a success with bytes nobody compressed; raw is the default of `miniz.inflate` | `miniz.h:638`: NULL on failure |
| `miniz.c:909`, `lminiz.c:236` | an empty content is answered NULL like a failure, and `miniz.inflate` gives Lua the empty string for both | `miniz.h:638` |
| `miniz.c:752` | the bit buffer takes bytes beyond the end of the stream and keeps them | `miniz.c:592`: never reads beyond |
| `redis.lua:55` | the send list survives a reconnection, and replies are matched to the commands of the old connection | `redis.lua:21`: the queue of the commands sent |
| `redis.lua:29` | a SELECT lost with its connection only joins its old lock; the timeout declares the client ready | `redis.lua:31`: logs the selection |
| `redis.lua:225`, `:274` | the locks go before the functions are called: one that raises an error leaves those behind it neither waiting nor called; when the function of a SELECT that timed out is among them, the client never becomes ready | `redis.lua:164`: a function is given the answer |
| `redis.lua:220` | a reply to HGETALL that is neither an error nor a table raises behind the lock: its functions are lost | `redis.lua:164` |
| `redis.lua:177` | a second query for the same key before the client is ready replaces the function of the first, which is never called | `redis.lua:164` |
| `redis.lua:265` | TimeOut drops the lock of a command that still executes | `redis.lua:20`: once at a time |
| `redis.lua:209` | the lock of a command without a function stays after its reply: the same SET is never sent again | `redis.lua:20` |
| `redis.lua:84`, `:132` | a reply cut inside its first line, or between the elements of a multi-bulk, is misread | `tcp.lua:263`: left is what was not parsed |
| `redis.lua:115` | a bulk is delivered with the carriage return that follows it | `redis.lua:110`: six bytes of data |
| `redis.lua:111`, `:123` | a nil bulk waits for a byte of the next reply; empty elements are held back | `redis.lua:69`, `:122` |

## 7. Proofs

TLAPS proves the following for all values of the constants: any number of objects,
handles, connections, listeners, requests, threads, commands, and any bounds. The
assumptions are those the modules name: `None` is no function, object, client, request,
handle or number; delays and intervals are integers; bounds are natural numbers;
commands that read, commands that store and SELECT differ, and so do the functions given
to them; sizes of files and windows fit the word; archives are used as `SupportedUses`
says (section 2). Every inductive invariant below was checked with TLC on the instance
of the component's run before it was proved.

**Timer_proofs.** `TypeCorrect`, `TableMatchesLoop` (`Coherent`),
`TimerImplementsTickQueue`, `StoppedForGood` (`StaysStopped`), `NoTickLeftBehind`
(`TicksDrained`), `NoOvertaking` (`NotOvertaken`). `Coherent` alone is not inductive: firing a handle must know that an
armed handle has a closure with an owner and that its repeat is the closure's interval
(`ArmedInv`, which also keeps start_ids below `counter`); the refinement needs the
start_ids to be distinct (`DistinctIds`), and that a tick is due from the moment it is
posted (`TickTimes`): a deadline not after `now`, and never before that of a tick with a
smaller `start_id`. From this the root of the heap, when it is a tick, is the oldest tick.
`AheadInv` is what `NotOvertaken` needs: what was due when a timer was started has a deadline
that is no later, and a smaller `start_id`, so the root of the heap has nobody ahead of it.
The refinement is shown step by step: `AddTimer` is `Post` or `SkipNumber`, a removal is
`Withdraw`, `RunTimer` is `Dispatch` or `SkipNumber` or a stutter.

**TcpServer_proofs.** `TypeCorrect`, `TablesDescribeOpenClients` (`TablesAgree`),
`OperationsDoNotRaise` (`NoErrorBeforeStop`). The inductive invariant adds
`Unissued`: vfds above `m_ClientVfd` are in no table, so `Accept` overwrites nothing.
The tables agreeing with the handles is what makes a double close impossible.
`EventsInOrder` (`AppOrder`) and `ClosedStaysGone` (`ClosedIsGone`) relate the tables to the
queue of deferred events (`ToldInv`). `Announced`: a connection the application has not
heard of has exactly one event in the queue, the one that announces it, and nothing else.
`Ended`: once its end is posted a connection is unregistered and no packet is queued
behind. Neither survives a read on a connection that is still unannounced; that this cannot
happen is `ReadingIsKnown`: a handle only reaches epoll when the queue is empty, so the
double deferral of "netaccept" cannot be overtaken by a packet deferred once.

**EventDispatch_proofs.** `TypeCorrect`, `NoListenerRefused` (`MarkedIsListed`),
`DispatchSeesSnapshot` (`SnapshotDispatch`; it is about the entries of the table, not about who
is registered). `WalkOK` adds that the cursor is inside the
walked table while a dispatch runs and that there is nothing orphaned otherwise. The
argument: listeners can only append behind the cursor or replace the table, and
`TakeOff` removes at the cursor, so entries below it do not move (`RemoveAtProps`).
`OnceListenersOnce` (`OnceIsOnce`) needs `Unspent`: entries are numbered, an entry is in one
place of one table, the table dropped by `DelAllEvent` included, and a once-entry that is
still in a table has not been called.

**LuvReq_proofs.** `TypeCorrect`, `NoUseAfterRelease` (`KeptWhileInUse`), `ServedOnce`
(`ReleasedWhenServed`), `InOnePlace` (`OnePlace`). `PlacesOK` says that each queue and the
workers hold exactly the requests whose state says so, without repetition; it is what makes
`uv_cancel` and a worker exclusive. `LifeOK` says in which order the life of a request goes:
only what libuv has finished is in its callback or was called, and what was cancelled or
collected has no `luv_req_t`.

**LuvHandle_proofs.** `TypeCorrect`, `HandleKept` (`KeptUntilClosed`), `NoCrash`
(`CleanUseIsSafe`), `LoopClosesLast` (`LoopCloseIsLast`) and, as an action property,
`NoEventAfterClose` (`ClosedIsQuiet`). None is inductive alone. `HandleOK` adds, of each
handle, that the loop's queue, or the frame of a walk, links exactly the handles whose close
is not finished, that only closed handles wait for the end of their close, and that a
program which does not start closed handles leaves them stopped and without a descriptor,
and that a listener is not watched while a connection of it waits, unless the program
watched it again or the callback of the connection has not returned: the assertion of
`uv__server_io` is out of reach because `ConnectionReturns` stops the watch.
`LoopOK` adds where `uv_run` can be while a callback or a walk is under way. Most of the
functions of the types are *mild*: they change flags other than CLOSING and CLOSED, and
a slot, of one handle; one lemma (`MildStep`) serves them all, and the functions that make,
close, finish or walk have one each.

**RedisClient_proofs.** `TypeCorrect`, `NoneForgotten` (`KeptOrCalled`), `QueueMatchesWire`
(`SendListIsSent`), `ReplyIsOwn` (`RightAnswer`), `SelectFirst` (`DbSelected`).
- `Kept`: a function is in one place only, in `m_InitFuncs` or once in one lock, with its
  own command, until it is to be called, was called, or is lost (`Out`). `KeptOrCalled` counts
  places and calls and cannot tell by itself that a lock which is answered holds a function
  once.
- `CalledOK`: of the functions a reply or a sweep has left to call, each is there once, was
  not called or lost before, and up to the first fault has the reply to its own command.
- `LinkOK`: up to the first fault the client waits for its connection, or for the event that
  announces it, with nothing sent; or it has sent SELECT, and `m_SendList` is the replies in
  the queue followed by the commands on the wire. With `Kept` it gives `RightAnswer`: the
  reply at the head of the queue is that to the head of `m_SendList`, and the functions in
  that command's lock asked for it.
- `SelectedOK` and `ConnOK`: until a lock can time out, a client that is ready, or can
  become so from a reply on its way, has sent SELECT on this connection; an error is the last
  event of a connection, so no reply of the old one is left when `ReStart` makes the new.

**ZipSearch_proofs.** `TypeCorrect`, `EndRecordIsFound` (`ScanFindsFar`), `MembersAreFound`
(`LocateFinds`), for directories of any length and any names, files, windows and comments of
any size, offsets of any word that is large enough (`SizesFit`).
- `ScanInv`: the window read next begins a multiple of `Step` below the last one, and no
  signature begins at or above `cur_file_ofs + Step`, where the window read before begins. The
  overlap is the length of a signature less one, so a record that straddles two windows is
  whole in the lower one.
- `SortInv`: the index stays a permutation (`Indexed`). While an element sinks, the heap is
  in order but for that element's children (`HeapBut`), and its children are not larger than
  its parent (`Passes`), so that swapping with the larger child keeps both. Behind the
  heap nothing is smaller than what comes before it (`Behind`). That the root of a heap is
  its largest element is shown by a least counterexample, as induction over an operator is
  out of reach.
- `SearchInv`: every place of the index whose name matches is between `l` and `h`.

**ZipArchive_proofs.** `Invariant`, `FilesHold` (`FileHoldsMembers`), `ReadersStay`
(`ReaderStays`), `ArchiveIsList` (`WriterIsList`), for any names, contents that are sequences
of cells, alignment, reserve, stubs and faults that `SupportedUses` admits, and any number of
members. None of the three properties says anything of a call that is under way; the
invariant describes the bytes at each of its steps.
- `AcceptedOK`: the members the directory points at are those the calls accepted, in order.
- `Placed`: every directory header points to a member that is whole and lies below
  `zip.size`. Every write of a call is at or above `zip.size`, so the old members survive any
  failure (`WriteKept`, with `MembersKept`: bytes that agree below a floor hold the same
  members).
- `MemOK`, `CopyOK`, `FinalOK`: how much of the member, or of the directory, is written
  already. With the last step `Placed` holds of one more header (`Enters`).
- `NoStray`: above the place of the end record to come, and above the data being added,
  no cell looks like an end record. This is what makes the reader's backward scan stop at the
  archive's own record, although members may contain such records and failed calls leave
  their bytes behind; it is also why `SupportedUses` excludes what it excludes.
- `Sealed`: the end record is the last one, the directory before it is the writer's, and
  what comes before the first member is a stub. A sealed archive is accepted and read back
  (`SealedHolds`), also behind a stub (`Stubbed`).
- `FileOK`, `ReaderOK`, `AppendOK`: the file is sealed except while an append writes, an
  append's writer lists the file's members and then the new one, and the directory an open
  reader has copied begins at or below `Floor`, the end of the members the append's writer lists: the
  append overwrites the directory in the file, never what the reader still reads.
- The refinement of `ZipContents` goes step by step (`ListStep`): what the caller sees
  stays, is cleared, grows by one member of the use's names and contents (the step that
  pushes the header), or is finalized (the write of the end record).

**Only model-checked.** Liveness (`CloseReported`, `AllDelivered`,
`ContinuationRuns`, `CloseFinishes`, `Answered`) is out of the prover's reach. So is what
folds and recursive functions compute for every input, which takes induction over data:
`InStep` (the parser of replies), `NothingLost`, `ReceivesContent`, `EndIsWhole` and
`RoundTrip` (the contents of streams) stay with TLC, and so does `Progress`, which is stated
over the same streams. `FramingIsChannel` rests on the cipher's exclusive or, which is
bitwise and recursive.

## 8. Not modelled

- The protocol codec, the monitor, the module loader, attributes and counters, settings
  and start-up: sequential code without waiting, sharing or failure handling, whose
  questions a unit test answers. What reading them showed: the bounds checks of the
  readers are off by one (`net/base.lua:135`); the second definition of `DelCounter`
  replaces the first and calls itself with a counter where it expects an id
  (`class.lua:453`); reloading a module that defines a class meets the assertion at
  `require.lua:54`; `LoadSetting` returns without its callback for a file without the
  known extension (`setting.lua:23`); on Windows the console handler runs `ExitEngine` on
  a thread of its own (`main.c:53`), and it calls `lengine.stop()` though the global is
  `engine`.
- Logging, string and table helpers and the interactive shell; metatable plumbing of
  inheritance and serialisation; the sample account application and its data tables; the
  C# exporter; start and packaging scripts; luv's argument conversion and constants;
  third-party code except for the parts named above.
- In `LuvReq` the payload references (`data_ref` is set for stream writes only, so an
  asynchronous `fs_write` hands libuv a Lua string that nothing keeps alive,
  `luv_fs.c:366`). In `LuvHandle` the requests of a handle, which are `LuvReq`'s, and the
  Lua stack, which grows by a slot for each callback that raises (`luv_util.c:167`).
- In `RedisClient`: how the fields of HGETALL are paired, `GetCo`, and `OnGet`, which reads a table nobody
  sets. `redis.lua:19` names `tcp.TcpClient` where the module has `CTcpClient`; the
  model takes that class. `TIMEOUT` is in milliseconds and the clock in seconds; the
  model only has a limit. `RespParser` follows one connection: `ReStart` keeps
  `m_CacheData` (`tcp.lua:236`).
- The functions Lua itself has for streams and members are thin variants of what `Deflate` and
  `Inflate` follow: `miniz.deflate` runs `tdefl_compress` once over all of its input
  (`tdefl_compress_mem_to_heap`), without the loop of `mz_deflate`; `reader:extract` runs
  `tinfl_decompress` into a buffer of the member's size
  (`mz_zip_reader_extract_to_mem_no_alloc`), and checks neither the CRC nor that the buffer
  was filled.
- At a negative offset, which the scan for the end record comes to in short archives with a
  long comment (section 6), `lmz_file_read` (`lminiz.c:28`) reads at the position of the file
  where miniz's own readers refuse; `ZipSearch` follows the latter, and `ScanFindsFar` says
  nothing of such a scan.
- In `miniz.c`: Huffman tables and bit packing, `tdefl_compress_fast`, the PNG writer,
  `mz_zip_writer_add_file` (not reachable from Lua; it leaves its file open on one error
  path, `miniz.c:3500`), the data descriptors of copied members (`miniz.c:3694`), which
  miniz does not write itself, and allocation in the heap loops beyond one doubling at a time.
  Check values are taken to tell contents apart.

## 9. Plan

The modules of the plan are written, and what could be proved of the properties of their
runs is proved. What is left:

1. The part of `Deflate` that does not depend on the contents of streams, the lookahead, the
   dictionary and the pending output as counters, in a module of its own, where it can be
   reasoned about without folds.
2. `PacketFraming` over an abstract cipher, an invertible function of key and byte, so that
   the framing can be proved apart from the bits, with `StreamCipher` checked by TLC to be
   such a function.
3. Faults of `ZipArchive` beyond `SupportedUses`, should the code come to handle them: the
   assumption names the lines.
