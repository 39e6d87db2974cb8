------------------------------- MODULE LuvReq -------------------------------
(***************************************************************************)
(* The life of a uv_req_t made by luv (luv_req.c, luv_fs.c, luv_dns.c,     *)
(* luv_stream.c, luv_tcp.c, luv_pipe.c, luv_udp.c) across its owners: Lua  *)
(* code on the loop's thread, libuv's pool of worker threads, the loop     *)
(* that reports results, and Lua's garbage collector.                      *)
(*                                                                         *)
(* The uv_req_t is a Lua userdata.  req->data points to a luv_req_t that   *)
(* holds the registry references of the request, of its continuation and   *)
(* of its payload: while req->data is live the collector cannot take the   *)
(* request.  File system and DNS requests with a continuation go through   *)
(* the pool; stream, connect, shutdown and datagram requests are completed *)
(* by the loop itself.  Without a continuation a file system or DNS call   *)
(* runs inside the C function, and only scandir leaves a request behind.   *)
(***************************************************************************)
EXTENDS Naturals, Sequences, FiniteSets

CONSTANTS
    Reqs,           \* uv_req_t userdata
    Workers,        \* threads of the pool
    None            \* no request

ASSUME NoneIsNoReq == None \notin Reqs

\* "work" is a file system or DNS request other than scandir, "listing" a
\* scandir made without a continuation, "refused" a request of any kind that
\* libuv did not take.
Kinds == {"work", "scandir", "io", "listing", "refused"}

VARIABLES
    kind,           \* which luv function made the request
    uv,             \* where libuv has it
    data,           \* req->data points to a live luv_req_t
    retyped,        \* the requests whose req->type luv_fs_check overwrote,
                    \* as long as somebody may read it
    wq,             \* the pool's queue of work
    worker,         \* the request each worker executes
    loopwq,         \* loop->wq: executed or cancelled, to be reported
    local,          \* the batch uv__work_done took from loop->wq
    current,        \* the request whose continuation is running
    calls,          \* history: how often luv_req_fulfill ran
    collected,      \* userdata the garbage collector has taken
    crashed         \* a callback used a null req->data, or freed memory

queues == <<wq, worker, loopwq, local>>
vars == <<kind, uv, data, retyped, queues, current, calls, collected, crashed>>

UvStates == {"new", "queued", "working", "executed", "cancelled", "io", "idle"}

Init ==
    /\ kind = [r \in Reqs |-> "none"]
    /\ uv = [r \in Reqs |-> "new"]
    /\ data = [r \in Reqs |-> FALSE]
    /\ retyped = {}
    /\ wq = <<>>
    /\ worker = [w \in Workers |-> None]
    /\ loopwq = <<>>
    /\ local = <<>>
    /\ current = None
    /\ calls = [r \in Reqs |-> 0]
    /\ collected = {}
    /\ crashed = FALSE

\* A null or dangling pointer is followed: the process is gone, with all it had.
Die ==
    /\ kind' = [r \in Reqs |-> "none"]
    /\ uv' = [r \in Reqs |-> "new"]
    /\ data' = [r \in Reqs |-> FALSE]
    /\ retyped' = {}
    /\ wq' = <<>> /\ loopwq' = <<>> /\ local' = <<>>
    /\ worker' = [w \in Workers |-> None]
    /\ current' = None
    /\ calls' = [r \in Reqs |-> 0]
    /\ collected' = {}
    /\ crashed' = TRUE

\* Lua code runs inside a continuation, or elsewhere on the loop when no
\* batch of results is being reported.
InLua == ~crashed /\ (current # None \/ local = <<>>)

\* A request the Lua program can still name; a refused one is not returned.
Known(r) == uv[r] # "new" /\ kind[r] # "refused" /\ r \notin collected

\* libuv has the request, or its callback has not returned.
InUse(r) == uv[r] \notin {"new", "idle"} \/ current = r

-----------------------------------------------------------------------------
(* Lua code makes requests.                                                *)

\* luv_req_setup, and what is left of the request when the C function
\* returns: where libuv has it, and whether its luv_req_t is live.
Setup(r, k, state, live) ==
    /\ InLua
    /\ uv[r] = "new"
    /\ kind' = [kind EXCEPT ![r] = k]
    /\ data' = [data EXCEPT ![r] = live]
    /\ uv' = [uv EXCEPT ![r] = state]
    /\ UNCHANGED <<retyped, worker, loopwq, local, current, calls, collected, crashed>>

\* uv__work_submit: with a continuation, the work is posted to the pool.
Submit(r, k) == Setup(r, k, "queued", TRUE) /\ wq' = Append(wq, r)

FsAsync(r) == Submit(r, "work")
ScandirAsync(r) == Submit(r, "scandir")
Getaddrinfo(r) == Submit(r, "work")

\* FS_CALL without a continuation, or with an error: the request is released
\* before the function returns.  (A DNS call without a continuation does the
\* same, and drops the request from the stack.)
FsSync(r) == Setup(r, "work", "idle", FALSE) /\ UNCHANGED wq

\* fs_scandir without a continuation: the request is returned to Lua.
ScandirSync(r) == Setup(r, "listing", "idle", TRUE) /\ UNCHANGED wq

\* Stream writes, shutdowns, connects and datagrams: the loop's own work.
IoRequest(r) == Setup(r, "io", "io", TRUE) /\ UNCHANGED wq

\* libuv refuses the request.  Except for FS_CALL the error is returned and
\* the luv_req_t is left to the registry for ever.
Refused(r) == Setup(r, "refused", "idle", TRUE) /\ UNCHANGED wq

\* luv_req_cleanup and req->data = NULL.
Release(r) == data' = [data EXCEPT ![r] = FALSE]

\* The request holds a listing uv_fs_scandir_next can read: of an asynchronous
\* scandir nobody has looked whether it failed.
IsListing(r) == kind[r] = "listing"

\* fs_scandir_next.  luv_fs_check means to compare the type and assigns it:
\* every request with a live luv_req_t passes, and libuv no longer knows its
\* type.  uv_fs_scandir_next then answers with an entry, which changes nothing
\* else, or that the listing is at its end, upon which luv releases the
\* request.  What is no listing, not yet or not at all, holds zeros or memory
\* nobody wrote: it looks like a listing at its end, or is followed anywhere.
ScandirNext(r) ==
    /\ InLua /\ Known(r)
    /\ data[r]
    /\ \/ ~IsListing(r) /\ Die
       \/ /\ retyped' = IF InUse(r) \/ IsListing(r) THEN retyped \union {r} ELSE retyped
          /\ UNCHANGED data \/ Release(r)
          /\ UNCHANGED <<kind, uv, queues, current, calls, collected, crashed>>

\* QUEUE_REMOVE: the request is unlinked where it is.
Without(s, r) ==
    IF \A i \in DOMAIN s : s[i] # r THEN s
    ELSE LET i == CHOOSE j \in DOMAIN s : s[j] = r
         IN  SubSeq(s, 1, i - 1) \o SubSeq(s, i + 1, Len(s))

\* Mutant: also while a worker executes the request.
Cancellable_Busy(r) == uv[r] \in {"queued", "working"} /\ r \notin retyped

\* uv_cancel knows the type, and uv__work_cancel finds the request still in
\* the pool's queue.
Cancellable(r) == uv[r] = "queued" /\ r \notin retyped

\* Mutant: the work stays in the pool's queue.
Cancel_KeepsQueued(r) ==
    /\ InLua /\ Known(r)
    /\ data[r] /\ Cancellable(r)
    /\ uv' = [uv EXCEPT ![r] = "cancelled"]
    /\ loopwq' = Append(loopwq, r)
    /\ Release(r)
    /\ UNCHANGED <<kind, retyped, wq, worker, local, current, calls, collected, crashed>>

\* Mutant: the loop is not told.
Cancel_Silent(r) ==
    /\ InLua /\ Known(r)
    /\ data[r] /\ Cancellable(r)
    /\ uv' = [uv EXCEPT ![r] = "cancelled"]
    /\ wq' = Without(wq, r)
    /\ Release(r)
    /\ UNCHANGED <<kind, retyped, worker, loopwq, local, current, calls, collected, crashed>>

\* req_cancel on a request with live data.  uv_cancel refuses it otherwise
\* and nothing changes.
Cancel(r) ==
    /\ InLua /\ Known(r)
    /\ data[r] /\ Cancellable(r)
    /\ uv' = [uv EXCEPT ![r] = "cancelled"]
    /\ wq' = Without(wq, r)
    /\ loopwq' = Append(loopwq, r)
    /\ Release(r)
    /\ UNCHANGED <<kind, retyped, worker, local, current, calls, collected, crashed>>

\* req_cancel on a request that never went to the pool: uv__work_cancel reads
\* a work_req nobody wrote.  It may also be refused, which changes nothing.
CancelListing(r) ==
    /\ InLua /\ Known(r)
    /\ kind[r] = "listing" /\ data[r] /\ r \notin retyped
    /\ Die

\* The collector takes a request that the registry does not hold.
Collect(r) ==
    /\ InLua /\ Known(r)
    /\ ~data[r]
    /\ collected' = collected \union {r}
    /\ UNCHANGED <<kind, retyped, uv, data, queues, current, calls, crashed>>

-----------------------------------------------------------------------------
(* The pool's threads.                                                     *)

\* The memory of a collected request may hold anything, and kill the process.
Strays(r) == ~crashed /\ r \in collected /\ Die

TakeWork(w) ==
    /\ worker[w] = None /\ wq # <<>>
    /\ LET r == Head(wq) IN
       \/ Strays(r)
       \/ /\ ~crashed
          /\ worker' = [worker EXCEPT ![w] = r]
          /\ wq' = Tail(wq)
          /\ uv' = [uv EXCEPT ![r] = "working"]
          /\ UNCHANGED <<kind, data, retyped, loopwq, local, current, calls, collected, crashed>>

FinishWork(w) ==
    LET r == worker[w] IN
    /\ r # None
    /\ \/ Strays(r)
       \/ /\ ~crashed
          /\ worker' = [worker EXCEPT ![w] = None]
          /\ loopwq' = Append(loopwq, r)
          /\ uv' = [uv EXCEPT ![r] = "executed"]
          /\ UNCHANGED <<kind, data, retyped, wq, local, current, calls, collected, crashed>>

-----------------------------------------------------------------------------
(* The loop reports results.                                               *)

\* uv__work_done takes the whole queue.
WorkDone ==
    /\ InLua /\ current = None
    /\ loopwq # <<>>
    /\ local' = loopwq
    /\ loopwq' = <<>>
    /\ UNCHANGED <<kind, retyped, uv, data, wq, worker, current, calls, collected, crashed>>

\* The request's callback up to the continuation: luv_req_fulfill reads the
\* luv_req_t.
Report(r) ==
    /\ data[r]
    /\ uv' = [uv EXCEPT ![r] = "idle"]
    /\ current' = r
    /\ calls' = [calls EXCEPT ![r] = @ + 1]
    /\ UNCHANGED <<kind, data, retyped, wq, worker, loopwq, collected, crashed>>

\* luv_fs_cb, luv_getaddrinfo_cb or luv_getnameinfo_cb, from the batch.
PoolCallback ==
    /\ ~crashed /\ current = None
    /\ local # <<>>
    /\ \/ Report(Head(local)) /\ local' = Tail(local)
       \/ ~data[Head(local)] /\ Die

\* luv_stream_write_cb, luv_stream_shutdown_cb, luv_tcp_connect_cb,
\* luv_udp_send_cb; the loop completes the request, or its handle is closed.
IoCallback(r) ==
    /\ InLua /\ current = None
    /\ uv[r] = "io"
    /\ \/ Report(r) /\ UNCHANGED local
       \/ ~data[r] /\ Die

\* Mutant: the luv_req_t of a finished request is kept.
EndCallback_Keeps ==
    /\ ~crashed /\ current # None
    /\ current' = None
    /\ retyped' = retyped \ {current}
    /\ UNCHANGED <<kind, uv, data, queues, calls, collected, crashed>>

\* The continuation has returned: luv_req_cleanup, except that a scandir
\* request is kept for scandir_next.  Nobody asks whether the continuation has
\* released the request itself.
EndCallback ==
    /\ ~crashed /\ current # None
    /\ \/ Strays(current)
       \/ kind[current] # "scandir" /\ ~data[current] /\ Die
       \/ /\ \/ kind[current] = "scandir" /\ UNCHANGED data
             \/ kind[current] # "scandir" /\ data[current] /\ Release(current)
          /\ current' = None
          /\ retyped' = retyped \ {current}
          /\ UNCHANGED <<kind, uv, queues, calls, collected, crashed>>

\* Nothing happens any more.
Crashed == crashed /\ UNCHANGED vars

Lua ==
    \E r \in Reqs :
        \/ FsAsync(r) \/ ScandirAsync(r) \/ Getaddrinfo(r) \/ IoRequest(r)
        \/ FsSync(r) \/ ScandirSync(r) \/ Refused(r)
        \/ ScandirNext(r)
        \/ Cancel(r) \/ CancelListing(r) \/ Collect(r)

Pool == \E w \in Workers : TakeWork(w) \/ FinishWork(w)

Loop == WorkDone \/ PoolCallback \/ (\E r \in Reqs : IoCallback(r)) \/ EndCallback

Next == Lua \/ Pool \/ Loop \/ Crashed

Spec == Init /\ [][Next]_vars

\* Each thread of the pool runs, calls of the operating system return, and
\* so do continuations.  Nothing is assumed of I/O requests: a peer may stay
\* silent for ever.
FairSpec ==
    /\ Spec
    /\ \A w \in Workers : WF_vars(TakeWork(w) \/ FinishWork(w))
    /\ WF_vars(WorkDone \/ PoolCallback \/ EndCallback)

-----------------------------------------------------------------------------
(* Properties.                                                             *)

TypeOK ==
    /\ kind \in [Reqs -> Kinds \union {"none"}]
    /\ uv \in [Reqs -> UvStates]
    /\ data \in [Reqs -> BOOLEAN]
    /\ retyped \subseteq Reqs
    /\ wq \in Seq(Reqs) /\ loopwq \in Seq(Reqs) /\ local \in Seq(Reqs)
    /\ worker \in [Workers -> Reqs \union {None}]
    /\ current \in Reqs \union {None}
    /\ calls \in [Reqs -> Nat]
    /\ collected \subseteq Reqs
    /\ crashed \in BOOLEAN

\* No thread works on freed memory: until its callback has returned a request
\* keeps its luv_req_t and the registry keeps its userdata, whatever Lua code
\* cancels or drops meanwhile.  A cancel that came too late must not pull the
\* request from under a worker or out of the batch being reported.  Two calls
\* release a request that is in use, and the property leaves them out by name:
\* req_cancel, which does not wait for the callback (luv_req.c:106), and
\* fs_scandir_next, whose check lets any request through (luv_fs.c:23).
KeptWhileInUse ==
    \A r \in Reqs :
        InUse(r) /\ uv[r] # "cancelled" /\ r \notin retyped
            => data[r] /\ r \notin collected

\* A continuation is called at most once, and then luv lets go of the
\* request: the registry does not grow with the requests that are served.
ReleasedWhenServed ==
    \A r \in Reqs :
        /\ calls[r] <= 1
        /\ calls[r] = 1 /\ current # r /\ kind[r] # "scandir" => ~data[r]

Places(r) ==
    ({"wq"} \X {i \in DOMAIN wq : wq[i] = r})
        \union ({"worker"} \X {w \in Workers : worker[w] = r})
        \union ({"reported"} \X {i \in DOMAIN loopwq : loopwq[i] = r})
        \union ({"batch"} \X {i \in DOMAIN local : local[i] = r})

PlacesOf(state) == CASE state = "queued"  -> {"wq"}
                     [] state = "working" -> {"worker"}
                     [] state \in {"executed", "cancelled"} -> {"reported", "batch"}
                     [] OTHER -> {}

\* A request is in one place at a time, and once: uv_cancel and a worker that
\* reach for it at the same moment cannot both get it, and no result is
\* reported twice.
OnePlace ==
    \A r \in Reqs :
        /\ {p[1] : p \in Places(r)} \subseteq PlacesOf(uv[r])
        /\ Cardinality(Places(r)) = IF PlacesOf(uv[r]) = {} THEN 0 ELSE 1

\* Every request given to the pool gets its continuation called.  The crash
\* is a callback that finds its luv_req_t released: luv_cancel releases it
\* before libuv calls back.
ContinuationRuns ==
    \A r \in Reqs : uv[r] = "queued" ~> calls[r] = 1 \/ crashed
=============================================================================
