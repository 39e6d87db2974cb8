---------------------------- MODULE EventDispatch ----------------------------
(***************************************************************************)
(* The event mechanism of one CObject (gameserver/base/class.lua): the     *)
(* listener lists of __Events, and DispatchEvent walking one of them while *)
(* the listeners it calls change it.                                       *)
(*                                                                         *)
(* __Events[name] is one Lua table used twice: its array part holds the    *)
(* entries {callback, flag}, its hash part marks the callbacks that are    *)
(* registered.  OnEvent defers the dispatch to the next tick; ticks are    *)
(* served in order (Timer.tla), so at most one dispatch runs at a time.    *)
(***************************************************************************)
EXTENDS Naturals, Sequences

CONSTANTS
    Names,          \* event names
    Callbacks,      \* listeners: functions or method names
    None,           \* Lua nil
    MaxAdds,        \* bound on the registrations
    MaxPosts        \* bound on the events posted

ASSUME NoneIsNil == None \notin Names
ASSUME BoundsAreNat == MaxAdds \in Nat /\ MaxPosts \in Nat

VARIABLES
    list,           \* the array part of __Events[name]; empty when absent
    mark,           \* the callbacks in the hash part of __Events[name]
    adds,           \* number of registrations so far; numbers the entries
    queue,          \* events posted with OnEvent and not yet dispatched
    posts,          \* number of events posted so far
    running,        \* the event being dispatched, or None
    cursor,         \* i of DispatchEvent's loop
    incall,         \* the listener at cursor is executing
    orphan,         \* the table being walked is no longer in __Events ...
    old,            \* ... and this is its array part
    snapshot,       \* history: the list when the dispatch began
    called,         \* history: the entries called by this dispatch
    spent           \* history: the once-entries called so far, by number

walk == <<running, cursor, incall, orphan, old, snapshot, called>>
vars == <<list, mark, adds, queue, posts, walk, spent>>

Entry == [callback : Callbacks, flag : BOOLEAN, id : Nat]

Init ==
    /\ list = [n \in Names |-> <<>>]
    /\ mark = [n \in Names |-> {}]
    /\ adds = 0
    /\ queue = <<>>
    /\ posts = 0
    /\ running = None
    /\ cursor = 0
    /\ incall = FALSE
    /\ orphan = FALSE
    /\ old = <<>>
    /\ snapshot = <<>>
    /\ called = <<>>
    /\ spent = {}

\* Lua code runs in a listener, or elsewhere while nothing is dispatched.
InLua == running = None \/ incall

-----------------------------------------------------------------------------
(* Registration.                                                           *)

\* AddEvent and OnceEvent; a marked callback is not added again.
AddEvent(n, c, once) ==
    /\ InLua
    /\ adds < MaxAdds
    /\ c \notin mark[n]
    /\ mark' = [mark EXCEPT ![n] = @ \union {c}]
    /\ list' = [list EXCEPT ![n] =
                   Append(@, [callback |-> c, flag |-> once, id |-> adds])]
    /\ adds' = adds + 1
    /\ UNCHANGED <<queue, posts, walk, spent>>

RemoveAt(s, i) == SubSeq(s, 1, i - 1) \o SubSeq(s, i + 1, Len(s))

\* DelEvent unmarks the callback.  Its table.remove(list[idx]) is applied to
\* an entry, not to the list, and removes nothing: the entry stays, and is
\* called by later dispatches although its callback is not registered.
DelEvent(n, c) ==
    /\ InLua
    /\ c \in mark[n]
    /\ mark' = [mark EXCEPT ![n] = @ \ {c}]
    /\ UNCHANGED <<list, adds, queue, posts, walk, spent>>

\* DelAllEvent for the names S.  A dispatch under way keeps its table.
DelAllEvent(S) ==
    /\ InLua
    /\ list' = [n \in Names |-> IF n \in S THEN <<>> ELSE list[n]]
    /\ mark' = [n \in Names |-> IF n \in S THEN {} ELSE mark[n]]
    /\ IF running \in S /\ ~orphan
       THEN orphan' = TRUE /\ old' = list[running]
       ELSE UNCHANGED <<orphan, old>>
    /\ UNCHANGED <<adds, queue, posts, running, cursor, incall, snapshot, called, spent>>

OnEvent(n) ==
    /\ InLua
    /\ posts < MaxPosts
    /\ posts' = posts + 1
    /\ queue' = Append(queue, n)
    /\ UNCHANGED <<list, mark, adds, walk, spent>>

-----------------------------------------------------------------------------
(* DispatchEvent.                                                          *)

\* The array part of the table being walked.
Table == IF orphan THEN old ELSE list[running]

Begin ==
    /\ running = None
    /\ queue # <<>>
    /\ queue' = Tail(queue)
    /\ LET n == Head(queue) IN
       IF list[n] = <<>>
       THEN UNCHANGED <<running, cursor, snapshot, called>>
       ELSE /\ running' = n
            /\ cursor' = Len(list[n])
            /\ snapshot' = list[n]
            /\ called' = <<>>
    /\ UNCHANGED <<list, mark, adds, posts, incall, orphan, old, spent>>

\* Mutant: only the entry is removed.
TakeOff_KeepsMark(i) ==
    IF orphan
    THEN old' = RemoveAt(old, i) /\ UNCHANGED <<list, mark>>
    ELSE list' = [list EXCEPT ![running] = RemoveAt(@, i)] /\ UNCHANGED <<mark, old>>

\* Mutant: only the mark is removed.
TakeOff_KeepsEntry(i) ==
    IF orphan
    THEN UNCHANGED <<list, mark, old>>
    ELSE /\ mark' = [mark EXCEPT ![running] = @ \ {list[running][i].callback}]
         /\ UNCHANGED <<list, old>>

\* Mutant: the entry removed is the first, the index the mark holds.
TakeOff_First(i) ==
    IF orphan
    THEN old' = RemoveAt(old, 1) /\ UNCHANGED <<list, mark>>
    ELSE /\ list' = [list EXCEPT ![running] = RemoveAt(@, 1)]
         /\ mark' = [mark EXCEPT ![running] = @ \ {list[running][i].callback}]
         /\ UNCHANGED old

\* A once-entry leaves the list, and its callback's mark goes, before the call.
TakeOff(i) ==
    IF orphan
    THEN old' = RemoveAt(old, i) /\ UNCHANGED <<list, mark>>
    ELSE /\ list' = [list EXCEPT ![running] = RemoveAt(@, i)]
         /\ mark' = [mark EXCEPT ![running] = @ \ {list[running][i].callback}]
         /\ UNCHANGED old

\* The loop's body up to the call.
Call ==
    LET e == Table[cursor] IN
    /\ running # None /\ ~incall
    /\ IF e.flag
       THEN TakeOff(cursor) /\ spent' = spent \union {e.id}
       ELSE UNCHANGED <<list, mark, old, spent>>
    /\ called' = Append(called, e)
    /\ incall' = TRUE
    /\ UNCHANGED <<adds, queue, posts, running, cursor, orphan, snapshot>>

EndDispatch ==
    /\ running' = None
    /\ cursor' = 0
    /\ orphan' = FALSE
    /\ old' = <<>>

\* The listener returns.
Return ==
    /\ incall
    /\ incall' = FALSE
    /\ \/ cursor > 1 /\ cursor' = cursor - 1 /\ UNCHANGED <<running, orphan, old>>
       \/ cursor = 1 /\ EndDispatch
    /\ UNCHANGED <<list, mark, adds, queue, posts, snapshot, called, spent>>

\* The listener raises an error: it leaves DispatchEvent, and luv_pcall
\* reports it; the remaining listeners are not called.
Raise ==
    /\ incall
    /\ incall' = FALSE
    /\ EndDispatch
    /\ UNCHANGED <<list, mark, adds, queue, posts, snapshot, called, spent>>

Next ==
    \/ \E n \in Names, c \in Callbacks :
          (\E once \in BOOLEAN : AddEvent(n, c, once)) \/ DelEvent(n, c)
    \/ \E n \in Names : DelAllEvent({n}) \/ OnEvent(n)
    \/ DelAllEvent(Names)
    \/ Begin \/ Call \/ Return \/ Raise

Spec == Init /\ [][Next]_vars

-----------------------------------------------------------------------------
(* Properties.                                                             *)

TypeOK ==
    /\ list \in [Names -> Seq(Entry)]
    /\ mark \in [Names -> SUBSET Callbacks]
    /\ adds \in 0 .. MaxAdds
    /\ queue \in Seq(Names)
    /\ posts \in 0 .. MaxPosts
    /\ running \in Names \union {None}
    /\ cursor \in Nat
    /\ incall \in BOOLEAN /\ orphan \in BOOLEAN
    /\ old \in Seq(Entry) /\ snapshot \in Seq(Entry) /\ called \in Seq(Entry)
    /\ spent \subseteq Nat

\* A marked callback is in the list: AddEvent never refuses a listener that
\* would not be called.  It holds when a once-listener registers itself again
\* from its own call, and when the lists are dropped during a dispatch.
MarkedIsListed ==
    \A n \in Names : \A c \in mark[n] :
        \E i \in DOMAIN list[n] : list[n][i].callback = c

\* The number of entries the walk has not reached.
Left == IF incall THEN cursor - 1 ELSE cursor

\* A dispatch goes through the entries of the table as it stood when it
\* began, the latest first, each once, whatever the listeners it calls add,
\* delete or drop: the entries not yet reached do not move under the loop
\* (class.lua:623-628), and list[i] is never nil.  This is about the entries,
\* not about who is registered: an entry whose callback DelEvent has unmarked
\* is still in the table and is called, and a callback deleted and added
\* again has two entries and is called twice (class.lua:599).
SnapshotDispatch ==
    running # None =>
        /\ Left <= Len(Table)
        /\ \A i \in 1 .. Left : Table[i] = snapshot[i]
        /\ Len(called) + Left = Len(snapshot)
        /\ \A k \in DOMAIN called : called[k] = snapshot[Len(snapshot) + 1 - k]

\* A once-listener is called at most once for each time it was added.
OnceIsOnce ==
    [][Len(called') > Len(called) /\ called'[Len(called')].flag
          => called'[Len(called')].id \notin spent]_vars
==============================================================================
