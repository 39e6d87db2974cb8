---------------------------- MODULE LuvReq_proofs ----------------------------
(***************************************************************************)
(* Proofs about LuvReq.tla, for every set of requests and any number of    *)
(* threads in the pool.                                                    *)
(***************************************************************************)
EXTENDS LuvReq, SequenceTheorems, FiniteSetTheorems, TLAPS

\* No request is twice in a queue.
Once(s) == \A i, j \in DOMAIN s : s[i] = s[j] => i = j
Has(s, r) == \E i \in DOMAIN s : s[i] = r

Done == {"executed", "cancelled"}

\* Each place holds the requests that libuv's state says it holds.
WqOK == Once(wq) /\ \A r \in Reqs : Has(wq, r) <=> uv[r] = "queued"
WorkersOK ==
    /\ \A v, w \in Workers : worker[v] = worker[w] /\ worker[v] # None => v = w
    /\ \A r \in Reqs : (\E w \in Workers : worker[w] = r) <=> uv[r] = "working"
DoneOK ==
    /\ Once(loopwq) /\ Once(local)
    /\ \A r \in Reqs : ~(Has(loopwq, r) /\ Has(local, r))
    /\ \A r \in Reqs : Has(loopwq, r) \/ Has(local, r) <=> uv[r] \in Done

PlacesOK == WqOK /\ WorkersOK /\ DoneOK

\* How the life of a request goes on: only a request that libuv has finished
\* is in its callback, or was called back; a cancelled or collected one has no
\* luv_req_t, and a listing is never given to the pool.
LifeOf(r) ==
    /\ current = r \/ kind[r] = "listing" \/ calls[r] # 0 => uv[r] = "idle"
    /\ current = r => calls[r] = 1
    /\ kind[r] = "listing" => calls[r] = 0
    /\ uv[r] = "cancelled" => ~data[r]
    /\ r \in collected => ~data[r]
    /\ uv[r] = "new" => ~data[r] /\ r \notin collected
    /\ calls[r] \in {0, 1}
LifeOK == \A r \in Reqs : LifeOf(r)

IInv == TypeOK /\ PlacesOK /\ LifeOK /\ KeptWhileInUse /\ ReleasedWhenServed

USE NoneIsNoReq

-----------------------------------------------------------------------------
(* The queues.                                                             *)

LEMMA EmptyQueue == Once(<<>>) /\ \A r : ~Has(<<>>, r)
  BY DEF Once, Has

\* Joining a queue.
LEMMA AppendQueue ==
  ASSUME NEW s \in Seq(Reqs), NEW x \in Reqs, Once(s), ~Has(s, x)
  PROVE  /\ Append(s, x) \in Seq(Reqs) /\ Once(Append(s, x))
         /\ \A r : Has(Append(s, x), r) <=> Has(s, r) \/ r = x
<1> DEFINE t == Append(s, x)
<1>1. /\ t \in Seq(Reqs) /\ Len(t) = Len(s) + 1 /\ Len(s) \in Nat
      /\ \A i \in 1 .. Len(s) : t[i] = s[i]
      /\ t[Len(s) + 1] = x
      /\ DOMAIN s = 1 .. Len(s) /\ DOMAIN t = 1 .. Len(s) + 1
  BY AppendProperties, LenProperties
<1> HIDE DEF t
<1>2. Once(t)
  BY <1>1 DEF Once, Has
<1>3. \A r : Has(t, r) <=> Has(s, r) \/ r = x
  BY <1>1 DEF Has
<1> QED
  BY <1>1, <1>2, <1>3 DEF t

\* Taking the first.
LEMMA TailQueue ==
  ASSUME NEW s \in Seq(Reqs), s # <<>>, Once(s)
  PROVE  /\ Head(s) \in Reqs /\ Has(s, Head(s))
         /\ Tail(s) \in Seq(Reqs) /\ Once(Tail(s))
         /\ \A r : Has(Tail(s), r) <=> Has(s, r) /\ r # Head(s)
<1> DEFINE t == Tail(s)
<1>1. /\ t \in Seq(Reqs) /\ Len(t) = Len(s) - 1 /\ Len(s) \in Nat \ {0}
      /\ \A i \in 1 .. Len(s) - 1 : t[i] = s[i + 1]
      /\ DOMAIN s = 1 .. Len(s) /\ DOMAIN t = 1 .. Len(s) - 1
      /\ Head(s) = s[1] /\ Head(s) \in Reqs
  BY HeadTailProperties, LenProperties, EmptySeq
<1> HIDE DEF t
<1>2. Once(t) /\ Has(s, Head(s))
  <2>1. Has(s, Head(s))
    BY <1>1 DEF Has
  <2>2. ASSUME NEW i \in DOMAIN t, NEW j \in DOMAIN t, t[i] = t[j] PROVE i = j
    <3>1. i + 1 \in DOMAIN s /\ j + 1 \in DOMAIN s /\ s[i + 1] = s[j + 1]
      BY <1>1, <2>2
    <3>2. i + 1 = j + 1
      BY <3>1 DEF Once
    <3> QED
      BY <1>1, <3>2
  <2> QED
    BY <2>1, <2>2 DEF Once
<1>3. ASSUME NEW r PROVE Has(t, r) <=> Has(s, r) /\ r # Head(s)
  <2>1. ASSUME Has(t, r) PROVE Has(s, r) /\ r # Head(s)
    <3>1. PICK i \in DOMAIN t : t[i] = r
      BY <2>1 DEF Has
    <3>2. i + 1 \in DOMAIN s /\ s[i + 1] = r /\ 1 \in DOMAIN s /\ i + 1 # 1
      BY <1>1, <3>1
    <3>3. s[1] # r
      BY <3>2 DEF Once
    <3> QED
      BY <1>1, <3>2, <3>3 DEF Has
  <2>2. ASSUME Has(s, r), r # Head(s) PROVE Has(t, r)
    <3>1. PICK i \in DOMAIN s : s[i] = r /\ i # 1
      BY <1>1, <2>2 DEF Has
    <3>2. i - 1 \in DOMAIN t /\ t[i - 1] = r
      BY <1>1, <3>1
    <3> QED
      BY <3>2 DEF Has
  <2> QED
    BY <2>1, <2>2
<1> QED
  BY <1>1, <1>2, <1>3 DEF t

\* Being unlinked from the middle.
LEMMA WithoutQueue ==
  ASSUME NEW s \in Seq(Reqs), NEW x \in Reqs, Once(s)
  PROVE  /\ Without(s, x) \in Seq(Reqs) /\ Once(Without(s, x))
         /\ \A r : Has(Without(s, x), r) <=> Has(s, r) /\ r # x
<1>1. CASE ~Has(s, x)
  BY <1>1 DEF Has, Without
<1>2. CASE Has(s, x)
  <2>1. PICK i \in DOMAIN s : i = CHOOSE j \in DOMAIN s : s[j] = x
    BY <1>2 DEF Has
  <2>2. s[i] = x
    BY <1>2, <2>1 DEF Has
  <2> DEFINE a == SubSeq(s, 1, i - 1)
             b == SubSeq(s, i + 1, Len(s))
             t == a \o b
  <2>3. Without(s, x) = t
    BY <1>2, <2>1 DEF Has, Without
  <2>4. Len(s) \in Nat /\ DOMAIN s = 1 .. Len(s) /\ i \in 1 .. Len(s)
        /\ \A k \in 1 .. Len(s) : s[k] \in Reqs
    BY LenProperties, ElementOfSeq
  <2>5. a \in Seq(Reqs) /\ Len(a) = i - 1 /\ \A k \in 1 .. i - 1 : a[k] = s[k]
    BY <2>4, SubSeqProperties
  <2>6. b \in Seq(Reqs) /\ Len(b) = Len(s) - i
        /\ \A k \in 1 .. Len(s) - i : b[k] = s[i + k]
    BY <2>4, SubSeqProperties
  <2> HIDE DEF a, b
  <2>7. /\ t \in Seq(Reqs) /\ Len(t) = Len(a) + Len(b)
        /\ \A k \in 1 .. Len(a) + Len(b) :
              t[k] = IF k <= Len(a) THEN a[k] ELSE b[k - Len(a)]
    BY <2>5, <2>6, ConcatProperties
  <2> HIDE DEF t
  <2>8. DOMAIN t = 1 .. Len(s) - 1
    BY <2>4, <2>5, <2>6, <2>7, LenProperties
  <2>9. \A k \in 1 .. Len(s) - 1 : t[k] = IF k < i THEN s[k] ELSE s[k + 1]
    <3> SUFFICES ASSUME NEW k \in 1 .. Len(s) - 1
                 PROVE  t[k] = IF k < i THEN s[k] ELSE s[k + 1]
      OBVIOUS
    <3>1. t[k] = IF k <= i - 1 THEN a[k] ELSE b[k - (i - 1)]
      BY <2>4, <2>5, <2>6, <2>7
    <3>2. CASE k < i
      BY <2>4, <2>5, <3>1, <3>2
    <3>3. CASE k >= i
      <4>1. k - (i - 1) \in 1 .. Len(s) - i /\ i + (k - (i - 1)) = k + 1
        BY <2>4, <3>3
      <4>2. b[k - (i - 1)] = s[k + 1]
        BY <2>6, <4>1
      <4> QED
        BY <2>4, <3>1, <3>3, <4>2
    <3> QED
      BY <2>4, <3>2, <3>3
  <2>10. Once(t)
    <3> DEFINE was(k) == IF k < i THEN k ELSE k + 1
    <3>1. \A k \in 1 .. Len(s) - 1 : was(k) \in DOMAIN s /\ t[k] = s[was(k)]
      BY <2>4, <2>9
    <3>2. \A k, l \in 1 .. Len(s) - 1 : was(k) = was(l) => k = l
      BY <2>4
    <3> HIDE DEF was
    <3> QED
      BY <2>8, <3>1, <3>2 DEF Once
  <2>11. ASSUME NEW r PROVE Has(t, r) <=> Has(s, r) /\ r # x
    <3>1. ASSUME Has(t, r) PROVE Has(s, r) /\ r # x
      <4>1. PICK k \in 1 .. Len(s) - 1 : t[k] = r
        BY <2>8, <3>1 DEF Has
      <4>2. PICK m \in DOMAIN s : s[m] = r /\ m # i
        BY <2>4, <2>9, <4>1
      <4> QED
        BY <2>2, <4>2 DEF Once, Has
    <3>2. ASSUME Has(s, r), r # x PROVE Has(t, r)
      <4>1. PICK m \in 1 .. Len(s) : s[m] = r /\ m # i
        BY <2>2, <2>4, <3>2 DEF Has
      <4>2. CASE m < i
        BY <2>4, <2>8, <2>9, <4>1, <4>2 DEF Has
      <4>3. CASE m > i
        <5>1. m - 1 \in 1 .. Len(s) - 1 /\ t[m - 1] = r
          BY <2>4, <2>9, <4>1, <4>3
        <5> QED
          BY <2>8, <5>1 DEF Has
      <4> QED
        BY <2>4, <4>1, <4>2, <4>3
    <3> QED
      BY <3>1, <3>2
  <2> QED
    BY <2>3, <2>7, <2>10, <2>11
<1> QED
  BY <1>1, <1>2

-----------------------------------------------------------------------------
(* The steps.                                                              *)

\* What the invariant says of one request, apart from its place.
OwnedOK(r) ==
    /\ LifeOf(r)
    /\ InUse(r) /\ uv[r] # "cancelled" /\ r \notin retyped
          => data[r] /\ r \notin collected
    /\ calls[r] = 1 /\ current # r /\ kind[r] # "scandir" => ~data[r]

LEMMA OwnedParts ==
  ASSUME TypeOK
  PROVE  (LifeOK /\ KeptWhileInUse /\ ReleasedWhenServed)
            <=> \A r \in Reqs : OwnedOK(r)
  BY DEF TypeOK, OwnedOK, LifeOK, LifeOf, KeptWhileInUse, ReleasedWhenServed

LEMMA InvParts ==
  IInv <=> TypeOK /\ PlacesOK /\ \A r \in Reqs : OwnedOK(r)
  BY OwnedParts DEF IInv

LEMMA InvNext ==
  ASSUME TypeOK', PlacesOK', \A r \in Reqs : OwnedOK(r)'
  PROVE  IInv'
<1>1. LifeOK' /\ KeptWhileInUse' /\ ReleasedWhenServed'
  BY DEF TypeOK, OwnedOK, LifeOK, LifeOf, KeptWhileInUse, ReleasedWhenServed
<1> QED
  BY <1>1 DEF IInv

LEMMA InitIInv == Init => IInv
<1> SUFFICES ASSUME Init PROVE IInv
  OBVIOUS
<1>1. TypeOK
  <2>1. data \in [Reqs -> BOOLEAN] /\ crashed \in BOOLEAN
    BY Zenon DEF Init
  <2>2. uv \in [Reqs -> UvStates] /\ kind \in [Reqs -> Kinds \union {"none"}]
    BY DEF Init, UvStates
  <2> QED
    BY <2>1, <2>2 DEF Init, TypeOK
<1>2. PlacesOK
  BY EmptyQueue DEF Init, PlacesOK, WqOK, WorkersOK, DoneOK, Done
<1>3. \A r \in Reqs : OwnedOK(r)
  BY DEF Init, OwnedOK, LifeOf, InUse
<1> QED
  BY <1>1, <1>2, <1>3, InvParts

\* The process dies.
LEMMA DieStep ==
  ASSUME Die
  PROVE  IInv'
<1>1. TypeOK'
  <2>1. data' \in [Reqs -> BOOLEAN] /\ crashed' \in BOOLEAN
    BY Zenon DEF Die
  <2>2. uv' \in [Reqs -> UvStates] /\ kind' \in [Reqs -> Kinds \union {"none"}]
    BY DEF Die, UvStates
  <2> QED
    BY <2>1, <2>2 DEF Die, TypeOK
<1>2. PlacesOK'
  BY EmptyQueue DEF Die, PlacesOK, WqOK, WorkersOK, DoneOK, Done
<1>3. \A r \in Reqs : OwnedOK(r)'
  BY DEF Die, OwnedOK, LifeOf, InUse
<1> QED
  BY <1>1, <1>2, <1>3, InvNext

\* A function of luv makes a request and hands it over, or not.
LEMMA MakeStep ==
  ASSUME IInv, NEW r \in Reqs, NEW k \in Kinds, NEW st \in {"queued", "io", "idle"},
         NEW live \in BOOLEAN, Setup(r, k, st, live),
         wq' = IF st = "queued" THEN Append(wq, r) ELSE wq,
         st # "idle" => live, k = "listing" => st = "idle"
  PROVE  IInv'
<1>1. /\ TypeOK /\ PlacesOK /\ uv[r] = "new"
      /\ kind' = [kind EXCEPT ![r] = k]
      /\ data' = [data EXCEPT ![r] = live]
      /\ uv' = [uv EXCEPT ![r] = st]
      /\ UNCHANGED <<retyped, worker, loopwq, local, current, calls, collected, crashed>>
  BY DEF Setup, IInv
<1>2. ~Has(wq, r) /\ ~Has(loopwq, r) /\ ~Has(local, r) /\ ~(\E w \in Workers : worker[w] = r)
  BY <1>1 DEF PlacesOK, WqOK, WorkersOK, DoneOK, Done
<1>3. /\ Append(wq, r) \in Seq(Reqs) /\ Once(Append(wq, r))
      /\ \A x : Has(Append(wq, r), x) <=> Has(wq, x) \/ x = r
  BY <1>1, <1>2, AppendQueue DEF TypeOK, PlacesOK, WqOK
<1>4. TypeOK'
  BY <1>1, <1>3 DEF TypeOK, UvStates
<1>5. PlacesOK'
  <2>1. WqOK'
    BY <1>1, <1>2, <1>3 DEF PlacesOK, WqOK, TypeOK
  <2>2. WorkersOK'
    BY <1>1, <1>2 DEF PlacesOK, WorkersOK, TypeOK
  <2>3. DoneOK'
    BY <1>1, <1>2 DEF PlacesOK, DoneOK, Done, TypeOK
  <2> QED
    BY <2>1, <2>2, <2>3 DEF PlacesOK
<1>6. ASSUME NEW x \in Reqs PROVE OwnedOK(x)'
  <2>1. OwnedOK(x)
    BY InvParts
  <2>2. CASE x = r
    BY <1>1, <2>1, <2>2 DEF OwnedOK, LifeOf, InUse, TypeOK
  <2>3. CASE x # r
    BY <1>1, <2>1, <2>3 DEF OwnedOK, LifeOf, InUse, TypeOK
  <2> QED
    BY <2>2, <2>3
<1> QED
  BY <1>4, <1>5, <1>6, InvNext

\* A step that moves no request and changes what libuv knows of none.
LEMMA StillPlaces ==
  ASSUME PlacesOK, UNCHANGED <<uv, queues>>
  PROVE  PlacesOK'
  BY DEF PlacesOK, WqOK, WorkersOK, DoneOK, queues

LEMMA CancelStep ==
  ASSUME IInv, NEW r \in Reqs, Cancel(r)
  PROVE  IInv'
<1>1. /\ TypeOK /\ PlacesOK /\ uv[r] = "queued" /\ data[r]
      /\ uv' = [uv EXCEPT ![r] = "cancelled"]
      /\ wq' = Without(wq, r) /\ loopwq' = Append(loopwq, r)
      /\ data' = [data EXCEPT ![r] = FALSE]
      /\ UNCHANGED <<kind, retyped, worker, local, current, calls, collected, crashed>>
  BY DEF Cancel, Cancellable, Release, IInv
<1>2. ~Has(loopwq, r) /\ ~Has(local, r) /\ ~(\E w \in Workers : worker[w] = r)
  BY <1>1 DEF PlacesOK, WorkersOK, DoneOK, Done
<1>3. /\ wq' \in Seq(Reqs) /\ Once(wq')
      /\ \A x : Has(wq', x) <=> Has(wq, x) /\ x # r
  BY <1>1, WithoutQueue DEF TypeOK, PlacesOK, WqOK
<1>4. /\ loopwq' \in Seq(Reqs) /\ Once(loopwq')
      /\ \A x : Has(loopwq', x) <=> Has(loopwq, x) \/ x = r
  BY <1>1, <1>2, AppendQueue DEF TypeOK, PlacesOK, DoneOK
<1>5. TypeOK'
  BY <1>1, <1>3, <1>4 DEF TypeOK, UvStates
<1>6. PlacesOK'
  <2>1. WqOK'
    BY <1>1, <1>3 DEF PlacesOK, WqOK, TypeOK
  <2>2. WorkersOK'
    BY <1>1, <1>2 DEF PlacesOK, WorkersOK, TypeOK
  <2>3. DoneOK'
    BY <1>1, <1>2, <1>4 DEF PlacesOK, DoneOK, Done, TypeOK
  <2> QED
    BY <2>1, <2>2, <2>3 DEF PlacesOK
<1>7. ASSUME NEW x \in Reqs PROVE OwnedOK(x)'
  <2>1. OwnedOK(x)
    BY InvParts
  <2>2. CASE x = r
    BY <1>1, <2>1, <2>2 DEF OwnedOK, LifeOf, InUse, TypeOK
  <2>3. CASE x # r
    BY <1>1, <2>1, <2>3 DEF OwnedOK, LifeOf, InUse, TypeOK
  <2> QED
    BY <2>2, <2>3
<1> QED
  BY <1>5, <1>6, <1>7, InvNext

\* scandir_next, and the collector.
LEMMA LuaStep ==
  ASSUME IInv, NEW r \in Reqs, ScandirNext(r) \/ Collect(r), ~Die
  PROVE  IInv'
<1>1. /\ TypeOK /\ PlacesOK /\ UNCHANGED <<kind, uv, queues, current, calls, crashed>>
      /\ \/ /\ retyped' \in {retyped, retyped \union {r}}
            /\ InUse(r) => r \in retyped'
            /\ data' \in {data, [data EXCEPT ![r] = FALSE]} /\ UNCHANGED collected
         \/ /\ ~data[r] /\ uv[r] # "new"
            /\ collected' = collected \union {r} /\ UNCHANGED <<data, retyped>>
  BY DEF ScandirNext, Collect, Release, Known, IInv
<1>2. TypeOK'
  BY <1>1 DEF TypeOK, queues
<1>3. PlacesOK'
  BY <1>1, StillPlaces
<1>4. ASSUME NEW x \in Reqs PROVE OwnedOK(x)'
  <2>1. OwnedOK(x)
    BY InvParts
  <2>2. CASE x = r
    BY <1>1, <2>1, <2>2 DEF OwnedOK, LifeOf, InUse, TypeOK
  <2>3. CASE x # r
    BY <1>1, <2>1, <2>3 DEF OwnedOK, LifeOf, InUse, TypeOK
  <2> QED
    BY <2>2, <2>3
<1> QED
  BY <1>2, <1>3, <1>4, InvNext

\* libuv moves a request on, between states it is in use in.
LEMMA MovedOwned ==
  ASSUME TypeOK, NEW r \in Reqs, NEW x \in Reqs, OwnedOK(x),
         uv[r] \in {"queued", "working"},
         NEW st \in {"working", "executed"}, uv' = [uv EXCEPT ![r] = st],
         UNCHANGED <<kind, data, retyped, current, calls, collected>>
  PROVE  OwnedOK(x)'
<1>1. CASE x = r
  BY <1>1 DEF OwnedOK, LifeOf, InUse, TypeOK
<1>2. CASE x # r
  BY <1>2 DEF OwnedOK, LifeOf, InUse, TypeOK
<1> QED
  BY <1>1, <1>2

LEMMA TakeWorkStep ==
  ASSUME IInv, NEW w \in Workers, TakeWork(w), ~Die
  PROVE  IInv'
<1>1. /\ TypeOK /\ PlacesOK /\ wq # <<>> /\ wq \in Seq(Reqs) /\ Once(wq)
  BY DEF TakeWork, IInv, TypeOK, PlacesOK, WqOK
<1>2. PICK r \in Reqs : r = Head(wq)
  BY <1>1, TailQueue
<1>3. /\ Has(wq, r) /\ Tail(wq) \in Seq(Reqs) /\ Once(Tail(wq))
      /\ \A x : Has(Tail(wq), x) <=> Has(wq, x) /\ x # r
  BY <1>1, <1>2, TailQueue
<1>4. /\ uv[r] = "queued" /\ worker[w] = None
      /\ uv' = [uv EXCEPT ![r] = "working"] /\ wq' = Tail(wq)
      /\ worker' = [worker EXCEPT ![w] = r]
      /\ UNCHANGED <<kind, data, retyped, loopwq, local, current, calls, collected, crashed>>
  BY <1>1, <1>2, <1>3 DEF TakeWork, Strays, PlacesOK, WqOK
<1>5. ~Has(loopwq, r) /\ ~Has(local, r) /\ ~(\E v \in Workers : worker[v] = r)
  BY <1>1, <1>4 DEF PlacesOK, WorkersOK, DoneOK, Done
<1>6. TypeOK'
  BY <1>1, <1>3, <1>4 DEF TypeOK, UvStates
<1>7. WqOK'
  BY <1>1, <1>3, <1>4 DEF PlacesOK, WqOK, TypeOK
<1>8. WorkersOK'
  <2>1. \A u, v \in Workers : worker'[u] = worker'[v] /\ worker'[u] # None => u = v
    BY <1>1, <1>4, <1>5 DEF PlacesOK, WorkersOK, TypeOK
  <2>2. ASSUME NEW x \in Reqs
        PROVE  (\E v \in Workers : worker'[v] = x) <=> uv'[x] = "working"
    <3>1. CASE x = r
      BY <1>1, <1>4, <3>1 DEF TypeOK
    <3>2. CASE x # r
      <4>1. (\E v \in Workers : worker'[v] = x) <=> (\E v \in Workers : worker[v] = x)
        BY <1>1, <1>4, <3>2 DEF TypeOK
      <4> QED
        BY <1>1, <1>4, <3>2, <4>1 DEF PlacesOK, WorkersOK, TypeOK
    <3> QED
      BY <3>1, <3>2
  <2> QED
    BY <2>1, <2>2 DEF WorkersOK
<1>9. DoneOK'
  BY <1>1, <1>4, <1>5 DEF PlacesOK, DoneOK, Done, TypeOK
<1>10. \A x \in Reqs : OwnedOK(x)'
  BY <1>1, <1>4, InvParts, MovedOwned
<1> QED
  BY <1>6, <1>7, <1>8, <1>9, <1>10, InvNext DEF PlacesOK

LEMMA FinishWorkStep ==
  ASSUME IInv, NEW w \in Workers, FinishWork(w), ~Die
  PROVE  IInv'
<1>1. TypeOK /\ PlacesOK /\ worker[w] # None
  BY DEF FinishWork, IInv
<1>2. PICK r \in Reqs : r = worker[w]
  BY <1>1 DEF TypeOK
<1>3. /\ uv[r] = "working"
      /\ uv' = [uv EXCEPT ![r] = "executed"] /\ loopwq' = Append(loopwq, r)
      /\ worker' = [worker EXCEPT ![w] = None]
      /\ UNCHANGED <<kind, data, retyped, wq, local, current, calls, collected, crashed>>
  BY <1>1, <1>2 DEF FinishWork, Strays, PlacesOK, WorkersOK
<1>4. ~Has(wq, r) /\ ~Has(loopwq, r) /\ ~Has(local, r)
  BY <1>1, <1>3 DEF PlacesOK, WqOK, DoneOK, Done
<1>5. /\ loopwq' \in Seq(Reqs) /\ Once(loopwq')
      /\ \A x : Has(loopwq', x) <=> Has(loopwq, x) \/ x = r
  BY <1>1, <1>3, <1>4, AppendQueue DEF TypeOK, PlacesOK, DoneOK
<1>6. TypeOK'
  BY <1>1, <1>3, <1>5 DEF TypeOK, UvStates
<1>7. WqOK'
  BY <1>1, <1>3, <1>4 DEF PlacesOK, WqOK, TypeOK
<1>8. WorkersOK'
  <2>1. \A u, v \in Workers : worker'[u] = worker'[v] /\ worker'[u] # None => u = v
    BY <1>1, <1>3 DEF PlacesOK, WorkersOK, TypeOK
  <2>2. ASSUME NEW x \in Reqs
        PROVE  (\E v \in Workers : worker'[v] = x) <=> uv'[x] = "working"
    <3>1. CASE x = r
      <4>1. \A v \in Workers : worker'[v] # r
        BY <1>1, <1>2, <1>3 DEF PlacesOK, WorkersOK, TypeOK
      <4> QED
        BY <1>1, <1>3, <3>1, <4>1 DEF TypeOK
    <3>2. CASE x # r
      <4>1. (\E v \in Workers : worker'[v] = x) <=> (\E v \in Workers : worker[v] = x)
        BY <1>1, <1>2, <1>3, <3>2 DEF TypeOK
      <4> QED
        BY <1>1, <1>3, <3>2, <4>1 DEF PlacesOK, WorkersOK, TypeOK
    <3> QED
      BY <3>1, <3>2
  <2> QED
    BY <2>1, <2>2 DEF WorkersOK
<1>9. DoneOK'
  BY <1>1, <1>3, <1>4, <1>5 DEF PlacesOK, DoneOK, Done, TypeOK
<1>10. \A x \in Reqs : OwnedOK(x)'
  BY <1>1, <1>3, InvParts, MovedOwned
<1> QED
  BY <1>6, <1>7, <1>8, <1>9, <1>10, InvNext DEF PlacesOK

\* The callback: a request that libuv has finished becomes the current one.
LEMMA ReportOwned ==
  ASSUME TypeOK, NEW r \in Reqs, NEW x \in Reqs, OwnedOK(x), OwnedOK(r),
         uv[r] \in {"executed", "cancelled", "io"}, current = None, Report(r)
  PROVE  OwnedOK(x)'
<1>1. /\ uv' = [uv EXCEPT ![r] = "idle"]
      /\ data[r] /\ current' = r /\ calls' = [calls EXCEPT ![r] = @ + 1]
      /\ UNCHANGED <<kind, data, retyped, collected>>
  BY DEF Report
<1>2. calls[r] = 0
  BY DEF OwnedOK, LifeOf, TypeOK
<1>3. CASE x = r
  BY <1>1, <1>2, <1>3 DEF OwnedOK, LifeOf, InUse, TypeOK
<1>4. CASE x # r
  BY <1>1, <1>4 DEF OwnedOK, LifeOf, InUse, TypeOK
<1> QED
  BY <1>3, <1>4

LEMMA PoolCallbackStep ==
  ASSUME IInv, PoolCallback, ~Die
  PROVE  IInv'
<1>1. /\ TypeOK /\ PlacesOK /\ local # <<>> /\ local \in Seq(Reqs) /\ Once(local)
      /\ current = None
  BY DEF PoolCallback, IInv, TypeOK, PlacesOK, DoneOK
<1>2. PICK r \in Reqs : r = Head(local)
  BY <1>1, TailQueue
<1>3. /\ Has(local, r) /\ Tail(local) \in Seq(Reqs) /\ Once(Tail(local))
      /\ \A x : Has(Tail(local), x) <=> Has(local, x) /\ x # r
  BY <1>1, <1>2, TailQueue
<1>4. Report(r) /\ local' = Tail(local)
  BY <1>2 DEF PoolCallback
<1>5. /\ uv[r] \in Done /\ uv' = [uv EXCEPT ![r] = "idle"]
      /\ UNCHANGED <<kind, data, retyped, wq, worker, loopwq, collected, crashed>>
      /\ current' = r /\ calls' = [calls EXCEPT ![r] = @ + 1]
  BY <1>1, <1>3, <1>4 DEF Report, PlacesOK, DoneOK
<1>6. /\ ~Has(wq, r) /\ ~Has(loopwq, r) /\ ~(\E v \in Workers : worker[v] = r)
  BY <1>1, <1>3, <1>5 DEF PlacesOK, WqOK, WorkersOK, DoneOK, Done
<1>7. TypeOK'
  <2>1. calls' \in [Reqs -> Nat]
    BY <1>1, <1>5 DEF TypeOK
  <2>2. uv' \in [Reqs -> UvStates]
    BY <1>1, <1>5 DEF TypeOK, UvStates
  <2>3. crashed' \in BOOLEAN
    BY <1>1, <1>5 DEF TypeOK
  <2> QED
    BY <1>1, <1>3, <1>4, <1>5, <2>1, <2>2, <2>3 DEF TypeOK
<1>8. PlacesOK'
  <2>1. WqOK'
    BY <1>1, <1>5, <1>6 DEF PlacesOK, WqOK, TypeOK
  <2>2. WorkersOK'
    BY <1>1, <1>5, <1>6 DEF PlacesOK, WorkersOK, TypeOK
  <2>3. DoneOK'
    BY <1>1, <1>3, <1>4, <1>5, <1>6 DEF PlacesOK, DoneOK, Done, TypeOK
  <2> QED
    BY <2>1, <2>2, <2>3 DEF PlacesOK
<1>9. \A x \in Reqs : OwnedOK(x)'
  BY <1>1, <1>4, <1>5, InvParts, ReportOwned DEF Done
<1> QED
  BY <1>7, <1>8, <1>9, InvNext

LEMMA IoCallbackStep ==
  ASSUME IInv, NEW r \in Reqs, IoCallback(r), ~Die
  PROVE  IInv'
<1>1. /\ TypeOK /\ PlacesOK /\ current = None /\ Report(r)
      /\ uv[r] = "io" /\ uv' = [uv EXCEPT ![r] = "idle"]
      /\ UNCHANGED <<kind, data, retyped, wq, worker, loopwq, local, collected, crashed>>
      /\ current' = r /\ calls' = [calls EXCEPT ![r] = @ + 1]
  BY DEF IoCallback, Report, IInv
<1>2. TypeOK'
  <2>1. calls' \in [Reqs -> Nat]
    BY <1>1 DEF TypeOK
  <2>2. uv' \in [Reqs -> UvStates]
    BY <1>1 DEF TypeOK, UvStates
  <2>3. crashed' \in BOOLEAN
    BY <1>1 DEF TypeOK
  <2> QED
    BY <1>1, <2>1, <2>2, <2>3 DEF TypeOK
<1>3. PlacesOK'
  <2>1. WqOK'
    BY <1>1 DEF PlacesOK, WqOK, TypeOK
  <2>2. WorkersOK'
    BY <1>1 DEF PlacesOK, WorkersOK, TypeOK
  <2>3. DoneOK'
    BY <1>1 DEF PlacesOK, DoneOK, Done, TypeOK
  <2> QED
    BY <2>1, <2>2, <2>3 DEF PlacesOK
<1>4. \A x \in Reqs : OwnedOK(x)'
  BY <1>1, InvParts, ReportOwned
<1> QED
  BY <1>2, <1>3, <1>4, InvNext

LEMMA WorkDoneStep ==
  ASSUME IInv, WorkDone
  PROVE  IInv'
<1>1. /\ TypeOK /\ PlacesOK /\ local = <<>> /\ local' = loopwq /\ loopwq' = <<>>
      /\ UNCHANGED <<kind, uv, data, retyped, wq, worker, current, calls, collected, crashed>>
  BY DEF WorkDone, InLua, IInv
<1>2. TypeOK'
  BY <1>1 DEF TypeOK
<1>3. PlacesOK'
  BY <1>1, EmptyQueue DEF PlacesOK, WqOK, WorkersOK, DoneOK
<1>4. \A x \in Reqs : OwnedOK(x)'
  BY <1>1, InvParts DEF OwnedOK, LifeOf, InUse
<1> QED
  BY <1>2, <1>3, <1>4, InvNext

LEMMA EndCallbackStep ==
  ASSUME IInv, EndCallback, ~Die
  PROVE  IInv'
<1>1. TypeOK /\ PlacesOK /\ current # None
  BY DEF EndCallback, IInv
<1>2. PICK r \in Reqs : r = current
  BY <1>1 DEF TypeOK
<1>3. /\ current' = None /\ retyped' = retyped \ {r}
      /\ UNCHANGED <<kind, uv, queues, calls, collected, crashed>>
      /\ \/ kind[r] = "scandir" /\ UNCHANGED data
         \/ kind[r] # "scandir" /\ data' = [data EXCEPT ![r] = FALSE]
  BY <1>2 DEF EndCallback, Release, Strays
<1>4. TypeOK'
  BY <1>1, <1>3 DEF TypeOK, queues
<1>5. PlacesOK'
  BY <1>1, <1>3, StillPlaces
<1>6. ASSUME NEW x \in Reqs PROVE OwnedOK(x)'
  <2>1. OwnedOK(x)
    BY InvParts
  <2>2. CASE x = r
    BY <1>1, <1>2, <1>3, <2>1, <2>2 DEF OwnedOK, LifeOf, InUse, TypeOK
  <2>3. CASE x # r
    BY <1>1, <1>2, <1>3, <2>1, <2>3 DEF OwnedOK, LifeOf, InUse, TypeOK
  <2> QED
    BY <2>2, <2>3
<1> QED
  BY <1>4, <1>5, <1>6, InvNext

LEMMA NextIInv == IInv /\ [Next]_vars => IInv'
<1> SUFFICES ASSUME IInv, [Next]_vars PROVE IInv'
  OBVIOUS
<1>1. ASSUME NEW r \in Reqs,
             FsAsync(r) \/ ScandirAsync(r) \/ Getaddrinfo(r)
      PROVE  IInv'
  <2>1. PICK k \in Kinds : Submit(r, k) /\ k # "listing"
    BY <1>1 DEF FsAsync, ScandirAsync, Getaddrinfo, Kinds
  <2> QED
    BY <2>1, MakeStep DEF Submit
<1>2. ASSUME NEW r \in Reqs,
             IoRequest(r) \/ FsSync(r) \/ ScandirSync(r) \/ Refused(r)
      PROVE  IInv'
  <2>1. PICK k \in Kinds, st \in {"io", "idle"}, live \in BOOLEAN :
           /\ Setup(r, k, st, live) /\ wq' = wq
           /\ (st # "idle" => live) /\ (k = "listing" => st = "idle")
    <3>1. CASE IoRequest(r)
      BY <3>1 DEF IoRequest, Kinds
    <3>2. CASE FsSync(r)
      BY <3>2 DEF FsSync, Kinds
    <3>3. CASE ScandirSync(r)
      BY <3>3 DEF ScandirSync, Kinds
    <3>4. CASE Refused(r)
      BY <3>4 DEF Refused, Kinds
    <3> QED
      BY <1>2, <3>1, <3>2, <3>3, <3>4
  <2> QED
    BY <2>1, MakeStep
<1>3. CASE Crashed \/ UNCHANGED vars
  <2>1. UNCHANGED <<kind, uv, data, retyped, wq, worker, loopwq, local, current, calls,
                    collected, crashed>>
    BY <1>3 DEF Crashed, vars, queues
  <2> QED
    BY <2>1 DEF IInv, TypeOK, PlacesOK, WqOK, WorkersOK, DoneOK, LifeOK, LifeOf,
                KeptWhileInUse, ReleasedWhenServed, InUse
<1>4. CASE Lua
  BY <1>1, <1>2, <1>4, CancelStep, LuaStep, DieStep DEF Lua, CancelListing
<1>5. CASE Pool
  BY <1>5, TakeWorkStep, FinishWorkStep, DieStep DEF Pool
<1>6. CASE Loop
  BY <1>6, WorkDoneStep, PoolCallbackStep, IoCallbackStep, EndCallbackStep,
     DieStep DEF Loop
<1> QED
  BY <1>3, <1>4, <1>5, <1>6 DEF Next

LEMMA SpecIInv == Spec => []IInv
  BY InitIInv, NextIInv, PTL DEF Spec

-----------------------------------------------------------------------------

\* Every reachable state is well typed.
THEOREM TypeCorrect == Spec => []TypeOK
<1>1. IInv => TypeOK
  BY DEF IInv
<1> QED
  BY <1>1, SpecIInv, PTL

\* libuv, a worker thread and luv's callbacks never use a request whose
\* luv_req_t is gone or whose userdata the collector took, unless it was
\* cancelled (luv_req.c:106) or given to fs_scandir_next before its callback
\* returned (luv_fs.c:23); every other request, of any kind, is safe.
THEOREM NoUseAfterRelease == Spec => []KeptWhileInUse
<1>1. IInv => KeptWhileInUse
  BY DEF IInv
<1> QED
  BY <1>1, SpecIInv, PTL

\* Each continuation is called at most once, and the request is let go of
\* after it (luv_req_fulfill, luv_req_cleanup).
THEOREM ServedOnce == Spec => []ReleasedWhenServed
<1>1. IInv => ReleasedWhenServed
  BY DEF IInv
<1> QED
  BY <1>1, SpecIInv, PTL

\* A request is in at most one of the pool's queue, a worker, loop->wq and the
\* batch, and there once: uv_cancel and a worker cannot both get it.
THEOREM InOnePlace == Spec => []OnePlace
<1>1. IInv => OnePlace
  <2> SUFFICES ASSUME IInv, NEW r \in Reqs
               PROVE  /\ {p[1] : p \in Places(r)} \subseteq PlacesOf(uv[r])
                      /\ Cardinality(Places(r)) = IF PlacesOf(uv[r]) = {} THEN 0 ELSE 1
    BY DEF OnePlace
  <2> DEFINE Q == {i \in DOMAIN wq : wq[i] = r}
             W == {w \in Workers : worker[w] = r}
             R == {i \in DOMAIN loopwq : loopwq[i] = r}
             B == {i \in DOMAIN local : local[i] = r}
  <2>1. PlacesOK /\ TypeOK
    BY DEF IInv
  <2>2. Places(r) = ({"wq"} \X Q) \union ({"worker"} \X W)
                       \union ({"reported"} \X R) \union ({"batch"} \X B)
    BY DEF Places
  <2>3. /\ Has(wq, r) <=> Q # {}
        /\ Has(loopwq, r) <=> R # {}
        /\ Has(local, r) <=> B # {}
    BY DEF Has
  <2>4. /\ \A i, j \in Q : i = j
        /\ \A i, j \in W : i = j
        /\ \A i, j \in R : i = j
        /\ \A i, j \in B : i = j
    BY <2>1 DEF PlacesOK, WqOK, WorkersOK, DoneOK, Once
  <2>5. /\ Q # {} <=> uv[r] = "queued"
        /\ W # {} <=> uv[r] = "working"
        /\ (R # {} \/ B # {}) <=> uv[r] \in Done
        /\ ~(R # {} /\ B # {})
    BY <2>1, <2>3 DEF PlacesOK, WqOK, WorkersOK, DoneOK
  <2> HIDE DEF Q, W, R, B
  <2>6. ASSUME NEW name, NEW S, NEW i \in S, \A a, b \in S : a = b,
               Places(r) = {name} \X S, name \in PlacesOf(uv[r])
        PROVE  /\ {p[1] : p \in Places(r)} \subseteq PlacesOf(uv[r])
               /\ Cardinality(Places(r)) = IF PlacesOf(uv[r]) = {} THEN 0 ELSE 1
    <3>1. Places(r) = {<<name, i>>}
      BY <2>6
    <3>2. Cardinality(Places(r)) = 1
      BY <3>1, FS_Singleton
    <3> QED
      BY <2>6, <3>1, <3>2
  <2>7. CASE uv[r] = "queued"
    <3>1. PICK i \in Q : Places(r) = {"wq"} \X Q
      BY <2>2, <2>5, <2>7 DEF Done
    <3>2. "wq" \in PlacesOf(uv[r])
      BY <2>7 DEF PlacesOf
    <3> QED
      BY <2>4, <2>6, <3>1, <3>2
  <2>8. CASE uv[r] = "working"
    <3>1. PICK i \in W : Places(r) = {"worker"} \X W
      BY <2>2, <2>5, <2>8 DEF Done
    <3>2. "worker" \in PlacesOf(uv[r])
      BY <2>8 DEF PlacesOf
    <3> QED
      BY <2>4, <2>6, <3>1, <3>2
  <2>9. CASE uv[r] \in Done
    <3>1. "reported" \in PlacesOf(uv[r]) /\ "batch" \in PlacesOf(uv[r])
      BY <2>9 DEF PlacesOf, Done
    <3>2. Q = {} /\ W = {}
      BY <2>5, <2>9 DEF Done
    <3>3. CASE R # {}
      <4>1. PICK i \in R : Places(r) = {"reported"} \X R
        BY <2>2, <2>5, <3>2, <3>3
      <4> QED
        BY <2>4, <2>6, <3>1, <4>1
    <3>4. CASE B # {}
      <4>1. PICK i \in B : Places(r) = {"batch"} \X B
        BY <2>2, <2>5, <3>2, <3>4
      <4> QED
        BY <2>4, <2>6, <3>1, <4>1
    <3> QED
      BY <2>5, <2>9, <3>3, <3>4
  <2>10. CASE uv[r] \notin {"queued", "working"} \union Done
    <3>1. Places(r) = {}
      BY <2>2, <2>5, <2>10
    <3>2. PlacesOf(uv[r]) = {}
      BY <2>10 DEF PlacesOf, Done
    <3> QED
      BY <3>1, <3>2, FS_EmptySet
  <2> QED
    BY <2>7, <2>8, <2>9, <2>10
<1> QED
  BY <1>1, SpecIInv, PTL
==============================================================================
