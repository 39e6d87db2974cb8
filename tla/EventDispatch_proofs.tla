------------------------ MODULE EventDispatch_proofs ------------------------
(***************************************************************************)
(* Proofs about EventDispatch.tla, for every set of names and listeners    *)
(* and any number of registrations and events.                             *)
(***************************************************************************)
EXTENDS EventDispatch, SequenceTheorems, TLAPS

\* The walk's own state: nothing of it survives the dispatch.
WalkOK ==
    /\ running = None => ~incall /\ ~orphan
    /\ running # None => cursor >= 1
    /\ ~orphan => old = <<>>

IInv == TypeOK /\ MarkedIsListed /\ SnapshotDispatch /\ WalkOK

\* What RemoveAt, Lua's table.remove(list, i), does to a sequence.
LEMMA RemoveAtProps ==
    ASSUME NEW S, NEW s \in Seq(S), NEW i \in 1 .. Len(s)
    PROVE  /\ RemoveAt(s, i) \in Seq(S)
           /\ Len(RemoveAt(s, i)) = Len(s) - 1
           /\ \A k \in 1 .. Len(s) - 1 :
                 RemoveAt(s, i)[k] = IF k < i THEN s[k] ELSE s[k + 1]
  <1> DEFINE a == SubSeq(s, 1, i - 1)
             b == SubSeq(s, i + 1, Len(s))
  <1>1. a \in Seq(S) /\ Len(a) = i - 1 /\ \A k \in 1 .. i - 1 : a[k] = s[k]
    BY SubSeqProperties
  <1>2. b \in Seq(S) /\ Len(b) = Len(s) - i
        /\ \A k \in 1 .. Len(s) - i : b[k] = s[i + k]
    BY SubSeqProperties
  <1>3. RemoveAt(s, i) = a \o b
    BY DEF RemoveAt
  <1> HIDE DEF a, b
  <1>4. /\ a \o b \in Seq(S)
        /\ Len(a \o b) = Len(a) + Len(b)
        /\ \A k \in 1 .. Len(a) + Len(b) :
              (a \o b)[k] = IF k <= Len(a) THEN a[k] ELSE b[k - Len(a)]
    BY <1>1, <1>2, ConcatProperties
  <1> QED  BY <1>1, <1>2, <1>3, <1>4

LEMMA InitIInv == Init => IInv
  <1> SUFFICES ASSUME Init PROVE IInv
    OBVIOUS
  <1>1. TypeOK
    <2>1. incall \in BOOLEAN /\ orphan \in BOOLEAN
      BY Zenon DEF Init
    <2>2. list \in [Names -> Seq(Entry)] /\ mark \in [Names -> SUBSET Callbacks]
      BY DEF Init
    <2> QED  BY <2>1, <2>2, BoundsAreNat DEF Init, TypeOK
  <1>2. MarkedIsListed
    BY DEF Init, MarkedIsListed
  <1>3. SnapshotDispatch /\ WalkOK
    BY DEF Init, SnapshotDispatch, WalkOK
  <1> QED  BY <1>1, <1>2, <1>3 DEF IInv

\* The steps of registration and OnEvent leave the walk alone.
LEMMA AddEventStep ==
    ASSUME IInv, NEW n \in Names, NEW c \in Callbacks, NEW once \in BOOLEAN,
           AddEvent(n, c, once)
    PROVE  IInv'
  <1> DEFINE e == [callback |-> c, flag |-> once, id |-> adds]
  <1> USE DEF AddEvent, walk
  <1>0. e \in Entry
    BY BoundsAreNat DEF IInv, TypeOK, Entry
  <1> HIDE DEF e
  <1>1. /\ list' = [list EXCEPT ![n] = Append(@, e)]
        /\ mark' = [mark EXCEPT ![n] = @ \union {c}]
        /\ e.callback = c
    BY DEF e
  <1>2. \A m \in Names : list[m] \in Seq(Entry) /\ mark[m] \in SUBSET Callbacks
    BY DEF IInv, TypeOK
  <1>3. /\ Append(list[n], e) \in Seq(Entry)
        /\ Len(Append(list[n], e)) = Len(list[n]) + 1
        /\ \A i \in 1 .. Len(list[n]) : Append(list[n], e)[i] = list[n][i]
        /\ Append(list[n], e)[Len(list[n]) + 1] = e
    BY <1>0, <1>2, AppendProperties
  <1>4. TypeOK'
    <2>1. list' \in [Names -> Seq(Entry)] /\ mark' \in [Names -> SUBSET Callbacks]
      BY <1>1, <1>2, <1>3 DEF IInv, TypeOK
    <2>2. adds' \in 0 .. MaxAdds
      BY BoundsAreNat DEF IInv, TypeOK
    <2> QED  BY <2>1, <2>2 DEF IInv, TypeOK
  <1>5. MarkedIsListed'
    <2> SUFFICES ASSUME NEW m \in Names, NEW d \in mark'[m]
                 PROVE  \E i \in DOMAIN list'[m] : list'[m][i].callback = d
      BY DEF MarkedIsListed
    <2>1. CASE m = n /\ d = c
      <3>1. list'[m] = Append(list[n], e) /\ DOMAIN list'[m] = 1 .. Len(list[n]) + 1
        BY <1>1, <1>3, <2>1 DEF IInv, TypeOK
      <3> QED  BY <1>1, <1>2, <1>3, <2>1, <3>1
    <2>2. CASE ~(m = n /\ d = c)
      <3>1. d \in mark[m]
        BY <1>1, <2>2 DEF IInv, TypeOK
      <3>2. PICK i \in DOMAIN list[m] : list[m][i].callback = d
        BY <3>1 DEF IInv, MarkedIsListed
      <3>3. i \in DOMAIN list'[m] /\ list'[m][i] = list[m][i]
        BY <1>1, <1>2, <1>3, <3>2 DEF IInv, TypeOK
      <3> QED  BY <3>2, <3>3
    <2> QED  BY <2>1, <2>2
  <1>6. SnapshotDispatch'
    <2> SUFFICES ASSUME running # None PROVE SnapshotDispatch'
      BY DEF SnapshotDispatch
    <2>1. Left' = Left /\ Left \in Nat
      BY DEF Left, IInv, TypeOK, WalkOK
    <2>2. running \in Names
      BY DEF IInv, TypeOK
    <2>3. Left <= Len(Table)'
      BY <1>1, <1>2, <1>3, <2>1, <2>2 DEF Table, IInv, SnapshotDispatch, TypeOK
    <2>4. \A i \in 1 .. Left : Table'[i] = Table[i]
      BY <1>1, <1>2, <1>3, <2>1, <2>2 DEF Table, IInv, SnapshotDispatch, TypeOK
    <2> QED  BY <2>1, <2>3, <2>4 DEF IInv, SnapshotDispatch
  <1>7. WalkOK'
    BY DEF IInv, WalkOK
  <1> QED  BY <1>4, <1>5, <1>6, <1>7 DEF IInv

LEMMA DelEventStep ==
    ASSUME IInv, NEW n \in Names, NEW c \in Callbacks, DelEvent(n, c)
    PROVE  IInv'
  <1> USE DEF DelEvent, walk, IInv
  <1>1. TypeOK'
    BY DEF TypeOK
  <1>2. MarkedIsListed'
    <2> SUFFICES ASSUME NEW m \in Names, NEW d \in mark'[m] PROVE d \in mark[m]
      BY DEF MarkedIsListed
    <2> QED  BY DEF TypeOK
  <1>3. SnapshotDispatch' /\ WalkOK'
    BY DEF SnapshotDispatch, WalkOK, Left, Table
  <1> QED  BY <1>1, <1>2, <1>3

LEMMA OnEventStep ==
    ASSUME IInv, NEW n \in Names, OnEvent(n)
    PROVE  IInv'
  <1> USE DEF OnEvent, walk, IInv
  <1>1. TypeOK'
    BY BoundsAreNat DEF TypeOK
  <1>2. MarkedIsListed' /\ SnapshotDispatch' /\ WalkOK'
    BY DEF MarkedIsListed, SnapshotDispatch, WalkOK, Left, Table
  <1> QED  BY <1>1, <1>2

LEMMA DelAllEventStep ==
    ASSUME IInv, NEW S \in SUBSET Names, DelAllEvent(S)
    PROVE  IInv'
  <1> USE DEF DelAllEvent
  <1>1. TypeOK'
    <2>1. list' \in [Names -> Seq(Entry)] /\ mark' \in [Names -> SUBSET Callbacks]
      BY DEF IInv, TypeOK
    <2>2. orphan' \in BOOLEAN
      BY DEF IInv, TypeOK
    <2>3. old' \in Seq(Entry)
      BY DEF IInv, TypeOK
    <2> QED  BY <2>1, <2>2, <2>3 DEF IInv, TypeOK
  <1>2. MarkedIsListed'
    BY DEF IInv, MarkedIsListed
  <1>3. running # None => Table' = Table
    BY NoneIsNil DEF Table, IInv, TypeOK
  <1>4. SnapshotDispatch'
    BY <1>3 DEF IInv, SnapshotDispatch, Left
  <1>5. WalkOK'
    BY NoneIsNil DEF IInv, WalkOK, TypeOK
  <1> QED  BY <1>1, <1>2, <1>4, <1>5 DEF IInv

LEMMA BeginStep ==
    ASSUME IInv, Begin
    PROVE  IInv'
  <1> DEFINE n == Head(queue)
  <1> USE DEF Begin
  <1>1. n \in Names /\ Tail(queue) \in Seq(Names)
    BY DEF IInv, TypeOK
  <1>2. list[n] \in Seq(Entry) /\ (list[n] # <<>> => Len(list[n]) >= 1)
    BY <1>1 DEF IInv, TypeOK
  <1>3. ~incall /\ ~orphan /\ old = <<>>
    BY DEF IInv, WalkOK
  <1>4. TypeOK'
    <2>1. running' \in Names \union {None} /\ cursor' \in Nat
      BY <1>1, <1>2 DEF IInv, TypeOK
    <2>0. <<>> \in Seq(Entry)
      OBVIOUS
    <2>2. snapshot' \in Seq(Entry) /\ called' \in Seq(Entry)
      BY <1>1, <1>2, <2>0 DEF IInv, TypeOK
    <2> QED  BY <1>1, <2>1, <2>2 DEF IInv, TypeOK
  <1>5. MarkedIsListed'
    BY DEF IInv, MarkedIsListed
  <1>6. SnapshotDispatch'
    BY <1>1, <1>2, <1>3, NoneIsNil DEF SnapshotDispatch, Left, Table
  <1>7. WalkOK'
    BY <1>1, <1>2, <1>3, NoneIsNil DEF WalkOK
  <1> QED  BY <1>4, <1>5, <1>6, <1>7 DEF IInv

LEMMA EndStep ==
    ASSUME IInv, Return \/ Raise
    PROVE  IInv'
  <1> USE DEF Return, Raise, EndDispatch
  <1>1. TypeOK'
    <2>1. running' \in Names \union {None} /\ cursor' \in Nat
      BY DEF IInv, TypeOK
    <2>2. incall' \in BOOLEAN /\ orphan' \in BOOLEAN
      BY Zenon DEF IInv, TypeOK
    <2>0. <<>> \in Seq(Entry)
      OBVIOUS
    <2>3. old' \in Seq(Entry)
      BY <2>0 DEF IInv, TypeOK
    <2> QED  BY <2>1, <2>2, <2>3 DEF IInv, TypeOK
  <1>2. MarkedIsListed'
    BY DEF IInv, MarkedIsListed
  <1>3. SnapshotDispatch'
    BY DEF IInv, TypeOK, SnapshotDispatch, WalkOK, Left, Table
  <1>4. WalkOK'
    BY DEF IInv, TypeOK, WalkOK
  <1> QED  BY <1>1, <1>2, <1>3, <1>4 DEF IInv

\* The loop's body: the entry at cursor is called, and taken off the table
\* when it is a once-entry.
LEMMA CallStep ==
    ASSUME IInv, Call
    PROVE  IInv'
  <1> DEFINE e == Table[cursor]
  <1>1. /\ running \in Names /\ running # None /\ ~incall
        /\ Left = cursor /\ cursor \in Nat /\ cursor >= 1
        /\ running' = running /\ cursor' = cursor /\ orphan' = orphan
        /\ snapshot' = snapshot /\ called' = Append(called, e)
        /\ incall' = TRUE
    BY DEF Call, IInv, TypeOK, WalkOK, Left
  <1>2. Table \in Seq(Entry) /\ cursor \in 1 .. Len(Table) /\ e \in Entry
    BY <1>1 DEF IInv, TypeOK, SnapshotDispatch, Table
  <1>3. \A m \in Names : list[m] \in Seq(Entry) /\ mark[m] \in SUBSET Callbacks
    BY DEF IInv, TypeOK
  <1> DEFINE R == RemoveAt(Table, cursor)
  <1>4. /\ R \in Seq(Entry) /\ Len(R) = Len(Table) - 1
        /\ \A k \in 1 .. Len(Table) - 1 :
              R[k] = IF k < cursor THEN Table[k] ELSE Table[k + 1]
    BY <1>2, RemoveAtProps
  <1>5. \/ ~e.flag /\ UNCHANGED <<list, mark, old>>
        \/ e.flag /\ orphan /\ old' = R /\ UNCHANGED <<list, mark>>
        \/ /\ e.flag /\ ~orphan
           /\ list' = [list EXCEPT ![running] = R]
           /\ mark' = [mark EXCEPT ![running] = @ \ {e.callback}]
           /\ UNCHANGED old
    BY <1>1 DEF Call, TakeOff, Table
  <1>6. Table' = Table \/ Table' = R
    BY <1>1, <1>3, <1>5 DEF Table, IInv, TypeOK
  <1> HIDE DEF e, R
  <1>7. TypeOK'
    <2>1. list' \in [Names -> Seq(Entry)]
      BY <1>1, <1>4, <1>5 DEF IInv, TypeOK
    <2>2. mark' \in [Names -> SUBSET Callbacks]
      BY <1>1, <1>3, <1>5 DEF IInv, TypeOK
    <2>3. old' \in Seq(Entry)
      BY <1>4, <1>5 DEF IInv, TypeOK
    <2>4. called' \in Seq(Entry)
      BY <1>1, <1>2, AppendProperties DEF IInv, TypeOK
    <2>5. incall' \in BOOLEAN /\ orphan' \in BOOLEAN
      BY <1>1, Zenon DEF IInv, TypeOK
    <2>6. spent' \subseteq Nat /\ UNCHANGED <<adds, queue, posts>>
      BY <1>2 DEF Call, IInv, TypeOK, Entry, e
    <2> QED  BY <1>1, <2>1, <2>2, <2>3, <2>4, <2>5, <2>6 DEF IInv, TypeOK
  <1>8. MarkedIsListed'
    <2>1. CASE UNCHANGED <<list, mark>>
      BY <2>1 DEF IInv, MarkedIsListed
    <2>2. CASE /\ ~orphan
               /\ list' = [list EXCEPT ![running] = R]
               /\ mark' = [mark EXCEPT ![running] = @ \ {e.callback}]
      <3> SUFFICES ASSUME NEW m \in Names, NEW d \in mark'[m]
                   PROVE  \E i \in DOMAIN list'[m] : list'[m][i].callback = d
        BY DEF MarkedIsListed
      <3>1. d \in mark[m] /\ (m = running => d # e.callback)
        BY <2>2 DEF IInv, TypeOK
      <3>2. PICK i \in DOMAIN list[m] : list[m][i].callback = d
        BY <3>1 DEF IInv, MarkedIsListed
      <3>3. CASE m # running
        BY <2>2, <3>2, <3>3 DEF IInv, TypeOK
      <3>4. CASE m = running
        <4>1. list'[m] = R /\ list[m] = Table
          BY <2>2, <3>4 DEF IInv, TypeOK, Table
        <4>2. i \in 1 .. Len(Table) /\ i # cursor
          BY <1>2, <3>1, <3>2, <3>4, <4>1 DEF e
        <4>3. DOMAIN R = 1 .. Len(Table) - 1
          BY <1>4
        <4> DEFINE j == IF i < cursor THEN i ELSE i - 1
        <4>4. j \in 1 .. Len(Table) - 1 /\ R[j] = Table[i]
          <5>1. i \in Nat /\ cursor \in Nat /\ Len(Table) \in Nat /\ cursor <= Len(Table)
            BY <1>2, <4>2
          <5>2. CASE i < cursor
            <6>1. i \in 1 .. Len(Table) - 1
              BY <4>2, <5>1, <5>2
            <6> QED  BY <1>4, <5>2, <6>1
          <5>3. CASE i > cursor
            <6>1. i - 1 \in 1 .. Len(Table) - 1 /\ ~(i - 1 < cursor) /\ ~(i < cursor)
              BY <1>1, <4>2, <5>1, <5>3
            <6>2. (i - 1) + 1 = i
              BY <5>1
            <6>3. R[i - 1] = Table[(i - 1) + 1]
              BY <1>4, <6>1
            <6> QED  BY <6>1, <6>2, <6>3
          <5> QED  BY <4>2, <5>1, <5>2, <5>3
        <4> QED  BY <3>2, <4>1, <4>3, <4>4
      <3> QED  BY <3>3, <3>4
    <2> QED  BY <1>5, <2>1, <2>2
  <1>9. SnapshotDispatch'
    <2>1. Left' = cursor - 1
      BY <1>1 DEF Left
    <2>2. cursor - 1 <= Len(Table') /\ \A i \in 1 .. cursor - 1 : Table'[i] = Table[i]
      BY <1>1, <1>2, <1>4, <1>6
    <2>3. /\ \A i \in 1 .. cursor : Table[i] = snapshot[i]
          /\ Len(called) + cursor = Len(snapshot)
          /\ \A k \in DOMAIN called : called[k] = snapshot[Len(snapshot) + 1 - k]
      BY <1>1 DEF IInv, SnapshotDispatch
    <2>4. called \in Seq(Entry) /\ snapshot \in Seq(Entry)
      BY DEF IInv, TypeOK
    <2>5. /\ Len(called') = Len(called) + 1
          /\ \A k \in 1 .. Len(called) : called'[k] = called[k]
          /\ called'[Len(called) + 1] = e
      BY <1>1, <1>2, <2>4, AppendProperties
    <2>6. e = snapshot[cursor] /\ cursor = Len(snapshot) + 1 - (Len(called) + 1)
      BY <1>1, <2>3, <2>4 DEF e
    <2>7. called' \in Seq(Entry)
      BY <1>7 DEF TypeOK
    <2>8. \A k \in DOMAIN called' : called'[k] = snapshot[Len(snapshot) + 1 - k]
      <3> SUFFICES ASSUME NEW k \in DOMAIN called'
                   PROVE  called'[k] = snapshot[Len(snapshot) + 1 - k]
        OBVIOUS
      <3>1. k \in 1 .. Len(called) + 1 /\ Len(called) \in Nat
        BY <2>4, <2>5, <2>7
      <3>2. CASE k = Len(called) + 1
        BY <2>5, <2>6, <3>2
      <3>3. CASE k \in 1 .. Len(called)
        BY <2>3, <2>4, <2>5, <3>3
      <3> QED  BY <3>1, <3>2, <3>3
    <2> QED  BY <1>1, <2>1, <2>2, <2>3, <2>4, <2>5, <2>8 DEF SnapshotDispatch
  <1>10. WalkOK'
    BY <1>1, <1>5 DEF IInv, WalkOK
  <1> QED  BY <1>7, <1>8, <1>9, <1>10 DEF IInv

LEMMA NextIInv == IInv /\ [Next]_vars => IInv'
  <1> SUFFICES ASSUME IInv, [Next]_vars PROVE IInv'
    OBVIOUS
  <1>1. ASSUME NEW n \in Names, NEW c \in Callbacks, NEW once \in BOOLEAN,
               AddEvent(n, c, once)
        PROVE  IInv'
    BY <1>1, AddEventStep
  <1>2. ASSUME NEW n \in Names, NEW c \in Callbacks, DelEvent(n, c)
        PROVE  IInv'
    BY <1>2, DelEventStep
  <1>3. ASSUME NEW n \in Names, DelAllEvent({n})
        PROVE  IInv'
    BY <1>3, DelAllEventStep
  <1>4. ASSUME NEW n \in Names, OnEvent(n)
        PROVE  IInv'
    BY <1>4, OnEventStep
  <1>5. CASE DelAllEvent(Names)
    BY <1>5, DelAllEventStep
  <1>6. CASE Begin
    BY <1>6, BeginStep
  <1>7. CASE Call
    BY <1>7, CallStep
  <1>8. CASE Return \/ Raise
    BY <1>8, EndStep
  <1>9. CASE UNCHANGED vars
    BY <1>9 DEF vars, walk, IInv, TypeOK, MarkedIsListed, SnapshotDispatch,
                WalkOK, Left, Table
  <1> QED  BY <1>1, <1>2, <1>3, <1>4, <1>5, <1>6, <1>7, <1>8, <1>9 DEF Next

LEMMA SpecIInv == Spec => []IInv
  BY InitIInv, NextIInv, PTL DEF Spec

\* The registries of an object are well-formed at every moment.
THEOREM TypeCorrect == Spec => []TypeOK
  <1>1. IInv => TypeOK
    BY DEF IInv
  <1> QED  BY <1>1, SpecIInv, PTL

\* AddEvent (class.lua:574) never refuses a listener that is not in the list.
THEOREM NoListenerRefused == Spec => []MarkedIsListed
  <1>1. IInv => MarkedIsListed
    BY DEF IInv
  <1> QED  BY <1>1, SpecIInv, PTL

\* DispatchEvent (class.lua:623-635) goes through exactly the entries the
\* table had when it began, latest first and each once, although the listeners
\* change the table while it walks it.  The entries DelEvent has left behind
\* are among them.
THEOREM DispatchSeesSnapshot == Spec => []SnapshotDispatch
  <1>1. IInv => SnapshotDispatch
    BY DEF IInv
  <1> QED  BY <1>1, SpecIInv, PTL

-----------------------------------------------------------------------------
(* Once-listeners.                                                         *)

\* The tables that hold entries: the lists by name and, under None, the table
\* that a dispatch keeps walking after DelAllEvent.
Places == Names \union {None}
At(p) == IF p = None THEN old ELSE list[p]

\* An entry is in one place of one table, and a once-entry that is still in a
\* table was not called.
Unspent ==
    /\ \A p \in Places : \A i \in DOMAIN At(p) :
          /\ At(p)[i].id < adds
          /\ At(p)[i].flag => At(p)[i].id \notin spent
          /\ \A q \in Places : \A j \in DOMAIN At(q) :
                At(p)[i].id = At(q)[j].id => p = q /\ i = j
    /\ \A x \in spent : x < adds

OnceInv == IInv /\ Unspent


LEMMA AtTyped ==
    ASSUME TypeOK, NEW p \in Places
    PROVE  /\ At(p) \in Seq(Entry) /\ Len(At(p)) \in Nat
           /\ DOMAIN At(p) = 1 .. Len(At(p))
           /\ \A i \in DOMAIN At(p) : At(p)[i] \in Entry /\ At(p)[i].id \in Nat
  <1>1. At(p) \in Seq(Entry)
    BY DEF TypeOK, Places, At
  <1>2. Len(At(p)) \in Nat /\ DOMAIN At(p) = 1 .. Len(At(p))
    BY <1>1, LenProperties
  <1>3. \A i \in DOMAIN At(p) : At(p)[i] \in Entry
    BY <1>1, <1>2, ElementOfSeq
  <1> QED  BY <1>1, <1>2, <1>3 DEF Entry

\* Tables that are emptied, and none that is written: the rest is as before.
LEMMA DroppedUnspent ==
    ASSUME Unspent, \A p \in Places : At(p)' = At(p) \/ At(p)' = <<>>,
           UNCHANGED <<adds, spent>>
    PROVE  Unspent'
  <1>1. \A p \in Places : \A i \in DOMAIN At(p)' :
           i \in DOMAIN At(p) /\ At(p)'[i] = At(p)[i]
    OBVIOUS
  <1> QED  BY <1>1 DEF Unspent

LEMMA AddEventUnspent ==
    ASSUME OnceInv, NEW n \in Names, NEW c \in Callbacks, NEW once \in BOOLEAN,
           AddEvent(n, c, once)
    PROVE  Unspent'
  <1>1. TypeOK /\ Unspent /\ adds \in Nat /\ n \in Places /\ n # None
    BY NoneIsNil, BoundsAreNat DEF OnceInv, IInv, TypeOK, Places
  <1>2. PICK e \in Entry : e = [callback |-> c, flag |-> once, id |-> adds]
    BY <1>1 DEF Entry
  <1>3. e.id = adds
    BY <1>2
  <1>4. /\ adds' = adds + 1 /\ spent' = spent /\ old' = old
        /\ list' = [list EXCEPT ![n] = Append(@, e)]
    BY <1>2 DEF AddEvent, walk
  <1>5. \A p \in Places : p # n => At(p)' = At(p)
    BY <1>1, <1>4 DEF At, TypeOK, Places
  <1>6. At(n)' = Append(At(n), e)
    BY <1>1, <1>4 DEF At, TypeOK
  <1>7. /\ DOMAIN At(n)' = 1 .. Len(At(n)) + 1
        /\ \A i \in 1 .. Len(At(n)) : At(n)'[i] = At(n)[i]
        /\ At(n)'[Len(At(n)) + 1] = e
        /\ DOMAIN At(n) = 1 .. Len(At(n)) /\ Len(At(n)) \in Nat
    <2>1. At(n) \in Seq(Entry)
      BY <1>1, AtTyped
    <2> HIDE DEF At
    <2> QED  BY <1>6, <2>1, AppendProperties, LenProperties
  <1> DEFINE New(p, i) == p = n /\ i = Len(At(n)) + 1
  <1>8. \A p \in Places : \A i \in DOMAIN At(p)' :
           \/ New(p, i) /\ At(p)'[i] = e
           \/ ~New(p, i) /\ i \in DOMAIN At(p) /\ At(p)'[i] = At(p)[i]
    BY <1>5, <1>7
  <1>9. \A p \in Places : \A i \in DOMAIN At(p) :
           At(p)[i].id \in Nat /\ At(p)[i].id < adds
    BY <1>1, AtTyped DEF Unspent
  <1>10. \A x \in spent : x \in Nat /\ x < adds
    BY <1>1 DEF Unspent, TypeOK
  <1>11. ASSUME NEW p \in Places, NEW i \in DOMAIN At(p)'
         PROVE  /\ At(p)'[i].id < adds'
                /\ At(p)'[i].flag => At(p)'[i].id \notin spent'
    BY <1>1, <1>3, <1>4, <1>8, <1>9, <1>10 DEF Unspent
  <1>12. ASSUME NEW p \in Places, NEW i \in DOMAIN At(p)',
                NEW q \in Places, NEW j \in DOMAIN At(q)',
                At(p)'[i].id = At(q)'[j].id
         PROVE  p = q /\ i = j
    <2>1. CASE New(p, i) /\ New(q, j)
      BY <2>1
    <2>2. CASE New(p, i) /\ ~New(q, j)
      BY <1>1, <1>3, <1>8, <1>9, <1>12, <2>2
    <2>3. CASE ~New(p, i) /\ New(q, j)
      BY <1>1, <1>3, <1>8, <1>9, <1>12, <2>3
    <2>4. CASE ~New(p, i) /\ ~New(q, j)
      BY <1>1, <1>8, <1>12, <2>4 DEF Unspent
    <2> QED  BY <2>1, <2>2, <2>3, <2>4
  <1>13. \A x \in spent' : x < adds'
    BY <1>1, <1>4, <1>10
  <1> QED  BY <1>11, <1>12, <1>13 DEF Unspent

\* The table under a dispatch moves from its name to None.
LEMMA DelAllEventUnspent ==
    ASSUME OnceInv, NEW S \in SUBSET Names, DelAllEvent(S)
    PROVE  Unspent'
  <1>1. TypeOK /\ Unspent /\ WalkOK
    BY DEF OnceInv, IInv
  <1>2. /\ list' = [n \in Names |-> IF n \in S THEN <<>> ELSE list[n]]
        /\ UNCHANGED <<adds, spent>>
    BY DEF DelAllEvent
  <1>3. CASE ~(running \in S /\ ~orphan)
    <2>1. \A p \in Places : At(p)' = At(p) \/ At(p)' = <<>>
      BY <1>2, <1>3, NoneIsNil DEF DelAllEvent, At, Places
    <2> QED  BY <1>1, <1>2, <2>1, DroppedUnspent
  <1>4. CASE running \in S /\ ~orphan
    <2>1. PICK r \in Names : r = running /\ r \in S /\ r # None /\ r \in Places
      BY <1>4, NoneIsNil DEF Places
    <2>2. /\ At(None)' = At(r) /\ At(r)' = <<>> /\ At(None) = <<>>
          /\ \A p \in Names : At(p)' = At(p) \/ At(p)' = <<>>
      BY <1>1, <1>2, <1>4, <2>1, NoneIsNil DEF DelAllEvent, At, WalkOK
    <2>3. \A p \in Places : \A i \in DOMAIN At(p)' :
             \/ p = None /\ i \in DOMAIN At(r) /\ At(p)'[i] = At(r)[i]
             \/ /\ p # None /\ p # r
                /\ i \in DOMAIN At(p) /\ At(p)'[i] = At(p)[i]
      <3> HIDE DEF At
      <3> QED  BY <2>1, <2>2, NoneIsNil DEF Places
    <2> HIDE DEF At
    <2>4. ASSUME NEW p \in Places, NEW i \in DOMAIN At(p)'
          PROVE  /\ At(p)'[i].id < adds
                 /\ At(p)'[i].flag => At(p)'[i].id \notin spent
      BY <1>1, <2>1, <2>3 DEF Unspent
    <2>5. ASSUME NEW p \in Places, NEW i \in DOMAIN At(p)',
                 NEW q \in Places, NEW j \in DOMAIN At(q)',
                 At(p)'[i].id = At(q)'[j].id
          PROVE  p = q /\ i = j
      BY <1>1, <2>1, <2>3, <2>5 DEF Unspent
    <2> QED  BY <1>1, <1>2, <2>4, <2>5 DEF Unspent
  <1> QED  BY <1>3, <1>4

\* A called once-entry was not called before, and is in no table after.
LEMMA CallUnspent ==
    ASSUME OnceInv, Call
    PROVE  /\ Unspent'
           /\ Table[cursor].flag => Table[cursor].id \notin spent
  <1>1. TypeOK /\ Unspent /\ running \in Names /\ running # None
        /\ cursor \in 1 .. Len(Table) /\ cursor' = cursor
    BY DEF OnceInv, IInv, TypeOK, WalkOK, SnapshotDispatch, Left, Call
  <1>2. PICK r \in Places : r = IF orphan THEN None ELSE running
    BY <1>1 DEF Places
  <1>3. Table = At(r) /\ DOMAIN At(r) = 1 .. Len(At(r)) /\ cursor \in DOMAIN At(r)
        /\ At(r) \in Seq(Entry)
    BY <1>1, <1>2, AtTyped DEF Table, At
  <1>4. PICK e \in Entry : e = Table[cursor] /\ e = At(r)[cursor]
    BY <1>1, <1>3, AtTyped
  <1>5. e.flag => e.id \notin spent
    BY <1>1, <1>3, <1>4 DEF Unspent
  <1>6. e.id < adds /\ adds' = adds /\ spent \subseteq Nat
    BY <1>1, <1>3, <1>4 DEF Unspent, Call, TypeOK
  <1>7. CASE ~e.flag
    <2>1. UNCHANGED <<list, old, adds, spent>>
      BY <1>4, <1>7 DEF Call
    <2> QED  BY <1>1, <1>4, <1>5, <2>1, DroppedUnspent DEF At
  <1>8. CASE e.flag
    <2> DEFINE R == RemoveAt(At(r), cursor)
               B == At(r)
    <2>1. TakeOff(cursor) /\ spent' = spent \union {e.id}
      BY <1>4, <1>8 DEF Call
    <2>2. At(r)' = R /\ \A p \in Places : p # r => At(p)' = At(p)
      BY <1>1, <1>2, <2>1 DEF TakeOff, At, Places, TypeOK
    <2>3. /\ R \in Seq(Entry) /\ Len(R) = Len(B) - 1
          /\ \A k \in 1 .. Len(B) - 1 :
                R[k] = IF k < cursor THEN B[k] ELSE B[k + 1]
      <3> HIDE DEF At
      <3> QED  BY <1>3, RemoveAtProps
    <2>4. Len(B) \in Nat /\ DOMAIN R = 1 .. Len(B) - 1
      BY <1>3, <2>3
    <2> DEFINE was(p, i) == IF p # r \/ i < cursor THEN i ELSE i + 1
    <2>5. ASSUME NEW p \in Places, NEW i \in DOMAIN At(p)'
          PROVE  /\ was(p, i) \in DOMAIN At(p) /\ At(p)'[i] = At(p)[was(p, i)]
                 /\ p = r => was(p, i) # cursor /\ i \in Nat
      <3>1. CASE p # r
        BY <2>2, <3>1
      <3>2. CASE p = r
        <4>1. At(p)' = R /\ i \in 1 .. Len(B) - 1
          BY <2>2, <2>4, <3>2
        <4> HIDE DEF R
        <4>2. At(p)'[i] = B[was(p, i)]
          BY <2>3, <3>2, <4>1
        <4>3. was(p, i) \in 1 .. Len(B) /\ was(p, i) # cursor
          BY <1>1, <1>3, <2>4, <3>2, <4>1
        <4> QED  BY <1>3, <3>2, <4>1, <4>2, <4>3
      <3> QED  BY <3>1, <3>2
    <2> HIDE DEF R
    <2>6. ASSUME NEW p \in Places, NEW i \in DOMAIN At(p)'
          PROVE  At(p)'[i].id < adds /\ At(p)'[i].id \notin {e.id}
                 /\ (At(p)'[i].flag => At(p)'[i].id \notin spent)
      <3>1. /\ was(p, i) \in DOMAIN At(p) /\ At(p)'[i] = At(p)[was(p, i)]
            /\ p = r => was(p, i) # cursor
        BY <2>5
      <3> HIDE DEF was
      <3> QED  BY <1>1, <1>3, <1>4, <3>1 DEF Unspent
    <2>7. ASSUME NEW p \in Places, NEW i \in DOMAIN At(p)',
                 NEW q \in Places, NEW j \in DOMAIN At(q)',
                 At(p)'[i].id = At(q)'[j].id
          PROVE  p = q /\ i = j
      <3>1. /\ was(p, i) \in DOMAIN At(p) /\ At(p)'[i] = At(p)[was(p, i)]
            /\ was(q, j) \in DOMAIN At(q) /\ At(q)'[j] = At(q)[was(q, j)]
        BY <2>5
      <3>2. p = q /\ was(p, i) = was(q, j)
        <4> HIDE DEF was
        <4> QED  BY <1>1, <2>7, <3>1 DEF Unspent
      <3>3. CASE p = r
        <4>1. i \in Nat /\ j \in Nat /\ cursor \in Nat
          BY <1>1, <2>5, <3>2, <3>3
        <4> QED  BY <3>2, <3>3, <4>1
      <3> QED  BY <3>2, <3>3
    <2>8. \A x \in spent' : x < adds
      BY <1>1, <1>6, <2>1 DEF Unspent
    <2> QED  BY <1>4, <1>5, <1>6, <2>1, <2>6, <2>7, <2>8 DEF Unspent
  <1> QED  BY <1>7, <1>8

LEMMA NextOnce == OnceInv /\ [Next]_vars => OnceInv'
  <1> SUFFICES ASSUME OnceInv, [Next]_vars PROVE Unspent'
    BY NextIInv DEF OnceInv
  <1>1. ASSUME list' = list, old' \in {old, <<>>}, UNCHANGED <<adds, spent>>
        PROVE  Unspent'
    <2>1. \A p \in Places : At(p)' = At(p) \/ At(p)' = <<>>
      BY <1>1 DEF At
    <2> QED  BY <1>1, <2>1, DroppedUnspent DEF OnceInv
  <1>2. ASSUME NEW n \in Names, NEW c \in Callbacks, DelEvent(n, c) PROVE Unspent'
    BY <1>1, <1>2 DEF DelEvent, walk
  <1>3. ASSUME NEW n \in Names, OnEvent(n) PROVE Unspent'
    BY <1>1, <1>3 DEF OnEvent, walk
  <1>4. CASE Begin \/ Return \/ Raise \/ UNCHANGED vars
    BY <1>1, <1>4 DEF Begin, Return, Raise, EndDispatch, vars, walk
  <1>5. ASSUME NEW n \in Names, DelAllEvent({n}) PROVE Unspent'
    BY <1>5, DelAllEventUnspent
  <1>6. CASE DelAllEvent(Names)
    BY <1>6, DelAllEventUnspent
  <1> QED  BY <1>2, <1>3, <1>4, <1>5, <1>6, AddEventUnspent, CallUnspent DEF Next

\* A once-listener is called at most once for each OnceEvent (class.lua:624):
\* also when it registers itself again from its own call, when a listener of
\* the same dispatch drops the lists, and when a listener raises an error.
THEOREM OnceListenersOnce == Spec => OnceIsOnce
  <1> DEFINE A == Len(called') > Len(called) /\ called'[Len(called')].flag
                    => called'[Len(called')].id \notin spent
  <1>1. Init => OnceInv
    <2>1. Init => Unspent
      <3> SUFFICES ASSUME Init PROVE Unspent
        OBVIOUS
      <3>1. (\A p \in Places : DOMAIN At(p) = {}) /\ spent = {}
        BY DEF Init, At, Places
      <3> QED  BY <3>1 DEF Unspent
    <2> QED  BY <2>1, InitIInv DEF OnceInv
  <1>2. OnceInv /\ [Next]_vars => [A]_vars
    <2> SUFFICES ASSUME OnceInv, Next, Len(called') > Len(called)
                 PROVE  called'[Len(called')].flag => called'[Len(called')].id \notin spent
      OBVIOUS
    <2>1. called \in Seq(Entry) /\ Len(called) \in Nat
      BY DEF OnceInv, IInv, TypeOK
    <2>2. called' # called /\ called' # <<>>
      BY <2>1
    <2>3. CASE Call
      <3>1. Table[cursor] \in Entry /\ called' = Append(called, Table[cursor])
        BY <2>3 DEF Call, OnceInv, IInv, TypeOK, WalkOK, SnapshotDispatch, Left, Table
      <3>2. called'[Len(called')] = Table[cursor]
        BY <2>1, <3>1, AppendProperties
      <3> QED  BY <2>3, <3>2, CallUnspent
    <2>4. ~(Begin \/ Return \/ Raise)
      BY <2>2 DEF Begin, Return, Raise
    <2>5. \A S : ~DelAllEvent(S)
      BY <2>2 DEF DelAllEvent
    <2>6. \A n \in Names : ~OnEvent(n) /\ \A c \in Callbacks :
             ~DelEvent(n, c) /\ \A once \in BOOLEAN : ~AddEvent(n, c, once)
      BY <2>2 DEF OnEvent, DelEvent, AddEvent, walk
    <2> QED  BY <2>3, <2>4, <2>5, <2>6 DEF Next
  <1>3. OnceIsOnce <=> [][A]_vars
    BY DEF OnceIsOnce
  <1> QED  BY <1>1, <1>2, <1>3, NextOnce, PTL DEF Spec
=============================================================================
