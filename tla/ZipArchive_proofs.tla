------------------------- MODULE ZipArchive_proofs -------------------------
(***************************************************************************)
(* Proofs about ZipArchive, for every supported use: names and contents,   *)
(* alignment, reserved bytes, stubs and faults.                            *)
(*                                                                         *)
(* The invariant describes the bytes of the writer at every step of a      *)
(* call: each directory header points below zip.size to a member that is   *)
(* whole, the call under way has written so much above it, and no end      *)
(* record lies where a reader would take it for the archive's.  The file   *)
(* is an archive sealed by its last end record except while an append is   *)
(* writing, and an open reader's members all lie below what an append      *)
(* writes.                                                                 *)
(***************************************************************************)
EXTENDS ZipArchive, TLAPS

IsBytes(b) == b \in Seq({b[i] : i \in DOMAIN b})

Mine(u) == u.contents \union u.appended

Headers(u) ==
    [t : {"central"}, name : u.names, method : {"stored", "deflated"}, csize : Nat,
     usize : Nat, ofs : Nat]

\* The member of header h lies at offset at, with content c.
HoldsAt(b, h, at, c) ==
    /\ at \in Nat /\ at + 2 + h.csize <= Len(b)
    /\ b[at + 1].t = "local" /\ b[at + 2].t # "end"
    /\ h.usize = Len(c)
    /\ IF h.method = "stored"
       THEN h.csize = Len(c) /\ \A k \in 1 .. Len(c) : b[at + 2 + k] = c[k]
       ELSE h.csize = 1 /\ b[at + 3] = [t |-> "deflate", of |-> c]

\* Every member of a directory is whole and lies below the floor.
Placed(u, b, dir, start, floor) ==
    \A i \in DOMAIN dir :
        /\ start + dir[i].ofs + 2 + dir[i].csize <= floor
        /\ \E c \in Mine(u) : HoldsAt(b, dir[i], start + dir[i].ofs, c)

\* What lies below the floor is the same in both.
Agree(a, b, floor) == \A i \in 1 .. Len(a) : i <= floor => i <= Len(b) /\ b[i] = a[i]

\* The last end record is at e; it counts n members behind a stub of s.
Sealed(u, b, e, n, s) ==
    /\ e \in 1 .. Len(b) /\ n \in Nat /\ s \in Nat /\ n + s < e
    /\ b[e] = EndRecord(n, n, e - 1 - n - s)
    /\ \A i \in e + 1 .. Len(b) : b[i].t # "end"
    /\ Cells(b, e - 1 - n, n) \in Seq(Headers(u))
    /\ Placed(u, b, Cells(b, e - 1 - n, n), s, e - 1 - n)

-----------------------------------------------------------------------------

\* The call of the writer that is under way.
CallOK ==
    /\ call.op = "none" => call = NoCall
    /\ inplace = NotInPlace =>
          /\ call.op \in {"none", "mem", "copy", "final"}
          /\ zip.on = "heap"
          /\ call.op # "none" => zip.mode = "writing"
    /\ inplace # NotInPlace =>
          /\ inplace.kind \in {"append", "create"} /\ use.appended # {} /\ exists
          /\ inplace.name \in use.names /\ inplace.content \in use.appended
          /\ zip.on = "file"
          /\ \/ call.op \in {"opened", "mem", "final"} /\ zip.mode = "writing"
             \/ call.op = "return" /\ call.step = "opened" /\ ~call.ok
             \/ call.op = "return" /\ call.step = "mem" /\ call.ok /\ zip.mode = "writing"
             \/ call.op = "return" /\ call.step = "final" /\ call.ok /\ zip.mode = "finalized"
          /\ call.op = "mem" => call.name = inplace.name /\ call.content = inplace.content
          /\ inplace.kind = "create" => rd.mode = "invalid" /\ truth = <<>>

\* The writer's archive.
WriterOK ==
    /\ zip \in [mode : {"invalid", "writing", "finalized"}, on : {"heap", "file"}, size : Nat,
               total : Nat, dir : Seq(Headers(use)), room : SUBSET Arrays]
    /\ zip.total = Len(zip.dir)
    /\ Placed(use, Bytes, zip.dir, 0, zip.size)

\* What an addition has written so far.
MemOK ==
    call.op = "mem" =>
        /\ call \in [op : {"mem"}, step : {"zeros", "name", "data", "local", "central"},
                    name : use.names, content : Mine(use), method : {"stored", "deflated"}, ofs : Nat]
        /\ call.ofs = zip.size + Padding /\ zip.room = Arrays
        /\ call.step \in {"data", "local", "central"} =>
              Len(Bytes) >= call.ofs + 2 /\ Bytes[call.ofs + 2].t # "end"
        /\ call.step \in {"local", "central"} =>
              /\ Len(Bytes) >= call.ofs + 2 + Len(DataOf(call))
              /\ \A k \in 1 .. Len(DataOf(call)) : Bytes[call.ofs + 2 + k] = DataOf(call)[k]
        /\ call.step = "central" => Bytes[call.ofs + 1].t = "local"

\* What a copy has written so far.
CopyOK ==
    call.op = "copy" =>
        /\ call \in [op : {"copy"}, step : {"header", "body", "central"}, index : Nat, from : Nat,
                    head : Headers(use), ofs : Nat]
        /\ rd.mode = "reading" /\ call.index \in DOMAIN rd.dir
        /\ call.head = rd.dir[call.index] /\ call.from = LocalHeaderOfs(rd, call.index)
        /\ call.ofs = zip.size + Padding
        /\ call.step = "body" => Len(heap) >= call.ofs + 1 /\ heap[call.ofs + 1].t = "local"
        /\ call.step = "central" => HoldsAt(heap, call.head, call.ofs, seen[call.index].content)

\* What a finalization has written so far, and the finalized archive.
FinalOK ==
    /\ call.op = "final" => call \in [op : {"final"}, step : {"dir", "end"}, dofs : Nat, dsize : Nat]
    /\ call.op = "final" /\ call.step = "dir" => call.dofs = 0 /\ call.dsize = 0
    /\ call.op = "final" /\ call.step = "end" =>
          /\ call.dsize = zip.total
          /\ call.dofs = (IF zip.total = 0 THEN 0 ELSE zip.size - zip.total)
          /\ zip.total <= zip.size /\ (zip.total > 0 => zip.size <= Len(Bytes))
          /\ \A i \in 1 .. zip.total : Bytes[zip.size - zip.total + i] = zip.dir[i]
          /\ Placed(use, Bytes, zip.dir, 0, zip.size - zip.total)
    /\ zip.mode = "finalized" =>
          /\ Sealed(use, Bytes, zip.size, zip.total, IF zip.total = 0 THEN zip.size - 1 ELSE 0)
          /\ Cells(Bytes, zip.size - 1 - zip.total, zip.total) = zip.dir

\* Above the data that a call is adding nothing looks like an end record.
Edge ==
    IF call.op = "final" /\ call.step = "end" THEN zip.size + 1 ELSE zip.size + zip.total + 1
Adding ==
    IF call.op = "mem" /\ call.step \in {"local", "central"} THEN call.ofs + 2 + Len(DataOf(call))
    ELSE IF call.op = "copy" /\ call.step = "central" /\ "alloc" \notin use.faults
    THEN call.ofs + 2 + call.head.csize
    ELSE 0
NoStray ==
    zip.mode = "writing" =>
        \A i \in 1 .. Len(Bytes) : i > Edge /\ i > Adding => Bytes[i].t # "end"

\* The file is whole, but for an append that is writing.
Intact ==
    \/ inplace = NotInPlace
    \/ inplace.kind = "append" /\ (call.op = "opened" \/ (call.op = "return" /\ ~call.ok))
FileOK ==
    exists /\ Intact =>
        \E e \in 1 .. Len(file), n \in 0 .. Len(file), s \in 0 .. Len(file) :
            /\ Sealed(use, file, e, n, s)
            /\ use.appended # {} => n = 0 \/ s = 0
            /\ rd.mode = "reading" => rd.dofs <= e - 1 - n
            /\ Members(file, ReadCentralDir(file)) = truth

\* The end of the members that the writer had.
Floor ==
    IF zip.mode = "finalized" THEN zip.size - 1 - zip.total
    ELSE IF call.op = "final" /\ call.step = "end" THEN zip.size - zip.total ELSE zip.size
ReaderOK ==
    /\ rd.mode \in {"invalid", "reading"}
    /\ rd.mode = "reading" =>
          /\ exists /\ rd.dofs \in Nat /\ rd.start \in Nat /\ rd.size \in Nat
          /\ rd.dofs <= rd.size /\ rd.size <= Len(file)
          /\ rd.dir \in Seq(Headers(use)) /\ rd.total = Len(rd.dir)
          /\ Placed(use, file, rd.dir, rd.start, rd.dofs)
          /\ Members(file, rd) = seen
          /\ inplace # NotInPlace => rd.dofs <= Floor

\* The members of an append's writer: those of the file, and the new one.
Directory(b) == [dir |-> zip.dir, total |-> zip.total, start |-> 0, size |-> Len(b)]
Listed == Members(Bytes, Directory(Bytes))
Added == call.op = "final" \/ (call.op = "return" /\ call.ok)
AppendOK ==
    inplace # NotInPlace /\ ~(call.op = "return" /\ ~call.ok) =>
        Listed = IF Added THEN Append(truth, [name |-> inplace.name, content |-> inplace.content])
                 ELSE truth

\* What was accepted is what lies on the heap.
AcceptedOK == OnHeap => Written = accepted

Layout ==
    /\ use \in Uses /\ IsBytes(heap) /\ IsBytes(file)
    /\ CallOK /\ WriterOK /\ MemOK /\ CopyOK /\ FinalOK /\ NoStray
    /\ FileOK /\ ReaderOK /\ AppendOK
IInv == Layout /\ AcceptedOK

-----------------------------------------------------------------------------
(* Sequences of cells.                                                     *)

LEMMA BytesAre ==
    ASSUME NEW b, IsBytes(b)
    PROVE  Len(b) \in Nat /\ DOMAIN b = 1 .. Len(b) /\ b = [i \in 1 .. Len(b) |-> b[i]]
BY DEF IsBytes

LEMMA FunctionIsBytes ==
    ASSUME NEW n \in Nat, NEW b, b = [i \in 1 .. n |-> b[i]]
    PROVE  IsBytes(b) /\ Len(b) = n /\ DOMAIN b = 1 .. n
<1> DEFINE S == {b[i] : i \in DOMAIN b}
<1>1. DOMAIN b = 1 .. n
  OBVIOUS
<1>2. b \in [1 .. n -> S]
  BY <1>1
<1>3. b \in Seq(S)
  BY <1>2
<1> QED
  BY <1>1, <1>3 DEF IsBytes

LEMMA SeqIsBytes ==
    ASSUME NEW S, NEW b \in Seq(S)
    PROVE  IsBytes(b)
<1>1. Len(b) \in Nat /\ b = [i \in 1 .. Len(b) |-> b[i]]
  OBVIOUS
<1> QED
  BY <1>1, FunctionIsBytes

LEMMA FunctionIsSeq ==
    ASSUME NEW S, NEW n \in Nat, NEW f \in [1 .. n -> S]
    PROVE  f \in Seq(S) /\ Len(f) = n
OBVIOUS

LEMMA SameBytes ==
    ASSUME NEW a, NEW b, IsBytes(a), IsBytes(b), Len(a) = Len(b),
           \A i \in 1 .. Len(a) : a[i] = b[i]
    PROVE  a = b
BY BytesAre

LEMMA EmptyIs ==
    ASSUME NEW b, IsBytes(b)
    PROVE  b = <<>> <=> Len(b) = 0
BY BytesAre

LEMMA MaxIs ==
    ASSUME NEW S \in SUBSET Int, NEW m \in S, \A x \in S : x <= m
    PROVE  Max(S) = m
<1>1. \A x \in S : (\A y \in S : x >= y) => x = m
  OBVIOUS
<1>2. \A y \in S : m >= y
  OBVIOUS
<1> QED
  BY <1>1, <1>2 DEF Max

LEMMA MaxTwo ==
    ASSUME NEW a \in Int, NEW b \in Int
    PROVE  Max({a, b}) = IF a > b THEN a ELSE b
<1>1. CASE a > b
  BY <1>1, MaxIs
<1>2. CASE ~(a > b)
  BY <1>2, MaxIs
<1> QED
  BY <1>1, <1>2

\* What a write leaves: the cells in their place and the rest as it was.
LEMMA WriteIs ==
    ASSUME NEW b, NEW ofs \in Nat, NEW cells, IsBytes(b), IsBytes(cells)
    PROVE  LET w == Write(b, ofs, cells)
           IN /\ IsBytes(w)
              /\ Len(w) >= Len(b)
              /\ cells # <<>> => Len(w) >= ofs + Len(cells)
              /\ Len(w) <= Len(b) \/ Len(w) = ofs + Len(cells)
              /\ \A k \in 1 .. Len(cells) : w[ofs + k] = cells[k]
              /\ \A i \in 1 .. Len(w) :
                    i <= ofs \/ i > ofs + Len(cells) =>
                      w[i] = IF i <= Len(b) THEN b[i] ELSE Junk
<1> DEFINE w == Write(b, ofs, cells)
<1>1. /\ Len(b) \in Nat /\ Len(cells) \in Nat /\ b = [i \in 1 .. Len(b) |-> b[i]]
      /\ cells = <<>> <=> Len(cells) = 0
  BY BytesAre
<1>2. CASE cells = <<>>
  BY <1>1, <1>2 DEF Write
<1>3. CASE cells # <<>>
  <2>1. PICK n \in Nat : /\ n = Max({Len(b), ofs + Len(cells)})
                        /\ n = IF Len(b) > ofs + Len(cells) THEN Len(b) ELSE ofs + Len(cells)
    <3>1. Len(b) \in Int /\ ofs + Len(cells) \in Int
      BY <1>1
    <3>2. Max({Len(b), ofs + Len(cells)})
            = IF Len(b) > ofs + Len(cells) THEN Len(b) ELSE ofs + Len(cells)
      BY <3>1, MaxTwo
    <3>3. (IF Len(b) > ofs + Len(cells) THEN Len(b) ELSE ofs + Len(cells)) \in Nat
      BY <1>1
    <3> QED
      BY <3>2, <3>3
  <2>2. w = [i \in 1 .. n |-> IF i > ofs /\ i <= ofs + Len(cells) THEN cells[i - ofs]
                              ELSE IF i <= Len(b) THEN b[i] ELSE Junk]
    BY <1>3, <2>1 DEF Write
  <2> HIDE DEF w
  <2>3. w = [i \in 1 .. n |-> w[i]]
    BY <2>2
  <2>4. IsBytes(w) /\ Len(w) = n
    BY <2>3, FunctionIsBytes
  <2>5. ASSUME NEW k \in 1 .. Len(cells)
        PROVE  w[ofs + k] = cells[k]
    BY <1>1, <2>1, <2>2
  <2>6. ASSUME NEW i \in 1 .. n, i <= ofs \/ i > ofs + Len(cells)
        PROVE  w[i] = IF i <= Len(b) THEN b[i] ELSE Junk
    BY <1>1, <2>1, <2>2, <2>6
  <2>7. /\ n >= Len(b) /\ n >= ofs + Len(cells)
        /\ n <= Len(b) \/ n = ofs + Len(cells)
    BY <1>1, <2>1
  <2> QED
    BY <2>4, <2>5, <2>6, <2>7 DEF w
<1> QED
  BY <1>2, <1>3

Overwritten(b, ofs, cells, w) ==
    /\ IsBytes(w) /\ Len(w) \in Nat /\ Len(w) >= Len(b)
    /\ cells # <<>> => Len(w) >= ofs + Len(cells)
    /\ Len(w) <= Len(b) \/ Len(w) = ofs + Len(cells)
    /\ \A k \in 1 .. Len(cells) : w[ofs + k] = cells[k]
    /\ \A i \in 1 .. Len(w) :
          i <= ofs \/ i > ofs + Len(cells) => w[i] = IF i <= Len(b) THEN b[i] ELSE Junk

LEMMA WrittenIs ==
    ASSUME NEW b, NEW ofs \in Nat, NEW cells, IsBytes(b), IsBytes(cells),
           NEW w, w = Write(b, ofs, cells)
    PROVE  Overwritten(b, ofs, cells, w)
<1>1. /\ IsBytes(w) /\ Len(w) >= Len(b)
      /\ cells # <<>> => Len(w) >= ofs + Len(cells)
      /\ Len(w) <= Len(b) \/ Len(w) = ofs + Len(cells)
      /\ \A k \in 1 .. Len(cells) : w[ofs + k] = cells[k]
      /\ \A i \in 1 .. Len(w) :
            i <= ofs \/ i > ofs + Len(cells) =>
              w[i] = IF i <= Len(b) THEN b[i] ELSE Junk
  BY WriteIs
<1> QED
  BY <1>1, BytesAre DEF Overwritten

LEMMA FillIs ==
    ASSUME NEW cell, NEW n \in Nat
    PROVE  /\ IsBytes(Fill(cell, n)) /\ Len(Fill(cell, n)) = n
           /\ \A i \in 1 .. n : Fill(cell, n)[i] = cell
<1>1. Fill(cell, n) = [i \in 1 .. n |-> Fill(cell, n)[i]]
  BY DEF Fill
<1> QED
  BY <1>1, FunctionIsBytes DEF Fill

LEMMA CellsAre ==
    ASSUME NEW b, IsBytes(b), NEW ofs \in Nat, NEW n \in Nat, ofs + n <= Len(b)
    PROVE  /\ IsBytes(Cells(b, ofs, n)) /\ Len(Cells(b, ofs, n)) = n
           /\ DOMAIN Cells(b, ofs, n) = 1 .. n
           /\ \A k \in 1 .. n : Cells(b, ofs, n)[k] = b[ofs + k]
<1> DEFINE S == {b[i] : i \in DOMAIN b}
           c == SubSeq(b, ofs + 1, ofs + n)
<1>1. b \in Seq(S) /\ Len(b) \in Nat
  BY DEF IsBytes
<1> HIDE DEF S
<1>2. c \in Seq(S) /\ Len(c) = n
  BY <1>1
<1>3. \A k \in 1 .. n : c[k] = b[ofs + k]
  BY <1>1
<1> QED
  BY <1>2, <1>3, SeqIsBytes, BytesAre DEF Cells

Cut(b, ofs, n, w) ==
    /\ IsBytes(w) /\ Len(w) = n
    /\ \A k \in 1 .. n : w[k] = b[ofs + k]

LEMMA CutIs ==
    ASSUME NEW b, IsBytes(b), NEW ofs \in Nat, NEW n \in Nat, ofs + n <= Len(b)
    PROVE  Cut(b, ofs, n, Cells(b, ofs, n))
BY CellsAre DEF Cut

LEMMA ConcatIs ==
    ASSUME NEW a, NEW b, IsBytes(a), IsBytes(b)
    PROVE  /\ IsBytes(a \o b) /\ Len(a \o b) = Len(a) + Len(b)
           /\ \A i \in 1 .. Len(a) : (a \o b)[i] = a[i]
           /\ \A i \in 1 .. Len(b) : (a \o b)[Len(a) + i] = b[i]
<1> DEFINE S == {a[i] : i \in DOMAIN a} \union {b[i] : i \in DOMAIN b}
<1>1. a \in Seq(S) /\ b \in Seq(S)
  <2>1. /\ Len(a) \in Nat /\ DOMAIN a = 1 .. Len(a) /\ a = [i \in 1 .. Len(a) |-> a[i]]
        /\ Len(b) \in Nat /\ DOMAIN b = 1 .. Len(b) /\ b = [i \in 1 .. Len(b) |-> b[i]]
    BY BytesAre
  <2>2. a \in [1 .. Len(a) -> S] /\ b \in [1 .. Len(b) -> S]
    BY <2>1
  <2> QED
    BY <2>1, <2>2
<1> HIDE DEF S
<1>2. a \o b \in Seq(S) /\ Len(a \o b) = Len(a) + Len(b)
  BY <1>1
<1>3. IsBytes(a \o b)
  BY <1>2, SeqIsBytes
<1>4. \A i \in 1 .. Len(a) : (a \o b)[i] = a[i]
  BY <1>1
<1>5. ASSUME NEW i \in 1 .. Len(b)
      PROVE  (a \o b)[Len(a) + i] = b[i]
  BY <1>1
<1> QED
  BY <1>2, <1>3, <1>4, <1>5

Joined(a, b, w) ==
    /\ IsBytes(w) /\ Len(w) = Len(a) + Len(b)
    /\ \A i \in 1 .. Len(a) : w[i] = a[i]
    /\ \A i \in 1 .. Len(b) : w[Len(a) + i] = b[i]

LEMMA JoinedIs ==
    ASSUME NEW a, NEW b, IsBytes(a), IsBytes(b)
    PROVE  Joined(a, b, a \o b)
BY ConcatIs DEF Joined

LEMMA OneCell ==
    ASSUME NEW x
    PROVE  IsBytes(<<x>>) /\ Len(<<x>>) = 1 /\ <<x>>[1] = x /\ <<x>> # <<>>
<1>1. <<x>> \in Seq({x})
  OBVIOUS
<1> QED
  BY <1>1, SeqIsBytes

LEMMA NoCells == IsBytes(<<>>) /\ Len(<<>>) = 0
<1>1. <<>> \in Seq({})
  OBVIOUS
<1> QED
  BY <1>1, SeqIsBytes

-----------------------------------------------------------------------------
(* Members.                                                                *)

\* The contents of a use are sequences of cells.
LEMMA ContentIs ==
    ASSUME NEW u \in Uses, NEW c \in Mine(u)
    PROVE  IsBytes(c)
BY ZipConstants DEF Mine, IsBytes

LEMMA DeflatedIs ==
    ASSUME NEW c
    PROVE  /\ IsBytes(Deflated(c)) /\ Len(Deflated(c)) = 1
           /\ Deflated(c)[1] = [t |-> "deflate", of |-> c]
BY OneCell DEF Deflated

\* A member that lies whole where its header points is extracted.
LEMMA Extracted ==
    ASSUME NEW u, NEW b, NEW d, NEW i, NEW c, IsBytes(b), IsBytes(c), d.dir[i] \in Headers(u),
           HoldsAt(b, d.dir[i], LocalHeaderOfs(d, i), c), d.size \in Nat,
           LocalHeaderOfs(d, i) + 2 + d.dir[i].csize <= d.size
    PROVE  Extract(b, d, i) = c
<1> DEFINE h == d.dir[i]
           at == LocalHeaderOfs(d, i)
           data == Cells(b, at + 2, h.csize)
<1>1. /\ h.csize \in Nat /\ h.method \in {"stored", "deflated"} /\ at \in Nat
      /\ at + 2 + h.csize <= Len(b) /\ b[at + 1].t = "local" /\ Len(b) \in Nat
      /\ at + 2 + h.csize <= d.size
  BY BytesAre DEF HoldsAt, Headers
<1>2. /\ IsBytes(data) /\ Len(data) = h.csize
      /\ \A k \in 1 .. h.csize : data[k] = b[at + 2 + k]
  <2> HIDE DEF h, at
  <2>1. at + 2 \in Nat /\ h.csize \in Nat /\ (at + 2) + h.csize <= Len(b)
    BY <1>1
  <2> QED
    BY <2>1, CellsAre
<1>3. Extract(b, d, i) =
        IF h.csize = 0 THEN <<>>
        ELSE IF h.method = "stored" THEN data
        ELSE IF data[1].t = "deflate" THEN data[1].of ELSE Lost
  <2>1. /\ ~(at < 0) /\ ~(at >= Len(b)) /\ ~(b[at + 1].t # "local")
        /\ ~(at + 2 + h.csize > d.size) /\ ~(Len(data) # h.csize)
    <3> HIDE DEF h, at, data
    <3> QED
      BY <1>1, <1>2
  <2> DEFINE none == \/ at < 0 \/ at >= Len(b) \/ b[at + 1].t # "local"
                     \/ at + 2 + h.csize > d.size \/ Len(data) # h.csize
  <2>2. Extract(b, d, i) =
          IF h.csize = 0 THEN <<>>
          ELSE IF none THEN Lost
          ELSE IF h.method = "stored" THEN data
          ELSE IF data[1].t = "deflate" THEN data[1].of ELSE Lost
    BY Zenon DEF Extract
  <2>3. ~none
    BY <2>1, Zenon
  <2> HIDE DEF none, h, at, data
  <2> QED
    BY <2>2, <2>3
<1>4. CASE h.method = "stored"
  <2>1. h.csize = Len(c) /\ \A k \in 1 .. Len(c) : b[at + 2 + k] = c[k]
    BY <1>4 DEF HoldsAt
  <2>2. data = c
    BY <1>2, <2>1, SameBytes
  <2>3. h.csize = 0 => c = <<>>
    BY <2>1, EmptyIs
  <2> QED
    BY <1>3, <1>4, <2>2, <2>3
<1>5. CASE h.method = "deflated"
  <2>1. h.csize = 1 /\ b[at + 3] = [t |-> "deflate", of |-> c]
    BY <1>5 DEF HoldsAt
  <2>2. data[1] = [t |-> "deflate", of |-> c]
    <3>1. data[1] = b[at + 2 + 1] /\ at + 2 + 1 = at + 3
      BY <1>1, <1>2, <2>1
    <3> QED
      BY <2>1, <3>1
  <2>3. data[1].t = "deflate" /\ data[1].of = c
    BY <2>2
  <2>4. h.csize # 0 /\ h.method # "stored"
    BY <1>5, <2>1
  <2> HIDE DEF h, at, data
  <2> QED
    BY <1>3, <2>3, <2>4
<1> QED
  BY <1>1, <1>4, <1>5

LEMMA HeldKept ==
    ASSUME NEW u, NEW a, NEW b, NEW h \in Headers(u), NEW at, NEW c, NEW floor \in Nat,
           IsBytes(a), IsBytes(b), IsBytes(c), HoldsAt(a, h, at, c), at + 2 + h.csize <= floor,
           Agree(a, b, floor)
    PROVE  HoldsAt(b, h, at, c)
<1>1. /\ Len(a) \in Nat /\ Len(b) \in Nat /\ Len(c) \in Nat /\ at \in Nat
      /\ h.csize \in Nat /\ h.method \in {"stored", "deflated"}
      /\ at + 2 + h.csize <= Len(a)
  BY BytesAre DEF HoldsAt, Headers
<1>2. ASSUME NEW i \in 1 .. at + 2 + h.csize
      PROVE  i <= Len(b) /\ b[i] = a[i]
  BY <1>1 DEF Agree
<1>3. at + 2 + h.csize <= Len(b)
  BY <1>1, <1>2
<1>4. b[at + 1] = a[at + 1] /\ b[at + 2] = a[at + 2]
  BY <1>1, <1>2
<1>5. CASE h.method = "stored"
  <2>1. h.csize = Len(c) /\ \A k \in 1 .. Len(c) : a[at + 2 + k] = c[k]
    BY <1>5 DEF HoldsAt
  <2>2. \A k \in 1 .. Len(c) : b[at + 2 + k] = c[k]
    BY <1>1, <1>2, <2>1
  <2> QED
    BY <1>3, <1>4, <1>5, <2>1, <2>2 DEF HoldsAt
<1>6. CASE h.method # "stored"
  <2>1. h.csize = 1 /\ a[at + 3] = [t |-> "deflate", of |-> c]
    BY <1>6 DEF HoldsAt
  <2>2. b[at + 3] = a[at + 3]
    BY <1>1, <1>2, <2>1
  <2> QED
    BY <1>3, <1>4, <1>6, <2>1, <2>2 DEF HoldsAt
<1> QED
  BY <1>5, <1>6

LEMMA PlacedKept ==
    ASSUME NEW u \in Uses, NEW a, NEW b, NEW dir \in Seq(Headers(u)), NEW start, NEW floor \in Nat,
           IsBytes(a), IsBytes(b), Placed(u, a, dir, start, floor), Agree(a, b, floor)
    PROVE  Placed(u, b, dir, start, floor)
<1> SUFFICES ASSUME NEW i \in DOMAIN dir
             PROVE  /\ start + dir[i].ofs + 2 + dir[i].csize <= floor
                    /\ \E c \in Mine(u) : HoldsAt(b, dir[i], start + dir[i].ofs, c)
  BY DEF Placed
<1>1. PICK c \in Mine(u) : HoldsAt(a, dir[i], start + dir[i].ofs, c)
  BY DEF Placed
<1>2. dir[i] \in Headers(u) /\ start + dir[i].ofs + 2 + dir[i].csize <= floor
  BY DEF Placed
<1>3. HoldsAt(b, dir[i], start + dir[i].ofs, c)
  BY <1>1, <1>2, ContentIs, HeldKept
<1> QED
  BY <1>2, <1>3

\* The size of an archive that a reader compares with.
Spans(d, b, floor) == d.size \in Nat /\ (d.size >= floor \/ d.size >= Len(b))

\* What a reader sees of a directory is what lies there.
Reads(u, b, d) ==
    /\ Members(b, d) \in Seq([name : u.names, content : Mine(u)])
    /\ Len(Members(b, d)) = d.total
    /\ \A i \in 1 .. d.total :
          /\ Members(b, d)[i].name = d.dir[i].name
          /\ \A c \in Mine(u) : HoldsAt(b, d.dir[i], LocalHeaderOfs(d, i), c) =>
                                Members(b, d)[i].content = c
          /\ HoldsAt(b, d.dir[i], LocalHeaderOfs(d, i), Members(b, d)[i].content)

LEMMA MembersAre ==
    ASSUME NEW u \in Uses, NEW b, NEW d, NEW floor \in Nat, IsBytes(b), d.dir \in Seq(Headers(u)),
           d.total = Len(d.dir), d.start \in Nat, Spans(d, b, floor),
           Placed(u, b, d.dir, d.start, floor)
    PROVE  Reads(u, b, d)
<1>1. d.total \in Nat /\ DOMAIN d.dir = 1 .. d.total
  OBVIOUS
<1>2. ASSUME NEW i \in 1 .. d.total
      PROVE  /\ d.dir[i] \in Headers(u) /\ d.dir[i].name \in u.names
             /\ Extract(b, d, i) \in Mine(u)
             /\ HoldsAt(b, d.dir[i], LocalHeaderOfs(d, i), Extract(b, d, i))
             /\ \A c \in Mine(u) : HoldsAt(b, d.dir[i], LocalHeaderOfs(d, i), c) =>
                                   Extract(b, d, i) = c
  <2>1. d.dir[i] \in Headers(u)
    BY <1>1
  <2>2. LocalHeaderOfs(d, i) = d.start + d.dir[i].ofs
    BY <2>1 DEF LocalHeaderOfs, Headers
  <2>3. /\ LocalHeaderOfs(d, i) + 2 + d.dir[i].csize <= floor
        /\ \E c \in Mine(u) : HoldsAt(b, d.dir[i], LocalHeaderOfs(d, i), c)
    BY <1>1, <2>2 DEF Placed
  <2>4. LocalHeaderOfs(d, i) + 2 + d.dir[i].csize <= Len(b)
    BY <2>3 DEF HoldsAt
  <2>5. LocalHeaderOfs(d, i) + 2 + d.dir[i].csize <= d.size
    <3>1. /\ LocalHeaderOfs(d, i) \in Nat /\ d.dir[i].csize \in Nat /\ Len(b) \in Nat
      BY <2>1, <2>3, BytesAre DEF HoldsAt, Headers
    <3> QED
      BY <2>3, <2>4, <3>1 DEF Spans
  <2>6. \A c \in Mine(u) : HoldsAt(b, d.dir[i], LocalHeaderOfs(d, i), c) => Extract(b, d, i) = c
    <3> SUFFICES ASSUME NEW c \in Mine(u), HoldsAt(b, d.dir[i], LocalHeaderOfs(d, i), c)
                 PROVE  Extract(b, d, i) = c
      OBVIOUS
    <3>1. IsBytes(c) /\ d.size \in Nat
      BY ContentIs DEF Spans
    <3> QED
      BY <2>1, <2>5, <3>1, Extracted
  <2>7. d.dir[i].name \in u.names
    BY <2>1 DEF Headers
  <2> QED
    BY <2>1, <2>3, <2>6, <2>7
<1> DEFINE M == [name : u.names, content : Mine(u)]
           m == Members(b, d)
<1>3. m = [i \in 1 .. d.total |-> [name |-> d.dir[i].name, content |-> Extract(b, d, i)]]
  BY DEF Members
<1> HIDE DEF m
<1>4. \A i \in 1 .. d.total : /\ m[i] \in M /\ m[i].name = d.dir[i].name
                              /\ m[i].content = Extract(b, d, i)
  BY <1>2, <1>3
<1>5. m \in [1 .. d.total -> M]
  BY <1>3, <1>4
<1>6. m \in Seq(M) /\ Len(m) = d.total
  <2> HIDE DEF M
  <2> QED
    BY <1>1, <1>5, FunctionIsSeq
<1> QED
  BY <1>2, <1>4, <1>6 DEF m, Reads

\* Bytes that agree below the floor hold the same members.
LEMMA MembersKept ==
    ASSUME NEW u \in Uses, NEW a, NEW b, NEW d, NEW e, NEW floor \in Nat,
           IsBytes(a), IsBytes(b), d.dir \in Seq(Headers(u)), d.total = Len(d.dir), d.start \in Nat,
           e.dir = d.dir, e.total = d.total, e.start = d.start,
           Spans(d, a, floor), Spans(e, b, floor),
           Placed(u, a, d.dir, d.start, floor), Agree(a, b, floor)
    PROVE  Members(b, e) = Members(a, d)
<1>1. Placed(u, b, d.dir, d.start, floor)
  BY PlacedKept
<1>2. Reads(u, a, d)
  BY MembersAre
<1>3. Reads(u, b, e)
  <2>1. /\ e.dir \in Seq(Headers(u)) /\ e.total = Len(e.dir) /\ e.start \in Nat
        /\ Placed(u, b, e.dir, e.start, floor)
    BY <1>1
  <2> QED
    BY <2>1, MembersAre
<1>4. ASSUME NEW i \in 1 .. d.total
      PROVE  Members(b, e)[i] = Members(a, d)[i]
  <2>1. /\ Members(a, d)[i] \in [name : u.names, content : Mine(u)]
        /\ Members(b, e)[i] \in [name : u.names, content : Mine(u)]
        /\ d.dir[i] \in Headers(u) /\ i \in DOMAIN d.dir
    <3> DEFINE M == [name : u.names, content : Mine(u)]
    <3>1. /\ Members(a, d) \in Seq(M) /\ Len(Members(a, d)) = d.total
          /\ Members(b, e) \in Seq(M) /\ Len(Members(b, e)) = d.total
      BY <1>2, <1>3 DEF Reads
    <3> HIDE DEF M
    <3>2. Members(a, d)[i] \in M /\ Members(b, e)[i] \in M
      BY <3>1
    <3>3. d.dir[i] \in Headers(u) /\ i \in DOMAIN d.dir
      OBVIOUS
    <3> QED
      BY <3>2, <3>3 DEF M
  <2>2. Members(a, d)[i].name = d.dir[i].name /\ Members(b, e)[i].name = d.dir[i].name
    BY <1>2, <1>3 DEF Reads
  <2>3. LocalHeaderOfs(e, i) = LocalHeaderOfs(d, i)
        /\ LocalHeaderOfs(d, i) = d.start + d.dir[i].ofs
    BY <2>1 DEF LocalHeaderOfs, Headers
  <2>4. LocalHeaderOfs(d, i) + 2 + d.dir[i].csize <= floor
    BY <2>1, <2>3 DEF Placed
  <2>5. PICK c \in Mine(u) : c = Members(a, d)[i].content
    BY <2>1
  <2>6. HoldsAt(a, d.dir[i], LocalHeaderOfs(d, i), c)
    BY <1>2, <2>5 DEF Reads
  <2>7. HoldsAt(b, d.dir[i], LocalHeaderOfs(d, i), c)
    BY <2>1, <2>4, <2>6, ContentIs, HeldKept
  <2>8. Members(b, e)[i].content = c
    BY <1>3, <2>3, <2>7 DEF Reads
  <2> QED
    BY <2>1, <2>2, <2>5, <2>8
<1> QED
  <2>1. Len(Members(a, d)) = d.total /\ Len(Members(b, e)) = d.total
    BY <1>2, <1>3 DEF Reads
  <2>2. IsBytes(Members(a, d)) /\ IsBytes(Members(b, e))
    BY <1>2, <1>3, SeqIsBytes DEF Reads
  <2> QED
    BY <1>4, <2>1, <2>2, SameBytes

LEMMA WriteAgrees ==
    ASSUME NEW b, NEW ofs \in Nat, NEW cells, IsBytes(b), IsBytes(cells), NEW floor \in Nat,
           floor <= ofs
    PROVE  Agree(b, Write(b, ofs, cells), floor)
<1>1. Len(b) \in Nat /\ Len(cells) \in Nat
  BY BytesAre
<1>2. /\ Len(Write(b, ofs, cells)) >= Len(b) /\ Len(Write(b, ofs, cells)) \in Nat
      /\ \A i \in 1 .. Len(Write(b, ofs, cells)) :
            i <= ofs \/ i > ofs + Len(cells) =>
               Write(b, ofs, cells)[i] = IF i <= Len(b) THEN b[i] ELSE Junk
  BY WriteIs, BytesAre
<1> QED
  BY <1>1, <1>2 DEF Agree

LEMMA PaddingIs ==
    ASSUME use \in Uses, zip.size \in Nat
    PROVE  Padding \in Nat
<1>1. use.align \in Nat \ {0}
  BY ZipConstants
<1> QED
  BY <1>1 DEF Padding

-----------------------------------------------------------------------------
(* Archives that are sealed by an end record.                              *)

LEMMA SealedReads ==
    ASSUME NEW u \in Uses, NEW b, NEW e, NEW n, NEW s, IsBytes(b), Sealed(u, b, e, n, s)
    PROVE  /\ ReadCentralDir(b) = [dofs |-> e - 1 - n, start |-> s, size |-> Len(b),
                                   dir |-> Cells(b, e - 1 - n, n), total |-> n]
           /\ Ends(b) # {}
           /\ Cells(b, e - 1 - n, n) \in Seq(Headers(u)) /\ Len(Cells(b, e - 1 - n, n)) = n
           /\ Placed(u, b, Cells(b, e - 1 - n, n), s, e - 1 - n)
           /\ e \in 1 .. Len(b) /\ Len(b) \in Nat /\ e - 1 - n \in Nat /\ n \in Nat /\ s \in Nat
           /\ Reads(u, b, ReadCentralDir(b))
<1>1. Len(b) \in Nat /\ DOMAIN b = 1 .. Len(b)
  BY BytesAre
<1>2. /\ e \in 1 .. Len(b) /\ n \in Nat /\ s \in Nat /\ n + s < e
      /\ b[e] = EndRecord(n, n, e - 1 - n - s)
      /\ \A i \in e + 1 .. Len(b) : b[i].t # "end"
  BY DEF Sealed
<1>3. b[e].t = "end" /\ b[e].size = n /\ b[e].ofs = e - 1 - n - s /\ b[e].total = n
  BY <1>2 DEF EndRecord
<1>4. Ends(b) \in SUBSET Int /\ e \in Ends(b) /\ \A x \in Ends(b) : x <= e
  BY <1>1, <1>2, <1>3 DEF Ends
<1>5. Max(Ends(b)) = e
  BY <1>4, MaxIs
<1>6. PICK o \in Nat : o = e - 1 - n
  BY <1>1, <1>2
<1>7. ReadCentralDir(b) = [dofs |-> o, start |-> s, size |-> Len(b),
                           dir |-> Cells(b, o, n), total |-> n]
  <2>1. (e - 1) + 1 = e /\ (e - 1) - n = o /\ o - (e - 1 - n - s) = s
    BY <1>1, <1>2, <1>6
  <2> QED
    BY <1>3, <1>5, <2>1 DEF ReadCentralDir
<1>8. /\ Cells(b, o, n) \in Seq(Headers(u)) /\ Placed(u, b, Cells(b, o, n), s, o)
  BY <1>6 DEF Sealed
<1>9. Len(Cells(b, o, n)) = n
  BY <1>1, <1>2, <1>6, CellsAre
<1>10. Reads(u, b, ReadCentralDir(b))
  <2> DEFINE d == ReadCentralDir(b)
  <2>1. /\ d.dir = Cells(b, o, n) /\ d.total = n /\ d.start = s /\ d.size = Len(b)
    BY <1>7
  <2> HIDE DEF d
  <2>2. /\ d.dir \in Seq(Headers(u)) /\ d.total = Len(d.dir) /\ d.start \in Nat
        /\ Placed(u, b, d.dir, d.start, o) /\ Spans(d, b, o)
    BY <1>1, <1>2, <1>8, <1>9, <2>1 DEF Spans
  <2>3. Reads(u, b, d)
    BY <1>6, <2>2, MembersAre
  <2> QED
    BY <2>3 DEF d
<1> QED
  BY <1>1, <1>2, <1>4, <1>6, <1>7, <1>8, <1>9, <1>10

\* A reader accepts a sealed archive and holds its members.
LEMMA SealedHolds ==
    ASSUME NEW u \in Uses, NEW b, NEW e, NEW n, NEW s, IsBytes(b), Sealed(u, b, e, n, s)
    PROVE  /\ Acceptable(b)
           /\ Holds(b) = [ok |-> TRUE, members |-> Members(b, ReadCentralDir(b))]
<1> DEFINE d == ReadCentralDir(b)
<1>1. /\ d.dofs = e - 1 - n /\ d.start = s /\ d.dir = Cells(b, e - 1 - n, n) /\ d.total = n
      /\ Ends(b) # {} /\ d.dir \in Seq(Headers(u)) /\ Len(d.dir) = n
      /\ Placed(u, b, d.dir, s, e - 1 - n)
      /\ e \in 1 .. Len(b) /\ Len(b) \in Nat /\ e - 1 - n \in Nat /\ n \in Nat /\ s \in Nat
  BY SealedReads
<1> HIDE DEF d
<1>2. ASSUME NEW i \in 1 .. d.total
      PROVE  LET h == d.dir[i]
             IN /\ h.t = "central"
                /\ h.method = "stored" => h.usize = h.csize
                /\ h.usize > 0 => h.csize > 0
                /\ h.ofs + 1 + h.csize <= Len(b)
  <2>1. d.dir[i] \in Headers(u) /\ i \in DOMAIN d.dir
    BY <1>1
  <2>2. PICK c \in Mine(u) : HoldsAt(b, d.dir[i], s + d.dir[i].ofs, c)
    BY <1>1, <2>1 DEF Placed
  <2>3. /\ d.dir[i].t = "central" /\ d.dir[i].method \in {"stored", "deflated"}
        /\ d.dir[i].csize \in Nat /\ d.dir[i].usize \in Nat /\ d.dir[i].ofs \in Nat
    BY <2>1 DEF Headers
  <2>4. s + d.dir[i].ofs + 2 + d.dir[i].csize <= Len(b)
    BY <2>2 DEF HoldsAt
  <2>5. IF d.dir[i].method = "stored" THEN d.dir[i].csize = d.dir[i].usize ELSE d.dir[i].csize = 1
    BY <2>2 DEF HoldsAt
  <2>6. d.dir[i].method = "stored" => d.dir[i].usize = d.dir[i].csize
    BY <2>5
  <2>7. d.dir[i].usize > 0 => d.dir[i].csize > 0
    BY <2>3, <2>5
  <2>8. d.dir[i].ofs + 1 + d.dir[i].csize <= Len(b)
    BY <1>1, <2>3, <2>4
  <2> QED
    BY <2>3, <2>6, <2>7, <2>8
<1>3. Len(d.dir) >= d.total /\ d.dofs >= 0
  BY <1>1
<1>4. Acceptable(b)
  BY <1>1, <1>2, <1>3 DEF Acceptable, d
<1> QED
  BY <1>4 DEF Holds

\* Behind a stub an archive holds the same members.
LEMMA Stubbed ==
    ASSUME NEW u \in Uses, NEW b, NEW e, NEW n, NEW s, NEW k \in Nat, IsBytes(b), Sealed(u, b, e, n, s)
    PROVE  LET f == Fill(Junk, k) \o b
           IN /\ IsBytes(f) /\ Len(f) = k + Len(b)
              /\ Sealed(u, f, k + e, n, k + s)
              /\ Members(f, ReadCentralDir(f)) = Members(b, ReadCentralDir(b))
<1> DEFINE f == Fill(Junk, k) \o b
           d == ReadCentralDir(b)
           g == ReadCentralDir(f)
           dir == Cells(b, e - 1 - n, n)
<1>1. /\ d = [dofs |-> e - 1 - n, start |-> s, size |-> Len(b), dir |-> dir, total |-> n]
      /\ dir \in Seq(Headers(u)) /\ Len(dir) = n
      /\ Placed(u, b, dir, s, e - 1 - n)
      /\ e \in 1 .. Len(b) /\ Len(b) \in Nat /\ e - 1 - n \in Nat /\ n \in Nat /\ s \in Nat
      /\ Reads(u, b, d)
  BY SealedReads
<1>2. /\ IsBytes(f) /\ Len(f) = k + Len(b)
      /\ \A i \in 1 .. k : f[i] = Junk
      /\ \A i \in 1 .. Len(b) : f[k + i] = b[i]
  BY FillIs, ConcatIs
<1> HIDE DEF f, d
<1>3. Cells(f, (k + e) - 1 - n, n) = dir
  <2> HIDE DEF dir
  <2>1. PICK o \in Nat : o = e - 1 - n /\ o + n <= Len(b)
    BY <1>1
  <2>2. /\ IsBytes(dir) /\ Len(dir) = n /\ \A i \in 1 .. n : dir[i] = b[o + i]
    BY <1>1, <2>1, CellsAre DEF dir
  <2>3. k + o \in Nat /\ (k + o) + n <= Len(f) /\ (k + e) - 1 - n = k + o
    BY <1>1, <1>2, <2>1
  <2>4. /\ IsBytes(Cells(f, k + o, n)) /\ Len(Cells(f, k + o, n)) = n
        /\ \A i \in 1 .. n : Cells(f, k + o, n)[i] = f[k + o + i]
    BY <1>1, <1>2, <2>3, CellsAre
  <2>5. \A i \in 1 .. n : f[k + o + i] = b[o + i]
    <3>1. \A i \in 1 .. n : o + i \in 1 .. Len(b) /\ k + o + i = k + (o + i)
      BY <1>1, <2>1
    <3> QED
      BY <1>2, <3>1
  <2>6. Cells(f, k + o, n) = dir
    BY <1>1, <2>2, <2>4, <2>5, SameBytes
  <2> QED
    BY <2>3, <2>6
<1>4. ASSUME NEW h \in Headers(u), NEW at, NEW c, HoldsAt(b, h, at, c), IsBytes(c)
      PROVE  HoldsAt(f, h, k + at, c)
  <2>1. /\ at \in Nat /\ h.csize \in Nat /\ at + 2 + h.csize <= Len(b) /\ Len(c) \in Nat
        /\ h.method \in {"stored", "deflated"}
    BY <1>4, BytesAre DEF HoldsAt, Headers
  <2>2. \A i \in 1 .. at + 2 + h.csize : f[k + i] = b[i]
    BY <1>1, <1>2, <2>1
  <2>3. f[k + (at + 1)] = b[at + 1] /\ f[k + (at + 2)] = b[at + 2]
    BY <2>1, <2>2
  <2>4. f[k + at + 1] = b[at + 1] /\ f[k + at + 2] = b[at + 2]
        /\ k + at + 2 + h.csize <= Len(f) /\ k + at \in Nat
    <3>1. PICK x \in Nat, m \in Nat, y \in Nat :
             x = at /\ m = h.csize /\ y = Len(b) /\ x + 2 + m <= y
      BY <1>1, <2>1
    <3>2. k + (x + 1) = k + x + 1 /\ k + (x + 2) = k + x + 2 /\ k + x + 2 + m <= k + y
      BY <3>1
    <3>3. Len(f) = k + y
      BY <1>2, <3>1
    <3> QED
      BY <2>3, <3>1, <3>2, <3>3
  <2>5. CASE h.method = "stored"
    <3>1. h.csize = Len(c) /\ \A i \in 1 .. Len(c) : b[at + 2 + i] = c[i]
      BY <1>4, <2>5 DEF HoldsAt
    <3>2. ASSUME NEW i \in 1 .. Len(c) PROVE f[k + at + 2 + i] = c[i]
      <4>1. f[k + (at + 2 + i)] = b[at + 2 + i]
        BY <2>1, <2>2, <3>1
      <4>2. k + (at + 2 + i) = k + at + 2 + i
        BY <2>1
      <4> QED
        BY <3>1, <4>1, <4>2
    <3> QED
      BY <1>4, <2>4, <2>5, <3>1, <3>2 DEF HoldsAt
  <2>6. CASE h.method # "stored"
    <3>1. h.csize = 1 /\ b[at + 3] = [t |-> "deflate", of |-> c]
      BY <1>4, <2>6 DEF HoldsAt
    <3>2. f[k + (at + 3)] = b[at + 3] /\ k + (at + 3) = k + at + 3
      BY <2>1, <2>2, <3>1
    <3>3. f[k + at + 3] = [t |-> "deflate", of |-> c]
      BY <3>1, <3>2
    <3> QED
      BY <1>4, <2>4, <2>6, <3>1, <3>3 DEF HoldsAt
  <2> QED
    BY <2>5, <2>6
<1>5. Placed(u, f, dir, k + s, (k + e) - 1 - n)
  <2> HIDE DEF dir
  <2> SUFFICES ASSUME NEW i \in DOMAIN dir
               PROVE  /\ (k + s) + dir[i].ofs + 2 + dir[i].csize <= (k + e) - 1 - n
                      /\ \E c \in Mine(u) : HoldsAt(f, dir[i], (k + s) + dir[i].ofs, c)
    BY DEF Placed
  <2>1. dir[i] \in Headers(u) /\ dir[i].ofs \in Nat /\ dir[i].csize \in Nat
    <3>1. dir[i] \in Headers(u)
      BY <1>1
    <3> QED
      BY <3>1 DEF Headers
  <2>2. s + dir[i].ofs + 2 + dir[i].csize <= e - 1 - n
    BY <1>1 DEF Placed
  <2>3. PICK c \in Mine(u) : HoldsAt(b, dir[i], s + dir[i].ofs, c)
    BY <1>1 DEF Placed
  <2>4. HoldsAt(f, dir[i], k + (s + dir[i].ofs), c)
    BY <1>4, <2>1, <2>3, ContentIs
  <2>5. k + (s + dir[i].ofs) = (k + s) + dir[i].ofs
    BY <1>1, <2>1
  <2>6. (k + s) + dir[i].ofs + 2 + dir[i].csize <= (k + e) - 1 - n
    <3>1. PICK x \in Nat, m \in Nat, y \in Nat :
             x = dir[i].ofs /\ m = dir[i].csize /\ y = e - 1 - n
      BY <1>1, <2>1
    <3>2. s + x + 2 + m <= y /\ (k + e) - 1 - n = k + y
      BY <1>1, <2>2, <3>1
    <3>3. (k + s) + x + 2 + m <= k + y
      BY <1>1, <3>2
    <3> QED
      BY <3>1, <3>2, <3>3
  <2> QED
    BY <2>4, <2>5, <2>6
<1>6. Sealed(u, f, k + e, n, k + s)
  <2>1. n + s < e /\ b[e] = EndRecord(n, n, e - 1 - n - s) /\ \A i \in e + 1 .. Len(b) : b[i].t # "end"
    BY DEF Sealed
  <2>2. /\ k + e \in 1 .. Len(f) /\ n \in Nat /\ k + s \in Nat /\ n + (k + s) < k + e
        /\ (k + e) - 1 - n - (k + s) = e - 1 - n - s
    BY <1>1, <1>2, <2>1
  <2>3. f[k + e] = EndRecord(n, n, (k + e) - 1 - n - (k + s))
    BY <1>1, <1>2, <2>1, <2>2
  <2>4. ASSUME NEW i \in (k + e) + 1 .. Len(f) PROVE f[i].t # "end"
    <3>1. PICK j \in Int : j = i - k
      BY <1>1
    <3>2. j \in e + 1 .. Len(b) /\ j \in 1 .. Len(b) /\ i = k + j
      BY <1>1, <1>2, <3>1
    <3> QED
      BY <1>2, <2>1, <3>2
  <2> QED
    BY <1>1, <1>3, <1>5, <2>2, <2>3, <2>4 DEF Sealed
<1>7. /\ g.dir = dir /\ g.total = n /\ g.start = k + s /\ Reads(u, f, g)
  <2> HIDE DEF dir
  <2>1. /\ g = [dofs |-> (k + e) - 1 - n, start |-> k + s, size |-> Len(f),
               dir |-> Cells(f, (k + e) - 1 - n, n), total |-> n]
        /\ Reads(u, f, g)
    <3>1. PICK x \in Nat, y \in Nat : x = k + e /\ y = k + s
      BY <1>1
    <3>2. Sealed(u, f, x, n, y)
      BY <1>6, <3>1
    <3>3. /\ g = [dofs |-> x - 1 - n, start |-> y, size |-> Len(f),
                 dir |-> Cells(f, x - 1 - n, n), total |-> n]
          /\ Reads(u, f, g)
      <4>1. IsBytes(f)
        BY <1>2
      <4>2. ReadCentralDir(f) = [dofs |-> x - 1 - n, start |-> y, size |-> Len(f),
                                 dir |-> Cells(f, x - 1 - n, n), total |-> n]
        BY <3>2, <4>1, SealedReads
      <4>3. Reads(u, f, ReadCentralDir(f))
        BY <3>2, <4>1, SealedReads
      <4> QED
        BY <4>2, <4>3
    <3> QED
      BY <3>1, <3>3
  <2> HIDE DEF g
  <2> QED
    BY <1>3, <2>1
<1>8. d.dir = dir /\ d.total = n /\ d.start = s
  BY <1>1
<1> HIDE DEF g, dir
<1>9. ASSUME NEW i \in 1 .. n
      PROVE  Members(f, g)[i] = Members(b, d)[i]
  <2>1. /\ Members(f, g)[i] \in [name : u.names, content : Mine(u)]
        /\ Members(b, d)[i] \in [name : u.names, content : Mine(u)]
    <3> DEFINE M == [name : u.names, content : Mine(u)]
    <3>1. /\ Members(f, g) \in Seq(M) /\ Len(Members(f, g)) = n
          /\ Members(b, d) \in Seq(M) /\ Len(Members(b, d)) = n
      BY <1>1, <1>7, <1>8 DEF Reads
    <3> HIDE DEF M
    <3>2. Members(f, g)[i] \in M /\ Members(b, d)[i] \in M
      BY <3>1
    <3> QED
      BY <3>2 DEF M
  <2>2. Members(f, g)[i].name = Members(b, d)[i].name
    <3>1. Members(f, g)[i].name = dir[i].name
      BY <1>7 DEF Reads
    <3>2. Members(b, d)[i].name = dir[i].name
      BY <1>1, <1>8 DEF Reads
    <3> QED
      BY <3>1, <3>2
  <2>3. PICK c \in Mine(u) : c = Members(b, d)[i].content
    BY <2>1
  <2>4. dir[i] \in Headers(u)
    BY <1>1
  <2>5. LocalHeaderOfs(g, i) = k + LocalHeaderOfs(d, i)
    BY <1>1, <1>7, <1>8, <2>4 DEF LocalHeaderOfs, Headers
  <2>6. HoldsAt(b, dir[i], LocalHeaderOfs(d, i), c)
    BY <1>1, <1>8, <2>3 DEF Reads
  <2>7. HoldsAt(f, dir[i], LocalHeaderOfs(g, i), c)
    BY <1>4, <2>4, <2>5, <2>6, ContentIs
  <2>8. Members(f, g)[i].content = c
    BY <1>7, <2>7 DEF Reads
  <2> QED
    BY <2>1, <2>2, <2>3, <2>8
<1>10. Members(f, g) = Members(b, d)
  <2>1. Len(Members(f, g)) = n /\ Len(Members(b, d)) = n
    BY <1>1, <1>7, <1>8 DEF Reads
  <2>2. IsBytes(Members(f, g)) /\ IsBytes(Members(b, d))
    BY <1>1, <1>7, SeqIsBytes DEF Reads
  <2> QED
    BY <1>9, <2>1, <2>2, SameBytes
<1> QED
  BY <1>2, <1>6, <1>10 DEF f, g, d

BehindStub(u, b, e, n, s, k, f) ==
    /\ IsBytes(f) /\ Len(f) = k + Len(b)
    /\ Sealed(u, f, k + e, n, k + s)
    /\ Members(f, ReadCentralDir(f)) = Members(b, ReadCentralDir(b))

LEMMA StubbedIs ==
    ASSUME NEW u \in Uses, NEW b, NEW e, NEW n, NEW s, NEW k \in Nat, IsBytes(b), Sealed(u, b, e, n, s)
    PROVE  BehindStub(u, b, e, n, s, k, Fill(Junk, k) \o b)
BY Stubbed DEF BehindStub

-----------------------------------------------------------------------------
(* Steps of the writer.                                                    *)

LEMMA BytesOK ==
    ASSUME IInv
    PROVE  /\ use \in Uses /\ IsBytes(heap) /\ IsBytes(file) /\ IsBytes(Bytes)
           /\ Len(Bytes) \in Nat /\ Len(file) \in Nat /\ Len(heap) \in Nat
           /\ zip.mode \in {"invalid", "writing", "finalized"} /\ zip.on \in {"heap", "file"}
           /\ zip.size \in Nat /\ zip.total \in Nat /\ zip.dir \in Seq(Headers(use))
           /\ zip.total = Len(zip.dir) /\ zip.room \in SUBSET Arrays
           /\ Placed(use, Bytes, zip.dir, 0, zip.size)
<1>1. use \in Uses /\ IsBytes(heap) /\ IsBytes(file) /\ IsBytes(Bytes)
  BY DEF IInv, Layout, Bytes
<1>2. Len(Bytes) \in Nat /\ Len(file) \in Nat /\ Len(heap) \in Nat
  BY <1>1, BytesAre
<1>3. /\ zip \in [mode : {"invalid", "writing", "finalized"}, on : {"heap", "file"}, size : Nat,
               total : Nat, dir : Seq(Headers(use)), room : SUBSET Arrays]
      /\ zip.total = Len(zip.dir) /\ Placed(use, Bytes, zip.dir, 0, zip.size)
  BY DEF IInv, Layout, WriterOK
<1> QED
  BY <1>1, <1>2, <1>3

\* What the writer lists is what lies in its bytes.
LEMMA ListedIs ==
    ASSUME IInv
    PROVE  /\ Reads(use, Bytes, Directory(Bytes))
           /\ Directory(Bytes).dir = zip.dir /\ Directory(Bytes).total = zip.total
           /\ Directory(Bytes).start = 0 /\ Directory(Bytes).size = Len(Bytes)
           /\ Spans(Directory(Bytes), Bytes, zip.size)
<1> DEFINE d == Directory(Bytes)
<1>1. d.dir = zip.dir /\ d.total = zip.total /\ d.start = 0 /\ d.size = Len(Bytes)
  BY DEF Directory
<1> HIDE DEF d
<1>2. Spans(d, Bytes, zip.size)
  BY <1>1, BytesOK DEF Spans
<1>3. /\ d.dir \in Seq(Headers(use)) /\ d.total = Len(d.dir) /\ d.start \in Nat
      /\ Placed(use, Bytes, d.dir, d.start, zip.size)
      /\ use \in Uses /\ IsBytes(Bytes) /\ zip.size \in Nat
  BY <1>1, BytesOK
<1>4. Reads(use, Bytes, d)
  BY <1>2, <1>3, MembersAre
<1> QED
  BY <1>1, <1>2, <1>4 DEF d

LEMMA FloorIs ==
    ASSUME IInv, zip.mode = "writing"
    PROVE  Floor \in Nat /\ Floor <= zip.size
<1>1. zip.size \in Nat /\ zip.total \in Nat
  BY BytesOK
<1>2. call.op = "final" /\ call.step = "end" => zip.total <= zip.size
  BY DEF IInv, Layout, FinalOK
<1> QED
  BY <1>1, <1>2 DEF Floor

\* A write above zip.size leaves the members, the file between appends and an
\* open reader's members as they are.
LEMMA WriteKept ==
    ASSUME IInv, NEW ofs \in Nat, NEW cells, IsBytes(cells), zip.size <= ofs,
           SetBytes(Write(Bytes, ofs, cells)),
           UNCHANGED <<use, exists, inplace, rd, truth, seen, accepted>>,
           zip.mode = "writing", zip'.on = zip.on, Floor' = Floor,
           inplace # NotInPlace => call'.op # "opened" /\ (call'.op = "return" => call'.ok)
    PROVE  /\ Bytes' = Write(Bytes, ofs, cells) /\ IsBytes(heap') /\ IsBytes(file')
           /\ IsBytes(Bytes') /\ Len(Bytes') \in Nat
           /\ Agree(Bytes, Bytes', zip.size)
           /\ Placed(use, Bytes', zip.dir, 0, zip.size)
           /\ Members(Bytes', Directory(Bytes')) = Listed
           /\ FileOK' /\ ReaderOK'
<1>1. /\ use \in Uses /\ IsBytes(heap) /\ IsBytes(file) /\ IsBytes(Bytes)
      /\ zip.on \in {"heap", "file"} /\ zip.size \in Nat /\ zip.dir \in Seq(Headers(use))
      /\ Placed(use, Bytes, zip.dir, 0, zip.size)
  BY BytesOK
<1>2. Bytes' = Write(Bytes, ofs, cells)
  <2>1. CASE zip.on = "heap"
    BY <2>1 DEF SetBytes, Bytes
  <2>2. CASE zip.on = "file"
    BY <2>2 DEF SetBytes, Bytes
  <2> QED
    BY <1>1, <2>1, <2>2
<1>0. /\ use' = use /\ exists' = exists /\ inplace' = inplace /\ rd' = rd
      /\ truth' = truth /\ seen' = seen
  OBVIOUS
<1>3. IsBytes(Bytes') /\ Len(Bytes') >= Len(Bytes)
  BY <1>1, <1>2, WriteIs
<1>4. IsBytes(heap') /\ IsBytes(file')
  BY <1>1, <1>2, <1>3 DEF SetBytes
<1>5. Agree(Bytes, Bytes', zip.size)
  BY <1>1, <1>2, WriteAgrees
<1>6. Placed(use, Bytes', zip.dir, 0, zip.size)
  BY <1>1, <1>3, <1>5, PlacedKept
<1>7. Members(Bytes', Directory(Bytes')) = Listed
  <2> DEFINE d == Directory(Bytes)
             e == Directory(Bytes')
  <2>1. d.dir = zip.dir /\ d.total = zip.total /\ d.start = 0 /\ Spans(d, Bytes, zip.size)
    BY ListedIs
  <2>2. e.dir = zip.dir /\ e.total = zip.total /\ e.start = 0 /\ e.size = Len(Bytes')
    BY DEF Directory
  <2> HIDE DEF d, e
  <2>3. Spans(e, Bytes', zip.size)
    BY <1>3, <2>2, BytesAre DEF Spans
  <2>4. /\ d.dir \in Seq(Headers(use)) /\ d.total = Len(d.dir) /\ d.start \in Nat
        /\ e.dir = d.dir /\ e.total = d.total /\ e.start = d.start
        /\ Placed(use, Bytes, d.dir, d.start, zip.size)
    BY <1>1, <2>1, <2>2, BytesOK
  <2>5. Members(Bytes', e) = Members(Bytes, d)
    BY <1>1, <1>3, <1>5, <2>1, <2>3, <2>4, MembersKept
  <2> QED
    BY <2>5 DEF Listed, d, e
<1>8. CASE zip.on = "heap"
  <2>1. inplace = NotInPlace /\ file' = file
    BY <1>8 DEF IInv, Layout, CallOK, SetBytes
  <2>2. FileOK'
    BY <2>1 DEF IInv, Layout, FileOK, Intact
  <2>3. ReaderOK'
    BY <2>1 DEF IInv, Layout, ReaderOK
  <2> QED
    BY <1>2, <1>3, <1>4, <1>5, <1>6, <1>7, <2>2, <2>3, BytesAre
<1>9. CASE zip.on = "file"
  <2>1. inplace # NotInPlace /\ file = Bytes /\ file' = Bytes'
    BY <1>9 DEF IInv, Layout, CallOK, SetBytes, Bytes
  <2>2. FileOK'
    BY <2>1 DEF FileOK, Intact
  <2>3. ASSUME rd.mode # "reading" PROVE ReaderOK'
    <3>1. rd'.mode \in {"invalid", "reading"} /\ rd'.mode # "reading"
      BY <1>0, <2>3 DEF IInv, Layout, ReaderOK
    <3> QED
      BY <3>1 DEF ReaderOK
  <2>4. ASSUME rd.mode = "reading" PROVE ReaderOK'
    <3>1. /\ exists /\ rd.dofs \in Nat /\ rd.start \in Nat /\ rd.size \in Nat
          /\ rd.dofs <= rd.size /\ rd.size <= Len(file)
          /\ rd.dir \in Seq(Headers(use)) /\ rd.total = Len(rd.dir)
          /\ Placed(use, file, rd.dir, rd.start, rd.dofs)
          /\ Members(file, rd) = seen
          /\ rd.dofs <= Floor
      BY <2>1, <2>4 DEF IInv, Layout, ReaderOK
    <3>0. rd.dofs <= zip.size /\ rd.dofs <= ofs
      BY <1>1, <3>1, FloorIs
    <3>2. Agree(file, file', rd.dofs)
      BY <1>1, <1>2, <2>1, <3>0, <3>1, WriteAgrees
    <3>3. Placed(use, file', rd.dir, rd.start, rd.dofs)
      BY <1>1, <1>4, <3>1, <3>2, PlacedKept
    <3>4. Spans(rd, file, rd.dofs) /\ Spans(rd, file', rd.dofs)
      BY <3>1 DEF Spans
    <3>5. Members(file', rd) = Members(file, rd)
      BY <1>1, <1>4, <3>1, <3>2, <3>4, MembersKept
    <3>6. rd.size <= Len(file') /\ rd.dofs <= Floor'
      BY <1>1, <1>3, <2>1, <3>1, BytesAre
    <3> QED
      BY <1>0, <2>4, <3>1, <3>3, <3>5, <3>6 DEF ReaderOK
  <2> QED
    BY <1>2, <1>3, <1>4, <1>5, <1>6, <1>7, <2>2, <2>3, <2>4, BytesAre
<1> QED
  BY <1>1, <1>8, <1>9

-----------------------------------------------------------------------------
(* The list of members that the writer's caller sees.                      *)

ShownMembers == IF OnHeap THEN Written ELSE <<>>
ShownFinal ==
    IF OnHeap /\ zip.mode = "finalized" THEN <<"some", Holds(heap).members>> ELSE <<"none">>
Unseen ==
    /\ ShownMembers' = ShownMembers /\ ShownFinal' = ShownFinal
    /\ OnHeap' => OnHeap /\ accepted' = accepted

\* A writer of the heap shows what it lists.
LEMMA WritingShows ==
    ASSUME zip.on = "heap", zip.mode # "invalid"
    PROVE  ShownMembers = Listed /\ (zip.mode # "finalized" => ShownFinal = <<"none">>)
<1>1. Bytes = heap /\ OnHeap
  BY DEF Bytes, OnHeap
<1>2. Written = Listed
  BY <1>1, Zenon DEF Written, Listed, Directory
<1> QED
  BY <1>1, <1>2 DEF ShownMembers, ShownFinal

LEMMA WritingShowsNext ==
    ASSUME zip'.on = "heap", zip'.mode # "invalid"
    PROVE  ShownMembers' = Listed' /\ (zip'.mode # "finalized" => ShownFinal' = <<"none">>)
<1>1. Bytes' = heap' /\ OnHeap'
  BY DEF Bytes, OnHeap
<1>2. Written' = Listed'
  BY <1>1, Zenon DEF Written, Listed, Directory
<1> QED
  BY <1>1, <1>2 DEF ShownMembers, ShownFinal

LEMMA OthersShowNothing ==
    /\ ~OnHeap => ShownMembers = <<>> /\ ShownFinal = <<"none">>
    /\ ~OnHeap' => ShownMembers' = <<>> /\ ShownFinal' = <<"none">>
BY DEF ShownMembers, ShownFinal

\* The archive but for what is known of the room of its arrays.
Still ==
    /\ use' = use /\ heap' = heap /\ file' = file /\ accepted' = accepted
    /\ zip' = zip \/ \E X \in SUBSET Arrays : zip' = [zip EXCEPT !.room = X]

LEMMA StillIs ==
    ASSUME IInv, Still
    PROVE  /\ zip'.mode = zip.mode /\ zip'.on = zip.on /\ zip'.size = zip.size
           /\ zip'.total = zip.total /\ zip'.dir = zip.dir /\ zip'.room \in SUBSET Arrays
           /\ Bytes' = Bytes /\ Listed' = Listed /\ Padding' = Padding
           /\ WriterOK' /\ IsBytes(heap') /\ IsBytes(file') /\ Unseen
<1> DEFINE Z == [mode : {"invalid", "writing", "finalized"}, on : {"heap", "file"}, size : Nat,
                total : Nat, dir : Seq(Headers(use)), room : SUBSET Arrays]
<1>1. zip \in Z
  BY DEF IInv, Layout, WriterOK
<1>2. /\ zip' \in Z
      /\ zip'.mode = zip.mode /\ zip'.on = zip.on /\ zip'.size = zip.size
      /\ zip'.total = zip.total /\ zip'.dir = zip.dir /\ zip'.room \in SUBSET Arrays
  <2>1. CASE zip' = zip
    BY <1>1, <2>1
  <2>2. ASSUME NEW X \in SUBSET Arrays, zip' = [zip EXCEPT !.room = X]
        PROVE  /\ zip' \in Z
               /\ zip'.mode = zip.mode /\ zip'.on = zip.on /\ zip'.size = zip.size
               /\ zip'.total = zip.total /\ zip'.dir = zip.dir /\ zip'.room \in SUBSET Arrays
    BY <1>1, <2>2
  <2> QED
    BY <2>1, <2>2 DEF Still
<1>3. use' = use /\ heap' = heap /\ file' = file /\ accepted' = accepted
  BY DEF Still
<1>4. Bytes' = Bytes
  BY <1>2, <1>3 DEF Bytes
<1>5. Listed' = Listed
  BY <1>2, <1>4 DEF Listed, Directory
<1>6. Padding' = Padding
  BY <1>2, <1>3 DEF Padding
<1>7. WriterOK'
  <2>1. zip'.total = Len(zip'.dir) /\ Placed(use', Bytes', zip'.dir, 0, zip'.size)
    BY <1>2, <1>3, <1>4, BytesOK
  <2> QED
    BY <1>2, <1>3, <2>1 DEF WriterOK
<1>8. Unseen
  <2>1. OnHeap' <=> OnHeap
    BY <1>2 DEF OnHeap
  <2>2. Written' = Written
    BY <1>2, <1>3 DEF Written
  <2> QED
    BY <1>2, <1>3, <2>1, <2>2 DEF Unseen, ShownMembers, ShownFinal
<1> QED
  BY <1>2, <1>3, <1>4, <1>5, <1>6, <1>7, <1>8 DEF IInv, Layout

\* What a step that leaves all bytes alone keeps.
LEMMA StillKept ==
    ASSUME IInv, Still, UNCHANGED <<exists, rd, truth, seen, accepted>>, Intact' => Intact,
           inplace' # NotInPlace => Floor' = Floor, inplace' # NotInPlace => inplace # NotInPlace
    PROVE  FileOK' /\ ReaderOK'
<1>1. /\ use' = use /\ heap' = heap /\ file' = file
      /\ exists' = exists /\ rd' = rd /\ truth' = truth /\ seen' = seen
  BY StillIs DEF Still
<1>2. FileOK'
  BY <1>1 DEF IInv, Layout, FileOK
<1>3. ReaderOK'
  BY <1>1 DEF IInv, Layout, ReaderOK
<1> QED
  BY <1>2, <1>3

LEMMA StillUnstrayed ==
    ASSUME IInv, Still, Adding = 0, Adding' \in Nat,
           call'.op = "final" => call'.step = "dir"
    PROVE  NoStray'
<1>1. /\ Bytes' = Bytes /\ zip'.mode = zip.mode /\ zip'.size = zip.size /\ zip'.total = zip.total
      /\ Len(Bytes) \in Nat /\ zip.size \in Nat /\ zip.total \in Nat
  BY StillIs, BytesOK
<1>2. Edge' = zip.size + zip.total + 1
  BY <1>1 DEF Edge
<1>3. Edge \in Nat /\ Edge <= zip.size + zip.total + 1
  BY <1>1 DEF Edge
<1>4. zip.mode = "writing" => \A i \in 1 .. Len(Bytes) : i > Edge /\ i > Adding => Bytes[i].t # "end"
  BY DEF IInv, Layout, NoStray
<1>5. zip.mode = "writing" => \A i \in 1 .. Len(Bytes) : i > Edge' /\ i > Adding' => Bytes[i].t # "end"
  BY <1>1, <1>2, <1>3, <1>4
<1> QED
  BY <1>1, <1>5 DEF NoStray

\* A call that fails leaves the archive as it was.
LEMMA CallFails ==
    ASSUME IInv, Still, Return(FALSE), Adding = 0, zip.mode = "writing",
           inplace = NotInPlace \/ call.op = "opened",
           UNCHANGED <<exists, inplace, rd, truth, seen, accepted>>
    PROVE  Layout' /\ Unseen
<1>1. /\ use' = use /\ exists' = exists /\ inplace' = inplace /\ rd' = rd /\ truth' = truth
      /\ zip'.mode = "writing" /\ zip'.on = zip.on
      /\ WriterOK' /\ IsBytes(heap') /\ IsBytes(file') /\ Unseen
  BY StillIs DEF Still
<1>2. /\ inplace = NotInPlace => call' = NoCall
      /\ inplace # NotInPlace => call' = [op |-> "return", step |-> "opened", ok |-> FALSE]
  BY DEF Return
<1>3. /\ call'.op \in {"none", "return"} /\ (call'.op = "none" => call' = NoCall)
      /\ inplace = NotInPlace => call'.op = "none"
      /\ inplace # NotInPlace => call'.op = "return" /\ call'.step = "opened" /\ ~call'.ok
  BY <1>2 DEF NoCall
<1>4. CallOK'
  BY <1>1, <1>3 DEF IInv, Layout, CallOK
<1>5. MemOK' /\ CopyOK' /\ FinalOK'
  BY <1>1, <1>3 DEF MemOK, CopyOK, FinalOK
<1>6. NoStray'
  <2>1. Adding' = 0
    BY <1>3 DEF Adding
  <2> QED
    BY <1>3, <2>1, StillUnstrayed
<1>7. FileOK' /\ ReaderOK'
  <2>1. Intact' => Intact
    BY <1>1, <1>3 DEF Intact
  <2>2. inplace' # NotInPlace => Floor' = Floor
    BY <1>1, <1>3, StillIs DEF Floor
  <2> QED
    BY <1>1, <2>1, <2>2, StillKept
<1>8. AppendOK'
  BY <1>1, <1>3 DEF AppendOK
<1> QED
  BY <1>1, <1>4, <1>5, <1>6, <1>7, <1>8, BytesOK DEF IInv, Layout

\* A call under way.
LEMMA CallIs ==
    ASSUME IInv, call.op \in {"mem", "copy", "final"}
    PROVE  /\ zip.mode = "writing"
           /\ call.op = "copy" => inplace = NotInPlace
           /\ inplace = NotInPlace => zip.on = "heap"
           /\ inplace # NotInPlace => zip.on = "file"
BY DEF IInv, Layout, CallOK

\* The steps of the list.
Cleared == ShownMembers' = <<>> /\ ShownFinal' = <<"none">> /\ accepted' = <<>>
Grown ==
    /\ ShownFinal = <<"none">> /\ ShownFinal' = <<"none">> /\ OnHeap
    /\ \E m \in [name : use.names, content : Mine(use)] :
          ShownMembers' = Append(ShownMembers, m) /\ accepted' = Append(accepted, m)
Finished ==
    /\ ShownFinal = <<"none">> /\ ShownFinal' = <<"some", ShownMembers>>
    /\ ShownMembers' = ShownMembers /\ accepted' = accepted /\ OnHeap
ListStep == Unseen \/ Cleared \/ Grown \/ Finished

LEMMA NoMembers ==
    ASSUME NEW b, NEW d, d.total = 0
    PROVE  Members(b, d) = <<>>
<1>1. Members(b, d) = [i \in 1 .. 0 |-> Members(b, d)[i]]
  BY DEF Members
<1> QED
  BY <1>1, FunctionIsBytes, EmptyIs

LEMMA FileKept ==
    ASSUME IInv, UNCHANGED <<use, file, exists, rd, truth, seen>>, Intact' => Intact,
           inplace' = NotInPlace
    PROVE  FileOK' /\ ReaderOK' /\ IsBytes(file')
<1>1. /\ use' = use /\ file' = file /\ exists' = exists /\ rd' = rd /\ truth' = truth
      /\ seen' = seen
  OBVIOUS
<1> QED
  BY <1>1 DEF IInv, Layout, FileOK, ReaderOK

\* A writer begins or is given up.
LEMMA Fresh ==
    ASSUME IInv, Idle, UNCHANGED <<use, file, exists, call, inplace, rd, truth, seen>>,
           heap' = <<>>, accepted' = <<>>, NEW m \in {"invalid", "writing"}, NEW n \in Nat,
           zip' = [mode |-> m, on |-> "heap", size |-> n, total |-> 0, dir |-> <<>>, room |-> {}]
    PROVE  Layout' /\ Cleared
<1>1. /\ use' = use /\ exists' = exists /\ call' = NoCall /\ inplace' = NotInPlace /\ rd' = rd
      /\ inplace = NotInPlace
      /\ zip'.mode = m /\ zip'.on = "heap" /\ zip'.size = n /\ zip'.total = 0 /\ zip'.dir = <<>>
  BY DEF Idle
<1>2. Bytes' = <<>> /\ IsBytes(heap') /\ Len(Bytes') = 0
  BY <1>1, NoCells DEF Bytes
<1>3. FileOK' /\ ReaderOK' /\ IsBytes(file')
  <2>1. Intact' => Intact
    BY <1>1 DEF Intact
  <2> QED
    BY <1>1, <2>1, FileKept
<1>4. CallOK' /\ MemOK' /\ CopyOK' /\ AppendOK'
  BY <1>1 DEF CallOK, MemOK, CopyOK, AppendOK, NoCall
<1>5. FinalOK'
  BY <1>1 DEF FinalOK, NoCall
<1>6. NoStray'
  BY <1>2 DEF NoStray
<1>7. WriterOK'
  <2> DEFINE Z == [mode : {"invalid", "writing", "finalized"}, on : {"heap", "file"}, size : Nat,
                  total : Nat, dir : Seq(Headers(use)), room : SUBSET Arrays]
             S == Headers(use)
  <2>1. zip' \in Z
    <3>1. <<>> \in Seq(S)
      <4> HIDE DEF S
      <4> QED
        OBVIOUS
    <3>2. {} \in SUBSET Arrays
      OBVIOUS
    <3> HIDE DEF S
    <3> QED
      BY <1>1, <3>1, <3>2 DEF S
  <2>2. Placed(use, Bytes', <<>>, 0, n)
    BY DEF Placed
  <2>3. zip'.total = Len(zip'.dir)
    BY <1>1
  <2> QED
    BY <1>1, <2>1, <2>2, <2>3 DEF WriterOK
<1>8. Cleared
  <2>1. Written' = <<>>
    <3>1. [dir |-> zip'.dir, total |-> zip'.total, start |-> 0, size |-> Len(heap')].total = 0
      BY <1>1
    <3> QED
      BY <3>1, NoMembers DEF Written
  <2> QED
    BY <1>1, <2>1 DEF Cleared, ShownMembers, ShownFinal
<1> QED
  BY <1>1, <1>2, <1>3, <1>4, <1>5, <1>6, <1>7, <1>8, BytesOK DEF IInv, Layout

LEMMA Initially ==
    ASSUME Init
    PROVE  IInv /\ ShownMembers = <<>> /\ ShownFinal = <<"none">>
<1>1. /\ use \in Uses /\ heap = <<>> /\ file = <<>> /\ ~exists /\ zip = NoZip /\ call = NoCall
      /\ inplace = NotInPlace /\ rd.mode = "invalid"
  BY DEF Init, NoReader
<1>2. /\ zip.mode = "invalid" /\ zip.on = "heap" /\ zip.size = 0 /\ zip.total = 0
      /\ zip.dir = <<>> /\ zip.room = {}
  BY <1>1 DEF NoZip
<1>3. IsBytes(heap) /\ IsBytes(file) /\ Len(Bytes) = 0
  BY <1>1, <1>2, NoCells DEF Bytes
<1>4. FileOK /\ ReaderOK
  BY <1>1 DEF FileOK, ReaderOK
<1>5. CallOK /\ MemOK /\ CopyOK /\ AppendOK /\ FinalOK /\ NoStray
  BY <1>1, <1>2 DEF CallOK, MemOK, CopyOK, AppendOK, FinalOK, NoStray, NoCall
<1>6. WriterOK
  <2> DEFINE S == Headers(use)
             Z == [mode : {"invalid", "writing", "finalized"}, on : {"heap", "file"}, size : Nat,
                  total : Nat, dir : Seq(S), room : SUBSET Arrays]
  <2> HIDE DEF S
  <2>1. zip \in Z
    BY <1>1 DEF NoZip
  <2>2. Placed(use, Bytes, zip.dir, 0, zip.size)
    BY <1>2 DEF Placed
  <2>3. zip.total = Len(zip.dir)
    BY <1>2
  <2> QED
    BY <2>1, <2>2, <2>3 DEF WriterOK, S
<1>7. ShownMembers = <<>> /\ ShownFinal = <<"none">>
  BY <1>2 DEF ShownMembers, ShownFinal, OnHeap
<1>8. AcceptedOK
  BY <1>2 DEF AcceptedOK, OnHeap
<1> QED
  BY <1>1, <1>3, <1>4, <1>5, <1>6, <1>7, <1>8 DEF IInv, Layout

LEMMA InitStep ==
    ASSUME IInv, lmz_writer_init, use' = use
    PROVE  Layout' /\ ListStep
<1>1. /\ Idle /\ heap' = <<>>
      /\ zip' = [mode |-> "writing", on |-> "heap", size |-> use.reserve, total |-> 0,
                 dir |-> <<>>, room |-> {}]
      /\ UNCHANGED <<use, file, exists, call, inplace, rd, truth, seen>> /\ accepted' = <<>>
  BY DEF lmz_writer_init, NoZip, files
<1>2. use.reserve \in Nat
  BY BytesOK, ZipConstants
<1> QED
  BY <1>1, <1>2, Fresh DEF ListStep

LEMMA GcStep ==
    ASSUME IInv, lmz_writer_gc, use' = use
    PROVE  Layout' /\ ListStep
<1>1. /\ Idle /\ heap' = <<>>
      /\ zip' = [mode |-> "invalid", on |-> "heap", size |-> 0, total |-> 0, dir |-> <<>>, room |-> {}]
      /\ UNCHANGED <<use, file, exists, call, inplace, rd, truth, seen>> /\ accepted' = <<>>
  BY DEF lmz_writer_gc, NoZip, files
<1> QED
  BY <1>1, Fresh DEF ListStep

\* An addition is refused, or begins.
LEMMA AddMemStep ==
    ASSUME IInv, NEW n \in use.names, NEW c \in Mine(use), NEW deflate,
           AddMem(n, c, deflate), zip.mode = "writing",
           UNCHANGED <<use, heap, file, exists, inplace, rd, truth, seen, accepted>>,
           Idle \/ (call.op = "opened" /\ inplace # NotInPlace
                    /\ n = inplace.name /\ c = inplace.content)
    PROVE  Layout' /\ ListStep
<1>1. call.op \in {"none", "opened"} /\ Adding = 0 /\ ~Added
      /\ (inplace = NotInPlace \/ call.op = "opened")
  BY DEF Idle, NoCall, Adding, Added
<1>0. /\ use' = use /\ heap' = heap /\ file' = file /\ inplace' = inplace /\ exists' = exists
      /\ truth' = truth /\ rd' = rd
  OBVIOUS
<1>2. CASE zip' = zip /\ Return(FALSE)
  <2>1. Still
    BY <1>0, <1>2 DEF Still
  <2> QED
    BY <1>1, <1>2, <2>1, CallFails DEF ListStep
<1>3. CASE AllocFails(deflate /\ c # <<>>) /\ Return(FALSE)
  <2>1. Still
    <3>1. zip.room \in SUBSET Arrays
      BY BytesOK
    <3>2. zip.room \union {"m_central_dir"} \in SUBSET Arrays /\ Arrays \in SUBSET Arrays
      BY <3>1 DEF Arrays
    <3>3. \/ zip' = zip
          \/ zip' = [zip EXCEPT !.room = zip.room \union {"m_central_dir"}]
          \/ zip' = [zip EXCEPT !.room = Arrays]
      BY <1>3 DEF AllocFails, ensure_room
    <3> QED
      BY <1>0, <3>2, <3>3 DEF Still
  <2> QED
    BY <1>1, <1>3, <2>1, CallFails DEF ListStep
<1>4. ASSUME zip' = [zip EXCEPT !.room = Arrays],
             call' = [op |-> "mem", step |-> "zeros", name |-> n, content |-> c,
                      method |-> IF deflate /\ Len(c) > 1 THEN "deflated" ELSE "stored",
                      ofs |-> zip.size + Padding]
      PROVE  Layout' /\ ListStep
  <2>1. Still
    <3>1. Arrays \in SUBSET Arrays
      OBVIOUS
    <3> QED
      BY <1>0, <1>4, <3>1 DEF Still
  <2>2. /\ zip'.mode = "writing" /\ zip'.on = zip.on /\ zip'.size = zip.size /\ Padding' = Padding
        /\ Listed' = Listed /\ WriterOK' /\ IsBytes(heap') /\ IsBytes(file') /\ Unseen
    BY <2>1, StillIs
  <2>3. zip'.room = Arrays
    <3>1. DOMAIN zip = {"mode", "on", "size", "total", "dir", "room"}
      BY DEF IInv, Layout, WriterOK
    <3> QED
      BY <1>4, <3>1
  <2>4. /\ call'.op = "mem" /\ call'.step = "zeros" /\ call'.name = n /\ call'.content = c
        /\ call'.ofs = zip.size + Padding
    BY <1>4
  <2>5. CallOK'
    BY <1>0, <1>1, <2>2, <2>4 DEF IInv, Layout, CallOK, Idle
  <2>6. MemOK'
    <3>1. zip.size + Padding \in Nat
      BY BytesOK, PaddingIs
    <3>2. call' \in [op : {"mem"}, step : {"zeros", "name", "data", "local", "central"},
                    name : use.names, content : Mine(use), method : {"stored", "deflated"}, ofs : Nat]
      <4>1. (IF deflate /\ Len(c) > 1 THEN "deflated" ELSE "stored") \in {"stored", "deflated"}
        OBVIOUS
      <4> QED
        BY <1>4, <3>1, <4>1
    <3> QED
      BY <1>0, <2>2, <2>3, <2>4, <3>2 DEF MemOK
  <2>7. CopyOK' /\ FinalOK'
    BY <2>2, <2>4 DEF CopyOK, FinalOK
  <2>8. NoStray'
    <3>1. Adding' = 0
      BY <2>4 DEF Adding
    <3> QED
      BY <1>1, <2>1, <2>4, <3>1, StillUnstrayed
  <2>9. FileOK' /\ ReaderOK'
    <3>1. Intact' => Intact
      BY <1>0, <2>4 DEF Intact
    <3>2. Floor' = Floor
      BY <1>1, <2>2, <2>4 DEF Floor
    <3> QED
      BY <1>0, <2>1, <3>1, <3>2, StillKept
  <2>10. AppendOK'
    <3>1. ~Added'
      BY <2>4 DEF Added
    <3>2. CASE inplace = NotInPlace
      BY <1>0, <3>2 DEF AppendOK
    <3>3. CASE inplace # NotInPlace
      <4>1. Listed = truth
        BY <1>1, <3>3 DEF IInv, Layout, AppendOK, Idle
      <4> QED
        BY <1>0, <2>2, <2>4, <3>1, <4>1 DEF AppendOK
    <3> QED
      BY <3>2, <3>3
  <2> QED
    BY <1>0, <2>2, <2>5, <2>6, <2>7, <2>8, <2>9, <2>10, BytesOK DEF IInv, Layout, ListStep
<1> QED
  BY <1>2, <1>3, <1>4 DEF AddMem, ensure_room

LEMMA AddStep ==
    ASSUME IInv, use' = use, NEW n \in use.names, NEW c \in use.contents, NEW deflate,
           lmz_writer_add_mem(n, c, deflate)
    PROVE  Layout' /\ ListStep
<1>1. c \in Mine(use)
  BY DEF Mine
<1>2. /\ UNCHANGED <<use, heap, file, exists, inplace, rd, truth, seen, accepted>>
      /\ Idle /\ zip.mode = "writing" /\ AddMem(n, c, deflate)
  BY DEF lmz_writer_add_mem, files, history
<1> QED
  BY <1>1, <1>2, AddMemStep

LEMMA AddInPlaceStep ==
    ASSUME IInv, use' = use, AddInPlace
    PROVE  Layout' /\ ListStep
<1>1. /\ UNCHANGED <<use, heap, file, exists, inplace, rd, truth, seen, accepted>>
      /\ call.op = "opened" /\ AddMem(inplace.name, inplace.content, inplace.deflate)
  BY DEF AddInPlace, files, history
<1>2. inplace # NotInPlace /\ zip.mode = "writing"
  BY <1>1 DEF IInv, Layout, CallOK
<1>3. inplace.name \in use.names /\ inplace.content \in Mine(use)
  BY <1>2 DEF IInv, Layout, CallOK, Mine
<1> QED
  BY <1>1, <1>2, <1>3, AddMemStep

\* A finalization begins, of a caller or of an append.
LEMMA FinalizeBegins ==
    ASSUME IInv, UNCHANGED <<use, heap, file, exists, zip, inplace, rd, truth, seen, accepted>>,
           call' = [op |-> "final", step |-> "dir", dofs |-> 0, dsize |-> 0],
           \/ Idle /\ zip.mode = "writing"
           \/ inplace # NotInPlace /\ call.op = "return" /\ call.step # "final" /\ call.ok
    PROVE  Layout' /\ ListStep
<1>1. /\ use' = use /\ heap' = heap /\ file' = file /\ zip' = zip /\ inplace' = inplace
      /\ exists' = exists /\ rd' = rd /\ truth' = truth /\ accepted' = accepted
      /\ call'.op = "final" /\ call'.step = "dir"
  OBVIOUS
<1>2. Still
  BY <1>1 DEF Still
<1>3. Listed' = Listed /\ WriterOK' /\ IsBytes(heap') /\ IsBytes(file') /\ Unseen
  BY <1>2, StillIs
<1>4. CallOK' /\ zip.mode = "writing"
  BY <1>1 DEF IInv, Layout, CallOK, Idle
<1>5. MemOK' /\ CopyOK' /\ FinalOK'
  <2>1. call' \in [op : {"final"}, step : {"dir", "end"}, dofs : Nat, dsize : Nat]
        /\ call'.dofs = 0 /\ call'.dsize = 0
    OBVIOUS
  <2> QED
    BY <1>1, <1>4, <2>1 DEF MemOK, CopyOK, FinalOK
<1>6. NoStray'
  <2>1. Adding = 0 /\ Adding' = 0
    BY <1>1 DEF Adding, Idle, NoCall
  <2> QED
    BY <1>1, <1>2, <2>1, StillUnstrayed
<1>7. FileOK' /\ ReaderOK'
  <2>1. Intact' => Intact
    BY <1>1 DEF Intact
  <2>2. Floor' = Floor
    BY <1>1, <1>4 DEF Floor, Idle, NoCall
  <2> QED
    BY <1>1, <1>2, <2>1, <2>2, StillKept
<1>8. AppendOK'
  <2>1. CASE inplace = NotInPlace
    BY <1>1, <2>1 DEF AppendOK
  <2>2. CASE inplace # NotInPlace
    <3>1. call.op = "return" /\ call.ok
      BY <2>2 DEF Idle
    <3>2. Listed = Append(truth, [name |-> inplace.name, content |-> inplace.content])
      BY <2>2, <3>1 DEF IInv, Layout, AppendOK, Added
    <3> QED
      BY <1>1, <1>3, <3>2 DEF AppendOK, Added
  <2> QED
    BY <2>1, <2>2
<1> QED
  BY <1>1, <1>3, <1>4, <1>5, <1>6, <1>7, <1>8, BytesOK DEF IInv, Layout, ListStep

LEMMA FinalizeStep ==
    ASSUME IInv, use' = use, lmz_writer_finalize
    PROVE  Layout' /\ ListStep
BY FinalizeBegins DEF lmz_writer_finalize, files, history

LEMMA ThenFinalizeStep ==
    ASSUME IInv, use' = use, ThenFinalize
    PROVE  Layout' /\ ListStep
<1>1. inplace # NotInPlace
  BY DEF IInv, Layout, CallOK, ThenFinalize
<1> QED
  BY <1>1, FinalizeBegins DEF ThenFinalize, files, history

LEMMA CopyStep ==
    ASSUME IInv, use' = use, NEW i, lmz_writer_add_from_zip_reader(i)
    PROVE  Layout' /\ ListStep
<1>1. /\ UNCHANGED <<use, heap, file, exists, zip, inplace, rd, truth, seen, accepted>>
      /\ Idle /\ zip.mode = "writing" /\ zip.on = "heap" /\ rd.mode = "reading"
      /\ i \in 1 .. rd.total
      /\ \/ Return(FALSE)
         \/ call' = [op |-> "copy", step |-> "header", index |-> i, from |-> LocalHeaderOfs(rd, i),
                     head |-> rd.dir[i], ofs |-> zip.size + Padding]
  BY DEF lmz_writer_add_from_zip_reader, files, history
<1>2. /\ use' = use /\ heap' = heap /\ file' = file /\ zip' = zip /\ inplace' = inplace
      /\ exists' = exists /\ rd' = rd /\ truth' = truth /\ inplace = NotInPlace
      /\ accepted' = accepted
  BY <1>1 DEF Idle
<1>3. Still
  BY <1>2 DEF Still
<1>4. Adding = 0
  BY <1>1 DEF Adding, Idle, NoCall
<1>5. CASE Return(FALSE)
  BY <1>1, <1>2, <1>3, <1>4, <1>5, CallFails DEF ListStep
<1>6. ASSUME call' = [op |-> "copy", step |-> "header", index |-> i, from |-> LocalHeaderOfs(rd, i),
                      head |-> rd.dir[i], ofs |-> zip.size + Padding]
      PROVE  Layout' /\ ListStep
  <2>1. /\ Padding' = Padding /\ WriterOK' /\ IsBytes(heap') /\ IsBytes(file') /\ Unseen
    BY <1>3, StillIs
  <2>2. /\ call'.op = "copy" /\ call'.step = "header" /\ call'.from = LocalHeaderOfs(rd, i)
        /\ call'.index = i
        /\ call'.head = rd.dir[i] /\ call'.ofs = zip.size + Padding
    BY <1>6
  <2>3. /\ i \in DOMAIN rd.dir /\ rd.dir[i] \in Headers(use) /\ LocalHeaderOfs(rd, i) \in Nat
        /\ zip.size + Padding \in Nat /\ i \in Nat
    <3>1. rd.dir \in Seq(Headers(use)) /\ rd.total = Len(rd.dir) /\ rd.start \in Nat
      BY <1>1 DEF IInv, Layout, ReaderOK
    <3>2. i \in DOMAIN rd.dir /\ rd.dir[i] \in Headers(use) /\ i \in Nat
      BY <1>1, <3>1
    <3>3. LocalHeaderOfs(rd, i) \in Nat
      BY <3>1, <3>2 DEF LocalHeaderOfs, Headers
    <3>4. zip.size + Padding \in Nat
      BY BytesOK, PaddingIs
    <3> QED
      BY <3>2, <3>3, <3>4
  <2>4. CopyOK'
    <3>1. call' \in [op : {"copy"}, step : {"header", "body", "central"}, index : Nat, from : Nat,
                    head : Headers(use), ofs : Nat]
      <4> DEFINE H == Headers(use)
      <4>1. rd.dir[i] \in H
        BY <2>3
      <4> HIDE DEF H
      <4>2. call' \in [op : {"copy"}, step : {"header", "body", "central"}, index : Nat, from : Nat,
                      head : H, ofs : Nat]
        BY <1>6, <2>3, <4>1
      <4> QED
        BY <4>2 DEF H
    <3>2. rd'.dir = rd.dir /\ LocalHeaderOfs(rd', i) = LocalHeaderOfs(rd, i) /\ rd'.mode = "reading"
      BY <1>1, <1>2
    <3> QED
      BY <1>2, <2>1, <2>2, <2>3, <3>1, <3>2 DEF CopyOK
  <2>5. CallOK' /\ MemOK' /\ FinalOK' /\ AppendOK'
    BY <1>1, <1>2, <2>2 DEF CallOK, MemOK, FinalOK, AppendOK
  <2>6. NoStray'
    <3>1. Adding' = 0
      BY <2>2 DEF Adding
    <3> QED
      BY <1>3, <1>4, <2>2, <3>1, StillUnstrayed
  <2>7. FileOK' /\ ReaderOK'
    <3>1. Intact
      BY <1>2 DEF Intact
    <3>2. Floor' = Floor
      BY <1>1, <1>2, <2>2 DEF Floor, Idle, NoCall
    <3> QED
      BY <1>1, <1>2, <1>3, <3>1, <3>2, StillKept
  <2> QED
    BY <1>2, <2>1, <2>4, <2>5, <2>6, <2>7, BytesOK DEF IInv, Layout, ListStep
<1> QED
  BY <1>1, <1>5, <1>6

\* A write of an addition or a copy: the call goes on, and the archive is as
\* it was below zip.size.
LEMMA WriteGoesOn ==
    ASSUME IInv, NEW ofs \in Nat, NEW cells, IsBytes(cells), zip.size <= ofs,
           SetBytes(Write(Bytes, ofs, cells)), zip' = zip,
           UNCHANGED <<use, exists, inplace, rd, truth, seen, accepted>>,
           call.op \in {"mem", "copy"}, call'.op = call.op,
           call.op = "mem" => call'.name = call.name /\ call'.content = call.content
    PROVE  /\ Bytes' = Write(Bytes, ofs, cells) /\ Len(Bytes') \in Nat
           /\ IsBytes(heap') /\ IsBytes(file')
           /\ WriterOK' /\ CallOK' /\ FinalOK' /\ FileOK' /\ ReaderOK' /\ AppendOK'
           /\ Padding' = Padding /\ Unseen
<1>1. /\ use' = use /\ exists' = exists /\ inplace' = inplace /\ rd' = rd /\ truth' = truth
      /\ zip' = zip /\ zip.size \in Nat /\ zip.mode = "writing" /\ call.op # "final"
      /\ zip.on \in {"heap", "file"} /\ accepted' = accepted
  BY BytesOK, CallIs
<1>2. /\ Bytes' = Write(Bytes, ofs, cells) /\ IsBytes(heap') /\ IsBytes(file')
      /\ IsBytes(Bytes') /\ Len(Bytes') \in Nat
      /\ Placed(use, Bytes', zip.dir, 0, zip.size)
      /\ Members(Bytes', Directory(Bytes')) = Listed
      /\ FileOK' /\ ReaderOK'
  <2>1. /\ zip'.on = zip.on /\ Floor' = Floor
        /\ call'.op # "opened" /\ call'.op # "return"
    BY <1>1 DEF Floor
  <2> QED
    BY <1>1, <2>1, WriteKept
<1>3. WriterOK'
  BY <1>1, <1>2 DEF IInv, Layout, WriterOK
<1>4. CallOK'
  BY <1>1 DEF IInv, Layout, CallOK
<1>5. FinalOK'
  BY <1>1 DEF FinalOK
<1>6. Listed' = Listed
  BY <1>1, <1>2 DEF Listed, Directory
<1>7. AppendOK'
  BY <1>1, <1>6 DEF IInv, Layout, AppendOK, Added
<1>8. Unseen
  <2>1. CASE zip.on = "heap"
    BY <1>1, <1>6, <2>1, WritingShows, WritingShowsNext DEF Unseen, OnHeap
  <2>2. CASE zip.on = "file"
    BY <1>1, <2>2, OthersShowNothing DEF Unseen, OnHeap
  <2> QED
    BY <1>1, <2>1, <2>2
<1>9. Padding' = Padding
  BY <1>1 DEF Padding
<1> QED
  BY <1>2, <1>3, <1>4, <1>5, <1>7, <1>8, <1>9

\* What an addition knows when it writes.
LEMMA MemIs ==
    ASSUME IInv, call.op = "mem"
    PROVE  /\ call \in [op : {"mem"}, step : {"zeros", "name", "data", "local", "central"},
                       name : use.names, content : Mine(use), method : {"stored", "deflated"}, ofs : Nat]
           /\ call.ofs = zip.size + Padding /\ Padding \in Nat /\ zip.size \in Nat
           /\ IsBytes(call.content) /\ IsBytes(DataOf(call)) /\ Len(DataOf(call)) \in Nat
           /\ zip.mode = "writing"
<1>1. /\ call \in [op : {"mem"}, step : {"zeros", "name", "data", "local", "central"},
                  name : use.names, content : Mine(use), method : {"stored", "deflated"}, ofs : Nat]
      /\ call.ofs = zip.size + Padding
  BY DEF IInv, Layout, MemOK
<1>2. use \in Uses /\ zip.size \in Nat /\ Padding \in Nat
  BY BytesOK, PaddingIs
<1>3. IsBytes(call.content)
  BY <1>1, <1>2, ContentIs
<1>4. IsBytes(DataOf(call))
  BY <1>3, DeflatedIs DEF DataOf
<1>5. Len(DataOf(call)) \in Nat
  BY <1>4, BytesAre
<1> QED
  BY <1>1, <1>2, <1>3, <1>4, <1>5, CallIs

LEMMA MemGoesOn ==
    ASSUME IInv, call.op = "mem", NEW st, At(st)
    PROVE  /\ call'.op = "mem" /\ call'.step = st /\ call'.name = call.name
           /\ call'.content = call.content /\ call'.method = call.method /\ call'.ofs = call.ofs
           /\ DataOf(call') = DataOf(call)
           /\ st \in {"zeros", "name", "data", "local", "central"} =>
                 call' \in [op : {"mem"}, step : {"zeros", "name", "data", "local", "central"},
                            name : use.names, content : Mine(use), method : {"stored", "deflated"},
                            ofs : Nat]
<1> DEFINE N == use.names
           C == Mine(use)
<1> HIDE DEF N, C
<1>1. call \in [op : {"mem"}, step : {"zeros", "name", "data", "local", "central"},
                name : N, content : C, method : {"stored", "deflated"}, ofs : Nat]
  BY MemIs DEF N, C
<1>2. call' = [call EXCEPT !.step = st]
  BY DEF At
<1>3. /\ call'.op = "mem" /\ call'.step = st /\ call'.name = call.name
      /\ call'.content = call.content /\ call'.method = call.method /\ call'.ofs = call.ofs
  BY <1>1, <1>2
<1>4. st \in {"zeros", "name", "data", "local", "central"} =>
         call' \in [op : {"mem"}, step : {"zeros", "name", "data", "local", "central"},
                    name : N, content : C, method : {"stored", "deflated"}, ofs : Nat]
  BY <1>1, <1>2
<1>5. DataOf(call') = DataOf(call)
  BY <1>3 DEF DataOf
<1> QED
  BY <1>3, <1>4, <1>5 DEF N, C

\* A write puts no end record above what is being added.
LEMMA PutUnstrayed ==
    ASSUME IInv, NEW ofs \in Nat, NEW cells, IsBytes(cells), Bytes' = Write(Bytes, ofs, cells),
           zip.mode = "writing", Edge \in Nat, Edge' \in Nat, Edge <= Edge',
           Adding \in Nat, Adding' \in Nat, Adding <= Adding',
           \A k \in 1 .. Len(cells) : cells[k].t # "end" \/ ofs + k <= Adding'
    PROVE  NoStray'
<1>1. /\ IsBytes(Bytes) /\ Len(Bytes) \in Nat /\ Len(cells) \in Nat
  BY BytesOK, BytesAre
<1>2. /\ \A k \in 1 .. Len(cells) : Bytes'[ofs + k] = cells[k]
      /\ \A i \in 1 .. Len(Bytes') :
            i <= ofs \/ i > ofs + Len(cells) =>
               Bytes'[i] = IF i <= Len(Bytes) THEN Bytes[i] ELSE Junk
      /\ Len(Bytes') \in Nat
  <2>1. Overwritten(Bytes, ofs, cells, Bytes')
    BY <1>1, WrittenIs
  <2> QED
    BY <2>1 DEF Overwritten
<1>4. \A i \in 1 .. Len(Bytes) : i > Edge /\ i > Adding => Bytes[i].t # "end"
  BY DEF IInv, Layout, NoStray
<1>5. ASSUME NEW i \in 1 .. Len(Bytes'), i > Edge', i > Adding'
      PROVE  Bytes'[i].t # "end"
  <2>1. CASE i > ofs /\ i <= ofs + Len(cells)
    <3>1. PICK k \in Int : k = i - ofs
      BY <1>2
    <3>2. k \in 1 .. Len(cells) /\ ofs + k = i
      BY <1>1, <1>2, <2>1, <3>1
    <3>3. Bytes'[i] = cells[k] /\ ~(ofs + k <= Adding')
      BY <1>2, <1>5, <3>2
    <3> QED
      BY <3>2, <3>3
  <2>2. CASE ~(i > ofs /\ i <= ofs + Len(cells))
    <3>1. Bytes'[i] = IF i <= Len(Bytes) THEN Bytes[i] ELSE Junk
      BY <1>1, <1>2, <2>2
    <3>2. CASE i <= Len(Bytes)
      <4>1. i \in 1 .. Len(Bytes) /\ i > Edge /\ i > Adding
        BY <1>1, <1>2, <1>5, <3>2
      <4> QED
        BY <1>4, <3>1, <3>2, <4>1
    <3>3. CASE ~(i <= Len(Bytes))
      BY <3>1, <3>3 DEF Junk
    <3> QED
      BY <3>2, <3>3
  <2> QED
    BY <2>1, <2>2
<1> QED
  BY <1>5 DEF NoStray

LEMMA WriteUnstrayed ==
    ASSUME IInv, NEW ofs \in Nat, NEW cells, IsBytes(cells), Bytes' = Write(Bytes, ofs, cells),
           zip' = zip, call.op \in {"mem", "copy"}, call'.op = call.op,
           Adding \in Nat, Adding' \in Nat, Adding <= Adding',
           \A k \in 1 .. Len(cells) : cells[k].t # "end" \/ ofs + k <= Adding'
    PROVE  NoStray'
<1>1. zip.mode = "writing" /\ zip.size \in Nat /\ zip.total \in Nat
  BY BytesOK, CallIs
<1>2. Edge' = Edge /\ Edge \in Nat
  BY <1>1 DEF Edge
<1>3. Edge <= Edge' /\ Edge' \in Nat
  BY <1>2
<1> QED
  BY <1>1, <1>2, <1>3, PutUnstrayed

LEMMA PrefixIs ==
    ASSUME NEW cells, IsBytes(cells), NEW k \in 0 .. Len(cells)
    PROVE  /\ IsBytes(SubSeq(cells, 1, k)) /\ Len(SubSeq(cells, 1, k)) = k
           /\ \A i \in 1 .. k : SubSeq(cells, 1, k)[i] = cells[i]
<1>1. k \in Nat /\ 0 + k <= Len(cells) /\ Len(cells) \in Nat
  BY BytesAre
<1>2. /\ IsBytes(Cells(cells, 0, k)) /\ Len(Cells(cells, 0, k)) = k
      /\ \A i \in 1 .. k : Cells(cells, 0, k)[i] = cells[0 + i]
  BY <1>1, CellsAre
<1>3. Cells(cells, 0, k) = SubSeq(cells, 1, k)
  BY <1>1 DEF Cells
<1> HIDE DEF Cells
<1>4. \A i \in 1 .. k : 0 + i = i
  OBVIOUS
<1> QED
  BY <1>2, <1>3, <1>4

\* A part of cells that are no end records has none.
LEMMA TornIs ==
    ASSUME NEW ofs, NEW cells, IsBytes(cells), NEW several \in BOOLEAN,
           NEW part \in Torn(ofs, cells, several), zip.on = "heap",
           several => \A k \in 1 .. Len(cells) : cells[k].t # "end"
    PROVE  IsBytes(part) /\ \A i \in 1 .. Len(part) : part[i].t # "end"
<1>1. CASE part = <<>>
  BY <1>1, NoCells
<1>2. ASSUME several, NEW k \in 0 .. Len(cells) - 1, part = SubSeq(cells, 1, k)
      PROVE  IsBytes(part) /\ \A i \in 1 .. Len(part) : part[i].t # "end"
  <2>1. k \in 0 .. Len(cells) /\ k < Len(cells) /\ Len(cells) \in Nat
    BY BytesAre
  <2>2. /\ IsBytes(part) /\ Len(part) = k /\ \A i \in 1 .. k : part[i] = cells[i]
    BY <1>2, <2>1, PrefixIs
  <2> QED
    BY <1>2, <2>1, <2>2
<1>3. ASSUME several, NEW k \in 0 .. Len(cells) - 1, part = SubSeq(cells, 1, k) \o <<Junk>>
      PROVE  IsBytes(part) /\ \A i \in 1 .. Len(part) : part[i].t # "end"
  <2> DEFINE a == SubSeq(cells, 1, k)
             z == <<Junk>>
  <2>1. k \in 0 .. Len(cells) /\ k \in Nat /\ k < Len(cells) /\ Len(cells) \in Nat
    BY BytesAre
  <2>2. /\ IsBytes(a) /\ Len(a) = k /\ \A i \in 1 .. k : a[i] = cells[i]
    BY <1>3, <2>1, PrefixIs
  <2>3. IsBytes(z) /\ Len(z) = 1 /\ z[1] = Junk
    BY OneCell
  <2>4. part = a \o z
    BY <1>3
  <2> HIDE DEF a, z
  <2>5. /\ IsBytes(a \o z) /\ Len(a \o z) = Len(a) + Len(z)
        /\ \A i \in 1 .. Len(a) : (a \o z)[i] = a[i]
        /\ \A i \in 1 .. Len(z) : (a \o z)[Len(a) + i] = z[i]
    <3>1. Joined(a, z, a \o z)
      BY <2>2, <2>3, JoinedIs
    <3> QED
      BY <3>1, Zenon DEF Joined
  <2>6. Len(part) = k + 1 /\ (\A i \in 1 .. k : part[i] = cells[i]) /\ part[k + 1] = Junk
    BY <2>1, <2>2, <2>3, <2>4, <2>5
  <2>7. \A i \in 1 .. k + 1 : i \in 1 .. k \/ i = k + 1
    BY <2>1
  <2>8. \A i \in 1 .. k : cells[i].t # "end"
    BY <1>3, <2>1
  <2>9. Junk.t # "end"
    BY DEF Junk
  <2> QED
    BY <2>4, <2>5, <2>6, <2>7, <2>8, <2>9
<1> QED
  BY <1>1, <1>2, <1>3 DEF Torn

\* What a write that fails has written lies above the archive, and is no end
\* record.
LEMMA PutFails ==
    ASSUME IInv, NEW ofs \in Nat, NEW cells, IsBytes(cells), zip.size <= ofs,
           NEW several \in BOOLEAN, NEW fault \in {"add_write", "copy_write", "final_write"},
           fault \in use.faults, NEW part \in Torn(ofs, cells, several),
           SetBytes(Write(Bytes, ofs, part)), zip' = zip, Return(FALSE),
           UNCHANGED <<use, exists, inplace, rd, truth, seen, accepted>>,
           call.op \in {"mem", "copy", "final"}, Adding = 0,
           several => call.op # "final" /\ \A k \in 1 .. Len(cells) : cells[k].t # "end"
    PROVE  Layout' /\ Unseen
<1>1. /\ inplace = NotInPlace /\ zip.on = "heap" /\ zip.mode = "writing"
      /\ use' = use /\ inplace' = inplace /\ zip' = zip /\ accepted' = accepted
  <2>1. inplace # NotInPlace => use.appended # {}
    BY DEF IInv, Layout, CallOK
  <2>2. use \in Uses
    BY BytesOK
  <2>3. use.appended = {}
    BY <2>2, SupportedUses
  <2> QED
    BY <2>1, <2>3, CallIs
<1>2. CASE part = <<>>
  <2>1. heap' = heap /\ file' = file
    BY <1>1, <1>2 DEF SetBytes, Write, Bytes
  <2>2. Still
    BY <1>1, <2>1 DEF Still
  <2> QED
    BY <1>1, <2>2, CallFails
<1>3. CASE several
  <2>1. IsBytes(part) /\ \A i \in 1 .. Len(part) : part[i].t # "end"
    BY <1>1, <1>3, TornIs
  <2>2. call' = NoCall /\ call'.op = "none" /\ call.op # "final"
    BY <1>1, <1>3 DEF Return, NoCall
  <2>3. Floor' = Floor
    BY <1>1, <2>2 DEF Floor
  <2>4. /\ Bytes' = Write(Bytes, ofs, part) /\ IsBytes(heap') /\ IsBytes(file')
        /\ Placed(use, Bytes', zip.dir, 0, zip.size)
        /\ Members(Bytes', Directory(Bytes')) = Listed
        /\ FileOK' /\ ReaderOK'
    BY <1>1, <2>1, <2>3, WriteKept
  <2>5. WriterOK'
    BY <1>1, <2>4 DEF IInv, Layout, WriterOK
  <2>6. CallOK' /\ MemOK' /\ CopyOK' /\ FinalOK' /\ AppendOK'
    BY <1>1, <2>2 DEF CallOK, MemOK, CopyOK, FinalOK, AppendOK
  <2>7. NoStray'
    <3>1. zip.size \in Nat /\ zip.total \in Nat
      BY BytesOK
    <3>2. Edge' = Edge /\ Edge \in Nat /\ Edge <= Edge'
      BY <1>1, <2>2, <3>1 DEF Edge
    <3>3. Adding' = 0 /\ Adding <= Adding'
      BY <2>2 DEF Adding
    <3> QED
      BY <1>1, <2>1, <2>4, <3>2, <3>3, PutUnstrayed
  <2>8. Unseen
    <3>1. Listed' = Listed
      BY <1>1, <2>4 DEF Listed, Directory
    <3> QED
      BY <1>1, <3>1, WritingShows, WritingShowsNext DEF Unseen, OnHeap
  <2> QED
    BY <1>1, <2>4, <2>5, <2>6, <2>7, <2>8, BytesOK DEF IInv, Layout
<1>4. several \/ part = <<>>
  BY <1>1 DEF Torn
<1> QED
  BY <1>2, <1>3, <1>4

LEMMA ZerosStep ==
    ASSUME IInv, use' = use, WriteZeros
    PROVE  Layout' /\ ListStep
<1> DEFINE cells == Fill(Zero, Padding + 1)
<1>1. /\ call.op = "mem" /\ call.step = "zeros"
      /\ Put(zip.size, cells, TRUE, "add_write", At("name") /\ UNCHANGED zip)
      /\ UNCHANGED <<use, exists, inplace, rd, truth, seen, accepted>>
  BY DEF WriteZeros, history
<1>2. /\ IsBytes(cells) /\ Len(cells) \in Nat /\ \A k \in 1 .. Len(cells) : cells[k].t # "end"
      /\ zip.size \in Nat /\ zip.size <= zip.size
  <2>1. Padding + 1 \in Nat /\ zip.size \in Nat
    BY <1>1, MemIs
  <2>2. Zero.t # "end"
    BY DEF Zero
  <2> QED
    BY <2>1, <2>2, FillIs
<1>3. Adding = 0
  BY <1>1 DEF Adding
<1> HIDE DEF cells
<1>4. ASSUME SetBytes(Write(Bytes, zip.size, cells)), At("name"), zip' = zip
      PROVE  Layout' /\ ListStep
  <2>1. /\ call'.op = "mem" /\ call'.step = "name" /\ call'.name = call.name
        /\ call'.content = call.content /\ call'.ofs = call.ofs
        /\ call' \in [op : {"mem"}, step : {"zeros", "name", "data", "local", "central"},
                      name : use.names, content : Mine(use), method : {"stored", "deflated"}, ofs : Nat]
    BY <1>1, <1>4, MemGoesOn
  <2>2. /\ Bytes' = Write(Bytes, zip.size, cells) /\ IsBytes(heap') /\ IsBytes(file')
        /\ WriterOK' /\ CallOK' /\ FinalOK' /\ FileOK' /\ ReaderOK' /\ AppendOK'
        /\ Padding' = Padding /\ Unseen
    BY <1>1, <1>2, <1>4, <2>1, WriteGoesOn
  <2>3. MemOK' /\ CopyOK'
    <3>1. call.ofs = zip.size + Padding /\ zip.room = Arrays
      BY <1>1 DEF IInv, Layout, MemOK
    <3> QED
      BY <1>1, <1>4, <2>1, <2>2, <3>1 DEF MemOK, CopyOK
  <2>4. NoStray'
    <3>1. Adding' = 0
      BY <2>1 DEF Adding
    <3> QED
      BY <1>1, <1>2, <1>3, <1>4, <2>1, <2>2, <3>1, WriteUnstrayed
  <2> QED
    BY <1>1, <2>2, <2>3, <2>4, BytesOK DEF IInv, Layout, ListStep
<1>5. ASSUME "add_write" \in use.faults, zip' = zip, Return(FALSE),
             NEW part \in Torn(zip.size, cells, TRUE),
             SetBytes(Write(Bytes, zip.size, part))
      PROVE  Layout' /\ ListStep
  BY <1>1, <1>2, <1>3, <1>5, PutFails DEF ListStep
<1> QED
  BY <1>1, <1>4, <1>5 DEF Put

LEMMA NameStep ==
    ASSUME IInv, use' = use, WriteName
    PROVE  Layout' /\ ListStep
<1> DEFINE cells == <<NameCell(call.name)>>
           at == call.ofs + 1
<1>1. /\ call.op = "mem" /\ call.step = "name"
      /\ Put(at, cells, FALSE, "add_write", At("data") /\ UNCHANGED zip)
      /\ UNCHANGED <<use, exists, inplace, rd, truth, seen, accepted>>
  BY DEF WriteName, history
<1>2. /\ IsBytes(cells) /\ Len(cells) = 1 /\ cells # <<>> /\ cells[1].t = "name"
  <2>1. NameCell(call.name).t = "name"
    BY DEF NameCell
  <2> QED
    BY <2>1, OneCell
<1>3. Adding = 0
  BY <1>1 DEF Adding
<1>4. at \in Nat /\ zip.size <= at /\ at + 1 = call.ofs + 2 /\ call.ofs \in Nat
  BY <1>1, MemIs
<1> HIDE DEF cells, at
<1>5. ASSUME SetBytes(Write(Bytes, at, cells)), At("data"), zip' = zip
      PROVE  Layout' /\ ListStep
  <2>1. /\ call'.op = "mem" /\ call'.step = "data" /\ call'.name = call.name
        /\ call'.content = call.content /\ call'.ofs = call.ofs
        /\ call' \in [op : {"mem"}, step : {"zeros", "name", "data", "local", "central"},
                      name : use.names, content : Mine(use), method : {"stored", "deflated"}, ofs : Nat]
    BY <1>1, <1>5, MemGoesOn
  <2>2. /\ Bytes' = Write(Bytes, at, cells) /\ IsBytes(heap') /\ IsBytes(file')
        /\ WriterOK' /\ CallOK' /\ FinalOK' /\ FileOK' /\ ReaderOK' /\ AppendOK'
        /\ Padding' = Padding /\ Unseen
    BY <1>1, <1>2, <1>4, <1>5, <2>1, WriteGoesOn
  <2>3. MemOK' /\ CopyOK'
    <3>1. call.ofs = zip.size + Padding /\ zip.room = Arrays
      BY <1>1 DEF IInv, Layout, MemOK
    <3>2. Len(Bytes') >= call.ofs + 2 /\ Bytes'[call.ofs + 2].t # "end"
      <4>1. IsBytes(Bytes)
        BY BytesOK
      <4>2. /\ Len(Bytes') >= at + Len(cells)
            /\ \A k \in 1 .. Len(cells) : Bytes'[at + k] = cells[k]
        <5>1. Overwritten(Bytes, at, cells, Bytes')
          BY <1>2, <1>4, <2>2, <4>1, WrittenIs
        <5> QED
          BY <1>2, <5>1 DEF Overwritten
      <4>3. Bytes'[at + 1] = cells[1]
        BY <1>2, <4>2
      <4> QED
        BY <1>2, <1>4, <4>2, <4>3
    <3> QED
      BY <1>1, <1>5, <2>1, <2>2, <3>1, <3>2 DEF MemOK, CopyOK
  <2>4. NoStray'
    <3>1. Adding' = 0
      BY <2>1 DEF Adding
    <3>2. \A k \in 1 .. Len(cells) : cells[k].t # "end"
      BY <1>2
    <3> QED
      BY <1>1, <1>2, <1>3, <1>4, <1>5, <2>1, <2>2, <3>1, <3>2, WriteUnstrayed
  <2> QED
    BY <1>1, <2>2, <2>3, <2>4, BytesOK DEF IInv, Layout, ListStep
<1>6. ASSUME "add_write" \in use.faults, zip' = zip, Return(FALSE),
             NEW part \in Torn(at, cells, FALSE), SetBytes(Write(Bytes, at, part))
      PROVE  Layout' /\ ListStep
  BY <1>1, <1>2, <1>3, <1>4, <1>6, PutFails DEF ListStep
<1> QED
  BY <1>1, <1>5, <1>6 DEF Put

\* Only a writer of the heap sees a write fail.
LEMMA FaultsOnHeap ==
    ASSUME IInv, NEW fault \in {"add_write", "copy_write", "final_write"}, fault \in use.faults
    PROVE  inplace = NotInPlace
<1>1. inplace # NotInPlace => use.appended # {}
  BY DEF IInv, Layout, CallOK
<1>2. use \in Uses
  BY BytesOK
<1>3. use.appended = {}
  BY <1>2, SupportedUses
<1> QED
  BY <1>1, <1>3

LEMMA DataStep ==
    ASSUME IInv, use' = use, WriteData
    PROVE  Layout' /\ ListStep
<1> DEFINE cells == DataOf(call)
           at == call.ofs + 2
<1>1. /\ call.op = "mem" /\ call.step = "data"
      /\ Put(at, cells, call.method = "deflated", "add_write", At("local") /\ UNCHANGED zip)
      /\ UNCHANGED <<use, exists, inplace, rd, truth, seen, accepted>>
  BY DEF WriteData, history
<1>2. IsBytes(cells) /\ Len(cells) \in Nat
  BY <1>1, MemIs
<1>7. call.method = "deflated" => \A k \in 1 .. Len(cells) : cells[k].t # "end"
  <2> SUFFICES ASSUME call.method = "deflated" PROVE \A k \in 1 .. Len(cells) : cells[k].t # "end"
    OBVIOUS
  <2>1. Len(cells) = 1 /\ cells[1] = [t |-> "deflate", of |-> call.content]
    BY DeflatedIs DEF DataOf
  <2> QED
    BY <2>1
<1>3. Adding = 0
  BY <1>1 DEF Adding
<1>4. /\ at \in Nat /\ zip.size <= at /\ call.ofs \in Nat
      /\ Len(Bytes) >= at /\ Len(Bytes) \in Nat /\ Bytes[at].t # "end" /\ IsBytes(Bytes)
  <2>1. /\ call.ofs \in Nat /\ zip.size \in Nat /\ zip.size <= call.ofs
    BY <1>1, MemIs
  <2>2. Len(Bytes) >= call.ofs + 2 /\ Bytes[call.ofs + 2].t # "end"
    BY <1>1 DEF IInv, Layout, MemOK
  <2> QED
    BY <2>1, <2>2, BytesOK
<1>5. ASSUME SetBytes(Write(Bytes, at, cells)), At("local"), zip' = zip
      PROVE  Layout' /\ ListStep
  <2>1. /\ call'.op = "mem" /\ call'.step = "local" /\ call'.name = call.name
        /\ call'.content = call.content /\ call'.ofs = call.ofs /\ DataOf(call') = cells
        /\ call' \in [op : {"mem"}, step : {"zeros", "name", "data", "local", "central"},
                      name : use.names, content : Mine(use), method : {"stored", "deflated"}, ofs : Nat]
    BY <1>1, <1>5, MemGoesOn
  <2> HIDE DEF cells, at
  <2>2. /\ Bytes' = Write(Bytes, at, cells) /\ IsBytes(heap') /\ IsBytes(file')
        /\ WriterOK' /\ CallOK' /\ FinalOK' /\ FileOK' /\ ReaderOK' /\ AppendOK'
        /\ Padding' = Padding /\ Unseen
    BY <1>1, <1>2, <1>4, <1>5, <2>1, WriteGoesOn
  <2>3. /\ Len(Bytes') \in Nat /\ Len(Bytes') >= Len(Bytes)
        /\ cells # <<>> => Len(Bytes') >= at + Len(cells)
        /\ \A k \in 1 .. Len(cells) : Bytes'[at + k] = cells[k]
        /\ \A i \in 1 .. Len(Bytes') :
              i <= at \/ i > at + Len(cells) =>
                 Bytes'[i] = IF i <= Len(Bytes) THEN Bytes[i] ELSE Junk
    <3>1. Overwritten(Bytes, at, cells, Bytes')
      BY <1>2, <1>4, <2>2, WrittenIs
    <3> QED
      BY <3>1 DEF Overwritten
  <2>4. Len(Bytes') >= at + Len(cells)
    <3>1. cells = <<>> => Len(cells) = 0
      BY <1>2, EmptyIs
    <3> QED
      BY <1>2, <1>4, <2>3, <3>1
  <2>5. at \in 1 .. Len(Bytes') /\ Bytes'[at] = Bytes[at]
    <3>1. at >= 1
      BY <1>4 DEF at
    <3> QED
      BY <1>4, <2>3, <3>1
  <2>6. MemOK' /\ CopyOK'
    <3>1. call.ofs = zip.size + Padding /\ zip.room = Arrays
      BY <1>1 DEF IInv, Layout, MemOK
    <3>2. /\ Len(Bytes') >= call'.ofs + 2 /\ Bytes'[call'.ofs + 2].t # "end"
          /\ Len(Bytes') >= call'.ofs + 2 + Len(DataOf(call'))
          /\ \A k \in 1 .. Len(DataOf(call')) : Bytes'[call'.ofs + 2 + k] = DataOf(call')[k]
      <4>1. at = call'.ofs + 2
        BY <2>1 DEF at
      <4> QED
        BY <1>2, <1>4, <2>1, <2>3, <2>4, <2>5, <4>1
    <3> QED
      BY <1>1, <1>5, <2>1, <2>2, <3>1, <3>2 DEF MemOK, CopyOK
  <2>7. NoStray'
    <3>1. Adding' = at + Len(cells)
      BY <2>1 DEF Adding, at
    <3>2. Adding' \in Nat /\ Adding <= Adding' /\ \A k \in 1 .. Len(cells) : at + k <= Adding'
      BY <1>2, <1>3, <1>4, <3>1
    <3> QED
      BY <1>1, <1>2, <1>3, <1>4, <1>5, <2>1, <2>2, <3>2, WriteUnstrayed
  <2> QED
    BY <1>1, <2>2, <2>6, <2>7, BytesOK DEF IInv, Layout, ListStep
<1> HIDE DEF cells, at
<1>6. ASSUME "add_write" \in use.faults, zip' = zip, Return(FALSE),
             NEW part \in Torn(at, cells, call.method = "deflated"),
             SetBytes(Write(Bytes, at, part))
      PROVE  Layout' /\ ListStep
  BY <1>1, <1>2, <1>3, <1>4, <1>6, <1>7, PutFails DEF ListStep
<1> QED
  BY <1>1, <1>5, <1>6 DEF Put

LEMMA LocalStep ==
    ASSUME IInv, use' = use, WriteLocalHeader
    PROVE  Layout' /\ ListStep
<1> DEFINE cells == <<LocalHeader>>
           data == DataOf(call)
           at == call.ofs
<1>1. /\ call.op = "mem" /\ call.step = "local"
      /\ Put(at, cells, FALSE, "add_write", At("central") /\ UNCHANGED zip)
      /\ UNCHANGED <<use, exists, inplace, rd, truth, seen, accepted>>
  BY DEF WriteLocalHeader, history
<1>2. IsBytes(cells) /\ Len(cells) = 1 /\ cells # <<>> /\ cells[1].t = "local"
  <2>1. LocalHeader.t = "local"
    BY DEF LocalHeader
  <2> QED
    BY <2>1, OneCell
<1>3. Len(data) \in Nat /\ at \in Nat /\ Adding = at + 2 + Len(data)
  BY <1>1, MemIs DEF Adding
<1>4. /\ at \in Nat /\ zip.size <= at /\ IsBytes(Bytes) /\ Len(Bytes) \in Nat
      /\ Len(Bytes) >= at + 2 /\ Bytes[at + 2].t # "end"
      /\ Len(Bytes) >= at + 2 + Len(data)
      /\ \A k \in 1 .. Len(data) : Bytes[at + 2 + k] = data[k]
  <2>1. /\ call.ofs \in Nat /\ zip.size \in Nat /\ zip.size <= call.ofs
    BY <1>1, MemIs
  <2>2. /\ Len(Bytes) >= at + 2 /\ Bytes[at + 2].t # "end"
        /\ Len(Bytes) >= at + 2 + Len(data)
        /\ \A k \in 1 .. Len(data) : Bytes[at + 2 + k] = data[k]
    BY <1>1 DEF IInv, Layout, MemOK
  <2> QED
    BY <2>1, <2>2, BytesOK
<1> HIDE DEF cells
<1>5. ASSUME SetBytes(Write(Bytes, at, cells)), At("central"), zip' = zip
      PROVE  Layout' /\ ListStep
  <2>1. /\ call'.op = "mem" /\ call'.step = "central" /\ call'.name = call.name
        /\ call'.content = call.content /\ call'.ofs = at /\ DataOf(call') = data
        /\ call' \in [op : {"mem"}, step : {"zeros", "name", "data", "local", "central"},
                      name : use.names, content : Mine(use), method : {"stored", "deflated"}, ofs : Nat]
    BY <1>1, <1>5, MemGoesOn
  <2> HIDE DEF data, at
  <2>2. /\ Bytes' = Write(Bytes, at, cells) /\ IsBytes(heap') /\ IsBytes(file')
        /\ WriterOK' /\ CallOK' /\ FinalOK' /\ FileOK' /\ ReaderOK' /\ AppendOK'
        /\ Padding' = Padding /\ Unseen
    BY <1>1, <1>2, <1>4, <1>5, <2>1, WriteGoesOn
  <2>3. /\ Len(Bytes') \in Nat /\ Len(Bytes') >= Len(Bytes)
        /\ \A k \in 1 .. Len(cells) : Bytes'[at + k] = cells[k]
        /\ \A i \in 1 .. Len(Bytes') :
              i <= at \/ i > at + Len(cells) =>
                 Bytes'[i] = IF i <= Len(Bytes) THEN Bytes[i] ELSE Junk
    <3>1. Overwritten(Bytes, at, cells, Bytes')
      BY <1>2, <1>4, <2>2, WrittenIs
    <3> QED
      BY <3>1 DEF Overwritten
  <2>4. Bytes'[at + 1].t = "local"
    <3>1. Bytes'[at + 1] = cells[1]
      BY <1>2, <2>3
    <3> QED
      BY <1>2, <3>1
  <2>5. \A i \in at + 2 .. Len(Bytes) : Bytes'[i] = Bytes[i]
    BY <1>2, <1>4, <2>3
  <2>6. /\ Len(Bytes') >= at + 2 /\ Bytes'[at + 2].t # "end"
        /\ Len(Bytes') >= at + 2 + Len(data)
        /\ \A k \in 1 .. Len(data) : Bytes'[at + 2 + k] = data[k]
    <3>1. at + 2 \in at + 2 .. Len(Bytes)
      BY <1>4
    <3>2. \A k \in 1 .. Len(data) : at + 2 + k \in at + 2 .. Len(Bytes)
      BY <1>3, <1>4
    <3>3. Len(Bytes') >= at + 2 /\ Len(Bytes') >= at + 2 + Len(data)
      BY <1>3, <1>4, <2>3
    <3> QED
      BY <1>4, <2>5, <3>1, <3>2, <3>3
  <2>7. MemOK' /\ CopyOK'
    <3>1. at = zip.size + Padding /\ zip.room = Arrays
      BY <1>1 DEF IInv, Layout, MemOK, at
    <3> QED
      BY <1>1, <1>5, <2>1, <2>2, <2>4, <2>6, <3>1 DEF MemOK, CopyOK
  <2>8. NoStray'
    <3>1. Adding' = Adding
      BY <1>3, <2>1 DEF Adding
    <3>2. Adding \in Nat /\ \A k \in 1 .. Len(cells) : cells[k].t # "end"
      BY <1>2, <1>3
    <3> QED
      <4>1. /\ Adding' \in Nat /\ Adding <= Adding'
            /\ \A k \in 1 .. Len(cells) : cells[k].t # "end" \/ at + k <= Adding'
        BY <3>1, <3>2
      <4>2. call.op \in {"mem", "copy"} /\ call'.op = call.op /\ zip' = zip
        BY <1>1, <1>5, <2>1
      <4> QED
        BY <1>2, <1>4, <2>2, <3>2, <4>1, <4>2, WriteUnstrayed
  <2> QED
    BY <1>1, <2>2, <2>7, <2>8, BytesOK DEF IInv, Layout, ListStep
<1>6. ASSUME "add_write" \in use.faults, NEW part \in Torn(at, cells, FALSE)
      PROVE  FALSE
  <2>1. zip.on = "heap"
    BY <1>1, <1>6, FaultsOnHeap, CallIs
  <2>2. at + Len(cells) <= Len(heap)
    <3>1. Bytes = heap
      BY <2>1 DEF Bytes
    <3> QED
      BY <1>2, <1>4, <3>1
  <2> QED
    BY <1>6, <2>1, <2>2 DEF Torn
<1> HIDE DEF at
<1> QED
  BY <1>1, <1>5, <1>6 DEF Put

\* A member is its name and its content.
LEMMA SameMember ==
    ASSUME NEW A, NEW B, NEW p \in [name : A, content : B], NEW q \in [name : A, content : B],
           p.name = q.name, p.content = q.content
    PROVE  p = q
OBVIOUS

\* A header pushed to a directory adds one member.
LEMMA MembersAppend ==
    ASSUME NEW u \in Uses, NEW b, NEW d, NEW e, NEW h \in Headers(u), NEW c \in Mine(u),
           d.dir \in Seq(Headers(u)), d.total = Len(d.dir), d.start \in Nat,
           e.dir = Append(d.dir, h), e.total = d.total + 1, e.start = d.start,
           Reads(u, b, d), Reads(u, b, e), HoldsAt(b, h, d.start + h.ofs, c)
    PROVE  /\ Members(b, e) = Append(Members(b, d), [name |-> h.name, content |-> c])
           /\ [name |-> h.name, content |-> c] \in [name : u.names, content : Mine(u)]
<1> DEFINE M == [name : u.names, content : Mine(u)]
           m == [name |-> h.name, content |-> c]
           H == Headers(u)
<1>1. /\ Members(b, d) \in Seq(M) /\ Len(Members(b, d)) = d.total
      /\ Members(b, e) \in Seq(M) /\ Len(Members(b, e)) = d.total + 1
  BY DEF Reads
<1>2. m \in M
  BY DEF Headers
<1>3. /\ d.dir \in Seq(H) /\ h \in H
  OBVIOUS
<1> HIDE DEF H
<1>4. /\ d.total \in Nat /\ e.dir[d.total + 1] = h
      /\ \A i \in 1 .. d.total : e.dir[i] = d.dir[i] /\ d.dir[i] \in H
  BY <1>3
<1>5. ASSUME NEW i \in 1 .. d.total
      PROVE  Members(b, e)[i] = Members(b, d)[i]
  <2>1. /\ Members(b, d)[i] \in M /\ Members(b, e)[i] \in M
    <3> HIDE DEF M
    <3> QED
      BY <1>1, <1>4
  <2>2. i \in 1 .. e.total /\ e.dir[i] = d.dir[i]
    BY <1>4
  <2>3. LocalHeaderOfs(e, i) = LocalHeaderOfs(d, i)
    BY <2>2 DEF LocalHeaderOfs
  <2>4. Members(b, e)[i].name = Members(b, d)[i].name
    <3>1. Members(b, e)[i].name = e.dir[i].name
      BY <2>2, Zenon DEF Reads
    <3>2. Members(b, d)[i].name = d.dir[i].name
      BY Zenon DEF Reads
    <3> QED
      BY <2>2, <3>1, <3>2
  <2>5. PICK x \in Mine(u) : x = Members(b, d)[i].content
    BY <2>1
  <2>6. HoldsAt(b, d.dir[i], LocalHeaderOfs(d, i), x)
    BY <2>5, Zenon DEF Reads
  <2>7. HoldsAt(b, e.dir[i], LocalHeaderOfs(e, i), x)
    BY <2>2, <2>3, <2>6
  <2>8. Members(b, e)[i].content = x
    BY <2>2, <2>7, Zenon DEF Reads
  <2> QED
    BY <2>1, <2>4, <2>5, <2>8, SameMember
<1>6. Members(b, e)[d.total + 1] = m
  <2>1. Members(b, e)[d.total + 1] \in M
    <3> HIDE DEF M
    <3> QED
      BY <1>1, <1>4
  <2>2. d.total + 1 \in 1 .. e.total
    BY <1>4
  <2>3. Members(b, e)[d.total + 1].name = h.name
    <3>1. Members(b, e)[d.total + 1].name = e.dir[d.total + 1].name
      BY <2>2, Zenon DEF Reads
    <3> QED
      BY <1>4, <3>1
  <2>4. LocalHeaderOfs(e, d.total + 1) = d.start + h.ofs
    <3>1. h.ofs \in Nat
      BY <1>3 DEF H, Headers
    <3> QED
      BY <1>4, <3>1 DEF LocalHeaderOfs
  <2>5. HoldsAt(b, e.dir[d.total + 1], LocalHeaderOfs(e, d.total + 1), c)
    BY <1>4, <2>4
  <2>6. Members(b, e)[d.total + 1].content = c
    BY <2>2, <2>5, Zenon DEF Reads
  <2> QED
    BY <2>1, <2>3, <2>6
<1> HIDE DEF M, m
<1>7. Members(b, e) = Append(Members(b, d), m)
  <2> DEFINE a == Append(Members(b, d), m)
  <2>1. /\ a \in Seq(M) /\ Len(a) = d.total + 1 /\ a[d.total + 1] = m
        /\ \A i \in 1 .. d.total : a[i] = Members(b, d)[i]
    BY <1>1, <1>2, <1>4
  <2>2. \A i \in 1 .. Len(a) : Members(b, e)[i] = a[i]
    BY <1>4, <1>5, <1>6, <2>1
  <2>3. IsBytes(a) /\ IsBytes(Members(b, e))
    BY <1>1, <2>1, SeqIsBytes
  <2> HIDE DEF a
  <2>4. Members(b, e) = a
    BY <1>1, <2>1, <2>2, <2>3, SameBytes
  <2> QED
    BY <2>4 DEF a
<1> QED
  BY <1>2, <1>7 DEF M, m

\* A member that lies whole above zip.size enters the directory.
LEMMA Enters ==
    ASSUME IInv, NEW h \in Headers(use), NEW end \in Nat, NEW c \in Mine(use),
           HoldsAt(Bytes, h, h.ofs, c), h.ofs + 2 + h.csize = end, zip.size <= end, Adding <= end,
           Adding \in Nat, zip' = Entered(h, end), Return(TRUE), call.op \in {"mem", "copy"},
           call.op = "mem" => call.name = h.name /\ call.content = c,
           accepted' = (IF zip.on = "heap" THEN Append(accepted, [name |-> h.name, content |-> c])
                        ELSE accepted),
           UNCHANGED <<use, heap, file, exists, inplace, rd, truth, seen>>
    PROVE  Layout' /\ ListStep
<1>1. /\ use' = use /\ heap' = heap /\ file' = file /\ exists' = exists /\ inplace' = inplace
      /\ rd' = rd /\ truth' = truth /\ seen' = seen
      /\ zip.on = "heap" => accepted' = Append(accepted, [name |-> h.name, content |-> c])
  OBVIOUS
<1> DEFINE H == Headers(use)
<1>2. /\ zip \in [mode : {"invalid", "writing", "finalized"}, on : {"heap", "file"}, size : Nat,
                  total : Nat, dir : Seq(H), room : SUBSET Arrays]
      /\ h \in H /\ zip.mode = "writing" /\ use \in Uses /\ IsBytes(Bytes) /\ Len(Bytes) \in Nat
  BY BytesOK, CallIs DEF IInv, Layout, WriterOK
<1> HIDE DEF H
<1>3. /\ zip' \in [mode : {"invalid", "writing", "finalized"}, on : {"heap", "file"}, size : Nat,
                   total : Nat, dir : Seq(H), room : SUBSET Arrays]
      /\ zip'.mode = "writing" /\ zip'.on = zip.on /\ zip'.size = end
      /\ zip'.total = zip.total + 1 /\ zip'.dir = Append(zip.dir, h)
  <2>1. PICK dir \in Seq(H) : dir = Append(zip.dir, h)
    <3>1. zip.dir \in Seq(H)
      BY <1>2
    <3>2. Append(zip.dir, h) \in Seq(H)
      BY <1>2, <3>1
    <3> QED
      BY <3>2
  <2>2. PICK n \in Nat : n = zip.total + 1
    BY <1>2
  <2>3. zip' = [[[[zip EXCEPT !.dir = dir] EXCEPT !.total = n] EXCEPT !.size = end] EXCEPT !.room = {}]
    BY <1>2, <2>1, <2>2 DEF Entered
  <2>4. {} \in SUBSET Arrays
    OBVIOUS
  <2>5. zip' = [mode |-> zip.mode, on |-> zip.on, size |-> end, total |-> n, dir |-> dir, room |-> {}]
    BY <1>2, <2>3
  <2>6. /\ zip' \in [mode : {"invalid", "writing", "finalized"}, on : {"heap", "file"}, size : Nat,
                     total : Nat, dir : Seq(H), room : SUBSET Arrays]
        /\ zip'.mode = zip.mode /\ zip'.on = zip.on /\ zip'.size = end
        /\ zip'.total = n /\ zip'.dir = dir
    BY <1>2, <2>4, <2>5
  <2> QED
    BY <1>2, <2>1, <2>2, <2>6
<1>4. Bytes' = Bytes
  BY <1>1, <1>3 DEF Bytes
<1>5. Placed(use, Bytes, Append(zip.dir, h), 0, end)
  <2> SUFFICES ASSUME NEW i \in DOMAIN Append(zip.dir, h)
               PROVE  LET x == Append(zip.dir, h)[i]
                      IN /\ 0 + x.ofs + 2 + x.csize <= end
                         /\ \E y \in Mine(use) : HoldsAt(Bytes, x, 0 + x.ofs, y)
    BY DEF Placed
  <2>1. CASE i = Len(zip.dir) + 1
    <3>1. Append(zip.dir, h)[i] = h
      BY <1>2, <2>1
    <3>2. h.ofs \in Nat /\ h.csize \in Nat
      BY DEF Headers
    <3>3. 0 + h.ofs = h.ofs /\ 0 + h.ofs + 2 + h.csize <= end
      BY <3>2
    <3>4. HoldsAt(Bytes, h, 0 + h.ofs, c)
      BY <3>3
    <3> QED
      BY <3>1, <3>3, <3>4
  <2>2. CASE i # Len(zip.dir) + 1
    <3>1. i \in DOMAIN zip.dir /\ Append(zip.dir, h)[i] = zip.dir[i] /\ zip.dir[i] \in H
      BY <1>2, <2>2
    <3>2. /\ 0 + zip.dir[i].ofs + 2 + zip.dir[i].csize <= zip.size
          /\ \E y \in Mine(use) : HoldsAt(Bytes, zip.dir[i], 0 + zip.dir[i].ofs, y)
      BY <3>1, BytesOK DEF Placed
    <3>3. zip.dir[i].ofs \in Nat /\ zip.dir[i].csize \in Nat /\ zip.size \in Nat
      BY <1>2, <3>1 DEF H, Headers
    <3>4. 0 + zip.dir[i].ofs + 2 + zip.dir[i].csize <= end
      <4>1. PICK x \in Nat, y \in Nat, z \in Nat :
               x = zip.dir[i].ofs /\ y = zip.dir[i].csize /\ z = zip.size
        BY <3>3
      <4>2. 0 + x + 2 + y <= z /\ z <= end
        BY <3>2, <4>1
      <4>3. 0 + x + 2 + y <= end
        BY <4>2
      <4> QED
        BY <4>1, <4>3
    <3> QED
      BY <3>1, <3>2, <3>4
  <2> QED
    BY <2>1, <2>2
<1>6. WriterOK'
  <2>1. zip'.total = Len(zip'.dir)
    <3>1. zip.total = Len(zip.dir)
      BY BytesOK
    <3> QED
      BY <1>2, <1>3, <3>1
  <2>2. Placed(use', Bytes', zip'.dir, 0, zip'.size)
    BY <1>1, <1>3, <1>4, <1>5
  <2> QED
    BY <1>1, <1>3, <2>1, <2>2 DEF WriterOK, H
<1>7. /\ inplace = NotInPlace => call' = NoCall
      /\ inplace # NotInPlace => call' = [op |-> "return", step |-> call.op, ok |-> TRUE]
  BY DEF Return
<1>8. /\ call'.op \in {"none", "return"} /\ (call'.op = "none" => call' = NoCall)
      /\ inplace = NotInPlace => call'.op = "none"
      /\ inplace # NotInPlace => call'.op = "return" /\ call'.step = "mem" /\ call'.ok
                                 /\ call.op = "mem"
  BY <1>7, CallIs DEF NoCall
<1>9. CallOK'
  BY <1>1, <1>3, <1>8 DEF IInv, Layout, CallOK
<1>10. MemOK' /\ CopyOK' /\ FinalOK'
  BY <1>3, <1>8 DEF MemOK, CopyOK, FinalOK
<1>11. NoStray'
  <2>1. Edge = zip.size + zip.total + 1 /\ Edge' = end + (zip.total + 1) + 1 /\ Adding' = 0
    BY <1>3, <1>8 DEF Edge, Adding
  <2>2. \A i \in 1 .. Len(Bytes) : i > Edge /\ i > Adding => Bytes[i].t # "end"
    BY <1>2 DEF IInv, Layout, NoStray
  <2>3. \A i \in 1 .. Len(Bytes) : i > Edge' => i > Edge /\ i > Adding
    <3>1. zip.size \in Nat /\ zip.total \in Nat
      BY BytesOK
    <3> QED
      BY <1>2, <2>1, <3>1
  <2> QED
    BY <1>4, <2>2, <2>3 DEF NoStray
<1>12. FileOK'
  <2>1. Intact' => Intact
    BY <1>1, <1>8 DEF Intact
  <2> QED
    BY <1>1, <2>1 DEF IInv, Layout, FileOK
<1>13. ReaderOK'
  <2>1. inplace # NotInPlace /\ rd.mode = "reading" => rd.dofs <= end
    <3>1. inplace # NotInPlace /\ rd.mode = "reading" => rd.dofs <= zip.size /\ rd.dofs \in Nat
      BY <1>2 DEF IInv, Layout, ReaderOK, Floor
    <3>2. zip.size \in Nat
      BY BytesOK
    <3> QED
      BY <3>1, <3>2
  <2> QED
    BY <1>1, <1>3, <1>8, <2>1 DEF IInv, Layout, ReaderOK, Floor
<1>14. /\ Listed' = Append(Listed, [name |-> h.name, content |-> c])
       /\ [name |-> h.name, content |-> c] \in [name : use.names, content : Mine(use)]
  <2> DEFINE d == Directory(Bytes)
             e == Directory(Bytes)'
  <2>1. /\ Reads(use, Bytes, d) /\ d.dir = zip.dir /\ d.total = zip.total /\ d.start = 0
    BY ListedIs
  <2>2. /\ e.dir = Append(zip.dir, h) /\ e.total = zip.total + 1 /\ e.start = 0
        /\ e.size = Len(Bytes)
    BY <1>3, <1>4 DEF Directory
  <2> HIDE DEF d, e
  <2>3. Reads(use, Bytes, e)
    <3>1. e.dir \in Seq(H) /\ e.total = Len(e.dir) /\ e.start \in Nat
      <4>1. zip.total = Len(zip.dir)
        BY BytesOK
      <4> QED
        BY <1>2, <2>2, <4>1
    <3>2. Spans(e, Bytes, end) /\ Placed(use, Bytes, e.dir, e.start, end)
      BY <1>2, <1>5, <2>2 DEF Spans
    <3> QED
      BY <1>2, <3>1, <3>2, MembersAre DEF H
  <2>4. /\ d.dir \in Seq(Headers(use)) /\ d.total = Len(d.dir) /\ d.start \in Nat
        /\ e.dir = Append(d.dir, h) /\ e.total = d.total + 1 /\ e.start = d.start
    BY <2>1, <2>2, BytesOK
  <2>5. HoldsAt(Bytes, h, d.start + h.ofs, c)
    <3>1. d.start + h.ofs = h.ofs
      BY <2>1 DEF Headers
    <3> QED
      BY <3>1
  <2>6. /\ Members(Bytes, e) = Append(Members(Bytes, d), [name |-> h.name, content |-> c])
        /\ [name |-> h.name, content |-> c] \in [name : use.names, content : Mine(use)]
    BY <1>2, <2>1, <2>3, <2>4, <2>5, MembersAppend
  <2>7. Listed' = Members(Bytes, e) /\ Listed = Members(Bytes, d)
    BY <1>4 DEF Listed, d, e
  <2> QED
    BY <2>6, <2>7
<1>15. AppendOK'
  <2>1. CASE inplace = NotInPlace
    BY <1>1, <2>1 DEF AppendOK
  <2>2. CASE inplace # NotInPlace
    <3>1. Listed = truth
      BY <1>8, <2>2 DEF IInv, Layout, AppendOK, Added
    <3>2. h.name = inplace.name /\ c = inplace.content
      BY <1>8, <2>2 DEF IInv, Layout, CallOK
    <3> QED
      BY <1>1, <1>8, <1>14, <2>2, <3>1, <3>2 DEF AppendOK, Added
  <2> QED
    BY <2>1, <2>2
<1>16. ListStep
  <2>1. CASE zip.on = "heap"
    <3>1. /\ ShownMembers = Listed /\ ShownFinal = <<"none">>
          /\ ShownMembers' = Listed' /\ ShownFinal' = <<"none">>
      BY <1>2, <1>3, <2>1, WritingShows, WritingShowsNext
    <3>2. OnHeap
      BY <1>2, <2>1 DEF OnHeap
    <3>3. Grown
      BY <1>1, <1>14, <2>1, <3>1, <3>2 DEF Grown
    <3> QED
      BY <3>3 DEF ListStep
  <2>2. CASE zip.on # "heap"
    BY <1>3, <2>2, OthersShowNothing DEF ListStep, Unseen, OnHeap
  <2> QED
    BY <2>1, <2>2
<1> QED
  BY <1>1, <1>6, <1>9, <1>10, <1>11, <1>12, <1>13, <1>15, <1>16, BytesOK DEF IInv, Layout

LEMMA CentralStep ==
    ASSUME IInv, use' = use, add_to_central_dir
    PROVE  Layout' /\ ListStep
<1> DEFINE data == DataOf(call)
           h == CentralHeader(call.name, call.method, Len(data), Len(call.content), call.ofs)
           end == call.ofs + 2 + Len(data)
<1>1. /\ call.op = "mem" /\ call.step = "central"
      /\ \/ zip' = Entered(h, end) /\ Accept(CallsMember) /\ Return(TRUE)
         \/ PushFails
      /\ UNCHANGED <<use, heap, file, exists, inplace, rd, truth, seen>>
  BY DEF add_to_central_dir, files
<1>2. ~PushFails
  <2>1. zip.room = Arrays
    BY <1>1 DEF IInv, Layout, MemOK
  <2> QED
    BY <2>1 DEF PushFails, AllocFails, Arrays
<1>3. /\ call.ofs \in Nat /\ zip.size \in Nat /\ zip.size <= call.ofs
      /\ call.name \in use.names /\ call.content \in Mine(use)
      /\ call.method \in {"stored", "deflated"}
      /\ IsBytes(call.content) /\ Len(call.content) \in Nat /\ Len(data) \in Nat
  BY <1>1, MemIs, BytesAre
<1>4. /\ Len(Bytes) >= call.ofs + 2 /\ Bytes[call.ofs + 2].t # "end"
      /\ Len(Bytes) >= call.ofs + 2 + Len(data)
      /\ \A k \in 1 .. Len(data) : Bytes[call.ofs + 2 + k] = data[k]
      /\ Bytes[call.ofs + 1].t = "local"
  BY <1>1 DEF IInv, Layout, MemOK
<1>5. /\ h.t = "central" /\ h.name = call.name /\ h.method = call.method /\ h.csize = Len(data)
      /\ h.usize = Len(call.content) /\ h.ofs = call.ofs
  BY DEF CentralHeader
<1>6. h \in Headers(use)
  BY <1>3 DEF Headers, CentralHeader
<1> HIDE DEF h
<1>7. HoldsAt(Bytes, h, h.ofs, call.content)
  <2>1. /\ h.ofs \in Nat /\ h.ofs + 2 + h.csize <= Len(Bytes)
        /\ Bytes[h.ofs + 1].t = "local" /\ Bytes[h.ofs + 2].t # "end"
        /\ h.usize = Len(call.content)
    BY <1>3, <1>4, <1>5, BytesOK
  <2>2. CASE h.method = "stored"
    <3>1. data = call.content
      BY <1>5, <2>2 DEF DataOf
    <3>2. h.csize = Len(call.content)
          /\ \A k \in 1 .. Len(call.content) : Bytes[h.ofs + 2 + k] = call.content[k]
      BY <1>4, <1>5, <3>1
    <3> QED
      BY <2>1, <2>2, <3>2 DEF HoldsAt
  <2>3. CASE h.method # "stored"
    <3>1. data = Deflated(call.content)
      BY <1>3, <1>5, <2>3 DEF DataOf
    <3>2. Len(data) = 1 /\ data[1] = [t |-> "deflate", of |-> call.content]
      BY <3>1, DeflatedIs
    <3>3. Bytes[call.ofs + 2 + 1] = data[1] /\ call.ofs + 2 + 1 = call.ofs + 3
      BY <1>3, <1>4, <3>2
    <3> QED
      BY <1>5, <2>1, <2>3, <3>2, <3>3 DEF HoldsAt
  <2> QED
    BY <2>2, <2>3
<1>8. Adding = end
  BY <1>1 DEF Adding
<1>9. end \in Nat /\ h.ofs + 2 + h.csize = end /\ zip.size <= end /\ Adding <= end /\ Adding \in Nat
  BY <1>3, <1>5, <1>8
<1>10. accepted' = (IF zip.on = "heap" THEN Append(accepted, [name |-> h.name, content |-> call.content])
                    ELSE accepted)
  BY <1>1, <1>2, <1>5 DEF Accept, CallsMember
<1> HIDE DEF end, data
<1> QED
  BY <1>1, <1>2, <1>3, <1>5, <1>6, <1>7, <1>9, <1>10, Enters

\* What a copy knows when it writes.
LEMMA CopyIs ==
    ASSUME IInv, call.op = "copy"
    PROVE  /\ call \in [op : {"copy"}, step : {"header", "body", "central"}, index : Nat, from : Nat,
                       head : Headers(use), ofs : Nat]
           /\ call.head \in Headers(use) /\ call.from \in Nat /\ call.ofs \in Nat
           /\ call.ofs = zip.size + Padding /\ Padding \in Nat /\ zip.size \in Nat
           /\ rd.mode = "reading" /\ zip.mode = "writing" /\ zip.on = "heap" /\ inplace = NotInPlace
           /\ call.index \in DOMAIN rd.dir /\ call.head = rd.dir[call.index]
           /\ call.from = LocalHeaderOfs(rd, call.index)
           /\ \E c \in Mine(use) :
                 /\ HoldsAt(file, call.head, call.from, c)
                 /\ seen[call.index] = [name |-> call.head.name, content |-> c]
<1> DEFINE H == Headers(use)
           i == call.index
<1>1. /\ call \in [op : {"copy"}, step : {"header", "body", "central"}, index : Nat, from : Nat,
                  head : H, ofs : Nat]
      /\ call.ofs = zip.size + Padding /\ rd.mode = "reading"
      /\ i \in DOMAIN rd.dir /\ call.head = rd.dir[i] /\ call.from = LocalHeaderOfs(rd, i)
  BY DEF IInv, Layout, CopyOK
<1> HIDE DEF H
<1>2. call.head \in H /\ call.from \in Nat /\ call.ofs \in Nat
  BY <1>1
<1>3. zip.size \in Nat /\ Padding \in Nat
  BY BytesOK, PaddingIs
<1>4. zip.mode = "writing" /\ zip.on = "heap" /\ inplace = NotInPlace
  BY CallIs
<1> HIDE DEF i
<1>5. \E c \in Mine(use) :
         HoldsAt(file, call.head, call.from, c) /\ seen[i] = [name |-> call.head.name, content |-> c]
  <2>1. /\ Placed(use, file, rd.dir, rd.start, rd.dofs) /\ rd.dir \in Seq(Headers(use))
        /\ rd.total = Len(rd.dir) /\ rd.start \in Nat /\ rd.dofs \in Nat /\ rd.size \in Nat
        /\ rd.dofs <= rd.size /\ Members(file, rd) = seen
    BY <1>1 DEF IInv, Layout, ReaderOK
  <2>2. Spans(rd, file, rd.dofs)
    BY <2>1 DEF Spans
  <2>3. Reads(use, file, rd)
    BY <2>1, <2>2, BytesOK, MembersAre
  <2>4. i \in 1 .. rd.total
    BY <1>1, <2>1
  <2> DEFINE N == use.names
             C == Mine(use)
  <2>5. /\ seen \in Seq([name : N, content : C]) /\ Len(seen) = rd.total
        /\ seen[i].name = rd.dir[i].name
        /\ HoldsAt(file, rd.dir[i], LocalHeaderOfs(rd, i), seen[i].content)
    BY <2>1, <2>3, <2>4 DEF Reads
  <2> HIDE DEF N, C
  <2>6. seen[i] \in [name : N, content : C]
    <3> DEFINE M == [name : N, content : C]
    <3>1. seen \in Seq(M) /\ i \in 1 .. Len(seen)
      BY <2>4, <2>5
    <3> HIDE DEF M
    <3>2. seen[i] \in M
      BY <3>1
    <3> QED
      BY <3>2 DEF M
  <2>7. seen[i].content \in C /\ seen[i] = [name |-> seen[i].name, content |-> seen[i].content]
    BY <2>6
  <2> QED
    BY <1>1, <2>5, <2>7 DEF C
<1> QED
  BY <1>1, <1>2, <1>3, <1>4, <1>5 DEF H, i

LEMMA CopyGoesOn ==
    ASSUME IInv, call.op = "copy", NEW st \in {"header", "body", "central"}, At(st)
    PROVE  /\ call'.op = "copy" /\ call'.step = st /\ call'.from = call.from
           /\ call'.head = call.head /\ call'.ofs = call.ofs /\ call'.index = call.index
           /\ call' \in [op : {"copy"}, step : {"header", "body", "central"}, index : Nat, from : Nat,
                        head : Headers(use), ofs : Nat]
<1> DEFINE H == Headers(use)
<1>1. call \in [op : {"copy"}, step : {"header", "body", "central"}, index : Nat, from : Nat,
               head : H, ofs : Nat]
  BY CopyIs
<1> HIDE DEF H
<1>2. call' = [call EXCEPT !.step = st]
  BY DEF At
<1>3. /\ call'.op = "copy" /\ call'.step = st /\ call'.from = call.from
      /\ call'.head = call.head /\ call'.ofs = call.ofs /\ call'.index = call.index
      /\ call' \in [op : {"copy"}, step : {"header", "body", "central"}, index : Nat, from : Nat,
               head : H, ofs : Nat]
  BY <1>1, <1>2
<1> QED
  BY <1>3 DEF H

LEMMA CopyCentralStep ==
    ASSUME IInv, use' = use, CopyCentralHeader
    PROVE  Layout' /\ ListStep
<1> DEFINE h == [call.head EXCEPT !.ofs = call.ofs]
           end == call.ofs + 2 + call.head.csize
           H == Headers(use)
<1>1. /\ call.op = "copy" /\ call.step = "central"
      /\ \/ zip' = Entered(h, end) /\ Accept(seen[call.index]) /\ Return(TRUE)
         \/ PushFails /\ accepted' = accepted
      /\ UNCHANGED <<use, heap, file, exists, inplace, rd, truth, seen>>
  BY DEF CopyCentralHeader, files
<1>2. /\ call \in [op : {"copy"}, step : {"header", "body", "central"}, index : Nat, from : Nat,
                  head : H, ofs : Nat]
      /\ call.ofs = zip.size + Padding
      /\ HoldsAt(heap, call.head, call.ofs, seen[call.index].content)
  BY <1>1 DEF IInv, Layout, CopyOK
<1>3. call.head \in H /\ call.ofs \in Nat /\ zip.size \in Nat /\ Padding \in Nat
  <2> HIDE DEF H
  <2>1. call.head \in H /\ call.ofs \in Nat
    BY <1>2
  <2> QED
    BY <2>1, BytesOK, PaddingIs
<1>4. /\ call.head.csize \in Nat /\ h \in H /\ h.ofs = call.ofs
      /\ h.csize = call.head.csize /\ h.usize = call.head.usize /\ h.method = call.head.method
      /\ h.name = call.head.name
  BY <1>3 DEF Headers
<1>5. inplace = NotInPlace /\ zip.on = "heap" /\ Bytes = heap /\ zip.mode = "writing"
  BY <1>1, CallIs DEF Bytes
<1> HIDE DEF h, H
<1>6. PICK c \in Mine(use) :
         HoldsAt(Bytes, h, h.ofs, c) /\ seen[call.index] = [name |-> h.name, content |-> c]
  <2>0. call.op = "copy"
    BY <1>1
  <2>1. PICK c \in Mine(use) : seen[call.index] = [name |-> call.head.name, content |-> c]
    BY <2>0, CopyIs, Zenon
  <2>2. HoldsAt(heap, call.head, call.ofs, c)
    BY <1>2, <2>1
  <2>3. HoldsAt(Bytes, h, h.ofs, c)
    BY <1>4, <1>5, <2>2 DEF HoldsAt
  <2> QED
    BY <1>4, <2>1, <2>3
<1>7. Adding = (IF "alloc" \notin use.faults THEN end ELSE 0)
  BY <1>1 DEF Adding
<1>8. end \in Nat /\ zip.size <= end /\ h.ofs + 2 + h.csize = end /\ Adding \in Nat /\ Adding <= end
  BY <1>2, <1>3, <1>4, <1>7
<1> HIDE DEF end
<1>9. CASE zip' = Entered(h, end) /\ Accept(seen[call.index]) /\ Return(TRUE)
  <2>1. accepted' = (IF zip.on = "heap" THEN Append(accepted, [name |-> h.name, content |-> c])
                     ELSE accepted)
    BY <1>6, <1>9 DEF Accept
  <2> QED
    BY <1>1, <1>4, <1>6, <1>8, <1>9, <2>1, Enters DEF H
<1>10. CASE PushFails /\ accepted' = accepted
  <2>1. "alloc" \in use.faults /\ AllocFails(FALSE) /\ Return(FALSE)
    BY <1>10 DEF PushFails, AllocFails
  <2>2. Adding = 0
    BY <1>7, <2>1
  <2>3. Still
    <3>1. zip.room \in SUBSET Arrays
      BY BytesOK
    <3>2. zip.room \union {"m_central_dir"} \in SUBSET Arrays
      BY <3>1 DEF Arrays
    <3>3. \/ zip' = zip
          \/ zip' = [zip EXCEPT !.room = zip.room \union {"m_central_dir"}]
      BY <2>1 DEF AllocFails
    <3> QED
      BY <1>1, <1>10, <3>2, <3>3 DEF Still
  <2> QED
    BY <1>1, <1>5, <1>10, <2>1, <2>2, <2>3, CallFails DEF ListStep
<1> QED
  BY <1>1, <1>9, <1>10

LEMMA CopyHeaderStep ==
    ASSUME IInv, use' = use, CopyHeader
    PROVE  Layout' /\ ListStep
<1> DEFINE cells == Fill(Zero, Padding) \o <<LocalHeader>>
<1>1. /\ call.op = "copy" /\ call.step = "header"
      /\ Put(zip.size, cells, TRUE, "add_write", At("body") /\ UNCHANGED zip)
      /\ UNCHANGED <<use, exists, inplace, rd, truth, seen, accepted>>
  BY DEF CopyHeader, history
<1>2. /\ IsBytes(cells) /\ Len(cells) = Padding + 1 /\ cells[Padding + 1].t = "local"
      /\ \A k \in 1 .. Len(cells) : cells[k].t # "end"
      /\ zip.size \in Nat /\ zip.size <= zip.size /\ Padding \in Nat
  <2> DEFINE zeros == Fill(Zero, Padding)
             one == <<LocalHeader>>
  <2>1. Padding \in Nat /\ zip.size \in Nat
    BY <1>1, CopyIs
  <2>2. IsBytes(zeros) /\ Len(zeros) = Padding /\ \A i \in 1 .. Padding : zeros[i] = Zero
    BY <2>1, FillIs
  <2>3. IsBytes(one) /\ Len(one) = 1 /\ one[1] = LocalHeader
    BY OneCell
  <2> HIDE DEF zeros, one
  <2>4. /\ IsBytes(zeros \o one) /\ Len(zeros \o one) = Padding + 1
        /\ \A i \in 1 .. Padding : (zeros \o one)[i] = Zero
        /\ (zeros \o one)[Padding + 1] = LocalHeader
    <3>1. /\ IsBytes(zeros \o one) /\ Len(zeros \o one) = Len(zeros) + Len(one)
          /\ \A i \in 1 .. Len(zeros) : (zeros \o one)[i] = zeros[i]
          /\ \A i \in 1 .. Len(one) : (zeros \o one)[Len(zeros) + i] = one[i]
      <4>1. Joined(zeros, one, zeros \o one)
        BY <2>2, <2>3, JoinedIs
      <4> QED
        BY <4>1, Zenon DEF Joined
    <3> QED
      BY <2>1, <2>2, <2>3, <3>1
  <2>5. \A k \in 1 .. Padding + 1 : k \in 1 .. Padding \/ k = Padding + 1
    BY <2>1
  <2>6. Zero.t # "end" /\ LocalHeader.t = "local"
    BY DEF Zero, LocalHeader
  <2>7. cells = zeros \o one
    BY DEF zeros, one
  <2> HIDE DEF cells
  <2>8. /\ IsBytes(cells) /\ Len(cells) = Padding + 1 /\ cells[Padding + 1] = LocalHeader
        /\ \A i \in 1 .. Padding : cells[i] = Zero
    BY <2>4, <2>7
  <2>9. ASSUME NEW k \in 1 .. Len(cells) PROVE cells[k].t # "end"
    <3>1. k \in 1 .. Padding \/ k = Padding + 1
      BY <2>5, <2>8
    <3>2. CASE k \in 1 .. Padding
      BY <2>6, <2>8, <3>2
    <3>3. CASE k = Padding + 1
      BY <2>6, <2>8, <3>3
    <3> QED
      BY <3>1, <3>2, <3>3
  <2> QED
    BY <2>1, <2>6, <2>8, <2>9
<1>3. Adding = 0
  BY <1>1 DEF Adding
<1> HIDE DEF cells
<1>4. ASSUME SetBytes(Write(Bytes, zip.size, cells)), At("body"), zip' = zip
      PROVE  Layout' /\ ListStep
  <2>1. /\ call'.op = "copy" /\ call'.step = "body" /\ call'.from = call.from
        /\ call'.head = call.head /\ call'.ofs = call.ofs /\ call'.index = call.index
        /\ call' \in [op : {"copy"}, step : {"header", "body", "central"}, index : Nat, from : Nat,
                     head : Headers(use), ofs : Nat]
    BY <1>1, <1>4, CopyGoesOn
  <2>2. /\ Bytes' = Write(Bytes, zip.size, cells) /\ IsBytes(heap') /\ IsBytes(file')
        /\ WriterOK' /\ CallOK' /\ FinalOK' /\ FileOK' /\ ReaderOK' /\ AppendOK'
        /\ Padding' = Padding /\ Unseen
    BY <1>1, <1>2, <1>4, <2>1, WriteGoesOn
  <2>3. Len(heap') >= call.ofs + 1 /\ heap'[call.ofs + 1].t = "local"
    <3>1. IsBytes(Bytes) /\ zip'.on = "heap" /\ call.ofs = zip.size + Padding
      BY <1>1, <1>4, CopyIs, BytesOK
    <3>2. Overwritten(Bytes, zip.size, cells, Bytes')
      BY <1>2, <2>2, <3>1, WrittenIs
    <3>3. cells # <<>>
      BY <1>2, EmptyIs
    <3>4. Padding + 1 \in 1 .. Len(cells)
      BY <1>2
    <3>5. Len(Bytes') >= zip.size + Len(cells) /\ Bytes'[zip.size + (Padding + 1)] = cells[Padding + 1]
      BY <3>2, <3>3, <3>4, Zenon DEF Overwritten
    <3>6. zip.size + (Padding + 1) = call.ofs + 1 /\ zip.size + Len(cells) = call.ofs + 1
      BY <1>2, <3>1
    <3>7. Bytes' = heap'
      BY <3>1 DEF Bytes
    <3> QED
      BY <1>2, <3>5, <3>6, <3>7
  <2>4. MemOK' /\ CopyOK'
    <3>1. /\ rd' = rd /\ use' = use /\ call.ofs = zip.size + Padding /\ rd.mode = "reading"
          /\ call.index \in DOMAIN rd.dir /\ call.head = rd.dir[call.index]
          /\ call.from = LocalHeaderOfs(rd, call.index)
      BY <1>1, CopyIs
    <3> QED
      BY <1>4, <2>1, <2>2, <2>3, <3>1 DEF MemOK, CopyOK
  <2>5. NoStray'
    <3>1. Adding' = 0
      BY <2>1 DEF Adding
    <3> QED
      BY <1>1, <1>2, <1>3, <1>4, <2>1, <2>2, <3>1, WriteUnstrayed
  <2> QED
    BY <1>1, <2>2, <2>4, <2>5, BytesOK DEF IInv, Layout, ListStep
<1>5. ASSUME "add_write" \in use.faults, zip' = zip, Return(FALSE),
             NEW part \in Torn(zip.size, cells, TRUE), SetBytes(Write(Bytes, zip.size, part))
      PROVE  Layout' /\ ListStep
  BY <1>1, <1>2, <1>3, <1>5, PutFails DEF ListStep
<1> QED
  BY <1>1, <1>4, <1>5 DEF Put

\* A member copied elsewhere is held there.
LEMMA HeldCopied ==
    ASSUME NEW a, NEW b, NEW h, NEW from \in Nat, NEW at \in Nat, NEW c, IsBytes(c),
           HoldsAt(a, h, from, c), h.csize \in Nat, h.method \in {"stored", "deflated"},
           at + 2 + h.csize <= Len(b), b[at + 1].t = "local",
           \A k \in 1 .. 1 + h.csize : b[at + 1 + k] = a[from + 1 + k]
    PROVE  HoldsAt(b, h, at, c)
<1>1. Len(c) \in Nat
  BY BytesAre
<1>2. b[at + 2] = a[from + 2]
  <2>1. b[at + 1 + 1] = a[from + 1 + 1]
    <3>1. 1 \in 1 .. 1 + h.csize
      OBVIOUS
    <3> QED
      BY <3>1
  <2> QED
    BY <2>1
<1>3. \A k \in 1 .. h.csize : b[at + 2 + k] = a[from + 2 + k]
  <2> TAKE k \in 1 .. h.csize
  <2>1. 1 + k \in 1 .. 1 + h.csize /\ at + 1 + (1 + k) = at + 2 + k
        /\ from + 1 + (1 + k) = from + 2 + k
    OBVIOUS
  <2> QED
    BY <2>1
<1>4. b[at + 2].t # "end" /\ h.usize = Len(c)
  BY <1>2 DEF HoldsAt
<1>5. CASE h.method = "stored"
  <2>1. h.csize = Len(c) /\ \A k \in 1 .. Len(c) : a[from + 2 + k] = c[k]
    BY <1>5 DEF HoldsAt
  <2>2. \A k \in 1 .. Len(c) : b[at + 2 + k] = c[k]
    BY <1>3, <2>1
  <2> QED
    BY <1>4, <1>5, <2>1, <2>2 DEF HoldsAt
<1>6. CASE h.method # "stored"
  <2>1. h.csize = 1 /\ a[from + 3] = [t |-> "deflate", of |-> c]
    BY <1>6 DEF HoldsAt
  <2>2. b[at + 2 + 1] = a[from + 2 + 1]
    BY <1>3, <2>1
  <2>3. b[at + 3] = a[from + 3]
    BY <2>2
  <2> QED
    BY <1>4, <1>6, <2>1, <2>3 DEF HoldsAt
<1> QED
  BY <1>5, <1>6

LEMMA CopyBodyStep ==
    ASSUME IInv, use' = use, CopyBody
    PROVE  Layout' /\ ListStep
<1> DEFINE n == 1 + call.head.csize
           at == call.ofs + 1
           cells == Cells(file, call.from + 1, n)
<1>1. /\ call.op = "copy" /\ call.step = "body"
      /\ \/ Return(FALSE) /\ UNCHANGED <<heap, file, zip>>
         \/ Put(at, cells, TRUE, "copy_write", At("central") /\ UNCHANGED zip)
         \/ Len(cells) # n
      /\ UNCHANGED <<use, exists, inplace, rd, truth, seen, accepted>>
  BY DEF CopyBody, history
<1>2. /\ call.head \in Headers(use) /\ call.from \in Nat /\ call.ofs \in Nat /\ zip.size \in Nat
      /\ call.ofs = zip.size + Padding /\ Padding \in Nat
      /\ rd.mode = "reading" /\ zip.mode = "writing" /\ zip.on = "heap" /\ inplace = NotInPlace
      /\ use \in Uses /\ IsBytes(file) /\ IsBytes(Bytes) /\ Len(Bytes) \in Nat /\ Bytes = heap
  BY <1>1, CopyIs, BytesOK DEF Bytes
<1>17. PICK c \in Mine(use) :
          HoldsAt(file, call.head, call.from, c) /\ seen[call.index] = [name |-> call.head.name, content |-> c]
  <2>1. \E c \in Mine(use) : HoldsAt(file, call.head, call.from, c)
                           /\ seen[call.index] = [name |-> call.head.name, content |-> c]
    BY <1>1, CopyIs
  <2> QED
    BY <2>1
<1>3. c \in Mine(use) /\ HoldsAt(file, call.head, call.from, c)
  BY <1>17
<1>18. c = seen[call.index].content
  BY <1>17
<1>4. /\ call.head.csize \in Nat /\ call.head.method \in {"stored", "deflated"} /\ n \in Nat
  BY <1>2 DEF Headers
<1>13. PICK m \in Nat, f \in Nat, o \in Nat :
         m = call.head.csize /\ f = call.from /\ o = call.ofs
  BY <1>2, <1>4
<1>14. n = 1 + m /\ at = o + 1
  BY <1>13
<1>5. /\ call.from + 1 \in Nat /\ (call.from + 1) + n <= Len(file)
  <2>1. call.from + 2 + call.head.csize <= Len(file) /\ Len(file) \in Nat
    BY <1>3, BytesOK DEF HoldsAt
  <2> QED
    <3>1. PICK l \in Nat : l = Len(file) /\ f + 2 + m <= l
      BY <1>13, <2>1
    <3>2. f + 1 \in Nat /\ (f + 1) + (1 + m) <= l
      BY <3>1
    <3> QED
      BY <1>13, <1>14, <3>1, <3>2
<1>6. /\ IsBytes(cells) /\ Len(cells) = n
      /\ \A k \in 1 .. n : cells[k] = file[call.from + 1 + k]
  <2> DEFINE x == call.from + 1
  <2>1. IsBytes(file) /\ x \in Nat /\ n \in Nat /\ x + n <= Len(file)
    BY <1>2, <1>4, <1>5
  <2> HIDE DEF n, x
  <2>2. /\ IsBytes(Cells(file, x, n)) /\ Len(Cells(file, x, n)) = n
        /\ \A k \in 1 .. n : Cells(file, x, n)[k] = file[x + k]
    BY <2>1, CellsAre
  <2> QED
    BY <2>2 DEF x
<1>7. Adding = 0
  BY <1>1 DEF Adding
<1>8. at \in Nat /\ zip.size <= at
  BY <1>2
<1>9. Len(Bytes) >= at /\ Bytes[at].t = "local"
  BY <1>1, <1>2 DEF IInv, Layout, CopyOK
<1> HIDE DEF cells
<1>16. Len(cells) = n
  BY <1>6
<1>10. CASE Return(FALSE) /\ UNCHANGED <<heap, file, zip>>
  <2>1. Still
    BY <1>1, <1>10 DEF Still
  <2> QED
    BY <1>1, <1>2, <1>7, <1>10, <2>1, CallFails DEF ListStep
<1>15. ASSUME use.faults \intersect {"alloc", "copy_write"} # {}, NEW k \in 1 .. n
       PROVE  cells[k].t # "end"
  <2>1. \A j \in DOMAIN c : c[j].t # "end"
    BY <1>2, <1>15, SupportedUses DEF Mine
  <2>2. cells[k] = file[call.from + 1 + k]
    BY <1>6
  <2>3. CASE k = 1
    <3>1. call.from + 1 + k = call.from + 2
      BY <1>2, <2>3
    <3> QED
      BY <1>3, <2>2, <3>1 DEF HoldsAt
  <2>4. CASE k # 1
    <3>1. PICK j \in 1 .. call.head.csize : k = 1 + j
      <4>1. k - 1 \in 1 .. call.head.csize /\ k = 1 + (k - 1)
        BY <1>4, <2>4
      <4> QED
        BY <4>1
    <3>2. call.from + 1 + k = call.from + 2 + j
      <4>1. f + 1 + (1 + j) = f + 2 + j
        BY <1>13
      <4> QED
        BY <1>13, <3>1, <4>1
    <3>3. CASE call.head.method = "stored"
      <4>1. /\ call.head.csize = Len(c)
            /\ \A x \in 1 .. Len(c) : file[call.from + 2 + x] = c[x]
        BY <1>3, <3>3 DEF HoldsAt
      <4>2. cells[k] = c[j] /\ j \in DOMAIN c
        <5>1. DOMAIN c = 1 .. Len(c)
          BY <1>2, ContentIs, BytesAre
        <5> QED
          BY <2>2, <3>1, <3>2, <4>1, <5>1
      <4> QED
        BY <2>1, <4>2
    <3>4. CASE call.head.method # "stored"
      <4>1. call.head.csize = 1 /\ file[call.from + 3] = [t |-> "deflate", of |-> c]
        BY <1>3, <3>4 DEF HoldsAt
      <4>2. call.from + 1 + k = call.from + 3
        BY <1>2, <3>1, <3>2, <4>1
      <4>3. cells[k] = [t |-> "deflate", of |-> c]
        BY <2>2, <4>1, <4>2
      <4> QED
        BY <4>3
    <3> QED
      BY <3>3, <3>4
  <2> QED
    BY <2>3, <2>4
<1>11. ASSUME "copy_write" \in use.faults, zip' = zip, Return(FALSE),
              NEW part \in Torn(at, cells, TRUE), SetBytes(Write(Bytes, at, part))
       PROVE  Layout' /\ ListStep
  <2>1. \A k \in 1 .. Len(cells) : cells[k].t # "end"
    BY <1>6, <1>11, <1>15
  <2> HIDE DEF at
  <2> QED
    BY <1>1, <1>6, <1>7, <1>8, <1>11, <2>1, PutFails DEF ListStep
<1>12. ASSUME SetBytes(Write(Bytes, at, cells)), At("central"), zip' = zip
       PROVE  Layout' /\ ListStep
  <2>1. /\ call'.op = "copy" /\ call'.step = "central" /\ call'.from = call.from
        /\ call'.head = call.head /\ call'.ofs = call.ofs /\ call'.index = call.index
        /\ call' \in [op : {"copy"}, step : {"header", "body", "central"}, index : Nat, from : Nat,
                     head : Headers(use), ofs : Nat]
    BY <1>1, <1>12, CopyGoesOn
  <2>2. /\ Bytes' = Write(Bytes, at, cells) /\ Len(Bytes') \in Nat
        /\ IsBytes(heap') /\ IsBytes(file')
        /\ WriterOK' /\ CallOK' /\ FinalOK' /\ FileOK' /\ ReaderOK' /\ AppendOK'
        /\ Padding' = Padding /\ Unseen
    <3> HIDE DEF at
    <3> QED
      BY <1>1, <1>6, <1>8, <1>12, <2>1, WriteGoesOn
  <2>3. Overwritten(Bytes, at, cells, Bytes')
    <3> HIDE DEF at
    <3> QED
      BY <1>2, <1>6, <1>8, <2>2, WrittenIs
  <2>4. /\ Len(Bytes') >= at + n
        /\ \A k \in 1 .. n : Bytes'[at + k] = file[call.from + 1 + k]
    <3>1. cells # <<>>
      BY <1>4, <1>6, EmptyIs
    <3> HIDE DEF n, at
    <3> QED
      BY <1>6, <2>3, <3>1 DEF Overwritten
  <2>5. Bytes'[at].t = "local"
    <3>1. at \in 1 .. Len(Bytes') /\ at <= at /\ at <= Len(Bytes)
      <4>1. Len(Bytes') >= (o + 1) + (1 + m) /\ Len(Bytes) >= o + 1
        BY <1>9, <1>13, <1>14, <2>4
      <4>2. o + 1 \in 1 .. Len(Bytes') /\ o + 1 <= o + 1 /\ o + 1 <= Len(Bytes)
        BY <1>2, <2>2, <4>1
      <4> QED
        BY <1>14, <4>2
    <3>2. Bytes'[at] = Bytes[at]
      BY <2>3, <3>1 DEF Overwritten
    <3> QED
      BY <1>9, <3>2
  <2>6. HoldsAt(Bytes', call.head, call.ofs, c)
    <3>1. IsBytes(c)
      BY <1>2, ContentIs
    <3>2. call.ofs + 2 + call.head.csize <= Len(Bytes')
      <4>1. Len(Bytes') >= (o + 1) + (1 + m)
        BY <1>13, <1>14, <2>4
      <4>2. o + 2 + m <= Len(Bytes')
        BY <2>2, <4>1
      <4> QED
        BY <1>13, <4>2
    <3>3. Bytes'[call.ofs + 1].t = "local"
          /\ \A k \in 1 .. 1 + call.head.csize : Bytes'[call.ofs + 1 + k] = file[call.from + 1 + k]
      BY <2>4, <2>5
    <3> QED
      BY <1>2, <1>3, <1>4, <3>1, <3>2, <3>3, HeldCopied
  <2>7. MemOK' /\ CopyOK'
    <3>1. rd' = rd /\ seen' = seen /\ use' = use /\ Bytes' = heap'
      BY <1>1, <1>2, <1>12 DEF Bytes
    <3>2. /\ call.index \in DOMAIN rd.dir /\ call.head = rd.dir[call.index]
          /\ call.from = LocalHeaderOfs(rd, call.index)
      BY <1>1, CopyIs
    <3>3. HoldsAt(Bytes', call.head, call.ofs, seen[call.index].content)
      BY <1>18, <2>6
    <3>4. HoldsAt(heap', call'.head, call'.ofs, seen'[call'.index].content)
      BY <2>1, <3>1, <3>3
    <3>5. LocalHeaderOfs(rd', call'.index) = call'.from
      BY <2>1, <3>1, <3>2
    <3> QED
      BY <1>2, <1>12, <2>1, <2>2, <3>1, <3>2, <3>4, <3>5 DEF MemOK, CopyOK
  <2>8. NoStray'
    <3>1. Adding' = IF "alloc" \notin use.faults THEN call.ofs + 2 + call.head.csize ELSE 0
      BY <1>1, <2>1 DEF Adding
    <3>2. \A k \in 1 .. n : cells[k].t # "end" \/ at + k <= Adding'
      <4> SUFFICES ASSUME NEW k \in 1 .. n PROVE cells[k].t # "end" \/ at + k <= Adding'
        OBVIOUS
      <4>1. CASE "alloc" \notin use.faults
        <5>1. Adding' = o + 2 + m
          BY <1>13, <3>1, <4>1
        <5>2. k \in 1 .. 1 + m => (o + 1) + k <= o + 2 + m
          OBVIOUS
        <5> HIDE DEF n, at
        <5> QED
          BY <1>14, <5>1, <5>2
      <4>2. CASE "alloc" \in use.faults
        BY <1>15, <4>2
      <4> QED
        BY <4>1, <4>2
    <3>3. Adding' \in Nat
      <4>1. o + 2 + m \in Nat
        OBVIOUS
      <4> QED
        BY <1>13, <3>1, <4>1
    <3> HIDE DEF at, n
    <3> QED
      BY <1>1, <1>6, <1>7, <1>8, <1>12, <2>1, <2>2, <3>2, <3>3, WriteUnstrayed
  <2> QED
    BY <1>1, <2>2, <2>7, <2>8, BytesOK DEF IInv, Layout, ListStep
<1> HIDE DEF at, n
<1> QED
  BY <1>1, <1>10, <1>11, <1>12, <1>16 DEF Put

-----------------------------------------------------------------------------
(* Finalizing.                                                             *)

LEMMA PlacedHigher ==
    ASSUME NEW u, NEW b, NEW dir \in Seq(Headers(u)), NEW low \in Nat, NEW high \in Nat,
           low <= high, Placed(u, b, dir, 0, low)
    PROVE  Placed(u, b, dir, 0, high)
<1> SUFFICES ASSUME NEW i \in DOMAIN dir
             PROVE  0 + dir[i].ofs + 2 + dir[i].csize <= high
  BY DEF Placed
<1> DEFINE H == Headers(u)
<1>1. dir[i] \in H
  <2>1. dir \in Seq(H)
    OBVIOUS
  <2> HIDE DEF H
  <2> QED
    BY <2>1
<1>2. PICK x \in Nat, y \in Nat : x = dir[i].ofs /\ y = dir[i].csize
  BY <1>1 DEF Headers
<1>3. 0 + x + 2 + y <= low
  BY <1>2 DEF Placed
<1> QED
  BY <1>2, <1>3

\* A finalization knows.
LEMMA FinalIs ==
    ASSUME IInv, call.op = "final"
    PROVE  /\ call \in [op : {"final"}, step : {"dir", "end"}, dofs : Nat, dsize : Nat]
           /\ zip.mode = "writing" /\ zip.on \in {"heap", "file"} /\ use \in Uses
           /\ zip \in [mode : {"invalid", "writing", "finalized"}, on : {"heap", "file"}, size : Nat,
                      total : Nat, dir : Seq(Headers(use)), room : SUBSET Arrays]
           /\ zip.size \in Nat /\ zip.total \in Nat /\ zip.dir \in Seq(Headers(use))
           /\ zip.total = Len(zip.dir) /\ IsBytes(zip.dir) /\ IsBytes(Bytes) /\ Len(Bytes) \in Nat
           /\ Placed(use, Bytes, zip.dir, 0, zip.size)
           /\ Adding = 0 /\ zip.size <= zip.size
<1>1. IsBytes(zip.dir)
  BY BytesOK, SeqIsBytes
<1>2. Adding = 0
  BY DEF Adding
<1>3. /\ call \in [op : {"final"}, step : {"dir", "end"}, dofs : Nat, dsize : Nat]
      /\ zip \in [mode : {"invalid", "writing", "finalized"}, on : {"heap", "file"}, size : Nat,
                  total : Nat, dir : Seq(Headers(use)), room : SUBSET Arrays]
  BY DEF IInv, Layout, FinalOK, WriterOK
<1> QED
  BY <1>1, <1>2, <1>3, BytesOK, CallIs

\* Without members there is no directory to write.
LEMMA FinalizeDirEmpty ==
    ASSUME IInv, call.op = "final", call.step = "dir", zip.total = 0, At("end"),
           UNCHANGED <<use, heap, file, exists, zip, inplace, rd, truth, seen, accepted>>
    PROVE  Layout' /\ ListStep
<1>1. /\ use' = use /\ heap' = heap /\ file' = file /\ zip' = zip /\ inplace' = inplace
      /\ exists' = exists /\ rd' = rd /\ truth' = truth /\ accepted' = accepted
  OBVIOUS
<1>2. Still
  BY <1>1 DEF Still
<1>3. Bytes' = Bytes /\ Listed' = Listed /\ WriterOK' /\ IsBytes(heap') /\ IsBytes(file') /\ Unseen
  BY <1>2, StillIs
<1>4. /\ call' \in [op : {"final"}, step : {"dir", "end"}, dofs : Nat, dsize : Nat]
      /\ call'.op = "final" /\ call'.step = "end" /\ call'.dofs = call.dofs
      /\ call'.dsize = call.dsize
  BY FinalIs DEF At
<1>5. CallOK'
  BY <1>1, <1>4 DEF IInv, Layout, CallOK
<1>6. MemOK' /\ CopyOK'
  BY <1>4 DEF MemOK, CopyOK
<1>7. FinalOK'
  <2>1. call.dofs = 0 /\ call.dsize = 0
    BY DEF IInv, Layout, FinalOK
  <2>2. zip.size - zip.total = zip.size /\ zip.total <= zip.size /\ ~(zip.total > 0)
    BY FinalIs
  <2>3. \A i \in 1 .. zip.total : FALSE
    <3>1. \A i \in 1 .. 0 : FALSE
      OBVIOUS
    <3> QED
      BY <3>1
  <2>4. Placed(use, Bytes, zip.dir, 0, zip.size - zip.total) /\ zip.mode = "writing"
    BY <2>2, FinalIs
  <2> QED
    BY <1>1, <1>3, <1>4, <2>1, <2>2, <2>3, <2>4 DEF FinalOK
<1>8. NoStray'
  <2>1. Edge = zip.size + 1 /\ Edge' = zip.size + 1 /\ Adding = 0 /\ Adding' = 0
    BY <1>1, <1>4, FinalIs DEF Edge, Adding
  <2> QED
    BY <1>1, <1>3, <2>1 DEF IInv, Layout, NoStray
<1>9. FileOK' /\ ReaderOK'
  <2>1. Intact' => Intact
    BY <1>1, <1>4 DEF Intact
  <2>2. Floor' = Floor
    BY <1>1, <1>4, FinalIs DEF Floor
  <2> QED
    BY <1>1, <1>2, <2>1, <2>2, StillKept
<1>10. AppendOK'
  BY <1>1, <1>3, <1>4 DEF IInv, Layout, AppendOK, Added
<1> QED
  BY <1>1, <1>3, <1>5, <1>6, <1>7, <1>8, <1>9, <1>10, BytesOK DEF IInv, Layout, ListStep

\* The directory goes behind the last member.
LEMMA FinalizeDirWritten ==
    ASSUME IInv, call.op = "final", call.step = "dir", zip.total # 0,
           SetBytes(Write(Bytes, zip.size, zip.dir)),
           call' = [call EXCEPT !.step = "end", !.dofs = zip.size, !.dsize = Len(zip.dir)],
           zip' = [zip EXCEPT !.size = @ + Len(zip.dir)],
           UNCHANGED <<use, exists, inplace, rd, truth, seen, accepted>>
    PROVE  Layout' /\ ListStep
<1>1. /\ use' = use /\ inplace' = inplace /\ exists' = exists /\ rd' = rd /\ truth' = truth
      /\ zip.mode = "writing" /\ zip.on \in {"heap", "file"} /\ use \in Uses
      /\ zip.size \in Nat /\ zip.total \in Nat /\ zip.dir \in Seq(Headers(use))
      /\ zip.total = Len(zip.dir) /\ IsBytes(zip.dir) /\ IsBytes(Bytes) /\ Len(Bytes) \in Nat
      /\ Adding = 0
  BY FinalIs
<1> DEFINE H == Headers(use)
           n == zip.size + zip.total
<1>2. /\ zip' \in [mode : {"invalid", "writing", "finalized"}, on : {"heap", "file"}, size : Nat,
                   total : Nat, dir : Seq(H), room : SUBSET Arrays]
      /\ zip'.mode = "writing" /\ zip'.on = zip.on /\ zip'.size = n
      /\ zip'.total = zip.total /\ zip'.dir = zip.dir
  <2>1. zip \in [mode : {"invalid", "writing", "finalized"}, on : {"heap", "file"}, size : Nat,
                 total : Nat, dir : Seq(H), room : SUBSET Arrays]
    BY FinalIs
  <2>2. PICK m \in Nat : m = n
    BY <1>1
  <2>3. zip' = [zip EXCEPT !.size = m]
    BY <1>1, <2>2
  <2> HIDE DEF H, n
  <2> QED
    BY <1>1, <2>1, <2>2, <2>3
<1>3. /\ call' \in [op : {"final"}, step : {"dir", "end"}, dofs : Nat, dsize : Nat]
      /\ call'.op = "final" /\ call'.step = "end" /\ call'.dofs = zip.size /\ call'.dsize = zip.total
  BY <1>1, FinalIs
<1>4. n \in Nat /\ n >= zip.size /\ zip.size <= zip.size /\ zip.total > 0 /\ n - zip.total = zip.size
      /\ zip.total <= n
  BY <1>1
<1> HIDE DEF n, H
<1>5. /\ Bytes' = Write(Bytes, zip.size, zip.dir) /\ IsBytes(heap') /\ IsBytes(file')
      /\ Len(Bytes') \in Nat
      /\ Placed(use, Bytes', zip.dir, 0, zip.size)
      /\ Members(Bytes', Directory(Bytes')) = Listed
      /\ FileOK' /\ ReaderOK'
  <2>1. /\ zip'.on = zip.on /\ Floor' = Floor
        /\ call'.op # "opened" /\ call'.op # "return"
    BY <1>1, <1>2, <1>3, <1>4 DEF Floor
  <2> QED
    BY <1>1, <2>1, WriteKept
<1>6. Overwritten(Bytes, zip.size, zip.dir, Bytes')
  BY <1>1, <1>5, WrittenIs
<1>7. /\ n <= Len(Bytes')
      /\ \A i \in 1 .. zip.total : Bytes'[zip.size + i] = zip.dir[i]
  <2>1. zip.dir # <<>>
    BY <1>1, EmptyIs
  <2> QED
    BY <1>1, <1>5, <1>6, <2>1 DEF Overwritten, n
<1>8. WriterOK'
  <2>1. Placed(use, Bytes', zip.dir, 0, n)
    BY <1>1, <1>4, <1>5, PlacedHigher
  <2> QED
    BY <1>1, <1>2, <2>1 DEF WriterOK, H
<1>9. CallOK'
  BY <1>1, <1>2, <1>3 DEF IInv, Layout, CallOK
<1>10. MemOK' /\ CopyOK'
  BY <1>3 DEF MemOK, CopyOK
<1>11. FinalOK'
  <2>1. call'.step # "dir" /\ zip'.mode # "finalized"
    BY <1>2, <1>3
  <2>2. /\ call'.dsize = zip'.total
        /\ call'.dofs = (IF zip'.total = 0 THEN 0 ELSE zip'.size - zip'.total)
        /\ zip'.total <= zip'.size /\ zip'.size <= Len(Bytes')
    BY <1>1, <1>2, <1>3, <1>4, <1>7
  <2>3. \A i \in 1 .. zip'.total : Bytes'[zip'.size - zip'.total + i] = zip'.dir[i]
    BY <1>2, <1>4, <1>7
  <2>4. Placed(use', Bytes', zip'.dir, 0, zip'.size - zip'.total)
    BY <1>1, <1>2, <1>4, <1>5
  <2> QED
    BY <1>3, <2>1, <2>2, <2>3, <2>4 DEF FinalOK
<1>12. NoStray'
  <2>1. Edge = zip.size + zip.total + 1 /\ Edge' = n + 1 /\ Adding' = 0
    BY <1>2, <1>3 DEF Edge, Adding
  <2>2. Edge \in Nat /\ Edge' \in Nat /\ Edge <= Edge' /\ Adding <= Adding' /\ Adding' \in Nat
    BY <1>1, <2>1 DEF n
  <2>3. \A k \in 1 .. Len(zip.dir) : zip.dir[k].t # "end"
    <3>1. \A k \in 1 .. Len(zip.dir) : zip.dir[k] \in H
      BY <1>1 DEF H
    <3> QED
      BY <3>1 DEF H, Headers
  <2> QED
    BY <1>1, <1>5, <2>2, <2>3, PutUnstrayed
<1>13. Listed' = Listed
  BY <1>2, <1>5 DEF Listed, Directory
<1>14. AppendOK'
  BY <1>1, <1>3, <1>13 DEF IInv, Layout, AppendOK, Added
<1>15. Unseen
  <2>1. CASE zip.on = "heap"
    <3>1. OnHeap /\ accepted' = accepted
      BY <1>1, <2>1 DEF OnHeap
    <3>2. ShownMembers = Listed /\ ShownFinal = <<"none">>
      BY <1>1, <2>1, WritingShows
    <3>3. ShownMembers' = Listed' /\ ShownFinal' = <<"none">>
      BY <1>1, <1>2, <2>1, WritingShowsNext
    <3> QED
      BY <1>13, <3>1, <3>2, <3>3 DEF Unseen
  <2>2. CASE zip.on = "file"
    <3>1. ~OnHeap /\ ~OnHeap' /\ accepted' = accepted
      BY <1>1, <1>2, <2>2 DEF OnHeap
    <3> QED
      BY <3>1, OthersShowNothing DEF Unseen
  <2> QED
    BY <1>1, <2>1, <2>2
<1> QED
  BY <1>1, <1>5, <1>8, <1>9, <1>10, <1>11, <1>12, <1>14, <1>15 DEF IInv, Layout, ListStep

LEMMA FinalizeDirStep ==
    ASSUME IInv, use' = use, FinalizeDir
    PROVE  Layout' /\ ListStep
<1>1. /\ call.op = "final" /\ call.step = "dir"
      /\ UNCHANGED <<use, exists, inplace, rd, truth, seen, accepted>>
  BY DEF FinalizeDir, history
<1>2. CASE zip.total = 0
  <2>1. At("end") /\ UNCHANGED <<heap, file, zip>>
    BY <1>2 DEF FinalizeDir
  <2> QED
    BY <1>1, <1>2, <2>1, FinalizeDirEmpty
<1>3. CASE zip.total # 0
  <2>1. Put(zip.size, zip.dir, FALSE, "final_write",
            /\ call' = [call EXCEPT !.step = "end", !.dofs = zip.size, !.dsize = Len(zip.dir)]
            /\ zip' = [zip EXCEPT !.size = @ + Len(zip.dir)])
    BY <1>3 DEF FinalizeDir
  <2>2. ASSUME "final_write" \in use.faults, zip' = zip, Return(FALSE),
               NEW part \in Torn(zip.size, zip.dir, FALSE),
               SetBytes(Write(Bytes, zip.size, part))
        PROVE  Layout' /\ ListStep
    <3>1. Layout' /\ Unseen
      <4>1. /\ zip.size \in Nat /\ zip.size <= zip.size /\ IsBytes(zip.dir) /\ Adding = 0
            /\ call.op \in {"mem", "copy", "final"}
        BY <1>1, FinalIs
      <4> QED
        BY <1>1, <2>2, <4>1, PutFails
    <3> QED
      BY <3>1 DEF ListStep
  <2>3. ASSUME SetBytes(Write(Bytes, zip.size, zip.dir)),
               call' = [call EXCEPT !.step = "end", !.dofs = zip.size, !.dsize = Len(zip.dir)],
               zip' = [zip EXCEPT !.size = @ + Len(zip.dir)]
        PROVE  Layout' /\ ListStep
    BY <1>1, <1>3, <2>3, FinalizeDirWritten
  <2> QED
    BY <2>1, <2>2, <2>3 DEF Put
<1> QED
  BY <1>2, <1>3

\* Only the directory and the size of an archive matter to what is read.
LEMMA MembersSame ==
    ASSUME NEW b, NEW d, NEW e, d.dir = e.dir, d.total = e.total, d.start = e.start, d.size = e.size
    PROVE  Members(b, d) = Members(b, e)
<1>1. \A i : LocalHeaderOfs(d, i) = LocalHeaderOfs(e, i)
  BY DEF LocalHeaderOfs
<1>2. \A i : Extract(b, d, i) = Extract(b, e, i)
  BY <1>1 DEF Extract
<1> QED
  BY <1>2 DEF Members

\* The end record seals an archive whose directory is behind its members.
Ready(u, a, dir, size, total) ==
    /\ total = Len(dir) /\ total <= size /\ (total > 0 => size <= Len(a))
    /\ \A i \in 1 .. total : a[size - total + i] = dir[i]
    /\ Placed(u, a, dir, 0, size - total)
    /\ \A i \in 1 .. Len(a) : i > size + 1 => a[i].t # "end"
Last(size, total) == EndRecord(total, total, IF total = 0 THEN 0 ELSE size - total)
Ended(u, b, dir, size, total) ==
    /\ Sealed(u, b, size + 1, total, IF total = 0 THEN size ELSE 0)
    /\ Cells(b, size - total, total) = dir

LEMMA EndSeals ==
    ASSUME NEW u \in Uses, NEW a, NEW b, NEW dir \in Seq(Headers(u)), NEW size \in Nat,
           NEW total \in Nat, IsBytes(a), Ready(u, a, dir, size, total),
           b = Write(a, size, <<Last(size, total)>>)
    PROVE  Ended(u, b, dir, size, total)
<1>0. /\ total = Len(dir) /\ total <= size /\ (total > 0 => size <= Len(a))
      /\ \A i \in 1 .. total : a[size - total + i] = dir[i]
      /\ Placed(u, a, dir, 0, size - total)
      /\ \A i \in 1 .. Len(a) : i > size + 1 => a[i].t # "end"
  BY DEF Ready
<1> USE <1>0
<1> DEFINE r == Last(size, total)
           cells == <<r>>
           s == IF total = 0 THEN size ELSE 0
           e == size + 1
<1>1. IsBytes(cells) /\ Len(cells) = 1 /\ cells[1] = r /\ cells # <<>>
  BY OneCell
<1>2. Overwritten(a, size, cells, b)
  <2> HIDE DEF cells
  <2>1. b = Write(a, size, cells)
    BY DEF cells
  <2> QED
    BY <1>1, <2>1, WrittenIs
<1> HIDE DEF cells, r
<1>3. /\ IsBytes(b) /\ Len(b) \in Nat /\ Len(b) >= e /\ Len(b) >= Len(a) /\ b[e] = r
      /\ Len(a) \in Nat
      /\ \A i \in 1 .. Len(b) : i # e => b[i] = IF i <= Len(a) THEN a[i] ELSE Junk
  <2>1. /\ IsBytes(b) /\ Len(b) \in Nat /\ Len(b) >= Len(a) /\ Len(b) >= size + 1
        /\ b[size + 1] = r
        /\ \A i \in 1 .. Len(b) : i <= size \/ i > size + 1 => b[i] = IF i <= Len(a) THEN a[i] ELSE Junk
    BY <1>1, <1>2 DEF Overwritten
  <2>2. Len(a) \in Nat
    BY BytesAre
  <2> QED
    BY <2>1, <2>2
<1>4. PICK o \in Nat : o = size - total
  OBVIOUS
<1>5. /\ s \in Nat /\ total + s < e /\ e - 1 - total = o /\ e \in 1 .. Len(b)
      /\ (IF total = 0 THEN 0 ELSE size - total) = e - 1 - total - s
  <2>1. PICK l \in Nat : l = Len(b) /\ l >= size + 1
    BY <1>3
  <2>2. e \in 1 .. l /\ e - 1 - total = o
    BY <1>4, <2>1
  <2>3. CASE total = 0
    BY <1>4, <2>1, <2>2, <2>3
  <2>4. CASE total # 0
    BY <1>4, <2>1, <2>2, <2>4
  <2> QED
    BY <2>3, <2>4
<1>6. b[e] = EndRecord(total, total, e - 1 - total - s)
  BY <1>3, <1>5 DEF r, Last
<1>7. ASSUME NEW i \in e + 1 .. Len(b)
      PROVE  b[i].t # "end"
  <2>1. i \in 1 .. Len(b) /\ i # e /\ i > size + 1
    BY <1>3
  <2>2. b[i] = IF i <= Len(a) THEN a[i] ELSE Junk
    BY <1>3, <2>1
  <2>3. i <= Len(a) => a[i].t # "end"
    BY <1>3, <2>1
  <2> QED
    BY <2>2, <2>3 DEF Junk
<1>8. Cells(b, o, total) = dir
  <2>1. o + total <= Len(b)
    BY <1>3, <1>4
  <2>2. /\ IsBytes(Cells(b, o, total)) /\ Len(Cells(b, o, total)) = total
        /\ \A k \in 1 .. total : Cells(b, o, total)[k] = b[o + k]
    <3>1. IsBytes(b) /\ o \in Nat /\ total \in Nat
      BY <1>3
    <3> QED
      <4>1. Cut(b, o, total, Cells(b, o, total))
        BY <2>1, <3>1, CutIs
      <4> QED
        BY <4>1, Zenon DEF Cut
  <2>3. ASSUME NEW k \in 1 .. total PROVE b[o + k] = dir[k]
    <3>1. o + k \in 1 .. Len(b) /\ o + k # e /\ o + k <= Len(a)
      BY <1>3, <1>4
    <3>2. b[o + k] = a[o + k]
      BY <1>3, <3>1
    <3>3. a[o + k] = dir[k]
      BY <1>4
    <3> QED
      BY <3>2, <3>3
  <2>4. IsBytes(dir) /\ Len(dir) = total
    BY SeqIsBytes
  <2>5. \A k \in 1 .. total : Cells(b, o, total)[k] = dir[k]
    BY <2>2, <2>3
  <2>6. IsBytes(Cells(b, o, total)) /\ Len(Cells(b, o, total)) = total
    BY <2>2
  <2> QED
    BY <2>4, <2>5, <2>6, SameBytes
<1>9. Placed(u, b, dir, s, o)
  <2>1. CASE total = 0
    <3>1. DOMAIN dir = {}
      <4>1. DOMAIN dir = 1 .. Len(dir)
        BY SeqIsBytes, BytesAre
      <4> QED
        BY <2>1, <4>1
    <3> QED
      BY <3>1 DEF Placed
  <2>2. CASE total # 0
    <3>1. s = 0 /\ Placed(u, a, dir, 0, o)
      BY <1>4, <2>2
    <3>2. Agree(a, b, o)
      BY <1>3, <1>4 DEF Agree
    <3> QED
      BY <1>3, <3>1, <3>2, PlacedKept
  <2> QED
    BY <2>1, <2>2
<1> HIDE DEF e, s
<1>10. Sealed(u, b, e, total, s)
  BY <1>5, <1>6, <1>7, <1>8, <1>9 DEF Sealed
<1> QED
  BY <1>4, <1>8, <1>10 DEF e, s, Ended

LEMMA FinalizeEndWritten ==
    ASSUME IInv, call.op = "final", call.step = "end",
           SetBytes(Write(Bytes, zip.size, <<EndRecord(zip.total, call.dsize, call.dofs)>>)),
           zip' = [zip EXCEPT !.size = @ + 1, !.mode = "finalized"], Return(TRUE),
           UNCHANGED <<use, exists, inplace, rd, truth, seen, accepted>>
    PROVE  Layout' /\ ListStep
<1> DEFINE H == Headers(use)
           cells == <<EndRecord(zip.total, call.dsize, call.dofs)>>
           n == zip.size + 1
           s == IF zip.total = 0 THEN zip.size ELSE 0
<1>1. /\ use' = use /\ inplace' = inplace /\ exists' = exists /\ rd' = rd /\ truth' = truth
      /\ zip.mode = "writing" /\ zip.on \in {"heap", "file"} /\ use \in Uses
      /\ zip.size \in Nat /\ zip.total \in Nat /\ zip.dir \in Seq(Headers(use))
      /\ zip.total = Len(zip.dir) /\ IsBytes(Bytes) /\ Len(Bytes) \in Nat
      /\ Adding = 0
  BY FinalIs
<1>2. /\ zip' \in [mode : {"invalid", "writing", "finalized"}, on : {"heap", "file"}, size : Nat,
                   total : Nat, dir : Seq(H), room : SUBSET Arrays]
      /\ zip'.mode = "finalized" /\ zip'.on = zip.on /\ zip'.size = n
      /\ zip'.total = zip.total /\ zip'.dir = zip.dir
  <2>1. zip \in [mode : {"invalid", "writing", "finalized"}, on : {"heap", "file"}, size : Nat,
                 total : Nat, dir : Seq(H), room : SUBSET Arrays]
    BY FinalIs
  <2>2. PICK m \in Nat : m = n
    BY <1>1
  <2>3. zip' = [zip EXCEPT !.size = m, !.mode = "finalized"]
    BY <2>2
  <2> HIDE DEF H, n
  <2> QED
    BY <1>1, <2>1, <2>2, <2>3
<1>3. /\ inplace = NotInPlace => call' = NoCall
      /\ inplace # NotInPlace => call'.op = "return" /\ call'.step = "final" /\ call'.ok
      /\ call'.op \in {"none", "return"} /\ (call'.op = "none" => call' = NoCall)
  <2>1. call' = NoCall \/ call' = [op |-> "return", step |-> "final", ok |-> TRUE]
    BY DEF Return
  <2> QED
    BY <2>1 DEF NoCall, Return
<1>4. n \in Nat /\ n >= zip.size /\ zip.size <= zip.size
  BY <1>1
<1>5. IsBytes(cells)
  BY OneCell
<1>6. /\ Bytes' = Write(Bytes, zip.size, cells) /\ IsBytes(heap') /\ IsBytes(file')
      /\ IsBytes(Bytes')
      /\ Placed(use, Bytes', zip.dir, 0, zip.size)
      /\ Members(Bytes', Directory(Bytes')) = Listed
      /\ FileOK' /\ ReaderOK'
  <2> HIDE DEF n, cells
  <2>1. /\ zip'.on = zip.on /\ Floor' = Floor
        /\ call'.op # "opened" /\ (call'.op = "return" => call'.ok)
    <3>1. Floor' = n - 1 - zip.total /\ Floor = zip.size - zip.total
      BY <1>1, <1>2 DEF Floor
    <3>2. n - 1 - zip.total = zip.size - zip.total
      BY <1>1 DEF n
    <3> QED
      BY <1>2, <1>3, <3>1, <3>2 DEF NoCall
  <2>2. SetBytes(Write(Bytes, zip.size, cells))
    BY DEF cells
  <2> QED
    BY <1>1, <1>5, <2>1, <2>2, WriteKept
<1>7. Sealed(use, Bytes', n, zip.total, s) /\ Cells(Bytes', zip.size - zip.total, zip.total) = zip.dir
  <2>1. /\ call.dsize = zip.total
        /\ call.dofs = (IF zip.total = 0 THEN 0 ELSE zip.size - zip.total)
        /\ zip.total <= zip.size /\ (zip.total > 0 => zip.size <= Len(Bytes))
        /\ \A i \in 1 .. zip.total : Bytes[zip.size - zip.total + i] = zip.dir[i]
        /\ Placed(use, Bytes, zip.dir, 0, zip.size - zip.total)
    BY DEF IInv, Layout, FinalOK
  <2>2. \A i \in 1 .. Len(Bytes) : i > zip.size + 1 => Bytes[i].t # "end"
    <3>1. Edge = zip.size + 1
      BY DEF Edge
    <3>2. \A i \in 1 .. Len(Bytes) : i > Edge /\ i > Adding => Bytes[i].t # "end"
      BY <1>1 DEF IInv, Layout, NoStray
    <3> QED
      BY <1>1, <3>1, <3>2
  <2>3. Bytes' = Write(Bytes, zip.size,
                       <<EndRecord(zip.total, zip.total,
                                   IF zip.total = 0 THEN 0 ELSE zip.size - zip.total)>>)
    BY <1>6, <2>1
  <2> QED
    <3>1. Ready(use, Bytes, zip.dir, zip.size, zip.total)
      BY <1>1, <2>1, <2>2 DEF Ready
    <3>2. Bytes' = Write(Bytes, zip.size, <<Last(zip.size, zip.total)>>)
      BY <2>3 DEF Last
    <3>3. use \in Uses /\ zip.dir \in Seq(Headers(use)) /\ IsBytes(Bytes)
          /\ zip.size \in Nat /\ zip.total \in Nat
      BY <1>1
    <3>4. Ended(use, Bytes', zip.dir, zip.size, zip.total)
      BY <3>1, <3>2, <3>3, EndSeals
    <3> QED
      BY <3>4 DEF Ended
<1> HIDE DEF H, cells
<1>8. WriterOK'
  <2> HIDE DEF n
  <2>1. Placed(use, Bytes', zip.dir, 0, n)
    BY <1>1, <1>4, <1>6, PlacedHigher
  <2> QED
    BY <1>1, <1>2, <2>1 DEF WriterOK, H
<1>9. CallOK'
  <2>1. CASE inplace = NotInPlace
    <3>1. zip'.on = "heap" /\ call'.op = "none" /\ call' = NoCall
      BY <1>2, <1>3, <2>1, CallIs DEF NoCall
    <3> QED
      BY <1>1, <2>1, <3>1 DEF CallOK
  <2>2. CASE inplace # NotInPlace
    <3>1. /\ inplace.kind \in {"append", "create"} /\ use.appended # {} /\ exists
          /\ inplace.name \in use.names /\ inplace.content \in use.appended
          /\ inplace.kind = "create" => rd.mode = "invalid" /\ truth = <<>>
          /\ zip.on = "file"
      BY <2>2 DEF IInv, Layout, CallOK
    <3>2. call'.op = "return" /\ call'.step = "final" /\ call'.ok
      BY <1>3, <2>2
    <3> QED
      BY <1>1, <1>2, <2>2, <3>1, <3>2 DEF CallOK
  <2> QED
    BY <2>1, <2>2
<1>10. MemOK' /\ CopyOK'
  BY <1>3 DEF MemOK, CopyOK
<1>11. FinalOK'
  <2>1. n - 1 = zip.size /\ n - 1 - zip.total = zip.size - zip.total
    BY <1>1
  <2>2. s = IF zip.total = 0 THEN n - 1 ELSE 0
    BY <2>1
  <2> HIDE DEF n, s
  <2>3. Sealed(use', Bytes', zip'.size, zip'.total, IF zip'.total = 0 THEN zip'.size - 1 ELSE 0)
    BY <1>1, <1>2, <1>7, <2>2
  <2>4. Cells(Bytes', zip'.size - 1 - zip'.total, zip'.total) = zip'.dir
    BY <1>2, <1>7, <2>1
  <2> QED
    BY <1>3, <2>3, <2>4 DEF FinalOK
<1>12. NoStray'
  BY <1>2 DEF NoStray
<1>13. Listed' = Listed
  BY <1>2, <1>6 DEF Listed, Directory
<1>14. AppendOK'
  BY <1>1, <1>3, <1>13 DEF IInv, Layout, AppendOK, Added
<1>15. ListStep
  <2>1. CASE zip.on = "heap"
    <3>1. /\ ShownMembers = Listed /\ ShownFinal = <<"none">> /\ ShownMembers' = Listed'
      BY <1>1, <1>2, <2>1, WritingShows, WritingShowsNext
    <3>2. Bytes' = heap' /\ OnHeap' /\ zip'.mode = "finalized"
      BY <1>2, <2>1 DEF Bytes, OnHeap
    <3>3. Holds(Bytes') = [ok |-> TRUE, members |-> Members(Bytes', ReadCentralDir(Bytes'))]
      BY <1>1, <1>6, <1>7, SealedHolds
    <3>4. Members(Bytes', ReadCentralDir(Bytes')) = Listed
      <4> DEFINE d == ReadCentralDir(Bytes')
                 e == Directory(Bytes')
      <4>1. d = [dofs |-> n - 1 - zip.total, start |-> s, size |-> Len(Bytes'),
                 dir |-> Cells(Bytes', n - 1 - zip.total, zip.total), total |-> zip.total]
        <5> HIDE DEF n, s
        <5> QED
          BY <1>1, <1>6, <1>7, SealedReads
      <4>2. n - 1 - zip.total = zip.size - zip.total
        BY <1>1
      <4>3. d.dir = zip.dir /\ d.total = zip.total /\ d.start = s /\ d.size = Len(Bytes')
        BY <1>7, <4>1, <4>2
      <4>4. e.dir = zip.dir /\ e.total = zip.total /\ e.start = 0 /\ e.size = Len(Bytes')
        BY DEF Directory
      <4> HIDE DEF d, e
      <4>5. CASE zip.total = 0
        BY <1>6, <4>3, <4>4, <4>5, NoMembers DEF d, e
      <4>6. CASE zip.total # 0
        <5>1. Members(Bytes', d) = Members(Bytes', e)
          BY <4>3, <4>4, <4>6, MembersSame
        <5> QED
          BY <1>6, <5>1 DEF d, e
      <4> QED
        BY <4>5, <4>6
    <3>5. ShownFinal' = <<"some", ShownMembers>>
      BY <3>1, <3>2, <3>3, <3>4 DEF ShownFinal
    <3>6. OnHeap /\ accepted' = accepted
      BY <1>1, <2>1 DEF OnHeap
    <3> QED
      BY <1>13, <3>1, <3>5, <3>6 DEF Finished, ListStep
  <2>2. CASE zip.on = "file"
    BY <1>2, <2>2, OthersShowNothing DEF Unseen, OnHeap, ListStep
  <2> QED
    BY <1>1, <2>1, <2>2
<1> QED
  BY <1>1, <1>6, <1>8, <1>9, <1>10, <1>11, <1>12, <1>14, <1>15 DEF IInv, Layout

LEMMA FinalizeEndStep ==
    ASSUME IInv, use' = use, FinalizeEnd
    PROVE  Layout' /\ ListStep
<1> DEFINE cells == <<EndRecord(zip.total, call.dsize, call.dofs)>>
<1>1. /\ call.op = "final" /\ call.step = "end"
      /\ UNCHANGED <<use, exists, inplace, rd, truth, seen, accepted>>
      /\ Put(zip.size, cells, FALSE, "final_write",
             /\ zip' = [zip EXCEPT !.size = @ + 1, !.mode = "finalized"]
             /\ Return(TRUE))
  BY DEF FinalizeEnd, history
<1>2. IsBytes(cells)
  BY OneCell
<1>3. ASSUME SetBytes(Write(Bytes, zip.size, cells)),
             zip' = [zip EXCEPT !.size = @ + 1, !.mode = "finalized"], Return(TRUE)
      PROVE  Layout' /\ ListStep
  BY <1>1, <1>3, FinalizeEndWritten
<1> HIDE DEF cells
<1>4. ASSUME "final_write" \in use.faults, zip' = zip, Return(FALSE),
             NEW part \in Torn(zip.size, cells, FALSE), SetBytes(Write(Bytes, zip.size, part))
      PROVE  Layout' /\ ListStep
  <2>1. Layout' /\ Unseen
    <3>1. /\ zip.size \in Nat /\ zip.size <= zip.size /\ Adding = 0
          /\ call.op \in {"mem", "copy", "final"}
      BY <1>1, FinalIs
    <3> QED
      BY <1>1, <1>2, <1>4, <3>1, PutFails
  <2> QED
    BY <2>1 DEF ListStep
<1> QED
  BY <1>1, <1>3, <1>4 DEF Put

-----------------------------------------------------------------------------
(* The file and its reader.                                                *)

LEMMA SaveStep ==
    ASSUME IInv, use' = use, NEW stub \in use.stubs, Save(stub)
    PROVE  Layout' /\ ListStep
<1>1. /\ Idle /\ zip.mode = "finalized" /\ rd.mode = "invalid"
      /\ file' = Fill(Junk, stub) \o heap /\ exists' /\ truth' = accepted
      /\ accepted' = accepted
      /\ heap' = heap /\ zip' = zip /\ call' = call /\ inplace' = inplace /\ rd' = rd /\ seen' = seen
  BY DEF Save
<1>2. inplace = NotInPlace /\ call = NoCall /\ call.op = "none" /\ zip.on = "heap"
  BY <1>1 DEF Idle, NoCall, IInv, Layout, CallOK
<1>3. Bytes' = Bytes /\ Bytes = heap
  BY <1>1, <1>2 DEF Bytes
<1>4. /\ use \in Uses /\ stub \in Nat /\ IsBytes(heap) /\ zip.total \in Nat /\ zip.size \in Nat
      /\ use.appended # {} => stub = 0
  <2>1. use \in Uses
    BY BytesOK
  <2> QED
    BY <2>1, BytesOK, ZipConstants, SupportedUses
<1> DEFINE s == IF zip.total = 0 THEN zip.size - 1 ELSE 0
           n == zip.total
           e == zip.size
<1>5. Sealed(use, heap, e, n, s)
  BY <1>1, <1>3 DEF IInv, Layout, FinalOK
<1>6. e \in Nat /\ n \in Nat /\ s \in Nat /\ n + s < e /\ (n = 0 \/ s = 0)
  BY <1>4, <1>5 DEF Sealed
<1> HIDE DEF e, n, s
<1>7. /\ IsBytes(file') /\ Len(file') = stub + Len(heap)
      /\ Sealed(use, file', stub + e, n, stub + s)
      /\ Members(file', ReadCentralDir(file')) = Members(heap, ReadCentralDir(heap))
  <2>1. BehindStub(use, heap, e, n, s, stub, file')
    BY <1>1, <1>4, <1>5, StubbedIs
  <2> QED
    BY <2>1 DEF BehindStub
<1>8. Members(heap, ReadCentralDir(heap)) = truth'
  <2> DEFINE x == Directory(heap)
             d == ReadCentralDir(heap)
  <2>1. OnHeap /\ Written = Members(heap, x)
    BY <1>1, <1>2, Zenon DEF OnHeap, Written, Directory
  <2>2. Members(heap, x) = accepted
    BY <2>1 DEF IInv, AcceptedOK
  <2>3. /\ x.dir = zip.dir /\ x.total = n /\ x.start = 0 /\ x.size = Len(heap)
    BY DEF Directory, n
  <2>4. Cells(heap, e - 1 - n, n) = zip.dir
    BY <1>1, <1>3 DEF IInv, Layout, FinalOK, e, n
  <2>5. d = [dofs |-> e - 1 - n, start |-> s, size |-> Len(heap), dir |-> zip.dir, total |-> n]
    BY <1>4, <1>5, <2>4, SealedReads
  <2> HIDE DEF x, d
  <2>6. d.dir = zip.dir /\ d.total = n /\ d.start = s /\ d.size = Len(heap)
    BY <2>5
  <2>7. CASE n = 0
    BY <1>1, <2>2, <2>3, <2>6, <2>7, NoMembers DEF d
  <2>8. CASE n # 0
    <3>1. s = 0
      BY <1>6, <2>8
    <3>2. Members(heap, d) = Members(heap, x)
      BY <2>3, <2>6, <3>1, MembersSame
    <3> QED
      BY <1>1, <2>2, <3>2 DEF d
  <2> QED
    BY <2>7, <2>8
<1>9. FileOK'
  <2>1. stub + e \in 1 .. Len(file')
    BY <1>7 DEF Sealed
  <2>2. n \in 0 .. Len(file') /\ stub + s \in 0 .. Len(file')
    BY <1>4, <1>6, <2>1
  <2>3. use.appended # {} => n = 0 \/ stub + s = 0
    BY <1>4, <1>6
  <2> QED
    BY <1>1, <1>7, <1>8, <2>1, <2>2, <2>3 DEF FileOK
<1>10. ReaderOK'
  BY <1>1 DEF ReaderOK
<1>11. WriterOK' /\ FinalOK' /\ NoStray'
  <2>1. WriterOK'
    BY <1>1, <1>3 DEF IInv, Layout, WriterOK
  <2>2. FinalOK'
    BY <1>1, <1>2, <1>3 DEF IInv, Layout, FinalOK
  <2>3. NoStray'
    BY <1>1 DEF NoStray
  <2> QED
    BY <2>1, <2>2, <2>3
<1>12. CallOK' /\ MemOK' /\ CopyOK' /\ AppendOK'
  BY <1>1, <1>2 DEF CallOK, MemOK, CopyOK, AppendOK
<1>13. Unseen
  <2>1. OnHeap' <=> OnHeap
    BY <1>1 DEF OnHeap
  <2>2. Written' = Written
    BY <1>1 DEF Written
  <2> QED
    BY <1>1, <2>1, <2>2 DEF Unseen, ShownMembers, ShownFinal
<1> QED
  BY <1>1, <1>4, <1>7, <1>9, <1>10, <1>11, <1>12, <1>13 DEF IInv, Layout, ListStep

LEMMA ReaderInitStep ==
    ASSUME IInv, use' = use, lmz_reader_init
    PROVE  Layout' /\ ListStep
<1> DEFINE d == ReadCentralDir(file)
<1>1. /\ exists /\ inplace = NotInPlace /\ call = NoCall
      /\ rd' = [mode |-> "reading", dofs |-> d.dofs, start |-> d.start,
                size |-> d.size, dir |-> d.dir, total |-> d.total]
      /\ seen' = Members(file, d)
      /\ heap' = heap /\ file' = file /\ exists' = exists /\ zip' = zip /\ call' = call
      /\ inplace' = inplace /\ truth' = truth /\ accepted' = accepted
  BY DEF lmz_reader_init, files
<1>2. call.op = "none" /\ zip.on = "heap"
  BY <1>1 DEF NoCall, IInv, Layout, CallOK
<1>3. PICK e \in 1 .. Len(file), n \in 0 .. Len(file), s \in 0 .. Len(file) :
         /\ Sealed(use, file, e, n, s)
         /\ use.appended # {} => n = 0 \/ s = 0
         /\ Members(file, ReadCentralDir(file)) = truth
  BY <1>1 DEF IInv, Layout, FileOK, Intact
<1>4. /\ d = [dofs |-> e - 1 - n, start |-> s, size |-> Len(file),
              dir |-> Cells(file, e - 1 - n, n), total |-> n]
      /\ Cells(file, e - 1 - n, n) \in Seq(Headers(use)) /\ Len(Cells(file, e - 1 - n, n)) = n
      /\ Placed(use, file, Cells(file, e - 1 - n, n), s, e - 1 - n)
      /\ Len(file) \in Nat /\ e - 1 - n \in Nat /\ n \in Nat /\ s \in Nat
  BY <1>3, BytesOK, SealedReads
<1>5. /\ d.dofs = e - 1 - n /\ d.start = s /\ d.size = Len(file) /\ d.total = n
      /\ d.dir \in Seq(Headers(use)) /\ Len(d.dir) = n /\ Placed(use, file, d.dir, s, e - 1 - n)
  <2> DEFINE dir == Cells(file, e - 1 - n, n)
  <2> HIDE DEF dir
  <2>1. d = [dofs |-> e - 1 - n, start |-> s, size |-> Len(file), dir |-> dir, total |-> n]
    BY <1>4 DEF dir
  <2>2. /\ d.dofs = e - 1 - n /\ d.start = s /\ d.size = Len(file) /\ d.total = n /\ d.dir = dir
    BY <2>1
  <2>3. dir \in Seq(Headers(use)) /\ Len(dir) = n /\ Placed(use, file, dir, s, e - 1 - n)
    BY <1>4 DEF dir
  <2> HIDE DEF d
  <2> QED
    BY <2>2, <2>3
<1> HIDE DEF d
<1>6. /\ rd'.mode = "reading" /\ rd'.dofs = e - 1 - n /\ rd'.start = s /\ rd'.size = Len(file)
      /\ rd'.total = n /\ rd'.dir = d.dir
  BY <1>1, <1>5
<1>7. FileOK'
  <2>1. rd'.dofs <= e - 1 - n
    BY <1>4, <1>6
  <2> QED
    BY <1>1, <1>3, <2>1 DEF FileOK
<1>8. ReaderOK'
  <2>1. e - 1 - n <= Len(file) /\ Len(file) <= Len(file)
    BY <1>4
  <2>2. Members(file, rd') = seen'
    <3>1. Members(file, rd') = Members(file, d)
      BY <1>5, <1>6, MembersSame
    <3> QED
      BY <1>1, <3>1
  <2> QED
    BY <1>1, <1>4, <1>5, <1>6, <2>1, <2>2 DEF ReaderOK
<1>9. Still
  BY <1>1 DEF Still
<1>10. /\ Bytes' = Bytes /\ WriterOK' /\ IsBytes(heap') /\ IsBytes(file') /\ Unseen
  BY <1>9, StillIs
<1>11. FinalOK' /\ NoStray'
  <2>1. FinalOK'
    BY <1>1, <1>2, <1>10 DEF IInv, Layout, FinalOK
  <2>2. NoStray'
    BY <1>1, <1>2, <1>10 DEF IInv, Layout, NoStray, Edge, Adding
  <2> QED
    BY <2>1, <2>2
<1>12. CallOK' /\ MemOK' /\ CopyOK' /\ AppendOK'
  BY <1>1, <1>2 DEF CallOK, MemOK, CopyOK, AppendOK
<1> QED
  BY <1>1, <1>7, <1>8, <1>10, <1>11, <1>12, BytesOK DEF IInv, Layout, ListStep

LEMMA ReaderGcStep ==
    ASSUME IInv, use' = use, lmz_reader_gc
    PROVE  Layout' /\ ListStep
<1>1. /\ call = NoCall /\ call.op = "none" /\ rd'.mode = "invalid" /\ rd.mode = "reading"
      /\ heap' = heap /\ file' = file /\ exists' = exists /\ zip' = zip /\ call' = call
      /\ inplace' = inplace /\ truth' = truth /\ accepted' = accepted
  BY DEF lmz_reader_gc, files, NoReader, NoCall
<1>2. inplace = NotInPlace /\ zip.on = "heap"
  BY <1>1 DEF IInv, Layout, CallOK
<1>3. Still
  BY <1>1 DEF Still
<1>4. /\ Bytes' = Bytes /\ WriterOK' /\ IsBytes(heap') /\ IsBytes(file') /\ Unseen
  BY <1>3, StillIs
<1>5. FinalOK' /\ NoStray'
  <2>1. FinalOK'
    BY <1>1, <1>4 DEF IInv, Layout, FinalOK
  <2>2. NoStray'
    BY <1>1, <1>4 DEF IInv, Layout, NoStray, Edge, Adding
  <2> QED
    BY <2>1, <2>2
<1>6. CallOK' /\ MemOK' /\ CopyOK' /\ AppendOK'
  BY <1>1, <1>2 DEF CallOK, MemOK, CopyOK, AppendOK
<1>7. FileOK' /\ ReaderOK'
  <2>1. FileOK'
    BY <1>1, <1>2 DEF IInv, Layout, FileOK, Intact
  <2>2. ReaderOK'
    BY <1>1 DEF ReaderOK
  <2> QED
    BY <2>1, <2>2
<1> QED
  BY <1>1, <1>4, <1>5, <1>6, <1>7, BytesOK DEF IInv, Layout, ListStep

-----------------------------------------------------------------------------
(* Appends in place.                                                       *)

\* A writer of the file opens on a directory that lies in the file.
LEMMA Opens ==
    ASSUME IInv, Idle, zip.mode = "invalid", UNCHANGED <<use, heap, rd, seen>>,
           NEW dir \in Seq(Headers(use)), NEW size \in Nat, NEW total \in Nat, total = Len(dir),
           zip' = [mode |-> "writing", on |-> "file", size |-> size, total |-> total,
                   dir |-> dir, room |-> {}],
           Placed(use, file', dir, 0, size), IsBytes(file'),
           Members(file', [dir |-> dir, total |-> total, start |-> 0, size |-> Len(file')]) = truth',
           \A i \in 1 .. Len(file') : i > size + total + 1 => file'[i].t # "end",
           call' = [op |-> "opened", step |-> "add"], exists', use.appended # {},
           inplace'.kind \in {"append", "create"}, inplace'.name \in use.names,
           inplace'.content \in use.appended, inplace' # NotInPlace,
           inplace'.kind = "create" => rd.mode = "invalid" /\ truth' = <<>>,
           FileOK', ReaderOK'
    PROVE  Layout' /\ ListStep
<1>1. /\ use' = use /\ heap' = heap /\ rd' = rd /\ call'.op = "opened"
      /\ zip'.mode = "writing" /\ zip'.on = "file" /\ zip'.size = size /\ zip'.total = total
      /\ zip'.dir = dir
  OBVIOUS
<1>2. Bytes' = file'
  BY <1>1 DEF Bytes
<1>3. WriterOK'
  <2> DEFINE H == Headers(use)
             Z == [mode : {"invalid", "writing", "finalized"}, on : {"heap", "file"}, size : Nat,
                  total : Nat, dir : Seq(H), room : SUBSET Arrays]
  <2>1. dir \in Seq(H) /\ {} \in SUBSET Arrays
    OBVIOUS
  <2> HIDE DEF H
  <2>2. zip' \in Z
    BY <2>1
  <2>3. zip'.total = Len(zip'.dir) /\ Placed(use', Bytes', zip'.dir, 0, zip'.size)
    BY <1>1, <1>2
  <2> QED
    BY <1>1, <2>2, <2>3 DEF WriterOK, H
<1>4. CallOK'
  BY <1>1 DEF CallOK
<1>5. MemOK' /\ CopyOK' /\ FinalOK'
  BY <1>1 DEF MemOK, CopyOK, FinalOK
<1>6. NoStray'
  <2>1. Edge' = size + total + 1
    BY <1>1 DEF Edge
  <2> QED
    BY <1>2, <2>1 DEF NoStray
<1>7. AppendOK'
  <2>1. Listed' = truth' /\ ~Added'
    BY <1>1, <1>2 DEF Listed, Directory, Added
  <2> QED
    BY <1>1, <2>1 DEF AppendOK
<1>8. Unseen
  BY <1>1, OthersShowNothing DEF Unseen, OnHeap
<1> QED
  BY <1>1, <1>3, <1>4, <1>5, <1>6, <1>7, <1>8, BytesOK DEF IInv, Layout, ListStep

LEMMA OpenStep ==
    ASSUME IInv, use' = use, NEW n \in use.names, NEW c \in use.appended, NEW deflate,
           mz_zip_add_mem_to_archive_file_in_place(n, c, deflate), exists
    PROVE  Layout' /\ ListStep
<1> DEFINE d == ReadCentralDir(file)
           H == Headers(use)
<1>1. /\ Idle /\ zip.mode = "invalid"
      /\ zip' = [mode |-> "writing", on |-> "file", size |-> d.dofs, total |-> d.total,
                 dir |-> d.dir, room |-> {}]
      /\ file' = file /\ exists' = exists /\ truth' = truth
      /\ inplace' = [kind |-> "append", name |-> n, content |-> c, deflate |-> deflate]
      /\ call' = [op |-> "opened", step |-> "add"]
      /\ heap' = heap /\ rd' = rd /\ seen' = seen
  BY DEF mz_zip_add_mem_to_archive_file_in_place, OpenInPlace, files
<1>2. PICK e \in 1 .. Len(file), m \in 0 .. Len(file), s \in 0 .. Len(file) :
         /\ Sealed(use, file, e, m, s)
         /\ use.appended # {} => m = 0 \/ s = 0
         /\ rd.mode = "reading" => rd.dofs <= e - 1 - m
         /\ Members(file, d) = truth
  BY <1>1 DEF IInv, Layout, FileOK, Intact, Idle
<1> DEFINE dir == Cells(file, e - 1 - m, m)
<1>3. /\ d = [dofs |-> e - 1 - m, start |-> s, size |-> Len(file), dir |-> dir, total |-> m]
      /\ dir \in Seq(Headers(use)) /\ Len(dir) = m
      /\ Placed(use, file, dir, s, e - 1 - m)
      /\ Len(file) \in Nat /\ e - 1 - m \in Nat /\ m \in Nat
  BY <1>2, BytesOK, SealedReads
<1> HIDE DEF d, dir
<1>4. d.dofs = e - 1 - m /\ d.start = s /\ d.size = Len(file) /\ d.total = m /\ d.dir = dir
  BY <1>3
<1>5. PICK size \in Nat : size = e - 1 - m
  BY <1>3
<1>6. m = 0 \/ s = 0
  BY <1>2
<1>7. Placed(use, file, dir, 0, size)
  <2>1. CASE m = 0
    <3>1. DOMAIN dir = {}
      <4>1. DOMAIN dir = 1 .. Len(dir)
        BY <1>3, SeqIsBytes, BytesAre
      <4> QED
        BY <1>3, <2>1, <4>1
    <3> QED
      BY <3>1 DEF Placed
  <2>2. CASE s = 0
    BY <1>3, <1>5, <2>2
  <2> QED
    BY <1>6, <2>1, <2>2
<1>8. Members(file, [dir |-> dir, total |-> m, start |-> 0, size |-> Len(file)]) = truth
  <2> DEFINE x == [dir |-> dir, total |-> m, start |-> 0, size |-> Len(file)]
  <2>1. x.dir = dir /\ x.total = m /\ x.start = 0 /\ x.size = Len(file)
    OBVIOUS
  <2> HIDE DEF x
  <2>2. CASE m = 0
    <3>1. Members(file, x) = <<>> /\ Members(file, d) = <<>>
      BY <1>4, <2>1, <2>2, NoMembers
    <3> QED
      BY <1>2, <3>1 DEF x
  <2>3. CASE s = 0
    <3>1. Members(file, x) = Members(file, d)
      BY <1>4, <2>1, <2>3, MembersSame
    <3> QED
      BY <1>2, <3>1 DEF x
  <2> QED
    BY <1>6, <2>2, <2>3
<1>9. \A i \in 1 .. Len(file) : i > size + m + 1 => file[i].t # "end"
  <2>1. \A i \in e + 1 .. Len(file) : file[i].t # "end"
    BY <1>2 DEF Sealed
  <2>2. size + m + 1 = e
    BY <1>3, <1>5
  <2> QED
    BY <1>3, <2>1, <2>2
<1>10. /\ inplace'.kind = "append" /\ inplace'.name = n /\ inplace'.content = c
       /\ inplace' # NotInPlace
  BY <1>1 DEF NotInPlace
<1>11. FileOK'
  BY <1>1, <1>2 DEF FileOK, d
<1>12. ReaderOK'
  <2>1. Floor' = size
    BY <1>1, <1>4, <1>5 DEF Floor
  <2>2. rd.mode = "reading" => rd.dofs <= size
    BY <1>2, <1>5
  <2> QED
    BY <1>1, <2>1, <2>2 DEF IInv, Layout, ReaderOK
<1>13. zip' = [mode |-> "writing", on |-> "file", size |-> size, total |-> m, dir |-> dir, room |-> {}]
  BY <1>1, <1>4, <1>5
<1>14. use.appended # {} /\ exists'
  BY <1>1
<1> QED
  BY <1>1, <1>3, <1>7, <1>8, <1>9, <1>10, <1>11, <1>12, <1>13, <1>14, BytesOK, Opens

LEMMA CreateStep ==
    ASSUME IInv, use' = use, NEW n \in use.names, NEW c \in use.appended, NEW deflate,
           mz_zip_add_mem_to_archive_file_in_place(n, c, deflate), ~exists
    PROVE  Layout' /\ ListStep
<1>1. /\ Idle /\ zip.mode = "invalid"
      /\ zip' = [mode |-> "writing", on |-> "file", size |-> 0, total |-> 0, dir |-> <<>>, room |-> {}]
      /\ file' = <<>> /\ exists' /\ truth' = <<>>
      /\ inplace' = [kind |-> "create", name |-> n, content |-> c, deflate |-> deflate]
      /\ call' = [op |-> "opened", step |-> "add"]
      /\ heap' = heap /\ rd' = rd /\ seen' = seen
  BY DEF mz_zip_add_mem_to_archive_file_in_place, CreateInPlace, NoZip
<1>2. rd.mode = "invalid"
  BY DEF IInv, Layout, ReaderOK
<1>3. /\ inplace'.kind = "create" /\ inplace'.name = n /\ inplace'.content = c
      /\ inplace' # NotInPlace /\ call'.op = "opened"
  BY <1>1 DEF NotInPlace
<1>4. IsBytes(file') /\ Len(file') = 0
  BY <1>1, NoCells
<1>5. FileOK'
  BY <1>3 DEF FileOK, Intact
<1>6. ReaderOK'
  BY <1>1, <1>2 DEF ReaderOK
<1>7. Placed(use, file', <<>>, 0, 0)
  BY DEF Placed
<1>8. Members(file', [dir |-> <<>>, total |-> 0, start |-> 0, size |-> Len(file')]) = truth'
  <2>1. [dir |-> <<>>, total |-> 0, start |-> 0, size |-> Len(file')].total = 0
    OBVIOUS
  <2> QED
    BY <1>1, <2>1, NoMembers
<1>9. \A i \in 1 .. Len(file') : i > 0 + 0 + 1 => file'[i].t # "end"
  BY <1>4
<1>10. <<>> \in Seq(Headers(use)) /\ Len(<<>>) = 0
  <2> DEFINE H == Headers(use)
  <2> HIDE DEF H
  <2>1. <<>> \in Seq(H) /\ Len(<<>>) = 0
    OBVIOUS
  <2> QED
    BY <2>1 DEF H
<1> QED
  BY <1>1, <1>2, <1>3, <1>4, <1>5, <1>6, <1>7, <1>8, <1>9, <1>10, Opens

\* The writer of an append is closed.
LEMMA Closes ==
    ASSUME IInv, inplace # NotInPlace, zip' = NoZip, call' = NoCall, inplace' = NotInPlace,
           UNCHANGED <<use, heap>>, IsBytes(file'), FileOK', ReaderOK'
    PROVE  Layout' /\ ListStep
<1>1. /\ use' = use /\ heap' = heap /\ call'.op = "none" /\ call' = NoCall
      /\ zip' = [mode |-> "invalid", on |-> "heap", size |-> 0, total |-> 0, dir |-> <<>>, room |-> {}]
  BY DEF NoCall, NoZip
<1>2. /\ zip'.mode = "invalid" /\ zip'.on = "heap" /\ zip'.size = 0 /\ zip'.total = 0
      /\ zip'.dir = <<>>
  BY <1>1
<1>3. WriterOK'
  <2> DEFINE H == Headers(use)
             Z == [mode : {"invalid", "writing", "finalized"}, on : {"heap", "file"}, size : Nat,
                  total : Nat, dir : Seq(H), room : SUBSET Arrays]
  <2>1. <<>> \in Seq(H) /\ {} \in SUBSET Arrays
    <3> HIDE DEF H
    <3> QED
      OBVIOUS
  <2> HIDE DEF H
  <2>2. zip' \in Z
    BY <1>1, <2>1
  <2>3. Placed(use', Bytes', zip'.dir, 0, zip'.size)
    BY <1>2 DEF Placed
  <2>4. zip'.total = Len(zip'.dir)
    BY <1>2
  <2> QED
    BY <1>1, <2>2, <2>3, <2>4 DEF WriterOK, H
<1>4. CallOK' /\ MemOK' /\ CopyOK' /\ AppendOK' /\ FinalOK' /\ NoStray'
  BY <1>1, <1>2 DEF CallOK, MemOK, CopyOK, AppendOK, FinalOK, NoStray
<1>5. Unseen
  <2>1. zip.on = "file"
    BY DEF IInv, Layout, CallOK
  <2> QED
    BY <1>2, <2>1, OthersShowNothing DEF Unseen, OnHeap
<1> QED
  BY <1>1, <1>3, <1>4, <1>5, BytesOK DEF IInv, Layout, ListStep

LEMMA ThenEndStep ==
    ASSUME IInv, use' = use, ThenEnd
    PROVE  Layout' /\ ListStep
<1> DEFINE n == zip.total
           e == zip.size
           s == IF n = 0 THEN e - 1 ELSE 0
           d == ReadCentralDir(file)
           x == Directory(file)
<1>1. /\ call.op = "return" /\ call.step = "final" /\ call.ok
      /\ truth' = Append(truth, [name |-> inplace.name, content |-> inplace.content])
      /\ zip' = NoZip /\ call' = NoCall /\ inplace' = NotInPlace
      /\ heap' = heap /\ file' = file /\ exists' = exists /\ rd' = rd /\ seen' = seen
  BY DEF ThenEnd, files
<1>2. inplace # NotInPlace /\ exists /\ zip.on = "file" /\ zip.mode = "finalized"
  BY <1>1 DEF IInv, Layout, CallOK
<1>3. Bytes = file
  BY <1>2 DEF Bytes
<1>4. Sealed(use, file, e, n, s) /\ Cells(file, e - 1 - n, n) = zip.dir
  BY <1>2, <1>3 DEF IInv, Layout, FinalOK
<1>5. /\ e \in 1 .. Len(file) /\ n \in Nat /\ s \in Nat /\ n + s < e /\ Len(file) \in Nat
  BY <1>4, BytesOK DEF Sealed
<1>6. d = [dofs |-> e - 1 - n, start |-> s, size |-> Len(file), dir |-> zip.dir, total |-> n]
  <2> HIDE DEF e, n, s
  <2>1. d = [dofs |-> e - 1 - n, start |-> s, size |-> Len(file),
             dir |-> Cells(file, e - 1 - n, n), total |-> n]
    BY <1>4, BytesOK, SealedReads
  <2> QED
    BY <1>4, <2>1
<1>7. Members(file, d) = truth'
  <2>1. Members(file, x) = truth'
    BY <1>1, <1>2, <1>3 DEF IInv, Layout, AppendOK, Added, Listed
  <2>2. x.dir = zip.dir /\ x.total = n /\ x.start = 0 /\ x.size = Len(file)
    BY DEF Directory
  <2> HIDE DEF d, x
  <2>3. d.dir = zip.dir /\ d.total = n /\ d.start = s /\ d.size = Len(file)
    BY <1>6
  <2>4. CASE n = 0
    BY <2>1, <2>2, <2>3, <2>4, NoMembers
  <2>5. CASE n # 0
    <3>1. Members(file, d) = Members(file, x)
      BY <2>2, <2>3, <2>5, MembersSame
    <3> QED
      BY <2>1, <3>1
  <2> QED
    BY <2>4, <2>5
<1>8. FileOK'
  <2>1. n \in 0 .. Len(file) /\ s \in 0 .. Len(file) /\ (n = 0 \/ s = 0)
    BY <1>5
  <2>2. rd.mode = "reading" => rd.dofs <= e - 1 - n
    <3>1. Floor = e - 1 - n
      BY <1>2 DEF Floor
    <3> QED
      BY <1>2, <3>1 DEF IInv, Layout, ReaderOK
  <2> HIDE DEF e, n, s
  <2> QED
    BY <1>1, <1>4, <1>5, <1>7, <2>1, <2>2 DEF FileOK, d
<1>9. ReaderOK'
  BY <1>1, <1>2 DEF IInv, Layout, ReaderOK
<1>10. IsBytes(file')
  BY <1>1, BytesOK
<1> QED
  BY <1>1, <1>2, <1>8, <1>9, <1>10, Closes

LEMMA ThenGiveUpStep ==
    ASSUME IInv, use' = use, ThenGiveUp
    PROVE  Layout' /\ ListStep
<1>1. /\ call.op = "return" /\ ~call.ok
      /\ zip' = NoZip /\ call' = NoCall /\ inplace' = NotInPlace
      /\ file' = IF inplace.kind = "create" THEN <<>> ELSE file
      /\ exists' = (inplace.kind # "create")
      /\ heap' = heap /\ rd' = rd /\ truth' = truth /\ seen' = seen
  BY DEF ThenGiveUp, history
<1>2. /\ inplace # NotInPlace /\ exists /\ inplace.kind \in {"append", "create"}
      /\ inplace.kind = "create" => rd.mode = "invalid"
  BY <1>1 DEF IInv, Layout, CallOK
<1>3. CASE inplace.kind = "create"
  <2>1. FileOK' /\ ReaderOK' /\ IsBytes(file')
    BY <1>1, <1>2, <1>3, NoCells DEF FileOK, ReaderOK
  <2> QED
    BY <1>1, <1>2, <2>1, Closes
<1>4. CASE inplace.kind = "append"
  <2>1. Intact
    BY <1>1, <1>4 DEF Intact
  <2>2. UNCHANGED <<use, file, exists, rd, truth, seen>>
    BY <1>1, <1>2, <1>4
  <2>3. FileOK' /\ ReaderOK' /\ IsBytes(file')
    BY <1>1, <2>1, <2>2, FileKept
  <2> QED
    BY <1>1, <1>2, <2>3, Closes
<1> QED
  BY <1>2, <1>3, <1>4

-----------------------------------------------------------------------------
(* The theorems.                                                           *)

LEMMA StutterStep ==
    ASSUME IInv, UNCHANGED vars
    PROVE  Layout' /\ ListStep
<1>1. /\ use' = use /\ heap' = heap /\ file' = file /\ exists' = exists /\ zip' = zip
      /\ call' = call /\ inplace' = inplace /\ rd' = rd /\ truth' = truth /\ seen' = seen
      /\ accepted' = accepted
  BY DEF vars
<1>2. /\ CallOK' /\ WriterOK' /\ MemOK' /\ CopyOK' /\ FinalOK' /\ NoStray'
      /\ FileOK' /\ ReaderOK' /\ AppendOK'
  <2>1. Bytes' = Bytes /\ Padding' = Padding
    BY <1>1 DEF Bytes, Padding
  <2>2. CallOK'
    BY <1>1 DEF IInv, Layout, CallOK
  <2>3. WriterOK'
    BY <1>1, <2>1 DEF IInv, Layout, WriterOK
  <2>4. MemOK'
    BY <1>1, <2>1 DEF IInv, Layout, MemOK
  <2>5. CopyOK'
    BY <1>1, <2>1 DEF IInv, Layout, CopyOK
  <2>6. FinalOK'
    BY <1>1, <2>1 DEF IInv, Layout, FinalOK
  <2>7. NoStray'
    BY <1>1, <2>1 DEF IInv, Layout, NoStray, Edge, Adding
  <2>8. FileOK'
    BY <1>1 DEF IInv, Layout, FileOK, Intact
  <2>9. ReaderOK'
    BY <1>1 DEF IInv, Layout, ReaderOK, Floor
  <2>10. AppendOK'
    BY <1>1, <2>1 DEF IInv, Layout, AppendOK, Listed, Directory, Added
  <2> QED
    BY <2>2, <2>3, <2>4, <2>5, <2>6, <2>7, <2>8, <2>9, <2>10
<1>3. Unseen
  <2>1. (OnHeap' <=> OnHeap) /\ Written' = Written
    BY <1>1 DEF OnHeap, Written
  <2> QED
    BY <1>1, <2>1 DEF Unseen, ShownMembers, ShownFinal
<1> QED
  BY <1>1, <1>2, <1>3 DEF IInv, Layout, ListStep

LEMMA StepLays ==
    ASSUME IInv, [Next]_vars
    PROVE  Layout' /\ ListStep
<1>1. CASE UNCHANGED vars
  BY <1>1, StutterStep
<1>2. CASE Writer /\ use' = use
  <2>1. CASE lmz_writer_init
    BY <1>2, <2>1, InitStep
  <2>2. CASE lmz_writer_gc
    BY <1>2, <2>2, GcStep
  <2>3. CASE lmz_writer_finalize
    BY <1>2, <2>3, FinalizeStep
  <2>4. ASSUME NEW n \in use.names, NEW c \in use.contents, NEW deflate \in BOOLEAN,
               lmz_writer_add_mem(n, c, deflate)
        PROVE  Layout' /\ ListStep
    BY <1>2, <2>4, AddStep
  <2>5. ASSUME NEW i \in 1 .. use.members, lmz_writer_add_from_zip_reader(i)
        PROVE  Layout' /\ ListStep
    BY <1>2, <2>5, CopyStep
  <2> QED
    BY <1>2, <2>1, <2>2, <2>3, <2>4, <2>5 DEF Writer
<1>3. CASE Steps /\ use' = use
  <2>1. CASE WriteZeros
    BY <1>3, <2>1, ZerosStep
  <2>2. CASE WriteName
    BY <1>3, <2>2, NameStep
  <2>3. CASE WriteData
    BY <1>3, <2>3, DataStep
  <2>4. CASE WriteLocalHeader
    BY <1>3, <2>4, LocalStep
  <2>5. CASE add_to_central_dir
    BY <1>3, <2>5, CentralStep
  <2>6. CASE CopyHeader
    BY <1>3, <2>6, CopyHeaderStep
  <2>7. CASE CopyBody
    BY <1>3, <2>7, CopyBodyStep
  <2>8. CASE CopyCentralHeader
    BY <1>3, <2>8, CopyCentralStep
  <2>9. CASE FinalizeDir
    BY <1>3, <2>9, FinalizeDirStep
  <2>10. CASE FinalizeEnd
    BY <1>3, <2>10, FinalizeEndStep
  <2> QED
    BY <1>3, <2>1, <2>2, <2>3, <2>4, <2>5, <2>6, <2>7, <2>8, <2>9, <2>10 DEF Steps
<1>4. CASE Files /\ use' = use
  <2>1. CASE lmz_reader_init
    BY <1>4, <2>1, ReaderInitStep
  <2>2. CASE lmz_reader_gc
    BY <1>4, <2>2, ReaderGcStep
  <2>3. ASSUME NEW stub \in use.stubs, Save(stub)
        PROVE  Layout' /\ ListStep
    BY <1>4, <2>3, SaveStep
  <2> QED
    BY <1>4, <2>1, <2>2, <2>3 DEF Files
<1>5. CASE InPlace /\ use' = use
  <2>1. CASE AddInPlace
    BY <1>5, <2>1, AddInPlaceStep
  <2>2. CASE ThenFinalize
    BY <1>5, <2>2, ThenFinalizeStep
  <2>3. CASE ThenEnd
    BY <1>5, <2>3, ThenEndStep
  <2>4. CASE ThenGiveUp
    BY <1>5, <2>4, ThenGiveUpStep
  <2>5. ASSUME NEW n \in use.names, NEW c \in use.appended, NEW deflate \in BOOLEAN,
               mz_zip_add_mem_to_archive_file_in_place(n, c, deflate)
        PROVE  Layout' /\ ListStep
    <3>1. CASE exists
      BY <1>5, <2>5, <3>1, OpenStep
    <3>2. CASE ~exists
      BY <1>5, <2>5, <3>2, CreateStep
    <3> QED
      BY <3>1, <3>2
  <2> QED
    BY <1>5, <2>1, <2>2, <2>3, <2>4, <2>5 DEF InPlace
<1> QED
  BY <1>1, <1>2, <1>3, <1>4, <1>5 DEF Next

\* What was accepted stays what lies on the heap.
LEMMA StepKeeps ==
    ASSUME IInv, [Next]_vars
    PROVE  IInv' /\ ListStep
<1>1. Layout' /\ ListStep
  BY StepLays
<1>2. OnHeap => ShownMembers = accepted
  BY DEF IInv, AcceptedOK, ShownMembers
<1>3. OnHeap' => ShownMembers' = accepted'
  <2>1. CASE Unseen
    BY <1>2, <2>1 DEF Unseen
  <2>2. CASE Cleared
    BY <2>2 DEF Cleared
  <2>3. CASE Grown
    BY <1>2, <2>3 DEF Grown
  <2>4. CASE Finished
    BY <1>2, <2>4 DEF Finished
  <2> QED
    BY <1>1, <2>1, <2>2, <2>3, <2>4 DEF ListStep
<1>4. AcceptedOK'
  <2>1. OnHeap' => ShownMembers' = Written'
    BY DEF ShownMembers
  <2> QED
    BY <1>3, <2>1 DEF AcceptedOK
<1> QED
  BY <1>1, <1>4 DEF IInv

\* The invariant of the writer, the file and the reader, through every write
\* of mz_zip_writer_add_mem_ex, mz_zip_writer_add_from_zip_reader and
\* mz_zip_writer_finalize_archive, on the heap and in place.
THEOREM Invariant == Spec => []IInv
<1>1. Init => IInv
  BY Initially
<1>2. IInv /\ [Next]_vars => IInv'
  BY StepKeeps
<1> QED
  BY <1>1, <1>2, PTL DEF Spec

\* Between calls the file holds exactly the members that were saved and
\* appended: a reader accepts it, whatever mz_zip_add_mem_to_archive_file_in_place
\* wrote over the old directory, and finds their contents.
THEOREM FilesHold == Spec => []FileHoldsMembers
<1>1. IInv => FileHoldsMembers
  <2> SUFFICES ASSUME IInv, Idle, exists
               PROVE  Holds(file) = [ok |-> TRUE, members |-> truth]
    BY DEF FileHoldsMembers
  <2>1. Intact
    BY DEF Idle, Intact
  <2>2. PICK e \in 1 .. Len(file), n \in 0 .. Len(file), s \in 0 .. Len(file) :
           Sealed(use, file, e, n, s) /\ Members(file, ReadCentralDir(file)) = truth
    BY <2>1 DEF IInv, Layout, FileOK
  <2>3. Holds(file) = [ok |-> TRUE, members |-> Members(file, ReadCentralDir(file))]
    BY <2>2, BytesOK, SealedHolds
  <2> QED
    BY <2>2, <2>3
<1> QED
  BY <1>1, Invariant, PTL

\* A reader that stays open over an append extracts what it always did, at
\* every write of the append (mz_zip_writer_init_from_reader).
THEOREM ReadersStay == Spec => []ReaderStays
<1>1. IInv => ReaderStays
  BY DEF IInv, Layout, ReaderOK, ReaderStays
<1> QED
  BY <1>1, Invariant, PTL

\* What the caller of the writer sees is the list of the members it accepted,
\* which grows by one whole member at a time, and the finalized string holds
\* exactly that list: the writer implements ZipContents, whichever write or allocation of
\* mz_zip_writer_add_mem_ex or mz_zip_writer_add_from_zip_reader fails.
THEOREM ArchiveIsList == Spec => WriterIsList
<1>1. Init => Contained!Init
  BY Initially DEF Contained!Init, ShownMembers, ShownFinal
<1>2. ASSUME IInv, [Next]_vars
      PROVE  [Contained!Next]_<<ShownMembers, ShownFinal>>
  <2>1. ListStep
    BY <1>2, StepKeeps
  <2>2. CASE Unseen
    BY <2>2 DEF Unseen
  <2>3. CASE Cleared
    BY <2>3 DEF Cleared, Contained!Next, Contained!Reset, Contained!Init, ShownMembers, ShownFinal
  <2>4. CASE Grown
    <3>1. PICK m \in [name : use.names, content : Mine(use)] :
             ShownMembers' = Append(ShownMembers, m)
      BY <2>4 DEF Grown
    <3>2. m \in Contained!Member
      BY <1>2, BytesOK DEF Contained!Member, Mine
    <3>3. Contained!Add(m)
      BY <2>4, <3>1 DEF Grown, Contained!Add, ShownMembers, ShownFinal
    <3> QED
      BY <3>2, <3>3 DEF Contained!Next
  <2>5. CASE Finished
    BY <2>5 DEF Finished, Contained!Next, Contained!Finalize, ShownMembers, ShownFinal
  <2> QED
    BY <2>1, <2>2, <2>3, <2>4, <2>5 DEF ListStep
<1>3. IInv /\ [Next]_vars => [Contained!Next]_<<ShownMembers, ShownFinal>>
  BY <1>2
<1>4. Spec => Contained!Spec
  BY <1>1, <1>3, Invariant, PTL DEF Spec, Contained!Spec, ShownMembers, ShownFinal
<1>5. IInv => (OnHeap => Written = accepted)
  BY DEF IInv, AcceptedOK
<1> QED
  BY <1>4, <1>5, Invariant, PTL DEF WriterIsList
=============================================================================
