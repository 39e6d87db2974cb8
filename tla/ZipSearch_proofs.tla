-------------------------- MODULE ZipSearch_proofs --------------------------
(***************************************************************************)
(* Proofs about ZipSearch.tla, for directories of any length, files,       *)
(* windows and comments of any size.                                       *)
(***************************************************************************)
EXTENDS ZipSearch, FiniteSetTheorems, WellFoundedInduction, TLAPS

N == total_files
Step == Window - Overlap

\* The names in the order of an index.
Keys(d, f) == [i \in DOMAIN f |-> d[f[i]]]

IsChild(c, i) == c = 2 * i + 1 \/ c = 2 * i + 2

\* In the first bound places no child from place s on is larger than its
\* parent, except for the children of r.
HeapBut(k, s, bound, r) ==
    \A i, c \in 0 .. bound - 1 :
        i >= s /\ i # r /\ IsChild(c, i) => ~NameLess(k[i], k[c])

\* What is below r is not larger than what is above it.
Passes(k, s, bound, r) ==
    \A p, c \in 0 .. bound - 1 :
        p >= s /\ IsChild(r, p) /\ IsChild(c, r) => ~NameLess(k[p], k[c])

\* A heap from place s on.
Heap(k, s, bound) ==
    \A i, c \in 0 .. bound - 1 : i >= s /\ IsChild(c, i) => ~NameLess(k[i], k[c])

\* From place e on nothing is smaller than what comes before it.
Behind(k, n, e) ==
    \A i, j \in 0 .. n - 1 : i <= j /\ j >= e => ~NameLess(k[j], k[i])

\* The scan has found nothing behind the window it reads next.
ScanInv ==
    /\ sigs # {} => \E m \in sigs : \A i \in sigs : i <= m
    /\ \A i \in sigs : i + EndSize <= size
    /\ phase \in {"start", "scan"} => found = -1
    /\ phase = "scan" =>
          /\ \E j \in Nat : cur_file_ofs = LastWindow - j * Step
          /\ \A i \in sigs : i < cur_file_ofs + Step

\* The heap sort, and what it leaves.
K == Keys(dir, pIndices)
Indexed == \A v \in DOMAIN dir : \E i \in DOMAIN dir : pIndices[i] = v
SortInv ==
    /\ phase \in {"heapify", "shrink", "sift", "opened", "search"} => Indexed
    /\ phase = "heapify" =>
          /\ doSort /\ start >= -1
          /\ IF start < 0 THEN Heap(K, 0, N)
             ELSE /\ start <= root
                  /\ HeapBut(K, start, N, root) /\ Passes(K, start, N, root)
    /\ phase = "shrink" =>
          doSort /\ end < N /\ Heap(K, 0, end + 1) /\ Behind(K, N, end + 1)
    /\ phase = "sift" =>
          doSort /\ HeapBut(K, 0, end, root) /\ Passes(K, 0, end, root) /\ Behind(K, N, end)
    /\ phase \in {"opened", "search"} /\ doSort => Behind(K, N, 0)

\* A member that matches is between the bounds of the binary search.
SearchInv ==
    phase = "search" =>
        /\ asked.flags = {}
        /\ doSort => \A i \in DOMAIN dir :
                        Folded(K[i]) = Folded(asked.name) => l <= i /\ i <= h

IInv == TypeOK /\ ScanInv /\ ScanFindsFar /\ SortInv /\ SearchInv /\ LocateFinds

-----------------------------------------------------------------------------
(* Numbers.                                                                *)

LEMMA MaxTwo ==
    ASSUME NEW a \in Int, NEW b \in Int
    PROVE  Max({a, b}) = IF a >= b THEN a ELSE b
<1> DEFINE m == IF a >= b THEN a ELSE b
<1>1. m \in {a, b} /\ \A y \in {a, b} : m >= y
  OBVIOUS
<1>2. \A x \in {a, b} : (\A y \in {a, b} : x >= y) => x = m
  OBVIOUS
<1> QED
  BY <1>1, <1>2 DEF Max

LEMMA MinTwo ==
    ASSUME NEW a \in Int, NEW b \in Int
    PROVE  Min({a, b}) = IF a <= b THEN a ELSE b
<1> DEFINE m == IF a <= b THEN a ELSE b
<1>1. m \in {a, b} /\ \A y \in {a, b} : m <= y
  OBVIOUS
<1>2. \A x \in {a, b} : (\A y \in {a, b} : x <= y) => x = m
  OBVIOUS
<1> QED
  BY <1>1, <1>2 DEF Min

\* The largest element, when there is one.
LEMMA MaxIs ==
    ASSUME NEW S \in SUBSET Int, NEW m \in S, \A i \in S : i <= m
    PROVE  Max(S) = m
<1>1. \A x \in S : (\A y \in S : x >= y) => x = m
  OBVIOUS
<1>2. \A y \in S : m >= y
  OBVIOUS
<1> QED
  BY <1>1, <1>2 DEF Max

\* The natural numbers are well-ordered.
LEMMA Least ==
    ASSUME NEW T \in SUBSET Nat, T # {}
    PROVE  \E x \in T : \A y \in T : x <= y
<1> DEFINE R == OpToRel(<, Nat)
<1>1. IsWellFoundedOn(R, Nat)
  BY NatLessThanWellFounded, Zenon
<1>2. \A x, y \in Nat : y < x => <<y, x>> \in R
  BY DEF OpToRel
<1> HIDE DEF R
<1>3. PICK x \in T : \A y \in T : ~(<<y, x>> \in R)
  BY <1>1, WFMin
<1>4. \A y \in T : ~(y < x)
  BY <1>2, <1>3, Zenon
<1> QED
  BY <1>4

LEMMA MinIs ==
    ASSUME NEW S \in SUBSET Nat, S # {}
    PROVE  Min(S) \in S
<1>1. \E x \in S : \A y \in S : x <= y
  BY Least
<1> QED
  BY <1>1 DEF Min

\* A multiple below another is a whole step below.
LEMMA Multiples ==
    ASSUME NEW k \in Nat, NEW j \in Nat, NEW d \in Nat, k * d < j * d
    PROVE  k * d + d <= j * d
<1>1. k < j
  OBVIOUS
<1>2. PICK e \in Nat : j = k + 1 + e
  <2>1. j - k - 1 \in Nat
    BY <1>1
  <2> QED
    BY <2>1
<1> QED
  BY <1>2

\* Remainders of numbers within one word of 0.
LEMMA Remainder ==
    ASSUME NEW w \in Nat, w > 0, NEW x \in Int, x < w, x >= -w
    PROVE  x % w = IF x >= 0 THEN x ELSE x + w
<1>1. CASE x >= 0
  BY <1>1
<1>2. CASE x < 0
  BY <1>2
<1> QED
  BY <1>1, <1>2

\* The directory is numbered from 0.
LEMMA Numbered ==
    ASSUME dir \in Directories
    PROVE  /\ N \in Nat /\ DOMAIN dir = 0 .. N - 1
           /\ \A i \in 0 .. N - 1 : dir[i] \in Names
<1>1. PICK n \in 0 .. MaxFiles : dir \in [0 .. n - 1 -> Names]
  BY DEF Directories
<1>2. n \in Nat
  BY SizesFit
<1>3. Cardinality(0 .. n - 1) = n
  <2>1. 0 \in Int /\ n - 1 \in Int
    BY <1>2
  <2>2. Cardinality(0 .. n - 1) = IF 0 > n - 1 THEN 0 ELSE n - 1 - 0 + 1
    BY <2>1, FS_Interval
  <2> QED
    BY <1>2, <2>2
<1> QED
  BY <1>1, <1>2, <1>3 DEF N, total_files

\* The order of names.
LEMMA NamesOrdered ==
    ASSUME NEW a \in Names, NEW b \in Names, NEW c \in Names
    PROVE  /\ ~NameLess(a, a)
           /\ NameLess(a, b) => ~NameLess(b, a)
           /\ ~NameLess(a, b) /\ ~NameLess(b, c) => ~NameLess(a, c)
           /\ Folded(a) = Folded(b) <=> ~NameLess(a, b) /\ ~NameLess(b, a)
<1>1. \A x \in {a, b, c} : x.path \in Nat /\ x.base \in Nat
  BY NamesAreRanked
<1> QED
  BY <1>1 DEF NameLess, Folded

-----------------------------------------------------------------------------
(* The heap.                                                               *)

\* Exchanging two places of the index exchanges the names there.
LEMMA SwapKeys ==
    ASSUME NEW D, NEW d \in [D -> Names], NEW f \in [D -> D], NEW i \in D, NEW j \in D
    PROVE  /\ Swap(f, i, j) \in [D -> D]
           /\ Keys(d, Swap(f, i, j)) = Swap(Keys(d, f), i, j)
BY DEF Keys, Swap

\* A turn of the inner loop: the larger child goes up, and only what is below
\* its old place is still to be compared.
LEMMA SinkKeepsHeap ==
    ASSUME NEW n \in Nat, NEW k \in [0 .. n - 1 -> Names], NEW bound \in 0 .. n,
           NEW r \in 0 .. bound - 1, NEW s \in 0 .. r, NEW c \in 0 .. bound - 1,
           HeapBut(k, s, bound, r), Passes(k, s, bound, r),
           IsChild(c, r), NameLess(k[r], k[c]),
           \A x \in 0 .. bound - 1 : IsChild(x, r) => ~NameLess(k[c], k[x])
    PROVE  HeapBut(Swap(k, r, c), s, bound, c) /\ Passes(Swap(k, r, c), s, bound, c)
<1> DEFINE k2 == Swap(k, r, c)
<1>1. /\ k2 \in [0 .. n - 1 -> Names] /\ k2[r] = k[c] /\ k2[c] = k[r] /\ r < c
      /\ \A i \in 0 .. n - 1 : i # r /\ i # c => k2[i] = k[i]
  BY DEF Swap, IsChild
<1> HIDE DEF k2
<1>2. ASSUME NEW i \in 0 .. bound - 1, NEW x \in 0 .. bound - 1, i >= s, i # c, IsChild(x, i)
      PROVE  ~NameLess(k2[i], k2[x])
  <2>1. CASE i = r /\ x = c
    BY <1>1, <2>1, NamesOrdered
  <2>2. CASE i = r /\ x # c
    <3>1. x # r
      BY <1>2, <2>2 DEF IsChild
    <3> QED
      BY <1>1, <1>2, <2>2, <3>1
  <2>3. CASE i # r /\ x = r
    BY <1>1, <1>2, <2>3 DEF Passes
  <2>4. CASE i # r /\ x # r
    <3>1. x # c
      BY <1>2, <2>4 DEF IsChild
    <3> QED
      BY <1>1, <1>2, <2>4, <3>1 DEF HeapBut
  <2> QED
    BY <2>1, <2>2, <2>3, <2>4
<1>3. ASSUME NEW p \in 0 .. bound - 1, NEW x \in 0 .. bound - 1,
             p >= s, IsChild(c, p), IsChild(x, c)
      PROVE  ~NameLess(k2[p], k2[x])
  <2>1. p = r /\ x # r /\ x # c /\ c # r /\ c >= s
    BY <1>1, <1>3 DEF IsChild
  <2> QED
    BY <1>1, <1>3, <2>1 DEF HeapBut
<1> QED
  BY <1>2, <1>3 DEF k2, HeapBut, Passes

\* Nothing in a heap is larger than its first element.
LEMMA RootIsLargest ==
    ASSUME NEW n \in Nat, NEW k \in [0 .. n - 1 -> Names], NEW bound \in 0 .. n,
           Heap(k, 0, bound), NEW x \in 0 .. bound - 1
    PROVE  ~NameLess(k[0], k[x])
<1> DEFINE T == {i \in 0 .. bound - 1 : NameLess(k[0], k[i])}
<1>1. SUFFICES ASSUME T # {} PROVE FALSE
  OBVIOUS
<1>2. PICK i \in T : \A j \in T : i <= j
  <2>1. T \in SUBSET Nat
    OBVIOUS
  <2> HIDE DEF T
  <2> QED
    BY <1>1, <2>1, Least
<1>3. i # 0
  BY NamesOrdered
<1>4. PICK p \in 0 .. i - 1 : IsChild(i, p)
  <2>1. (i - 1) \div 2 \in 0 .. i - 1 /\ IsChild(i, (i - 1) \div 2)
    BY <1>3 DEF IsChild
  <2> QED
    BY <2>1
<1>5. p \notin T /\ p \in 0 .. bound - 1
  BY <1>2, <1>4
<1>6. ~NameLess(k[0], k[p]) /\ ~NameLess(k[p], k[i])
  BY <1>4, <1>5 DEF Heap
<1> QED
  BY <1>5, <1>6, NamesOrdered

\* The first element changes places with the last one of the heap.
LEMMA ShrinkKeepsHeap ==
    ASSUME NEW n \in Nat, NEW k \in [0 .. n - 1 -> Names], NEW e \in 1 .. n - 1,
           Heap(k, 0, e + 1), Behind(k, n, e + 1)
    PROVE  /\ HeapBut(Swap(k, e, 0), 0, e, 0) /\ Passes(Swap(k, e, 0), 0, e, 0)
           /\ Behind(Swap(k, e, 0), n, e)
<1> DEFINE k2 == Swap(k, e, 0)
<1>1. /\ k2 \in [0 .. n - 1 -> Names] /\ k2[e] = k[0] /\ k2[0] = k[e]
      /\ \A i \in 0 .. n - 1 : i # 0 /\ i # e => k2[i] = k[i]
  BY DEF Swap
<1> HIDE DEF k2
<1>2. HeapBut(k2, 0, e, 0)
  BY <1>1 DEF HeapBut, Heap, IsChild
<1>3. Passes(k2, 0, e, 0)
  BY DEF Passes, IsChild
<1>4. ASSUME NEW i \in 0 .. n - 1, NEW j \in 0 .. n - 1, i <= j, j >= e
      PROVE  ~NameLess(k2[j], k2[i])
  <2>1. CASE j = e
    <3>1. PICK x \in 0 .. e : k2[i] = k[x]
      BY <1>1, <1>4, <2>1
    <3>2. ~NameLess(k[0], k[x])
      BY RootIsLargest
    <3> QED
      BY <1>1, <2>1, <3>1, <3>2
  <2>2. CASE j > e
    <3>1. PICK x \in 0 .. j : k2[i] = k[x]
      BY <1>1, <1>4, <2>2
    <3> QED
      BY <1>1, <1>4, <2>2, <3>1 DEF Behind
  <2> QED
    BY <1>4, <2>1, <2>2
<1> QED
  BY <1>2, <1>3, <1>4 DEF k2, Behind

\* A turn of the inner loop leaves what is behind the heap in order.
LEMMA SinkKeepsBehind ==
    ASSUME NEW n \in Nat, NEW k \in [0 .. n - 1 -> Names], NEW e \in 0 .. n,
           NEW r \in 0 .. e - 1, NEW c \in 0 .. e - 1, Behind(k, n, e)
    PROVE  Behind(Swap(k, r, c), n, e)
<1> DEFINE k2 == Swap(k, r, c)
<1>1. \A j \in 0 .. n - 1 : j >= e => k2[j] = k[j]
  BY DEF Swap
<1>2. \A i \in 0 .. e - 1 : \E x \in 0 .. e - 1 : k2[i] = k[x]
  BY DEF Swap
<1> HIDE DEF k2
<1>3. ASSUME NEW i \in 0 .. n - 1, NEW j \in 0 .. n - 1, i <= j, j >= e
      PROVE  ~NameLess(k2[j], k2[i])
  <2>1. CASE i >= e
    BY <1>1, <1>3, <2>1 DEF Behind
  <2>2. CASE i < e
    <3>1. PICK x \in 0 .. e - 1 : k2[i] = k[x]
      BY <1>2, <2>2
    <3> QED
      BY <1>1, <1>3, <2>2, <3>1 DEF Behind
  <2> QED
    BY <2>1, <2>2
<1> QED
  BY <1>3 DEF k2, Behind

\* The inner loop ends with a heap: the root is not below its larger child.
LEMMA RestsInHeap ==
    ASSUME NEW n \in Nat, NEW k \in [0 .. n - 1 -> Names], NEW bound \in 0 .. n,
           NEW r \in 0 .. bound - 1, NEW s \in 0 .. r, HeapBut(k, s, bound, r),
           \A x \in 0 .. bound - 1 : IsChild(x, r) => ~NameLess(k[r], k[x])
    PROVE  Heap(k, s, bound)
BY DEF Heap, HeapBut

\* The first loop begins at the last parent: behind it there are only leaves.
LEMMA LeavesAreHeaps ==
    ASSUME NEW n \in Nat, NEW k, NEW s \in Int, s = (n - 2) \div 2
    PROVE  /\ s >= -1 /\ (s >= 0 => s \in 0 .. n - 1)
           /\ s < 0 => Heap(k, 0, n)
           /\ s >= 0 => HeapBut(k, s, n, s) /\ Passes(k, s, n, s)
<1>1. s >= -1 /\ 2 * s + 3 >= n /\ 2 * s <= n - 2
  OBVIOUS
<1>2. s >= 0 => s \in 0 .. n - 1
  BY <1>1
<1>3. s < 0 => n <= 1
  BY <1>1
<1>4. s < 0 => Heap(k, 0, n)
  BY <1>3 DEF Heap, IsChild
<1>5. s >= 0 => HeapBut(k, s, n, s)
  BY <1>1 DEF HeapBut, IsChild
<1>6. s >= 0 => Passes(k, s, n, s)
  BY <1>1 DEF Passes, IsChild
<1> QED
  BY <1>1, <1>2, <1>4, <1>5, <1>6

\* A heap from s + 1 on, with the element at s still to sink.
LEMMA NextToSink ==
    ASSUME NEW n \in Nat, NEW k \in [0 .. n - 1 -> Names], NEW s \in Nat, Heap(k, s + 1, n)
    PROVE  HeapBut(k, s, n, s) /\ Passes(k, s, n, s)
BY DEF Heap, HeapBut, Passes, IsChild

-----------------------------------------------------------------------------
(* The scan.                                                               *)

LEMMA LastWindowIs ==
    ASSUME size \in Nat
    PROVE  LastWindow = IF size - Window >= 0 THEN size - Window ELSE 0
BY SizesFit, MaxTwo DEF LastWindow

\* Whatever the word, the window before begins Step bytes earlier.
LEMMA BackIsStep ==
    ASSUME TypeOK, cur_file_ofs >= 0
    PROVE  Back(cur_file_ofs) = cur_file_ofs - Step
<1>1. /\ Step \in Nat /\ Step <= Window /\ Word \in Nat /\ Word > 0
      /\ size <= MaxSize \/ size <= 6
  BY SizesFit, MaxTwo DEF TypeOK, Step, Overlap, Sig, EndSize
<1>2. Window < Word \div 2 /\ size < Word \div 2 /\ 2 * (Word \div 2) <= Word
  BY <1>1, SizesFit DEF TypeOK, Sig
<1>3. PICK x \in Int : x = cur_file_ofs - (Window - Overlap)
  BY SizesFit DEF TypeOK, Overlap
<1>4. x <= size /\ x >= -Window /\ x = cur_file_ofs - Step
  BY <1>1, <1>3, SizesFit DEF TypeOK, Step
<1>5. PICK half \in Int : half = Word \div 2
  BY <1>1
<1>6. x % Word = IF x >= 0 THEN x ELSE x + Word
  BY <1>1, <1>2, <1>3, <1>4, <1>5, SizesFit, Remainder DEF TypeOK
<1>7. Back(cur_file_ofs) = IF x % Word >= half THEN (x % Word) - Word ELSE x % Word
  BY <1>3, <1>5 DEF Back
<1> QED
  BY <1>1, <1>2, <1>3, <1>4, <1>5, <1>6, <1>7, SizesFit DEF TypeOK

\* The signatures a turn of the scan sees are all those at or above it.
LEMMA WindowSees ==
    ASSUME TypeOK, ScanInv, phase = "scan"
    PROVE  LET n == Min({Window, size - cur_file_ofs})
           IN /\ n \in Int /\ cur_file_ofs + n <= size
              /\ {i \in sigs : i >= cur_file_ofs /\ i + Sig <= cur_file_ofs + n}
                 = {i \in sigs : i >= cur_file_ofs}
<1>1. PICK n \in Int : n = Min({Window, size - cur_file_ofs})
                        /\ n = IF Window <= size - cur_file_ofs THEN Window ELSE size - cur_file_ofs
  BY SizesFit, MinTwo DEF TypeOK
<1>2. \A i \in sigs : i \in Int /\ i + 6 <= size /\ i < cur_file_ofs + (Window - 3)
  BY DEF TypeOK, ScanInv, EndSize, Step, Overlap
<1>3. cur_file_ofs + n <= size
  BY <1>1, SizesFit DEF TypeOK
<1>4. \A i \in sigs : i + Sig <= cur_file_ofs + n
  BY <1>1, <1>2, SizesFit DEF TypeOK, Sig
<1>5. {i \in sigs : i >= cur_file_ofs /\ i + Sig <= cur_file_ofs + n}
        = {i \in sigs : i >= cur_file_ofs}
  BY <1>4
<1> QED
  BY <1>1, <1>3, <1>5

\* A scan that gives up has passed no window with a signature in it.
LEMMA GivesUp ==
    ASSUME TypeOK, ScanInv, phase = "scan", HasEnd,
           NEW k \in Nat, LastWindow - k * Step >= 0, Max(sigs) >= LastWindow - k * Step
    PROVE  cur_file_ofs >= 0 /\ Max(sigs) \in sigs
<1>1. PICK m \in sigs : \A i \in sigs : i <= m
  BY DEF ScanInv, HasEnd
<1>2. sigs \subseteq Int
  BY DEF TypeOK
<1>3. Max(sigs) = m
  BY <1>1, <1>2, MaxIs
<1>4. PICK j \in Nat : cur_file_ofs = LastWindow - j * Step
  BY DEF ScanInv
<1>5. m < cur_file_ofs + Step /\ m \in Int /\ LastWindow \in Int /\ Step \in Nat
  BY LastWindowIs, SizesFit DEF ScanInv, TypeOK, Step, Overlap, Sig
<1>6. k * Step \in Int /\ j * Step \in Int
  BY <1>5
<1>7. ~(k * Step < j * Step)
  BY <1>3, <1>4, <1>5, <1>6, Multiples
<1> QED
  BY <1>1, <1>3, <1>4, <1>5, <1>6, <1>7

\* The scan in one place: where it starts, where it stops and what it finds.
LEMMA ScanKept ==
    ASSUME TypeOK, ScanInv, ReadEnd \/ ScanWindow
    PROVE  ScanInv' /\ ScanFindsFar' /\ cur_file_ofs' \in Int /\ cur_file_ofs' <= size
           /\ found' \in -1 .. size
<1>1. /\ size \in Nat /\ Window \in Nat /\ Window > 4 /\ Step \in Nat /\ Step = Window - 3
      /\ sigs \subseteq Nat /\ \A i \in sigs : i + 6 <= size
      /\ LastWindow \in Nat /\ LastWindow <= size /\ LastWindow + Window >= size
  BY SizesFit, LastWindowIs DEF TypeOK, ScanInv, EndSize, Step, Overlap, Sig
<1>2. UNCHANGED <<size, sigs>> /\ LastWindow' = LastWindow
  BY DEF ReadEnd, ScanWindow, LastWindow, archive
<1>3. CASE ReadEnd
  <2>1. found' = found /\ found = -1
    BY <1>3 DEF ReadEnd, ScanInv
  <2>2. CASE size < EndSize
    <3>1. sigs = {} /\ phase' = "scanned" /\ cur_file_ofs' = cur_file_ofs
      BY <1>1, <1>3, <2>2 DEF ReadEnd, EndSize
    <3> QED
      BY <1>1, <1>2, <2>1, <3>1 DEF ScanInv, ScanFindsFar, HasEnd, TypeOK
  <2>3. CASE ~(size < EndSize)
    <3>1. phase' = "scan" /\ cur_file_ofs' = LastWindow
      BY <1>3, <2>3 DEF ReadEnd
    <3>2. 0 \in Nat /\ LastWindow = LastWindow - 0 * Step
      BY <1>1
    <3>3. \A i \in sigs : i < LastWindow + Step
      BY <1>1
    <3> QED
      BY <1>1, <1>2, <2>1, <3>1, <3>2, <3>3 DEF ScanInv, ScanFindsFar, Step
  <2> QED
    BY <2>2, <2>3
<1>4. CASE ScanWindow
  <2> DEFINE n == Min({Window, size - cur_file_ofs})
             above == {i \in sigs : i >= cur_file_ofs}
             last == cur_file_ofs = 0 \/ size - cur_file_ofs >= Comment + EndSize
  <2>1. phase = "scan" /\ found = -1 /\ cur_file_ofs \in Int /\ cur_file_ofs <= size
    BY <1>4 DEF ScanWindow, ScanInv, TypeOK
  <2>2. Readable(cur_file_ofs, n) <=> cur_file_ofs >= 0
    BY <2>1, WindowSees DEF Readable
  <2>3. \/ /\ ~(cur_file_ofs >= 0) \/ (above = {} /\ last)
           /\ phase' = "scanned" /\ UNCHANGED <<cur_file_ofs, found>>
        \/ /\ cur_file_ofs >= 0 /\ above # {}
           /\ found' = Max(above) /\ phase' = "scanned" /\ UNCHANGED cur_file_ofs
        \/ /\ cur_file_ofs >= 0 /\ above = {} /\ ~last
           /\ cur_file_ofs' = Back(cur_file_ofs) /\ UNCHANGED <<phase, found>>
    BY <1>4, <2>1, <2>2, WindowSees DEF ScanWindow, scan
  <2>4. CASE /\ ~(cur_file_ofs >= 0) \/ (above = {} /\ last)
             /\ phase' = "scanned" /\ UNCHANGED <<cur_file_ofs, found>>
    <3>1. ASSUME HasEnd, NEW k \in Nat,
                 LastWindow - k * Step >= 0, Max(sigs) >= LastWindow - k * Step
          PROVE  FALSE
      <4>1. cur_file_ofs >= 0 /\ Max(sigs) \in sigs
        BY <2>1, <3>1, GivesUp
      <4>2. PICK m \in Nat : m = Max(sigs) /\ m \in sigs
        BY <1>1, <4>1
      <4>3. m < cur_file_ofs /\ last
        BY <1>1, <2>1, <2>4, <4>1, <4>2
      <4>4. size - m <= Comment + 6
        BY <3>1, <4>2 DEF HasEnd, EndSize
      <4> QED
        BY <1>1, <2>1, <4>3, <4>4, SizesFit DEF EndSize
    <3>2. ScanFindsFar'
      BY <1>2, <3>1, SizesFit DEF ScanFindsFar, HasEnd, Step
    <3> QED
      BY <1>2, <2>1, <2>4, <3>2 DEF ScanInv, TypeOK
  <2>5. CASE /\ cur_file_ofs >= 0 /\ above # {}
             /\ found' = Max(above) /\ phase' = "scanned" /\ UNCHANGED cur_file_ofs
    <3>1. PICK m \in sigs : \A i \in sigs : i <= m
      BY <2>5 DEF ScanInv
    <3>2. m \in above
      <4>1. PICK i \in sigs : i >= cur_file_ofs
        BY <2>5
      <4>2. i <= m /\ i \in Int /\ m \in Int
        BY <1>1, <3>1
      <4> QED
        BY <2>1, <4>1, <4>2
    <3>3. Max(sigs) = m
      BY <1>1, <3>1, MaxIs
    <3>4. Max(above) = m
      <4>1. \A i \in above : i \in Int
        BY <1>1
      <4>2. \A i \in above : i <= m
        BY <3>1
      <4> HIDE DEF above
      <4> QED
        BY <3>2, <4>1, <4>2, MaxIs
    <3>5. m <= size /\ m \in Nat
      BY <1>1
    <3>6. found' = m /\ Max(sigs)' = m /\ phase' = "scanned"
      BY <1>2, <2>5, <3>3, <3>4
    <3>7. ScanFindsFar'
      BY <3>6, Zenon DEF ScanFindsFar
    <3>8. ScanInv'
      BY <1>2, <3>6 DEF ScanInv
    <3> QED
      BY <1>1, <2>1, <2>5, <3>5, <3>6, <3>7, <3>8
  <2>6. CASE /\ cur_file_ofs >= 0 /\ above = {} /\ ~last
             /\ cur_file_ofs' = Back(cur_file_ofs) /\ UNCHANGED <<phase, found>>
    <3>1. cur_file_ofs' = cur_file_ofs - Step
      BY <2>6, BackIsStep
    <3>2. PICK j \in Nat : cur_file_ofs = LastWindow - j * Step
      BY <2>1 DEF ScanInv
    <3>3. j + 1 \in Nat /\ cur_file_ofs' = LastWindow - (j + 1) * Step
      BY <1>1, <3>1, <3>2
    <3>4. \A i \in sigs : i < cur_file_ofs' + Step
      BY <1>1, <2>1, <2>6, <3>1
    <3> QED
      BY <1>1, <1>2, <2>1, <2>6, <3>1, <3>3, <3>4 DEF ScanInv, ScanFindsFar, Step
  <2> QED
    BY <2>3, <2>4, <2>5, <2>6
<1> QED
  BY <1>3, <1>4

-----------------------------------------------------------------------------
(* The sort.                                                               *)

LEMMA IndexOK ==
    ASSUME TypeOK, phase \notin {"start", "scan", "scanned"}
    PROVE  /\ N \in Nat /\ DOMAIN dir = 0 .. N - 1 /\ dir \in [0 .. N - 1 -> Names]
           /\ pIndices \in [0 .. N - 1 -> 0 .. N - 1]
           /\ K \in [0 .. N - 1 -> Names]
           /\ \A i \in 0 .. N - 1 : K[i] = dir[pIndices[i]]
           /\ \A i, j \in 0 .. N - 1 : LessAt(i, j) <=> NameLess(K[i], K[j])
<1>1. N \in Nat /\ DOMAIN dir = 0 .. N - 1 /\ \A i \in 0 .. N - 1 : dir[i] \in Names
  BY Numbered DEF TypeOK
<1>2. dir \in [DOMAIN dir -> Names]
  BY <1>1 DEF TypeOK, Directories
<1>3. pIndices \in [0 .. N - 1 -> 0 .. N - 1]
  BY <1>1 DEF TypeOK
<1>4. K \in [0 .. N - 1 -> Names] /\ \A i \in 0 .. N - 1 : K[i] = dir[pIndices[i]]
  BY <1>1, <1>3 DEF K, Keys
<1>5. \A i, j \in 0 .. N - 1 : LessAt(i, j) <=> NameLess(K[i], K[j])
  BY <1>4 DEF LessAt
<1> QED
  BY <1>1, <1>2, <1>3, <1>4, <1>5

\* Two places of the index are exchanged.
LEMMA SwapStep ==
    ASSUME TypeOK, phase \notin {"start", "scan", "scanned"},
           NEW i \in DOMAIN dir, NEW j \in DOMAIN dir, Indexed,
           pIndices' = Swap(pIndices, i, j), UNCHANGED dir
    PROVE  pIndices' \in [DOMAIN dir -> DOMAIN dir] /\ Indexed' /\ K' = Swap(K, i, j)
<1>1. dir \in [DOMAIN dir -> Names] /\ pIndices \in [DOMAIN dir -> DOMAIN dir]
  BY IndexOK
<1>2. /\ Swap(pIndices, i, j) \in [DOMAIN dir -> DOMAIN dir]
      /\ Keys(dir, Swap(pIndices, i, j)) = Swap(Keys(dir, pIndices), i, j)
  BY <1>1, SwapKeys
<1>3. ASSUME NEW v \in DOMAIN dir
      PROVE  \E x \in DOMAIN dir : Swap(pIndices, i, j)[x] = v
  <2>1. PICK x \in DOMAIN dir : pIndices[x] = v
    BY DEF Indexed
  <2>2. CASE x = i
    BY <1>1, <2>1, <2>2 DEF Swap
  <2>3. CASE x = j
    BY <1>1, <2>1, <2>3 DEF Swap
  <2>4. CASE x # i /\ x # j
    BY <1>1, <2>1, <2>4 DEF Swap
  <2> QED
    BY <2>2, <2>3, <2>4
<1> QED
  BY <1>2, <1>3 DEF K, Indexed

\* Child is the larger of the root's children.
LEMMA ChildIsLargest ==
    ASSUME TypeOK, phase \in {"heapify", "sift"}, NEW bound \in 0 .. N,
           root \in 0 .. bound - 1, 2 * root + 1 < bound
    PROVE  /\ Child(bound) \in 0 .. bound - 1 /\ IsChild(Child(bound), root)
           /\ \A x \in 0 .. bound - 1 :
                 IsChild(x, root) => ~NameLess(K[Child(bound)], K[x])
<1>1. /\ N \in Nat /\ K \in [0 .. N - 1 -> Names]
      /\ \A i, j \in 0 .. N - 1 : LessAt(i, j) <=> NameLess(K[i], K[j])
  BY IndexOK
<1>2. PICK a \in 0 .. bound - 1 : a = 2 * root + 1
  BY <1>1
<1>3. PICK c : c = Child(bound)
  OBVIOUS
<1>4. c = IF a + 1 < bound /\ LessAt(a, a + 1) THEN a + 1 ELSE a
  BY <1>2, <1>3 DEF Child
<1>5. \A x \in 0 .. bound - 1 : IsChild(x, root) => x = a \/ x = a + 1
  BY <1>2 DEF IsChild
<1>6. c \in 0 .. bound - 1 /\ IsChild(c, root)
  BY <1>1, <1>2, <1>4 DEF IsChild
<1>7. CASE a + 1 < bound
  <2>1. a + 1 \in 0 .. N - 1 /\ a \in 0 .. N - 1 /\ K[a] \in Names /\ K[a + 1] \in Names
    BY <1>1, <1>7
  <2>2. ~NameLess(K[c], K[a]) /\ ~NameLess(K[c], K[a + 1])
    BY <1>1, <1>4, <1>7, <2>1, NamesOrdered
  <2> QED
    BY <1>3, <1>5, <1>6, <2>2
<1>8. CASE ~(a + 1 < bound)
  <2>1. K[a] \in Names /\ c = a /\ \A x \in 0 .. bound - 1 : x # a + 1
    BY <1>1, <1>4, <1>8
  <2> QED
    BY <1>3, <1>5, <1>6, <2>1, NamesOrdered
<1> QED
  BY <1>7, <1>8

\* One turn of the inner loop.
LEMMA SinkStep ==
    ASSUME TypeOK, phase \in {"heapify", "sift"}, NEW bound \in 0 .. N,
           root \in 0 .. bound - 1, NEW s \in 0 .. root,
           HeapBut(K, s, bound, root), Passes(K, s, bound, root), Indexed,
           Sink(bound), UNCHANGED dir
    PROVE  /\ root' \in root .. bound - 1 /\ pIndices' \in [0 .. N - 1 -> 0 .. N - 1]
           /\ Indexed' /\ K' = Swap(K, root, root')
           /\ HeapBut(K', s, bound, root') /\ Passes(K', s, bound, root')
<1>1. /\ N \in Nat /\ DOMAIN dir = 0 .. N - 1 /\ dir \in [0 .. N - 1 -> Names]
      /\ pIndices \in [0 .. N - 1 -> 0 .. N - 1] /\ K \in [0 .. N - 1 -> Names]
      /\ \A i, j \in 0 .. N - 1 : LessAt(i, j) <=> NameLess(K[i], K[j])
  BY IndexOK
<1>2. /\ 2 * root + 1 < bound /\ LessAt(root, Child(bound))
      /\ pIndices' = Swap(pIndices, root, Child(bound)) /\ root' = Child(bound)
  BY DEF Sink, Sinks
<1>3. /\ root' \in 0 .. bound - 1 /\ IsChild(root', root)
      /\ \A x \in 0 .. bound - 1 : IsChild(x, root) => ~NameLess(K[root'], K[x])
  BY <1>2, ChildIsLargest
<1>4. root' \in root .. bound - 1
  BY <1>3 DEF IsChild
<1>5. root \in 0 .. N - 1 /\ root' \in 0 .. N - 1
  BY <1>1, <1>3
<1>6. NameLess(K[root], K[root'])
  BY <1>1, <1>2, <1>5
<1>7. /\ pIndices' \in [0 .. N - 1 -> 0 .. N - 1] /\ Indexed'
      /\ K' = Swap(K, root, root')
  BY <1>1, <1>2, <1>5, SwapStep
<1>8. /\ HeapBut(Swap(K, root, root'), s, bound, root')
      /\ Passes(Swap(K, root, root'), s, bound, root')
  BY <1>1, <1>3, <1>6, SinkKeepsHeap
<1> QED
  BY <1>4, <1>7, <1>8

\* The end of the inner loop.
LEMMA RestStep ==
    ASSUME TypeOK, phase \in {"heapify", "sift"}, NEW bound \in 0 .. N,
           root \in 0 .. bound - 1, NEW s \in 0 .. root,
           HeapBut(K, s, bound, root), ~Sinks(bound)
    PROVE  Heap(K, s, bound)
<1>1. /\ N \in Nat /\ K \in [0 .. N - 1 -> Names]
      /\ \A i, j \in 0 .. N - 1 : LessAt(i, j) <=> NameLess(K[i], K[j])
  BY IndexOK
<1>2. ASSUME NEW x \in 0 .. bound - 1, IsChild(x, root)
      PROVE  ~NameLess(K[root], K[x])
  <2>1. 2 * root + 1 < bound
    BY <1>1, <1>2 DEF IsChild
  <2>2. PICK c \in 0 .. bound - 1 : c = Child(bound) /\ ~NameLess(K[c], K[x])
    BY <1>2, <2>1, ChildIsLargest
  <2>3. ~NameLess(K[root], K[c])
    BY <1>1, <2>1, <2>2 DEF Sinks
  <2>4. K[root] \in Names /\ K[c] \in Names /\ K[x] \in Names
    BY <1>1
  <2> QED
    BY <2>2, <2>3, <2>4, NamesOrdered
<1> QED
  BY <1>1, <1>2, RestsInHeap

-----------------------------------------------------------------------------
(* The steps.  Each keeps the invariant.                                   *)

LEMMA InitKept ==
    ASSUME Init
    PROVE  IInv
<1>1. Max({MaxSize, EndSize}) \in Nat /\ Max({MaxSize, EndSize}) >= MaxSize
      /\ Max({MaxSize, EndSize}) >= 6
  BY SizesFit, MaxTwo DEF EndSize
<1>2. dir \in Directories /\ doSort \in BOOLEAN
  <2>1. CASE AnyDirectory
    BY <2>1 DEF AnyDirectory
  <2>2. CASE AnyFile
    <3>1. dir \in [0 .. 0 - 1 -> Names] /\ 0 \in 0 .. MaxFiles
      BY <2>2, SizesFit DEF AnyFile
    <3> QED
      BY <2>2, <3>1 DEF AnyFile, Directories
  <2> QED
    BY <2>1, <2>2 DEF Init
<1>3. N \in Nat
  BY <1>2, Numbered
<1>4. /\ size \in 0 .. Max({MaxSize, EndSize}) /\ sigs \subseteq 0 .. size
      /\ \A i \in sigs : i + EndSize <= size
      /\ sigs # {} => \E m \in sigs : \A i \in sigs : i <= m
  <2>1. CASE AnyDirectory
    BY <1>1, <2>1 DEF AnyDirectory, EndSize
  <2>2. CASE AnyFile
    <3>1. PICK a, b \in 0 .. Max({size - EndSize, 0}) :
             sigs = {i \in {a, b} : i + EndSize <= size}
      BY <2>2 DEF AnyFile
    <3>2. size \in Nat /\ size <= MaxSize
      BY <2>2, SizesFit DEF AnyFile
    <3>3. a \in Nat /\ b \in Nat
      BY <3>1, <3>2, MaxTwo DEF EndSize
    <3> QED
      BY <1>1, <3>1, <3>2, <3>3, SizesFit DEF EndSize
  <2> QED
    BY <2>1, <2>2 DEF Init
<1>5. TypeOK
  BY <1>1, <1>2, <1>3, <1>4, SizesFit DEF Init, Start, TypeOK, N
<1>6. ScanInv /\ ScanFindsFar /\ SortInv /\ SearchInv /\ LocateFinds
  BY <1>4 DEF Init, Start, ScanInv, ScanFindsFar, SortInv, SearchInv, LocateFinds
<1> QED
  BY <1>5, <1>6 DEF IInv

\* What the steps after the scan leave alone.
LEMMA ScanStays ==
    ASSUME ScanInv, UNCHANGED <<archive, scan>>, phase' \notin {"start", "scan", "scanned"}
    PROVE  ScanInv' /\ ScanFindsFar'
BY DEF ScanInv, ScanFindsFar, archive, scan

LEMMA ReadKept ==
    ASSUME IInv, ReadEnd \/ ScanWindow
    PROVE  IInv'
<1>1. /\ ScanInv' /\ ScanFindsFar' /\ cur_file_ofs' \in Int /\ cur_file_ofs' <= size
      /\ found' \in -1 .. size
  BY ScanKept DEF IInv
<1>2. UNCHANGED <<archive, sort, search>> /\ phase' \in {"scan", "scanned"}
  BY DEF ReadEnd, ScanWindow
<1>3. TypeOK'
  BY <1>1, <1>2 DEF IInv, TypeOK, archive, sort, search, total_files
<1>4. SortInv' /\ SearchInv' /\ LocateFinds'
  BY <1>2 DEF SortInv, SearchInv, LocateFinds
<1> QED
  BY <1>1, <1>3, <1>4 DEF IInv

LEMMA OpenKept ==
    ASSUME IInv, Open
    PROVE  IInv'
<1>1. /\ UNCHANGED <<archive, scan, end, search>>
      /\ pIndices' = [i \in DOMAIN dir |-> i]
      /\ N \in Nat /\ N' = N /\ DOMAIN dir = 0 .. N - 1 /\ \A i \in 0 .. N - 1 : dir[i] \in Names
  BY Numbered DEF IInv, TypeOK, Open, N, total_files, archive
<1>2. \/ /\ doSort /\ phase' = "heapify"
         /\ start' = (N - 2) \div 2 /\ root' = (N - 2) \div 2
      \/ ~doSort /\ phase' = "opened" /\ UNCHANGED <<start, root>>
  BY DEF IInv, TypeOK, Open, N
<1>3. ScanInv' /\ ScanFindsFar'
  BY <1>1, <1>2, ScanStays DEF IInv
<1>4. Indexed'
  BY <1>1 DEF Indexed, archive
<1>5. pIndices' \in [DOMAIN dir -> DOMAIN dir]
  BY <1>1
<1>6. CASE /\ doSort /\ phase' = "heapify"
           /\ start' = (N - 2) \div 2 /\ root' = (N - 2) \div 2
  <2>1. PICK s \in Int : s = (N - 2) \div 2
    BY <1>1
  <2>2. start' = s /\ root' = s
    BY <1>6, <2>1
  <2>3. TypeOK'
    <3>1. s >= 0 => s \in DOMAIN dir
      BY <1>1, <2>1, LeavesAreHeaps
    <3> QED
      BY <1>1, <1>5, <1>6, <2>2, <3>1 DEF IInv, TypeOK, archive, scan, search, total_files
  <2>4. /\ s >= -1 /\ (s < 0 => Heap(K', 0, N))
        /\ s >= 0 => HeapBut(K', s, N, s) /\ Passes(K', s, N, s)
    BY <1>1, <2>1, LeavesAreHeaps
  <2>5. SortInv'
    BY <1>1, <1>4, <1>6, <2>2, <2>4 DEF SortInv, archive
  <2> QED
    BY <1>3, <1>6, <2>3, <2>5 DEF IInv, SearchInv, LocateFinds
<1>7. CASE ~doSort /\ phase' = "opened" /\ UNCHANGED <<start, root>>
  <2>1. TypeOK'
    BY <1>1, <1>5, <1>7 DEF IInv, TypeOK, archive, scan, search, total_files
  <2>2. SortInv'
    BY <1>1, <1>4, <1>7 DEF SortInv, archive
  <2> QED
    BY <1>3, <1>7, <2>1, <2>2 DEF IInv, SearchInv, LocateFinds
<1> QED
  BY <1>2, <1>6, <1>7

\* What the sort leaves alone.
LEMMA TypeWhileSorting ==
    ASSUME TypeOK, UNCHANGED <<archive, scan, search>>,
           phase' \in {"heapify", "shrink", "sift", "opened"},
           pIndices' \in [DOMAIN dir -> DOMAIN dir],
           start' \in Int, end' \in Int, root' \in Int,
           phase' = "heapify" /\ start' >= 0 => root' \in DOMAIN dir,
           phase' = "sift" => end' \in DOMAIN dir /\ root' \in 0 .. end' - 1
    PROVE  TypeOK'
BY DEF TypeOK, archive, scan, search, total_files

LEMMA HeapifyKept ==
    ASSUME IInv, Heapify
    PROVE  IInv'
<1>1. /\ UNCHANGED <<archive, scan, search>> /\ phase = "heapify" /\ phase' \in {"heapify", "shrink"}
      /\ TypeOK /\ Indexed /\ doSort /\ start \in Int /\ start >= -1 /\ DOMAIN dir' = DOMAIN dir
  BY DEF IInv, Heapify, SortInv, TypeOK, archive
<1>2. N \in Nat /\ N' = N /\ DOMAIN dir = 0 .. N - 1 /\ total_files = N
      /\ pIndices \in [0 .. N - 1 -> 0 .. N - 1]
  BY <1>1, IndexOK DEF N, total_files
<1>3. ScanInv' /\ ScanFindsFar' /\ SearchInv' /\ LocateFinds'
  BY <1>1, ScanStays DEF IInv, SearchInv, LocateFinds
<1>4. start >= 0 => /\ root \in 0 .. N - 1 /\ start \in 0 .. root
                    /\ HeapBut(K, start, N, root) /\ Passes(K, start, N, root)
  BY <1>1, <1>2 DEF IInv, TypeOK, SortInv
<1>5. CASE start >= 0 /\ Sink(N) /\ UNCHANGED <<phase, start, end>>
  <2>1. /\ root' \in root .. N - 1 /\ pIndices' \in [0 .. N - 1 -> 0 .. N - 1] /\ Indexed'
        /\ HeapBut(K', start, N, root') /\ Passes(K', start, N, root')
    BY <1>1, <1>2, <1>4, <1>5, SinkStep DEF archive
  <2>2. root' \in 0 .. N - 1 /\ start <= root'
    BY <1>2, <1>4, <1>5, <2>1
  <2>3. TypeOK'
    <3>1. pIndices' \in [DOMAIN dir -> DOMAIN dir]
      BY <1>2, <2>1
    <3>2. root' \in DOMAIN dir
      BY <1>2, <2>2
    <3>3. root' \in Int
      BY <2>2
    <3>4. start' \in Int /\ end' \in Int /\ phase' = "heapify"
      BY <1>1, <1>5 DEF TypeOK
    <3> QED
      BY <1>1, <3>1, <3>2, <3>3, <3>4, TypeWhileSorting
  <2>4. SortInv'
    BY <1>1, <1>2, <1>5, <2>1, <2>2 DEF SortInv, archive
  <2> QED
    BY <1>3, <2>3, <2>4 DEF IInv
<1>6. CASE /\ start >= 0 /\ ~Sinks(N) /\ start' = start - 1 /\ root' = start - 1
           /\ UNCHANGED <<phase, pIndices, end>>
  <2>1. Heap(K, start, N)
    BY <1>1, <1>2, <1>4, <1>6, RestStep
  <2>2. K' = K /\ Indexed'
    BY <1>1, <1>6 DEF K, Indexed, archive
  <2>3. CASE start = 0
    <3>1. TypeOK'
      BY <1>1, <1>2, <1>6, <2>3 DEF TypeOK, archive, scan, search, total_files
    <3>2. SortInv'
      BY <1>1, <1>2, <1>6, <2>1, <2>2, <2>3 DEF SortInv, archive
    <3> QED
      BY <1>3, <3>1, <3>2 DEF IInv
  <2>4. CASE start > 0
    <3>1. PICK s \in Nat : s = start - 1 /\ s + 1 = start
      BY <1>1, <2>4
    <3>2. HeapBut(K, s, N, s) /\ Passes(K, s, N, s)
      BY <1>1, <1>2, <2>1, <3>1, IndexOK, NextToSink
    <3>3. s \in 0 .. N - 1
      BY <1>2, <1>4, <1>6, <3>1
    <3>4. TypeOK'
      BY <1>1, <1>2, <1>6, <3>1, <3>3 DEF TypeOK, archive, scan, search, total_files
    <3>5. SortInv'
      BY <1>1, <1>2, <1>6, <2>2, <3>1, <3>2 DEF SortInv, archive
    <3> QED
      BY <1>3, <3>4, <3>5 DEF IInv
  <2> QED
    BY <1>1, <1>6, <2>3, <2>4
<1>7. CASE start < 0 /\ phase' = "shrink" /\ end' = N - 1 /\ UNCHANGED <<pIndices, start, root>>
  <2>1. K' = K /\ Indexed'
    BY <1>1, <1>7 DEF K, Indexed, archive
  <2>2. Heap(K, 0, N) /\ Behind(K, N, N)
    BY <1>1, <1>2, <1>7 DEF IInv, SortInv, Behind
  <2>3. TypeOK'
    BY <1>1, <1>2, <1>7 DEF TypeOK, archive, scan, search, total_files
  <2>4. end' + 1 = N /\ end' < N
    BY <1>2, <1>7
  <2>5. SortInv'
    BY <1>1, <1>2, <1>7, <2>1, <2>2, <2>4 DEF SortInv, archive
  <2> QED
    BY <1>3, <2>3, <2>5 DEF IInv
<1> QED
  BY <1>2, <1>5, <1>6, <1>7 DEF Heapify

LEMMA ShrinkKept ==
    ASSUME IInv, Shrink
    PROVE  IInv'
<1>1. /\ UNCHANGED <<archive, scan, start, end, search>> /\ phase = "shrink"
      /\ phase' \in {"sift", "opened"} /\ TypeOK /\ Indexed /\ doSort
      /\ end \in Int /\ end < N /\ DOMAIN dir' = DOMAIN dir
      /\ Heap(K, 0, end + 1) /\ Behind(K, N, end + 1)
  BY DEF IInv, Shrink, SortInv, TypeOK, archive
<1>2. /\ N \in Nat /\ N' = N /\ DOMAIN dir = 0 .. N - 1
      /\ pIndices \in [0 .. N - 1 -> 0 .. N - 1] /\ K \in [0 .. N - 1 -> Names]
  BY <1>1, IndexOK DEF N, total_files
<1>3. ScanInv' /\ ScanFindsFar' /\ SearchInv' /\ LocateFinds'
  BY <1>1, ScanStays DEF IInv, SearchInv, LocateFinds, archive, scan
<1>4. CASE end > 0 /\ pIndices' = Swap(pIndices, end, 0) /\ root' = 0 /\ phase' = "sift"
  <2>1. end \in 1 .. N - 1 /\ end \in DOMAIN dir /\ 0 \in DOMAIN dir /\ root' \in 0 .. end - 1
    BY <1>1, <1>2, <1>4
  <2>2. /\ pIndices' \in [DOMAIN dir -> DOMAIN dir] /\ Indexed'
        /\ K' = Swap(K, end, 0)
    BY <1>1, <1>4, <2>1, SwapStep DEF archive
  <2>3. HeapBut(K', 0, end, 0) /\ Passes(K', 0, end, 0) /\ Behind(K', N, end)
    BY <1>1, <1>2, <2>1, <2>2, ShrinkKeepsHeap
  <2>4. TypeOK'
    BY <1>1, <1>4, <2>1, <2>2, TypeWhileSorting DEF TypeOK
  <2>5. SortInv'
    BY <1>1, <1>2, <1>4, <2>2, <2>3 DEF SortInv, archive
  <2> QED
    BY <1>3, <2>4, <2>5 DEF IInv
<1>5. CASE end <= 0 /\ phase' = "opened" /\ UNCHANGED <<pIndices, root>>
  <2>1. K' = K /\ Indexed'
    BY <1>1, <1>5 DEF K, Indexed, archive
  <2>2. Behind(K, N, 0)
    <3>1. ASSUME NEW i \in 0 .. N - 1, NEW j \in 0 .. N - 1, i <= j
          PROVE  ~NameLess(K[j], K[i])
      <4>1. CASE j >= end + 1
        BY <1>1, <1>2, <3>1, <4>1 DEF Behind
      <4>2. CASE i = j
        BY <1>2, <4>2, NamesOrdered
      <4> QED
        BY <1>1, <1>2, <1>5, <3>1, <4>1, <4>2
    <3> QED
      BY <3>1 DEF Behind
  <2>3. TypeOK'
    BY <1>1, <1>2, <1>5, TypeWhileSorting DEF TypeOK
  <2>4. SortInv'
    BY <1>1, <1>2, <1>5, <2>1, <2>2 DEF SortInv, archive
  <2> QED
    BY <1>3, <2>3, <2>4 DEF IInv
<1> QED
  BY <1>4, <1>5 DEF Shrink

LEMMA SiftKept ==
    ASSUME IInv, Sift
    PROVE  IInv'
<1>1. /\ UNCHANGED <<archive, scan, start, search>> /\ phase = "sift"
      /\ phase' \in {"sift", "shrink"} /\ TypeOK /\ Indexed /\ doSort
      /\ end \in DOMAIN dir /\ root \in 0 .. end - 1 /\ DOMAIN dir' = DOMAIN dir
      /\ HeapBut(K, 0, end, root) /\ Passes(K, 0, end, root) /\ Behind(K, N, end)
  BY DEF IInv, Sift, SortInv, TypeOK, archive
<1>2. /\ N \in Nat /\ N' = N /\ DOMAIN dir = 0 .. N - 1
      /\ pIndices \in [0 .. N - 1 -> 0 .. N - 1] /\ K \in [0 .. N - 1 -> Names]
  BY <1>1, IndexOK DEF N, total_files
<1>3. ScanInv' /\ ScanFindsFar' /\ SearchInv' /\ LocateFinds'
  BY <1>1, ScanStays DEF IInv, SearchInv, LocateFinds, archive, scan
<1>4. end \in 0 .. N /\ end \in Int /\ 0 \in 0 .. root /\ end < N
  BY <1>1, <1>2
<1>5. CASE Sink(end) /\ UNCHANGED <<phase, end>>
  <2>1. /\ root' \in root .. end - 1 /\ pIndices' \in [0 .. N - 1 -> 0 .. N - 1] /\ Indexed'
        /\ K' = Swap(K, root, root')
        /\ HeapBut(K', 0, end, root') /\ Passes(K', 0, end, root')
    BY <1>1, <1>4, <1>5, SinkStep DEF archive
  <2>2. root' \in 0 .. end - 1
    BY <1>1, <1>4, <2>1
  <2>3. Behind(K', N, end)
    BY <1>1, <1>2, <1>4, <2>1, <2>2, SinkKeepsBehind
  <2>4. pIndices' \in [DOMAIN dir -> DOMAIN dir]
    BY <1>2, <2>1
  <2>5. TypeOK'
    BY <1>1, <1>4, <1>5, <2>2, <2>4, TypeWhileSorting DEF TypeOK
  <2>6. SortInv'
    BY <1>1, <1>2, <1>5, <2>1, <2>3 DEF SortInv, archive
  <2> QED
    BY <1>3, <2>5, <2>6 DEF IInv
<1>6. CASE ~Sinks(end) /\ end' = end - 1 /\ phase' = "shrink" /\ UNCHANGED <<pIndices, root>>
  <2>1. Heap(K, 0, end)
    BY <1>1, <1>4, <1>6, RestStep
  <2>2. K' = K /\ Indexed'
    BY <1>1, <1>6 DEF K, Indexed, archive
  <2>3. end' + 1 = end /\ end' < N /\ end' \in Int
    BY <1>2, <1>4, <1>6
  <2>4. TypeOK'
    BY <1>1, <1>2, <1>6, <2>3, TypeWhileSorting DEF TypeOK
  <2>5. SortInv'
    BY <1>1, <1>2, <1>6, <2>1, <2>2, <2>3 DEF SortInv, archive
  <2> QED
    BY <1>3, <2>4, <2>5 DEF IInv
<1> QED
  BY <1>5, <1>6 DEF Sift

-----------------------------------------------------------------------------
(* The search.                                                             *)

\* The linear search answers a member that matches, or -1 when none does.
LEMMA LinearFinds ==
    ASSUME TypeOK, NEW n, NEW flags
    PROVE  LET hits == {i \in DOMAIN dir : SameName(Stripped(dir[i], flags), n, flags)}
           IN IF hits = {} THEN LinearSearch(n, flags) = -1
              ELSE LinearSearch(n, flags) \in hits /\ LinearSearch(n, flags) # -1
<1> DEFINE hits == {i \in DOMAIN dir : SameName(Stripped(dir[i], flags), n, flags)}
<1>1. hits \in SUBSET Nat
  BY Numbered DEF TypeOK
<1>2. LinearSearch(n, flags) = IF hits = {} THEN -1 ELSE Min(hits)
  BY DEF LinearSearch
<1> HIDE DEF hits
<1>3. hits # {} => Min(hits) \in hits /\ Min(hits) \in Nat
  BY <1>1, MinIs
<1> QED
  BY <1>2, <1>3 DEF hits

\* With no flags a member matches when its folded name is the one asked for.
LEMMA PlainMatches ==
    ASSUME asked.flags = {}
    PROVE  Matches = {i \in DOMAIN dir : Folded(dir[i]) = Folded(asked.name)}
BY DEF Matches, SameName, Stripped

LEMMA LocateKept ==
    ASSUME IInv, NEW n \in Names, NEW flags \in Flags, Locate(n, flags)
    PROVE  IInv'
<1>1. /\ UNCHANGED <<archive, scan, sort>> /\ phase = "opened" /\ phase' \in {"search", "located"}
      /\ TypeOK /\ Indexed /\ DOMAIN dir' = DOMAIN dir
      /\ asked' = [name |-> n, flags |-> flags] /\ asked' \in [name : Names, flags : Flags]
      /\ asked'.name = n /\ asked'.flags = flags
  BY DEF IInv, Locate, SortInv, TypeOK, archive
<1>2. /\ N \in Nat /\ N' = N /\ DOMAIN dir = 0 .. N - 1
      /\ pIndices \in [0 .. N - 1 -> 0 .. N - 1]
  BY <1>1, IndexOK DEF N, total_files
<1>3. ScanInv' /\ ScanFindsFar'
  BY <1>1, ScanStays DEF IInv
<1>4. SortInv'
  BY <1>1, <1>2 DEF IInv, SortInv, Indexed, K, archive, sort
<1>5. CASE /\ flags = {} /\ phase' = "search" /\ l' = 0 /\ h' = N - 1 /\ UNCHANGED index
  <2>1. TypeOK'
    BY <1>1, <1>2, <1>5 DEF TypeOK, archive, scan, sort, N, total_files
  <2>2. SearchInv'
    BY <1>1, <1>2, <1>5 DEF SearchInv
  <2> QED
    BY <1>3, <1>4, <1>5, <2>1, <2>2 DEF IInv, LocateFinds
<1>6. CASE /\ phase' = "located" /\ index' = LinearSearch(n, flags) /\ UNCHANGED <<l, h>>
           /\ flags # {} \/ DOMAIN dir = {}
  <2> DEFINE hits == {i \in DOMAIN dir : SameName(Stripped(dir[i], flags), n, flags)}
  <2>1. IF hits = {} THEN index' = -1 ELSE index' \in hits /\ index' # -1
    BY <1>1, <1>6, LinearFinds
  <2>2. Matches' = hits
    BY <1>1 DEF Matches, archive
  <2>3. index' \in -1 .. N - 1
    BY <1>2, <2>1
  <2>4. TypeOK'
    BY <1>1, <1>2, <1>6, <2>3 DEF TypeOK, archive, scan, sort, N, total_files
  <2>5. LocateFinds'
    BY <2>1, <2>2 DEF LocateFinds
  <2> QED
    BY <1>3, <1>4, <1>6, <2>4, <2>5 DEF IInv, SearchInv
<1> QED
  BY <1>5, <1>6 DEF Locate, N

\* A turn of the binary search keeps the type when its bounds stay inside the
\* index.
LEMMA TypeWhileSearching ==
    ASSUME TypeOK, UNCHANGED <<archive, scan, sort, asked>>, phase = "search",
           phase' \in {"search", "located"}, l' \in Int, h' \in Int,
           index' \in -1 .. total_files - 1,
           phase' = "search" => l' >= 0 /\ h' < total_files
    PROVE  TypeOK'
<1>1. /\ phase' \in {"start", "scan", "scanned", "heapify", "shrink", "sift",
                      "opened", "search", "located"}
      /\ phase' \notin {"start", "scan", "scanned", "heapify", "shrink", "sift", "opened"}
  OBVIOUS
<1>2. /\ size' = size /\ sigs' = sigs /\ dir' = dir /\ doSort' = doSort
      /\ cur_file_ofs' = cur_file_ofs /\ found' = found /\ pIndices' = pIndices
      /\ start' = start /\ end' = end /\ root' = root /\ asked' = asked
  BY DEF archive, scan, sort
<1>3. total_files' = total_files
  BY <1>2 DEF total_files
<1>4. /\ pIndices \in [DOMAIN dir -> DOMAIN dir]
      /\ asked \in [name : Names, flags : Flags]
  BY DEF TypeOK
<1>5. /\ size' \in 0 .. Max({MaxSize, EndSize}) /\ sigs' \subseteq 0 .. size'
      /\ cur_file_ofs' \in Int /\ cur_file_ofs' <= size' /\ found' \in -1 .. size'
      /\ dir' \in Directories /\ doSort' \in BOOLEAN
      /\ start' \in Int /\ end' \in Int /\ root' \in Int
  BY <1>2 DEF TypeOK
<1>6. index' \in -1 .. total_files' - 1 /\ (phase' = "search" => l' >= 0 /\ h' < total_files')
  BY <1>3
<1> QED
  BY <1>1, <1>2, <1>4, <1>5, <1>6 DEF TypeOK

LEMMA BinarySearchKept ==
    ASSUME IInv, BinarySearch
    PROVE  IInv'
<1> DEFINE m == (l + h) \div 2
           name == dir[pIndices[m]]
<1>1. /\ UNCHANGED <<archive, scan, sort, asked>> /\ phase = "search"
      /\ phase' \in {"search", "located"} /\ TypeOK /\ Indexed /\ DOMAIN dir' = DOMAIN dir
      /\ asked \in [name : Names, flags : Flags] /\ asked.flags = {}
      /\ asked.name \in Names /\ l \in Int /\ h \in Int /\ l >= 0 /\ h < N
      /\ doSort => \A i \in DOMAIN dir :
                      Folded(K[i]) = Folded(asked.name) => l <= i /\ i <= h
      /\ doSort => Behind(K, N, 0)
      /\ index \in -1 .. N - 1
  BY DEF IInv, BinarySearch, SortInv, SearchInv, TypeOK, archive, N, total_files
<1>2. /\ N \in Nat /\ N' = N /\ DOMAIN dir = 0 .. N - 1 /\ total_files = N
      /\ pIndices \in [0 .. N - 1 -> 0 .. N - 1] /\ K \in [0 .. N - 1 -> Names]
      /\ \A i \in 0 .. N - 1 : K[i] = dir[pIndices[i]]
  BY <1>1, IndexOK DEF N, total_files
<1>3. ScanInv' /\ ScanFindsFar'
  BY <1>1, ScanStays DEF IInv
<1>4. SortInv' /\ K' = K
  BY <1>1, <1>2 DEF IInv, SortInv, Indexed, K, archive, sort
<1>5. Matches' = {i \in DOMAIN dir : Folded(dir[i]) = Folded(asked.name)}
  BY <1>1, PlainMatches DEF Matches, archive
<1>6. l <= h => m \in 0 .. N - 1 /\ name = K[m] /\ K[m] \in Names
  BY <1>1, <1>2
<1>7. CASE l > h /\ index' = -1 /\ phase' = "located" /\ UNCHANGED <<l, h>>
  <2>1. ASSUME doSort, NEW v \in Matches' PROVE FALSE
    <3>1. PICK i \in DOMAIN dir : pIndices[i] = v
      BY <1>1, <1>5 DEF Indexed
    <3>2. Folded(K[i]) = Folded(asked.name)
      BY <1>2, <1>5, <3>1
    <3> QED
      BY <1>1, <1>2, <1>7, <2>1, <3>2
  <2>2. LocateFinds'
    BY <1>1, <1>7, <2>1 DEF LocateFinds, archive
  <2>3. TypeOK'
    BY <1>1, <1>2, <1>7, TypeWhileSearching
  <2> QED
    BY <1>3, <1>4, <1>7, <2>2, <2>3 DEF IInv, SearchInv
<1>8. CASE /\ l <= h /\ Folded(name) = Folded(asked.name) /\ index' = pIndices[m]
           /\ phase' = "located" /\ UNCHANGED <<l, h>>
  <2>1. index' \in 0 .. N - 1 /\ index' # -1 /\ index' \in Matches'
    BY <1>2, <1>5, <1>6, <1>8
  <2>2. TypeOK'
    BY <1>1, <1>2, <1>8, <2>1, TypeWhileSearching
  <2>3. LocateFinds'
    BY <2>1 DEF LocateFinds
  <2> QED
    BY <1>3, <1>4, <1>8, <2>2, <2>3 DEF IInv, SearchInv
<1>9. CASE /\ l <= h /\ NameLess(name, asked.name) /\ l' = m + 1
           /\ UNCHANGED <<phase, h, index>>
  <2>1. ASSUME doSort, NEW i \in 0 .. N - 1, Folded(K[i]) = Folded(asked.name)
        PROVE  l' <= i /\ i <= h
    <3>1. ~(i <= m)
      <4>1. SUFFICES ASSUME i <= m PROVE FALSE
        OBVIOUS
      <4>2. ~NameLess(K[m], K[i])
        BY <1>1, <1>6, <1>9, <2>1, <4>1 DEF Behind
      <4>3. ~NameLess(K[i], asked.name) /\ K[i] \in Names
        BY <1>1, <1>2, <2>1, NamesOrdered
      <4>4. ~NameLess(K[m], asked.name)
        BY <1>1, <1>6, <1>9, <4>2, <4>3, NamesOrdered
      <4> QED
        BY <1>6, <1>9, <4>4
    <3>2. PICK mm \in Int : mm = m
      BY <1>6, <1>9
    <3>3. i \in Int /\ mm + 1 <= i
      BY <1>2, <3>1, <3>2
    <3>4. i <= h
      BY <1>1, <1>2, <2>1
    <3> QED
      BY <1>9, <3>2, <3>3, <3>4
  <2>2. l' \in Int /\ l' >= 0
    BY <1>6, <1>9
  <2>3. TypeOK'
    BY <1>1, <1>2, <1>9, <2>2, TypeWhileSearching
  <2>4. SearchInv'
    BY <1>1, <1>2, <1>4, <1>9, <2>1 DEF SearchInv, archive
  <2> QED
    BY <1>1, <1>3, <1>4, <1>9, <2>3, <2>4 DEF IInv, LocateFinds
<1>10. CASE /\ l <= h /\ NameLess(asked.name, name) /\ h' = m - 1
            /\ UNCHANGED <<phase, l, index>>
  <2>1. ASSUME doSort, NEW i \in 0 .. N - 1, Folded(K[i]) = Folded(asked.name)
        PROVE  l <= i /\ i <= h'
    <3>1. ~(m <= i)
      <4>1. SUFFICES ASSUME m <= i PROVE FALSE
        OBVIOUS
      <4>2. ~NameLess(K[i], K[m])
        BY <1>1, <1>2, <1>6, <1>10, <2>1, <4>1 DEF Behind
      <4>3. ~NameLess(asked.name, K[i]) /\ K[i] \in Names
        BY <1>1, <1>2, <2>1, NamesOrdered
      <4>4. ~NameLess(asked.name, K[m])
        BY <1>1, <1>6, <1>10, <4>2, <4>3, NamesOrdered
      <4> QED
        BY <1>6, <1>10, <4>4
    <3>2. PICK mm \in Int : mm = m
      BY <1>6, <1>10
    <3>3. i \in Int /\ i <= mm - 1
      BY <1>2, <3>1, <3>2
    <3>4. l <= i
      BY <1>1, <1>2, <2>1
    <3> QED
      BY <1>10, <3>2, <3>3, <3>4
  <2>2. h' \in Int /\ h' < N
    <3>1. PICK mm \in Int : mm = m
      BY <1>6, <1>10
    <3>2. h' = mm - 1 /\ mm \in 0 .. N - 1
      BY <1>6, <1>10, <3>1
    <3> QED
      BY <1>2, <3>2
  <2>3. TypeOK'
    BY <1>1, <1>2, <1>10, <2>2, TypeWhileSearching
  <2>4. SearchInv'
    BY <1>1, <1>2, <1>4, <1>10, <2>1 DEF SearchInv, archive
  <2> QED
    BY <1>1, <1>3, <1>4, <1>10, <2>3, <2>4 DEF IInv, LocateFinds
<1> QED
  BY <1>7, <1>8, <1>9, <1>10 DEF BinarySearch

-----------------------------------------------------------------------------

LEMMA StepKept ==
    ASSUME IInv, [Next]_vars
    PROVE  IInv'
<1>1. CASE ReadEnd \/ ScanWindow
  BY <1>1, ReadKept
<1>2. CASE Open
  BY <1>2, OpenKept
<1>3. CASE Heapify
  BY <1>3, HeapifyKept
<1>4. CASE Shrink
  BY <1>4, ShrinkKept
<1>5. CASE Sift
  BY <1>5, SiftKept
<1>6. CASE BinarySearch
  BY <1>6, BinarySearchKept
<1>7. ASSUME NEW n \in Names, NEW flags \in Flags, Locate(n, flags)
      PROVE  IInv'
  BY <1>7, LocateKept
<1>8. CASE UNCHANGED vars
  <2>1. /\ phase' = phase /\ size' = size /\ sigs' = sigs /\ dir' = dir /\ doSort' = doSort
        /\ cur_file_ofs' = cur_file_ofs /\ found' = found
        /\ pIndices' = pIndices /\ start' = start /\ end' = end /\ root' = root
        /\ l' = l /\ h' = h /\ asked' = asked /\ index' = index
    BY <1>8 DEF vars, archive, scan, sort, search
  <2>2. total_files' = total_files /\ N' = N /\ K' = K /\ LastWindow' = LastWindow
    BY <2>1 DEF total_files, N, K, LastWindow
  <2>3. TypeOK'
    BY <2>1, <2>2 DEF IInv, TypeOK
  <2>4. ScanInv' /\ ScanFindsFar'
    BY <2>1, <2>2 DEF IInv, ScanInv, ScanFindsFar, HasEnd
  <2>5. SortInv'
    BY <2>1, <2>2 DEF IInv, SortInv, Indexed
  <2>6. SearchInv'
    BY <2>1, <2>2 DEF IInv, SearchInv
  <2>7. LocateFinds'
    BY <2>1 DEF IInv, LocateFinds, Matches
  <2> QED
    BY <2>3, <2>4, <2>5, <2>6, <2>7 DEF IInv
<1> QED
  BY <1>1, <1>2, <1>3, <1>4, <1>5, <1>6, <1>7, <1>8 DEF Next

THEOREM Invariant == Spec => []IInv
<1>1. Init => IInv
  BY InitKept
<1>2. IInv /\ [Next]_vars => IInv'
  BY StepKept
<1> QED
  BY <1>1, <1>2, PTL DEF Spec

\* The scan, the sort and the search stay inside the file and the directory:
\* every index they use is in range (mz_zip_reader_read_central_dir,
\* mz_zip_reader_sort_central_dir_offsets_by_filename,
\* mz_zip_reader_locate_file_binary_search).
THEOREM TypeCorrect == Spec => []TypeOK
<1>1. IInv => TypeOK
  BY DEF IInv
<1> QED
  BY <1>1, Invariant, PTL

\* Heap sort and binary search together find a member exactly when one
\* matches, for directories of any length
\* (mz_zip_reader_sort_central_dir_offsets_by_filename,
\* mz_zip_reader_locate_file).
THEOREM MembersAreFound == Spec => []LocateFinds
<1>1. IInv => LocateFinds
  BY DEF IInv
<1> QED
  BY <1>1, Invariant, PTL

\* The scan finds the last end record while its windows stay inside the file,
\* for windows and comments of any size (mz_zip_reader_read_central_dir).
THEOREM EndRecordIsFound == Spec => []ScanFindsFar
<1>1. IInv => ScanFindsFar
  BY DEF IInv
<1> QED
  BY <1>1, Invariant, PTL
=============================================================================
