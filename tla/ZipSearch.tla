------------------------------ MODULE ZipSearch ------------------------------
(***************************************************************************)
(* How miniz.c finds things in an archive it opens: the end record of the  *)
(* central directory, looked for from the end of the file in overlapping   *)
(* windows, and a member, looked for by binary search in an index that is  *)
(* heap sorted when the archive is opened, or entry by entry.              *)
(*                                                                         *)
(* A name is a record: the part up to its last separator (0 for none), the *)
(* part after it, both as ranks among the lowercased names, and whether it *)
(* is spelled with capitals.                                               *)
(***************************************************************************)
EXTENDS Integers, Sequences, FiniteSetsExt

CONSTANTS
    Names,          \* names of members, and names looked for
    MaxFiles,       \* bound: members of an archive
    Window,         \* sizeof(buf_u32), the bytes read at a time
    MaxSize,        \* bound: size of a file
    Comment,        \* 0xFFFF, the longest comment of an archive
    Word            \* 2 ^ 64: the offsets are computed modulo Word

Sig == 4            \* bytes of a signature
Overlap == 3
EndSize == 6        \* MZ_ZIP_END_OF_CENTRAL_DIR_HEADER_SIZE

ASSUME SizesFit ==
    /\ MaxFiles \in Nat /\ MaxSize \in Nat /\ Comment \in Nat /\ Window \in Nat /\ Word \in Nat
    /\ Window > Sig /\ Word > 4 * (MaxSize + Window)

ASSUME NamesAreRanked == Names \subseteq [path : Nat, base : Nat, upper : BOOLEAN]

VARIABLES
    phase,          \* the loop or the call that is under way
    size,           \* m_archive_size
    sigs,           \* where the end record's signature is in the file
    cur_file_ofs,   \* where the scan reads
    found,          \* the offset the scan came to, -1 for none
    dir,            \* the names in the central directory, from 0
    pIndices,       \* m_sorted_central_dir_offsets
    doSort,         \* MZ_ZIP_FLAG_DO_NOT_SORT_CENTRAL_DIRECTORY is not set
    start, end,     \* the two loops of the heap sort
    root,           \* its inner loop
    l, h,           \* the binary search
    asked,          \* the name and the flags looked for
    index           \* the answer of mz_zip_reader_locate_file

archive == <<size, sigs, dir, doSort>>
scan == <<cur_file_ofs, found>>
sort == <<pIndices, start, end, root>>
search == <<l, h, asked, index>>
vars == <<phase, archive, scan, sort, search>>

Flags == SUBSET {"ignore_path", "case_sensitive"}
Directories == UNION {[0 .. n - 1 -> Names] : n \in 0 .. MaxFiles}
total_files == Cardinality(DOMAIN dir)

-----------------------------------------------------------------------------
(* The end record.                                                         *)

\* Mutant: the windows overlap by one byte less.
Back_Gap(ofs) == ofs - (Window - Overlap + 1)

\* MZ_MAX(ofs - (sizeof(buf_u32) - 3), 0): the subtraction is unsigned, and
\* the larger of the two is taken back to a signed offset.
Back(ofs) ==
    LET u == (ofs - (Window - Overlap)) % Word
    IN IF u >= Word \div 2 THEN u - Word ELSE u

\* mz_zip_file_read_func and mz_zip_mem_read_func refuse an offset outside
\* the file.  (The reader lminiz.c gives to Lua, lmz_file_read, reads at the
\* position of the file when the offset is negative.)
Readable(ofs, n) == ofs >= 0 /\ ofs + n <= size

\* What the first window begins at.
LastWindow == Max({size - Window, 0})

ReadEnd ==
    /\ phase = "start"
    /\ IF size < EndSize
       THEN phase' = "scanned" /\ UNCHANGED cur_file_ofs
       ELSE phase' = "scan" /\ cur_file_ofs' = LastWindow
    /\ UNCHANGED <<archive, found, sort, search>>

\* One turn of the scan: the last signature in the window, the beginning of
\* the file or of the longest comment, or the window before.
ScanWindow ==
    LET n == Min({Window, size - cur_file_ofs})
        here == {i \in sigs : i >= cur_file_ofs /\ i + Sig <= cur_file_ofs + n}
        last == cur_file_ofs = 0 \/ size - cur_file_ofs >= Comment + EndSize
    IN /\ phase = "scan"
       /\ \/ /\ ~Readable(cur_file_ofs, n) \/ (here = {} /\ last)
             /\ phase' = "scanned" /\ UNCHANGED scan
          \/ /\ Readable(cur_file_ofs, n) /\ here # {}
             /\ found' = Max(here)
             /\ phase' = "scanned" /\ UNCHANGED cur_file_ofs
          \/ /\ Readable(cur_file_ofs, n) /\ here = {} /\ ~last
             /\ cur_file_ofs' = Back(cur_file_ofs)
             /\ UNCHANGED <<phase, found>>
       /\ UNCHANGED <<archive, sort, search>>

-----------------------------------------------------------------------------
(* The index of names.                                                     *)

Folded(n) == <<n.path, n.base>>

\* mz_zip_reader_filename_less and mz_zip_reader_filename_compare.
NameLess(a, b) ==
    \/ a.path < b.path
    \/ a.path = b.path /\ a.base < b.base

\* MZ_SWAP_UINT32.
Swap(f, i, j) == [f EXCEPT ![i] = f[j], ![j] = f[i]]

\* mz_zip_reader_read_central_dir: the index array is made in any case.
Open ==
    /\ phase = "scanned" /\ found # -1
    /\ pIndices' = [i \in DOMAIN dir |-> i]
    /\ IF doSort
       THEN /\ phase' = "heapify"
            /\ start' = (total_files - 2) \div 2 /\ root' = (total_files - 2) \div 2
       ELSE phase' = "opened" /\ UNCHANGED <<start, root>>
    /\ UNCHANGED <<archive, scan, end, search>>

\* The names at two places of the index, compared.
LessAt(i, j) == NameLess(dir[pIndices[i]], dir[pIndices[j]])

\* The inner loop of the heap sort in the first bound places: the larger
\* child of the root, whether the root goes below it, and the turn.
Child(bound) ==
    LET left == 2 * root + 1
    IN IF left + 1 < bound /\ LessAt(left, left + 1) THEN left + 1 ELSE left
Sinks(bound) == 2 * root + 1 < bound /\ LessAt(root, Child(bound))
Sink(bound) ==
    /\ Sinks(bound)
    /\ pIndices' = Swap(pIndices, root, Child(bound)) /\ root' = Child(bound)

\* The first loop makes a heap, from the last parent to the root.
Heapify ==
    /\ phase = "heapify"
    /\ \/ /\ start >= 0 /\ Sink(total_files)
          /\ UNCHANGED <<phase, start, end>>
       \/ /\ start >= 0 /\ ~Sinks(total_files)
          /\ start' = start - 1 /\ root' = start - 1
          /\ UNCHANGED <<phase, pIndices, end>>
       \/ /\ start < 0
          /\ phase' = "shrink" /\ end' = total_files - 1
          /\ UNCHANGED <<pIndices, start, root>>
    /\ UNCHANGED <<archive, scan, search>>

\* Mutant: the second loop stops one element early.
Shrink_Early ==
    /\ phase = "shrink"
    /\ \/ /\ end > 1
          /\ pIndices' = Swap(pIndices, end, 0) /\ root' = 0
          /\ phase' = "sift"
       \/ /\ end <= 1
          /\ phase' = "opened"
          /\ UNCHANGED <<pIndices, root>>
    /\ UNCHANGED <<archive, scan, start, end, search>>

\* The second loop moves the largest name behind the heap ...
Shrink ==
    /\ phase = "shrink"
    /\ \/ /\ end > 0
          /\ pIndices' = Swap(pIndices, end, 0) /\ root' = 0
          /\ phase' = "sift"
       \/ /\ end <= 0
          /\ phase' = "opened"
          /\ UNCHANGED <<pIndices, root>>
    /\ UNCHANGED <<archive, scan, start, end, search>>

\* ... and lets the name that took its place sink.
Sift ==
    /\ phase = "sift"
    /\ \/ Sink(end) /\ UNCHANGED <<phase, end>>
       \/ /\ ~Sinks(end)
          /\ end' = end - 1 /\ phase' = "shrink"
          /\ UNCHANGED <<pIndices, root>>
    /\ UNCHANGED <<archive, scan, start, search>>

-----------------------------------------------------------------------------
(* Looking for a member.                                                   *)

\* mz_zip_reader_string_equal.
SameName(a, b, flags) ==
    Folded(a) = Folded(b) /\ ("case_sensitive" \in flags => a = b)

\* MZ_ZIP_FLAG_IGNORE_PATH cuts the member's name, not the one looked for.
Stripped(n, flags) == IF "ignore_path" \in flags THEN [n EXCEPT !.path = 0] ELSE n

LinearSearch(n, flags) ==
    LET hits == {i \in DOMAIN dir : SameName(Stripped(dir[i], flags), n, flags)}
    IN IF hits = {} THEN -1 ELSE Min(hits)

\* mz_zip_reader_locate_file.  An empty directory has no index array; both
\* searches then find nothing.
Locate(n, flags) ==
    /\ phase = "opened"
    /\ asked' = [name |-> n, flags |-> flags]
    /\ IF flags = {} /\ DOMAIN dir # {}
       THEN /\ phase' = "search" /\ l' = 0 /\ h' = total_files - 1
            /\ UNCHANGED index
       ELSE /\ phase' = "located" /\ index' = LinearSearch(n, flags)
            /\ UNCHANGED <<l, h>>
    /\ UNCHANGED <<archive, scan, sort>>

\* One turn of mz_zip_reader_locate_file_binary_search.
BinarySearch ==
    LET m == (l + h) \div 2
        name == dir[pIndices[m]]
    IN /\ phase = "search"
       /\ \/ /\ l > h
             /\ index' = -1
             /\ phase' = "located" /\ UNCHANGED <<l, h>>
          \/ /\ l <= h /\ Folded(name) = Folded(asked.name)
             /\ index' = pIndices[m]
             /\ phase' = "located" /\ UNCHANGED <<l, h>>
          \/ /\ l <= h /\ NameLess(name, asked.name)
             /\ l' = m + 1 /\ UNCHANGED <<phase, h, index>>
          \/ /\ l <= h /\ NameLess(asked.name, name)
             /\ h' = m - 1 /\ UNCHANGED <<phase, l, index>>
       /\ UNCHANGED <<archive, scan, sort, asked>>

-----------------------------------------------------------------------------

Start ==
    /\ phase = "start"
    /\ cur_file_ofs = 0 /\ found = -1
    /\ pIndices = <<>> /\ start = 0 /\ end = 0 /\ root = 0
    /\ l = 0 /\ h = 0 /\ index = -1
    /\ asked = [name |-> CHOOSE n \in Names : TRUE, flags |-> {}]

\* Any directory, in a file where its end record is found.
AnyDirectory ==
    /\ dir \in Directories /\ doSort \in BOOLEAN
    /\ size = EndSize /\ sigs = {0}

\* Any file with at most two places that look like an end record.
AnyFile ==
    /\ size \in 0 .. MaxSize
    /\ \E a, b \in 0 .. Max({size - EndSize, 0}) :
          sigs = {i \in {a, b} : i + EndSize <= size}
    /\ dir = <<>> /\ doSort = TRUE

\* The directory and the bytes around it are varied one at a time.
Init == Start /\ (AnyDirectory \/ AnyFile)

Next ==
    \/ ReadEnd \/ ScanWindow \/ Open
    \/ Heapify \/ Shrink \/ Sift
    \/ BinarySearch
    \/ \E n \in Names, flags \in Flags : Locate(n, flags)

Spec == Init /\ [][Next]_vars

-----------------------------------------------------------------------------

\* The loops keep their counters and the index inside the directory.
TypeOK ==
    /\ phase \in {"start", "scan", "scanned", "heapify", "shrink", "sift",
                  "opened", "search", "located"}
    /\ size \in 0 .. Max({MaxSize, EndSize}) /\ sigs \subseteq 0 .. size
    /\ cur_file_ofs \in Int /\ cur_file_ofs <= size /\ found \in -1 .. size
    /\ dir \in Directories /\ doSort \in BOOLEAN
    /\ start \in Int /\ end \in Int /\ root \in Int /\ l \in Int /\ h \in Int
    /\ index \in -1 .. total_files - 1
    /\ phase \notin {"start", "scan", "scanned"} => pIndices \in [DOMAIN dir -> DOMAIN dir]
    /\ phase = "heapify" /\ start >= 0 => root \in DOMAIN dir
    /\ phase = "sift" => end \in DOMAIN dir /\ root \in 0 .. end - 1
    /\ phase = "search" => l >= 0 /\ h < total_files
    /\ phase \in {"search", "located"} => asked \in [name : Names, flags : Flags]

\* The answers the header promises for a name and flags: the members that
\* match it (miniz.h, mz_zip_reader_locate_file).
Matches ==
    {i \in DOMAIN dir :
        SameName(Stripped(dir[i], asked.flags), asked.name, asked.flags)}

\* What is found matches, and heap sort and binary search together find a
\* member whenever one matches, whatever the order of the directory, its
\* duplicates and the letter case (mz_zip_reader_locate_file,
\* mz_zip_reader_sort_central_dir_offsets_by_filename).  Without the sort the
\* binary search goes over the unsorted index all the same and may miss.
LocateFinds ==
    phase = "located" =>
        /\ index # -1 => index \in Matches
        /\ index = -1 /\ (doSort \/ asked.flags # {}) => Matches = {}

\* The end record is where an archive may have it: at most the longest
\* comment follows.
HasEnd == sigs # {} /\ size - Max(sigs) <= Comment + EndSize

\* The scan finds the end record when it comes to it in windows that all lie
\* inside the file (mz_zip_reader_read_central_dir): no signature falls
\* between two windows, an older record is never taken for the last one and
\* the limit does not stop the scan too early.
ScanFindsFar ==
    (phase = "scanned" /\ HasEnd /\
     \E k \in 0 .. MaxSize :
        LET ofs == LastWindow - k * (Window - Overlap)
        IN ofs >= 0 /\ Max(sigs) >= ofs)
    => found = Max(sigs)
=============================================================================
