----------------------------- MODULE ZipArchive -----------------------------
(***************************************************************************)
(* Writing, reading and appending to ZIP archives: the writer and reader   *)
(* of miniz.c with the Lua binding of lminiz.c.  A writer builds an        *)
(* archive in memory, member by member; Lua saves the finalized string to  *)
(* a file, possibly behind a stub, opens a reader on it, copies members    *)
(* from it to another writer, and a C caller appends to it in place.       *)
(*                                                                         *)
(* The bytes of an archive are a sequence of cells, one for each local     *)
(* header, file name, central directory header and end record, and the     *)
(* cells of the data.  A call of the writer is a sequence of steps: every  *)
(* write may fail, and what was written before it stays.  Offsets count    *)
(* from 0; the cell at offset o of bytes b is b[o + 1].                    *)
(***************************************************************************)
EXTENDS Integers, Sequences, FiniteSetsExt

CONSTANTS Uses      \* the ways an archive is used, each a record:
                    \*   names     names of members: [id, form], form a file, dir or bad
                    \*   contents  contents of members: sequences of cells
                    \*   appended  contents that may be appended in place
                    \*   reserve   size_to_reserve_at_beginning
                    \*   align     m_file_offset_alignment, 1 for none
                    \*   stubs     lengths of what Lua may put before a saved archive
                    \*   faults    what may fail: "add_write", "copy_write" (the body
                    \*             of a copied member), "final_write", "alloc"
                    \*   members   bound: members of an archive
                    \*   cells     bound: no call begins beyond this offset

ASSUME ZipConstants ==
    \A u \in Uses :
        /\ u.reserve \in Nat /\ u.align \in Nat \ {0} /\ u.stubs \subseteq Nat
        /\ u.members \in Nat /\ u.cells \in Nat
        /\ \A c \in u.contents \union u.appended : c \in Seq({c[k] : k \in DOMAIN c})

\* The uses the code is made for.  An append behind a stub, or one that may
\* not write, loses the old members (miniz.c:3176, miniz.c:3877).  A copied
\* member with an end record of its own, whose body is then not written to
\* the end, or whose directory header is not pushed, leaves that record
\* behind the archive (miniz.c:3684, miniz.c:3740).
ASSUME SupportedUses ==
    \A u \in Uses :
        /\ u.appended # {} => u.stubs \subseteq {0} /\ u.faults \subseteq {"alloc"}
        /\ u.faults \intersect {"alloc", "copy_write"} # {} =>
              \A c \in u.contents \union u.appended : \A k \in DOMAIN c : c[k].t # "end"

VARIABLES
    use,            \* how the archive is used, chosen once
    heap,           \* m_pMem[0 .. m_mem_size - 1], then the string given to Lua
    file,           \* the archive file
    exists,         \* there is an archive file
    zip,            \* the mz_zip_archive of the writer
    call,           \* the call of the writer under way
    inplace,        \* mz_zip_add_mem_to_archive_file_in_place, when under way
    rd,             \* the mz_zip_archive of the reader
    truth,          \* history: the members the file should hold
    seen,           \* history: what the reader held when it was opened
    accepted        \* history: the members that calls of lminiz's writer accepted

vars == <<use, heap, file, exists, zip, call, inplace, rd, truth, seen, accepted>>

-----------------------------------------------------------------------------
(* Cells.                                                                  *)

Zero == [t |-> "zero"]
Junk == [t |-> "junk"]
NameCell(n) == [t |-> "name", name |-> n]
LocalHeader == [t |-> "local"]
CentralHeader(n, method, csize, usize, ofs) ==
    [t |-> "central", name |-> n, method |-> method, csize |-> csize,
     usize |-> usize, ofs |-> ofs]
EndRecord(total, size, ofs) == [t |-> "end", total |-> total, size |-> size, ofs |-> ofs]
Deflated(c) == <<[t |-> "deflate", of |-> c]>>

\* Data no extraction returns.
Lost == <<[t |-> "lost"]>>

Cells(b, ofs, n) == SubSeq(b, ofs + 1, ofs + n)
Fill(cell, n) == [i \in 1 .. n |-> cell]

\* The bytes after cells were written at an offset.
Write(b, ofs, cells) ==
    IF cells = <<>> THEN b
    ELSE [i \in 1 .. Max({Len(b), ofs + Len(cells)}) |->
             IF i > ofs /\ i <= ofs + Len(cells) THEN cells[i - ofs]
             ELSE IF i <= Len(b) THEN b[i] ELSE Junk]

-----------------------------------------------------------------------------
(* Reading.                                                                *)

Ends(b) == {i \in 1 .. Len(b) : b[i].t = "end"}

\* mz_zip_reader_read_central_dir: the directory lies before the end record,
\* and what comes before the recorded offset is a stub.
ReadCentralDir(b) ==
    LET at == Max(Ends(b)) - 1
        end == b[at + 1]
        dofs == at - end.size
    IN [dofs |-> dofs, start |-> dofs - end.ofs, size |-> Len(b),
        dir |-> Cells(b, dofs, end.size), total |-> end.total]

\* Its checks of the end record and of every directory header.
Acceptable(b) ==
    /\ Ends(b) # {}
    /\ LET d == ReadCentralDir(b)
       IN /\ Len(d.dir) >= d.total /\ d.dofs >= 0
          /\ \A i \in 1 .. d.total :
                LET h == d.dir[i]
                IN /\ h.t = "central"
                   /\ h.method = "stored" => h.usize = h.csize
                   /\ h.usize > 0 => h.csize > 0
                   /\ h.ofs + 1 + h.csize <= Len(b)

\* mz_zip_reader_file_stat: where a member's local header is.
LocalHeaderOfs(d, i) == d.dir[i].ofs + d.start

\* mz_zip_reader_extract_to_mem_no_alloc.
Extract(b, d, i) ==
    LET h == d.dir[i]
        ofs == LocalHeaderOfs(d, i)
        data == Cells(b, ofs + 2, h.csize)
    IN IF h.csize = 0 THEN <<>>
       ELSE IF \/ ofs < 0 \/ ofs >= Len(b) \/ b[ofs + 1].t # "local"
               \/ ofs + 2 + h.csize > d.size \/ Len(data) # h.csize THEN Lost
       ELSE IF h.method = "stored" THEN data
       ELSE IF data[1].t = "deflate" THEN data[1].of ELSE Lost

Members(b, d) ==
    [i \in 1 .. d.total |-> [name |-> d.dir[i].name, content |-> Extract(b, d, i)]]

\* What a reader opened on these bytes holds.
Holds(b) ==
    IF Acceptable(b) THEN [ok |-> TRUE, members |-> Members(b, ReadCentralDir(b))]
    ELSE [ok |-> FALSE, members |-> <<>>]

-----------------------------------------------------------------------------
(* The archive of the writer.                                              *)

NoCall == [op |-> "none", step |-> "none"]
NoZip == [mode |-> "invalid", on |-> "heap", size |-> 0, total |-> 0, dir |-> <<>>, room |-> {}]
NoReader == [mode |-> "invalid"]
NotInPlace == [kind |-> "none"]

Init ==
    /\ use \in Uses
    /\ heap = <<>> /\ file = <<>> /\ exists = FALSE
    /\ zip = NoZip /\ call = NoCall /\ inplace = NotInPlace /\ rd = NoReader
    /\ truth = <<>> /\ seen = <<>> /\ accepted = <<>>

Idle == call = NoCall /\ inplace = NotInPlace
files == <<file, exists>>
history == <<truth, seen, accepted>>

Bytes == IF zip.on = "heap" THEN heap ELSE file

SetBytes(b) ==
    /\ heap' = IF zip.on = "heap" THEN b ELSE heap
    /\ file' = IF zip.on = "file" THEN b ELSE file

\* A call of the writer returns, to its caller or to the in-place append.
Return(ok) ==
    call' = IF inplace = NotInPlace THEN NoCall ELSE [op |-> "return", step |-> call.op, ok |-> ok]

\* What a write that fails has written.  mz_zip_heap_write_func fails only
\* when the block must grow, and then writes nothing; what is made of several
\* writes, and fwrite, may stop anywhere.
Torn(ofs, cells, several) ==
    IF zip.on = "heap" /\ ofs + Len(cells) <= Len(heap) THEN {}
    ELSE IF zip.on = "heap" /\ ~several THEN {<<>>}
    ELSE {SubSeq(cells, 1, k) : k \in 0 .. Len(cells) - 1} \union
         {SubSeq(cells, 1, k) \o <<Junk>> : k \in 0 .. Len(cells) - 1}

\* One m_pWrite of a call, or several in a row, and what follows their success.
Put(ofs, cells, several, fault, then) ==
    \/ SetBytes(Write(Bytes, ofs, cells)) /\ then
    \/ /\ fault \in use.faults /\ cells # <<>>
       /\ \E part \in Torn(ofs, cells, several) : SetBytes(Write(Bytes, ofs, part))
       /\ Return(FALSE)
       /\ UNCHANGED zip

At(step) == call' = [call EXCEPT !.step = step]

\* The two arrays of the writer.  They grow by doubling; the record's room are
\* those known to have place for one more member, the others may have it.
Arrays == {"m_central_dir", "m_central_dir_offsets"}

\* mz_zip_array_ensure_room of both.
ensure_room(z) == [z EXCEPT !.room = Arrays]

\* An allocation fails: that of the directory, of the offsets once the
\* directory has grown, or of the compressor after both.
AllocFails(compressor) ==
    /\ "alloc" \in use.faults
    /\ \/ "m_central_dir" \notin zip.room /\ UNCHANGED zip
       \/ /\ "m_central_dir_offsets" \notin zip.room
          /\ zip' = [zip EXCEPT !.room = @ \union {"m_central_dir"}]
       \/ compressor /\ zip' = ensure_room(zip)

\* mz_zip_writer_compute_padding_needed_for_file_alignment.  An append in
\* place starts from a cleared mz_zip_archive, without alignment.
Padding ==
    IF zip.on = "file" THEN 0 ELSE (use.align - (zip.size % use.align)) % use.align

-----------------------------------------------------------------------------
(* The writer and its life.                                                *)

\* lmz_writer_init: mz_zip_writer_init_heap; the reserved bytes stay unset.
lmz_writer_init ==
    /\ Idle /\ zip.mode = "invalid"
    /\ zip' = [NoZip EXCEPT !.mode = "writing", !.size = use.reserve]
    /\ heap' = <<>> /\ accepted' = <<>>
    /\ UNCHANGED <<files, call, inplace, rd, truth, seen>>

\* lmz_writer_gc: mz_zip_writer_end.
lmz_writer_gc ==
    /\ Idle /\ zip.mode # "invalid"
    /\ zip' = NoZip /\ heap' = <<>> /\ accepted' = <<>>
    /\ UNCHANGED <<files, call, inplace, rd, truth, seen>>

\* Mutant: the arrays are grown when the entry is pushed.
AddMem_Late(n, c, deflate) ==
    LET ofs == zip.size + Padding
    IN \/ /\ n.form = "bad" \/ (n.form = "dir" /\ c # <<>>)
          /\ Return(FALSE) /\ UNCHANGED zip
       \/ AllocFails(deflate /\ c # <<>>) /\ Return(FALSE)
       \/ /\ n.form # "bad" /\ (n.form = "dir" => c = <<>>)
          /\ UNCHANGED zip
          /\ call' = [op |-> "mem", step |-> "zeros", name |-> n, content |-> c,
                      method |-> IF deflate /\ Len(c) > 1 THEN "deflated" ELSE "stored",
                      ofs |-> ofs]

\* mz_zip_writer_add_mem_ex up to its first write: the refusals and the
\* allocations.  A content of one cell is not worth deflating.
AddMem(n, c, deflate) ==
    LET ofs == zip.size + Padding
    IN \/ /\ n.form = "bad" \/ (n.form = "dir" /\ c # <<>>)
          /\ Return(FALSE) /\ UNCHANGED zip
       \/ AllocFails(deflate /\ c # <<>>) /\ Return(FALSE)
       \/ /\ n.form # "bad" /\ (n.form = "dir" => c = <<>>)
          /\ zip' = ensure_room(zip)
          /\ call' = [op |-> "mem", step |-> "zeros", name |-> n, content |-> c,
                      method |-> IF deflate /\ Len(c) > 1 THEN "deflated" ELSE "stored",
                      ofs |-> ofs]

lmz_writer_add_mem(n, c, deflate) ==
    /\ Idle /\ zip.mode = "writing" /\ zip.on = "heap"
    /\ zip.total < use.members /\ zip.size <= use.cells
    /\ AddMem(n, c, deflate)
    /\ UNCHANGED <<heap, files, inplace, rd, history>>

\* The header's place is filled with zeros first, with the padding.
WriteZeros ==
    /\ call.op = "mem" /\ call.step = "zeros"
    /\ Put(zip.size, Fill(Zero, Padding + 1), TRUE, "add_write", At("name") /\ UNCHANGED zip)
    /\ UNCHANGED <<exists, inplace, rd, history>>

WriteName ==
    /\ call.op = "mem" /\ call.step = "name"
    /\ Put(call.ofs + 1, <<NameCell(call.name)>>, FALSE, "add_write", At("data") /\ UNCHANGED zip)
    /\ UNCHANGED <<exists, inplace, rd, history>>

DataOf(c) == IF c.method = "deflated" THEN Deflated(c.content) ELSE c.content

\* Stored by one write, or deflated by those of
\* mz_zip_writer_add_put_buf_callback.
WriteData ==
    /\ call.op = "mem" /\ call.step = "data"
    /\ Put(call.ofs + 2, DataOf(call), call.method = "deflated", "add_write",
           At("local") /\ UNCHANGED zip)
    /\ UNCHANGED <<exists, inplace, rd, history>>

\* mz_zip_writer_create_local_dir_header, written over the zeros.
WriteLocalHeader ==
    /\ call.op = "mem" /\ call.step = "local"
    /\ Put(call.ofs, <<LocalHeader>>, FALSE, "add_write", At("central") /\ UNCHANGED zip)
    /\ UNCHANGED <<exists, inplace, rd, history>>

\* A directory header pushed, and the new end.
Entered(h, end) == [zip EXCEPT !.dir = Append(@, h), !.total = @ + 1, !.size = end, !.room = {}]

\* The caller is told that the member is in.
Accept(m) == accepted' = IF zip.on = "heap" THEN Append(accepted, m) ELSE accepted
CallsMember == [name |-> call.name, content |-> call.content]

\* A push that fails leaves the directory as it was.
PushFails == AllocFails(FALSE) /\ Return(FALSE)

\* Mutant: the header is recorded where the padding begins.
add_to_central_dir_Unpadded ==
    /\ call.op = "mem" /\ call.step = "central"
    /\ LET data == DataOf(call)
           h == CentralHeader(call.name, call.method, Len(data), Len(call.content), zip.size)
       IN \/ zip' = Entered(h, call.ofs + 2 + Len(data)) /\ Accept(CallsMember) /\ Return(TRUE)
          \/ PushFails /\ UNCHANGED accepted
    /\ UNCHANGED <<heap, files, inplace, rd, truth, seen>>

\* mz_zip_writer_add_to_central_dir and the end of mz_zip_writer_add_mem_ex.
add_to_central_dir ==
    /\ call.op = "mem" /\ call.step = "central"
    /\ LET data == DataOf(call)
           h == CentralHeader(call.name, call.method, Len(data), Len(call.content), call.ofs)
       IN \/ zip' = Entered(h, call.ofs + 2 + Len(data)) /\ Accept(CallsMember) /\ Return(TRUE)
          \/ PushFails /\ UNCHANGED accepted
    /\ UNCHANGED <<heap, files, inplace, rd, truth, seen>>

-----------------------------------------------------------------------------
(* Copying a member of the open reader.                                    *)

\* lmz_writer_add_from_zip_reader: mz_zip_writer_add_from_zip_reader up to
\* its first write; the source must have a local header there.
lmz_writer_add_from_zip_reader(i) ==
    /\ Idle /\ zip.mode = "writing" /\ zip.on = "heap" /\ rd.mode = "reading"
    /\ zip.total < use.members /\ zip.size <= use.cells
    /\ i \in 1 .. rd.total
    /\ LET from == LocalHeaderOfs(rd, i)
       IN \/ /\ from < 0 \/ from >= Len(file) \/ file[from + 1].t # "local"
             /\ Return(FALSE)
          \/ /\ from >= 0 /\ from < Len(file) /\ file[from + 1].t = "local"
             /\ call' = [op |-> "copy", step |-> "header", index |-> i, from |-> from,
                         head |-> rd.dir[i], ofs |-> zip.size + Padding]
    /\ UNCHANGED <<heap, files, zip, inplace, rd, history>>

CopyHeader ==
    /\ call.op = "copy" /\ call.step = "header"
    /\ Put(zip.size, Fill(Zero, Padding) \o <<LocalHeader>>, TRUE, "add_write",
           At("body") /\ UNCHANGED zip)
    /\ UNCHANGED <<exists, inplace, rd, history>>

\* The name and the data, through a buffer that must be allocated, 64 KB at a
\* time: what was read and written before a read or a write fails stays.
CopyBody ==
    /\ call.op = "copy" /\ call.step = "body"
    /\ LET body == Cells(file, call.from + 1, 1 + call.head.csize)
           whole == Len(body) = 1 + call.head.csize
       IN \/ "alloc" \in use.faults /\ Return(FALSE) /\ UNCHANGED <<heap, file, zip>>
          \/ whole /\ Put(call.ofs + 1, body, TRUE, "copy_write", At("central") /\ UNCHANGED zip)
          \/ /\ ~whole /\ Return(FALSE) /\ UNCHANGED zip
             /\ \E k \in 0 .. Len(body) : SetBytes(Write(Bytes, call.ofs + 1, SubSeq(body, 1, k)))
    /\ UNCHANGED <<exists, inplace, rd, history>>

\* The source's directory header, with the new offset.
CopyCentralHeader ==
    /\ call.op = "copy" /\ call.step = "central"
    /\ LET h == [call.head EXCEPT !.ofs = call.ofs]
       IN \/ /\ zip' = Entered(h, call.ofs + 2 + call.head.csize)
             /\ Accept(seen[call.index]) /\ Return(TRUE)
          \/ PushFails /\ UNCHANGED accepted
    /\ UNCHANGED <<heap, files, inplace, rd, truth, seen>>

-----------------------------------------------------------------------------
(* Finalizing.                                                             *)

\* lmz_writer_finalize: mz_zip_writer_finalize_heap_archive.
lmz_writer_finalize ==
    /\ Idle /\ zip.mode = "writing" /\ zip.on = "heap"
    /\ zip.size <= use.cells
    /\ call' = [op |-> "final", step |-> "dir", dofs |-> 0, dsize |-> 0]
    /\ UNCHANGED <<heap, files, zip, inplace, rd, history>>

\* mz_zip_writer_finalize_archive: the directory, when there is a member.
\* The archive has grown by it even when the end record then fails.
FinalizeDir ==
    /\ call.op = "final" /\ call.step = "dir"
    /\ IF zip.total = 0
       THEN At("end") /\ UNCHANGED <<heap, file, zip>>
       ELSE Put(zip.size, zip.dir, FALSE, "final_write",
                /\ call' = [call EXCEPT !.step = "end", !.dofs = zip.size, !.dsize = Len(zip.dir)]
                /\ zip' = [zip EXCEPT !.size = @ + Len(zip.dir)])
    /\ UNCHANGED <<exists, inplace, rd, history>>

FinalizeEnd ==
    /\ call.op = "final" /\ call.step = "end"
    /\ Put(zip.size, <<EndRecord(zip.total, call.dsize, call.dofs)>>, FALSE, "final_write",
           /\ zip' = [zip EXCEPT !.size = @ + 1, !.mode = "finalized"]
           /\ Return(TRUE))
    /\ UNCHANGED <<exists, inplace, rd, history>>

-----------------------------------------------------------------------------
(* The file: Lua saves a string, opens a reader and lets it go.            *)

\* Lua writes the finalized string to the file, behind a stub.
Save(stub) ==
    /\ Idle /\ zip.mode = "finalized" /\ rd.mode = "invalid"
    /\ file' = Fill(Junk, stub) \o heap /\ exists' = TRUE
    /\ truth' = accepted
    /\ UNCHANGED <<heap, zip, call, inplace, rd, seen, accepted>>

lmz_reader_init ==
    /\ exists /\ inplace = NotInPlace /\ call = NoCall /\ rd.mode = "invalid"
    /\ Acceptable(file)
    /\ LET d == ReadCentralDir(file)
       IN /\ rd' = [mode |-> "reading", dofs |-> d.dofs, start |-> d.start,
                    size |-> d.size, dir |-> d.dir, total |-> d.total]
          /\ seen' = Members(file, d)
    /\ UNCHANGED <<heap, files, zip, call, inplace, truth, accepted>>

lmz_reader_gc ==
    /\ call = NoCall /\ rd.mode = "reading"
    /\ rd' = NoReader /\ seen' = <<>>
    /\ UNCHANGED <<heap, files, zip, call, inplace, truth, accepted>>

-----------------------------------------------------------------------------
(* mz_zip_add_mem_to_archive_file_in_place.                                *)

\* Without a file: mz_zip_writer_init_file.
CreateInPlace ==
    /\ zip' = [NoZip EXCEPT !.mode = "writing", !.on = "file"]
    /\ file' = <<>> /\ exists' = TRUE
    /\ truth' = <<>>

\* Mutant: the writer begins one cell before the old directory.
OpenInPlace_Before ==
    /\ Acceptable(file)
    /\ LET d == ReadCentralDir(file)
       IN zip' = [mode |-> "writing", on |-> "file", size |-> Max({0, d.dofs - 1}), total |-> d.total,
                  dir |-> d.dir, room |-> {}]
    /\ UNCHANGED <<files, truth>>

\* With one: mz_zip_reader_init_file, mz_zip_writer_init_from_reader.  The
\* next member goes where the directory is.
OpenInPlace ==
    /\ Acceptable(file)
    /\ LET d == ReadCentralDir(file)
       IN zip' = [mode |-> "writing", on |-> "file", size |-> d.dofs, total |-> d.total,
                  dir |-> d.dir, room |-> {}]
    /\ UNCHANGED <<files, truth>>

mz_zip_add_mem_to_archive_file_in_place(n, c, deflate) ==
    /\ Idle /\ zip.mode = "invalid"
    /\ n.form # "bad" /\ Len(truth) < use.members
    /\ IF exists THEN OpenInPlace ELSE CreateInPlace
    /\ inplace' = [kind |-> IF exists THEN "append" ELSE "create",
                   name |-> n, content |-> c, deflate |-> deflate]
    /\ call' = [op |-> "opened", step |-> "add"]
    /\ UNCHANGED <<heap, rd, seen, accepted>>

AddInPlace ==
    /\ call.op = "opened"
    /\ AddMem(inplace.name, inplace.content, inplace.deflate)
    /\ UNCHANGED <<heap, files, inplace, rd, history>>

\* status && mz_zip_writer_finalize_archive
ThenFinalize ==
    /\ call.op = "return" /\ call.step # "final" /\ call.ok
    /\ call' = [op |-> "final", step |-> "dir", dofs |-> 0, dsize |-> 0]
    /\ UNCHANGED <<heap, files, zip, inplace, rd, history>>

\* status && mz_zip_writer_end
ThenEnd ==
    /\ call.op = "return" /\ call.step = "final" /\ call.ok
    /\ truth' = Append(truth, [name |-> inplace.name, content |-> inplace.content])
    /\ zip' = NoZip /\ call' = NoCall /\ inplace' = NotInPlace
    /\ UNCHANGED <<heap, files, rd, seen, accepted>>

\* A failure: the writer is abandoned, and a new file is deleted.
ThenGiveUp ==
    /\ call.op = "return" /\ ~call.ok
    /\ zip' = NoZip /\ call' = NoCall /\ inplace' = NotInPlace
    /\ file' = IF inplace.kind = "create" THEN <<>> ELSE file
    /\ exists' = (inplace.kind # "create")
    /\ UNCHANGED <<heap, rd, history>>

-----------------------------------------------------------------------------

Writer ==
    \/ lmz_writer_init \/ lmz_writer_gc \/ lmz_writer_finalize
    \/ \E n \in use.names, c \in use.contents, deflate \in BOOLEAN : lmz_writer_add_mem(n, c, deflate)
    \/ \E i \in 1 .. use.members : lmz_writer_add_from_zip_reader(i)

Steps ==
    \/ WriteZeros \/ WriteName \/ WriteData \/ WriteLocalHeader \/ add_to_central_dir
    \/ CopyHeader \/ CopyBody \/ CopyCentralHeader
    \/ FinalizeDir \/ FinalizeEnd

Files ==
    \/ lmz_reader_init \/ lmz_reader_gc
    \/ \E stub \in use.stubs : Save(stub)

InPlace ==
    \/ AddInPlace \/ ThenFinalize \/ ThenEnd \/ ThenGiveUp
    \/ \E n \in use.names, c \in use.appended, deflate \in BOOLEAN :
          mz_zip_add_mem_to_archive_file_in_place(n, c, deflate)

Next == (Writer \/ Steps \/ Files \/ InPlace) /\ UNCHANGED use

Spec == Init /\ [][Next]_vars

-----------------------------------------------------------------------------

\* Whatever failed before, a writer's archive is the list of the members it
\* accepted, whole and in order, which grows one member at a time, and the
\* finalized string holds exactly them for a reader
\* (mz_zip_writer_add_mem_ex, mz_zip_writer_add_from_zip_reader,
\* mz_zip_writer_finalize_archive, mz_zip_reader_read_central_dir).
OnHeap == zip.mode # "invalid" /\ zip.on = "heap"
Written ==
    Members(heap, [dir |-> zip.dir, total |-> zip.total, start |-> 0, size |-> Len(heap)])
Contained ==
    INSTANCE ZipContents WITH
        Names <- UNION {u.names : u \in Uses},
        Contents <- UNION {u.contents \union u.appended : u \in Uses},
        members <- IF OnHeap THEN Written ELSE <<>>,
        final <- IF OnHeap /\ zip.mode = "finalized"
                 THEN <<"some", Holds(heap).members>> ELSE <<"none">>
WriterIsList == Contained!Spec /\ [](OnHeap => Written = accepted)

\* Between calls the file holds the members that the writer of the saved string
\* accepted and those appended since, no more and no less, behind whatever stub
\* (mz_zip_writer_add_mem_ex, mz_zip_writer_add_from_zip_reader, mz_zip_reader_read_central_dir,
\* mz_zip_add_mem_to_archive_file_in_place).
FileHoldsMembers ==
    (Idle /\ exists) => Holds(file) = [ok |-> TRUE, members |-> truth]

\* A reader that stays open over an append extracts what it always did, at
\* every step of the append: the new member and the new directory are written
\* behind every member the reader knows (mz_zip_writer_init_from_reader).
ReaderStays == rd.mode = "reading" => Members(file, rd) = seen
=============================================================================
