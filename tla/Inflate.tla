------------------------------- MODULE Inflate -------------------------------
(***************************************************************************)
(* The decompressing half of miniz.c: the coroutine tinfl_decompress and   *)
(* the loops that drive it.  mz_inflate runs it over a ring that is also   *)
(* the LZ dictionary and hands the bytes out as the caller offers room;    *)
(* tinfl_decompress_mem_to_heap (behind miniz.inflate of lminiz.c) grows a *)
(* block; tinfl_decompress_mem_to_callback and                             *)
(* mz_zip_reader_extract_to_callback give a callback every piece.          *)
(*                                                                         *)
(* The input is a sequence of cells: the header, symbols of Huffman blocks *)
(* (literals, copies, the end), bytes of stored blocks, the check value.   *)
(* Other cells (the beginning of a block, an empty block) decode to        *)
(* nothing.  The check values (Adler-32, CRC-32) are taken to tell any two *)
(* contents apart.                                                         *)
(***************************************************************************)
EXTENDS Integers, SequencesExt, FiniteSetsExt, SymbolStream

CONSTANTS
    Streams,        \* compressed streams, possibly damaged: [zlib, cells, content],
                    \* with how many cells may be missing at the end (cuts) and
                    \* which of the four loops read it (drivers)
    DictSize,       \* TINFL_LZ_DICT_SIZE
    HeapStart,      \* the first capacity of a heap block
    ReadSize,       \* MZ_ZIP_MAX_IO_BUF_SIZE
    Ahead,          \* cells the bit buffer takes at once when it can
    Chunks, Rooms,  \* what a caller of mz_inflate may add and offer
    Flushes,        \* how it may ask
    MaxJunk         \* bound: bytes decoded from padding beyond the content

VARIABLES
    z,              \* the stream, how much of it there is, and the driver
    strm,           \* the input in hand, the output space and the input read
    r,              \* the tinfl_decompressor
    dict,           \* m_dict, the ring
    win,            \* m_dict_ofs and m_dict_avail
    st,             \* the rest of inflate_state
    call,           \* the call of tinfl_decompress under way
    out,            \* the bytes given to the caller
    ret             \* the answer of the driver

vars == <<z, strm, r, dict, win, st, call, out, ret>>

None == [t |-> "none"]
NoCall == [pc |-> "idle"]

-----------------------------------------------------------------------------
(* tinfl_decompress.                                                       *)

\* tinfl_init
tinfl_init == [bits |-> <<>>, held |-> None, from |-> 0, state |-> "run", sum |-> <<>>,
               junk |-> FALSE]

\* The output buffer is the ring, or large enough for everything
\* (TINFL_FLAG_USING_NON_WRAPPING_OUTPUT_BUF).
Room ==
    CASE z.driver = "heap" -> win.avail - Len(out) - call.made
      [] call.direct -> strm.room - call.made
      [] OTHER -> DictSize - win.ofs - call.made
NonWrapping == z.driver = "heap" \/ call.direct

Running == call.pc = "tinfl" /\ r.state = "run" /\ r.held = None
NextIs(kinds) == strm.read < Len(z.cells) /\ z.cells[strm.read + 1].t \in kinds
Symbols == {"lit", "copy", "end"}

\* A read of the input: several cells while symbols are decoded with enough
\* input and output left, two when a symbol is needed (TINFL_HUFF_DECODE), or
\* one.  A stored byte is not read without room.
ReadInput ==
    /\ Running /\ r.bits = <<>> /\ strm.in > 0
    /\ NextIs({"raw"}) => Room > 0
    /\ LET n == IF ~NextIs(Symbols) THEN 1
                ELSE IF strm.in >= Ahead /\ Room >= 2 THEN Ahead ELSE Min({2, strm.in})
       IN /\ r' = [r EXCEPT !.bits = SubSeq(z.cells, strm.read + 1, strm.read + n)]
          /\ strm' = [strm EXCEPT !.in = @ - n, !.read = @ + n]
    /\ UNCHANGED <<z, dict, win, st, call, out, ret>>

\* A copy begins at the place the output has come to.
Begin(c) ==
    IF NonWrapping /\ c.dist > Len(r.sum) THEN [r EXCEPT !.state = "failed"]
    ELSE [r EXCEPT !.held = c,
                   !.from = IF NonWrapping THEN Len(r.sum) ELSE win.ofs + call.made]

\* The Adler-32 at the end of a zlib stream.
Checked(c) == [r EXCEPT !.state = IF c.sum = r.sum THEN "done" ELSE "failed"]

\* One cell is decoded.
Decode ==
    /\ Running /\ r.bits # <<>>
    /\ LET c == r.bits[1]
           x == CASE c.t \in {"lit", "raw"} -> [r EXCEPT !.held = c]
                  [] c.t = "copy" -> Begin(c)
                  [] c.t = "end" /\ ~z.zlib -> [r EXCEPT !.state = "done"]
                  [] c.t = "check" -> Checked(c)
                  [] OTHER -> r
       IN r' = [x EXCEPT !.bits = Tail(r.bits)]
    /\ UNCHANGED <<z, strm, dict, win, st, call, out, ret>>

\* TINFL_GET_BYTE past the end of the input: zeros, which decode to anything;
\* only a stored block fails at once.
PadZeros ==
    /\ Running /\ r.bits = <<>> /\ strm.in = 0 /\ ~call.more
    /\ NextIs({"raw"}) => Room > 0
    /\ \/ r' = [r EXCEPT !.state = "failed"]
       \/ /\ NextIs(Symbols) /\ Len(r.sum) < Len(z.content) + MaxJunk
          /\ r' = [r EXCEPT !.held = [t |-> "lit", b |-> Junk], !.junk = TRUE]
       \/ /\ NextIs(Symbols) /\ ~z.zlib
          /\ r' = [r EXCEPT !.state = "done", !.junk = TRUE]
    /\ UNCHANGED <<z, strm, dict, win, st, call, out, ret>>

\* Mutant: the source of a suspended copy starts over at the cursor.
Source_Cursor ==
    IF NonWrapping THEN r.sum[Len(r.sum) + 1 - r.held.dist]
    ELSE dict[(win.ofs + call.made + DictSize - r.held.dist - 1) % DictSize]

\* The byte a copy repeats next: dist_from_out_buf_start goes on over calls.
Source ==
    IF NonWrapping THEN r.sum[Len(r.sum) + 1 - r.held.dist]
    ELSE dict[(r.from - r.held.dist) % DictSize]

PutByte ==
    /\ call.pc = "tinfl" /\ r.state = "run" /\ r.held # None /\ Room > 0
    /\ LET b == IF r.held.t = "copy" THEN Source ELSE r.held.b
           rest == IF r.held.t = "copy" /\ r.held.len > 1
                   THEN [r.held EXCEPT !.len = @ - 1] ELSE None
       IN /\ r' = [r EXCEPT !.held = rest, !.from = @ + 1, !.sum = Append(@, b)]
          /\ dict' = IF NonWrapping THEN dict
                     ELSE [dict EXCEPT ![win.ofs + call.made] = b]
    /\ call' = [call EXCEPT !.made = @ + 1]
    /\ UNCHANGED <<z, strm, win, st, out, ret>>

\* What tinfl_decompress returns with, when it cannot go on.
Status ==
    CASE r.state # "run" -> r.state
      [] /\ r.state = "run" /\ Room = 0
         /\ r.held # None \/ (r.bits = <<>> /\ NextIs({"raw"})) -> "has_more_output"
      [] /\ r.state = "run" /\ r.held = None /\ r.bits = <<>> /\ strm.in = 0 /\ call.more
         /\ NextIs({"raw"}) => Room > 0 -> "needs_more_input"
      [] OTHER -> "running"

Returned == call.pc = "tinfl" /\ Status # "running"

\* The bytes this call of tinfl_decompress made.
Made == SubSeq(r.sum, Len(r.sum) - call.made + 1, Len(r.sum))
Ring(ofs, n) == [i \in 1 .. n |-> dict[(ofs + i - 1) % DictSize]]

Again(more) == call' = [call EXCEPT !.made = 0, !.more = more]
Answer(a) == call' = NoCall /\ ret' = a

-----------------------------------------------------------------------------
(* mz_inflate.                                                             *)

\* Nothing has been read or written.
Blank ==
    /\ strm = [in |-> 0, room |-> 0, read |-> 0]
    /\ r = tinfl_init /\ dict = [i \in 0 .. DictSize - 1 |-> Junk]
    /\ win = [ofs |-> 0, avail |-> 0]
    /\ st = [last |-> "needs_more_input", first |-> TRUE, flushed |-> FALSE]
    /\ call = NoCall /\ out = <<>> /\ ret = "none"

Init ==
    /\ \E s \in Streams : \E cut \in s.cuts, driver \in s.drivers :
          /\ driver = "extract" => ~s.zlib
          /\ z = [zlib |-> s.zlib, cells |-> s.cells, content |-> s.content,
                  have |-> Len(s.cells) - cut, driver |-> driver]
    /\ Blank

Advanced(ofs, n) == (ofs + n) % DictSize

\* Mutant: MZ_STREAM_END while the ring still holds bytes of the caller.
EndOf_Early(status, left) == IF status = "done" THEN "STREAM_END" ELSE "OK"

\* MZ_STREAM_END comes with the last byte.
EndOf(status, left) == IF status = "done" /\ left = 0 THEN "STREAM_END" ELSE "OK"

\* mz_inflate up to its loop, with what the caller did to the stream before.
mz_inflate(n, room, flush) ==
    LET s == [strm EXCEPT !.in = @ + n, !.room = room]
        drains == Min({win.avail, room})
    IN /\ z.driver = "inflate" /\ call = NoCall /\ ret # "STREAM_END"
       /\ strm.read + strm.in + n <= z.have
       /\ st' = [st EXCEPT !.first = FALSE,
                           !.flushed = @ \/ (flush = "finish" /\ st.last # "failed")]
       /\ \/ /\ st.last = "failed" /\ Answer("DATA_ERROR")
             /\ strm' = s /\ UNCHANGED <<win, out>>
          \/ /\ st.last # "failed" /\ st.flushed /\ flush # "finish" /\ Answer("STREAM_ERROR")
             /\ strm' = s /\ UNCHANGED <<win, out>>
          \/ /\ st.last # "failed" /\ (st.flushed => flush = "finish")
             /\ IF win.avail > 0
                THEN /\ out' = out \o Ring(win.ofs, drains)
                     /\ win' = [ofs |-> Advanced(win.ofs, drains),
                                avail |-> win.avail - drains]
                     /\ strm' = [s EXCEPT !.room = @ - drains]
                     /\ Answer(EndOf(st.last, win.avail - drains))
                ELSE /\ call' = [pc |-> "tinfl", flush |-> flush, made |-> 0,
                                 more |-> flush # "finish", in0 |-> s.in, out0 |-> Len(out),
                                 direct |-> flush = "finish" /\ st.first]
                     /\ strm' = s /\ ret' = "none" /\ UNCHANGED <<win, out>>
    /\ UNCHANGED <<z, r, dict>>

\* The single call: everything must fit.
DirectReturns ==
    /\ Returned /\ z.driver = "inflate" /\ call.direct
    /\ out' = out \o Made
    /\ strm' = [strm EXCEPT !.room = @ - call.made]
    /\ st' = [st EXCEPT !.last = IF Status = "done" THEN "done" ELSE "failed"]
    /\ Answer(CASE Status = "failed" -> "DATA_ERROR"
                [] Status = "done" -> "STREAM_END"
                [] OTHER -> "BUF_ERROR")
    /\ UNCHANGED <<z, r, dict, win>>

\* Without MZ_FINISH the loop ends for want of anything.
LoopEnds(status, s, left) == status = "done" \/ s.in = 0 \/ s.room = 0 \/ left > 0

\* Signal caller that we can't make forward progress without input.
Starved == Status = "needs_more_input" /\ call.in0 = 0

\* One turn of the loop of mz_inflate.
RingReturns ==
    /\ Returned /\ z.driver = "inflate" /\ ~call.direct
    /\ LET n == Min({call.made, strm.room})
           left == call.made - n
           s == [strm EXCEPT !.room = @ - n]
       IN /\ out' = out \o Ring(win.ofs, n)
          /\ win' = [ofs |-> Advanced(win.ofs, n), avail |-> left]
          /\ strm' = s /\ st' = [st EXCEPT !.last = Status]
          /\ CASE Status = "failed" -> Answer("DATA_ERROR")
               [] Starved -> Answer("BUF_ERROR")
               [] Status = "done" /\ call.flush = "finish" ->
                     Answer(IF left > 0 THEN "BUF_ERROR" ELSE "STREAM_END")
               [] Status = "has_more_output" /\ call.flush = "finish" ->
                     IF s.room = 0 THEN Answer("BUF_ERROR") ELSE Again(FALSE) /\ ret' = ret
               [] OTHER -> IF LoopEnds(Status, s, left) THEN Answer(EndOf(Status, left))
                           ELSE Again(TRUE) /\ ret' = ret
    /\ UNCHANGED <<z, r, dict>>

-----------------------------------------------------------------------------
(* The other drivers: one call that runs to its end.                       *)

Fresh(driver) == z.driver = driver /\ call = NoCall /\ ret = "none"
Starts(more) ==
    call' = [pc |-> "tinfl", flush |-> "finish", made |-> 0, more |-> more, in0 |-> 0, out0 |-> 0,
             direct |-> FALSE]

\* tinfl_decompress_mem_to_heap and tinfl_decompress_mem_to_callback have all
\* of the input in memory.
tinfl_decompress_mem_to ==
    /\ Fresh("heap") \/ Fresh("callback")
    /\ strm' = [strm EXCEPT !.in = z.have] /\ Starts(FALSE)
    /\ UNCHANGED <<z, r, dict, win, st, out, ret>>

\* The block is doubled when it is full; win.avail is its capacity.  Where
\* nothing came out there is no block, and the answer is NULL like a failure's.
HeapReturns ==
    /\ Returned /\ z.driver = "heap"
    /\ \/ /\ Status \in {"failed", "needs_more_input"}
          /\ out' = <<>> /\ Answer("failed") /\ win' = win
       \/ /\ Status = "done"
          /\ out' = out \o Made /\ win' = win
          /\ Answer(IF win.avail = 0 THEN "failed" ELSE "done")
       \/ /\ Status = "has_more_output"
          /\ \/ /\ out' = out \o Made /\ Again(FALSE) /\ ret' = ret
                /\ win' = [win EXCEPT !.avail = Max({2 * @, HeapStart})]
             \/ out' = <<>> /\ Answer("failed") /\ win' = win
    /\ UNCHANGED <<z, strm, r, dict, st>>

\* Every piece goes to the callback, which may refuse it.
CallbackReturns ==
    /\ Returned /\ z.driver = "callback"
    /\ \/ /\ call.made > 0 /\ Answer("failed")
          /\ out' = out \o Ring(win.ofs, call.made) /\ win' = win
       \/ /\ out' = out \o Ring(win.ofs, call.made)
          /\ \/ /\ Status # "has_more_output"
                /\ Answer(IF Status = "done" THEN "done" ELSE "failed") /\ win' = win
             \/ /\ Status = "has_more_output"
                /\ win' = [win EXCEPT !.ofs = Advanced(@, call.made)]
                /\ Again(FALSE) /\ ret' = ret
    /\ UNCHANGED <<z, strm, r, dict, st>>

\* The read buffer is filled when it is empty; there is more input while the
\* file has some.
Refill(s) ==
    LET n == IF s.in = 0 THEN Min({ReadSize, z.have - s.read}) ELSE 0
    IN [s |-> [s EXCEPT !.in = @ + n], more |-> z.have > s.read + s.in + n]

\* mz_zip_reader_extract_to_callback on a deflated member: one of compressed
\* size 0 is a success with nothing delivered and nothing checked; the ring
\* cannot be allocated or the first read fails; or it begins.
mz_zip_reader_extract_to_callback ==
    /\ Fresh("extract")
    /\ \/ z.have = 0 /\ Answer("done") /\ strm' = strm
       \/ z.have > 0 /\ LET f == Refill(strm) IN strm' = f.s /\ Starts(f.more) /\ ret' = ret
       \/ z.have > 0 /\ Answer("failed") /\ strm' = strm
    /\ UNCHANGED <<z, r, dict, win, st, out>>

\* The size and the CRC of the directory are checked at the end.
Verified(bytes) == bytes = z.content

ExtractReturns ==
    /\ Returned /\ z.driver = "extract"
    /\ out' = out \o Ring(win.ofs, call.made)
    /\ win' = [win EXCEPT !.ofs = Advanced(@, call.made)]
    /\ \/ /\ call.made > 0 /\ Answer("failed") /\ strm' = strm
       \/ /\ Len(out') > Len(z.content) /\ Answer("failed") /\ strm' = strm
       \/ /\ Len(out') <= Len(z.content)
          /\ Status \in {"needs_more_input", "has_more_output"}
          /\ \/ LET f == Refill(strm) IN strm' = f.s /\ Again(f.more) /\ ret' = ret
             \/ strm.in = 0 /\ Answer("failed") /\ strm' = strm
       \/ /\ Len(out') <= Len(z.content)
          /\ Status \in {"done", "failed"} /\ strm' = strm
          /\ Answer(IF Status = "done" /\ Verified(out') THEN "done" ELSE "failed")
    /\ UNCHANGED <<z, r, dict, st>>

-----------------------------------------------------------------------------

tinfl == ReadInput \/ Decode \/ PadZeros \/ PutByte
Drives ==
    \/ DirectReturns \/ RingReturns \/ HeapReturns \/ CallbackReturns \/ ExtractReturns
    \/ tinfl_decompress_mem_to \/ mz_zip_reader_extract_to_callback

Next ==
    \/ \E n \in Chunks, room \in Rooms, flush \in Flushes : mz_inflate(n, room, flush)
    \/ tinfl \/ Drives

Spec == Init /\ [][Next]_vars

-----------------------------------------------------------------------------

\* Whatever the caller's pieces of input and output, what it has received is
\* the beginning of the content: the ring never overwrites a byte before it
\* was handed out or while a copy may still refer to it, also when a copy is
\* suspended at the end of the ring (mz_inflate, tinfl_decompress,
\* tinfl_decompress_mem_to_heap, tinfl_decompress_mem_to_callback,
\* mz_zip_reader_extract_to_callback).
ReceivesContent == ~r.junk => IsPrefix(out, Expected(z.cells))

\* Success means that what was compressed was delivered, and nothing else, for
\* a zlib stream and for a member of an archive also when the stream was
\* damaged or cut short and zeros were decoded in its place.  A raw stream has
\* no check value, and raw is the default of miniz.inflate (lminiz.c:234): its
\* success means that the symbols of the stream were delivered, and nothing at
\* all once zeros were decoded (~r.junk).  And a member of compressed size 0
\* is a success without any check (miniz.c:2801), whatever its directory entry
\* says (mz_inflate, tinfl_decompress, mz_zip_reader_extract_to_callback).
EndIsWhole ==
    ret \in {"STREAM_END", "done"} =>
        IF z.driver = "extract" THEN z.have > 0 => out = z.content
        ELSE /\ z.zlib => out = z.content
             /\ ~r.junk => out = Expected(z.cells)

\* A call that is answered MZ_OK took input, wrote output or left output for
\* want of room (mz_inflate): a caller that offers room and goes on while the
\* answer is MZ_OK comes to an end.
OkMoves ==
    [][(call.pc = "tinfl" /\ ret' = "OK") =>
          strm'.in < call.in0 \/ Len(out') > call.out0 \/ win'.avail > 0]_vars
=============================================================================
