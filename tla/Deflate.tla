------------------------------- MODULE Deflate -------------------------------
(***************************************************************************)
(* The compressing half of miniz.c as a stream: mz_deflate over            *)
(* tdefl_compress.  The caller gives input and output space call by call   *)
(* and asks for flushes in any order; between calls bytes may be in the    *)
(* lookahead, in the LZ codes of the open block, or compressed in the      *)
(* output buffer of the compressor, waiting for room.                      *)
(*                                                                         *)
(* Input bytes are numbered from 0, so a sequence of numbers says what a   *)
(* block decodes to.  How well the bytes compress is not modelled: a match *)
(* of any length may be found, the code buffer may be full at any time and *)
(* any block may expand.                                                   *)
(***************************************************************************)
EXTENDS Integers, SequencesExt, FiniteSetsExt

CONSTANTS
    MaxIn,          \* bound: input bytes of a stream
    Chunks,         \* input bytes a call may add
    Rooms,          \* output space a call may offer
    LookMax,        \* TDEFL_MAX_MATCH_LEN
    MinMatch,       \* TDEFL_MIN_MATCH_LEN
    DictSize,       \* TDEFL_LZ_DICT_SIZE
    LzMax,          \* bytes that surely fill the codes of a block
    MaxOut          \* bound: beyond this much output only MZ_FINISH

ASSUME DeflateConstants ==
    /\ {MaxIn, LookMax, MinMatch, DictSize, LzMax, MaxOut} \subseteq Nat \ {0}
    /\ Chunks \subseteq Nat /\ Rooms \subseteq Nat
    /\ MinMatch <= LookMax /\ LookMax < DictSize

VARIABLES
    strm,           \* the caller's mz_stream: avail_in, avail_out and the totals
    d,              \* the tdefl_compressor
    out,            \* the output so far, as cells
    call,           \* the call of mz_deflate under way
    ret             \* what the last call returned, and for which flush

vars == <<strm, d, out, call, ret>>

Flushes == {"none", "sync", "full", "finish"}
NoCall == [pc |-> "idle"]
NoAnswer == [status |-> "none", flush |-> "none"]

-----------------------------------------------------------------------------
(* The cells of the compressed stream.                                     *)

Header == [t |-> "header"]
Opening(final) == [t |-> "head", final |-> final]
Body(data) == [t |-> "body", data |-> data]
Sync == [t |-> "sync"]
Adler(n) == [t |-> "adler", n |-> n]

\* What the blocks in a sequence of cells decode to.
Data(cells) == FlattenSeq([i \in 1 .. Len(cells) |->
                              IF cells[i].t = "body" THEN cells[i].data ELSE <<>>])
Range0(from, n) == [i \in 1 .. n |-> from + i - 1]

-----------------------------------------------------------------------------
(* tdefl_compressor.                                                       *)

\* tdefl_init
tdefl_init(zlib, greedy) ==
    [zlib |-> zlib, greedy |-> greedy, pos |-> 0, look |-> 0, dict |-> 0,
     codes |-> <<>>, lzpos |-> 0, savedLen |-> 0, savedLit |-> 0, pend |-> <<>>,
     blocks |-> 0, wants |-> FALSE, finished |-> FALSE, prev |-> "okay", adler |-> 0]

\* The byte the ring of the dictionary holds for position i: what was written
\* there last.
InDict(x, i) == LET top == x.pos + x.look - 1 IN top - ((top - i) % DictSize)

\* tdefl_record_literal, tdefl_record_match
tdefl_record_literal(x, byte) == [x EXCEPT !.codes = Append(@, byte)]
tdefl_record_match(x, at, len) == [x EXCEPT !.codes = @ \o Range0(at, len)]

\* Mutant: a raw block is sent whether or not the dictionary still has it.
RawAllowed_Any(x) == TRUE

\* The dictionary still holds every byte of the block.
RawAllowed(x) == x.pos - x.lzpos <= x.dict

\* The cells tdefl_flush_block makes of the open block.
BlockCells(x, flush, raw) ==
    (IF x.zlib /\ x.blocks = 0 THEN <<Header>> ELSE <<>>)
    \o <<Opening(flush = "finish"),
         Body(IF raw THEN [i \in 1 .. Len(x.codes) |-> InDict(x, x.lzpos + i - 1)] ELSE x.codes)>>
    \o (CASE flush = "finish" /\ x.zlib -> <<Adler(x.adler)>>
          [] flush \in {"sync", "full"} -> <<Sync>>
          [] OTHER -> <<>>)

\* tdefl_flush_block: what does not fit into the caller's buffer waits in
\* m_output_buf, and whatever waited there is overwritten.
tdefl_flush_block(x, flush, raw, room) ==
    LET cells == BlockCells(x, flush, raw)
        n == Min({Len(cells), room})
    IN [x |-> [x EXCEPT !.codes = <<>>, !.lzpos = @ + Len(x.codes), !.blocks = @ + 1,
                        !.pend = SubSeq(cells, n + 1, Len(cells))],
        cells |-> SubSeq(cells, 1, n)]

\* The lookahead is filled from the input, at the cost of the dictionary.
Fill(x, n) == [x EXCEPT !.look = @ + n, !.dict = Min({DictSize - (x.look + n), @})]

\* The parser moves on by n bytes.
Move(x, n) == [x EXCEPT !.pos = @ + n, !.look = @ - n, !.dict = Min({@ + n, DictSize})]

Save(x, len) == [x EXCEPT !.savedLit = x.pos, !.savedLen = len]

\* The lazy parser of tdefl_compress_normal, given the match found at the
\* lookahead (0 for none) and whether it is long enough not to wait.
Parse(x, m, long) ==
    IF x.savedLen > 0
    THEN IF m > x.savedLen
         THEN LET y == tdefl_record_literal(x, x.savedLit)
              IN IF long THEN Move([tdefl_record_match(y, x.pos, m) EXCEPT !.savedLen = 0], m)
                 ELSE Move(Save(y, m), 1)
         ELSE Move([tdefl_record_match(x, x.savedLit, x.savedLen) EXCEPT !.savedLen = 0],
                   x.savedLen - 1)
    ELSE IF m = 0 THEN Move(tdefl_record_literal(x, x.pos), 1)
    ELSE IF x.greedy \/ long THEN Move(tdefl_record_match(x, x.pos, m), m)
    ELSE Move(Save(x, m), 1)

\* The matches tdefl_find_match may come to; without a match before the
\* lookahead there is none.
Matches(x) == {0} \cup (IF x.dict > 0 THEN MinMatch .. x.look ELSE {})

-----------------------------------------------------------------------------
(* The stream.                                                             *)

Init ==
    /\ strm = [in |-> 0, room |-> 0, totalIn |-> 0, totalOut |-> 0]
    /\ \E zlib, greedy \in BOOLEAN : d = tdefl_init(zlib, greedy)
    /\ out = <<>> /\ call = NoCall
    /\ ret = NoAnswer

Idle == call.pc = "idle"

Returns(status, flush) == call' = NoCall /\ ret' = [status |-> status, flush |-> flush]

\* mz_deflate up to its loop, with what the caller did to the stream before.
mz_deflate(n, room, flush) ==
    /\ Idle /\ strm.totalIn + strm.in + n <= MaxIn
    /\ flush # "finish" => Len(out) <= MaxOut
    /\ strm' = [strm EXCEPT !.in = @ + n, !.room = room]
    /\ \/ room = 0 /\ Returns("BUF_ERROR", flush)
       \/ /\ room > 0 /\ d.prev = "done"
          /\ Returns(IF flush = "finish" THEN "STREAM_END" ELSE "BUF_ERROR", flush)
       \/ /\ room > 0 /\ d.prev # "done"
          /\ call' = [pc |-> "tdefl", flush |-> flush,
                      totalIn |-> strm.totalIn, totalOut |-> strm.totalOut, turn |-> 0]
          /\ ret' = NoAnswer
    /\ UNCHANGED <<d, out>>

\* Cells go to the caller's buffer.
Deliver(s, cells) == [s EXCEPT !.room = @ - Len(cells), !.totalOut = @ + Len(cells)]

tdefl_flush_output_buffer(x, room) ==
    LET n == Min({room, Len(x.pend)})
    IN [x |-> [x EXCEPT !.pend = SubSeq(@, n + 1, Len(@)),
                        !.prev = IF x.finished /\ n = Len(x.pend) THEN "done" ELSE "okay"],
        cells |-> SubSeq(x.pend, 1, n)]

\* tdefl_compress returns: the rest of mz_deflate's loop.
Loop(x, s) ==
    \/ x.prev = "done" /\ Returns("STREAM_END", call.flush)
    \/ x.prev = "okay" /\ s.room = 0 /\ Returns("OK", call.flush)
    \/ /\ x.prev = "okay" /\ s.room > 0 /\ s.in = 0 /\ call.flush # "finish"
       /\ Returns(IF \/ call.flush # "none"
                     \/ s.totalIn # call.totalIn \/ s.totalOut # call.totalOut
                  THEN "OK" ELSE "BUF_ERROR", call.flush)
    \/ /\ x.prev = "okay" /\ s.room > 0 /\ (s.in > 0 \/ call.flush = "finish")
       /\ call' = [call EXCEPT !.pc = "tdefl"] /\ ret' = ret

\* tdefl_compress ends with tdefl_flush_output_buffer.
FlushOutput(x, s, cells) ==
    LET f == tdefl_flush_output_buffer(x, s.room)
        s2 == Deliver(s, f.cells)
    IN /\ d' = f.x /\ strm' = s2
       /\ out' = out \o cells \o f.cells
       /\ Loop(f.x, s2)

\* tdefl_compress refuses: a flush after TDEFL_FINISH, or an earlier refusal.
tdefl_compress_Refuses ==
    /\ call.pc = "tdefl"
    /\ d.prev # "okay" \/ (d.wants /\ call.flush # "finish")
    /\ d' = [d EXCEPT !.prev = "bad"]
    /\ Returns("STREAM_ERROR", call.flush)
    /\ UNCHANGED <<strm, out>>

\* tdefl_compress with output waiting only delivers.
tdefl_compress_Drains ==
    /\ call.pc = "tdefl"
    /\ d.prev = "okay" /\ (d.wants => call.flush = "finish")
    /\ d.pend # <<>> \/ d.finished
    /\ FlushOutput([d EXCEPT !.wants = @ \/ call.flush = "finish"], strm, <<>>)

tdefl_compress ==
    /\ call.pc = "tdefl"
    /\ d.prev = "okay" /\ (d.wants => call.flush = "finish")
    /\ d.pend = <<>> /\ ~d.finished
    /\ d' = [d EXCEPT !.wants = @ \/ call.flush = "finish"]
    /\ call' = [call EXCEPT !.pc = "normal", !.turn = strm.totalIn + strm.totalOut]
    /\ UNCHANGED <<strm, out, ret>>

\* Mutant: a flush leaves the lookahead alone.
More_Input == strm.in > 0

More == strm.in > 0 \/ (call.flush # "none" /\ d.look > 0)

\* One turn of the loop of tdefl_compress_normal.
tdefl_compress_normal ==
    /\ call.pc = "normal" /\ More
    /\ LET n == Min({strm.in, LookMax - d.look})
           x == Fill(d, n)
           s == [strm EXCEPT !.in = @ - n, !.totalIn = @ + n]
       IN \/ /\ call.flush = "none" /\ x.look < LookMax
             /\ d' = x /\ strm' = s /\ call' = [call EXCEPT !.pc = "end"]
             /\ UNCHANGED <<out, ret>>
          \/ /\ call.flush # "none" \/ x.look = LookMax
             /\ \E m \in Matches(x), long \in BOOLEAN, full, raw \in BOOLEAN :
                   LET y == Parse(x, m, long)
                       f == tdefl_flush_block(y, "none", raw, s.room)
                   IN /\ Len(y.codes) >= LzMax => full
                      /\ full => y.codes # <<>>
                      /\ raw => full /\ RawAllowed(y)
                      /\ d' = IF full THEN f.x ELSE y
                      /\ strm' = IF full THEN Deliver(s, f.cells) ELSE s
                      /\ out' = IF full THEN out \o f.cells ELSE out
                      /\ call' = [call EXCEPT !.pc =
                                     IF full /\ f.x.pend # <<>> THEN "end" ELSE "normal"]
             /\ ret' = ret

\* Mutant: the check value is not brought up to date before the last block.
Summed_Late(x) == x

\* m_adler32 is brought up to date with what was read.
Summed(x) == [x EXCEPT !.adler = strm.totalIn]

\* m_finished, and the dictionary a full flush forgets.
Flushed(x, flush) ==
    [x EXCEPT !.finished = flush = "finish", !.dict = IF flush = "full" THEN 0 ELSE @]

\* The end of tdefl_compress: the block the flush asks for, when nothing is
\* left to be compressed and the output buffer is free.
tdefl_compress_End ==
    /\ call.pc = "end" \/ (call.pc = "normal" /\ ~More)
    /\ LET x == Summed(d)
       IN IF call.flush # "none" /\ x.look = 0 /\ strm.in = 0 /\ x.pend = <<>>
          THEN \E raw \in BOOLEAN :
                  LET f == tdefl_flush_block(x, call.flush, raw, strm.room)
                  IN /\ raw => x.codes # <<>> /\ RawAllowed(x)
                     /\ FlushOutput(Flushed(f.x, call.flush), Deliver(strm, f.cells), f.cells)
          ELSE FlushOutput(x, strm, <<>>)

\* mz_deflateReset: the caller starts another stream with the same state.
mz_deflateReset ==
    /\ Idle /\ out # <<>>
    /\ d' = tdefl_init(d.zlib, d.greedy)
    /\ strm' = [in |-> 0, room |-> 0, totalIn |-> 0, totalOut |-> 0]
    /\ out' = <<>> /\ ret' = NoAnswer
    /\ UNCHANGED call

tdefl ==
    \/ tdefl_compress_Refuses \/ tdefl_compress_Drains \/ tdefl_compress
    \/ tdefl_compress_normal \/ tdefl_compress_End

Next ==
    \/ \E n \in Chunks, room \in Rooms, flush \in Flushes : mz_deflate(n, room, flush)
    \/ tdefl
    \/ mz_deflateReset

Spec == Init /\ [][Next]_vars

-----------------------------------------------------------------------------

\* Every byte the stream took is, once and in order, in a block that was
\* delivered or waits, in the codes of the open block, or in the lookahead
\* with the literal the parser holds back (tdefl_flush_block,
\* tdefl_compress_normal, tdefl_flush_output_buffer): nothing is lost when
\* the caller's buffer is full, and a raw block never copies bytes the ring
\* has overwritten.
Held == Range0(IF d.savedLen > 0 THEN d.pos - 1 ELSE d.pos,
               IF d.savedLen > 0 THEN d.look + 1 ELSE d.look)
NothingLost ==
    Data(out) \o Data(d.pend) \o d.codes \o Held = Range0(0, strm.totalIn)

\* A turn of mz_deflate's for (;;) that is followed by another took input or
\* wrote output (tdefl_compress, also when it only drains): the loop ends, also with MZ_FINISH, where
\* neither empty input nor a want of progress leaves it.
LoopMoves ==
    [][(call.pc # "idle" /\ call'.pc = "tdefl") =>
          strm'.totalIn + strm'.totalOut >
              IF call.pc = "tdefl" THEN strm.totalIn + strm.totalOut ELSE call.turn]_vars
=============================================================================
