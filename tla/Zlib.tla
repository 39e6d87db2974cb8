-------------------------------- MODULE Zlib --------------------------------
(***************************************************************************)
(* Both halves of miniz.c: streams of any origin are decompressed          *)
(* (Inflate.tla), and input is compressed (Deflate.tla) by a caller who    *)
(* then gives the output to tinfl_decompress_mem_to_heap, as a Lua program *)
(* does with miniz.inflate of lminiz.c.                                    *)
(***************************************************************************)
EXTENDS Deflate

CONSTANTS
    Streams, HeapStart, ReadSize, Ahead, MaxJunk,
    Pieces, Spaces, Asks    \* what a caller of mz_inflate adds, offers and asks for

ASSUME InflateConstants ==
    /\ {HeapStart, ReadSize, Ahead} \subseteq Nat \ {0}
    /\ Pieces \subseteq Nat /\ Spaces \subseteq Nat /\ MaxJunk \in Nat

VARIABLES z, istrm, r, dict, win, st, icall, iout, iret

\* The rings of both halves have the same size (TDEFL_LZ_DICT_SIZE,
\* TINFL_LZ_DICT_SIZE).
I == INSTANCE Inflate WITH
        strm <- istrm, call <- icall, out <- iout, ret <- iret,
        Chunks <- Pieces, Rooms <- Spaces, Flushes <- Asks

ivars == <<z, istrm, r, dict, win, st, icall, iout, iret>>

NoStream == [zlib |-> FALSE, cells |-> <<>>, content |-> <<>>, have |-> 0, driver |-> "none"]

\* No compressor: its output went to the other half, or came from elsewhere.
NoDeflate(where) ==
    [strm |-> [in |-> 0, room |-> 0, totalIn |-> 0, totalOut |-> 0],
     d |-> tdefl_init(FALSE, FALSE), out |-> <<>>, call |-> [pc |-> where], ret |-> NoAnswer]

-----------------------------------------------------------------------------
(* The output of Deflate as the input of Inflate.                          *)

\* Byte number i of the input is i + 1 for Inflate, where 0 is junk.
Shown(data) == [i \in 1 .. Len(data) |-> data[i] + 1]

\* A block is stored or made of literals; matches decode to the same bytes.
BlockOf(data, final, kind) ==
    [i \in 1 .. Len(data) |-> [t |-> kind, b |-> data[i] + 1]]
        \o (IF final THEN <<[t |-> "end"]>> ELSE <<>>)

Stream(cells, kind) ==
    FlattenSeq([i \in 1 .. Len(cells) |->
        CASE cells[i].t = "header" -> <<[t |-> "head"]>>
          [] cells[i].t = "body" -> BlockOf(cells[i].data, cells[i - 1].final, kind)
          [] cells[i].t = "adler" ->
                <<[t |-> "check", sum |-> Shown(Range0(0, cells[i].n))]>>
          [] OTHER -> <<[t |-> "block"]>>])

\* The caller has MZ_STREAM_END and decompresses what it got.  miniz.inflate
\* raises no error: where tinfl_decompress_mem_to_heap answers NULL (iret is
\* "failed"), Lua receives the empty string, which is iout.
HandOver ==
    /\ Idle /\ ret.status = "STREAM_END"
    /\ \E kind \in {"lit", "raw"} :
          LET cells == Stream(out, kind)
          IN z' = [zlib |-> d.zlib, cells |-> cells, have |-> Len(cells), driver |-> "heap",
                   content |-> Shown(Range0(0, strm.totalIn))]
    /\ LET none == NoDeflate("sent")
       IN strm' = none.strm /\ d' = none.d /\ out' = none.out /\ call' = none.call
          /\ ret' = none.ret
    /\ UNCHANGED <<istrm, r, dict, win, st, icall, iout, iret>>

-----------------------------------------------------------------------------

Begins ==
    /\ I!Blank
    /\ z = NoStream
    /\ Init

Given ==
    /\ I!Init
    /\ LET none == NoDeflate("elsewhere")
       IN strm = none.strm /\ d = none.d /\ out = none.out /\ call = none.call /\ ret = none.ret

ZlibInit == Begins \/ Given

ZlibNext ==
    \/ Next /\ UNCHANGED ivars
    \/ I!Next /\ UNCHANGED vars
    \/ HandOver

ZlibSpec == ZlibInit /\ [][ZlibNext]_<<vars, ivars>>

-----------------------------------------------------------------------------

\* What a caller of mz_inflate or tinfl_decompress_mem_to_heap has received is
\* a beginning of the stream's content, byte for byte, wherever the input was
\* cut and however often the ring came round.
ReceivesContent == I!ReceivesContent

\* Success of any of the loops means that all of the content was delivered:
\* with a check value or a CRC also when the end of the input was missing and
\* padded with zeros, without one (a raw stream) as long as it was not, and for
\* a member of an archive unless its compressed size is 0.
EndIsWhole == I!EndIsWhole

\* Nobody goes round for nothing: a turn of mz_deflate's for (;;) that is
\* followed by another has moved input or output, and mz_inflate answers MZ_OK,
\* which invites another call, only when it moved some or left output for want
\* of room.
Progress == LoopMoves /\ I!OkMoves

\* What was compressed is decompressed to the input: whatever the pieces of
\* input and output space, the flushes in between and the blocks that were
\* split, stored or put off, tinfl_decompress never fails on the output of
\* mz_deflate, never runs into its end, and gives back every byte.
RoundTrip ==
    call.pc = "sent" =>
        /\ r.state # "failed" /\ ~r.junk
        /\ iret = "done" => iout = z.content
=============================================================================
