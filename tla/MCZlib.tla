------------------------------- MODULE MCZlib -------------------------------
(***************************************************************************)
(* Instances of Zlib.  Deflate has a lookahead of three bytes, matches of  *)
(* two, and a ring of four, small enough for blocks to outgrow it; Inflate *)
(* reads streams of literals, stored bytes and copies with and without the *)
(* zlib wrapping.                                                          *)
(***************************************************************************)
EXTENDS Zlib, SymbolStream

Lit(b) == [t |-> "lit", b |-> b]
Raw(b) == [t |-> "raw", b |-> b]
Copy(dist, len) == [t |-> "copy", dist |-> dist, len |-> len]
End == [t |-> "end"]
Wrapper == [t |-> "head"]

\* Copies reach back at most to the first byte.
Valid(cells) ==
    \A i \in DOMAIN cells :
        cells[i].t = "copy" => cells[i].dist <= Len(Expected(SubSeq(cells, 1, i - 1)))

\* A stream of the cells, whose check value and size are those of the content.
\* A short raw stream may be missing altogether.
Framed(cells, content, zlib) ==
    [zlib |-> zlib, content |-> content, cuts |-> IF zlib THEN 0 .. 3 ELSE 0 .. 4, drivers |-> {"heap", "callback", "extract"},
     cells |-> IF zlib THEN <<Wrapper>> \o cells \o <<End, [t |-> "check", sum |-> content]>>
               ELSE Append(cells, End)]

\* A copy that overlaps itself, one as far as the ring is long, and copies
\* next to stored bytes.
Bodies == {<<Lit(1), Lit(2), Copy(2, 3), Copy(3, 3)>>, <<Lit(1), Raw(2), Copy(1, 3), Raw(1)>>,
           <<Lit(1), Lit(2), Raw(1), Copy(3, 3)>>, <<Lit(1), Copy(1, 3), Copy(4, 3), Lit(2)>>}

\* Every body of three symbols.
Alphabet == {Lit(1), Lit(2), Raw(2)} \cup {Copy(back, n) : back \in 1 .. 4, n \in {3, 4}}
AllBodies == {b \in [1 .. 3 -> Alphabet] : Valid(b)}

\* The first literal or the distance of a copy changed on the way.
Damaged(b) ==
    {[b EXCEPT ![1] = Lit(2)]} \cup
    {[b EXCEPT ![i].dist = 4] : i \in {j \in DOMAIN b : b[j].t = "copy"}}

Sound(bodies) == {Framed(b, Expected(b), zlib) : b \in bodies, zlib \in BOOLEAN}
Broken(bodies) ==
    UNION {{Framed(bad, Expected(b), zlib) : bad \in Damaged(b), zlib \in BOOLEAN} : b \in bodies}

\* mz_inflate in pieces reads a few streams, the other loops read all of them.
Piecewise == {[s EXCEPT !.drivers = {"inflate"}, !.cuts = {0, 2}] :
                  s \in Sound(Bodies) \cup Broken({b \in Bodies : b[4].t # "raw"})}
MCStreams == Piecewise \cup Sound(AllBodies) \cup Broken(AllBodies)
=============================================================================
