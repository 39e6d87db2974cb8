----------------------------- MODULE RespParser ------------------------------
(***************************************************************************)
(* The reply parser that CRedis:Start (gameserver/base/redis.lua) gives to *)
(* its CTcpClient, and the loop of CTcpClient:Recv                         *)
(* (gameserver/base/tcp.lua) that calls it.  The bytes of the replies      *)
(* arrive in chunks; what is not complete stays in data.meta and data.left *)
(* for the next chunk.                                                     *)
(*                                                                         *)
(* A reply is a line (status, error or integer), a bulk (a length and that *)
(* many bytes, or nil) or a multi-bulk (a count and that many bulks).      *)
(***************************************************************************)
EXTENDS Integers, SequencesExt, FiniteSetsExt

CONSTANTS
    Replies,        \* the replies a server may send
    MaxReplies      \* bound on the replies of a connection

ASSUME BoundIsNat == MaxReplies \in Nat

VARIABLES
    sent,           \* the replies of the server
    arrived,        \* bytes the client has read
    meta,           \* data.meta
    left,           \* data.left: flag, head and body of an incomplete reply
    paks,           \* the replies passed to CRedis:Recv
    busy,           \* the loop of CTcpClient:Recv is running
    strayed         \* history: the parser was given what it cannot read

vars == <<sent, arrived, meta, left, paks, busy, strayed>>

Nil == "nil"
NaN == -9
NilItem == <<Nil>>
NoPak == [flag |-> Nil, head |-> NaN, body |-> <<>>]
Digits == <<"0", "1", "2", "3", "4">>
CRLF == <<"\r", "\n">>

-----------------------------------------------------------------------------
(* The server's side: the bytes of a reply.                                *)

Number(n) == IF n < 0 THEN <<"-", "1">> ELSE <<Digits[n + 1]>>
Line(flag, text) == <<flag>> \o text \o CRLF
BulkBytes(item) ==
    IF item = NilItem THEN Line("$", Number(-1)) ELSE Line("$", Number(Len(item))) \o item \o CRLF

\* The bytes of the first line of a reply, and of all of it.
FirstLine(r) ==
    CASE r.kind = "status" -> Line("+", r.text)
      [] r.kind = "error" -> Line("-", r.text)
      [] r.kind = "int" -> Line(":", Number(r.n))
      [] r.kind = "bulk" -> Line("$", Number(IF r.item = NilItem THEN -1 ELSE Len(r.item)))
      [] r.kind = "multi" -> Line("*", Number(Len(r.items)))
Bytes(r) ==
    CASE r.kind = "bulk" -> BulkBytes(r.item)
      [] r.kind = "multi" ->
            FirstLine(r) \o FlattenSeq([i \in DOMAIN r.items |-> BulkBytes(r.items[i])])
      [] OTHER -> FirstLine(r)

Stream == FlattenSeq([i \in DOMAIN sent |-> Bytes(sent[i])])

\* The bytes of the replies before the i-th.
Before(i) == Len(FlattenSeq([j \in 1 .. i - 1 |-> Bytes(sent[j])]))

\* MinElement is the length of a bulk of one byte, pak.head * 7 in the code.
MinElement == 7

\* The replies the parser can read: no nil, and a list as long as it expects.
Readable(r) ==
    /\ r.kind = "bulk" => r.item # NilItem
    /\ r.kind = "multi" =>
          /\ \A i \in DOMAIN r.items : r.items[i] # NilItem
          /\ Len(Bytes(r)) >= Len(FirstLine(r)) + MinElement * Len(r.items)

\* The parser can go on after a chunk that ends with byte n of a reply: the
\* first line is complete, and no element of a list has been taken unless all
\* of them were.
Resumable(r, n) ==
    \/ n = Len(Bytes(r))
    \/ /\ n >= Len(FirstLine(r))
       /\ r.kind = "multi" =>
             n < Len(FirstLine(r)) + Max({MinElement * Len(r.items), Len(BulkBytes(r.items[1]))})

\* A chunk up to byte n of the stream.
Strays(n) ==
    \E i \in DOMAIN sent :
        /\ arrived < Before(i + 1) /\ Before(i) < n
        /\ ~Readable(sent[i]) \/ (n < Before(i + 1) /\ ~Resumable(sent[i], n - Before(i)))

-----------------------------------------------------------------------------
(* The parser.  It answers the new data.meta and data.left, the reply       *)
(* (or none), whether to go on, and whether it raised an error.            *)

\* string.find(s, "\r\n", from), or 0
Find(s, from) ==
    LET at == {i \in from .. Len(s) - 1 : s[i] = "\r" /\ s[i + 1] = "\n"}
    IN IF at = {} THEN 0 ELSE Min(at)

\* string.sub
Sub(s, from, to) == SubSeq(s, from, Min({to, Len(s)}))
From(s, from) == SubSeq(s, from, Len(s))

\* tonumber, which skips blanks
ToNumber(text) ==
    LET t == SelectSeq(text, LAMBDA ch : ch # "\r")
    IN IF t = <<"-", "1">> THEN -1
       ELSE IF Len(t) = 1 /\ t[1] \in ToSet(Digits)
       THEN (CHOOSE i \in DOMAIN Digits : Digits[i] = t[1]) - 1
       ELSE NaN

Pak(ret, text, n, items) == [ret |-> ret, text |-> text, n |-> n, items |-> items]
Text(t) == Pak(TRUE, t, 0, <<>>)
Fault(t) == Pak(FALSE, t, 0, <<>>)
Integer(n) == Pak(TRUE, <<>>, n, <<>>)
List(items) == Pak(TRUE, <<>>, 0, items)

Waits(m, p) == [meta |-> m, left |-> p, pak |-> <<>>, more |-> FALSE]
Delivers(m, data) == [meta |-> m, left |-> NoPak, pak |-> <<data>>, more |-> TRUE]
Raises(p) == Waits(meta, p)

\* A bulk whose head was read and whose body begins at cur.
BulkParsed(p, cur) ==
    IF cur + p.head + 2 > Len(meta) + 1 THEN Waits(From(meta, cur), p)
    ELSE Delivers(From(meta, cur + p.head + 2), Text(Sub(meta, cur, cur + p.head)))

\* Mutant: the element takes a byte of its line end.
Element_Long(a) ==
    LET e == Find(meta, a.cur)
        size == ToNumber(Sub(meta, a.cur + 1, e))
    IN IF ~a.full \/ a.raised THEN a
       ELSE IF e = 0 THEN [a EXCEPT !.full = FALSE]
       ELSE IF size = NaN THEN [a EXCEPT !.raised = TRUE]
       ELSE IF e + 2 + size + 2 > Len(meta) + 1 THEN [a EXCEPT !.full = FALSE]
       ELSE [a EXCEPT !.body = Append(@, Sub(meta, e + 2, e + 2 + size)),
                      !.cur = e + 2 + size + 2]

\* One element of a multi-bulk; full turns FALSE where the loop breaks.
Element(a) ==
    LET e == Find(meta, a.cur)
        size == ToNumber(Sub(meta, a.cur + 1, e))
    IN IF ~a.full \/ a.raised THEN a
       ELSE IF e = 0 THEN [a EXCEPT !.full = FALSE]
       ELSE IF size = NaN THEN [a EXCEPT !.raised = TRUE]
       ELSE IF e + 2 + size + 2 > Len(meta) + 1 THEN [a EXCEPT !.full = FALSE]
       ELSE [a EXCEPT !.body = Append(@, Sub(meta, e + 2, e + 2 + size - 1)),
                      !.cur = e + 2 + size + 2]

\* A multi-bulk whose count was read: the loop runs over the whole count.
MultiParsed(p, cur) ==
    IF cur + p.head * 7 > Len(meta) + 1 THEN Waits(From(meta, cur), p)
    ELSE LET a == FoldLeft(LAMBDA x, i : Element(x),
                           [full |-> TRUE, raised |-> FALSE, body |-> p.body, cur |-> cur],
                           [i \in 1 .. p.head |-> i])
         IN IF a.raised THEN Raises([p EXCEPT !.body = a.body])
            ELSE IF ~a.full THEN Waits(From(meta, a.cur), [p EXCEPT !.body = a.body])
            ELSE Delivers(From(meta, a.cur), List(a.body))

\* The parser from the flag on.
PackageParser ==
    LET p == IF left.flag = Nil THEN [left EXCEPT !.flag = meta[1]] ELSE left
        start == IF left.flag = Nil THEN 2 ELSE 1
        e == Find(meta, start)
        text == Sub(meta, start, e - 1)
        cur == IF p.head = NaN THEN e + 2 ELSE start
        n == IF p.head = NaN THEN ToNumber(text) ELSE p.head
        q == [p EXCEPT !.head = n]
    IN CASE meta = <<>> -> Waits(meta, left)
         [] meta # <<>> /\ p.head = NaN /\ e = 0 -> Waits(meta, p)
         [] OTHER ->
            CASE p.flag = "+" -> Delivers(From(meta, cur), Text(text))
              [] p.flag = "-" -> Delivers(From(meta, cur), Fault(text))
              [] p.flag = ":" -> Delivers(From(meta, cur), Integer(n))
              [] p.flag \in {"$", "*"} /\ n = NaN -> Raises(q)
              [] p.flag = "$" /\ n # NaN -> BulkParsed(q, cur)
              [] p.flag = "*" /\ n # NaN -> MultiParsed(q, cur)
              [] OTHER -> Waits(meta, q)

-----------------------------------------------------------------------------

Init ==
    /\ sent = <<>> /\ arrived = 0
    /\ meta = <<>> /\ left = NoPak /\ paks = <<>> /\ busy = FALSE
    /\ strayed = FALSE

\* The redis server sends a reply.
Reply(r) ==
    /\ ~busy /\ Len(sent) < MaxReplies
    /\ sent' = Append(sent, r)
    /\ UNCHANGED <<arrived, meta, left, paks, busy, strayed>>

\* A chunk is read: CTcpClient:Recv appends it and begins to parse.
Recv(n) ==
    /\ ~busy
    /\ strayed' = (strayed \/ Strays(n))
    /\ meta' = meta \o SubSeq(Stream, arrived + 1, n)
    /\ arrived' = n /\ busy' = TRUE
    /\ UNCHANGED <<sent, left, paks>>

\* One turn of its loop.
Parse ==
    /\ busy
    /\ LET a == PackageParser
       IN /\ meta' = a.meta /\ left' = a.left /\ busy' = a.more
          /\ paks' = paks \o a.pak
    /\ UNCHANGED <<sent, arrived, strayed>>

Next ==
    \/ \E r \in Replies : Reply(r)
    \/ \E n \in arrived + 1 .. Len(Stream) : Recv(n)
    \/ Parse

Spec == Init /\ [][Next]_vars

-----------------------------------------------------------------------------

\* The replies that have arrived in full.
Complete == Cardinality({i \in DOMAIN sent : Before(i + 1) <= arrived})

\* What was delivered is the reply.  A bulk on its own is followed by bytes
\* that are not its data (redis.lua:115, against the format of redis.lua:110).
Carries(pak, r) ==
    CASE r.kind = "status" -> pak = Text(r.text)
      [] r.kind = "error" -> pak = Fault(r.text)
      [] r.kind = "int" -> pak = Integer(r.n)
      [] r.kind = "bulk" -> pak.ret /\ IsPrefix(r.item, pak.text)
      [] r.kind = "multi" -> pak = List(r.items)

\* The parser keeps in step with the server as long as it is given what it can
\* read: it delivers the replies that have arrived in full, all of them and no
\* more, each with its data, wherever chunks end between replies, after a
\* first line, in a bulk or before a list has enough for its first element (the
\* parser of CRedis:Start, CTcpClient:Recv).  It loses step, and the property
\* says nothing any more, when a chunk ends within a first line or after some
\* of a list's elements were taken (Resumable), and with nil replies and
\* lists with empty elements (Readable).
InStep ==
    ~strayed =>
        /\ ~busy => Len(paks) = Complete
        /\ \A i \in DOMAIN paks : Carries(paks[i], sent[i])
=============================================================================
