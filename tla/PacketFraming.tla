---------------------------- MODULE PacketFraming ----------------------------
(***************************************************************************)
(* One connection of CTcpServer from the socket to the "recv" event: the   *)
(* client frames and encodes packets (net.Pack, CTcpServer:Encode), TCP    *)
(* delivers the bytes in segments of any size, CTcpServer:Recv decodes a   *)
(* segment, appends it to m_CacheData[vfd].meta and calls the package      *)
(* parser of server.lua until it yields nothing.                           *)
(***************************************************************************)
EXTENDS StreamCipher

CONSTANTS
    Bodies,         \* the packet bodies the client sends: sequences of bytes
    InitKey,        \* os.time() when the connection was accepted
    MaxPackets,     \* bound on the packets sent
    MaxReplies      \* bound on the data the server sends back

ASSUME BodiesFitHeader == \A b \in Bodies : Len(b) < 2^16

VARIABLES
    sent,           \* history: bodies the client sent
    wire,           \* encoded bytes in flight
    clientKey,      \* the client's copy of the key
    m_ClientKey,    \* the server's key for this vfd
    meta,           \* m_CacheData[vfd].meta
    pc,             \* "read" between callbacks, "parse" inside Recv's loop
    paks,           \* the packets posted with OnEvent("recv")
    replies         \* number of replies written

vars == <<sent, wire, clientKey, m_ClientKey, meta, pc, paks, replies>>

Init ==
    /\ sent = <<>>
    /\ wire = <<>>
    /\ clientKey = InitKey          \* SendKey hands it to the client
    /\ m_ClientKey = InitKey
    /\ meta = <<>>
    /\ pc = "read"
    /\ paks = <<>>
    /\ replies = 0

-----------------------------------------------------------------------------

\* string.pack("H", n) and string.unpack("H", s), little-endian
PackH(n)   == <<n % 256, n \div 256>>
UnpackH(s) == s[1] + 256 * s[2]

\* net.Pack for one vfd: the size of the body, then the body.
Pack(body) == PackH(Len(body)) \o body

\* Mutant: waits for the byte after the packet.
UnpackHead_Late(pkg) ==
    IF Len(pkg) < 2 THEN {}
    ELSE IF 3 + UnpackH(pkg) > Len(pkg) THEN {}
         ELSE {[start |-> 3, stop |-> 3 + UnpackH(pkg)]}

\* net.UnpackHead: the bounds of the first packet, or none when it is not
\* complete.  The second bound is the position after the body.
UnpackHead(pkg) ==
    IF Len(pkg) < 2 THEN {}
    ELSE LET bodysize  == UnpackH(pkg)
             bodystart == 3
         IN  IF bodystart + bodysize - 1 > Len(pkg) THEN {}
             ELSE {[start |-> bodystart, stop |-> bodystart + bodysize]}

\* string.sub(s, i, j), whose second bound is inclusive and clipped
Sub(s, i, j) == SubSeq(s, i, IF j > Len(s) THEN Len(s) ELSE j)

\* Mutant: both bounds are read as inclusive.
PackageParser_Skips(m) ==
    {[pak |-> Sub(m, h.start, h.stop), meta |-> Sub(m, h.stop + 1, Len(m))]
        : h \in UnpackHead(m)}

\* The parser server.lua installs: the packet and what is left of meta.
PackageParser(m) ==
    {[pak |-> Sub(m, h.start, h.stop), meta |-> Sub(m, h.stop, Len(m))]
        : h \in UnpackHead(m)}

-----------------------------------------------------------------------------

ClientSend(body) ==
    LET enc == Encode(Pack(body), clientKey) IN
    /\ Len(sent) < MaxPackets
    /\ sent' = Append(sent, body)
    /\ wire' = wire \o enc.data
    /\ clientKey' = enc.key
    /\ UNCHANGED <<m_ClientKey, meta, pc, paks, replies>>

\* The read callback with the first n bytes in flight.
Recv(n) ==
    LET dec == Decode(SubSeq(wire, 1, n), m_ClientKey) IN
    /\ pc = "read"
    /\ wire' = SubSeq(wire, n + 1, Len(wire))
    /\ m_ClientKey' = dec.key
    /\ meta' = meta \o dec.data
    /\ pc' = "parse"
    /\ UNCHANGED <<sent, clientKey, paks, replies>>

\* One turn of Recv's loop.
Parse ==
    /\ pc = "parse"
    /\ \/ \E r \in PackageParser(meta) :
            /\ paks' = Append(paks, r.pak)
            /\ meta' = r.meta
            /\ UNCHANGED pc
       \/ /\ PackageParser(meta) = {}
          /\ pc' = "read"
          /\ UNCHANGED <<paks, meta>>
    /\ UNCHANGED <<sent, wire, clientKey, m_ClientKey, replies>>

\* CTcpServer:Send does not encode: the key belongs to the other direction.
Send ==
    /\ pc = "read"
    /\ replies < MaxReplies
    /\ replies' = replies + 1
    /\ UNCHANGED <<sent, wire, clientKey, m_ClientKey, meta, pc, paks>>

Next == \/ \E b \in Bodies : ClientSend(b)
        \/ \E n \in 1 .. Len(wire) : Recv(n)
        \/ Parse
        \/ Send

Spec == Init /\ [][Next]_vars

\* Bytes in flight arrive, and Recv's loop runs to its end.
FairSpec == Spec /\ WF_vars(\E n \in 1 .. Len(wire) : Recv(n)) /\ WF_vars(Parse)

-----------------------------------------------------------------------------
(* Properties.                                                             *)

\* The packet handed over for the k-th body holds that body, followed by at
\* most one byte: the parser's second bound is inclusive, so the first byte
\* of the next packet comes along when it is already buffered.
Carries(pak, body) ==
    /\ Len(pak) \in {Len(body), Len(body) + 1}
    /\ Sub(pak, 1, Len(body)) = body

\* Whatever the segments and with replies in between, every packet is
\* delivered in order, holds its body and at most one more byte, and no byte
\* is lost (CTcpServer:Recv, the parser of server.lua, UnpackHead): the stream
\* implements the packet channel.
Channel == INSTANCE PacketChannel WITH
    queue     <- SubSeq(sent, Len(paks) + 1, Len(sent)),
    delivered <- [k \in DOMAIN paks |->
                    IF k <= Len(sent) /\ Carries(paks[k], sent[k]) THEN sent[k] ELSE paks[k]]

FramingIsChannel == Channel!Spec

\* Every packet sent is delivered.
AllDelivered == \A k \in 1 .. MaxPackets : Len(sent) >= k ~> Len(paks) >= k

\* pack.lua:9-10, "size: 2 bytes, the length of the body; body: the binary
\* content of the protocol": a delivered packet is exactly a body sent.
PaksAreBodies == \A k \in DOMAIN paks : paks[k] = sent[k]
==============================================================================
