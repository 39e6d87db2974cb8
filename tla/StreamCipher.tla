---------------------------- MODULE StreamCipher ----------------------------
(***************************************************************************)
(* CTcpServer:Encode and CTcpServer:Decode (gameserver/base/tcp.lua): each *)
(* byte is xored with the low byte of a key, and the key moves on by the   *)
(* two low bits of the plain byte.  Both yield the data and the key that   *)
(* is stored back for the next call.                                       *)
(***************************************************************************)
EXTENDS Naturals, Sequences, Bitwise
LOCAL INSTANCE SequencesExt

XorByte(b, key) == b ^^ (key % 256)

Encode(data, key) ==
    FoldLeft(LAMBDA acc, src :
                [data |-> Append(acc.data, XorByte(src, acc.key)),
                 key  |-> acc.key + (src % 4)],
             [data |-> <<>>, key |-> key], data)

Decode(data, key) ==
    FoldLeft(LAMBDA acc, b :
                LET src == XorByte(b, acc.key) IN
                [data |-> Append(acc.data, src),
                 key  |-> acc.key + (src % 4)],
             [data |-> <<>>, key |-> key], data)
==============================================================================
