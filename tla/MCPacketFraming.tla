--------------------------- MODULE MCPacketFraming ---------------------------
(* PacketFraming.tla for TLC: an empty body, and bodies whose bytes look    *)
(* like headers; a key whose low byte wraps around while it moves.          *)
EXTENDS PacketFraming

MCBodies == {<<>>, <<0, 0>>, <<3, 0, 255>>}
==============================================================================
