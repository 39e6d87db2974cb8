---------------------------- MODULE MCLuvHandle ----------------------------
(* Instances of LuvHandle for TLC.                                         *)
EXTENDS LuvHandle

CONSTANTS h1, h2

MCHandles == {h1, h2}

\* Every type of handle; a connection needs two handles that are streams.
Pairs == {<<"signal", "prepare">>, <<"timer", "idle">>, <<"async", "fs_poll">>,
          <<"fs_event", "check">>, <<"process", "poll">>, <<"udp", "tty">>,
          <<"tcp", "pipe">>}
MCPrograms == {[h \in MCHandles |-> IF h = h1 THEN p[1] ELSE p[2]] : p \in Pairs}
=============================================================================
