---------------------------- MODULE MCRespParser -----------------------------
(***************************************************************************)
(* Instances of RespParser: short replies of every kind.                   *)
(***************************************************************************)
EXTENDS RespParser

Status == [kind |-> "status", text |-> <<"O", "K">>]
Fails == [kind |-> "error", text |-> <<"E">>]
Num(n) == [kind |-> "int", n |-> n]
Bulk(item) == [kind |-> "bulk", item |-> item]
Multi(items) == [kind |-> "multi", items |-> items]

Sendable == {Status, Fails, Num(3), Num(-1)}
                \cup {Bulk(i) : i \in {NilItem, <<>>, <<"x">>, <<"+", "x", "$">>}}
                \cup {Multi(<<>>), Multi(<< <<"x", "y">> >>), Multi(<< <<"x">>, <<"x", "y">> >>),
                      Multi(<< <<"x", "y", "x">>, <<>> >>), Multi(<< <<>> >>),
                      Multi(<<NilItem, <<"x">> >>)}
=============================================================================
