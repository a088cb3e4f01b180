--------------------------- MODULE MCRedisReader ---------------------------
(* Instances of the receive functions for TLC.  The second text contains line *)
(* ends and looks like a reply.                                               *)
EXTENDS RedisReader
MCTexts == <<<<>>, <<43, 1001, 10, 13, 10>>, <<7>>>>

Simple == {Status(OK), Status(WORD), Err(0), Err(1), Num(0), Num(1), Nil, Bulk(1), Bulk(2)}
Lists == {Multi(<<>>), Multi(<<Bulk(2), Nil>>), Multi(<<Nil, Bulk(1)>>), NilMulti,
          Multi(<<Num(1)>>), Multi(<<Num(1), Bulk(3)>>), Multi(<<Bulk(3), Err(0)>>)}

\* Every receive function meets every reply
MCPairs == [reader : Readers, reply : Simple \cup Lists]

\* Then a call that meets the reply it is meant for
MCLater == {[reader |-> "int", reply |-> Num(1)], [reader |-> "bulk", reply |-> Bulk(2)],
            [reader |-> "multi", reply |-> Multi(<<Bulk(2), Nil>>)]}
=============================================================================
