--------------------------- MODULE MCRedisConnect ---------------------------
(* Two open servers and a protected one; lists of one and two connections,     *)
(* among them two to one server                                               *)
EXTENDS RedisConnect
Con(s, d) == [srv |-> s, db |-> d]
MCConLists ==
  {<<Con("b", 1)>>, <<Con("a", 1), Con("b", 0)>>, <<Con("a", 0), Con("c", 1)>>,
   <<Con("a", 0), Con("a", 1)>>}
=============================================================================
