--------------------------- MODULE MCRedisRename ---------------------------
(* Two names on one server, one on another; a list with a repeated element *)
EXTENDS RedisRename
MCHome == <<1, 1, 2>>
MCContents ==
  {[t |-> "string", c |-> <<"a">>], [t |-> "list", c |-> <<"a", "b", "a">>],
   [t |-> "set", c |-> <<"a", "b">>], [t |-> "hash", c |-> <<"a">>]}
=============================================================================
