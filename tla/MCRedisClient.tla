--------------------------- MODULE MCRedisClient ---------------------------
(* Instances of the redis client for TLC *)
EXTENDS RedisClient

\* Keys 1 and 3 live on the first server, 2 on the second
MCHome == <<1, 2, 1>>

\* The methods that read several replies or use several servers, and some that
\* read one
Shared == DOMAIN FanOut \cup DOMAIN OneByOne \cup DOMAIN PerServer
            \cup {"exec", "msetex", "mset", "sadd_range", "get", "blpop_any", "flushall",
                  "exec_transaction"}

Load(first, later, keys, dbs, calls) ==
  [first |-> first, later |-> later, keys |-> keys, dbs |-> dbs, calls |-> calls]

\* Every method that sends one command; methods over several servers and then
\* another call; transactions with and without WATCH; both forms of select()
MCLoads ==
  {Load(DOMAIN Single, {}, {<<1>>}, {0, 1}, 1),
   Load(Shared, {"get", "exec", "mget", "dbsize"}, {<<2, 1, 3>>, <<1, 3>>}, {0}, 2),
   Load({"exec_transaction", "exec_watch"}, {"exec_transaction", "get"}, {<<1, 3>>, <<1, 2>>}, {0}, 2),
   Load({"select", "select_con"}, {"select", "select_con"}, {<<1>>}, {0, 1}, 3)}
=============================================================================
