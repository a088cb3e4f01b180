--------------------------- MODULE RedisCommands ---------------------------
(***************************************************************************)
(* The commands of redis::base_client: for each method that sends one       *)
(* command to one server, the verb it sends and the receive function it     *)
(* reads the answer with.  Arguments are left out but where a property      *)
(* looks at them.  Overloads that do the same share a row.                  *)
(***************************************************************************)
EXTENDS RedisReply

StoreMethods == [auth |-> <<"AUTH", "ok">>, set |-> <<"SET", "ok">>]

GetMethods == [get |-> <<"GET", "bulk">>, getset |-> <<"GETSET", "bulk">>]

\* exec(command &)
GenericMethods == [exec_one |-> <<"GET", "generic">>, exec_watch |-> <<"WATCH", "generic">>]

\* Mutant: SETEX is read as an integer
StringMethods_int ==
  [setnx |-> <<"SETNX", "int">>, msetnx |-> <<"MSETNX", "ok">>,
   setex |-> <<"SETEX", "int">>, append |-> <<"APPEND", "int">>,
   substr |-> <<"SUBSTR", "bulk">>, incr |-> <<"INCR", "int">>,
   incrby |-> <<"INCRBY", "int">>, decr |-> <<"DECR", "int">>,
   decrby |-> <<"DECRBY", "int">>, exists |-> <<"EXISTS", "int">>, del |-> <<"DEL", "int">>]

StringMethods ==
  [setnx |-> <<"SETNX", "int">>, msetnx |-> <<"MSETNX", "ok">>,
   setex |-> <<"SETEX", "ok">>, append |-> <<"APPEND", "int">>,
   substr |-> <<"SUBSTR", "bulk">>, incr |-> <<"INCR", "int">>,
   incrby |-> <<"INCRBY", "int">>, decr |-> <<"DECR", "int">>,
   decrby |-> <<"DECRBY", "int">>, exists |-> <<"EXISTS", "int">>, del |-> <<"DEL", "int">>]

LookupMethods == [type |-> <<"TYPE", "single">>, randomkey |-> <<"RANDOMKEY", "bulk">>]

KeyMethods ==
  [rename |-> <<"RENAME", "ok">>, renamenx |-> <<"RENAMENX", "int">>,
   dbsize_con |-> <<"DBSIZE", "int">>, expire |-> <<"EXPIRE", "intok">>,
   ttl |-> <<"TTL", "int">>]

ListMethods ==
  [rpush |-> <<"RPUSH", "int">>, lpush |-> <<"LPUSH", "int">>, llen |-> <<"LLEN", "int">>,
   lrange |-> <<"LRANGE", "multi">>, ltrim |-> <<"LTRIM", "ok">>,
   lindex |-> <<"LINDEX", "bulk">>, lset |-> <<"LSET", "ok">>, lrem |-> <<"LREM", "int">>,
   lpop |-> <<"LPOP", "bulk">>, rpop |-> <<"RPOP", "bulk">>]

\* lrem(), and then the count is compared
ExactMethods == [lrem_exact |-> <<"LREM", "int">>]

\* blpop_any takes several keys, the others one.  The overload of brpop for
\* several keys cannot be compiled and has no row.
BlockingMethods ==
  [blpop_any |-> <<"BLPOP", "multi">>, blpop |-> <<"BLPOP", "multi">>,
   brpop |-> <<"BRPOP", "multi">>]

SetMethods ==
  [sadd |-> <<"SADD", "int">>, srem |-> <<"SREM", "intok">>, spop |-> <<"SPOP", "bulk">>,
   smove |-> <<"SMOVE", "intok">>, scard |-> <<"SCARD", "int">>,
   sismember |-> <<"SISMEMBER", "int">>]

SetAlgebra ==
  [sdiff |-> <<"SDIFF", "multi">>, sdiffstore |-> <<"SDIFFSTORE", "int">>,
   smembers |-> <<"SMEMBERS", "multi">>, srandmember |-> <<"SPOP", "bulk">>]

SortedSetMethods ==
  [zadd |-> <<"ZADD", "intok">>, zrem |-> <<"ZREM", "intok">>,
   zincrby |-> <<"ZINCRBY", "bulk">>, zrank |-> <<"ZRANK", "int">>,
   zrevrank |-> <<"ZREVRANK", "int">>, zrange |-> <<"ZRANGE", "multi">>,
   zrevrange |-> <<"ZREVRANGE", "multi">>]

\* zrangebyscore_base does not look at withscores
ScoreMethods ==
  [zrangebyscore |-> <<"ZRANGEBYSCORE", "multi">>,
   zrangebyscore_scores |-> <<"ZRANGEBYSCORE", "multi">>, zcount |-> <<"ZCOUNT", "int">>,
   zremrangebyrank |-> <<"ZREMRANGEBYRANK", "int">>,
   zremrangebyscore |-> <<"ZREMRANGEBYSCORE", "int">>, zcard |-> <<"ZCARD", "int">>,
   zscore |-> <<"ZSCORE", "bulk">>]

AggregateMethods ==
  [zunionstore |-> <<"ZUNIONSTORE", "int">>, zinterstore |-> <<"ZINTERSTORE", "int">>]

HashMethods ==
  [hset |-> <<"HSET", "int">>, hget |-> <<"HGET", "bulk">>, hsetnx |-> <<"HSETNX", "int">>,
   hmset |-> <<"HMSET", "ok">>, hmget |-> <<"HMGET", "multi">>,
   hincrby |-> <<"HINCRBY", "int">>, hexists |-> <<"HEXISTS", "int">>,
   hdel |-> <<"HDEL", "int">>, hlen |-> <<"HLEN", "int">>, hkeys |-> <<"HKEYS", "multi">>,
   hvals |-> <<"HVALS", "multi">>, hgetall |-> <<"HGETALL", "multi">>]

DatabaseMethods ==
  [select_con |-> <<"SELECT", "ok">>, move |-> <<"MOVE", "intok">>,
   flushdb_con |-> <<"FLUSHDB", "ok">>, flushall |-> <<"FLUSHALL", "ok">>]

SortMethods == [sort |-> <<"SORT", "multi">>]

ServerMethods ==
  [save_con |-> <<"SAVE", "ok">>, bgsave_con |-> <<"BGSAVE", "single">>,
   lastsave_con |-> <<"LASTSAVE", "int">>, shutdown_con |-> <<"SHUTDOWN", "ok">>,
   info |-> <<"INFO", "bulk">>, publish |-> <<"PUBLISH", "int">>]

Groups ==
  {StoreMethods, GetMethods, GenericMethods, StringMethods, LookupMethods, KeyMethods,
   ListMethods, ExactMethods, BlockingMethods, SetMethods, SetAlgebra, SortedSetMethods, ScoreMethods,
   AggregateMethods, HashMethods, DatabaseMethods, SortMethods, ServerMethods}

Single ==
  [m \in UNION {DOMAIN g : g \in Groups} |-> (CHOOSE g \in Groups : m \in DOMAIN g)[m]]

\* Methods that send one command to every server, then read one answer from each
FanOut ==
  [keys |-> <<"KEYS", "multi">>, dbsize |-> <<"DBSIZE", "int">>,
   select |-> <<"SELECT", "ok">>, flushdb |-> <<"FLUSHDB", "ok">>,
   save |-> <<"SAVE", "ok">>, bgsave |-> <<"BGSAVE", "single">>]

\* ... that do so one server after the other
OneByOne == [lastsave |-> <<"LASTSAVE", "int">>, shutdown |-> <<"SHUTDOWN", "ok">>]

\* ... that send each server a command about its keys
PerServer ==
  [mset_pairs |-> <<"MSET", "ok">>, mget |-> <<"MGET", "multi">>,
   del_range |-> <<"DEL", "int">>, sinter |-> <<"SINTER", "multi">>,
   sunion |-> <<"SUNION", "multi">>]

\* All of them, with those RedisClient writes out
Methods ==
  DOMAIN Single \cup DOMAIN FanOut \cup DOMAIN OneByOne \cup DOMAIN PerServer
    \cup {"mset", "msetex", "exec", "exec_transaction", "sadd_range"}

STARTED == 4         \* the status "Background saving started"
CONFIG == 1          \* a text of INFO: every line a key, one colon and a value
OTHER_LINES == 2     \* another: empty, or with a line of another form
EXACTLY == 2         \* the count lrem_exact() is called with

\* info() splits the text at lines and colons
InfoSplits(o) == o.data = <<CONFIG>>

\* lrem_exact() wants the count it asked for
RemovedExactly(o) == o.n = EXACTLY

\* bgsave() compares the status line
SaveStarted(o) == o.n \in {OK, STARTED}

\* zscore() and zincrby() convert the text to a number
IsScore(o) == o.data # <<missing_value>>

\* A method looks at the value it received once more, and throws when it is not
\* what it expects.  The overload of zrangebyscore with scores converts every
\* second text, of an answer without scores.
Converts(m, o) ==
  CASE m \in {"zscore", "zincrby"} -> IsScore(o)
    [] m = "info" -> InfoSplits(o)
    [] m = "lrem_exact" -> RemovedExactly(o)
    [] m \in {"bgsave", "bgsave_con"} -> SaveStarted(o)
    [] m = "zrangebyscore_scores" -> o.data = <<>>
    [] OTHER -> TRUE

\* key_error is caught: with a time limit, no element is no error
Catches(m, r) == m \in {"blpop", "brpop"} /\ r.t = "nomulti"

-----------------------------------------------------------------------------
(* The answers of a server (external): the reply, and whether the command    *)
(* was carried out and found what it was about                              *)

Done(r) == [reply |-> r, done |-> TRUE]
Refused(r) == [reply |-> r, done |-> FALSE]

OkVerbs == {"AUTH", "SET", "SETEX", "LTRIM", "LSET", "RENAME", "HMSET", "MSET", "SELECT",
            "FLUSHDB", "FLUSHALL", "SAVE", "WATCH", "MULTI"}
TestVerbs == {"SETNX", "MSETNX", "EXPIRE", "SADD", "SREM", "MOVE", "SMOVE", "HSETNX",
              "HDEL", "RENAMENX", "ZREM", "DEL", "EXISTS", "SISMEMBER", "HEXISTS"}
CountVerbs == {"APPEND", "INCR", "INCRBY", "DECR", "DECRBY", "DBSIZE", "TTL", "RPUSH",
               "LPUSH", "LLEN", "LREM", "SCARD", "SDIFFSTORE", "ZADD", "ZCOUNT", "ZCARD",
               "ZREMRANGEBYRANK", "ZREMRANGEBYSCORE", "ZUNIONSTORE", "ZINTERSTORE",
               "HSET", "HINCRBY", "HLEN", "LASTSAVE", "PUBLISH"}
TextVerbs == {"GET", "GETSET", "SUBSTR", "RANDOMKEY", "LINDEX", "LPOP", "RPOP", "SPOP",
              "ZSCORE", "HGET"}
ListVerbs == {"LRANGE", "SDIFF", "SMEMBERS", "ZRANGE", "ZREVRANGE", "ZRANGEBYSCORE",
              "HMGET", "HKEYS", "HVALS", "HGETALL", "SORT", "KEYS", "SINTER", "SUNION"}

\* APPEND is called with a text of two bytes, LREM with a count of two; a key's
\* text bears its number; the last argument of BLPOP and BRPOP is timeout_seconds,
\* and without one they answer only when there is an element
Answers(verb, ks) ==
  {Refused(Err(0))} \cup
  CASE verb \in OkVerbs -> {Done(Status(OK))}
    [] verb = "TYPE" -> {Done(Status(WORD))}
    [] verb = "BGSAVE" -> {Done(Status(STARTED)), Done(Status(WORD))}
    [] verb \in TestVerbs -> {Done(Num(1)), Refused(Num(0))}
    [] verb = "APPEND" -> {Done(Num(2))}
    [] verb = "LREM" -> {Done(Num(0)), Done(Num(1)), Done(Num(2))}
    [] verb \in CountVerbs \ {"APPEND", "LREM"} -> {Done(Num(0)), Done(Num(1))}
    [] verb \in TextVerbs -> {Done(Bulk(ks[1])), Refused(Nil)}
    [] verb = "ZINCRBY" -> {Done(Bulk(ks[1]))}
    [] verb = "INFO" -> {Done(Bulk(CONFIG)), Done(Bulk(OTHER_LINES))}
    [] verb \in {"ZRANK", "ZREVRANK"} -> {Done(Num(0)), Refused(Nil)}
    [] verb \in ListVerbs -> {Done(Multi(<<>>)), Done(Multi(<<Bulk(1), Bulk(2)>>))}
    [] verb \in {"BLPOP", "BRPOP"} ->
         {Done(Multi(<<Bulk(ks[1]), Bulk(2)>>))}
           \cup (IF ks[Len(ks)] = 0 THEN {} ELSE {Refused(NilMulti)})
    [] verb = "MGET" -> {Done(Multi([k \in DOMAIN ks |-> IF k \in f THEN Bulk(ks[k]) ELSE Nil])) :
                           f \in SUBSET DOMAIN ks}
    [] OTHER -> {}
=============================================================================
