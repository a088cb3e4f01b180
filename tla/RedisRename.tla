----------------------------- MODULE RedisRename -----------------------------
(***************************************************************************)
(* distributed_value::rename() and renamenx(), over rename() and renamenx()  *)
(* of the client.  Names on one server take one command.  Names on two      *)
(* servers take several, which the source itself calls not safe in a cluster: *)
(* the value is read, copied under the new name and deleted under the old    *)
(* one.  Any command may fail before it is carried out, or be carried out    *)
(* and its answer be lost; the call then throws, the handle keeps its name,  *)
(* and the caller repeats the call or gives up.  Other clients set, delete   *)
(* and extend values under any name at any time, also under a name the call  *)
(* has just freed.                                                          *)
(***************************************************************************)
EXTENDS Sequences, Naturals, FiniteSets

CONSTANTS
  Keys,
  Home,      \* get_socket(key)
  Elements,  \* what values are made of
  Contents,  \* the values a handle is made for: [t, c], c the elements in the order they are read
  MaxWrites  \* bound: how often other clients write

VARIABLES
  store,     \* per key: its value
  key,       \* key_ of the handle
  pc,        \* the command the call is at, or "idle"
  call,      \* [op, new]: the running or last call
  kind,      \* what type(old_name) said
  buf,       \* content: the elements still to be copied
  ret,       \* how the last call ended: "ok", "false" or "throw"
  threw,     \* history: a try of this call threw
  orig,      \* history: the handle's value when the call was first made
  touched,   \* history: the call's names other clients wrote since then, but for the new
             \* one when the call has replaced what they wrote
  raced,     \* history: another client wrote under the new name during this try
  writes     \* counts what other clients wrote

vars == <<store, key, pc, call, kind, buf, ret, threw, orig, touched, raced, writes>>

Missing == [t |-> "none", c |-> <<>>]
Foreign == [t |-> "string", c |-> <<"foreign">>]
Types == {"string", "list", "set", "zset", "hash"}

In(e, s) == \E j \in DOMAIN s : s[j] = e

\* The members of a set are different
Distinct(v) == v.t = "set" => \A i, j \in DOMAIN v.c : v.c[i] = v.c[j] => i = j

ASSUME RenameAssumption ==
  /\ \A k \in Keys : k \in DOMAIN Home
  /\ {"foreign", "missing_value"} \subseteq Elements
  /\ Contents \subseteq [t : Types, c : Seq(Elements)]
  /\ \A v \in Contents : v.c # <<>> /\ Distinct(v)
  /\ MaxWrites \in Nat

new == call.new

\* The call is running or may be repeated
Unfinished == pc # "idle" \/ threw

Init ==
  /\ key \in Keys
  /\ \E v \in Contents, others \in SUBSET (Keys \ {key}) :
       store = [k \in Keys |-> IF k = key THEN v
                               ELSE IF k \in others THEN Foreign ELSE Missing]
  /\ pc = "idle" /\ call = [op |-> "rename", new |-> key] /\ buf = <<>> /\ kind = "none"
  /\ ret = "ok" /\ threw = FALSE
  /\ orig = Missing /\ touched = {} /\ raced = FALSE /\ writes = 0

\* The caller of a call that threw repeats it, if anything
Begin(op, n) ==
  /\ pc = "idle"
  /\ threw => call = [op |-> op, new |-> n]
  /\ call' = [op |-> op, new |-> n]
  /\ pc' = IF Home[key] = Home[n] THEN "at_once"
           ELSE IF op = "renamenx" THEN "exists" ELSE "type"
  /\ orig' = IF threw THEN orig ELSE store[key]
  /\ UNCHANGED <<store, key, kind, buf, ret, threw, touched, raced, writes>>

\* The locals are gone, and the histories once the call need not be repeated
Return(r) ==
  /\ pc' = "idle" /\ ret' = r
  /\ key' = IF r = "ok" THEN new ELSE key
  /\ threw' = (r = "throw" \/ (r = "false" /\ threw))
  /\ orig' = IF threw' THEN orig ELSE Missing
  /\ touched' = IF threw' THEN touched ELSE {}
  /\ kind' = "none" /\ buf' = <<>> /\ raced' = FALSE
  /\ UNCHANGED <<call, writes>>

Go(p) == pc' = p /\ UNCHANGED <<key, orig, call, ret, threw, raced, writes>>

\* RENAME and RENAMENX at the server: a missing key is an error
Renamed ==
  IF store[key] = Missing \/ key = new \/ (call.op = "renamenx" /\ store[new] # Missing)
  THEN store
  ELSE [store EXCEPT ![new] = store[key], ![key] = Missing]

\* Mutant: the answer to RENAMENX is never taken for a success
AtOnce_never ==
  /\ pc = "at_once"
  /\ store' = Renamed
  /\ Return(IF store[key] = Missing THEN "throw"
            ELSE IF call.op = "renamenx" THEN "false" ELSE "ok")

AtOnce ==
  /\ pc = "at_once"
  /\ store' = Renamed
  /\ Return(IF store[key] = Missing THEN "throw"
            ELSE IF call.op = "renamenx" /\ store[new] # Missing THEN "false" ELSE "ok")

\* Mutant: a taken name is not refused
exists_not ==
  /\ pc = "exists"
  /\ Go("type")
  /\ UNCHANGED <<store, buf, kind, touched>>

exists ==
  /\ pc = "exists"
  /\ IF store[new] # Missing THEN Return("false")
     ELSE Go("type") /\ UNCHANGED <<buf, kind, touched>>
  /\ UNCHANGED store

\* type(old_name): a missing key ends the call as if it had been renamed
type ==
  /\ pc = "type"
  /\ CASE store[key].t = "none" -> Return("ok")
       [] store[key].t \in {"string", "list", "set"} ->
            Go("read") /\ kind' = store[key].t /\ UNCHANGED <<buf, touched>>
       [] OTHER -> Return("throw")
  /\ UNCHANGED store

\* The new name set or deleted, the old one deleted
Stored == [store EXCEPT ![new] = [t |-> "string", c |-> buf]]
Cleared == [store EXCEPT ![new] = Missing]
Removed == [store EXCEPT ![key] = Missing]

\* Mutant: the old value is deleted before it is copied
read_delete ==
  /\ pc = "read"
  /\ IF store[key].t \in {kind, "none"}
     THEN /\ buf' = IF kind = "string" /\ store[key] = Missing
                    THEN <<"missing_value">> ELSE store[key].c
          /\ Go(IF kind = "string" THEN "set" ELSE "clear")
          /\ UNCHANGED <<kind, touched>>
     ELSE Return("throw")
  /\ store' = Removed

\* get, lrange or smembers, as type() said: a key of another type is an error by now,
\* no key is an empty list or set, and for get the text missing_value()
read ==
  /\ pc = "read"
  /\ IF store[key].t \in {kind, "none"}
     THEN /\ buf' = IF kind = "string" /\ store[key] = Missing
                    THEN <<"missing_value">> ELSE store[key].c
          /\ Go(IF kind = "string" THEN "set" ELSE "clear")
          /\ UNCHANGED <<kind, touched>>
     ELSE Return("throw")
  /\ UNCHANGED store

set ==
  /\ pc = "set"
  /\ store' = Stored /\ touched' = touched \ {new}
  /\ Go("remove") /\ UNCHANGED <<buf, kind>>

\* del(new_name)
clear ==
  /\ pc = "clear"
  /\ store' = Cleared /\ touched' = touched \ {new}
  /\ Go(IF buf = <<>> THEN "remove" ELSE "push")
  /\ UNCHANGED <<buf, kind>>

\* RPUSH or SADD of e to a value of type t or to no value: a set has its members once
Extended(v, t, e) ==
  [t |-> t, c |-> IF t = "set" /\ In(e, v.c) THEN v.c ELSE Append(v.c, e)]

\* A key of another type is an error
CanPush == store[new].t \in {"none", kind}
Pushed ==
  IF CanPush THEN [store EXCEPT ![new] = Extended(store[new], kind, Head(buf))] ELSE store

\* rpush or sadd of the next element
push ==
  /\ pc = "push"
  /\ store' = Pushed
  /\ IF CanPush
     THEN /\ Go(IF Len(buf) = 1 THEN "remove" ELSE "push")
          /\ buf' = Tail(buf) /\ UNCHANGED <<kind, touched>>
     ELSE Return("throw")

\* Mutant: the old name is left
remove_not ==
  /\ pc = "remove"
  /\ Return("ok")
  /\ UNCHANGED store

\* del(old_name), and the end of the call
remove ==
  /\ pc = "remove"
  /\ store' = Removed
  /\ Return("ok")

\* The store after the command the call is at
Effect ==
  CASE pc = "at_once" -> Renamed
    [] pc = "set" -> Stored
    [] pc = "clear" -> Cleared
    [] pc = "push" -> Pushed
    [] pc = "remove" -> Removed
    [] OTHER -> store

\* A connection error, before or after the server carried the command out
Fail ==
  /\ pc # "idle"
  /\ store' \in {store, Effect}
  /\ Return("throw")

\* DEL, SET, RPUSH and SADD of another client
Written(v) ==
  {Missing, Foreign} \cup
  {Extended(v, t, "foreign") : t \in {u \in {"list", "set"} : v.t \in {"none", u}}}

Other(k) ==
  /\ writes < MaxWrites /\ writes' = writes + 1
  /\ store' \in {[store EXCEPT ![k] = v] : v \in Written(store[k])}
  /\ touched' = IF Unfinished THEN touched \cup ({k} \cap {key, new}) ELSE {}
  /\ raced' = (raced \/ (pc # "idle" /\ k = new))
  /\ UNCHANGED <<key, orig, pc, call, kind, buf, ret, threw>>

Next ==
  \/ \E op \in {"rename", "renamenx"}, n \in Keys : Begin(op, n)
  \/ AtOnce \/ exists \/ type \/ read \/ set \/ clear \/ push \/ remove
  \/ Fail
  \/ \E k \in Keys : Other(k)

Spec == Init /\ [][Next]_vars

-----------------------------------------------------------------------------
\* Commands run one at a time and a key holds a value of one type
TypeOK ==
  /\ key \in Keys
  /\ \A k \in Keys : /\ store[k].t \in Types \cup {"none"}
                     /\ store[k].c = <<>> <=> store[k] = Missing
                     /\ Distinct(store[k])
  /\ pc \in {"idle", "at_once", "exists", "type", "read", "set", "clear", "push", "remove"}
  /\ call \in [op : {"rename", "renamenx"}, new : Keys]
  /\ pc = "push" => buf # <<>>
  /\ ret \in {"ok", "false", "throw"} /\ threw \in BOOLEAN /\ raced \in BOOLEAN
  /\ touched \subseteq Keys /\ writes \in Nat /\ kind \in Types \cup {"none"}

\* Wherever a call is cut off and however often it is repeated, the whole value is
\* under the name of the handle or under the one it was to get, unless another client
\* has written under the handle's name, the freed one included, or under the new name
\* since the copy was begun.
NeverLost ==
  /\ TypeOK
  /\ Unfinished /\ key \notin touched =>
       store[key] = orig \/ new \in touched \/ store[new] = orig

\* A call that returns has moved the whole value: it is under the new name, whatever
\* tries were cut off, and nothing is under the old one.  Between servers another
\* client must not have written under either name, on one server not under the old one.
Moved ==
  [][pc # "idle" /\ pc' = "idle" /\ ret' = "ok" /\ orig # Missing =>
       \/ key \in touched
       \/ Home[key] # Home[new] /\ new \in touched
       \/ store'[new] = orig /\ (key # new => store'[key] = Missing)]_vars

\* A renamenx() that returns false without ever having thrown has changed nothing of
\* the value; after an exception it may be looking at its own copy.
RefusedIntact ==
  [][pc # "idle" /\ pc' = "idle" /\ ret' = "false" /\ ~threw /\ key \notin touched =>
       store'[key] = orig]_vars

\* A step of the call, not of another client
OwnStep == pc' # pc \/ buf' # buf

\* renamenx() takes away what another client stored under the new name only if that
\* client wrote there while the call was running, between exists() and the copy.
NxReplacesOnlyRaced ==
  [][OwnStep => \A k \in Keys \ {key} :
       In("foreign", store[k].c) /\ ~In("foreign", store'[k].c) =>
         call.op = "rename" \/ raced]_vars

=============================================================================
