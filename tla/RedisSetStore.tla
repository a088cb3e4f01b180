---------------------------- MODULE RedisSetStore ----------------------------
(***************************************************************************)
(* sinterstore() and sunionstore().  When the keys and the destination share *)
(* a server it is one command; otherwise sinter() or sunion() asks every     *)
(* server of the keys, the answers are combined in the order of the sockets,  *)
(* the destination is deleted and the members are added to it one by one.    *)
(* A command may fail, or be carried out and its answer be lost: the call    *)
(* throws and the caller may repeat it.                                      *)
(***************************************************************************)
EXTENDS Integers, FiniteSets

CONSTANTS
  Keys, Elems,
  Home        \* get_socket(key), a socket number

VARIABLES
  sets,     \* per key: its set, empty when the key is missing
  pc,       \* "idle", "at_once", "gather", "clear", "add"
  call,     \* [op, dst, keys]
  asked,    \* the sockets whose answers are still to be read
  content,  \* the members gathered so far, then those still to be added
  size,     \* content.size() when the members are added, the result
  ret,      \* "ok" or "throw"
  want,     \* history: what the call has to store, by the sets when it was first made
  threw     \* history: an earlier try of this call threw

vars == <<sets, pc, call, asked, content, size, ret, want, threw>>

Ops == {"sinterstore", "sunionstore"}

\* The servers' SINTER and SUNION over some keys
Combine(op, ks) ==
  IF op = "sinterstore"
  THEN {e \in Elems : \A k \in ks : e \in sets[k]}
  ELSE {e \in Elems : \E k \in ks : e \in sets[k]}

Sockets(ks) == {Home[k] : k \in ks}

Init ==
  /\ sets \in [Keys -> SUBSET Elems]
  /\ pc = "idle" /\ call = [op |-> "sinterstore", dst |-> CHOOSE k \in Keys : TRUE, keys |-> {}]
  /\ asked = {} /\ content = {} /\ size = 0 /\ ret = "ok" /\ want = {} /\ threw = FALSE

\* The caller of a call that threw repeats it, if anything.  The commands of
\* sinter() and sunion() are sent to all their servers at once.
Begin(op, dst, ks) ==
  /\ pc = "idle" /\ ks # {}
  /\ ret = "throw" => call = [op |-> op, dst |-> dst, keys |-> ks]
  /\ call' = [op |-> op, dst |-> dst, keys |-> ks]
  /\ pc' = IF Sockets(ks) = {Home[dst]} THEN "at_once" ELSE "gather"
  /\ asked' = Sockets(ks) /\ content' = {} /\ size' = 0
  /\ want' = IF ret = "throw" THEN want ELSE Combine(op, ks)
  /\ threw' = (ret = "throw")
  /\ UNCHANGED <<sets, ret>>

Return(r) == pc' = "idle" /\ ret' = r /\ UNCHANGED <<call, want, threw>>

Stored == [sets EXCEPT ![call.dst] = Combine(call.op, call.keys)]

\* SINTERSTORE, SUNIONSTORE
AtOnce ==
  /\ pc = "at_once"
  /\ sets' = Stored /\ size' = Cardinality(Stored[call.dst])
  /\ Return("ok") /\ UNCHANGED <<asked, content>>

\* The answer of the next server; the first one of sinter() starts the result
Gather(s) ==
  /\ pc = "gather" /\ s \in asked /\ \A z \in asked : s <= z
  /\ LET cur == Combine(call.op, {k \in call.keys : Home[k] = s})
     IN  content' = IF call.op = "sunionstore" THEN content \cup cur
                    ELSE IF asked = Sockets(call.keys) THEN cur ELSE content \cap cur
  /\ asked' = asked \ {s}
  /\ pc' = IF asked' = {} THEN "clear" ELSE "gather"
  /\ UNCHANGED <<sets, call, size, ret, want, threw>>

Cleared == [sets EXCEPT ![call.dst] = {}]

\* del(dstkey)
Clear ==
  /\ pc = "clear"
  /\ sets' = Cleared /\ size' = Cardinality(content)
  /\ IF content = {} THEN Return("ok") ELSE pc' = "add" /\ UNCHANGED <<call, ret, want, threw>>
  /\ UNCHANGED <<asked, content>>

Added(e) == [sets EXCEPT ![call.dst] = @ \cup {e}]

\* sadd() of the next member
Add(e) ==
  /\ pc = "add" /\ e \in content
  /\ sets' = Added(e) /\ content' = content \ {e}
  /\ IF content' = {} THEN Return("ok") ELSE UNCHANGED <<pc, call, ret, want, threw>>
  /\ UNCHANGED <<asked, size>>

\* A connection error, before or after the server carried the command out
Fail ==
  /\ pc # "idle"
  /\ sets' \in {sets} \cup (IF pc = "at_once" THEN {Stored} ELSE {})
                      \cup (IF pc = "clear" THEN {Cleared} ELSE {})
                      \cup (IF pc = "add" THEN {Added(e) : e \in content} ELSE {})
  /\ Return("throw") /\ UNCHANGED <<asked, content, size>>

Next ==
  \/ \E op \in Ops, dst \in Keys, ks \in SUBSET Keys : Begin(op, dst, ks)
  \/ AtOnce \/ Clear \/ Fail
  \/ \E s \in asked : Gather(s)
  \/ \E e \in Elems : Add(e)

Spec == Init /\ [][Next]_vars

-----------------------------------------------------------------------------
\* The sets hold members; there is something to gather or to add at those steps
TypeOK ==
  /\ sets \in [Keys -> SUBSET Elems]
  /\ pc \in {"idle", "at_once", "gather", "clear", "add"}
  /\ call.op \in Ops /\ call.dst \in Keys /\ call.keys \subseteq Keys
  /\ asked \subseteq Sockets(call.keys) /\ (pc = "gather" => asked # {})
  /\ content \subseteq Elems /\ (pc = "add" => content # {})
  /\ ret \in {"ok", "throw"} /\ want \subseteq Elems /\ threw \in BOOLEAN

\* A call that returns has stored the combination of the sets as they were when it
\* was first made, and returns its size: also when the destination is one of the sets,
\* unless a try was then cut off, and also after tries that were cut off, unless the
\* destination is one of the sets.
StoresRight ==
  pc = "idle" /\ ret = "ok" /\ call.keys # {} /\ (threw => call.dst \notin call.keys) =>
    sets[call.dst] = want /\ size = Cardinality(want)

=============================================================================
