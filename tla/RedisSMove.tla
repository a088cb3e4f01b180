----------------------------- MODULE RedisSMove -----------------------------
(***************************************************************************)
(* smove() of several clients over sets that live on several servers.  On   *)
(* one server it is one command; across two it is srem(), which throws when *)
(* the member is not there, and then sadd().  A call may be cut off between *)
(* any two of its steps: by a connection error, an error reply, or the end  *)
(* of the process.                                                          *)
(***************************************************************************)
EXTENDS Integers, FiniteSets

CONSTANTS
  Clients, Keys, Members,
  Home    \* get_socket(key)

VARIABLES
  sets,   \* per key: the members of its set
  pc,     \* per client: "idle", "remove", "add"
  arg,    \* per client: [src, dst, member] of the running call
  ret,    \* per client: how the last call ended
  lost    \* history: members whose call was cut off after srem() and before sadd()

vars == <<sets, pc, arg, ret, lost>>

\* Every member starts in one set
Init ==
  /\ \E where \in [Members -> Keys] : sets = [k \in Keys |-> {m \in Members : where[m] = k}]
  /\ pc = [c \in Clients |-> "idle"] /\ ret = [c \in Clients |-> "ok"]
  /\ arg \in [Clients -> [src : Keys, dst : Keys, member : Members]]
  /\ lost = {}

\* The call begins with its first command
smove(c, a) ==
  /\ pc[c] = "idle"
  /\ pc' = [pc EXCEPT ![c] = "remove"]
  /\ arg' = [arg EXCEPT ![c] = a]
  /\ UNCHANGED <<sets, ret, lost>>

\* What the servers do: SMOVE, SREM and SADD
Moved(a) ==
  IF a.member \in sets[a.src]
  THEN [k \in Keys |-> IF k = a.dst THEN sets[k] \cup {a.member}
                       ELSE IF k = a.src THEN sets[k] \ {a.member} ELSE sets[k]]
  ELSE sets
Removed(a) == [sets EXCEPT ![a.src] = @ \ {a.member}]
Added(a) == [sets EXCEPT ![a.dst] = @ \cup {a.member}]

SameServer(a) == Home[a.src] = Home[a.dst]

Return(c, r) == pc' = [pc EXCEPT ![c] = "idle"] /\ ret' = [ret EXCEPT ![c] = r]

\* Both sets on one server: SMOVE, whose answer has to be 1
MoveAtOnce(c) ==
  /\ pc[c] = "remove" /\ SameServer(arg[c])
  /\ sets' = Moved(arg[c])
  /\ Return(c, IF arg[c].member \in sets[arg[c].src] THEN "ok" ELSE "throw")
  /\ UNCHANGED <<arg, lost>>

\* srem(srckey, member): recv_int_ok_reply_ throws unless one was removed
Remove(c) ==
  /\ pc[c] = "remove" /\ ~SameServer(arg[c])
  /\ sets' = Removed(arg[c])
  /\ \/ /\ arg[c].member \in sets[arg[c].src]
        /\ pc' = [pc EXCEPT ![c] = "add"] /\ UNCHANGED ret
     \/ arg[c].member \notin sets[arg[c].src] /\ Return(c, "throw")
  /\ UNCHANGED <<arg, lost>>

\* sadd(dstkey, member); its answer is not looked at
Add(c) ==
  /\ pc[c] = "add"
  /\ sets' = Added(arg[c])
  /\ Return(c, "ok")
  /\ UNCHANGED <<arg, lost>>

\* The command fails before the server carried it out: nothing is undone
Cut(c) ==
  /\ pc[c] # "idle"
  /\ lost' = IF pc[c] = "add" THEN lost \cup {arg[c].member} ELSE lost
  /\ Return(c, "throw")
  /\ UNCHANGED <<sets, arg>>

\* The command is carried out, but its answer never arrives
ReplyLost(c) ==
  /\ pc[c] # "idle"
  /\ \/ pc[c] = "add" /\ sets' = Added(arg[c]) /\ UNCHANGED lost
     \/ pc[c] = "remove" /\ SameServer(arg[c]) /\ sets' = Moved(arg[c]) /\ UNCHANGED lost
     \/ /\ pc[c] = "remove" /\ ~SameServer(arg[c]) /\ sets' = Removed(arg[c])
        /\ lost' = IF arg[c].member \in sets[arg[c].src]
                   THEN lost \cup {arg[c].member} ELSE lost
  /\ Return(c, "throw")
  /\ UNCHANGED arg

Next ==
  \E c \in Clients :
    \/ \E a \in [src : Keys, dst : Keys, member : Members] : smove(c, a)
    \/ MoveAtOnce(c) \/ Remove(c) \/ Add(c) \/ Cut(c) \/ ReplyLost(c)

Spec == Init /\ [][Next]_vars

-----------------------------------------------------------------------------
\* The sets hold members, the clients' calls name keys and members
TypeOK ==
  /\ sets \in [Keys -> SUBSET Members]
  /\ pc \in [Clients -> {"idle", "remove", "add"}]
  /\ arg \in [Clients -> [src : Keys, dst : Keys, member : Members]]
  /\ ret \in [Clients -> {"ok", "throw"}]
  /\ lost \subseteq Members

\* The client has taken the member out of its source and not yet stored it
Carries(c, m) == pc[c] = "add" /\ arg[c].member = m

\* However the calls of several clients interleave and wherever they are cut off,
\* no member is ever in two sets, or in a set and on its way to another.
NoCopies ==
  \A m \in Members :
    /\ \A j, k \in Keys : (m \in sets[j] /\ m \in sets[k]) => j = k
    /\ \A c \in Clients : Carries(c, m) => /\ \A k \in Keys : m \notin sets[k]
                                           /\ \A d \in Clients : Carries(d, m) => c = d

\* A member is gone only if a call across servers was cut off after its srem();
\* otherwise it is in a set or on its way.
OnlyAbortLoses ==
  \A m \in Members :
    \/ \E k \in Keys : m \in sets[k]
    \/ \E c \in Clients : Carries(c, m)
    \/ m \in lost

=============================================================================
