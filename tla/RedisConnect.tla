---------------------------- MODULE RedisConnect ----------------------------
(***************************************************************************)
(* The life of redis::base_client objects: the two constructors, clone(),    *)
(* select() and the destructor, with the sockets they open.  A constructor    *)
(* connects, authenticates and selects one connection after the other; any   *)
(* of it may throw, and then no destructor runs.  Several threads make and    *)
(* destroy clients, and the system hands out closed sockets again.           *)
(***************************************************************************)
EXTENDS Integers, Sequences, FiniteSets

CONSTANTS
  Clients, Fds,
  Servers, Protected,  \* the servers, and those that ask for a password
  DBs,
  ConLists             \* the lists of [srv, db] clients are made for

ASSUME ConnectAssumption ==
  /\ Protected \subseteq Servers /\ 0 \in DBs
  /\ Fds \subseteq Nat
  /\ ConLists \subseteq Seq([srv : Servers, db : DBs])

VARIABLES
  open,    \* the sockets open in the process
  sel,     \* per socket, at the server: the selected database
  authed,  \* the sockets whose server has accepted the password
  st,      \* per client: "none", "connect", "auth", "select" (under construction), "live"
  todo,    \* per client: the connections still to be made
  cons,    \* per client: connections_, a sequence of [fd, srv, db]
  cur,     \* per client: the socket init() is working on
  pw,      \* per client: it was given a password
  leaked   \* history: the sockets of constructors that threw, still open

vars == <<open, sel, authed, st, todo, cons, cur, pw, leaked>>

NoFd == -1   \* ANET_ERR

Held(c) == {cons[c][k].fd : k \in 1 .. Len(cons[c])} \cup (IF cur[c] = NoFd THEN {} ELSE {cur[c]})

Init ==
  /\ open = {} /\ sel = [f \in Fds |-> 0] /\ authed = {}
  /\ st = [c \in Clients |-> "none"]
  /\ todo = [c \in Clients |-> <<>>] /\ cons = [c \in Clients |-> <<>>]
  /\ cur = [c \in Clients |-> NoFd]
  /\ pw = [c \in Clients |-> FALSE]
  /\ leaked = {}

Begin(c, list, password) ==
  /\ st[c] = "none"
  /\ st' = [st EXCEPT ![c] = "connect"] /\ todo' = [todo EXCEPT ![c] = list]
  /\ pw' = [pw EXCEPT ![c] = password]
  /\ UNCHANGED <<open, sel, authed, cons, cur, leaked>>

\* base_client(host, port, dbindex, password): one connection.  base_client(begin,
\* end): any number, no password; for none it throws before it opens anything.
Construct(c, list, password) ==
  /\ Len(list) = 1 \/ (Len(list) > 1 /\ ~password)
  /\ Begin(c, list, password)

\* Mutant: the copy is given the sockets too
clone_shares(c, d) ==
  /\ st[d] = "live" /\ st[c] = "none"
  /\ st' = [st EXCEPT ![c] = "live"] /\ cons' = [cons EXCEPT ![c] = cons[d]]
  /\ UNCHANGED <<open, sel, authed, todo, cur, pw, leaked>>

\* clone(): the second constructor over the connection data of d
clone(c, d) ==
  /\ st[d] = "live"
  /\ Begin(c, [k \in 1 .. Len(cons[d]) |-> [srv |-> cons[d][k].srv, db |-> cons[d][k].db]],
           FALSE)

\* The constructor is left by an exception: fds stay open and belong to nobody
Throw(c, fds) ==
  /\ st' = [st EXCEPT ![c] = "none"] /\ todo' = [todo EXCEPT ![c] = <<>>]
  /\ cons' = [cons EXCEPT ![c] = <<>>] /\ cur' = [cur EXCEPT ![c] = NoFd]
  /\ leaked' = leaked \cup fds
  /\ UNCHANGED <<sel, authed, pw>>

\* anetTcpConnect: socket() (after WSAStartup if need be), gethostbyname, connect
Connect(c) ==
  /\ st[c] = "connect"
  /\ \E f \in Fds \ open :
       /\ open' = open \cup {f} /\ cur' = [cur EXCEPT ![c] = f]
       /\ sel' = [sel EXCEPT ![f] = 0] /\ authed' = authed \ {f}
       /\ st' = [st EXCEPT ![c] = IF pw[c] THEN "auth" ELSE "select"]
  /\ UNCHANGED <<todo, cons, pw, leaked>>

\* It fails without a socket, or with one that is left open
ConnectFails(c) ==
  /\ st[c] = "connect"
  /\ \/ Throw(c, Held(c)) /\ UNCHANGED open
     \/ \E f \in Fds \ open : open' = open \cup {f} /\ Throw(c, Held(c) \cup {f})

\* AUTH; a server that asks for no password answers with an error
auth(c) ==
  /\ st[c] = "auth" /\ Head(todo[c]).srv \in Protected
  /\ authed' = authed \cup {cur[c]}
  /\ st' = [st EXCEPT ![c] = "select"]
  /\ UNCHANGED <<open, sel, todo, cons, cur, pw, leaked>>

\* A wrong password, a refused command or a connection error
CommandFails(c) ==
  /\ st[c] \in {"auth", "select"}
  /\ Throw(c, Held(c)) /\ UNCHANGED open

\* Mutant: the database of the connection is not selected
select_not(c) ==
  /\ st[c] = "select"
  /\ Head(todo[c]).srv \in Protected => cur[c] \in authed
  /\ LET con == Head(todo[c])
     IN  cons' = [cons EXCEPT ![c] = Append(@, [fd |-> cur[c], srv |-> con.srv, db |-> con.db])]
  /\ cur' = [cur EXCEPT ![c] = NoFd] /\ todo' = [todo EXCEPT ![c] = Tail(@)]
  /\ st' = [st EXCEPT ![c] = IF Len(todo[c]) = 1 THEN "live" ELSE "connect"]
  /\ UNCHANGED <<sel, open, authed, pw, leaked>>

\* SELECT, which a protected server refuses without AUTH; the connection is listed
\* and the constructor goes on with the next
select(c) ==
  /\ st[c] = "select"
  /\ Head(todo[c]).srv \in Protected => cur[c] \in authed
  /\ LET con == Head(todo[c])
     IN  /\ sel' = [sel EXCEPT ![cur[c]] = con.db]
         /\ cons' = [cons EXCEPT ![c] = Append(@, [fd |-> cur[c], srv |-> con.srv, db |-> con.db])]
  /\ cur' = [cur EXCEPT ![c] = NoFd] /\ todo' = [todo EXCEPT ![c] = Tail(@)]
  /\ st' = [st EXCEPT ![c] = IF Len(todo[c]) = 1 THEN "live" ELSE "connect"]
  /\ UNCHANGED <<open, authed, pw, leaked>>

\* select(dbindex, con) with a connection of a live client: the database is recorded
\* for every connection that equals con in host, port and database
select_con(c, k, d) ==
  /\ st[c] = "live" /\ k \in 1 .. Len(cons[c])
  /\ sel' = [sel EXCEPT ![cons[c][k].fd] = d]
  /\ cons' = [cons EXCEPT ![c] = [j \in 1 .. Len(cons[c]) |->
       IF j <= k /\ cons[c][j].srv = cons[c][k].srv /\ cons[c][j].db = cons[c][k].db
       THEN [cons[c][j] EXCEPT !.db = d] ELSE cons[c][j]]]
  /\ UNCHANGED <<open, authed, st, todo, cur, pw, leaked>>

\* Mutant: the destructor closes the first connection only
Destroy_first(c) ==
  /\ st[c] = "live"
  /\ open' = open \ {cons[c][1].fd}
  /\ st' = [st EXCEPT ![c] = "none"] /\ cons' = [cons EXCEPT ![c] = <<>>]
  /\ UNCHANGED <<sel, authed, todo, cur, pw, leaked>>

\* ~base_client()
Destroy(c) ==
  /\ st[c] = "live"
  /\ open' = open \ Held(c)
  /\ st' = [st EXCEPT ![c] = "none"] /\ cons' = [cons EXCEPT ![c] = <<>>]
  /\ UNCHANGED <<sel, authed, todo, cur, pw, leaked>>

Next ==
  \E c \in Clients :
    \/ \E list \in ConLists, password \in BOOLEAN : Construct(c, list, password)
    \/ \E d \in Clients : clone(c, d)
    \/ Connect(c) \/ ConnectFails(c) \/ auth(c) \/ CommandFails(c) \/ select(c) \/ Destroy(c)
    \/ \E k \in 1 .. Len(cons[c]), d \in DBs : select_con(c, k, d)

Spec == Init /\ [][Next]_vars

-----------------------------------------------------------------------------
\* A client under construction has a connection to make, and a socket while it talks
TypeOK ==
  /\ open \subseteq Fds /\ leaked \subseteq open /\ authed \subseteq Fds
  /\ sel \in [Fds -> DBs]
  /\ \A c \in Clients :
       /\ st[c] \in {"none", "connect", "auth", "select", "live"}
       /\ st[c] \in {"connect", "auth", "select"} <=> todo[c] # <<>>
       /\ cur[c] \in Fds <=> st[c] \in {"auth", "select"}
       /\ \A k \in 1 .. Len(cons[c]) :
            cons[c][k].fd \in Fds /\ cons[c][k].srv \in Servers /\ cons[c][k].db \in DBs

\* The state is well typed.  No two connections, of one client or of two, share a
\* socket, clones included, and all of them are open: a destructor never closes a
\* socket that is someone else's.
OwnSockets ==
  TypeOK /\ \A c, d \in Clients :
    /\ Held(c) \subseteq open \ leaked
    /\ c # d => Held(c) \cap Held(d) = {}
    /\ \A j, k \in 1 .. Len(cons[c]) : cons[c][j].fd = cons[c][k].fd => j = k

\* Every open socket belongs to a client or to a constructor that threw: a client
\* that was finished closes all it opened.
OnlyThrowLeaks ==
  \A f \in open : f \in leaked \/ \E c \in Clients : f \in Held(c)

\* Two connections of one client that operator== cannot tell apart
Twins(c) ==
  \E j, k \in 1 .. Len(cons[c]) : j # k /\ cons[c][j].srv = cons[c][k].srv

\* The recorded database is the one the server has selected, after construction,
\* clone() and select() in any order, unless a client has two connections to a server.
RecordedIsSelected ==
  \A c \in Clients : ~Twins(c) =>
    \A k \in 1 .. Len(cons[c]) : sel[cons[c][k].fd] = cons[c][k].db

=============================================================================
