------------------------ MODULE RedisConnect_proofs ------------------------
(***************************************************************************)
(* Who owns a socket, whatever the clients, sockets, servers and connection   *)
(* lists: OwnSockets, OnlyThrowLeaks and RecordedIsSelected of RedisConnect.  *)
(* The inductive invariant ConnectInv adds the types of the fields and that   *)
(* a client which is not there lists no connection, a finished one at least one. *)
(***************************************************************************)
EXTENDS RedisConnect, SequenceTheorems, TLAPS

Wanted == [srv : Servers, db : DBs]
Made == [fd : Fds, srv : Servers, db : DBs]

ShapeInv ==
  /\ open \subseteq Fds /\ leaked \subseteq open /\ authed \subseteq Fds
  /\ sel \in [Fds -> DBs]
  /\ st \in [Clients -> {"none", "connect", "auth", "select", "live"}]
  /\ todo \in [Clients -> Seq(Wanted)]
  /\ cons \in [Clients -> Seq(Made)]
  /\ cur \in [Clients -> Fds \cup {NoFd}]
  /\ pw \in [Clients -> BOOLEAN]

\* How far a client's life has come, and what it has then
LifeInv ==
  \A c \in Clients :
    /\ st[c] \in {"connect", "auth", "select"} <=> todo[c] # <<>>
    /\ cur[c] # NoFd <=> st[c] \in {"auth", "select"}
    /\ st[c] = "none" => cons[c] = <<>>
    /\ st[c] = "live" => cons[c] # <<>>

\* The sockets of a list of connections, and a list that has each only once
FdsOf(s) == {s[k].fd : k \in 1 .. Len(s)}
Distinct(s) == \A j, k \in 1 .. Len(s) : s[j].fd = s[k].fd => j = k

\* The socket being set up is not yet listed
SocketInv ==
  \A c \in Clients :
    /\ Held(c) \subseteq open \ leaked
    /\ \A d \in Clients : c # d => Held(c) \cap Held(d) = {}
    /\ Distinct(cons[c])
    /\ cur[c] \notin FdsOf(cons[c])

ConnectInv ==
  ShapeInv /\ LifeInv /\ SocketInv /\ OnlyThrowLeaks /\ RecordedIsSelected

-----------------------------------------------------------------------------
LEMMA NoFdIsNone == NoFd \notin Fds
BY ConnectAssumption DEF NoFd

LEMMA HeldIs ==
  ASSUME NEW c \in Clients
  PROVE  Held(c) = FdsOf(cons[c]) \cup (IF cur[c] = NoFd THEN {} ELSE {cur[c]})
BY DEF Held, FdsOf

LEMMA FdsOfEmpty == FdsOf(<<>>) = {} /\ Distinct(<<>>)
BY DEF FdsOf, Distinct

LEMMA FdsOfType ==
  ASSUME NEW s \in Seq(Made)
  PROVE  FdsOf(s) \subseteq Fds
<1>1. \A k \in 1 .. Len(s) : s[k] \in Made
  OBVIOUS
<1>2. \A e \in Made : e.fd \in Fds
  BY DEF Made
<1> QED BY <1>1, <1>2 DEF FdsOf

LEMMA FdsOfAppend ==
  ASSUME NEW s \in Seq(Made), NEW e \in Made
  PROVE  FdsOf(Append(s, e)) = FdsOf(s) \cup {e.fd}
<1>1. /\ Len(Append(s, e)) = Len(s) + 1 /\ Len(s) \in Nat
      /\ \A k \in 1 .. Len(s) : Append(s, e)[k] = s[k]
      /\ Append(s, e)[Len(s) + 1] = e
  OBVIOUS
<1>2. ASSUME NEW f PROVE f \in FdsOf(Append(s, e)) => f \in FdsOf(s) \cup {e.fd}
  BY <1>1 DEF FdsOf
<1>3. ASSUME NEW f PROVE f \in FdsOf(s) \cup {e.fd} => f \in FdsOf(Append(s, e))
  <2>1. CASE f \in FdsOf(s)
    <3>1. PICK k \in 1 .. Len(s) : f = s[k].fd
      BY <2>1 DEF FdsOf
    <3>2. k \in 1 .. Len(Append(s, e)) /\ f = Append(s, e)[k].fd
      BY <1>1, <3>1
    <3> QED BY <3>2 DEF FdsOf
  <2>2. CASE f = e.fd
    <3>1. Len(s) + 1 \in 1 .. Len(Append(s, e)) /\ f = Append(s, e)[Len(s) + 1].fd
      BY <1>1, <2>2
    <3> QED BY <3>1 DEF FdsOf
  <2> QED BY <2>1, <2>2
<1> QED BY <1>2, <1>3

LEMMA DistinctAppend ==
  ASSUME NEW s \in Seq(Made), NEW e \in Made, Distinct(s), e.fd \notin FdsOf(s)
  PROVE  Distinct(Append(s, e))
<1>1. /\ Len(Append(s, e)) = Len(s) + 1 /\ Len(s) \in Nat
      /\ \A k \in 1 .. Len(s) : Append(s, e)[k] = s[k]
      /\ Append(s, e)[Len(s) + 1] = e
  OBVIOUS
<1>2. \A k \in 1 .. Len(s) : s[k].fd # e.fd
  BY DEF FdsOf
<1> QED BY <1>1, <1>2 DEF Distinct

LEMMA HeadAndTail ==
  ASSUME NEW s \in Seq(Wanted), s # <<>>
  PROVE  /\ Head(s) \in Wanted /\ Tail(s) \in Seq(Wanted)
         /\ Tail(s) = <<>> <=> Len(s) = 1
<1>1. Len(s) \in Nat /\ Len(s) # 0 /\ Head(s) = s[1] /\ 1 \in 1 .. Len(s)
  OBVIOUS
<1>2. Tail(s) \in Seq(Wanted) /\ Len(Tail(s)) = Len(s) - 1
  OBVIOUS
<1>3. Tail(s) = <<>> <=> Len(Tail(s)) = 0
  BY <1>2, EmptySeq
<1> QED BY <1>1, <1>2, <1>3

(* A step that leaves the sockets and their owners alone keeps what is said  *)
(* of them.                                                                 *)
LEMMA SocketsUntouched ==
  ASSUME SocketInv, OnlyThrowLeaks, RecordedIsSelected,
         UNCHANGED <<open, leaked, sel, cons, cur>>
  PROVE  SocketInv' /\ OnlyThrowLeaks' /\ RecordedIsSelected'
<1>1. \A c \in Clients : Held(c)' = Held(c) /\ Twins(c)' = Twins(c)
  BY DEF Held, Twins
<1>2. SocketInv'
  BY <1>1 DEF SocketInv
<1>3. OnlyThrowLeaks'
  BY <1>1 DEF OnlyThrowLeaks
<1>4. RecordedIsSelected'
  BY <1>1 DEF RecordedIsSelected
<1> QED BY <1>2, <1>3, <1>4

(* A client begins to construct.                                            *)
LEMMA BeginInv ==
  ASSUME ConnectInv, NEW c \in Clients, NEW list \in Seq(Wanted), list # <<>>,
         NEW password \in BOOLEAN, Begin(c, list, password)
  PROVE  ConnectInv'
<1> USE DEF ConnectInv
<1>1. ShapeInv'
  BY DEF ShapeInv, Begin
<1>2. LifeInv'
  BY DEF ShapeInv, LifeInv, Begin
<1> QED BY <1>1, <1>2, SocketsUntouched DEF Begin

LEMMA ConstructInv ==
  ASSUME ConnectInv, NEW c \in Clients, NEW list \in ConLists, NEW password \in BOOLEAN,
         Construct(c, list, password)
  PROVE  ConnectInv'
<1>1. list \in Seq(Wanted)
  BY ConnectAssumption DEF Wanted
<1>2. list # <<>> /\ Begin(c, list, password)
  BY DEF Construct
<1> QED BY <1>1, <1>2, BeginInv

LEMMA CloneInv ==
  ASSUME ConnectInv, NEW c \in Clients, NEW d \in Clients, clone(c, d)
  PROVE  ConnectInv'
<1> DEFINE list == [k \in 1 .. Len(cons[d]) |-> [srv |-> cons[d][k].srv, db |-> cons[d][k].db]]
<1>1. cons[d] \in Seq(Made) /\ cons[d] # <<>> /\ Begin(c, list, FALSE)
  BY DEF ConnectInv, ShapeInv, LifeInv, clone
<1>2. Len(cons[d]) \in Nat /\ Len(cons[d]) # 0
  BY <1>1
<1>3. \A k \in 1 .. Len(cons[d]) : cons[d][k] \in Made
  BY <1>1
<1>4. \A k \in 1 .. Len(cons[d]) : [srv |-> cons[d][k].srv, db |-> cons[d][k].db] \in Wanted
  BY <1>3 DEF Made, Wanted
<1>5. list \in Seq(Wanted) /\ list # <<>>
  BY <1>2, <1>4
<1> HIDE DEF list
<1> QED BY <1>1, <1>5, BeginInv

LEMMA AuthInv ==
  ASSUME ConnectInv, NEW c \in Clients, auth(c)
  PROVE  ConnectInv'
<1> USE DEF ConnectInv
<1>1. ShapeInv'
  BY DEF ShapeInv, LifeInv, auth
<1>2. LifeInv'
  BY DEF ShapeInv, LifeInv, auth
<1> QED BY <1>1, <1>2, SocketsUntouched DEF auth

(* A constructor throws: all its sockets, and perhaps one it just opened, are *)
(* left open.                                                               *)
LEMMA ThrowInv ==
  ASSUME ConnectInv, NEW c \in Clients, NEW fds \in SUBSET (Fds \ open),
         open' = open \cup fds, Throw(c, Held(c) \cup fds)
  PROVE  ConnectInv'
<1> USE DEF ConnectInv
<1>1. \A x \in Clients : /\ Held(x) \subseteq open \ leaked
                         /\ x # c => Held(x) \cap Held(c) = {}
  BY DEF SocketInv
<1>2. /\ st' = [st EXCEPT ![c] = "none"] /\ todo' = [todo EXCEPT ![c] = <<>>]
      /\ cons' = [cons EXCEPT ![c] = <<>>] /\ cur' = [cur EXCEPT ![c] = NoFd]
      /\ leaked' = leaked \cup Held(c) \cup fds
      /\ UNCHANGED <<sel, authed, pw>>
  BY DEF Throw
<1>3. cons[c]' = <<>> /\ cur[c]' = NoFd /\ \A x \in Clients \ {c} : cons[x]' = cons[x] /\ cur[x]' = cur[x]
  BY <1>2 DEF ShapeInv
<1>4. Held(c)' = {} /\ \A x \in Clients \ {c} : Held(x)' = Held(x)
  BY <1>3 DEF Held
<1>5. ShapeInv'
  BY <1>1, <1>2 DEF ShapeInv
<1>6. LifeInv'
  BY <1>2 DEF ShapeInv, LifeInv
<1>7. SocketInv'
  <2> SUFFICES ASSUME NEW x \in Clients
               PROVE  /\ Held(x)' \subseteq open' \ leaked'
                      /\ \A d \in Clients : x # d => Held(x)' \cap Held(d)' = {}
                      /\ Distinct(cons[x])'
                      /\ cur[x]' \notin FdsOf(cons[x])'
    BY DEF SocketInv
  <2>1. Held(x)' \subseteq open' \ leaked'
    BY <1>1, <1>2, <1>4
  <2>2. \A d \in Clients : x # d => Held(x)' \cap Held(d)' = {}
    BY <1>4 DEF SocketInv
  <2>3. CASE x = c
    BY <2>1, <2>2, <2>3, <1>3, FdsOfEmpty DEF Distinct, FdsOf
  <2>4. CASE x # c
    <3>1. Distinct(cons[x]) /\ cur[x] \notin FdsOf(cons[x])
      BY DEF SocketInv
    <3> QED BY <2>1, <2>2, <2>4, <3>1, <1>3 DEF Distinct, FdsOf
  <2> QED BY <2>3, <2>4
<1>8. OnlyThrowLeaks'
  BY <1>2, <1>4 DEF OnlyThrowLeaks
<1>9. RecordedIsSelected'
  BY <1>2, <1>3 DEF RecordedIsSelected, Twins
<1> QED BY <1>5, <1>6, <1>7, <1>8, <1>9

LEMMA ConnectFailsInv ==
  ASSUME ConnectInv, NEW c \in Clients, ConnectFails(c)
  PROVE  ConnectInv'
<1>1. CASE Throw(c, Held(c)) /\ UNCHANGED open
  <2>1. Held(c) = Held(c) \cup {} /\ open' = open \cup {}
    BY <1>1
  <2>2. Throw(c, Held(c) \cup {}) /\ {} \in SUBSET (Fds \ open)
    BY <1>1, <2>1
  <2> QED BY <2>1, <2>2, ThrowInv
<1>2. ASSUME NEW f \in Fds \ open, open' = open \cup {f}, Throw(c, Held(c) \cup {f})
      PROVE  ConnectInv'
  <2>1. {f} \in SUBSET (Fds \ open)
    OBVIOUS
  <2> QED BY <1>2, <2>1, ThrowInv
<1> QED BY <1>1, <1>2 DEF ConnectFails

LEMMA CommandFailsInv ==
  ASSUME ConnectInv, NEW c \in Clients, CommandFails(c)
  PROVE  ConnectInv'
<1>1. Held(c) = Held(c) \cup {} /\ open' = open \cup {}
  BY DEF CommandFails
<1>2. Throw(c, Held(c) \cup {}) /\ {} \in SUBSET (Fds \ open)
  BY <1>1 DEF CommandFails
<1> QED BY <1>1, <1>2, ThrowInv

(* A new socket, which was nobody's, for the connection being made.          *)
LEMMA ConnectStepInv ==
  ASSUME ConnectInv, NEW c \in Clients, Connect(c)
  PROVE  ConnectInv'
<1> USE DEF ConnectInv
<1>1. PICK f \in Fds \ open :
        /\ open' = open \cup {f} /\ cur' = [cur EXCEPT ![c] = f]
        /\ sel' = [sel EXCEPT ![f] = 0] /\ authed' = authed \ {f}
        /\ st' = [st EXCEPT ![c] = IF pw[c] THEN "auth" ELSE "select"]
  BY DEF Connect
<1>2. st[c] = "connect" /\ UNCHANGED <<todo, cons, pw, leaked>>
  BY DEF Connect
<1>3. cur[c] = NoFd /\ f # NoFd
  BY <1>2, NoFdIsNone DEF LifeInv
<1>4. cur[c]' = f /\ \A x \in Clients \ {c} : cur[x]' = cur[x]
  BY <1>1 DEF ShapeInv
<1>5. Held(c)' = Held(c) \cup {f} /\ \A x \in Clients \ {c} : Held(x)' = Held(x)
  BY <1>2, <1>3, <1>4 DEF Held
<1>6. \A x \in Clients : Held(x) \subseteq open \ leaked
  BY DEF SocketInv
<1>7. \A x \in Clients : \A k \in 1 .. Len(cons[x]) : cons[x][k].fd \in Held(x)
  BY DEF Held
<1>8. ShapeInv'
  BY <1>1, <1>2, ConnectAssumption DEF ShapeInv
<1>9. LifeInv'
  BY <1>1, <1>2, <1>3 DEF ShapeInv, LifeInv
<1>10. SocketInv'
  <2> SUFFICES ASSUME NEW x \in Clients
               PROVE  /\ Held(x)' \subseteq open' \ leaked'
                      /\ \A d \in Clients : x # d => Held(x)' \cap Held(d)' = {}
                      /\ Distinct(cons[x])'
                      /\ cur[x]' \notin FdsOf(cons[x])'
    BY DEF SocketInv
  <2>1. Held(x)' \subseteq open' \ leaked'
    BY <1>1, <1>2, <1>5, <1>6 DEF ShapeInv
  <2>2. \A d \in Clients : x # d => Held(x)' \cap Held(d)' = {}
    BY <1>5, <1>6 DEF SocketInv
  <2>3. Distinct(cons[x])'
    BY <1>2 DEF SocketInv
  <2>4. cur[x]' \notin FdsOf(cons[x])
    <3>1. CASE x = c
      BY <1>4, <1>6, <1>7, <3>1 DEF FdsOf
    <3>2. CASE x # c
      BY <1>4, <3>2 DEF SocketInv
    <3> QED BY <3>1, <3>2
  <2>5. cur[x]' \notin FdsOf(cons[x])'
    BY <2>4, <1>2
  <2> QED BY <2>1, <2>2, <2>3, <2>5
<1>11. OnlyThrowLeaks'
  BY <1>1, <1>2, <1>5 DEF OnlyThrowLeaks
<1>12. RecordedIsSelected'
  <2>1. \A x \in Clients : \A k \in 1 .. Len(cons[x]) :
          sel'[cons[x][k].fd] = sel[cons[x][k].fd]
    BY <1>1, <1>6, <1>7 DEF ShapeInv
  <2> QED BY <1>2, <2>1 DEF RecordedIsSelected, Twins
<1> QED BY <1>8, <1>9, <1>10, <1>11, <1>12

(* The socket passes from the constructor's hands to the list.               *)
LEMMA SelectInv ==
  ASSUME ConnectInv, NEW c \in Clients, select(c)
  PROVE  ConnectInv'
<1> USE DEF ConnectInv
<1> DEFINE con == Head(todo[c])
           e == [fd |-> cur[c], srv |-> con.srv, db |-> con.db]
<1>1. /\ st[c] = "select"
      /\ sel' = [sel EXCEPT ![cur[c]] = con.db]
      /\ cons' = [cons EXCEPT ![c] = Append(cons[c], e)]
      /\ cur' = [cur EXCEPT ![c] = NoFd] /\ todo' = [todo EXCEPT ![c] = Tail(todo[c])]
      /\ st' = [st EXCEPT ![c] = IF Len(todo[c]) = 1 THEN "live" ELSE "connect"]
      /\ UNCHANGED <<open, authed, pw, leaked>>
  BY DEF select
<1>2. todo[c] \in Seq(Wanted) /\ todo[c] # <<>> /\ cur[c] # NoFd /\ cur[c] \in Fds
  BY <1>1 DEF ShapeInv, LifeInv
<1>3. con \in Wanted /\ Tail(todo[c]) \in Seq(Wanted) /\ (Tail(todo[c]) = <<>> <=> Len(todo[c]) = 1)
  BY <1>2, HeadAndTail
<1>4. e \in Made /\ e.fd = cur[c] /\ e.srv = con.srv /\ e.db = con.db /\ con.db \in DBs
  BY <1>2, <1>3 DEF Wanted, Made
<1> HIDE DEF con, e
<1>5. cons[c] \in Seq(Made)
  BY DEF ShapeInv
<1>6. /\ Append(cons[c], e) \in Seq(Made) /\ Append(cons[c], e) # <<>>
      /\ Len(Append(cons[c], e)) = Len(cons[c]) + 1 /\ Len(cons[c]) \in Nat
      /\ Append(cons[c], e)[Len(cons[c]) + 1] = e
      /\ \A k \in 1 .. Len(cons[c]) : Append(cons[c], e)[k] = cons[c][k]
  BY <1>4, <1>5
<1>7. cons[c]' = Append(cons[c], e) /\ cur[c]' = NoFd
  BY <1>1 DEF ShapeInv
<1>8. \A x \in Clients \ {c} : cons[x]' = cons[x] /\ cur[x]' = cur[x]
  BY <1>1 DEF ShapeInv
<1>9. \A x \in Clients : Held(x)' = Held(x)
  <2>1. \A x \in Clients \ {c} : Held(x)' = Held(x)
    BY <1>8 DEF Held
  <2>2. Held(c) = FdsOf(cons[c]) \cup {cur[c]}
    BY <1>2 DEF Held, FdsOf
  <2>3. Held(c)' = FdsOf(cons[c]')
    BY <1>7 DEF Held, FdsOf
  <2> QED BY <2>1, <2>2, <2>3, <1>4, <1>5, <1>7, FdsOfAppend
<1>10. ShapeInv'
  BY <1>1, <1>2, <1>3, <1>4, <1>6 DEF ShapeInv
<1>11. LifeInv'
  BY <1>1, <1>3, <1>6 DEF ShapeInv, LifeInv
<1>12. SocketInv'
  <2> SUFFICES ASSUME NEW x \in Clients
               PROVE  /\ Held(x)' \subseteq open' \ leaked'
                      /\ \A d \in Clients : x # d => Held(x)' \cap Held(d)' = {}
                      /\ Distinct(cons[x]')
                      /\ cur[x]' \notin FdsOf(cons[x]')
    BY DEF SocketInv, Distinct, FdsOf
  <2>1. Held(x)' \subseteq open' \ leaked'
    BY <1>1, <1>9 DEF SocketInv
  <2>2. \A d \in Clients : x # d => Held(x)' \cap Held(d)' = {}
    BY <1>9 DEF SocketInv
  <2>3. CASE x = c
    <3>1. Distinct(Append(cons[c], e))
      BY <1>4, <1>5, DistinctAppend DEF SocketInv
    <3>2. NoFd \notin FdsOf(Append(cons[c], e))
      BY <1>6, FdsOfType, NoFdIsNone
    <3> QED BY <2>1, <2>2, <2>3, <3>1, <3>2, <1>7
  <2>4. CASE x # c
    BY <2>1, <2>2, <2>4, <1>8 DEF SocketInv
  <2> QED BY <2>3, <2>4
<1>13. OnlyThrowLeaks'
  BY <1>1, <1>9 DEF OnlyThrowLeaks
<1>14. RecordedIsSelected'
  <2> SUFFICES ASSUME NEW x \in Clients, ~Twins(x)', NEW k \in 1 .. Len(cons[x]')
               PROVE  sel'[cons[x]'[k].fd] = cons[x]'[k].db
    BY DEF RecordedIsSelected
  <2>1. \A y \in Clients : \A j \in 1 .. Len(cons[y]) :
          sel'[cons[y][j].fd] = sel[cons[y][j].fd]
    <3> SUFFICES ASSUME NEW y \in Clients, NEW j \in 1 .. Len(cons[y])
                 PROVE  cons[y][j].fd # cur[c] /\ cons[y][j].fd \in Fds
      BY <1>1, <1>2 DEF ShapeInv
    <3>1. cons[y][j].fd \in FdsOf(cons[y]) /\ cons[y][j].fd \in Held(y) /\ cur[c] \in Held(c)
      BY <1>2 DEF Held, FdsOf
    <3>2. cons[y][j].fd \in Fds
      BY <3>1 DEF SocketInv, ShapeInv
    <3> QED BY <3>1, <3>2 DEF SocketInv
  <2>2. CASE x # c
    BY <2>1, <2>2, <1>8 DEF RecordedIsSelected, Twins
  <2>3. CASE x = c
    <3>1. CASE k = Len(cons[c]) + 1
      BY <2>3, <3>1, <1>1, <1>2, <1>4, <1>6, <1>7 DEF ShapeInv
    <3>2. CASE k # Len(cons[c]) + 1
      <4>1. k \in 1 .. Len(cons[c]) /\ cons[x]'[k] = cons[c][k]
        BY <2>3, <3>2, <1>6, <1>7
      <4>2. ~Twins(c)
        BY <2>3, <1>6, <1>7 DEF Twins
      <4> QED BY <4>1, <4>2, <2>1, <2>3 DEF RecordedIsSelected
    <3> QED BY <3>1, <3>2
  <2> QED BY <2>2, <2>3
<1> QED BY <1>10, <1>11, <1>12, <1>13, <1>14

(* SELECT on a listed connection: sockets and their owners stay as they are. *)
LEMMA SelectConInv ==
  ASSUME ConnectInv, NEW c \in Clients, NEW k \in 1 .. Len(cons[c]), NEW d \in DBs,
         select_con(c, k, d)
  PROVE  ConnectInv'
<1> USE DEF ConnectInv
<1> DEFINE s == cons[c]
           t == [j \in 1 .. Len(s) |->
                  IF j <= k /\ s[j].srv = s[k].srv /\ s[j].db = s[k].db
                  THEN [s[j] EXCEPT !.db = d] ELSE s[j]]
<1>1. /\ st[c] = "live"
      /\ sel' = [sel EXCEPT ![s[k].fd] = d]
      /\ cons' = [cons EXCEPT ![c] = t]
      /\ UNCHANGED <<open, authed, st, todo, cur, pw, leaked>>
  BY DEF select_con
<1>2. s \in Seq(Made) /\ cons[c]' = t /\ \A x \in Clients \ {c} : cons[x]' = cons[x]
  BY <1>1 DEF ShapeInv
<1>3. Len(s) \in Nat /\ \A j \in 1 .. Len(s) : s[j] \in Made
  BY <1>2
<1>4. \A j \in 1 .. Len(s) :
        t[j] \in Made /\ t[j].fd = s[j].fd /\ t[j].srv = s[j].srv
  BY <1>3 DEF Made
<1>5. t[k].db = d
  BY <1>3 DEF Made
<1>6. \A j \in 1 .. Len(s) : s[j].srv # s[k].srv => t[j] = s[j]
  OBVIOUS
<1>7. t \in Seq(Made) /\ Len(t) = Len(s) /\ t # <<>>
  <2>1. DOMAIN t = 1 .. Len(s) /\ t = [j \in 1 .. Len(s) |-> t[j]]
    OBVIOUS
  <2> HIDE DEF t
  <2>2. t \in Seq(Made) /\ Len(t) = Len(s)
    BY <2>1, <1>3, <1>4
  <2> QED BY <2>2, <1>3, EmptySeq
<1> HIDE DEF t
<1>8. \A x \in Clients : Held(x)' = Held(x)
  <2>1. FdsOf(t) = FdsOf(s)
    BY <1>4, <1>7 DEF FdsOf
  <2>2. \A x \in Clients : FdsOf(cons[x]') = FdsOf(cons[x])
    BY <2>1, <1>2
  <2> QED BY <2>2, <1>1 DEF Held, FdsOf
<1>9. ShapeInv'
  <2>1. s[k].fd \in Fds
    BY <1>3 DEF Made
  <2> QED BY <1>1, <1>7, <2>1 DEF ShapeInv
<1>10. LifeInv'
  <2>1. \A x \in Clients : cons[x]' = <<>> <=> cons[x] = <<>>
    BY <1>2, <1>3, <1>7
  <2> QED BY <1>1, <2>1 DEF LifeInv
<1>11. SocketInv'
  <2> SUFFICES ASSUME NEW x \in Clients
               PROVE  /\ Held(x)' \subseteq open' \ leaked'
                      /\ \A y \in Clients : x # y => Held(x)' \cap Held(y)' = {}
                      /\ Distinct(cons[x]')
                      /\ cur[x]' \notin FdsOf(cons[x]')
    BY DEF SocketInv, Distinct, FdsOf
  <2>1. Held(x)' \subseteq open' \ leaked'
    BY <1>1, <1>8 DEF SocketInv
  <2>2. \A y \in Clients : x # y => Held(x)' \cap Held(y)' = {}
    BY <1>8 DEF SocketInv
  <2>3. CASE x = c
    <3>1. Distinct(s) /\ cur[c] \notin FdsOf(s)
      BY DEF SocketInv
    <3>2. Distinct(t) /\ cur[c] \notin FdsOf(t)
      BY <3>1, <1>4, <1>7 DEF Distinct, FdsOf
    <3> QED BY <2>1, <2>2, <2>3, <3>2, <1>1, <1>2
  <2>4. CASE x # c
    BY <2>1, <2>2, <2>4, <1>1, <1>2 DEF SocketInv
  <2> QED BY <2>3, <2>4
<1>12. OnlyThrowLeaks'
  BY <1>1, <1>8 DEF OnlyThrowLeaks
<1>13. RecordedIsSelected'
  <2> SUFFICES ASSUME NEW x \in Clients, ~Twins(x)', NEW j \in 1 .. Len(cons[x]')
               PROVE  sel'[cons[x]'[j].fd] = cons[x]'[j].db
    BY DEF RecordedIsSelected
  <2>1. ASSUME NEW y \in Clients, NEW i \in 1 .. Len(cons[y]), y # c \/ i # k
        PROVE  sel'[cons[y][i].fd] = sel[cons[y][i].fd]
    <3>1. cons[y][i].fd \in Held(y) /\ s[k].fd \in Held(c)
      BY DEF Held
    <3>2. cons[y][i].fd # s[k].fd
      BY <2>1, <3>1 DEF SocketInv, Distinct
    <3>3. cons[y][i].fd \in Fds
      BY <3>1 DEF SocketInv, ShapeInv
    <3> QED BY <3>2, <3>3, <1>1 DEF ShapeInv
  <2>2. CASE x # c
    BY <2>1, <2>2, <1>2 DEF RecordedIsSelected, Twins
  <2>3. CASE x = c
    <3>1. j \in 1 .. Len(s) /\ cons[x]' = t
      BY <2>3, <1>2, <1>7
    <3>2. ~Twins(c)
      BY <2>3, <3>1, <1>4, <1>7 DEF Twins
    <3>3. CASE j = k
      <4>1. s[k].fd \in Fds
        BY <1>3 DEF Made
      <4>2. sel'[s[k].fd] = d
        BY <1>1, <4>1 DEF ShapeInv
      <4> QED BY <3>1, <3>3, <4>2, <1>4, <1>5
    <3>4. CASE j # k
      <4>1. s[j].srv # s[k].srv
        BY <3>1, <3>2, <3>4 DEF Twins
      <4>2. t[j] = s[j]
        BY <3>1, <4>1, <1>6
      <4>3. sel[s[j].fd] = s[j].db
        BY <3>1, <3>2 DEF RecordedIsSelected
      <4>4. sel'[s[j].fd] = sel[s[j].fd]
        BY <3>1, <3>4, <2>1
      <4> QED BY <3>1, <4>2, <4>3, <4>4
    <3> QED BY <3>3, <3>4
  <2> QED BY <2>2, <2>3
<1> QED BY <1>9, <1>10, <1>11, <1>12, <1>13

LEMMA DestroyInv ==
  ASSUME ConnectInv, NEW c \in Clients, Destroy(c)
  PROVE  ConnectInv'
<1> USE DEF ConnectInv
<1>1. /\ st[c] = "live"
      /\ open' = open \ Held(c)
      /\ st' = [st EXCEPT ![c] = "none"] /\ cons' = [cons EXCEPT ![c] = <<>>]
      /\ UNCHANGED <<sel, authed, todo, cur, pw, leaked>>
  BY DEF Destroy
<1>2. cur[c] = NoFd
  BY <1>1 DEF LifeInv
<1>3. cons[c]' = <<>> /\ \A x \in Clients \ {c} : cons[x]' = cons[x]
  BY <1>1 DEF ShapeInv
<1>4. Held(c)' = {} /\ \A x \in Clients \ {c} : Held(x)' = Held(x)
  BY <1>1, <1>2, <1>3 DEF Held
<1>5. \A x \in Clients : /\ Held(x) \subseteq open \ leaked
                         /\ \A d \in Clients : x # d => Held(x) \cap Held(d) = {}
  BY DEF SocketInv
<1>6. ShapeInv'
  BY <1>1, <1>5 DEF ShapeInv
<1>7. LifeInv'
  BY <1>1 DEF ShapeInv, LifeInv
<1>8. SocketInv'
  <2> SUFFICES ASSUME NEW x \in Clients
               PROVE  /\ Held(x)' \subseteq open' \ leaked'
                      /\ \A d \in Clients : x # d => Held(x)' \cap Held(d)' = {}
                      /\ Distinct(cons[x]')
                      /\ cur[x]' \notin FdsOf(cons[x]')
    BY DEF SocketInv, Distinct, FdsOf
  <2>1. Held(x)' \subseteq open' \ leaked'
    BY <1>1, <1>4, <1>5
  <2>2. \A d \in Clients : x # d => Held(x)' \cap Held(d)' = {}
    BY <1>4, <1>5
  <2>3. CASE x = c
    BY <2>1, <2>2, <2>3, <1>3, FdsOfEmpty
  <2>4. CASE x # c
    BY <2>1, <2>2, <2>4, <1>1, <1>3 DEF SocketInv
  <2> QED BY <2>3, <2>4
<1>9. OnlyThrowLeaks'
  BY <1>1, <1>4 DEF OnlyThrowLeaks
<1>10. RecordedIsSelected'
  BY <1>1, <1>3 DEF RecordedIsSelected, Twins
<1> QED BY <1>6, <1>7, <1>8, <1>9, <1>10

-----------------------------------------------------------------------------
LEMMA InitConnectInv == Init => ConnectInv
<1> SUFFICES ASSUME Init PROVE ConnectInv
  OBVIOUS
<1>1. \A c \in Clients : Held(c) = {} /\ cons[c] = <<>> /\ cur[c] = NoFd
  BY DEF Init, Held
<1>2. ShapeInv
  BY ConnectAssumption DEF Init, ShapeInv
<1>3. LifeInv
  BY DEF Init, LifeInv
<1>4. SocketInv
  BY <1>1, FdsOfEmpty DEF Init, SocketInv
<1>5. OnlyThrowLeaks /\ RecordedIsSelected
  BY <1>1 DEF Init, OnlyThrowLeaks, RecordedIsSelected
<1> QED BY <1>2, <1>3, <1>4, <1>5 DEF ConnectInv

LEMMA NextConnectInv == ConnectInv /\ [Next]_vars => ConnectInv'
<1> SUFFICES ASSUME ConnectInv, [Next]_vars PROVE ConnectInv'
  OBVIOUS
<1>1. CASE UNCHANGED vars
  <2>1. ShapeInv' /\ LifeInv'
    BY <1>1 DEF ConnectInv, ShapeInv, LifeInv, vars
  <2>2. SocketInv' /\ OnlyThrowLeaks' /\ RecordedIsSelected'
    BY <1>1, SocketsUntouched DEF ConnectInv, vars
  <2> QED BY <2>1, <2>2 DEF ConnectInv
<1>2. CASE Next
  <2> PICK c \in Clients :
        \/ \E list \in ConLists, password \in BOOLEAN : Construct(c, list, password)
        \/ \E d \in Clients : clone(c, d)
        \/ Connect(c) \/ ConnectFails(c) \/ auth(c) \/ CommandFails(c) \/ select(c) \/ Destroy(c)
        \/ \E k \in 1 .. Len(cons[c]), d \in DBs : select_con(c, k, d)
    BY <1>2 DEF Next
  <2> QED BY ConstructInv, CloneInv, ConnectStepInv, ConnectFailsInv, AuthInv,
             CommandFailsInv, SelectInv, DestroyInv, SelectConInv
<1> QED BY <1>1, <1>2

LEMMA ConnectInvAlways == Spec => []ConnectInv
BY InitConnectInv, NextConnectInv, PTL DEF Spec

LEMMA InvOwnSockets == ConnectInv => OwnSockets
<1> SUFFICES ASSUME ConnectInv PROVE OwnSockets
  OBVIOUS
<1>1. TypeOK
  <2> SUFFICES ASSUME NEW c \in Clients
               PROVE  /\ st[c] \in {"none", "connect", "auth", "select", "live"}
                      /\ st[c] \in {"connect", "auth", "select"} <=> todo[c] # <<>>
                      /\ cur[c] \in Fds <=> st[c] \in {"auth", "select"}
                      /\ \A k \in 1 .. Len(cons[c]) :
                           /\ cons[c][k].fd \in Fds
                           /\ cons[c][k].srv \in Servers /\ cons[c][k].db \in DBs
    BY DEF TypeOK, ConnectInv, ShapeInv
  <2>1. \A k \in 1 .. Len(cons[c]) : cons[c][k] \in Made
    BY DEF ConnectInv, ShapeInv
  <2>2. cur[c] \in Fds <=> cur[c] # NoFd
    BY NoFdIsNone DEF ConnectInv, ShapeInv
  <2> QED BY <2>1, <2>2 DEF ConnectInv, ShapeInv, LifeInv, Made
<1> QED BY <1>1 DEF OwnSockets, ConnectInv, SocketInv, Distinct

(* No two connections share a socket, and the sockets of a client are open   *)
(* and not leaked, for any clients, lists and interleaving of constructors,  *)
(* clone(), select() and destructors.                                        *)
THEOREM SocketsAreOwn == Spec => []OwnSockets
BY ConnectInvAlways, InvOwnSockets, PTL

(* Every open socket is a client's or was left by a constructor that threw:  *)
(* the destructor closes all that the constructor opened.                    *)
THEOREM OnlyThrowingLeaks == Spec => []OnlyThrowLeaks
<1>1. ConnectInv => OnlyThrowLeaks
  BY DEF ConnectInv
<1> QED BY <1>1, ConnectInvAlways, PTL

(* The database a connection records is the one its server has selected, for *)
(* every client with at most one connection to each server.                  *)
THEOREM RecordsAreRight == Spec => []RecordedIsSelected
<1>1. ConnectInv => RecordedIsSelected
  BY DEF ConnectInv
<1> QED BY <1>1, ConnectInvAlways, PTL

=============================================================================
