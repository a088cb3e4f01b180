------------------------- MODULE QuoteHost_proofs -------------------------
(***************************************************************************)
(* Proofs about the connection table and about the host program composed   *)
(* with it.  The first part is about TdxConnPool alone, for any number of   *)
(* threads, slots and addresses and any behaviour of the servers; the       *)
(* second about QuoteHost, for any number of threads, stocks, minutes and   *)
(* slots, and whatever the servers, redis and recv() do.  The second uses   *)
(* the first: a step of the host is a step of the table or leaves it alone. *)
(***************************************************************************)
EXTENDS QuoteHost, TLAPS

-----------------------------------------------------------------------------
(* The connection table.                                                    *)

(* The owner of the lock is exactly the thread inside connect(), and the    *)
(* slot it dials is still the one nConnectID names.                         *)
LockInv ==
  \A c \in Clients :
    /\ pmtx = c <=> pc[c] = "connect"
    /\ pc[c] = "connect" => slot[c] = nConnectID /\ conID[c] < 0

(* Before TDXHQ_Init nothing has happened; an ini file longer than the      *)
(* table is fatal.                                                          *)
StartInv ==
  /\ initRet = 0 => /\ pmtx = NoMutex
                    /\ \A sl \in Slots : skHQ[sl] = INVALID
                    /\ nIP = 0 /\ nCurentIP = 0
                    /\ \A a \in 0 .. MAXIP : dials[a] = 0
  /\ nIP > MAXIP => fault /\ nCurentIP = 0
  /\ nCurentIP <= nIP

(* The inductive invariant behind the ownership results.                    *)
PoolInv ==
  /\ TypeOK
  /\ LockInv
  /\ StartInv
  /\ UniqueOwner
  /\ HeldIffEstablished

LEMMA InitPoolInv == Init => PoolInv
<1> SUFFICES ASSUME Init PROVE PoolInv
  OBVIOUS
<1>1. TypeOK
  <2>1. fault \in BOOLEAN
    BY DEF Init
  <2>2. skHQ \in [Slots -> SocketStates] /\ nConnectID \in Slots
    BY PoolAssumption DEF Init, Slots, SocketStates
  <2>3. slot \in [Clients -> Slots] /\ pc \in [Clients -> {"out", "connect"}]
    BY PoolAssumption DEF Init, Slots
  <2>4. /\ conID \in [Clients -> Slots \cup {-1, TDXHQ_ERROR_CONT}]
        /\ nIP \in Nat /\ nCurentIP \in 0 .. MAXIP
        /\ dials \in [0 .. MAXIP -> Nat]
    BY PoolAssumption DEF Init
  <2>5. QED
    BY <2>1, <2>2, <2>3, <2>4 DEF Init, TypeOK
<1>2. LockInv /\ UniqueOwner
  BY PoolAssumption DEF Init, LockInv, UniqueOwner
<1>3. StartInv
  BY PoolAssumption DEF Init, StartInv
<1>4. HeldIffEstablished
  BY PoolAssumption DEF Init, HeldIffEstablished, Slots, INVALID
<1>5. QED
  BY <1>1, <1>2, <1>3, <1>4 DEF PoolInv

(* Where the rotation goes from an index of the table.                      *)
LEMMA RotationStep ==
  ASSUME NEW n \in Nat \ {0}, NEW x \in 0 .. n
  PROVE  (x % n) + 1 = IF x = n THEN 1 ELSE x + 1
  OBVIOUS

(* The index the next call dials stays inside 0..MAXIP.                     *)
LEMMA NextIPInRange ==
  ASSUME PoolInv, ~fault
  PROVE  /\ NextIP \in 0 .. MAXIP
         /\ nIP > 0 => NextIP \in 1 .. nIP
<1>1. CASE nIP = 0
  BY <1>1 DEF PoolInv, TypeOK, NextIP
<1>2. CASE nIP # 0
  <2>1. nIP \in Nat \ {0} /\ nCurentIP \in 0 .. nIP /\ nIP <= MAXIP
    BY <1>2, PoolAssumption DEF PoolInv, TypeOK, StartInv
  <2>2. (nCurentIP % nIP) + 1 = IF nCurentIP = nIP THEN 1 ELSE nCurentIP + 1
    BY <2>1, RotationStep
  <2>3. QED
    BY <2>1, <2>2, PoolAssumption DEF NextIP
<1>3. QED
  BY <1>1, <1>2

(* What ConnectEnter does to the table: it changes at most one slot, which  *)
(* was INVALID, and leaves the table a table.                               *)
LEMMA EnterSlot ==
  ASSUME TypeOK, PickSlot, OpenSocket
  PROVE  /\ nConnectID' \in Slots
         /\ skHQ' \in [Slots -> SocketStates]
         /\ \A sl \in Slots : \/ skHQ'[sl] = skHQ[sl]
                              \/ /\ skHQ[sl] = INVALID
                                 /\ skHQ'[sl] \in {"open", INVALID}
<1>1. nConnectID' \in Slots
  BY DEF TypeOK, PickSlot
<1>2. CASE skHQ[nConnectID'] = INVALID
  <2>1. PICK s \in {"open", INVALID} : skHQ' = [skHQ EXCEPT ![nConnectID'] = s]
    BY <1>2 DEF OpenSocket
  <2>2. QED
    BY <1>1, <1>2, <2>1 DEF TypeOK, SocketStates
<1>3. CASE skHQ[nConnectID'] # INVALID
  BY <1>1, <1>3 DEF OpenSocket, TypeOK
<1>4. QED
  BY <1>1, <1>2, <1>3

LEMMA NextPoolInv == PoolInv /\ [Next]_vars => PoolInv'
<1> SUFFICES ASSUME PoolInv, [Next]_vars PROVE PoolInv'
  OBVIOUS
<1> USE PoolAssumption
<1>1. CASE InitNoConfig
  <2>1. TypeOK'
    BY <1>1 DEF PoolInv, TypeOK, InitNoConfig
  <2>2. QED
    BY <1>1, <2>1
    DEF PoolInv, InitNoConfig, LockInv, StartInv, UniqueOwner,
        HeldIffEstablished, TDXHQ_ERROR_COFG
<1>2. ASSUME NEW k \in IniLines, InitOK(k) PROVE PoolInv'
  <2>1. TypeOK'
    <3>1. fault' \in BOOLEAN
      BY <1>2 DEF InitOK
    <3>2. QED
      BY <1>2, <3>1 DEF PoolInv, TypeOK, InitOK, Slots, SocketStates
  <2>2. LockInv' /\ UniqueOwner'
    BY <1>2 DEF PoolInv, TypeOK, InitOK, LockInv, StartInv, UniqueOwner
  <2>3. StartInv'
    <3>1. nIP' > MAXIP => fault'
      BY <1>2 DEF InitOK
    <3>2. nCurentIP' = 0 /\ nIP' \in Nat /\ initRet' # 0
      BY <1>2 DEF InitOK, TDXHQ_ERROR_OK
    <3>3. QED
      BY <3>1, <3>2 DEF StartInv
  <2>4. HeldIffEstablished'
    BY <1>2 DEF PoolInv, InitOK, HeldIffEstablished, StartInv, INVALID
  <2>5. QED
    BY <2>1, <2>2, <2>3, <2>4 DEF PoolInv
<1>3. ASSUME NEW c \in Clients, ConnectEnter(c) PROVE PoolInv'
  <2>0. /\ NextIP \in 0 .. MAXIP
        /\ nIP > 0 => NextIP \in 1 .. nIP
    BY <1>3, NextIPInRange DEF ConnectEnter
  <2>1. /\ nConnectID' \in Slots
        /\ skHQ' \in [Slots -> SocketStates]
        /\ \A sl \in Slots : \/ skHQ'[sl] = skHQ[sl]
                             \/ /\ skHQ[sl] = INVALID
                                /\ skHQ'[sl] \in {"open", INVALID}
    BY <1>3, EnterSlot DEF PoolInv, ConnectEnter
  <2>2. TypeOK'
    <3>1. dials' \in [0 .. MAXIP -> Nat] /\ nCurentIP' \in 0 .. MAXIP
      BY <1>3, <2>0 DEF PoolInv, TypeOK, ConnectEnter
    <3>2. slot' \in [Clients -> Slots] /\ pc' \in [Clients -> {"out", "connect"}]
      BY <1>3, <2>1 DEF PoolInv, TypeOK, ConnectEnter
    <3>3. QED
      BY <1>3, <2>1, <3>1, <3>2 DEF PoolInv, TypeOK, ConnectEnter
  <2>3. LockInv'
    BY <1>3 DEF PoolInv, TypeOK, ConnectEnter, LockInv
  <2>4. StartInv'
    <3>1. nIP = 0 => NextIP = 0
      BY DEF PoolInv, TypeOK, StartInv, NextIP
    <3>2. QED
      BY <1>3, <2>0, <3>1 DEF PoolInv, TypeOK, ConnectEnter, StartInv
  <2>5. UniqueOwner'
    BY <1>3 DEF PoolInv, ConnectEnter, UniqueOwner
  <2>6. HeldIffEstablished'
    BY <1>3, <2>1 DEF PoolInv, ConnectEnter, HeldIffEstablished, INVALID
  <2>7. QED
    BY <2>2, <2>3, <2>4, <2>5, <2>6 DEF PoolInv
<1>4. ASSUME NEW c \in Clients, ConnectNullMutex(c) PROVE PoolInv'
  <2>1. TypeOK'
    BY <1>4 DEF PoolInv, TypeOK, ConnectNullMutex
  <2>2. QED
    BY <1>4, <2>1
    DEF PoolInv, ConnectNullMutex, LockInv, StartInv, UniqueOwner,
        HeldIffEstablished
<1>5. ASSUME NEW c \in Clients, ConnectOK(c) PROVE PoolInv'
  <2>1. slot[c] = nConnectID /\ nConnectID \in Slots /\ skHQ[nConnectID] = "open"
    BY <1>5 DEF PoolInv, TypeOK, LockInv, ConnectOK
  <2>2. \A d \in Clients : conID[d] # nConnectID
    BY <2>1 DEF PoolInv, HeldIffEstablished
  <2>3. TypeOK'
    BY <1>5, <2>1 DEF PoolInv, TypeOK, ConnectOK, SocketStates
  <2>4. LockInv'
    BY <1>5 DEF PoolInv, TypeOK, ConnectOK, LockInv
  <2>5. StartInv'
    BY <1>5 DEF PoolInv, ConnectOK, StartInv, LockInv
  <2>6. UniqueOwner'
    BY <1>5, <2>2 DEF PoolInv, TypeOK, ConnectOK, UniqueOwner
  <2>7. HeldIffEstablished'
    <3>1. conID[c] \notin Slots
      BY <1>5 DEF PoolInv, TypeOK, LockInv, ConnectOK, Slots
    <3>2. QED
      BY <1>5, <2>1, <3>1 DEF PoolInv, TypeOK, ConnectOK, HeldIffEstablished
  <2>8. QED
    BY <2>3, <2>4, <2>5, <2>6, <2>7 DEF PoolInv
<1>6. ASSUME NEW c \in Clients, ConnectFail(c) PROVE PoolInv'
  <2>1. TypeOK'
    BY <1>6 DEF PoolInv, TypeOK, ConnectFail
  <2>2. conID[c] \notin Slots /\ TDXHQ_ERROR_CONT \notin Slots
    BY <1>6 DEF PoolInv, TypeOK, LockInv, ConnectFail, Slots, TDXHQ_ERROR_CONT
  <2>3. LockInv'
    BY <1>6 DEF PoolInv, TypeOK, ConnectFail, LockInv
  <2>4. StartInv'
    BY <1>6 DEF PoolInv, ConnectFail, StartInv, LockInv
  <2>5. UniqueOwner'
    BY <1>6 DEF PoolInv, TypeOK, ConnectFail, UniqueOwner, TDXHQ_ERROR_CONT
  <2>6. HeldIffEstablished'
    BY <1>6, <2>2 DEF PoolInv, TypeOK, ConnectFail, HeldIffEstablished
  <2>7. QED
    BY <2>1, <2>3, <2>4, <2>5, <2>6 DEF PoolInv
<1>7. ASSUME NEW c \in Clients, DisConnect(c) PROVE PoolInv'
  <2>1. conID[c] \in Slots /\ -1 \notin Slots
    <3>1. conID[c] \in Slots \cup {-1, -4} /\ conID[c] >= 0
      BY <1>7 DEF PoolInv, TypeOK, DisConnect, TDXHQ_ERROR_CONT
    <3>2. QED
      BY <3>1 DEF Slots
  <2>2. TypeOK'
    BY <1>7, <2>1 DEF PoolInv, TypeOK, DisConnect, SocketStates
  <2>3. LockInv'
    BY <1>7 DEF PoolInv, TypeOK, DisConnect, LockInv
  <2>4. StartInv'
    BY <1>7 DEF PoolInv, DisConnect, StartInv
  <2>5. UniqueOwner'
    BY <1>7 DEF PoolInv, TypeOK, DisConnect, UniqueOwner
  <2>6. HeldIffEstablished'
    BY <1>7, <2>1
    DEF PoolInv, TypeOK, DisConnect, HeldIffEstablished, UniqueOwner, Slots,
        INVALID
  <2>7. QED
    BY <2>2, <2>3, <2>4, <2>5, <2>6 DEF PoolInv
<1>8. ASSUME NEW sl \in Slots, PeerClose(sl) PROVE PoolInv'
  <2>1. TypeOK'
    BY <1>8 DEF PoolInv, TypeOK, PeerClose, SocketStates
  <2>2. StartInv'
    BY <1>8 DEF PoolInv, PeerClose, StartInv, INVALID
  <2>3. HeldIffEstablished'
    BY <1>8 DEF PoolInv, TypeOK, PeerClose, HeldIffEstablished
  <2>4. QED
    BY <1>8, <2>1, <2>2, <2>3 DEF PoolInv, PeerClose, LockInv, UniqueOwner
<1>9. CASE UNCHANGED vars
  BY <1>9
  DEF vars, PoolInv, TypeOK, LockInv, StartInv, UniqueOwner,
      HeldIffEstablished
<1>10. QED
  BY <1>1, <1>2, <1>3, <1>4, <1>5, <1>6, <1>7, <1>8, <1>9 DEF Next

LEMMA PoolInvariant == Spec => []PoolInv
  BY InitPoolInv, NextPoolInv, PTL DEF Spec

(* Every reachable state is well typed: whatever the ini file, nCurentIP    *)
(* stays in 0..MAXIP and every id a caller holds is a slot.                 *)
THEOREM TypeCorrect == Spec => []TypeOK
  BY PoolInvariant, PTL DEF PoolInv

(* No two threads ever hold the same connection id.                         *)
THEOREM OwnersAreUnique == Spec => []UniqueOwner
  BY PoolInvariant, PTL DEF PoolInv

(* A connection is established exactly when some thread holds its id.       *)
THEOREM ConnectionsAreHeld == Spec => []HeldIffEstablished
  BY PoolInvariant, PTL DEF PoolInv

(* The address dialled is an entry of IPS, unless the ini file has exactly   *)
(* as many lines as the table has entries.                                   *)
THEOREM AddressesInTable == Spec => []AddressInTable
<1>1. PoolInv => AddressInTable
  BY PoolAssumption DEF PoolInv, TypeOK, StartInv, AddressInTable
<1>2. QED
  BY <1>1, PoolInvariant, PTL

-----------------------------------------------------------------------------
(* The rotation: after the wrap-arounds so far every entry up to nCurentIP  *)
(* has been dialled once more than the others, and entry 0 never.           *)
RotationInv ==
  nIP > 0 =>
    /\ dials[0] = 0
    /\ ~fault => \E k \in Nat : \A a \in 1 .. nIP :
                   dials[a] = IF a <= nCurentIP THEN k + 1 ELSE k

LEMMA NextRotationInv ==
  PoolInv /\ RotationInv /\ [Next]_vars => RotationInv'
<1> SUFFICES ASSUME PoolInv, RotationInv, [Next]_vars PROVE RotationInv'
  OBVIOUS
<1> USE PoolAssumption
<1>1. ASSUME NEW k \in IniLines, InitOK(k) PROVE RotationInv'
  <2>1. /\ nIP' = k /\ nCurentIP' = 0 /\ dials' = dials /\ k \in Nat
        /\ \A a \in 0 .. MAXIP : dials[a] = 0
        /\ 0 \in 0 .. MAXIP
    BY <1>1 DEF InitOK, PoolInv, StartInv
  <2>2. ~fault' => k <= MAXIP
    <3>1. ~fault' => ~(k > MAXIP)
      BY <1>1 DEF InitOK
    <3>2. QED
      BY <2>1, <3>1
  <2>3. ~fault' => \A a \in 1 .. nIP' : dials'[a] = IF a <= nCurentIP' THEN 1 ELSE 0
    BY <2>1, <2>2
  <2>4. QED
    BY <2>1, <2>3 DEF RotationInv
<1>2. ASSUME NEW c \in Clients, ConnectEnter(c) PROVE RotationInv'
  <2> SUFFICES ASSUME nIP > 0 PROVE RotationInv'
    BY <1>2 DEF ConnectEnter, RotationInv
  <2>1. /\ nIP \in Nat \ {0} /\ nCurentIP \in 0 .. nIP /\ nIP <= MAXIP
        /\ dials \in [0 .. MAXIP -> Nat]
    BY <1>2 DEF ConnectEnter, PoolInv, TypeOK, StartInv
  <2>2. NextIP = IF nCurentIP = nIP THEN 1 ELSE nCurentIP + 1
    BY <2>1, RotationStep DEF NextIP
  <2>3. /\ ~fault /\ nIP' = nIP /\ nCurentIP' = NextIP
        /\ dials' = [dials EXCEPT ![NextIP] = @ + 1]
    BY <1>2 DEF ConnectEnter
  <2>4. PICK k \in Nat : \A a \in 1 .. nIP :
                   dials[a] = IF a <= nCurentIP THEN k + 1 ELSE k
    BY <2>3 DEF RotationInv
  <2>5. dials'[0] = 0
    BY <2>1, <2>2, <2>3 DEF RotationInv
  <2>6. CASE nCurentIP = nIP
    <3>1. \A a \in 1 .. nIP :
             dials'[a] = IF a <= nCurentIP' THEN (k + 1) + 1 ELSE k + 1
      BY <2>1, <2>2, <2>3, <2>4, <2>6
    <3>2. QED
      BY <2>3, <2>5, <3>1 DEF RotationInv
  <2>7. CASE nCurentIP # nIP
    <3>1. \A a \in 1 .. nIP :
             dials'[a] = IF a <= nCurentIP' THEN k + 1 ELSE k
      BY <2>1, <2>2, <2>3, <2>4, <2>7
    <3>2. QED
      BY <2>3, <2>5, <3>1 DEF RotationInv
  <2>8. QED
    BY <2>6, <2>7
<1>3. ASSUME NEW c \in Clients, ConnectNullMutex(c) PROVE RotationInv'
  BY <1>3 DEF ConnectNullMutex, RotationInv
<1>4. CASE \/ InitNoConfig
           \/ \E c \in Clients : ConnectOK(c) \/ ConnectFail(c) \/ DisConnect(c)
           \/ \E sl \in Slots : PeerClose(sl)
           \/ UNCHANGED vars
  <2>1. UNCHANGED <<nIP, nCurentIP, fault, dials>>
    BY <1>4
    DEF InitNoConfig, ConnectOK, ConnectFail, DisConnect, PeerClose, vars
  <2>2. QED
    BY <2>1 DEF RotationInv
<1>5. QED
  BY <1>1, <1>2, <1>3, <1>4 DEF Next

(* Dials are spread evenly over entries 1..nIP under every interleaving.    *)
THEOREM RotationIsEven == Spec => []EvenRotation
<1>1. Init => RotationInv
  BY DEF Init, RotationInv
<1>2. PoolInv /\ RotationInv => EvenRotation
  <2> SUFFICES ASSUME PoolInv, RotationInv, nIP > 0, ~fault,
                      NEW a \in 1 .. nIP, NEW b \in 1 .. nIP
               PROVE  dials[a] <= dials[b] + 1
    BY DEF RotationInv, EvenRotation
  <2>1. PICK k \in Nat : \A x \in 1 .. nIP :
                   dials[x] = IF x <= nCurentIP THEN k + 1 ELSE k
    BY DEF RotationInv
  <2>2. QED
    BY <2>1
<1>3. QED
  BY <1>1, <1>2, NextRotationInv, PoolInvariant, PTL DEF Spec

-----------------------------------------------------------------------------
(* Once the table is exhausted no TDXHQ_Connect succeeds until some thread  *)
(* gives an id back.                                                        *)
THEOREM ExhaustionTheorem == Spec => ExhaustionIsFinal
<1> DEFINE Kept == \A c \in Clients : conID[c] >= 0 => conID'[c] = conID[c]
           Still == /\ Exhausted'
                    /\ \A c \in Clients : conID'[c] >= 0 => conID[c] = conID'[c]
<1>1. PoolInv /\ [Next]_vars => [Exhausted /\ Kept => Still]_vars
  <2> SUFFICES ASSUME PoolInv, Next, Exhausted, Kept PROVE Still
    OBVIOUS
  <2> USE PoolAssumption
  <2>1. CASE InitNoConfig \/ \E k \in IniLines : InitOK(k)
    BY <2>1
    DEF InitNoConfig, InitOK, PoolInv, StartInv, Exhausted, Slots
  <2>2. ASSUME NEW c \in Clients, ConnectEnter(c) PROVE Still
    BY <2>2
    DEF ConnectEnter, PickSlot, OpenSocket, Exhausted, INVALID
  <2>3. ASSUME NEW c \in Clients, ConnectOK(c) PROVE Still
    BY <2>3 DEF ConnectOK, PoolInv, LockInv, Exhausted
  <2>4. ASSUME NEW c \in Clients, ConnectFail(c) PROVE Still
    BY <2>4 DEF ConnectFail, PoolInv, TypeOK, Exhausted, TDXHQ_ERROR_CONT
  <2>5. ASSUME NEW c \in Clients, DisConnect(c) PROVE Still
    BY <2>5 DEF DisConnect, PoolInv, TypeOK
  <2>6. ASSUME NEW c \in Clients, ConnectNullMutex(c) PROVE Still
    BY <2>6 DEF ConnectNullMutex, Exhausted
  <2>7. ASSUME NEW sl \in Slots, PeerClose(sl) PROVE Still
    BY <2>7 DEF PeerClose, PoolInv, TypeOK, Exhausted, INVALID
  <2>8. QED
    BY <2>1, <2>2, <2>3, <2>4, <2>5, <2>6, <2>7 DEF Next
<1>2. QED
  BY <1>1, PoolInvariant, PTL DEF Spec, ExhaustionIsFinal

-----------------------------------------------------------------------------
(* The pool implements the lease: connection ids behave as exclusive        *)
(* leases, whatever happens to sockets and servers.                         *)
THEOREM PoolImplementsLease == Spec => ImplementsLease
<1> DEFINE held == [c \in Clients |-> IF conID[c] >= 0 THEN conID[c] ELSE -1]
<1> USE DEF Lease!None
<1>1. Init => Lease!LeaseInit
  BY DEF Init, Lease!LeaseInit
<1>2. PoolInv /\ [Next]_vars => [Lease!LeaseNext]_held
  <2> SUFFICES ASSUME PoolInv, Next PROVE Lease!LeaseNext \/ held' = held
    BY DEF vars
  <2> USE PoolAssumption
  <2>0. conID \in [Clients -> Int] /\ nConnectID \in Nat
    BY DEF PoolInv, TypeOK, Slots, TDXHQ_ERROR_CONT
  <2>1. ASSUME NEW c \in Clients, ConnectOK(c) PROVE Lease!LeaseNext
    <3>1. slot[c] = nConnectID /\ nConnectID \in Slots /\ skHQ[nConnectID] = "open"
      BY <2>1 DEF PoolInv, TypeOK, LockInv, ConnectOK
    <3>2. \A d \in Clients : conID[d] # nConnectID
      BY <3>1 DEF PoolInv, HeldIffEstablished
    <3>3. conID[c] < 0 /\ conID' = [conID EXCEPT ![c] = nConnectID]
      BY <2>1 DEF PoolInv, LockInv, ConnectOK
    <3>4. held[c] = -1 /\ \A d \in Clients : held[d] # nConnectID
      BY <2>0, <3>2, <3>3
    <3>5. held' = [held EXCEPT ![c] = nConnectID]
      <4>1. \A d \in Clients :
               held'[d] = IF d = c THEN nConnectID ELSE held[d]
        BY <2>0, <3>3
      <4>2. QED
        BY <4>1
    <3>6. PICK sl \in Slots : sl = nConnectID
      BY <3>1
    <3>7. Lease!Acquire(c, sl)
      BY <3>4, <3>5, <3>6 DEF Lease!Acquire
    <3>8. QED
      BY <3>7 DEF Lease!LeaseNext
  <2>2. ASSUME NEW c \in Clients, DisConnect(c) PROVE Lease!LeaseNext
    <3>0. conID[c] >= 0 /\ conID' = [conID EXCEPT ![c] = -1]
      BY <2>2 DEF DisConnect
    <3>1. held[c] # -1 /\ held' = [held EXCEPT ![c] = -1]
      <4>1. \A d \in Clients : held'[d] = IF d = c THEN -1 ELSE held[d]
        BY <2>0, <3>0
      <4>2. held[c] # -1
        BY <2>0, <3>0
      <4>3. QED
        BY <4>1, <4>2
    <3>2. Lease!Release(c)
      BY <3>1 DEF Lease!Release
    <3>3. QED
      BY <3>2 DEF Lease!LeaseNext
  <2>3. ASSUME NEW c \in Clients, ConnectFail(c) PROVE held' = held
    <3>1. conID[c] < 0 /\ conID' = [conID EXCEPT ![c] = -4]
      BY <2>3 DEF ConnectFail, PoolInv, LockInv, TDXHQ_ERROR_CONT
    <3>2. \A d \in Clients : held'[d] = held[d]
      BY <2>0, <3>1
    <3>3. QED
      BY <3>2
  <2>4. CASE \/ InitNoConfig
             \/ \E k \in IniLines : InitOK(k)
             \/ \E c \in Clients : ConnectEnter(c) \/ ConnectNullMutex(c)
             \/ \E sl \in Slots : PeerClose(sl)
    BY <2>4 DEF InitNoConfig, InitOK, ConnectEnter, ConnectNullMutex, PeerClose
  <2>5. QED
    BY <2>1, <2>2, <2>3, <2>4 DEF Next
<1>3. QED
  BY <1>1, <1>2, PoolInvariant, PTL DEF Spec, ImplementsLease, Lease!LeaseSpec

-----------------------------------------------------------------------------
(* The host program.                                                        *)

Fetching == {"stock", "Min30", "Min5", "hung"}

(* What the order of OnInitDialog guarantees: no flag is raised and no      *)
(* thread is past its idle loop before TDXHQ_Init has returned, and a       *)
(* thread calls TDXHQ_GetSecurityBars only with an id it holds.             *)
StartUpInv ==
  /\ ui = "run" <=> initRet # 0
  /\ ui \in {"mysql", "dead"} => \A w \in Clients : wpc[w] = "none"
  /\ ui # "run" => \A w \in Clients : ~flag[w]
  /\ NoCallBeforeInit
  /\ \A w \in Clients :
       /\ wpc[w] \in {"none", "new"} => conID[w] = -1
       /\ wpc[w] \in Fetching => conID[w] >= 0

(* TDXHQ_Init leaves a mutex behind when it succeeds.                       *)
MutexInv == initRet = TDXHQ_ERROR_OK => pmtx # NoMutex

(* A thread that is in a round, or has no flag, has begun a round since the *)
(* last trigger that found it idle; nothing happened in the future.         *)
TriggerInv ==
  \A w \in Clients :
    /\ trig[w] <= now /\ seen[w] <= now
    /\ wpc[w] # "idle" \/ ~flag[w] => seen[w] >= trig[w]

(* The stocks and tables that thread w has passed in its current round.     *)
Passed(w, k, t) ==
  \/ k < i[w]
  \/ k = i[w] /\ wpc[w] = "Min5" /\ t = "Min30"

(* Table t of stock k is as new as the round, or the round missed it.       *)
Settled(w, k, t) ==
  stored[<<w, k>>][t] >= seen[w] \/ <<k, t>> \in missed[w]

(* What was passed in a round is settled.                                   *)
FreshInv ==
  \A w \in Clients :
    wpc[w] \in {"stock", "Min30", "Min5"} /\ ~skew[w] =>
      \A k \in 0 .. NumStock(w) - 1 : \A t \in Tables :
        Passed(w, k, t) => Settled(w, k, t)

(* Threads exist only for a watch list that fits stockcode, all of them     *)
(* unless it is empty, and have begun no round before InitInstance.         *)
SliceInv ==
  /\ ui = "mysql" => m_istock = 0 /\ ~fault
  /\ ui \in {"threads", "run"} => m_istock <= MAXSTOCK
  /\ ui \in {"threads", "run"} /\ wpc[Last] = "none" => m_istock = 0
  /\ \A w \in Clients : wpc[w] \in {"none", "new"} => seen[w] = Never

(* The property in terms of what is settled.                                *)
IdleFresh ==
  \A w \in Clients :
    wpc[w] = "idle" /\ seen[w] # Never /\ ~skew[w] =>
      \A k \in 0 .. NumStock(w) - 1 : \A t \in Tables : Settled(w, k, t)

(* The inductive invariant of the composition.                              *)
HostInv ==
  /\ PoolInv
  /\ StartUpInv
  /\ MutexInv
  /\ TriggerInv
  /\ SliceInv
  /\ FreshInv
  /\ IdleFresh
  /\ FaultCauses

-----------------------------------------------------------------------------
(* The connection table inside the host.                                    *)

(* The process dies in the host's own code.                                 *)
HostDies ==
  /\ fault' = TRUE
  /\ UNCHANGED <<nIP, nCurentIP, nConnectID, skHQ, pmtx, initRet, pc, slot,
                 conID, dials>>

(* A step of the host is, for the table, a call of one of its operations,   *)
(* a stutter, or the end of the process.                                    *)
LEMMA PoolSteps ==
  ASSUME PoolInv, StartUpInv, [AllNext]_allvars
  PROVE  [Next]_vars \/ HostDies
<1>1. CASE InitTdx
  BY <1>1 DEF InitTdx, Next
<1>2. ASSUME NEW w \in Clients, InitInstance(w) PROVE UNCHANGED vars
  <2>1. conID[w] = -1 /\ conID \in [Clients -> Slots \cup {-1, TDXHQ_ERROR_CONT}]
    BY <1>2 DEF InitInstance, StartUpInv, PoolInv, TypeOK
  <2>2. conID' = [conID EXCEPT ![w] = -1]
    BY <1>2 DEF InitInstance
  <2>3. conID' = conID
    BY <2>1, <2>2
  <2>4. QED
    BY <1>2, <2>3 DEF InitInstance, vars
<1>3. ASSUME NEW w \in Clients, Connecting(w) PROVE Next
  BY <1>3 DEF Connecting, Next
<1>4. ASSUME NEW w \in Clients, Mishap(w) PROVE UNCHANGED vars \/ HostDies
  BY <1>4 DEF Mishap, RedisThrows, FetchCut, FetchDies, HostDies
<1>5. ASSUME NEW n \in Slots, ServerDrops(n) PROVE Next
  BY <1>5 DEF ServerDrops, Next
<1>6. CASE \/ MysqlFails \/ CreateThreads \/ Clock \/ OnTimer
           \/ UNCHANGED allvars
  BY <1>6 DEF MysqlFails, CreateThreads, Clock, OnTimer, allvars
<1>9. CASE LoadDies \/ ConstructorThrows \/ OnTimerDies
  BY <1>9 DEF LoadDies, ConstructorThrows, OnTimerDies, HostDies
<1>7. ASSUME NEW w \in Clients, Run(w), ~InitInstance(w), ~Connecting(w)
      PROVE  UNCHANGED vars
  BY <1>7
  DEF Run, StartRound, Connected, BeginStock, EndRound, FetchOK, FetchError,
      FetchSkewed
<1>8. QED
  BY <1>1, <1>2, <1>3, <1>4, <1>5, <1>6, <1>7, <1>9 DEF AllNext

LEMMA HostKeepsPool ==
  ASSUME PoolInv, StartUpInv, [AllNext]_allvars
  PROVE  PoolInv'
<1>1. CASE [Next]_vars
  BY <1>1, NextPoolInv
<1>2. CASE HostDies
  <2>1. TypeOK'
    BY <1>2 DEF PoolInv, TypeOK, HostDies
  <2>2. QED
    BY <1>2, <2>1
    DEF HostDies, PoolInv, LockInv, StartInv, UniqueOwner, HeldIffEstablished
<1>3. QED
  BY <1>1, <1>2, PoolSteps

LEMMA HostKeepsMutex ==
  ASSUME PoolInv, StartUpInv, MutexInv, [AllNext]_allvars
  PROVE  MutexInv'
<1>1. CASE InitNoConfig \/ \E k \in IniLines : InitOK(k)
  BY <1>1, PoolAssumption
  DEF InitNoConfig, InitOK, MutexInv, TDXHQ_ERROR_OK, TDXHQ_ERROR_COFG
<1>2. ASSUME NEW c \in Clients, ConnectEnter(c) PROVE MutexInv'
  BY <1>2, PoolAssumption DEF ConnectEnter, MutexInv
<1>3. ASSUME NEW c \in Clients, ConnectOK(c) \/ ConnectFail(c) PROVE MutexInv'
  BY <1>3, PoolAssumption DEF ConnectOK, ConnectFail, MutexInv
<1>4. CASE \/ \E c \in Clients : ConnectNullMutex(c) \/ DisConnect(c)
           \/ \E n \in Slots : PeerClose(n)
           \/ UNCHANGED vars \/ HostDies
  BY <1>4 DEF ConnectNullMutex, DisConnect, PeerClose, vars, HostDies, MutexInv
<1>5. QED
  BY <1>1, <1>2, <1>3, <1>4, PoolSteps DEF Next

-----------------------------------------------------------------------------
(* Types.                                                                   *)

LEMMA AfterFetchTypes ==
  ASSUME NEW w \in Clients, NEW t \in Tables, HostTypeOK, AfterFetch(w, t)
  PROVE  /\ wpc' \in [Clients -> {"none", "new", "idle", "connect", "stock",
                                  "Min30", "Min5", "hung"}]
         /\ i' \in [Clients -> Nat]
  BY DEF HostTypeOK, AfterFetch

LEMMA ReplaceTypes ==
  ASSUME NEW w \in Clients, NEW t \in Tables, HostTypeOK,
         NEW m \in {Never, Junk} \cup 0 .. MaxMin, Replace(w, t, m)
  PROVE  stored' \in [Stocks -> [Tables -> {Never, Junk} \cup 0 .. MaxMin]]
<1> DEFINE s == <<w, i[w]>>
           row == [stored[s] EXCEPT ![t] = m]
<1>1. stored' = [stored EXCEPT ![s] = row]
  BY DEF Replace
<1>2. s \in Stocks => row \in [Tables -> {Never, Junk} \cup 0 .. MaxMin]
  BY DEF HostTypeOK
<1>3. stored \in [Stocks -> [Tables -> {Never, Junk} \cup 0 .. MaxMin]]
  BY DEF HostTypeOK
<1> HIDE DEF s, row
<1>4. QED
  BY <1>1, <1>2, <1>3

LEMMA MissesTypes ==
  ASSUME NEW w \in Clients, NEW t \in Tables, HostTypeOK, Misses(w, t)
  PROVE  missed' \in [Clients -> SUBSET (Nat \X Tables)]
<1>1. <<i[w], t>> \in Nat \X Tables
  BY DEF HostTypeOK
<1>2. QED
  BY <1>1 DEF HostTypeOK, Misses

LEMMA HostTypes ==
  ASSUME PoolInv, StartUpInv, HostTypeOK, [AllNext]_allvars
  PROVE  HostTypeOK'
<1> USE HostAssumption
<1>0. TypeOK'
  BY HostKeepsPool DEF PoolInv
<1>1. CASE MysqlFails \/ CreateThreads
  BY <1>0, <1>1 DEF HostTypeOK, MysqlFails, CreateThreads
<1>17. CASE LoadDies \/ ConstructorThrows
  <2>1. m_istock' \in Nat /\ ui' = "dead" /\ blame' \in BOOLEAN
    BY <1>17 DEF HostTypeOK, LoadDies, ConstructorThrows
  <2>2. QED
    BY <1>0, <1>17, <2>1 DEF HostTypeOK, LoadDies, ConstructorThrows
<1>18. CASE OnTimerDies
  BY <1>0, <1>18 DEF HostTypeOK, OnTimerDies, hostvars
<1>2. CASE InitTdx
  <2>1. now % HourLen \in 0 .. HourLen - 1
    BY DEF HostTypeOK
  <2>2. QED
    BY <1>0, <1>2, <2>1 DEF HostTypeOK, InitTdx
<1>3. CASE Clock
  BY <1>0, <1>3 DEF HostTypeOK, Clock
<1>4. CASE OnTimer
  <2>1. now % HourLen \in 0 .. HourLen - 1
    BY DEF HostTypeOK
  <2>2. trig' \in [Clients -> {Never} \cup 0 .. MaxMin]
    BY <1>4 DEF HostTypeOK, OnTimer
  <2>3. flag' \in [Clients -> BOOLEAN]
    BY <1>4 DEF OnTimer
  <2>4. QED
    BY <1>0, <1>4, <2>1, <2>2, <2>3 DEF HostTypeOK, OnTimer
<1>5. ASSUME NEW w \in Clients, InitInstance(w) PROVE HostTypeOK'
  BY <1>0, <1>5 DEF HostTypeOK, InitInstance
<1>6. ASSUME NEW w \in Clients, StartRound(w) PROVE HostTypeOK'
  BY <1>0, <1>6 DEF HostTypeOK, StartRound
<1>7. ASSUME NEW w \in Clients, Connecting(w) PROVE HostTypeOK'
  BY <1>0, <1>7 DEF HostTypeOK, Connecting, hostvars
<1>8. ASSUME NEW w \in Clients, Connected(w) \/ BeginStock(w)
      PROVE  HostTypeOK'
  BY <1>0, <1>8 DEF HostTypeOK, Connected, BeginStock
<1>9. ASSUME NEW w \in Clients, EndRound(w) PROVE HostTypeOK'
  BY <1>0, <1>9 DEF HostTypeOK, EndRound
<1>10. ASSUME NEW w \in Clients, NEW t \in Tables, FetchOK(w, t)
       PROVE  HostTypeOK'
  <2>1. AfterFetch(w, t)
    BY <1>10 DEF FetchOK
  <2>2. now \in {Never, Junk} \cup 0 .. MaxMin
    BY DEF HostTypeOK
  <2>3. /\ stored' \in [Stocks -> [Tables -> {Never, Junk} \cup 0 .. MaxMin]]
        /\ missed' \in [Clients -> SUBSET (Nat \X Tables)]
    <3>1. CASE Replace(w, t, now) /\ UNCHANGED missed
      BY <2>2, <3>1, ReplaceTypes DEF HostTypeOK
    <3>2. CASE Misses(w, t) /\ UNCHANGED stored
      BY <3>2, MissesTypes DEF HostTypeOK
    <3>3. QED
      BY <1>10, <3>1, <3>2 DEF FetchOK
  <2>4. QED
    BY <1>0, <1>10, <2>1, <2>3, AfterFetchTypes DEF HostTypeOK, FetchOK
<1>11. ASSUME NEW w \in Clients, NEW t \in Tables,
              FetchError(w, t) \/ FetchCut(w, t)
       PROVE  HostTypeOK'
  <2>1. AfterFetch(w, t)
    BY <1>11 DEF FetchError, FetchCut
  <2>2. /\ missed' \in [Clients -> SUBSET (Nat \X Tables)]
        /\ skew' \in [Clients -> BOOLEAN]
    BY <1>11, MissesTypes DEF HostTypeOK, FetchError, FetchCut
  <2>3. QED
    BY <1>0, <1>11, <2>1, <2>2, AfterFetchTypes
    DEF HostTypeOK, FetchError, FetchCut
<1>12. ASSUME NEW w \in Clients, NEW t \in Tables, FetchSkewed(w, t)
       PROVE  HostTypeOK'
  <2>1. /\ wpc' \in [Clients -> {"none", "new", "idle", "connect", "stock",
                                 "Min30", "Min5", "hung"}]
        /\ i' \in [Clients -> Nat]
    BY <1>12, AfterFetchTypes DEF HostTypeOK, FetchSkewed
  <2>2. stored' \in [Stocks -> [Tables -> {Never, Junk} \cup 0 .. MaxMin]]
    <3>1. CASE UNCHANGED stored
      BY <3>1 DEF HostTypeOK
    <3>2. CASE Replace(w, t, Junk)
      BY <3>2, ReplaceTypes
    <3>3. QED
      BY <1>12, <3>1, <3>2 DEF FetchSkewed
  <2>3. QED
    BY <1>0, <1>12, <2>1, <2>2 DEF HostTypeOK, FetchSkewed
<1>13. ASSUME NEW w \in Clients, RedisThrows(w) PROVE HostTypeOK'
  BY <1>0, <1>13 DEF HostTypeOK, RedisThrows
<1>14. ASSUME NEW w \in Clients, NEW t \in Tables, FetchDies(w, t)
       PROVE  HostTypeOK'
  BY <1>0, <1>14 DEF HostTypeOK, FetchDies, hostvars
<1>15. CASE (\E n \in Slots : ServerDrops(n)) \/ UNCHANGED allvars
  BY <1>0, <1>15 DEF HostTypeOK, ServerDrops, allvars, hostvars
<1>16. QED
  BY <1>1, <1>2, <1>3, <1>4, <1>5, <1>6, <1>7, <1>8, <1>9, <1>10, <1>11,
     <1>12, <1>13, <1>14, <1>15, <1>17, <1>18
  DEF AllNext, Run, Mishap

-----------------------------------------------------------------------------
(* Start-up.                                                                *)

LEMMA HostKeepsStartUp ==
  ASSUME PoolInv, StartUpInv, HostTypeOK, [AllNext]_allvars
  PROVE  StartUpInv'
<1> USE DEF StartUpInv, NoCallBeforeInit, Fetching
<1>0. TypeOK /\ wpc \in [Clients -> {"none", "new", "idle", "connect", "stock",
                                     "Min30", "Min5", "hung"}]
             /\ flag \in [Clients -> BOOLEAN]
  BY DEF HostTypeOK
<1>1. CASE MysqlFails \/ LoadDies \/ ConstructorThrows
  BY <1>0, <1>1 DEF MysqlFails, LoadDies, ConstructorThrows, vars
<1>2. CASE CreateThreads
  BY <1>0, <1>2 DEF CreateThreads, vars
<1>3. CASE InitTdx
  <2>1. initRet' # 0 /\ conID' = conID
    BY <1>3
    DEF InitTdx, InitNoConfig, InitOK, TDXHQ_ERROR_OK, TDXHQ_ERROR_COFG
  <2>2. ui' = "run" /\ UNCHANGED <<flag, wpc>>
    BY <1>3 DEF InitTdx
  <2>3. QED
    BY <2>1, <2>2
<1>4. CASE OnTimer
  BY <1>0, <1>4 DEF OnTimer, vars
<1>5. ASSUME NEW w \in Clients, InitInstance(w) PROVE StartUpInv'
  BY <1>0, <1>5 DEF InitInstance, TypeOK
<1>6. ASSUME NEW w \in Clients, StartRound(w) PROVE StartUpInv'
  <2>1. initRet # 0
    BY <1>6 DEF StartRound
  <2>2. QED
    BY <1>0, <1>6, <2>1 DEF StartRound, vars
<1>7. ASSUME NEW w \in Clients, Connecting(w) PROVE StartUpInv'
  <2>1. /\ UNCHANGED <<ui, flag, wpc, initRet>>
        /\ \A v \in Clients \ {w} : conID'[v] = conID[v]
        /\ wpc[w] = "connect"
    BY <1>0, <1>7
    DEF Connecting, hostvars, TypeOK, ConnectEnter, ConnectNullMutex,
        ConnectOK, ConnectFail
  <2>2. QED
    BY <2>1
<1>8. ASSUME NEW w \in Clients, Connected(w) \/ BeginStock(w) \/ EndRound(w)
      PROVE  StartUpInv'
  BY <1>0, <1>8 DEF Connected, BeginStock, EndRound, vars
<1>9. ASSUME NEW w \in Clients, NEW t \in Tables,
             \/ FetchOK(w, t) \/ FetchError(w, t) \/ FetchCut(w, t)
             \/ FetchSkewed(w, t)
      PROVE  StartUpInv'
  <2>1. wpc[w] \in Fetching /\ UNCHANGED <<ui, flag, initRet, conID>>
    BY <1>9
    DEF FetchOK, FetchError, FetchCut, FetchSkewed, vars, Tables
  <2>2. \E p \in {"stock", "Min5", "hung"} : wpc' = [wpc EXCEPT ![w] = p]
    BY <1>9
    DEF FetchOK, FetchError, FetchCut, FetchSkewed, AfterFetch
  <2>3. QED
    BY <1>0, <2>1, <2>2
<1>10. CASE \/ Clock \/ OnTimerDies
            \/ \E w \in Clients : \/ RedisThrows(w)
                                  \/ \E t \in Tables : FetchDies(w, t)
            \/ \E n \in Slots : ServerDrops(n)
            \/ UNCHANGED allvars
  <2>1. UNCHANGED <<ui, flag, wpc, initRet, conID>>
    BY <1>10
    DEF Clock, OnTimerDies, RedisThrows, FetchDies, ServerDrops, PeerClose,
        allvars, hostvars, vars
  <2>2. QED
    BY <2>1
<1>11. QED
  BY <1>1, <1>2, <1>3, <1>4, <1>5, <1>6, <1>7, <1>8, <1>9, <1>10
  DEF AllNext, Run, Mishap

-----------------------------------------------------------------------------
(* Triggers.                                                                *)

LEMMA HostKeepsTriggers ==
  ASSUME HostTypeOK, StartUpInv, TriggerInv, [AllNext]_allvars
  PROVE  TriggerInv'
<1> USE DEF TriggerInv
<1>0. /\ now \in Nat
      /\ seen \in [Clients -> Int] /\ trig \in [Clients -> Int]
      /\ wpc \in [Clients -> {"none", "new", "idle", "connect", "stock",
                              "Min30", "Min5", "hung"}]
      /\ flag \in [Clients -> BOOLEAN]
  BY HostAssumption DEF HostTypeOK, Never
<1>1. CASE CreateThreads \/ Clock
  BY <1>0, <1>1 DEF StartUpInv, CreateThreads, Clock
<1>2. CASE OnTimer
  <2>1. \A w \in Clients : wpc[w] = "idle" => flag'[w]
    <3>1. flag' = [w \in Clients |-> wpc[w] # "none"]
      BY <1>2 DEF OnTimer
    <3>2. QED
      BY <3>1
  <2>2. UNCHANGED <<now, wpc, seen>>
    BY <1>2 DEF OnTimer
  <2>3. \A w \in Clients : trig'[w] = IF wpc[w] = "idle" THEN now ELSE trig[w]
    BY <1>2 DEF OnTimer
  <2>4. ASSUME NEW w \in Clients
        PROVE  /\ trig'[w] <= now' /\ seen'[w] <= now'
               /\ wpc'[w] # "idle" \/ ~flag'[w] => seen'[w] >= trig'[w]
    BY <1>0, <2>1, <2>2, <2>3
  <2>5. QED
    BY <2>4
<1>3. ASSUME NEW w \in Clients, InitInstance(w) PROVE TriggerInv'
  BY <1>0, <1>3 DEF InitInstance
<1>4. ASSUME NEW w \in Clients, StartRound(w) PROVE TriggerInv'
  <2>1. /\ UNCHANGED <<now, trig, flag>> /\ seen'[w] = now
        /\ \A v \in Clients \ {w} : wpc'[v] = wpc[v] /\ seen'[v] = seen[v]
    BY <1>0, <1>4 DEF StartRound
  <2>2. QED
    BY <1>0, <2>1
<1>5. ASSUME NEW w \in Clients, Connected(w) \/ BeginStock(w)
      PROVE  TriggerInv'
  BY <1>0, <1>5 DEF Connected, BeginStock
<1>6. ASSUME NEW w \in Clients, EndRound(w) PROVE TriggerInv'
  <2>2. UNCHANGED <<now, trig, seen>> /\ wpc[w] = "stock"
    BY <1>6 DEF EndRound
  <2>3. \A v \in Clients \ {w} : wpc'[v] = wpc[v] /\ flag'[v] = flag[v]
    BY <1>0, <1>6 DEF EndRound
  <2>4. QED
    BY <1>0, <2>2, <2>3
<1>7. ASSUME NEW w \in Clients, NEW t \in Tables,
             \/ FetchOK(w, t) \/ FetchError(w, t) \/ FetchCut(w, t)
             \/ FetchSkewed(w, t)
      PROVE  TriggerInv'
  <2>1. wpc[w] # "idle" /\ UNCHANGED <<now, flag, seen, trig>>
    BY <1>7 DEF FetchOK, FetchError, FetchCut, FetchSkewed, Tables
  <2>2. \E p \in {"stock", "Min5", "hung"} : wpc' = [wpc EXCEPT ![w] = p]
    BY <1>7
    DEF FetchOK, FetchError, FetchCut, FetchSkewed, AfterFetch
  <2>3. QED
    BY <1>0, <2>1, <2>2
<1>8. CASE \/ MysqlFails \/ LoadDies \/ ConstructorThrows \/ InitTdx
           \/ OnTimerDies
           \/ \E w \in Clients : \/ Connecting(w) \/ RedisThrows(w)
                                 \/ \E t \in Tables : FetchDies(w, t)
           \/ \E n \in Slots : ServerDrops(n)
           \/ UNCHANGED allvars
  <2>1. UNCHANGED <<now, flag, wpc, seen, trig>>
    BY <1>8
    DEF MysqlFails, LoadDies, ConstructorThrows, InitTdx, OnTimerDies,
        Connecting, RedisThrows, FetchDies, ServerDrops, allvars, hostvars
  <2>2. QED
    BY <2>1
<1>9. QED
  BY <1>1, <1>2, <1>3, <1>4, <1>5, <1>6, <1>7, <1>8 DEF AllNext, Run, Mishap

-----------------------------------------------------------------------------
(* What is stored.                                                          *)

(* After Replace(w, t, m) one table of one stock of thread w holds m, and   *)
(* every other one is as it was.                                            *)
Replaced(w, t, m) ==
  \A v \in Clients : \A k \in 0 .. MAXSTOCK - 1 : \A u \in Tables :
    stored'[<<v, k>>][u] =
      IF v = w /\ k = i[w] /\ u = t THEN m ELSE stored[<<v, k>>][u]

LEMMA ReplaceEffect ==
  ASSUME NEW w \in Clients, NEW t \in Tables, NEW m \in Int, HostTypeOK,
         Replace(w, t, m)
  PROVE  Replaced(w, t, m)
<1> SUFFICES ASSUME NEW v \in Clients, NEW k \in 0 .. MAXSTOCK - 1,
                    NEW u \in Tables
             PROVE  stored'[<<v, k>>][u] =
                      IF v = w /\ k = i[w] /\ u = t
                        THEN m ELSE stored[<<v, k>>][u]
  BY DEF Replaced
<1>1. <<v, k>> \in Stocks
  BY DEF Stocks
<1>2. stored \in [Stocks -> [Tables -> {Never, Junk} \cup 0 .. MaxMin]]
  BY DEF HostTypeOK
<1> DEFINE s == <<w, i[w]>>
<1>3. stored' = [stored EXCEPT ![s] = [stored[s] EXCEPT ![t] = m]]
  BY DEF Replace
<1>4. s = <<v, k>> <=> v = w /\ k = i[w]
  OBVIOUS
<1> HIDE DEF s
<1>5. CASE s = <<v, k>>
  BY <1>1, <1>2, <1>3, <1>4, <1>5
<1>6. CASE s # <<v, k>>
  BY <1>1, <1>2, <1>3, <1>4, <1>6
<1>7. QED
  BY <1>5, <1>6

(* The facts about types that the proofs about rounds use.                  *)
LEMMA HostNumbers ==
  ASSUME HostTypeOK
  PROVE  /\ now \in Nat
         /\ seen \in [Clients -> Int] /\ i \in [Clients -> Nat]
         /\ wpc \in [Clients -> {"none", "new", "idle", "connect", "stock",
                                 "Min30", "Min5", "hung"}]
         /\ skew \in [Clients -> BOOLEAN]
  BY HostAssumption DEF HostTypeOK, Never

(* A share of m stocks among n threads, and the rest, are not more than m.  *)
LEMMA ShareFits ==
  ASSUME NEW m \in Nat, NEW n \in Nat \ {0}
  PROVE  /\ m \div n \in 0 .. m
         /\ m - (n - 1) * (m \div n) \in 0 .. m
<1> DEFINE q == m \div n
<1>1. q \in Nat /\ n * q <= m
  OBVIOUS
<1> HIDE DEF q
<1>2. (n - 1) * q = n * q - q /\ q <= n * q
  BY <1>1
<1>3. n * q \in Nat
  BY <1>1
<1>4. q \in 0 .. m /\ m - (n - 1) * q \in 0 .. m
  BY <1>1, <1>2, <1>3
<1>5. QED
  BY <1>4 DEF q

(* There is a rest for the last thread unless there are no stocks at all.   *)
LEMMA RestLeft ==
  ASSUME NEW m \in Nat \ {0}, NEW n \in Nat \ {0}
  PROVE  (n - 1) * (m \div n) < m
<1> DEFINE q == m \div n
<1>1. q \in Nat /\ n * q <= m
  OBVIOUS
<1> HIDE DEF q
<1>2. (n - 1) * q = n * q - q
  BY <1>1
<1>3. n * q \in Nat
  BY <1>1
<1>4. (n - 1) * q < m
  <2>1. CASE q = 0
    BY <1>2, <2>1
  <2>2. CASE q # 0
    BY <1>1, <1>2, <1>3, <2>2
  <2>3. QED
    BY <2>1, <2>2
<1>5. QED
  BY <1>4 DEF q

(* The stocks of a thread have places in stockcode.                         *)
LEMMA SliceInside ==
  ASSUME HostTypeOK, StartUpInv, SliceInv, NEW w \in Clients, wpc[w] # "none",
         NEW k \in 0 .. NumStock(w) - 1
  PROVE  k \in 0 .. MAXSTOCK - 1 /\ <<w, k>> \in Stocks
<1>1. m_istock \in Nat /\ m_istock <= MAXSTOCK /\ MAXSTOCK \in Nat
  BY HostAssumption DEF HostTypeOK, StartUpInv, SliceInv
<1>2. NumStock(w) \in 0 .. m_istock
  BY <1>1, HostAssumption, ShareFits DEF NumStock
<1>3. k \in 0 .. MAXSTOCK - 1
  BY <1>1, <1>2
<1>4. QED
  BY <1>3 DEF Stocks

LEMMA HostKeepsSlices ==
  ASSUME HostTypeOK, StartUpInv, SliceInv, [AllNext]_allvars
  PROVE  SliceInv'
<1> USE HostNumbers, HostAssumption DEF SliceInv
<1>1. CASE CreateThreads
  <2>1. PICK rows \in RowCounts :
          /\ rows <= MAXSTOCK /\ m_istock' = rows
          /\ wpc' = [w \in Clients |->
                      IF w # Last \/ (TREADNUM - 1) * (rows \div TREADNUM) < rows
                        THEN "new" ELSE "none"]
    BY <1>1 DEF CreateThreads
  <2>2. \A w \in Clients : seen'[w] = Never
    BY <1>1 DEF CreateThreads, StartUpInv
  <2>3. rows # 0 => (TREADNUM - 1) * (rows \div TREADNUM) < rows
    BY RestLeft
  <2>4. wpc'[Last] = "none" => m_istock' = 0
    BY <2>1, <2>3
  <2>5. ui' = "threads"
    BY <1>1 DEF CreateThreads
  <2>6. QED
    BY <2>1, <2>2, <2>4, <2>5
<1>2. CASE MysqlFails \/ LoadDies \/ ConstructorThrows
  <2>1. ui' = "dead" /\ UNCHANGED <<wpc, seen>>
    BY <1>2 DEF MysqlFails, LoadDies, ConstructorThrows
  <2>2. QED
    BY <2>1
<1>3. CASE InitTdx
  BY <1>3 DEF InitTdx
<1>4. ASSUME NEW w \in Clients, Run(w), ~Connecting(w) PROVE SliceInv'
  <2>1. wpc[w] # "none" /\ ui # "mysql" /\ UNCHANGED <<ui, m_istock>>
    BY <1>4
    DEF Run, InitInstance, StartRound, Connected, BeginStock, EndRound,
        FetchOK, FetchError, FetchSkewed, StartUpInv, Tables
  <2>2. /\ \E p \in {"idle", "connect", "stock", "Min30", "Min5", "hung"} :
             wpc' = [wpc EXCEPT ![w] = p]
        /\ seen' = seen \/ seen' = [seen EXCEPT ![w] = now]
    BY <1>4
    DEF Run, InitInstance, StartRound, Connected, BeginStock, EndRound,
        FetchOK, FetchError, FetchSkewed, AfterFetch
  <2>3. QED
    BY <2>1, <2>2
<1>5. ASSUME NEW w \in Clients, NEW t \in Tables, FetchCut(w, t)
      PROVE  SliceInv'
  <2>1. wpc[w] # "none" /\ ui # "mysql" /\ UNCHANGED <<ui, m_istock, seen>>
    BY <1>5 DEF FetchCut, StartUpInv, Tables
  <2>2. \E p \in {"stock", "Min5"} : wpc' = [wpc EXCEPT ![w] = p]
    BY <1>5 DEF FetchCut, AfterFetch
  <2>3. QED
    BY <2>1, <2>2
<1>6. CASE \/ \E w \in Clients : \/ Connecting(w) \/ RedisThrows(w)
                                 \/ \E t \in Tables : FetchDies(w, t)
           \/ OnTimer \/ OnTimerDies
  <2>1. ui # "mysql" /\ UNCHANGED <<ui, m_istock, wpc, seen>>
    BY <1>6
    DEF OnTimer, OnTimerDies, Connecting, RedisThrows, FetchDies, StartUpInv,
        Tables, hostvars
  <2>2. QED
    BY <2>1
<1>7. CASE Clock \/ (\E n \in Slots : ServerDrops(n)) \/ UNCHANGED allvars
  <2>1. UNCHANGED <<ui, m_istock, wpc, seen, fault>>
    BY <1>7 DEF Clock, ServerDrops, PeerClose, allvars, hostvars, vars
  <2>2. QED
    BY <2>1
<1>8. QED
  BY <1>1, <1>2, <1>3, <1>4, <1>5, <1>6, <1>7 DEF AllNext, Mishap

(* What the calls of one thread do to what is settled for the others, and   *)
(* for its own other tables: nothing.                                       *)
LEMMA SettledStays ==
  ASSUME HostTypeOK, StartUpInv, SliceInv, TriggerInv,
         NEW w \in Clients, NEW t \in Tables,
         FetchOK(w, t) \/ FetchError(w, t) \/ FetchCut(w, t) \/ FetchSkewed(w, t),
         NEW v \in Clients, wpc[v] # "none", NEW k \in 0 .. NumStock(v) - 1,
         NEW u \in Tables, Settled(v, k, u), ~skew'[v]
  PROVE  Settled(v, k, u)'
<1> USE HostNumbers
<1>1. k \in 0 .. MAXSTOCK - 1
  BY SliceInside
<1>2. seen' = seen /\ seen[v] <= now /\ seen[v] \in Int
  BY DEF FetchOK, FetchError, FetchCut, FetchSkewed, TriggerInv
<1>3. CASE UNCHANGED stored /\ UNCHANGED missed
  BY <1>2, <1>3 DEF Settled
<1>4. CASE Misses(w, t) /\ UNCHANGED stored
  <2>1. <<k, u>> \in missed[v] => <<k, u>> \in missed'[v]
    BY <1>4 DEF Misses, HostTypeOK
  <2>2. QED
    BY <1>2, <1>4, <2>1 DEF Settled
<1>5. CASE Replace(w, t, now) /\ UNCHANGED missed
  <2>1. Replaced(w, t, now)
    BY <1>5, ReplaceEffect
  <2>2. stored'[<<v, k>>][u] \in {now, stored[<<v, k>>][u]}
    BY <1>1, <2>1 DEF Replaced
  <2>3. QED
    BY <1>2, <1>5, <2>2 DEF Settled
<1>6. CASE FetchSkewed(w, t) /\ Replace(w, t, Junk)
  <2>1. v # w /\ UNCHANGED missed
    BY <1>6 DEF FetchSkewed
  <2>2. Replaced(w, t, Junk)
    BY <1>6, ReplaceEffect DEF Junk
  <2>3. stored'[<<v, k>>][u] = stored[<<v, k>>][u]
    BY <1>1, <2>1, <2>2 DEF Replaced
  <2>4. QED
    BY <1>2, <2>1, <2>3 DEF Settled
<1>7. QED
  BY <1>3, <1>4, <1>5, <1>6 DEF FetchOK, FetchError, FetchCut, FetchSkewed

(* The call that thread w makes settles its table.                          *)
LEMMA CallSettles ==
  ASSUME HostTypeOK, StartUpInv, SliceInv, TriggerInv,
         NEW w \in Clients, NEW t \in Tables,
         FetchOK(w, t) \/ FetchError(w, t),
         NEW k \in 0 .. NumStock(w) - 1, k = i[w]
  PROVE  Settled(w, k, t)'
<1> USE HostNumbers
<1>1. wpc[w] # "none" /\ seen' = seen /\ seen[w] <= now /\ seen[w] \in Int
  BY DEF FetchOK, FetchError, TriggerInv, Tables
<1>2. k \in 0 .. MAXSTOCK - 1
  BY <1>1, SliceInside
<1>3. CASE Misses(w, t)
  BY <1>3 DEF Misses, HostTypeOK, Settled
<1>4. CASE Replace(w, t, now)
  <2>1. Replaced(w, t, now)
    BY <1>4, ReplaceEffect
  <2>2. stored'[<<w, k>>][t] = now
    BY <1>2, <2>1 DEF Replaced
  <2>3. QED
    BY <1>1, <2>2 DEF Settled
<1>5. QED
  BY <1>3, <1>4 DEF FetchOK, FetchError

LEMMA HostKeepsFresh ==
  ASSUME HostTypeOK, StartUpInv, SliceInv, TriggerInv, FreshInv,
         [AllNext]_allvars
  PROVE  FreshInv'
<1> USE HostNumbers
<1>1. ASSUME NEW w \in Clients,
             \/ StartRound(w) \/ Connected(w) \/ BeginStock(w)
             \/ InitInstance(w) \/ EndRound(w)
      PROVE  FreshInv'
  <2> SUFFICES ASSUME NEW v \in Clients, ~skew'[v],
                      wpc'[v] \in {"stock", "Min30", "Min5"},
                      NEW k \in 0 .. NumStock(v)' - 1,
                      NEW t \in Tables, Passed(v, k, t)'
               PROVE  Settled(v, k, t)'
    BY DEF FreshInv
  <2>1. UNCHANGED <<stored, skew, m_istock>>
    BY <1>1 DEF StartRound, Connected, BeginStock, InitInstance, EndRound
  <2>2. k \in 0 .. NumStock(v) - 1
    BY <2>1 DEF NumStock
  <2>3. CASE v # w
    <3>1. /\ wpc'[v] = wpc[v] /\ i'[v] = i[v]
          /\ seen'[v] = seen[v] /\ missed'[v] = missed[v]
      BY <1>1, <2>3
      DEF StartRound, Connected, BeginStock, InitInstance, EndRound,
          HostTypeOK
    <3>2. Passed(v, k, t) /\ wpc[v] \in {"stock", "Min30", "Min5"} /\ ~skew[v]
      BY <2>1, <3>1 DEF Passed
    <3>3. Settled(v, k, t)
      BY <2>2, <3>2 DEF FreshInv
    <3>4. QED
      BY <2>1, <3>1, <3>3 DEF Settled
  <2>4. CASE v = w
    <3>1. BeginStock(w)
      BY <1>1, <2>4
      DEF StartRound, Connected, InitInstance, EndRound, Passed
    <3>2. Passed(v, k, t) /\ wpc[v] = "stock" /\ UNCHANGED <<seen, missed>>
      BY <2>4, <3>1 DEF BeginStock, Passed
    <3>3. Settled(v, k, t)
      BY <2>1, <2>2, <3>2 DEF FreshInv
    <3>4. QED
      BY <2>1, <3>2, <3>3 DEF Settled
  <2>5. QED
    BY <2>3, <2>4
<1>2. ASSUME NEW w \in Clients, NEW t \in Tables,
             \/ FetchOK(w, t) \/ FetchError(w, t) \/ FetchCut(w, t)
             \/ FetchSkewed(w, t)
      PROVE  FreshInv'
  <2> SUFFICES ASSUME NEW v \in Clients, ~skew'[v],
                      wpc'[v] \in {"stock", "Min30", "Min5"},
                      NEW k \in 0 .. NumStock(v)' - 1,
                      NEW u \in Tables, Passed(v, k, u)'
               PROVE  Settled(v, k, u)'
    BY DEF FreshInv
  <2>1. k \in 0 .. NumStock(v) - 1
    BY <1>2 DEF FetchOK, FetchError, FetchCut, FetchSkewed, NumStock
  <2>2. ~skew[v]
    BY <1>2 DEF FetchOK, FetchError, FetchCut, FetchSkewed
  <2>3. CASE v = w /\ k = i[w] /\ u = t
    <3>1. FetchOK(w, t) \/ FetchError(w, t)
      BY <1>2, <2>2, <2>3 DEF FetchCut, FetchSkewed
    <3>2. QED
      BY <2>1, <2>3, <3>1, CallSettles
  <2>4. CASE ~(v = w /\ k = i[w] /\ u = t)
    <3>1. Passed(v, k, u) /\ wpc[v] \in {"stock", "Min30", "Min5"}
      <4>1. CASE v = w
        <5>1. AfterFetch(w, t) /\ wpc[w] = t
          BY <1>2, <2>2, <4>1 DEF FetchOK, FetchError, FetchCut, FetchSkewed
        <5>2. QED
          BY <2>4, <4>1, <5>1 DEF AfterFetch, Passed, Tables
      <4>2. CASE v # w
        BY <1>2, <4>2
        DEF FetchOK, FetchError, FetchCut, FetchSkewed, AfterFetch, Passed
      <4>3. QED
        BY <4>1, <4>2
    <3>2. Settled(v, k, u)
      BY <2>1, <2>2, <3>1 DEF FreshInv
    <3>3. wpc[v] # "none"
      BY <3>1
    <3>4. QED
      BY <1>2, <2>1, <3>2, <3>3, SettledStays
  <2>5. QED
    BY <2>3, <2>4
<1>3. CASE CreateThreads
  <2>1. \A w \in Clients : wpc'[w] \in {"new", "none"}
    BY <1>3 DEF CreateThreads
  <2>2. QED
    BY <2>1 DEF FreshInv
<1>4. CASE MysqlFails \/ LoadDies \/ ConstructorThrows
  <2>1. \A w \in Clients : wpc'[w] = "none"
    BY <1>4 DEF MysqlFails, LoadDies, ConstructorThrows, StartUpInv
  <2>2. QED
    BY <2>1 DEF FreshInv
<1>5. CASE \/ InitTdx \/ Clock \/ OnTimer \/ OnTimerDies
           \/ \E w \in Clients : \/ Connecting(w) \/ RedisThrows(w)
                                 \/ \E t \in Tables : FetchDies(w, t)
           \/ \E n \in Slots : ServerDrops(n)
           \/ UNCHANGED allvars
  <2>1. UNCHANGED <<m_istock, wpc, i, stored, skew, seen, missed>>
    BY <1>5
    DEF InitTdx, Clock, OnTimer, OnTimerDies, Connecting, RedisThrows,
        FetchDies, ServerDrops, allvars, hostvars
  <2>2. QED
    BY <2>1 DEF FreshInv, Passed, Settled, NumStock
<1>6. QED
  BY <1>1, <1>2, <1>3, <1>4, <1>5 DEF AllNext, Run, Mishap

LEMMA HostKeepsRoundFresh ==
  ASSUME HostTypeOK, StartUpInv, SliceInv, TriggerInv, FreshInv, IdleFresh,
         [AllNext]_allvars
  PROVE  IdleFresh'
<1> USE HostNumbers
<1>1. ASSUME NEW w \in Clients,
             \/ StartRound(w) \/ Connected(w) \/ BeginStock(w)
             \/ InitInstance(w) \/ EndRound(w)
      PROVE  IdleFresh'
  <2> SUFFICES ASSUME NEW v \in Clients, wpc'[v] = "idle", seen'[v] # Never,
                      ~skew'[v], NEW k \in 0 .. NumStock(v)' - 1,
                      NEW t \in Tables
               PROVE  Settled(v, k, t)'
    BY DEF IdleFresh
  <2>1. UNCHANGED <<stored, skew, m_istock>>
    BY <1>1 DEF StartRound, Connected, BeginStock, InitInstance, EndRound
  <2>2. k \in 0 .. NumStock(v) - 1
    BY <2>1 DEF NumStock
  <2>3. CASE v # w
    <3>1. wpc'[v] = wpc[v] /\ seen'[v] = seen[v] /\ missed'[v] = missed[v]
      BY <1>1, <2>3
      DEF StartRound, Connected, BeginStock, InitInstance, EndRound,
          HostTypeOK
    <3>2. Settled(v, k, t)
      BY <2>1, <2>2, <3>1 DEF IdleFresh
    <3>3. QED
      BY <2>1, <3>1, <3>2 DEF Settled
  <2>4. CASE v = w
    <3>1. EndRound(w)
      BY <1>1, <2>4
      DEF StartRound, Connected, BeginStock, InitInstance, SliceInv
    <3>2. wpc[v] = "stock" /\ i[v] >= NumStock(v) /\ UNCHANGED <<seen, missed>>
      BY <2>4, <3>1 DEF EndRound
    <3>3. NumStock(v) \in Int
      <4>1. m_istock \in Nat /\ TREADNUM \in Nat \ {0}
        BY HostAssumption DEF HostTypeOK
      <4>2. /\ m_istock \div TREADNUM \in 0 .. m_istock
            /\ m_istock - (TREADNUM - 1) * (m_istock \div TREADNUM)
                 \in 0 .. m_istock
        BY <4>1, ShareFits
      <4>3. QED
        BY <4>1, <4>2 DEF NumStock
    <3>4. Passed(v, k, t)
      BY <2>2, <3>2, <3>3 DEF Passed
    <3>5. Settled(v, k, t)
      BY <2>1, <2>2, <3>2, <3>4 DEF FreshInv
    <3>6. QED
      BY <2>1, <3>2, <3>5 DEF Settled
  <2>5. QED
    BY <2>3, <2>4
<1>2. ASSUME NEW w \in Clients, NEW t \in Tables,
             \/ FetchOK(w, t) \/ FetchError(w, t) \/ FetchCut(w, t)
             \/ FetchSkewed(w, t)
      PROVE  IdleFresh'
  <2> SUFFICES ASSUME NEW v \in Clients, wpc'[v] = "idle", seen'[v] # Never,
                      ~skew'[v], NEW k \in 0 .. NumStock(v)' - 1,
                      NEW u \in Tables
               PROVE  Settled(v, k, u)'
    BY DEF IdleFresh
  <2>1. k \in 0 .. NumStock(v) - 1 /\ seen' = seen
    BY <1>2 DEF FetchOK, FetchError, FetchCut, FetchSkewed, NumStock
  <2>2. ~skew[v]
    BY <1>2 DEF FetchOK, FetchError, FetchCut, FetchSkewed
  <2>3. wpc[v] = "idle"
    <3>1. \E p \in {"stock", "Min5", "hung"} : wpc' = [wpc EXCEPT ![w] = p]
      BY <1>2 DEF FetchOK, FetchError, FetchCut, FetchSkewed, AfterFetch
    <3>2. QED
      BY <3>1
  <2>4. Settled(v, k, u)
    BY <2>1, <2>2, <2>3 DEF IdleFresh
  <2>5. wpc[v] # "none"
    BY <2>3
  <2>6. QED
    BY <1>2, <2>1, <2>4, <2>5, SettledStays
<1>3. CASE CreateThreads
  <2>1. \A w \in Clients : wpc'[w] \in {"new", "none"}
    BY <1>3 DEF CreateThreads
  <2>2. QED
    BY <2>1 DEF IdleFresh
<1>4. CASE MysqlFails \/ LoadDies \/ ConstructorThrows
  <2>1. \A w \in Clients : wpc'[w] = "none"
    BY <1>4 DEF MysqlFails, LoadDies, ConstructorThrows, StartUpInv
  <2>2. QED
    BY <2>1 DEF IdleFresh
<1>5. CASE \/ InitTdx \/ Clock \/ OnTimer \/ OnTimerDies
           \/ \E w \in Clients : \/ Connecting(w) \/ RedisThrows(w)
                                 \/ \E t \in Tables : FetchDies(w, t)
           \/ \E n \in Slots : ServerDrops(n)
           \/ UNCHANGED allvars
  <2>1. UNCHANGED <<m_istock, wpc, stored, skew, seen, missed>>
    BY <1>5
    DEF InitTdx, Clock, OnTimer, OnTimerDies, Connecting, RedisThrows,
        FetchDies, ServerDrops, allvars, hostvars
  <2>2. QED
    BY <2>1 DEF IdleFresh, Settled, NumStock
<1>6. QED
  BY <1>1, <1>2, <1>3, <1>4, <1>5 DEF AllNext, Run, Mishap

-----------------------------------------------------------------------------
(* What can kill the process.                                               *)

LEMMA HostKeepsFaultCauses ==
  ASSUME PoolInv, StartUpInv, MutexInv, SliceInv, FaultCauses,
         [AllNext]_allvars
  PROVE  FaultCauses'
<1> USE DEF FaultCauses
<1>0. HostTypeOK' /\ TypeOK /\ HostTypeOK
  BY HostTypes DEF PoolInv
<1>1. CASE InitTdx
  <2>1. CASE InitNoConfig
    BY <1>0, <2>1 DEF InitNoConfig
  <2>2. ASSUME NEW k \in IniLines, InitOK(k) PROVE FaultCauses'
    <3>1. fault' => nIP' > MAXIP
      BY <2>2 DEF InitOK
    <3>2. QED
      BY <1>0, <3>1
  <2>3. QED
    BY <1>1, <2>1, <2>2 DEF InitTdx
<1>2. ASSUME NEW w \in Clients, Connecting(w) PROVE FaultCauses'
  <2>1. CASE ConnectNullMutex(w)
    <3>1. initRet = TDXHQ_ERROR_COFG
      BY <1>0, <2>1 DEF ConnectNullMutex, MutexInv, TypeOK
    <3>2. QED
      BY <1>0, <2>1, <3>1 DEF ConnectNullMutex
  <2>2. CASE ConnectEnter(w) \/ ConnectOK(w) \/ ConnectFail(w)
    <3>1. ~fault'
      BY <2>2 DEF ConnectEnter, ConnectOK, ConnectFail
    <3>2. QED
      BY <1>0, <3>1
  <2>3. QED
    BY <1>2, <2>1, <2>2 DEF Connecting
<1>3. ASSUME NEW w \in Clients, RedisThrows(w) PROVE FaultCauses'
  BY <1>0, <1>3 DEF RedisThrows
<1>9. CASE LoadDies
  <2>1. m_istock' \notin 1 .. MAXSTOCK
    <3>1. CASE UNCHANGED m_istock
      BY <1>9, <3>1 DEF LoadDies, SliceInv
    <3>2. CASE \E rows \in RowCounts : rows > MAXSTOCK /\ m_istock' = rows
      BY <3>2, HostAssumption
    <3>3. QED
      BY <1>9, <3>1, <3>2 DEF LoadDies
  <2>2. QED
    BY <1>0, <2>1
<1>10. CASE ConstructorThrows
  BY <1>0, <1>10 DEF ConstructorThrows
<1>11. CASE OnTimerDies
  <2>1. m_istock = 0 /\ UNCHANGED m_istock
    BY <1>11 DEF OnTimerDies, hostvars, SliceInv
  <2>2. QED
    BY <1>0, <2>1
<1>4. ASSUME NEW w \in Clients, NEW t \in Tables, FetchDies(w, t)
      PROVE  FaultCauses'
  <2>1. conID[w] \in Slots
    <3>1. conID[w] >= 0
      BY <1>4 DEF FetchDies, StartUpInv, Fetching, Tables
    <3>2. QED
      BY <1>0, <3>1 DEF TypeOK, TDXHQ_ERROR_CONT
  <2>2. /\ UNCHANGED <<skew, skHQ>>
        /\ skew[w] \/ skHQ[conID[w]] = "lost"
    BY <1>4 DEF FetchDies, hostvars, Link
  <2>3. QED
    BY <1>0, <2>1, <2>2
<1>5. ASSUME NEW w \in Clients, NEW t \in Tables, FetchCut(w, t)
      PROVE  FaultCauses'
  BY <1>0, <1>5 DEF FetchCut, vars
<1>6. ASSUME NEW n \in Slots, ServerDrops(n) PROVE FaultCauses'
  BY <1>0, <1>6 DEF ServerDrops, PeerClose
<1>7. CASE \/ MysqlFails \/ CreateThreads \/ Clock \/ OnTimer
           \/ \E w \in Clients :
                \/ InitInstance(w) \/ StartRound(w) \/ Connected(w)
                \/ BeginStock(w) \/ EndRound(w)
                \/ \E t \in Tables : \/ FetchOK(w, t) \/ FetchError(w, t)
                                     \/ FetchSkewed(w, t)
           \/ UNCHANGED allvars
  <2>0. CASE CreateThreads
    <3>1. ~fault'
      BY <2>0 DEF CreateThreads, SliceInv, vars
    <3>2. QED
      BY <1>0, <3>1
  <2>1. CASE ~CreateThreads
    <3>1. UNCHANGED <<fault, initRet, nIP, m_istock, blame, skew, skHQ>>
      BY <1>7, <2>1
      DEF MysqlFails, Clock, OnTimer, InitInstance, StartRound, Connected,
          BeginStock, EndRound, FetchOK, FetchError, FetchSkewed, allvars,
          hostvars, vars
    <3>2. QED
      BY <1>0, <3>1
  <2>2. QED
    BY <2>0, <2>1
<1>8. QED
  BY <1>1, <1>2, <1>3, <1>4, <1>5, <1>6, <1>7, <1>9, <1>10, <1>11
  DEF AllNext, Run, Mishap

-----------------------------------------------------------------------------
LEMMA InitHostInv == HostInit => HostInv
<1> SUFFICES ASSUME HostInit PROVE HostInv
  OBVIOUS
<1> USE PoolAssumption, HostAssumption
<1>1. PoolInv /\ TypeOK
  BY InitPoolInv DEF HostInit, PoolInv
<1>2. HostTypeOK
  <2>1. /\ flag \in [Clients -> BOOLEAN] /\ skew \in [Clients -> BOOLEAN]
        /\ missed \in [Clients -> SUBSET (Nat \X Tables)]
    BY DEF HostInit
  <2>2. stored \in [Stocks -> [Tables -> {Never, Junk} \cup 0 .. MaxMin]]
    BY DEF HostInit
  <2>3. now \in 0 .. MaxMin /\ preMin \in 0 .. HourLen - 1 /\ m_istock \in Nat
    BY DEF HostInit
  <2>4. /\ wpc \in [Clients -> {"none", "new", "idle", "connect", "stock",
                               "Min30", "Min5", "hung"}]
        /\ i \in [Clients -> Nat] /\ blame \in BOOLEAN
        /\ ui \in {"mysql", "threads", "run", "dead"}
    BY DEF HostInit
  <2>5. /\ seen \in [Clients -> {Never} \cup 0 .. MaxMin]
        /\ trig \in [Clients -> {Never} \cup 0 .. MaxMin]
    BY DEF HostInit
  <2>6. QED
    BY <1>1, <2>1, <2>2, <2>3, <2>4, <2>5 DEF HostTypeOK
<1>3. StartUpInv /\ MutexInv
  BY DEF HostInit, Init, StartUpInv, NoCallBeforeInit, Fetching, MutexInv,
         TDXHQ_ERROR_OK
<1>4. TriggerInv
  <2>1. \A w \in Clients : trig[w] = -1 /\ seen[w] = -1
    BY DEF HostInit, Never
  <2>2. now = 0
    BY DEF HostInit
  <2>3. \A w \in Clients : /\ trig[w] <= now /\ seen[w] <= now
                            /\ seen[w] >= trig[w]
    <3>1. -1 <= 0 /\ -1 >= -1
      OBVIOUS
    <3>2. QED
      BY <2>1, <2>2, <3>1, Zenon
  <2>4. QED
    BY <2>3, Zenon DEF TriggerInv
<1>5. FreshInv
  BY DEF HostInit, FreshInv
<1>6. IdleFresh /\ SliceInv
  BY DEF HostInit, Init, IdleFresh, SliceInv
<1>7. FaultCauses
  BY <1>2 DEF HostInit, Init, FaultCauses
<1>8. QED
  BY <1>1, <1>3, <1>4, <1>5, <1>6, <1>7 DEF HostInv

LEMMA NextHostInv == HostInv /\ [AllNext]_allvars => HostInv'
<1> SUFFICES ASSUME HostInv, [AllNext]_allvars PROVE HostInv'
  OBVIOUS
<1>1. /\ PoolInv /\ StartUpInv /\ MutexInv /\ TriggerInv /\ SliceInv
      /\ FreshInv /\ IdleFresh /\ FaultCauses /\ HostTypeOK
  BY DEF HostInv, FaultCauses
<1>2. PoolInv' /\ StartUpInv' /\ MutexInv'
  BY <1>1, HostKeepsPool, HostKeepsStartUp, HostKeepsMutex
<1>3. TriggerInv' /\ SliceInv' /\ FreshInv' /\ IdleFresh'
  BY <1>1, HostKeepsTriggers, HostKeepsSlices, HostKeepsFresh,
     HostKeepsRoundFresh
<1>4. FaultCauses'
  BY <1>1, HostKeepsFaultCauses
<1>5. QED
  BY <1>2, <1>3, <1>4 DEF HostInv

LEMMA HostInvariant == AllSpec => []HostInv
  BY InitHostInv, NextHostInv, PTL DEF AllSpec

(* Ids stay exclusive and every connection has its owner when the table is  *)
(* driven by the dialog and its threads, also when the process dies.        *)
THEOREM HostKeepsOwnership == AllSpec => [](UniqueOwner /\ HeldIffEstablished)
  BY HostInvariant, PTL DEF HostInv, PoolInv

(* After a round the bars of every stock of the thread are as new as the    *)
(* round, but for the tables that the round itself failed to fetch or to    *)
(* store.                                                                   *)
THEOREM RoundsAreFresh == AllSpec => []RoundFresh
<1>1. HostInv => RoundFresh
  BY DEF HostInv, IdleFresh, Settled, RoundFresh
<1>2. QED
  BY <1>1, HostInvariant, PTL

(* A trigger that finds a thread idle is served, or its flag still stands.  *)
THEOREM IdleTriggersServed == AllSpec => []IdleTriggerServed
<1>1. HostInv => IdleTriggerServed
  BY DEF HostInv, TriggerInv, IdleTriggerServed
<1>2. QED
  BY <1>1, HostInvariant, PTL

(* No thread enters TDXHQ.dll before TDXHQ_Init has returned.               *)
THEOREM NoEarlyCall == AllSpec => []NoCallBeforeInit
  BY HostInvariant, PTL DEF HostInv, StartUpInv

(* The process dies only of the causes listed.                              *)
THEOREM FaultsHaveCauses == AllSpec => []FaultCauses
  BY HostInvariant, PTL DEF HostInv

(* A thread whose connection was dropped keeps the dead id and stores       *)
(* nothing for the rest of the program's life.                              *)
THEOREM DroppedThreadsAreSilent == AllSpec => DroppedThreadIsSilent
<1> DEFINE Dropped(w) == conID[w] >= 0 /\ skHQ[conID[w]] = "lost" /\ ~skew[w]
           Silent(w) == /\ conID'[w] = conID[w]
                        /\ \A s \in Stocks : s[1] = w => stored'[s] = stored[s]
<1>1. HostInv /\ [AllNext]_allvars
        => [\A w \in Clients : Dropped(w) => Silent(w)]_allvars
  <2> SUFFICES ASSUME HostInv, AllNext, NEW w \in Clients, Dropped(w)
               PROVE  Silent(w)
    BY Zenon
  <2>1. TypeOK /\ HostTypeOK /\ PoolInv /\ StartUpInv
    BY DEF HostInv, PoolInv, FaultCauses
  <2>2. conID'[w] = conID[w]
    <3>1. ASSUME NEW v \in Clients, Connecting(v) PROVE conID'[w] = conID[w]
      <4>1. pc[w] # "connect"
        BY <2>1 DEF PoolInv, LockInv, TypeOK, Slots, TDXHQ_ERROR_CONT
      <4>2. QED
        BY <2>1, <3>1, <4>1
        DEF Connecting, ConnectEnter, ConnectNullMutex, ConnectOK,
            ConnectFail, TypeOK
    <3>2. ASSUME NEW v \in Clients, InitInstance(v) PROVE conID'[w] = conID[w]
      BY <2>1, <3>2 DEF InitInstance, StartUpInv, TypeOK
    <3>3. CASE InitTdx \/ \E n \in Slots : ServerDrops(n)
      BY <3>3 DEF InitTdx, InitNoConfig, InitOK, ServerDrops, PeerClose
    <3>4. CASE \E v \in Clients : Mishap(v)
      BY <3>4 DEF Mishap, RedisThrows, FetchCut, FetchDies, vars
    <3>5. CASE \/ MysqlFails \/ LoadDies \/ ConstructorThrows \/ CreateThreads
               \/ Clock \/ OnTimer \/ OnTimerDies
      BY <3>5
      DEF MysqlFails, LoadDies, ConstructorThrows, CreateThreads, Clock,
          OnTimer, OnTimerDies, vars
    <3>6. ASSUME NEW v \in Clients, Run(v), ~InitInstance(v), ~Connecting(v)
          PROVE  conID'[w] = conID[w]
      BY <3>6
      DEF Run, StartRound, Connected, BeginStock, EndRound, FetchOK,
          FetchError, FetchSkewed, vars
    <3>7. QED
      BY <3>1, <3>2, <3>3, <3>4, <3>5, <3>6 DEF AllNext
  <2>3. ASSUME NEW s \in Stocks, s[1] = w PROVE stored'[s] = stored[s]
    <3>1. ASSUME NEW v \in Clients, NEW t \in Tables, NEW m, v # w,
                 Replace(v, t, m)
          PROVE  stored'[s] = stored[s]
      <4>1. s # <<v, i[v]>>
        BY <2>3, <3>1
      <4>2. stored \in [Stocks -> [Tables -> {Never, Junk} \cup 0 .. MaxMin]]
        BY <2>1 DEF HostTypeOK
      <4>3. QED
        BY <3>1, <4>1, <4>2 DEF Replace
    <3>2. ASSUME NEW v \in Clients, NEW t \in Tables, FetchOK(v, t)
          PROVE  stored'[s] = stored[s]
      <4>1. v # w /\ (UNCHANGED stored \/ Replace(v, t, now))
        BY <3>2 DEF FetchOK, Link
      <4>2. QED
        BY <3>1, <4>1
    <3>3. ASSUME NEW v \in Clients, NEW t \in Tables, FetchSkewed(v, t)
          PROVE  stored'[s] = stored[s]
      <4>1. v # w /\ (UNCHANGED stored \/ Replace(v, t, Junk))
        BY <3>3 DEF FetchSkewed
      <4>2. QED
        BY <3>1, <4>1
    <3>4. CASE \/ MysqlFails \/ LoadDies \/ ConstructorThrows \/ CreateThreads
               \/ InitTdx \/ Clock \/ OnTimer \/ OnTimerDies
               \/ \E n \in Slots : ServerDrops(n)
               \/ \E v \in Clients : Mishap(v)
      BY <3>4
      DEF MysqlFails, LoadDies, ConstructorThrows, CreateThreads, InitTdx,
          Clock, OnTimer, OnTimerDies, ServerDrops, Mishap, RedisThrows,
          FetchCut, FetchDies, hostvars
    <3>5. CASE \E v \in Clients :
                 \/ InitInstance(v) \/ StartRound(v) \/ Connecting(v)
                 \/ Connected(v) \/ BeginStock(v) \/ EndRound(v)
                 \/ \E t \in Tables : FetchError(v, t)
      BY <3>5
      DEF InitInstance, StartRound, Connecting, Connected, BeginStock,
          EndRound, FetchError, hostvars
    <3>6. QED
      BY <3>2, <3>3, <3>4, <3>5 DEF AllNext, Run
  <2>4. QED
    BY <2>2, <2>3
<1>2. QED
  BY <1>1, HostInvariant, PTL DEF AllSpec, DroppedThreadIsSilent
=============================================================================
