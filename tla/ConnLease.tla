----------------------------- MODULE ConnLease -----------------------------
(***************************************************************************)
(* What the callers of TDXHQ.dll rely on: a connection id is a lease.  A   *)
(* client obtains an id nobody else holds, keeps exactly that id, and      *)
(* gives it back at most once per grant.  Nothing is said of sockets,      *)
(* servers, locks or of how an id is chosen.                               *)
(***************************************************************************)
EXTENDS Integers

CONSTANTS Clients, Ids

None == -1

VARIABLE lease      \* [Clients -> Ids \cup {None}]

LeaseInit == lease = [c \in Clients |-> None]

(* TDXHQ_Connect returns the id i to c.                                     *)
Acquire(c, i) ==
  /\ lease[c] = None
  /\ \A d \in Clients : lease[d] # i
  /\ lease' = [lease EXCEPT ![c] = i]

(* TDXHQ_DisConnect by the holder.                                          *)
Release(c) ==
  /\ lease[c] # None
  /\ lease' = [lease EXCEPT ![c] = None]

LeaseNext == \E c \in Clients : Release(c) \/ \E i \in Ids : Acquire(c, i)

LeaseSpec == LeaseInit /\ [][LeaseNext]_lease
=============================================================================
