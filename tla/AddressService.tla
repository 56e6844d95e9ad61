-------------------------- MODULE AddressService --------------------------
(***************************************************************************)
(* What address assignment promises to a LAN (dhcp.py): a client is leased *)
(* one address that no other machine has, and configures itself with the   *)
(* address of its lease.  Offers, holds, probes and the messages that      *)
(* carry them are not visible here.                                        *)
(***************************************************************************)
CONSTANTS Clients, Addrs, None,
          Used        \* the addresses configured by hand

VARIABLES lease,      \* lease[c]: the addresses leased to client c
          addr        \* addr[c]: the address client c is configured with

avars == <<lease, addr>>

Init ==
  /\ lease = [c \in Clients |-> {}]
  /\ addr = [c \in Clients |-> None]

Grant(c, a) ==
  /\ lease[c] = {}
  /\ a \notin Used
  /\ \A d \in Clients : a \notin lease[d]
  /\ lease' = [lease EXCEPT ![c] = {a}]
  /\ UNCHANGED addr

Configure(c, a) ==
  /\ addr[c] = None
  /\ a \in lease[c]
  /\ addr' = [addr EXCEPT ![c] = a]
  /\ UNCHANGED lease

Next == \E c \in Clients, a \in Addrs : Grant(c, a) \/ Configure(c, a)

Spec == Init /\ [][Next]_avars
=============================================================================
