----------------------------- MODULE IsoAddress -----------------------------
(***************************************************************************)
(* The ISO address a router gets from its loopback address (topology.py),  *)
(* and what IS-IS takes from it when it starts (isis/process.py).  LSPs    *)
(* are known by the system id alone: Isis.tla names them by their router,  *)
(* which is right only if no two loopback addresses give one id.           *)
(***************************************************************************)
EXTENDS Naturals, Sequences

Byte == 0 .. 255
IPv4 == [1 .. 4 -> Byte]

(* A byte written with three digits.                                       *)
Digits3(b) == <<b \div 100, (b \div 10) % 10, b % 10>>

(* The digits of the four bytes in a row, and a dot after every fourth.    *)
Segments(ip) == [k \in 1 .. 12 |-> Digits3(ip[1 + ((k - 1) \div 3)])[1 + ((k - 1) % 3)]]
Grouped(ds)  == [g \in 1 .. 3 |-> [j \in 1 .. 4 |-> ds[4 * (g - 1) + j]]]

BuildIsoAddress(area, ip) == area \o Grouped(Segments(ip)) \o <<"0001", "00">>

(* start: the first two parts are the area, the next three the system id.  *)
AreaId(address)   == <<address[1], address[2]>>
SystemId(address) == <<address[3], address[4], address[5]>>
==============================================================================
