--------------------------- MODULE MCIPAllocator ----------------------------
(***************************************************************************)
(* A /31 and a /30 and a /29 of IPv4, and an IPv6 range larger than the    *)
(* bitmap cap, with every address in and around them passed to Allocate.   *)
(***************************************************************************)
EXTENDS IPAllocator

Net(size, v6) == [first |-> 8, size |-> size, v6 |-> v6]

MCCIDRs == {Net(2, FALSE), Net(4, FALSE), Net(8, FALSE), Net(8, TRUE)}
MCIPs   == 7 .. 16
=============================================================================
