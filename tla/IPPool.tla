------------------------------- MODULE IPPool -------------------------------
(***************************************************************************)
(* What an IP address pool promises its callers, whatever data structure   *)
(* keeps it: an address is handed out only while nobody holds it, a        *)
(* request is refused only for the reason the error names, and giving an   *)
(* address back never disturbs another holder.                             *)
(* IPAllocator implements this specification.                              *)
(***************************************************************************)
EXTENDS Integers

CONSTANTS IPs,      \* addresses a caller may name, inside the range or not
          None      \* no address

VARIABLES usable,   \* the addresses the pool may hand out
          held,     \* the addresses currently handed out
          reply     \* what the last call returned

vars == <<usable, held, reply>>

Reply(ip, err) == [ip |-> ip, err |-> err]

Init ==
  /\ usable \in SUBSET Int
  /\ held = {}
  /\ reply = Reply(None, "nil")

\* A named address is granted exactly when it is usable and free.
Reserve(ip) ==
  /\ ip \in usable \ held
  /\ held' = held \cup {ip}
  /\ reply' = Reply(ip, "nil")

RefuseReserve(ip) ==
  /\ reply' = Reply(None, IF ip \in usable THEN "ErrAllocated" ELSE "ErrNotInRange")
  /\ ip \notin usable \ held
  /\ UNCHANGED held

\* Any free address may be granted when the caller names none ...
Take ==
  \E ip \in usable \ held :
    /\ held' = held \cup {ip}
    /\ reply' = Reply(ip, "nil")

\* ... and the pool may say it is full only when it is.
RefuseTake ==
  /\ usable \subseteq held
  /\ reply' = Reply(None, "ErrFull")
  /\ UNCHANGED held

GiveBack(ip) ==
  /\ held' = held \ {ip}
  /\ reply' = Reply(None, "nil")

Next ==
  /\ \/ Take
     \/ RefuseTake
     \/ \E ip \in IPs : Reserve(ip) \/ RefuseReserve(ip) \/ GiveBack(ip)
  /\ UNCHANGED usable

Spec == Init /\ [][Next]_vars
=============================================================================
