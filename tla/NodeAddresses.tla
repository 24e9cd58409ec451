--------------------------- MODULE NodeAddresses ---------------------------
(***************************************************************************)
(* The node's addresses, as the agent announces them to the master in an   *)
(* annotation (node_ip_handler_linux.go), through the node annotator that  *)
(* sends only what differs from the node object it was made with           *)
(* (annotator.go).  An address may be on several links, and links get and  *)
(* lose addresses at any time; the kernel reports every change, in order,  *)
(* to those who subscribed.                                                *)
(***************************************************************************)
EXTENDS Naturals, Sequences, FiniteSets

CONSTANTS Links, Addresses,
          Unfit,          \* addresses that are not a node's: link-local,
                          \* loopback, and the management port's
          MaxChanges, MaxFailures, MaxCrashes

VARIABLES
    host,                 \* the addresses on the links
    queue,                \* addrChan: changes not yet handled
    pc,                   \* "down", "read", "made", "subscribed", "running",
                          \* or "deaf" without a subscription
    addresses,            \* addressManager.addresses
    node,                 \* the annotation in the annotator's node object
    changes,              \* the annotator's pending value
    api,                  \* the annotation of the node in the cluster
    causes,               \* what happened that the README lists
    count                 \* changes, failures and crashes so far

vars == <<host, queue, pc, addresses, node, changes, api, causes, count>>

Unset == {"unset"}
OnHost(h) == {x[2] : x \in h}
Bump(f) == count' = [count EXCEPT ![f] = @ + 1]

\* isValidNodeIP
IsValidNodeIP(a) == a \notin Unfit
Announced == {a \in OnHost(host) : IsValidNodeIP(a)}

-----------------------------------------------------------------------------
\* addAddr and delAddr; what they return is whether the set changed
AddAddr(set, a) == IF IsValidNodeIP(a) THEN set \cup {a} ELSE set
DelAddr(set, a) == IF IsValidNodeIP(a) THEN set \ {a} ELSE set

\* nodeAnnotator.Run after the patch it leaves out or sends; a failed patch is
\* only logged
Sends(val) == val # node

Run(val, why, c) ==
    \/ /\ api' = IF Sends(val) THEN val ELSE api
       /\ causes' = (why \ {"failed"}) \cup (IF val = node /\ api # val THEN {"reverted"} ELSE {})
       /\ count' = c
    \/ /\ Sends(val) /\ c.failures < MaxFailures
       /\ count' = [c EXCEPT !.failures = @ + 1]
       /\ causes' = why \cup {"failed"}
       /\ UNCHANGED api

\* addressManager.sync only ever adds; without a list of the host's addresses
\* it goes on with none
Sync(set) ==
    \/ /\ addresses' = set \cup Announced
       /\ changes' = addresses'
       /\ Run(addresses', causes \ {"unlisted"}, count)
    \/ /\ count.failures < MaxFailures
       /\ addresses' = set /\ changes' = set
       /\ Run(set, causes \cup {"unlisted"}, [count EXCEPT !.failures = @ + 1])

-----------------------------------------------------------------------------
\* Start reads the node for its annotator
ReadNode ==
    /\ pc = "down"
    /\ pc' = "read"
    /\ node' = api /\ changes' = Unset /\ causes' = {}
    /\ UNCHANGED <<host, queue, addresses, api, count>>

\* newAddressManager, in initGateway
NewAddressManager ==
    /\ pc = "read"
    /\ pc' = "made"
    /\ Sync({})
    /\ UNCHANGED <<host, queue, node>>

\* addressManager.Run subscribes and then synchronises; without the
\* subscription it returns, and the agent goes on
Subscribe ==
    /\ pc = "made"
    /\ \/ pc' = "subscribed" /\ UNCHANGED <<causes, count>>
       \/ /\ count.failures < MaxFailures /\ Bump("failures")
          /\ pc' = "deaf" /\ causes' = causes \cup {"deaf"}
    /\ UNCHANGED <<host, queue, addresses, node, changes, api>>

SyncAgain ==
    /\ pc = "subscribed"
    /\ pc' = "running"
    /\ Sync(addresses)
    /\ UNCHANGED <<host, queue, node>>

\* one change taken from the channel: the annotator runs even when the set of
\* addresses did not change
HandleChange ==
    /\ pc = "running" /\ queue # <<>>
    /\ LET e == Head(queue)
           set == IF e.new THEN AddAddr(addresses, e.address) ELSE DelAddr(addresses, e.address)
       IN /\ addresses' = set
          /\ changes' = set
          /\ Run(set, causes, count)
    /\ queue' = Tail(queue)
    /\ UNCHANGED <<host, pc, node>>

Manager == ReadNode \/ NewAddressManager \/ Subscribe \/ SyncAgain \/ HandleChange

-----------------------------------------------------------------------------
Report(e) == queue' = IF pc \in {"subscribed", "running"} THEN Append(queue, e) ELSE queue

HostAdds(l, a) ==
    /\ count.changes < MaxChanges /\ Bump("changes")
    /\ <<l, a>> \notin host
    /\ host' = host \cup {<<l, a>>}
    /\ Report([new |-> TRUE, address |-> a])
    /\ UNCHANGED <<pc, addresses, node, changes, api, causes>>

\* an address that goes before the subscription is never reported; one that
\* another link still has is reported all the same
HostRemoves(l, a) ==
    /\ count.changes < MaxChanges /\ Bump("changes")
    /\ <<l, a>> \in host
    /\ host' = host \ {<<l, a>>}
    /\ Report([new |-> FALSE, address |-> a])
    /\ causes' = causes \cup (IF pc = "made" THEN {"unseen"} ELSE {})
                        \cup (IF a \in OnHost(host') THEN {"double"} ELSE {})
    /\ UNCHANGED <<pc, addresses, node, changes, api>>

Crash ==
    /\ pc # "down"
    /\ count.crashes < MaxCrashes /\ Bump("crashes")
    /\ pc' = "down" /\ queue' = <<>>
    /\ UNCHANGED <<host, addresses, node, changes, api, causes>>

Init ==
    /\ host \in {{}} \cup {{<<l, a>>} : l \in Links, a \in Addresses}
    /\ queue = <<>> /\ pc = "down" /\ addresses = {} /\ changes = Unset
    /\ node = Unset /\ api = Unset /\ causes = {}
    /\ count = [changes |-> 0, failures |-> 0, crashes |-> 0]

Next ==
    \/ Manager \/ Crash
    \/ \E l \in Links, a \in Addresses : HostAdds(l, a) \/ HostRemoves(l, a)

Spec == Init /\ [][Next]_vars /\ WF_vars(Manager)

-----------------------------------------------------------------------------
Quiet == pc \in {"running", "deaf"} /\ queue = <<>>

\* With every change handled, the annotation is the set of the host's
\* addresses, unless an address went before the subscription, was on two links,
\* the subscription, the list after it or the last patch failed, or the set came
\* back to the one the annotator was made with: the agent's restarts and the
\* order of the reports do not matter.
AddressesAnnotated == Quiet /\ causes = {} => api = Announced

\* "Ignore annotations that already exist with the same value" of
\* nodeAnnotator.Run: what it leaves out, the node has.
SkippedIsPresent == Quiet /\ "failed" \notin causes => api = changes
=============================================================================
