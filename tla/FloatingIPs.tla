---------------------------- MODULE FloatingIPs -----------------------------
(***************************************************************************)
(* Floating IPs (pkg/ovn/floatingip*.go): providers own address ranges,    *)
(* claims reserve parts of a provider's range, and the claim controller's  *)
(* worker gives an address and a gateway node to every pod the claim       *)
(* selects by creating a FloatingIP object, which the master then turns    *)
(* into a reroute policy and a NAT rule.                                   *)
(*                                                                         *)
(* Providers, claims and FloatingIP objects each have one informer thread, *)
(* a node has its own.  A step is one critical section or one call to the  *)
(* API server.  Every claim selects every pod.  Left out: the status of    *)
(* the providers, gratuitous ARP, pods on the host network.  The label,    *)
(* readiness and reachability of a node are one flag.  The two watches of  *)
(* FloatingIPs count as registered together.                               *)
(***************************************************************************)
EXTENDS Integers, Sequences, FiniteSets, SequencesExt

CONSTANTS Providers, Claims, Pods, Nodes,
          PairsOf,     \* spec.floatingIPs of each provider: ranges of addresses
          ProviderOf,  \* spec.provider of each claim
          Specs,       \* spec.floatingIPs that each claim may have
          Worlds,      \* providers, claims, pods and nodes when the master starts,
                       \* and a bound on each kind of thing that may happen then
          MaxFips      \* bound: FloatingIP names in use at a time

NoAlloc == [has |-> {}, used |-> {}, nil |-> TRUE]
NoClaim == [ips |-> {}, phase |-> "none", assigned |-> FALSE]
Idle    == [pc |-> "idle"]
Absent  == -1
RangeOf == [p \in Providers |-> UNION PairsOf[p]]

VARIABLES
  \* The API server and the informers.
  providers,   \* the providers that exist
  claims,      \* each claim: NoClaim, or its range and status
  fips,        \* the FloatingIP objects
  pods,        \* "none", "noip" (no status.podIPs) or "ip"
  ready,       \* nodes that are labelled, ready and reachable
  providerEv, claimEv, fipEv, nodeEv,   \* events not handled yet
  podEv,       \* pods with an event not handled yet
  \* The controllers.
  boot,        \* Run has not yet registered the claim watch
  deaf,        \* nor the two watches of FloatingIPs, which come after it
  allocators, suballocators,   \* of the providers, of the claims
  fiOnNodes,   \* FloatingIPs per node, Absent if the node is not used
  watching,    \* claims whose namespace and pod handlers are registered
  queue,       \* keys of the claim work queue
  sync,        \* the claim worker
  \* The northbound database.
  policy, nat, \* ids of the FloatingIPs with a reroute policy, with a NAT rule
  \* Bounds and history.
  budget,      \* what is left of the environment's budget
  disturbed    \* what happened so far that properties make exceptions for

apiVars  == <<providers, claims, fips, pods, ready>>
evVars   == <<providerEv, claimEv, fipEv, nodeEv, podEv>>
ctlVars  == <<boot, deaf, allocators, suballocators, fiOnNodes, watching, queue, sync>>
dbVars   == <<policy, nat>>
histVars == <<budget, disturbed>>
vars     == <<apiVars, evVars, ctlVars, dbVars, histVars>>

----------------------------------------------------------------------------
\* The allocators (floatingipallocator): a set of addresses and those in use.

NewAllocationMap(ips) == [has |-> ips, used |-> {}, nil |-> FALSE]
New(ips)     == NewAllocationMap(ips)
Free(a)      == a.has \ a.used
HasPool(a, ips) == ips \subseteq a.has
PoolIsAvailable(a, ips) == ips \subseteq Free(a)
Lowest(S)    == CHOOSE i \in S : \A j \in S : i <= j
With(a, S)    == [a EXCEPT !.used = @ \cup S]
Without(a, S) == [a EXCEPT !.used = @ \ S]

\* AllocatePool of every range, or none of them: a conflict rolls back.
\* Mutant: a conflict goes unnoticed.
AllocatePoolAlways(a, ips) == With(a, ips)
AllocatePool(a, ips) == IF PoolIsAvailable(a, ips) THEN With(a, ips) ELSE a

\* What is not allocated is not released, an address out of range ignored.
Release(a, ip)      == Without(a, {ip})
ReleasePool(a, ips) == Without(a, ips)

\* Every event of an object that is watched; none while Run has not got there.
Events(quiet, q, es) == IF quiet THEN q ELSE q \o es

Spend(kind) == budget[kind] > 0 /\ budget' = [budget EXCEPT ![kind] = @ - 1]

----------------------------------------------------------------------------
\* The API server: users, the scheduler, the garbage collector.

CreateProvider(p) ==
  /\ p \notin providers /\ Spend("provider")
  /\ providers' = providers \cup {p}
  /\ providerEv' = Append(providerEv, <<"add", p>>)
  /\ UNCHANGED <<claims, fips, pods, ready, claimEv, fipEv, nodeEv, podEv,
                 ctlVars, dbVars, disturbed>>

DeleteProvider(p) ==
  /\ p \in providers /\ Spend("provider") /\ disturbed' = disturbed \cup {"claim"}
  /\ providers' = providers \ {p}
  /\ providerEv' = Append(providerEv, <<"delete", p>>)
  /\ UNCHANGED <<claims, fips, pods, ready, claimEv, fipEv, nodeEv, podEv,
                 ctlVars, dbVars>>

CreateClaim(c, ips) ==
  /\ claims[c] = NoClaim /\ Spend("claim")
  /\ claims' = [claims EXCEPT ![c] = [ips |-> ips, phase |-> "new", assigned |-> FALSE]]
  /\ claimEv' = Events(boot, claimEv, << <<"add", c, NoClaim, claims'[c]>> >>)
  /\ UNCHANGED <<providers, fips, pods, ready, providerEv, fipEv, nodeEv,
                 podEv, ctlVars, dbVars, disturbed>>

\* The spec of a claim changes, or the claim is deleted (ips = {}).
ChangeClaim(c, ips) ==
  /\ claims[c] # NoClaim /\ ips # claims[c].ips
  /\ Spend("claim") /\ disturbed' = disturbed \cup {"claim"}
  /\ claims' = [claims EXCEPT ![c] = IF ips = {} THEN NoClaim ELSE [@ EXCEPT !.ips = ips]]
  /\ claimEv' = Events(boot, claimEv, << <<IF ips = {} THEN "delete" ELSE "update",
                                     c, claims[c], claims'[c]>> >>)
  /\ UNCHANGED <<providers, fips, pods, ready, providerEv, fipEv, nodeEv,
                 podEv, ctlVars, dbVars>>

DropFips(S) ==
  /\ fips' = fips \ S
  /\ fipEv' = Events(deaf, fipEv, SetToSeq({<<"delete", f>> : f \in S}))

\* FloatingIPs are owned by their claim: the garbage collector deletes them.
CollectGarbage(f) ==
  /\ f \in fips /\ claims[f.claim] = NoClaim
  /\ DropFips({f})
  /\ UNCHANGED <<providers, claims, pods, ready, providerEv, claimEv, nodeEv,
                 podEv, ctlVars, dbVars, histVars>>

\* A pod is created, gets its address, is deleted.
ChangePod(p) ==
  /\ Spend("pod")
  /\ \E s \in CASE pods[p] = "none" -> {"noip", "ip"}
                [] pods[p] = "noip" -> {"ip", "none"}
                [] pods[p] = "ip"   -> {"none"} : pods' = [pods EXCEPT ![p] = s]
  /\ podEv' = podEv \cup {p}
  /\ UNCHANGED <<providers, claims, fips, ready, providerEv, claimEv, fipEv,
                 nodeEv, ctlVars, dbVars, disturbed>>

ChangeNode(n) ==
  /\ Spend("node")
  /\ ready' = IF n \in ready THEN ready \ {n} ELSE ready \cup {n}
  /\ nodeEv' = [nodeEv EXCEPT ![n] = Append(@, IF n \in ready THEN "delete" ELSE "add")]
  /\ UNCHANGED <<providers, claims, fips, pods, providerEv, claimEv, fipEv,
                 podEv, ctlVars, dbVars, disturbed>>

Environment ==
  \/ \E p \in Providers : CreateProvider(p) \/ DeleteProvider(p)
  \/ \E c \in Claims : \E ips \in Specs[c] : CreateClaim(c, ips)
  \/ \E c \in Claims : \E ips \in Specs[c] \cup {{}} : ChangeClaim(c, ips)
  \/ \E f \in fips : CollectGarbage(f)
  \/ \E p \in Pods : ChangePod(p)
  \/ \E n \in Nodes : ChangeNode(n)

----------------------------------------------------------------------------
\* ficMutex: the worker's sync holds it for reading until it has released
\* what it did not use; every handler below takes it for writing.

Unlocked == sync.pc \notin {"clean", "alloc", "create", "release"}

\* HasPool: another provider has a whole range of the new one.  A range that it
\* has a part of is accepted.
Conflict(p) == \E q \in Providers : allocators[q] # NoAlloc /\ \E pair \in PairsOf[p] : HasPool(allocators[q], pair)
Overlaps(p) == \E q \in Providers \ {p} : allocators[q] # NoAlloc /\ RangeOf[q] \cap RangeOf[p] # {}

AddFloatingIPProvider(p) ==
  /\ allocators' = IF Conflict(p) THEN allocators
                   ELSE [allocators EXCEPT ![p] = New(RangeOf[p])]
  /\ disturbed' = disturbed \cup {s \in {"mixed"} : Overlaps(p)}
  /\ UNCHANGED <<claims, claimEv, budget>>

\* The provider's claims are deleted through the API server.  A deletion that
\* fails is queued for the provider's own sync, which does not make up for it:
\* it compares with the name of the empty object that Get returned.
DeleteFloatingIPProvider(p) ==
  LET mine == {c \in Claims : claims[c] # NoClaim /\ ProviderOf[c] = p}
  IN \E done \in SUBSET mine :
     /\ allocators' = [allocators EXCEPT ![p] = NoAlloc]
     /\ claims' = [c \in Claims |-> IF c \in done THEN NoClaim ELSE claims[c]]
     /\ claimEv' = Events(boot, claimEv, SetToSeq({<<"delete", c, claims[c], NoClaim>> : c \in done}))
     /\ IF done = mine THEN UNCHANGED histVars
        ELSE Spend("fault") /\ disturbed' = disturbed \cup {"orphan"}

HandleProvider ==
  /\ providerEv # <<>> /\ Unlocked
  /\ providerEv' = Tail(providerEv)
  /\ LET e == Head(providerEv)
     IN \/ e[1] = "add" /\ AddFloatingIPProvider(e[2])
        \/ e[1] = "delete" /\ DeleteFloatingIPProvider(e[2])
  /\ UNCHANGED <<providers, fips, pods, ready, fipEv, nodeEv, podEv, boot, deaf,
                 suballocators, fiOnNodes, watching, queue, sync, dbVars>>

\* addFloatingIPClaim and deleteFloatingIPClaim of the provider controller on
\* the state a = [alloc, sub, watch]; c's handlers enqueue c when registered.
Reserve(a, c, ips) ==
  LET p    == ProviderOf[c]
      pool == AllocatePool(a.alloc[p], ips)
  IN IF a.alloc[p] = NoAlloc \/ pool = a.alloc[p] THEN a
     ELSE [alloc |-> [a.alloc EXCEPT ![p] = pool],
           sub   |-> [a.sub EXCEPT ![c] = New(ips)],
           watch |-> a.watch \cup {c}]

Unreserve(a, c) ==
  LET p == ProviderOf[c]
  IN IF a.sub[c] = NoAlloc THEN [a EXCEPT !.watch = @ \ {c}]
     ELSE [alloc |-> IF a.alloc[p] = NoAlloc THEN a.alloc
                     ELSE [a.alloc EXCEPT ![p] = ReleasePool(@, a.sub[c].has)],
           sub   |-> [a.sub EXCEPT ![c] = NoAlloc],
           watch |-> a.watch \ {c}]

\* An update gives the old range up if the status of the old object shows it as
\* Ready, and then, with ficMutex released in between, adds the new range.
Replaced(e) == e[1] = "update" /\ e[3].phase = "Ready"

HandleClaim ==
  /\ claimEv # <<>> /\ Unlocked
  /\ LET e == Head(claimEv)
         c == e[2]
         a == [alloc |-> allocators, sub |-> suballocators, watch |-> watching]
         b == IF e[1] = "delete" \/ Replaced(e) THEN Unreserve(a, c) ELSE Reserve(a, c, e[4].ips)
     IN /\ claimEv' = IF Replaced(e) THEN [claimEv EXCEPT ![1] = <<"add", c, e[3], e[4]>>] ELSE Tail(claimEv)
        /\ allocators' = b.alloc /\ suballocators' = b.sub /\ watching' = b.watch
        /\ queue' = queue \cup {c}
  /\ UNCHANGED <<apiVars, providerEv, fipEv, nodeEv, podEv, boot, deaf, fiOnNodes,
                 sync, dbVars, histVars>>

\* A pod event reaches the pod handlers of the claims.
HandlePod(p) ==
  /\ p \in podEv
  /\ podEv' = podEv \ {p}
  /\ queue' = queue \cup watching
  /\ UNCHANGED <<apiVars, providerEv, claimEv, fipEv, nodeEv, boot, deaf, allocators,
                 suballocators, fiOnNodes, watching, sync, dbVars, histVars>>

----------------------------------------------------------------------------
\* FloatingIP events have two handlers: WatchFloatingIP keeps the database,
\* WatchFloatingIPForClaim gives address and node back.

ReleaseNode(m, n) == IF m[n] > 0 THEN [m EXCEPT ![n] = @ - 1] ELSE m

\* The commands are idempotent: they look for the row of the object's name.
FindReroutePolicyIDs(f) == policy \cap {f.id}
FindOneToOneNatIDs(f)   == nat \cap {f.id}
CreateReroutePolicy(f) == IF FindReroutePolicyIDs(f) = {} THEN policy \cup {f.id} ELSE policy
CreateNATRule(f)       == IF FindOneToOneNatIDs(f) = {} THEN nat \cup {f.id} ELSE nat
DeleteReroutePolicy(f) == policy \ FindReroutePolicyIDs(f)
DeleteNATRule(f)       == nat \ FindOneToOneNatIDs(f)

\* An error in one leaves the rest out, and nobody tries again.
AddPodFloatingIP(f) ==
  \/ policy' = CreateReroutePolicy(f) /\ nat' = CreateNATRule(f) /\ UNCHANGED histVars
  \/ /\ policy' \in {policy, CreateReroutePolicy(f)} /\ UNCHANGED nat
     /\ Spend("ovn") /\ disturbed' = disturbed \cup {"ovn"}

DeletePodFloatingIP(f) ==
  \/ policy' = DeleteReroutePolicy(f) /\ nat' = DeleteNATRule(f) /\ UNCHANGED histVars
  \/ /\ policy' \in {policy, DeleteReroutePolicy(f)} /\ UNCHANGED nat
     /\ Spend("ovn") /\ disturbed' = disturbed \cup {"ovn"}

AddFloatingIP(f) ==
  IF pods[f.pod] = "ip" THEN AddPodFloatingIP(f) ELSE UNCHANGED <<policy, nat, histVars>>

DeleteFloatingIP(f) == DeletePodFloatingIP(f)

\* Mutant: the claim is not queued again.
ClaimReleasesQuietly(f) ==
  LET c == f.claim
  IN IF suballocators[c] = NoAlloc THEN UNCHANGED <<suballocators, fiOnNodes, queue>>
     ELSE /\ suballocators' = [suballocators EXCEPT ![c] = Release(@, f.ip)]
          /\ fiOnNodes' = ReleaseNode(fiOnNodes, f.node)
          /\ UNCHANGED queue

ClaimReleases(f) ==
  LET c == f.claim
      a == Release(suballocators[c], f.ip)
  IN IF suballocators[c] = NoAlloc THEN UNCHANGED <<suballocators, fiOnNodes, queue>>
     ELSE /\ suballocators' = [suballocators EXCEPT ![c] = a]
          /\ fiOnNodes' = ReleaseNode(fiOnNodes, f.node)
          /\ queue' = IF Free(a) # {} THEN queue \cup {c} ELSE queue

HandleFip ==
  /\ fipEv # <<>> /\ Unlocked
  /\ fipEv' = Tail(fipEv)
  /\ LET e == Head(fipEv)
     IN \/ /\ e[1] = "add" /\ AddFloatingIP(e[2])
           /\ UNCHANGED <<suballocators, fiOnNodes, queue>>
        \/ e[1] = "delete" /\ DeleteFloatingIP(e[2]) /\ ClaimReleases(e[2])
  /\ UNCHANGED <<apiVars, providerEv, claimEv, nodeEv, podEv, boot, deaf, allocators,
                 watching, sync>>

----------------------------------------------------------------------------
\* The node controller.

Unassigned == {c \in Claims : claims[c] # NoClaim /\ ~ claims[c].assigned}

AddNode(n)    == IF fiOnNodes[n] = Absent THEN [fiOnNodes EXCEPT ![n] = 0] ELSE fiOnNodes
DeleteNode(n) == [fiOnNodes EXCEPT ![n] = Absent]

\* A call that fails has the node queued for the node controller's own sync
\* ("sync", here in line with the node's events).
AddFloatingIPNode(n) ==
  /\ fiOnNodes' = AddNode(n)
  /\ \/ queue' = queue \cup Unassigned /\ nodeEv' = [nodeEv EXCEPT ![n] = Tail(@)] /\ UNCHANGED budget
     \/ Spend("fault") /\ nodeEv' = [nodeEv EXCEPT ![n] = Append(Tail(@), "sync")] /\ UNCHANGED queue
  /\ UNCHANGED <<fips, fipEv>>

DeleteFloatingIPNode(n) ==
  LET mine == {f \in fips : f.node = n}
  IN /\ fiOnNodes' = DeleteNode(n)
     /\ \E done \in SUBSET mine :
          /\ DropFips(done)
          /\ queue' = queue \cup {f.claim : f \in done}
          /\ IF done = mine THEN nodeEv' = [nodeEv EXCEPT ![n] = Tail(@)] /\ UNCHANGED budget
             ELSE Spend("fault") /\ nodeEv' = [nodeEv EXCEPT ![n] = Append(Tail(@), "sync")]

\* The sync does for a labelled node what is left of addFloatingIPNode.  It does
\* not make up for FloatingIPs left on a node that is gone: it compares with the
\* name of the empty object that Get returned.
SyncNode(n) ==
  /\ nodeEv' = [nodeEv EXCEPT ![n] = Tail(@)]
  /\ queue' \in {queue \cup Unassigned} \cup {q \in {queue} : n \notin ready}
  /\ UNCHANGED <<fiOnNodes, fips, fipEv, budget>>

HandleNode(n) ==
  /\ nodeEv[n] # <<>>
  /\ \/ Head(nodeEv[n]) = "add" /\ AddFloatingIPNode(n)
     \/ Head(nodeEv[n]) = "delete" /\ DeleteFloatingIPNode(n)
     \/ Head(nodeEv[n]) = "sync" /\ SyncNode(n)
  /\ disturbed' = disturbed
       \cup {s \in {"nonode"} : \A m \in Nodes : fiOnNodes'[m] = Absent}
       \cup {s \in {"early"} : Head(nodeEv[n]) = "delete" /\ \E f \in fips :
                               f.node = n /\ f.ip \notin suballocators[f.claim].used}
  /\ UNCHANGED <<providers, claims, pods, ready, providerEv, claimEv, podEv,
                 boot, deaf, allocators, suballocators, watching, sync, dbVars>>

----------------------------------------------------------------------------
\* The worker of the claim controller: sync(key).

\* The claim is read; one that is gone leaves its FloatingIPs alone.
SyncGet(c) ==
  /\ sync.pc = "idle" /\ c \in queue
  /\ queue' = queue \ {c}
  /\ sync' = IF claims[c] = NoClaim THEN Idle
             ELSE [pc |-> "list", claim |-> c, read |-> claims[c], phase |-> "Ready",
                   err |-> FALSE, on |-> {}, seen |-> {}, todo |-> {}, assigned |-> FALSE,
                   pod |-> {}, ip |-> {}, node |-> {}, held |-> {}]
  /\ UNCHANGED <<apiVars, evVars, boot, deaf, allocators, suballocators, fiOnNodes,
                 watching, dbVars, histVars>>

\* DeleteFloatingIP one by one until one fails.
DeleteSome(S, s) ==
  \E done \in SUBSET S :
    /\ DropFips(done \cap fips)
    /\ IF done = S THEN sync' = s /\ UNCHANGED budget
       ELSE Spend("fault") /\ sync' = [s EXCEPT !.pc = "status", !.err = TRUE]

Mine == {f \in fips : f.claim = sync.claim}

\* The read lock is taken and the FloatingIPs are listed; without an allocator
\* for the claim its FloatingIPs go and its phase is NotReady.
SyncList ==
  /\ sync.pc = "list"
  /\ IF suballocators[sync.claim] = NoAlloc
     THEN DeleteSome(Mine, [sync EXCEPT !.pc = "status", !.phase = "NotReady"])
     ELSE /\ sync' = [sync EXCEPT !.pc = "clean", !.on = Mine]
          /\ UNCHANGED <<fips, fipEv, budget>>
  /\ UNCHANGED <<providers, claims, pods, ready, providerEv, claimEv, nodeEv,
                 podEv, boot, deaf, allocators, suballocators, fiOnNodes, watching,
                 queue, dbVars, disturbed>>

\* FloatingIPs kept when the allocator is new: those whose address it has.
\* Allocate refuses the address of a second one.  The loop goes over them in any
\* order and ends at a deletion that fails: then it has met only some.
Refill(a, S) ==
  LET ok(K) == \A f \in K : f.ip \in a.has /\ \A g \in K : f.ip = g.ip => f = g
  IN {K \in SUBSET S : ok(K) /\ \A f \in S \ K : ~ ok(K \cup {f})}
\* Otherwise: those whose pod and node are still there.
Current(S) == {f \in S : pods[f.pod] # "none" /\ fiOnNodes[f.node] # Absent}

SyncClean ==
  LET c    == sync.claim
      a    == suballocators[c]
      live == {p \in Pods : pods[p] # "none"}
      kept(keep) == [sync EXCEPT !.pc = "alloc", !.assigned = keep # {},
                                 !.seen = {p \in live : pods[p] = "ip"},
                                 !.todo = live \ {f.pod : f \in keep}]
  IN /\ sync.pc = "clean"
     /\ \/ /\ a.used # {}
           /\ DeleteSome(sync.on \ Current(sync.on), kept(Current(sync.on)))
           /\ UNCHANGED suballocators
        \/ /\ a.used = {}
           /\ \E met \in SUBSET sync.on : \E keep \in Refill(a, met) :
                /\ suballocators' = [suballocators EXCEPT ![c] = With(a, {f.ip : f \in keep})]
                /\ \/ /\ met = sync.on /\ sync' = kept(keep)
                      /\ DropFips((met \ keep) \cap fips)
                      /\ UNCHANGED budget
                   \/ \E f \in met \ keep :
                        /\ Spend("fault") /\ sync' = [kept(keep) EXCEPT !.pc = "status", !.err = TRUE]
                        /\ DropFips((met \ (keep \cup {f})) \cap fips)
     /\ UNCHANGED <<providers, claims, pods, ready, providerEv, claimEv, nodeEv,
                    podEv, boot, deaf, allocators, fiOnNodes, watching, queue, dbVars, disturbed>>

\* Allocate() of a node over the map's arbitrary order: a minimum of zero is
\* taken for an unset one, so that the node after an unused one always wins:
\* any node while one is unused, else one of the least used.
NodeChoices ==
  LET used == {n \in Nodes : fiOnNodes[n] # Absent}
  IN IF used = {} THEN {{}}
     ELSE {{n} : n \in {m \in used : \/ \E o \in used : fiOnNodes[o] = 0
                                     \/ \A o \in used : fiOnNodes[m] <= fiOnNodes[o]}}

NextAddress(a) == {Lowest(Free(a))}

\* One pod: an address, then a node.  Both are given back at the end if no
\* FloatingIP comes of it; without either the loop ends.
SyncAllocate ==
  LET c == sync.claim
      a == suballocators[c]
  IN /\ sync.pc = "alloc"
     /\ IF sync.todo = {} \/ Free(a) = {}
        THEN /\ sync' = [sync EXCEPT !.pc = "release"]
             /\ UNCHANGED <<suballocators, fiOnNodes>>
        ELSE \E p \in sync.todo, node \in NodeChoices :
             LET ip == NextAddress(a)
             IN /\ suballocators' = [suballocators EXCEPT ![c] = With(a, ip)]
                /\ fiOnNodes' = [n \in Nodes |-> fiOnNodes[n] + (IF n \in node THEN 1 ELSE 0)]
                /\ sync' = IF node # {} /\ p \in sync.seen
                           THEN [sync EXCEPT !.pc = "create", !.pod = {p}, !.ip = ip, !.node = node]
                           ELSE [sync EXCEPT !.pc = IF node = {} THEN "release" ELSE "alloc",
                                             !.todo = @ \ {p}, !.held = @ \cup {<<ip, node>>}]
     /\ UNCHANGED <<apiVars, evVars, boot, deaf, allocators, watching, queue, dbVars, histVars>>

Ids == 1 .. MaxFips
FreshIds == Ids \ ({f.id : f \in fips} \cup nat \cup policy \cup {fipEv[i][2].id : i \in DOMAIN fipEv})

SyncCreate ==
  LET c == sync.claim
      done == [sync EXCEPT !.pc = "alloc", !.todo = @ \ sync.pod, !.pod = {}, !.ip = {}, !.node = {}]
  IN /\ sync.pc = "create"
     /\ \/ \E p \in sync.pod, ip \in sync.ip, n \in sync.node :
           LET f == [id |-> Lowest(FreshIds), claim |-> c, pod |-> p, ip |-> ip, node |-> n]
           IN /\ FreshIds # {}
              /\ fips' = fips \cup {f}
              /\ fipEv' = Events(deaf, fipEv, << <<"add", f>> >>)
              /\ sync' = [done EXCEPT !.assigned = TRUE]
              /\ UNCHANGED <<queue, budget>>
        \/ /\ Spend("fault")
           /\ sync' = [done EXCEPT !.held = @ \cup {<<sync.ip, sync.node>>}]
           /\ queue' = queue \cup {c}
           /\ UNCHANGED <<fips, fipEv>>
     /\ UNCHANGED <<providers, claims, pods, ready, providerEv, claimEv, nodeEv,
                    podEv, boot, deaf, allocators, suballocators, fiOnNodes, watching,
                    dbVars, disturbed>>

\* The deferred releases, then the lock.
SyncRelease ==
  /\ sync.pc = "release"
  /\ suballocators' = [suballocators EXCEPT ![sync.claim] =
                         Without(@, UNION {h[1] : h \in sync.held})]
  /\ fiOnNodes' = [n \in Nodes |->
       LET held == Cardinality({h \in sync.held : n \in h[2]})
       IN IF fiOnNodes[n] = Absent THEN Absent
          ELSE IF held > fiOnNodes[n] THEN 0 ELSE fiOnNodes[n] - held]
  /\ sync' = [sync EXCEPT !.pc = "status"]
  /\ UNCHANGED <<apiVars, evVars, boot, deaf, allocators, watching, queue, dbVars, histVars>>

\* The deferred status update: a conflict or an error queues the claim again,
\* as handleErr does when sync returned one.
SyncStatus ==
  LET c == sync.claim
  IN /\ sync.pc = "status" /\ sync' = Idle
     /\ \/ /\ claims[c] = sync.read
           /\ claims' = [claims EXCEPT ![c].phase = sync.phase, ![c].assigned = sync.assigned]
           /\ queue' = IF sync.err THEN queue \cup {c} ELSE queue
           /\ UNCHANGED budget
        \/ /\ IF claims[c] = sync.read THEN Spend("fault") ELSE UNCHANGED budget
           /\ queue' = queue \cup {c}
           /\ UNCHANGED claims
     /\ UNCHANGED <<providers, fips, pods, ready, evVars, boot, deaf, allocators,
                    suballocators, fiOnNodes, watching, dbVars, disturbed>>

Worker == (\E c \in Claims : SyncGet(c)) \/ SyncList \/ SyncClean \/ SyncAllocate
          \/ SyncCreate \/ SyncRelease \/ SyncStatus

----------------------------------------------------------------------------
\* The master restarts: what it kept in memory is gone.  Run handles the
\* existing providers and nodes before it watches claims, then FloatingIPs.

Restart ==
  /\ Spend("restart")
  /\ boot' = TRUE /\ deaf' = TRUE
  /\ allocators' = [p \in Providers |-> NoAlloc]
  /\ suballocators' = [c \in Claims |-> NoAlloc]
  /\ fiOnNodes' = [n \in Nodes |-> Absent]
  /\ watching' = {} /\ queue' = {} /\ sync' = Idle
  /\ providerEv' \in SetToSeqs({<<"add", p>> : p \in providers})
  /\ nodeEv' = [n \in Nodes |-> IF n \in ready THEN <<"add">> ELSE <<>>]
  /\ claimEv' = <<>> /\ fipEv' = <<>> /\ podEv' = {}
  /\ disturbed' = disturbed \cup {"restart"}
       \cup {s \in {"status"} : \E f \in fips : ~ claims[f.claim].assigned}
  /\ UNCHANGED <<apiVars, dbVars>>

\* The claims come in any order: of two claims that ask for the same address
\* another one than before may get it.
ClaimsOverlap ==
  \E c, d \in Claims : c # d /\ ProviderOf[c] = ProviderOf[d]
                       /\ claims[c].ips \cap claims[d].ips # {}

WatchClaims ==
  /\ boot /\ providerEv = <<>> /\ \A n \in Nodes : ToSet(nodeEv[n]) \subseteq {"sync"}
  /\ boot' = FALSE
  /\ claimEv' \in SetToSeqs({<<"first", c, NoClaim, claims[c]>> : c \in {d \in Claims : claims[d] # NoClaim}})
  /\ disturbed' = disturbed \cup {s \in {"overlap"} : "restart" \in disturbed /\ ClaimsOverlap}
  /\ UNCHANGED <<apiVars, providerEv, fipEv, nodeEv, podEv, deaf, allocators,
                 suballocators, fiOnNodes, watching, queue, sync, dbVars, budget>>

\* The watches of FloatingIPs wait until the claims that exist are handled: of
\* what is deleted before nobody gives the address and the node back.
Unheard ==
  LET working == IF sync = Idle THEN {} ELSE sync.ip \cup UNION {h[1] : h \in sync.held}
  IN \E c \in Claims : ~ suballocators[c].used \subseteq working \cup {f.ip : f \in fips}

WatchFips ==
  /\ deaf /\ ~ boot /\ \A k \in DOMAIN claimEv : claimEv[k][1] # "first"
  /\ deaf' = FALSE
  /\ fipEv' = SetToSeq({<<"add", f>> : f \in fips})
  /\ disturbed' = disturbed \cup {s \in {"unheard"} : Unheard}
  /\ UNCHANGED <<apiVars, providerEv, claimEv, nodeEv, podEv, boot, allocators,
                 suballocators, fiOnNodes, watching, queue, sync, dbVars, budget>>

----------------------------------------------------------------------------
\* The master starts: providers, nodes and some claims and pods exist.
Init ==
  /\ \E w \in Worlds :
       /\ providers = w.providers /\ claims = w.claims /\ pods = w.pods /\ ready = w.ready
       /\ budget = w.budget
  /\ fips = {}
  /\ providerEv \in SetToSeqs({<<"add", p>> : p \in providers})
  /\ claimEv = <<>> /\ fipEv = <<>> /\ podEv = {}
  /\ nodeEv = [n \in Nodes |-> IF n \in ready THEN <<"add">> ELSE <<>>]
  /\ boot = TRUE /\ deaf = TRUE
  /\ allocators = [p \in Providers |-> NoAlloc]
  /\ suballocators = [c \in Claims |-> NoAlloc]
  /\ fiOnNodes = [n \in Nodes |-> Absent]
  /\ watching = {} /\ queue = {} /\ sync = Idle
  /\ policy = {} /\ nat = {}
  /\ disturbed = {}

Handlers ==
  \/ HandleProvider \/ HandleClaim \/ HandleFip
  \/ \E p \in Pods : HandlePod(p)
  \/ \E n \in Nodes : HandleNode(n)
  \/ WatchClaims \/ WatchFips

Next == Environment \/ Handlers \/ Worker \/ Restart

\* The informer threads and the worker run; nobody else has to.
Fairness ==
  /\ WF_vars(HandleProvider) /\ WF_vars(HandleClaim) /\ WF_vars(HandleFip)
  /\ \A p \in Pods : WF_vars(HandlePod(p))
  /\ \A n \in Nodes : WF_vars(HandleNode(n))
  /\ WF_vars(WatchClaims) /\ WF_vars(WatchFips) /\ WF_vars(Worker)

Spec == Init /\ [][Next]_vars /\ Fairness

----------------------------------------------------------------------------
\* No two FloatingIP objects carry the same address: the allocators of the
\* claims and the informers that give addresses back agree, across failing
\* calls, changing nodes and restarts, as long as claims are left alone, no
\* provider has an address of another one, and a restart finds no two claims
\* that ask for the same address.
UniqueFloatingIPs ==
  disturbed \cap {"claim", "status", "overlap", "early", "mixed"} # {}
  \/ \A f, g \in fips : f.ip = g.ip => f = g

\* Two claims never hand out the same address, whatever is done to claims and
\* providers, unless a claim outlived the deletion of its provider, or they are
\* claims of two providers that have an address in common.  A claim whose
\* deletion is not handled yet still has the allocator it had.
Deleting(c) == \E k \in DOMAIN claimEv : claimEv[k][1] = "delete" /\ claimEv[k][2] = c
ClaimRangesDisjoint ==
  "orphan" \in disturbed \/
  \A c, d \in {e \in Claims : ~ Deleting(e)} :
    \/ c = d \/ suballocators[c].has \cap suballocators[d].has = {}
    \/ ProviderOf[c] # ProviderOf[d] /\ RangeOf[ProviderOf[c]] \cap RangeOf[ProviderOf[d]] # {}

\* Once its events are handled the database holds no reroute policy and no
\* NAT rule of a FloatingIP that is gone (no command failed, no restart).
NoStaleNat ==
  (fipEv = <<>> /\ disturbed \cap {"restart", "ovn"} = {}) =>
    policy \cup nat \subseteq {f.id : f \in fips}

\* A pod with an address, selected by a claim that has an allocator, gets a
\* FloatingIP if from some point on an address is free for it, provided that
\* the cluster never runs out of floating IP nodes and no FloatingIP was deleted
\* before FloatingIPs were watched.
AllFloating ==
  \A p \in Pods, c \in Claims :
    (/\ pods[p] = "ip" /\ claims[c] # NoClaim
     /\ disturbed \cap {"nonode", "unheard"} = {} /\ \E n \in Nodes : fiOnNodes[n] # Absent
     /\ suballocators[c] # NoAlloc /\ Free(suballocators[c]) # {})
    => \E f \in fips : f.pod = p /\ f.claim = c
EventuallyFloating == []<>AllFloating
=============================================================================
