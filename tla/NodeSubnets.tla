----------------------------- MODULE NodeSubnets -----------------------------
(***************************************************************************)
(* The subnets of the cluster's nodes: pkg/ovn/subnetallocator, the node   *)
(* handler of pkg/ovn/ovn.go and, in pkg/ovn/master.go, StartClusterMaster,*)
(* syncNodes, addNode and deleteNode.                                      *)
(*                                                                         *)
(* A node's subnets are recorded in four places: the annotation of the     *)
(* node, the allocator of the master (rebuilt from the annotations when it *)
(* starts), the node's logical switch in OVN and the cache of the logical  *)
(* switch manager.  The node handler writes them.  The events of one name  *)
(* are handled one after the other, those of different names by different  *)
(* threads (the informer has a queue per hash of the name; names that share*)
(* a queue only see fewer interleavings), which meet in the allocator, one *)
(* call at a time.  The nodes come and go meanwhile, any call may fail, and*)
(* the master may restart between any two writes, with other IP families.  *)
(*                                                                         *)
(* Join addresses, gateways, management ports, load balancers and chassis  *)
(* only enter as calls of ensureNodeLogicalNetwork that may fail; nodes    *)
(* with the no-host-subnet label have no subnets and are left out.  The    *)
(* informer is up to date when the node handler is registered.             *)
(***************************************************************************)
EXTENDS Integers, Sequences, FiniteSets

CONSTANTS Nodes,        \* node names
          Ranges,       \* the cluster subnets: a sequence of [fam, size]
          Configs,      \* the sets of IP families a start may be configured with
          Envs          \* the environments: how often a node of each name may be
                        \* created (creates); how many calls fail (faults) and how
                        \* often the master restarts (restarts); whether a failing
                        \* patch may have reached the API server (lost); whether a
                        \* node is deleted (deletes), or its name used again
                        \* (reuse), at "any" time or once its events are "handled"

ASSUME NodesAssumption == IsFiniteSet(Nodes)
ASSUME RangesAssumption == Ranges \in Seq([fam : {"v4", "v6"}, size : Nat \ {0}])
ASSUME ConfigsAssumption == Configs \subseteq (SUBSET {"v4", "v6"}) \ {{}} /\ Configs # {}
ASSUME EnvsAssumption ==
  Envs \subseteq [creates : [Nodes -> Nat], faults : Nat, restarts : Nat,
                 lost : BOOLEAN, deletes : {"any", "handled"}, reuse : {"any", "handled"}]

\* Subnet <<r, i>> is the one that number i of range r stands for.  The number is
\* rotated (IPv4) and skips all-zero low words (IPv6) on its way to an address;
\* both only rename the subnets of the range.
Subnets == UNION {{r} \X (0 .. Ranges[r].size - 1) : r \in DOMAIN Ranges}
Fam(s)  == Ranges[s[1]].fam

VARIABLES
  exists,     \* API server: the names of the nodes
  ann,        \* API server: the node-subnets annotation of each node
  created,    \* API server: how many nodes were created with each name
  events,     \* the queued events of each name that the handler has yet to see
  phase,      \* the master: "down", "marked" (StartClusterMaster is done) or "up"
  families,   \* config.IPv4Mode and config.IPv6Mode
  allocated,  \* masterSubnetAllocator: the entries of the allocMaps that are true
  next,       \* masterSubnetAllocator: the cursor of each range
  lsm,        \* lsManager.cache: the subnets of each node
  failed,     \* addNodeFailed
  job,        \* addNode for each name: where it is, its hostSubnets and
              \* allocatedSubnets, and the subnets that the event showed
  switch,     \* OVN: the subnets in the other-config of each logical switch
  env,        \* the environment of this behaviour
  faults,     \* failing calls so far
  restarts    \* restarts of the master so far

api    == <<exists, ann, created>>
mem    == <<families, allocated, next, lsm, failed>>
limits == <<env, restarts>>
vars   == <<api, events, phase, mem, job, switch, limits, faults>>

-----------------------------------------------------------------------------
\* What the allocator and the handler hold when the process starts.
NoJob    == [pc |-> "idle", host |-> {}, new |-> {}, had |-> {}]
NoJobs   == [n \in Nodes |-> NoJob]
NoEvents == [n \in Nodes |-> <<>>]
NewNext  == [r \in DOMAIN Ranges |-> 0]
NoSubnet == [n \in Nodes |-> {}]

Active   == {s \in Subnets : Fam(s) \in families}
Expected == IF families = {"v4", "v6"} THEN 2 ELSE 1

Event(kind, a) == [kind |-> kind, ann |-> a]
Queue(n, e) == events' = [events EXCEPT ![n] = Append(@, e)]
Emit(n, e)  == IF phase = "up" THEN Queue(n, e) ELSE UNCHANGED events
Pending(n)  == job[n] # NoJob \/ events[n] # <<>>
Fault       == faults < env.faults /\ faults' = faults + 1

Init == /\ exists = {} /\ ann = NoSubnet /\ created = [n \in Nodes |-> 0]
        /\ events = NoEvents /\ phase = "down"
        /\ families \in Configs
        /\ allocated = {} /\ next = NewNext
        /\ lsm = NoSubnet /\ failed = {} /\ job = NoJobs
        /\ switch = NoSubnet
        /\ env \in Envs /\ faults = 0 /\ restarts = 0

-----------------------------------------------------------------------------
(* The API server and the kubelets. *)

CreateNode(n) ==
  /\ n \notin exists /\ created[n] < env.creates[n]
  /\ env.reuse = "handled" /\ created[n] > 0 => phase # "marked" /\ ~Pending(n)
  /\ exists' = exists \cup {n}
  /\ created' = [created EXCEPT ![n] = @ + 1]
  /\ Emit(n, Event("add", {}))
  /\ UNCHANGED <<ann, phase, mem, job, switch, limits, faults>>

DeleteNode(n) ==
  /\ n \in exists
  /\ env.deletes = "handled" => ~Pending(n)
  /\ exists' = exists \ {n}
  /\ ann' = [ann EXCEPT ![n] = {}]
  /\ Emit(n, Event("delete", ann[n]))
  /\ UNCHANGED <<created, phase, mem, job, switch, limits, faults>>

\* The kubelet renews the node's status.  There is no periodic resync: these
\* updates are what makes the handler try a failed node again.
TouchNode(n) ==
  /\ n \in exists /\ phase = "up" /\ events[n] = <<>>
  /\ Queue(n, Event("update", ann[n]))
  /\ UNCHANGED <<api, phase, mem, job, switch, limits, faults>>

-----------------------------------------------------------------------------
(* subnetallocator/allocator.go *)

FreeIn(r, al) == {i \in 0 .. Ranges[r].size - 1 : <<r, i>> \notin al}

\* How many numbers allocateNetwork looks at before number i of range r.
Ahead(r, nx, i) == (i - nx[r]) % Ranges[r].size

\* The subnet allocateNetwork returns, for a range that is not full.
allocateNetwork(r, al, nx) ==
  CHOOSE i \in FreeIn(r, al) : \A j \in FreeIn(r, al) : Ahead(r, nx, i) <= Ahead(r, nx, j)

\* AllocateIPv4Network and AllocateIPv6Network: nothing for a family without
\* ranges, else the first range with a free subnet; the full ones before it start
\* over.
AllocateNetwork(f, al, nx) ==
  LET rs   == {r \in DOMAIN Ranges : Ranges[r].fam = f}
      open == {r \in rs : FreeIn(r, al) # {}}
      r    == CHOOSE q \in open : \A p \in open : q <= p
      i    == allocateNetwork(r, al, nx)
  IN  CASE open # {} ->
             [sub |-> {<<r, i>>}, err |-> FALSE,
              next |-> [q \in DOMAIN Ranges |-> IF q = r THEN i + 1
                                                ELSE IF q \in rs /\ q < r THEN 0 ELSE nx[q]]]
        [] open = {} ->
             [sub |-> {}, err |-> rs # {},
              next |-> [q \in DOMAIN Ranges |-> IF q \in rs THEN 0 ELSE nx[q]]]

NothingToAllocate(nx) == [sub |-> {}, err |-> FALSE, next |-> nx]

-----------------------------------------------------------------------------
(* allocateNodeSubnets, the start of addNode, for node n as an event shows it, *)
(* with annotation a. *)

\* The annotated subnets that are used again: one per configured family.
Keep(a) == {CHOOSE s \in a : Fam(s) = f : f \in families \cap {Fam(s) : s \in a}}

\* The annotated subnets that are released.
Unwanted(a) == a \ Keep(a)

Lacks(f, keep) == f \in families /\ \A s \in keep : Fam(s) # f

GiveUp(n) == failed' = failed \cup {n} /\ job' = [job EXCEPT ![n] = NoJob]

\* The end of allocateNodeSubnets: the number of new subnets is checked.
Allocated(n, keep, new, had) ==
  LET wanted == Expected - Cardinality(had) IN
  IF wanted > 0 /\ Cardinality(new) # wanted
  THEN GiveUp(n)
  ELSE /\ job' = [job EXCEPT ![n] = [pc |-> "switch", host |-> keep \cup new,
                                     new |-> new, had |-> {}]]
       /\ UNCHANGED failed

\* A node with the expected number of subnets keeps them.  Else the others are
\* released (they have no range, so that this needs no step of its own) and it gets
\* an IPv4 subnet if it lacks one.
AllocateV4(n, a) ==
  LET keep == Keep(a)
      al   == allocated \ Unwanted(a)
  IN  \/ /\ Cardinality(a) = Expected
         /\ Allocated(n, a, {}, a)
         /\ UNCHANGED <<allocated, next>>
      \/ /\ Cardinality(a) # Expected
         /\ \E v4 \in {IF Lacks("v4", keep) THEN AllocateNetwork("v4", al, next)
                                            ELSE NothingToAllocate(next)} :
            /\ allocated' = al \cup v4.sub
            /\ next' = v4.next
            /\ CASE v4.err -> GiveUp(n)
                 [] ~v4.err /\ ~Lacks("v6", keep) -> Allocated(n, keep, v4.sub, a)
                 [] ~v4.err /\ Lacks("v6", keep) ->
                      /\ job' = [job EXCEPT ![n] = [pc |-> "v6", host |-> keep \cup v4.sub,
                                                    new |-> v4.sub, had |-> a]]
                      /\ UNCHANGED failed

-----------------------------------------------------------------------------
(* The node handler: the first event of a name, then the steps of addNode. *)

Handles(n, kind) ==
  phase = "up" /\ job[n] = NoJob /\ events[n] # <<>> /\ Head(events[n]).kind = kind

Taken(n) == events' = [events EXCEPT ![n] = Tail(@)]

AddFunc(n) ==
  /\ Handles(n, "add") /\ Taken(n)
  /\ AllocateV4(n, Head(events[n]).ann)
  /\ UNCHANGED <<api, phase, families, lsm, switch, limits, faults>>

UpdateFunc(n) ==
  /\ Handles(n, "update") /\ Taken(n)
  /\ IF n \in failed THEN AllocateV4(n, Head(events[n]).ann)
                      ELSE UNCHANGED <<allocated, next, job, failed>>
  /\ UNCHANGED <<api, phase, families, lsm, switch, limits, faults>>

\* DeleteFunc with deleteNode; the removal of the switch may fail.
DeleteFunc(n) ==
  /\ Handles(n, "delete") /\ Taken(n)
  /\ allocated' = allocated \ Head(events[n]).ann
  /\ \/ switch' = [switch EXCEPT ![n] = {}] /\ UNCHANGED faults
     \/ Fault /\ UNCHANGED switch
  /\ lsm' = [lsm EXCEPT ![n] = {}]
  /\ failed' = failed \ {n}
  /\ UNCHANGED <<api, phase, families, next, job, limits>>

\* allocateNodeSubnets goes on with the IPv6 subnet.  On an error the deferred release
\* of the IPv4 subnet does nothing: it tests the err of its own block, which is nil.
AllocateV6(n) ==
  /\ job[n].pc = "v6"
  /\ \E v6 \in {AllocateNetwork("v6", allocated, next)} :
     /\ allocated' = allocated \cup v6.sub
     /\ next' = v6.next
     /\ IF v6.err THEN GiveUp(n)
                  ELSE Allocated(n, job[n].host, job[n].new \cup v6.sub, job[n].had)
  /\ UNCHANGED <<api, events, phase, families, lsm, switch, limits, faults>>

\* Mutants: without the deferred release; without the note.
AddNodeFailsKeeping(n)   == UNCHANGED allocated /\ GiveUp(n)
AddNodeFailsForgotten(n) == /\ allocated' = allocated \ job[n].new
                            /\ UNCHANGED failed /\ job' = [job EXCEPT ![n] = NoJob]

\* The deferred release of addNode, and the caller's note of the failure.
AddNodeFails(n) == allocated' = allocated \ job[n].new /\ GiveUp(n)

\* ensureNodeLogicalNetwork up to the logical switch.
EnsureSwitch(n) ==
  /\ job[n].pc = "switch"
  /\ \/ /\ switch' = [switch EXCEPT ![n] =
                        {s \in @ : \A t \in job[n].host : Fam(t) # Fam(s)} \cup job[n].host]
        /\ job' = [job EXCEPT ![n].pc = "cache"]
        /\ UNCHANGED <<allocated, failed, faults>>
     \/ Fault /\ AddNodeFails(n) /\ UNCHANGED switch
  /\ UNCHANGED <<api, events, phase, families, next, lsm, limits>>

\* Mutant: an entry that is in the cache is left there.
AddToCacheOnce(n, host) == lsm' = IF lsm[n] # {} THEN lsm ELSE [lsm EXCEPT ![n] = host]

\* lsManager.AddNode.
AddToCache(n, host) == lsm' = [lsm EXCEPT ![n] = host]

\* The rest of ensureNodeLogicalNetwork; lsManager.AddNode comes last.
EnsureCache(n) ==
  /\ job[n].pc = "cache"
  /\ \/ /\ AddToCache(n, job[n].host)
        /\ job' = [job EXCEPT ![n].pc = "annotate"]
        /\ UNCHANGED <<allocated, failed, faults>>
     \/ Fault /\ AddNodeFails(n) /\ UNCHANGED lsm
  /\ UNCHANGED <<api, events, phase, families, next, switch, limits>>

\* SetAnnotationsOnNode: a patch by name, which makes an update event if it
\* changes the node.
Patch(n, host) ==
  /\ n \in exists
  /\ ann' = [ann EXCEPT ![n] = host]
  /\ IF ann[n] = host THEN UNCHANGED events ELSE Queue(n, Event("update", host))

\* addNodeAnnotations retries for a second, and fails without a node.  A failing
\* patch leaves the annotation as it was, or wrote it if only its reply is lost.  On
\* success, addNodeFailed.Delete of the UpdateFunc.
Annotate(n) ==
  /\ job[n].pc = "annotate"
  /\ \/ /\ Patch(n, job[n].host)
        /\ failed' = failed \ {n}
        /\ job' = [job EXCEPT ![n] = NoJob]
        /\ UNCHANGED <<allocated, faults>>
     \/ n \notin exists /\ AddNodeFails(n) /\ UNCHANGED <<ann, events, faults>>
     \/ /\ Fault /\ AddNodeFails(n)
        /\ \E left \in {ann[n], IF env.lost THEN job[n].host ELSE ann[n]} : Patch(n, left)
  /\ UNCHANGED <<exists, created, phase, families, next, lsm, switch, limits>>

-----------------------------------------------------------------------------
(* The master stops at any point, and starts. *)

Crash ==
  /\ phase # "down"
  /\ restarts < env.restarts /\ restarts' = restarts + 1
  /\ phase' = "down"
  /\ events' = NoEvents /\ allocated' = {} /\ next' = NewNext
  /\ lsm' = NoSubnet /\ failed' = {} /\ job' = NoJobs
  /\ UNCHANGED <<api, families, switch, env, faults>>

\* Mutant: the annotations are not read.
NoMarkedSubnets(fams) == {}

\* The subnets MarkAllocatedNetwork accepts: those in a range of the allocator.
MarkedSubnets(fams) == {s \in UNION {ann[n] : n \in exists} : Fam(s) \in fams}

\* StartClusterMaster: the ranges of the configured families, and
\* MarkAllocatedNetwork for the annotations of the nodes that exist.
StartClusterMaster ==
  /\ phase = "down"
  /\ phase' = "marked"
  /\ families' \in Configs
  /\ allocated' = MarkedSubnets(families')
  /\ UNCHANGED <<api, events, next, lsm, failed, job, switch, limits, faults>>

\* syncNodes: deleteNode for the switches (with subnets) of nodes that do not exist,
\* with the subnets of the switch.
DeleteStale(gone, kept) ==
  /\ allocated' = allocated \ UNION {switch[n] : n \in gone}
  /\ switch' = [n \in Nodes |-> IF n \in gone \ kept THEN {} ELSE switch[n]]

\* WatchNodes: syncNodes, which gives up when it cannot list the switches and may
\* fail to delete some, then an add for every node.
WatchNodes ==
  /\ phase = "marked"
  /\ phase' = "up"
  /\ LET stale == {n \in Nodes \ exists : switch[n] # {}} IN
     \E gone \in {stale, {}}, kept \in SUBSET stale :
       /\ kept \subseteq gone
       /\ faults' = faults + Cardinality(kept) + (IF gone = stale THEN 0 ELSE 1)
       /\ faults' <= env.faults
       /\ DeleteStale(gone, kept)
  /\ events' = [n \in Nodes |-> IF n \in exists THEN <<Event("add", ann[n])>> ELSE <<>>]
  /\ UNCHANGED <<api, families, next, lsm, failed, job, limits>>

HandleNode(n) == \/ AddFunc(n) \/ UpdateFunc(n) \/ DeleteFunc(n)
                 \/ AllocateV6(n) \/ EnsureSwitch(n) \/ EnsureCache(n) \/ Annotate(n)

Next == \/ \E n \in Nodes : CreateNode(n) \/ DeleteNode(n) \/ TouchNode(n) \/ HandleNode(n)
        \/ Crash \/ StartClusterMaster \/ WatchNodes

Spec == Init /\ [][Next]_vars

\* The threads of the node handler and the start of the master make progress, and the
\* kubelet renews the status of its node.
FairSpec == /\ Spec
            /\ \A n \in Nodes : WF_vars(HandleNode(n)) /\ WF_vars(TouchNode(n))
            /\ WF_vars(StartClusterMaster \/ WatchNodes)

-----------------------------------------------------------------------------
EventSet == [kind : {"add", "update", "delete"}, ann : SUBSET Subnets]
JobSet   == [pc : {"idle", "v6", "switch", "cache", "annotate"},
             host : SUBSET Subnets, new : SUBSET Subnets, had : SUBSET Subnets]

\* Types.
TypeOK ==
  /\ exists \subseteq Nodes
  /\ ann \in [Nodes -> SUBSET Subnets]
  /\ \A n \in Nodes \ exists : ann[n] = {}
  /\ created \in [Nodes -> Nat]
  /\ events \in [Nodes -> Seq(EventSet)]
  /\ phase \in {"down", "marked", "up"} /\ families \in Configs
  /\ allocated \subseteq Active
  /\ next \in [DOMAIN Ranges -> Nat]
  /\ lsm \in [Nodes -> SUBSET Subnets] /\ failed \subseteq Nodes
  /\ job \in [Nodes -> JobSet]
  /\ switch \in [Nodes -> SUBSET Subnets]
  /\ env \in Envs /\ faults \in 0 .. env.faults /\ restarts \in 0 .. env.restarts

\* No two nodes of the cluster are given the same subnet: what AllocateIPv4Network
\* returns is free, and stays reserved over restarts (MarkAllocatedNetwork) and over
\* the clean-up of other nodes (syncNodes, the deferred release of addNode).
DisjointSubnets ==
  \A m, n \in exists : m # n => ann[m] \cap ann[n] = {}

\* The environments in which no two nodes can get the same subnet: the master does not
\* restart, no reply is lost, and a name is used again once its events are handled.
Undisturbed == env.restarts = 0 /\ ~env.lost /\ env.reuse = "handled"

\* Once StartClusterMaster has marked them, the annotated subnets of the configured
\* families stay reserved in the allocator as long as the node exists.
AnnotatedIsReserved ==
  phase # "down" => \A n \in exists : ann[n] \cap Active \subseteq allocated

Quiet == phase = "up" /\ \A n \in Nodes : ~Pending(n)

\* When the handler has caught up, every reserved subnet is the subnet of some node:
\* failing and interrupted calls of addNode and deleted nodes leak nothing.
NoSubnetLeak == Quiet => allocated \subseteq UNION {ann[n] : n \in exists}

\* The allocator's reservations follow the annotations: an annotated subnet is
\* reserved, and once everything is handled no other is.
ReservedAsAnnotated == AnnotatedIsReserved /\ NoSubnetLeak

\* When the handler has caught up, a node that it did not fail on has one subnet per
\* configured family, and its logical switch and the logical switch manager, which
\* gives out its pods' addresses, have the annotated subnets.
NetworkMatches ==
  Quiet => \A n \in exists \ failed :
             /\ {Fam(s) : s \in ann[n]} = families
             /\ lsm[n] = ann[n]
             /\ switch[n] \cap Active = ann[n]

\* A node keeps the annotated subnets of the configured families as long as it lives:
\* its pods have addresses in them.  allocateNodeSubnets only adds to them, in a retry
\* and after a restart as well.
AnnotationIsStable ==
  [][\A n \in exists \cap exists' : ann[n] \cap Active \subseteq ann'[n]]_vars

\* Some configured family has no subnet left.
Full == \E f \in families : {s \in Subnets : Fam(s) = f} \subseteq allocated

\* A node gets a subnet per configured family, unless it goes away or the subnets are
\* used up: after a failure by a later update (addNodeFailed), after a restart by the
\* add of WatchNodes.
AllAnnotated == Full \/ \A n \in exists : {Fam(s) : s \in ann[n]} = families
EventuallyAnnotated == []<>AllAnnotated

\* Both: every node that stays is annotated at last, and what it was given is
\* never taken away from it, by a retry or a restart either.
AnnotationsSettle == AnnotationIsStable /\ EventuallyAnnotated
=============================================================================
