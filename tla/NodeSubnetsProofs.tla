-------------------------- MODULE NodeSubnetsProofs --------------------------
(***************************************************************************)
(* The threads of the node handler never give two nodes the same subnet,   *)
(* for any number of nodes, any cluster subnets, any number of failing     *)
(* calls and nodes deleted at any time, as long as the master does not     *)
(* restart, no reply of the API server is lost and a name is used again    *)
(* only once the events of its last node are handled.  (TLC has            *)
(* counterexamples without each of the three.)                             *)
(***************************************************************************)
EXTENDS NodeSubnets, FiniteSetTheorems, SequenceTheorems, WellFoundedInduction, TLAPS

-----------------------------------------------------------------------------
(* Least elements, and what the allocator returns. *)

\* A set of numbers has a least element: the ranges are tried in order.
LEMMA LeastNumber ==
  ASSUME NEW T, T \subseteq Nat, T # {}
  PROVE  \E x \in T : \A y \in T : x <= y
<1> DEFINE R == {ss \in Nat \X Nat : ss[1] < ss[2]}
<1>1. IsWellFoundedOn(R, Nat)
  BY NatLessThanWellFounded, Zenon DEF OpToRel
<1> HIDE DEF R
<1>2. PICK x \in T : \A y \in T : ~ (<<y, x>> \in R)
  BY <1>1, WFMin, Zenon
<1>3. \A y \in T : ~(y < x)
  BY <1>2 DEF R
<1> QED BY <1>3

\* Some element has the least key: the scan of allocateNetwork ends at a free number.
LEMMA LeastKey ==
  ASSUME NEW T, T # {}, NEW K, K \in [T -> Nat]
  PROVE  \E x \in T : \A y \in T : K[x] <= K[y]
<1> DEFINE S == {K[i] : i \in T}
<1>1. S \subseteq Nat /\ S # {}
  OBVIOUS
<1>2. PICK m \in S : \A y \in S : m <= y
  <2> HIDE DEF S
  <2> QED BY <1>1, LeastNumber
<1> QED BY <1>2

LEMMA SeqElement ==
  ASSUME NEW S, NEW q \in Seq(S), NEW i \in DOMAIN q
  PROVE  q[i] \in S /\ i \in Nat
OBVIOUS

LEMMA RangeTypes ==
  ASSUME NEW r \in DOMAIN Ranges
  PROVE  r \in Nat /\ Ranges[r].size \in Nat \ {0}
<1>1. r \in Nat /\ Ranges[r] \in [fam : {"v4", "v6"}, size : Nat \ {0}]
  BY RangesAssumption, SeqElement, Zenon
<1> QED BY <1>1

\* allocateNetwork returns a number that is free in its range.
LEMMA ScanFindsFree ==
  ASSUME NEW r \in DOMAIN Ranges, NEW al, NEW nx, nx[r] \in Nat, FreeIn(r, al) # {}
  PROVE  allocateNetwork(r, al, nx) \in FreeIn(r, al)
<1> DEFINE K == [i \in FreeIn(r, al) |-> Ahead(r, nx, i)]
<1>1. \A i \in FreeIn(r, al) : Ahead(r, nx, i) \in Nat
  <2>1. \A i \in Int, z \in Nat \ {0} : i % z \in Nat
    OBVIOUS
  <2>2. \A i \in FreeIn(r, al) : i - nx[r] \in Int
    BY RangeTypes DEF FreeIn
  <2> QED BY <2>1, <2>2, RangeTypes DEF Ahead
<1>2. K \in [FreeIn(r, al) -> Nat]
  BY <1>1
<1>3. PICK x \in FreeIn(r, al) : \A y \in FreeIn(r, al) : K[x] <= K[y]
  <2> HIDE DEF K
  <2> QED BY <1>2, LeastKey
<1>4. \A y \in FreeIn(r, al) : Ahead(r, nx, x) <= Ahead(r, nx, y)
  BY <1>3
<1> QED BY <1>4, Zenon DEF allocateNetwork

\* AllocateIPv4Network and AllocateIPv6Network return at most one subnet, of the family
\* and free before.
LEMMA AllocatesFree ==
  ASSUME NEW f, NEW al, NEW nx \in [DOMAIN Ranges -> Nat]
  PROVE  LET a == AllocateNetwork(f, al, nx) IN
         /\ a.sub \subseteq Subnets
         /\ a.sub \cap al = {}
         /\ \A s \in a.sub : Fam(s) = f
         /\ a.next \in [DOMAIN Ranges -> Nat]
<1> DEFINE rs   == {r \in DOMAIN Ranges : Ranges[r].fam = f}
           open == {r \in rs : FreeIn(r, al) # {}}
           r    == CHOOSE q \in open : \A p \in open : q <= p
           i    == allocateNetwork(r, al, nx)
           a    == AllocateNetwork(f, al, nx)
<1>0. DOMAIN Ranges \subseteq Nat /\ \A q \in DOMAIN Ranges : Ranges[q].size \in Nat
  BY RangeTypes
<1>1. CASE open # {}
  <2>1. r \in open
    <3>1. open \subseteq Nat
      BY <1>0
    <3>2. \E q \in open : \A p \in open : q <= p
      <4> HIDE DEF open
      <4> QED BY <1>1, <3>1, LeastNumber
    <3> HIDE DEF open
    <3> QED BY <3>2, Zenon
  <2>2. r \in DOMAIN Ranges /\ Ranges[r].fam = f /\ FreeIn(r, al) # {}
    <3> HIDE DEF r
    <3> QED BY <2>1
  <2>3. i \in FreeIn(r, al)
    <3> HIDE DEF r
    <3> QED BY <2>2, ScanFindsFree
  <2>4. a = [sub |-> {<<r, i>>}, err |-> FALSE,
             next |-> [q \in DOMAIN Ranges |-> IF q = r THEN i + 1
                                               ELSE IF q \in rs /\ q < r THEN 0 ELSE nx[q]]]
    BY <1>1, Zenon DEF AllocateNetwork
  <2> HIDE DEF r, i, a, rs, open
  <2>5. i \in 0 .. Ranges[r].size - 1 /\ <<r, i>> \notin al
    BY <2>3 DEF FreeIn
  <2>6. <<r, i>> \in Subnets /\ Fam(<<r, i>>) = f
    BY <2>2, <2>5 DEF Subnets, Fam
  <2>7. a.sub = {<<r, i>>}
    BY <2>4
  <2>8. a.next \in [DOMAIN Ranges -> Nat]
    BY <2>4, <2>5, <1>0, <2>2
  <2> QED BY <2>5, <2>6, <2>7, <2>8 DEF a
<1>2. CASE open = {}
  <2>1. a = [sub |-> {}, err |-> rs # {},
             next |-> [q \in DOMAIN Ranges |-> IF q \in rs THEN 0 ELSE nx[q]]]
    BY <1>2, Zenon DEF AllocateNetwork
  <2> HIDE DEF a, rs, open
  <2>2. a.sub = {} /\ a.next \in [DOMAIN Ranges -> Nat]
    BY <2>1
  <2> QED BY <2>2 DEF a
<1> QED BY <1>1, <1>2

LEMMA AppendElements ==
  ASSUME NEW S, NEW q \in Seq(S), NEW x \in S
  PROVE  /\ Append(q, x) \in Seq(S) /\ Append(q, x) # <<>>
         /\ Len(Append(q, x)) = Len(q) + 1
         /\ \A i \in DOMAIN Append(q, x) :
              \/ i \in DOMAIN q /\ Append(q, x)[i] = q[i]
              \/ i = Len(q) + 1 /\ Append(q, x)[i] = x
OBVIOUS

LEMMA TailElements ==
  ASSUME NEW S, NEW q \in Seq(S), q # <<>>
  PROVE  /\ Tail(q) \in Seq(S) /\ Head(q) \in S
         /\ 1 \in DOMAIN q /\ Head(q) = q[1]
         /\ Len(q) \in Nat /\ Len(Tail(q)) = Len(q) - 1
         /\ \A i \in DOMAIN Tail(q) :
              i \in Nat /\ i > 0 /\ i + 1 \in DOMAIN q /\ Tail(q)[i] = q[i + 1]
OBVIOUS

-----------------------------------------------------------------------------
(* The inductive invariants. *)

\* A thread that waits for its IPv6 subnet runs in a master with IPv6 ranges, and the
\* families only change while no thread runs.
Running == /\ \A n \in Nodes : job[n].pc = "v6" => "v6" \in families
           /\ phase # "up" => job = NoJobs

TypeInv == TypeOK /\ Running

\* Who lays claim to a subnet: the node it is annotated on, the node of an event that
\* shows it, and the node that addNode runs for.
Shows(n, s) == \E i \in DOMAIN events[n] : s \in events[n][i].ann
Claim(n, s) == s \in ann[n] \/ Shows(n, s) \/ s \in job[n].host

\* Every claimed subnet is reserved, and by one node only.
ClaimsReserved == \A n \in Nodes, s \in Subnets : Claim(n, s) => s \in allocated
ClaimsDisjoint == \A m, n \in Nodes, s \in Subnets : Claim(m, s) /\ Claim(n, s) => m = n

\* What addNode has allocated, and will release if it fails, is claimed by nobody else,
\* nor in another way by its own node.
NewIsFresh ==
  \A n \in Nodes : /\ job[n].new \subseteq job[n].host
                   /\ \A s \in job[n].new, m \in Nodes : s \notin ann[m] /\ ~Shows(m, s)

\* No node is halfway between two configurations, so that nothing is released that is
\* still annotated.
Whole(x) == x = {} \/ Cardinality(x) = Expected
WholeJob(j) == \/ j = NoJob
               \/ j.pc = "v6" /\ j.host = j.new /\ j.had = {}
               \/ j.pc # "v6" /\ Cardinality(j.host) = Expected
WholeSubnets == \A n \in Nodes : /\ Whole(ann[n])
                                 /\ \A i \in DOMAIN events[n] : Whole(events[n][i].ann)
                                 /\ WholeJob(job[n])

\* A queued delete is the last event of its name.
DeleteIsLast ==
  \A n \in Nodes : \A i \in DOMAIN events[n] :
    events[n][i].kind = "delete" => n \notin exists /\ i = Len(events[n])

\* A name that occurs anywhere was created.
WasCreated == \A n \in Nodes : n \in exists \/ Pending(n) => created[n] > 0

\* Before the handler runs, there is nothing to claim.
NothingYet ==
  phase # "up" => /\ \A n \in Nodes : ann[n] = {}
                  /\ allocated = {} /\ job = NoJobs /\ events = NoEvents

Core == /\ ClaimsReserved /\ ClaimsDisjoint /\ NewIsFresh /\ WholeSubnets
        /\ DeleteIsLast /\ WasCreated /\ NothingYet

Inv == TypeInv /\ (Undisturbed => Core)

-----------------------------------------------------------------------------
(* How the queues change. *)

LEMMA Queued ==
  ASSUME events \in [Nodes -> Seq(EventSet)], NEW n \in Nodes, NEW e \in EventSet, Queue(n, e)
  PROVE  /\ events' \in [Nodes -> Seq(EventSet)]
         /\ \A m \in Nodes : m # n => events'[m] = events[m]
         /\ events'[n] # <<>> /\ Len(events'[n]) = Len(events[n]) + 1
         /\ \A i \in DOMAIN events'[n] :
              \/ i \in DOMAIN events[n] /\ events'[n][i] = events[n][i]
              \/ i = Len(events'[n]) /\ events'[n][i] = e
<1>1. events[n] \in Seq(EventSet) /\ events'[n] = Append(events[n], e)
  BY DEF Queue
<1>2. events' \in [Nodes -> Seq(EventSet)] /\ \A m \in Nodes : m # n => events'[m] = events[m]
  BY <1>1, AppendElements DEF Queue
<1> QED BY <1>1, <1>2, AppendElements

LEMMA QueueTaken ==
  ASSUME events \in [Nodes -> Seq(EventSet)], NEW n \in Nodes, events[n] # <<>>, Taken(n)
  PROVE  /\ events' \in [Nodes -> Seq(EventSet)]
         /\ \A m \in Nodes : m # n => events'[m] = events[m]
         /\ Head(events[n]) \in EventSet /\ 1 \in DOMAIN events[n]
         /\ Head(events[n]) = events[n][1]
         /\ Len(events[n]) \in Nat /\ Len(events'[n]) = Len(events[n]) - 1
         /\ \A i \in DOMAIN events'[n] : /\ i \in Nat /\ i > 0 /\ i + 1 \in DOMAIN events[n]
                                         /\ events'[n][i] = events[n][i + 1]
<1>1. events[n] \in Seq(EventSet) /\ events'[n] = Tail(events[n])
  BY DEF Taken
<1>2. events' \in [Nodes -> Seq(EventSet)] /\ \A m \in Nodes : m # n => events'[m] = events[m]
  BY <1>1, TailElements DEF Taken
<1> QED BY <1>1, <1>2, TailElements

LEMMA EventTypes ==
  ASSUME NEW a \in SUBSET Subnets, NEW k \in {"add", "update", "delete"}
  PROVE  Event(k, a) \in EventSet /\ Event(k, a).kind = k /\ Event(k, a).ann = a
BY DEF Event, EventSet

-----------------------------------------------------------------------------
(* allocateNodeSubnets. *)

LEMMA KeepsOwn == ASSUME NEW a PROVE Keep(a) \subseteq a
<1>1. \A f \in families \cap {Fam(s) : s \in a} : (CHOOSE s \in a : Fam(s) = f) \in a
  <2> TAKE f \in families \cap {Fam(s) : s \in a}
  <2>1. \E s \in a : Fam(s) = f
    OBVIOUS
  <2> QED BY <2>1, Zenon
<1> QED BY <1>1, Zenon DEF Keep

\* What an allocation of a configured family returns.
LEMMA AllocatesActive ==
  ASSUME NEW f \in families, NEW al, NEW nx \in [DOMAIN Ranges -> Nat]
  PROVE  LET a == AllocateNetwork(f, al, nx) IN
         /\ a.sub \in SUBSET Active /\ a.sub \cap al = {}
         /\ a.next \in [DOMAIN Ranges -> Nat]
BY AllocatesFree DEF Active

\* allocateNodeSubnets starts: what it allocates is free, whatever it starts from.
LEMMA StartsV4 ==
  ASSUME NEW n, NEW a, AllocateV4(n, a), next \in [DOMAIN Ranges -> Nat]
  PROVE  \/ Cardinality(a) = Expected /\ Allocated(n, a, {}, a) /\ UNCHANGED <<allocated, next>>
         \/ /\ Cardinality(a) # Expected
            /\ \E new \in SUBSET Active :
                 /\ new \cap (allocated \ Unwanted(a)) = {}
                 /\ allocated' = (allocated \ Unwanted(a)) \cup new
                 /\ next' \in [DOMAIN Ranges -> Nat]
                 /\ \/ GiveUp(n)
                    \/ Allocated(n, Keep(a), new, a)
                    \/ /\ "v6" \in families
                       /\ job' = [job EXCEPT ![n] = [pc |-> "v6", host |-> Keep(a) \cup new,
                                                     new |-> new, had |-> a]]
                       /\ UNCHANGED failed
<1> DEFINE al == allocated \ Unwanted(a)
           A4 == IF Lacks("v4", Keep(a)) THEN AllocateNetwork("v4", al, next)
                                         ELSE NothingToAllocate(next)
           End(v4) ==
             CASE v4.err -> GiveUp(n)
               [] ~v4.err /\ ~Lacks("v6", Keep(a)) -> Allocated(n, Keep(a), v4.sub, a)
               [] ~v4.err /\ Lacks("v6", Keep(a)) ->
                    /\ job' = [job EXCEPT ![n] = [pc |-> "v6", host |-> Keep(a) \cup v4.sub,
                                                  new |-> v4.sub, had |-> a]]
                    /\ UNCHANGED failed
<1>1. \/ Cardinality(a) = Expected /\ Allocated(n, a, {}, a) /\ UNCHANGED <<allocated, next>>
      \/ /\ Cardinality(a) # Expected
         /\ \E v4 \in {A4} : allocated' = al \cup v4.sub /\ next' = v4.next /\ End(v4)
  BY Zenon DEF AllocateV4
<1>2. A4.sub \in SUBSET Active /\ A4.sub \cap al = {} /\ A4.next \in [DOMAIN Ranges -> Nat]
  <2>1. CASE Lacks("v4", Keep(a))
    <3>1. "v4" \in families
      BY <2>1 DEF Lacks
    <3> HIDE DEF al
    <3> QED BY <2>1, <3>1, AllocatesActive
  <2>2. CASE ~Lacks("v4", Keep(a))
    BY <2>2 DEF NothingToAllocate
  <2> QED BY <2>1, <2>2
<1> HIDE DEF A4
<1>3. \A v4 : End(v4) => \/ GiveUp(n)
                         \/ Allocated(n, Keep(a), v4.sub, a)
                         \/ /\ "v6" \in families
                            /\ job' = [job EXCEPT ![n] = [pc |-> "v6", host |-> Keep(a) \cup v4.sub,
                                                          new |-> v4.sub, had |-> a]]
                            /\ UNCHANGED failed
  <2> TAKE v4
  <2>1. Lacks("v6", Keep(a)) => "v6" \in families
    BY DEF Lacks
  <2> QED BY <2>1
<1> HIDE DEF End, al
<1>4. CASE \E v4 \in {A4} : allocated' = al \cup v4.sub /\ next' = v4.next /\ End(v4)
  <2>1. allocated' = al \cup A4.sub /\ next' = A4.next /\ End(A4)
    BY <1>4
  <2> DEFINE new == A4.sub
  <2>2. /\ new \in SUBSET Active /\ new \cap al = {} /\ allocated' = al \cup new
        /\ next' \in [DOMAIN Ranges -> Nat]
        /\ \/ GiveUp(n)
           \/ Allocated(n, Keep(a), new, a)
           \/ /\ "v6" \in families
              /\ job' = [job EXCEPT ![n] = [pc |-> "v6", host |-> Keep(a) \cup new,
                                            new |-> new, had |-> a]]
              /\ UNCHANGED failed
    BY <1>2, <1>3, <2>1
  <2> HIDE DEF new
  <2> QED BY <1>1, <2>2 DEF al
<1> QED BY <1>1, <1>4

-----------------------------------------------------------------------------
(* Types. *)

LEMMA NodeSetFinite == ASSUME NEW S, S \subseteq Nodes PROVE Cardinality(S) \in Nat
BY NodesAssumption, FS_Subset, FS_CardinalityType

LEMMA IdleJob == /\ NoJob \in JobSet /\ NoJob.pc = "idle" /\ NoJob.host = {} /\ NoJob.new = {}
                 /\ NoJobs \in [Nodes -> JobSet]
                 /\ \A n \in Nodes : NoJobs[n] = NoJob /\ NoEvents[n] = <<>>
BY DEF NoJob, JobSet, NoJobs, NoEvents

LEMMA TypeInit == Init => TypeInv
<1> SUFFICES ASSUME Init PROVE TypeInv
  OBVIOUS
<1>1. ann \in [Nodes -> SUBSET Subnets] /\ lsm \in [Nodes -> SUBSET Subnets]
      /\ switch \in [Nodes -> SUBSET Subnets] /\ (\A n \in Nodes : ann[n] = {})
  BY DEF Init, NoSubnet
<1>2. env \in Envs /\ env.faults \in Nat /\ env.restarts \in Nat
  BY EnvsAssumption DEF Init
<1>3. faults \in 0 .. env.faults /\ restarts \in 0 .. env.restarts
  BY <1>2 DEF Init
<1>4. created \in [Nodes -> Nat] /\ events \in [Nodes -> Seq(EventSet)]
  BY DEF Init, NoEvents
<1>5. next \in [DOMAIN Ranges -> Nat]
  BY DEF Init, NewNext
<1>6. job = NoJobs /\ Running
  BY IdleJob DEF Init, Running
<1> QED BY <1>1, <1>2, <1>3, <1>4, <1>5, <1>6, IdleJob DEF Init, TypeOK, TypeInv

\* A job that changes is a job, and waits for an IPv6 subnet only if there are some.
LEMMA JobGivenUp ==
  ASSUME job \in [Nodes -> JobSet], failed \subseteq Nodes, Running, NEW n \in Nodes, GiveUp(n)
  PROVE  /\ job' \in [Nodes -> JobSet] /\ failed' \subseteq Nodes
         /\ \A m \in Nodes : job'[m].pc = "v6" => "v6" \in families
BY IdleJob DEF GiveUp, Running

LEMMA JobAllocated ==
  ASSUME job \in [Nodes -> JobSet], failed \subseteq Nodes, Running, NEW n \in Nodes,
         NEW keep \in SUBSET Subnets, NEW new \in SUBSET Subnets, NEW had,
         Allocated(n, keep, new, had)
  PROVE  /\ job' \in [Nodes -> JobSet] /\ failed' \subseteq Nodes
         /\ \A m \in Nodes : job'[m].pc = "v6" => "v6" \in families
<1>1. CASE GiveUp(n)
  BY <1>1, JobGivenUp
<1>2. CASE /\ job' = [job EXCEPT ![n] = [pc |-> "switch", host |-> keep \cup new,
                                         new |-> new, had |-> {}]]
           /\ UNCHANGED failed
  BY <1>2 DEF JobSet, Running
<1> QED BY <1>1, <1>2 DEF Allocated

LEMMA TypeStart ==
  ASSUME TypeInv, NEW n \in Nodes, NEW a \in SUBSET Subnets, AllocateV4(n, a), UNCHANGED families
  PROVE  /\ allocated' \subseteq Active'
         /\ next' \in [DOMAIN Ranges -> Nat]
         /\ job' \in [Nodes -> JobSet] /\ failed' \subseteq Nodes
         /\ \A m \in Nodes : job'[m].pc = "v6" => "v6" \in families
<1>0. Active' = Active /\ Active \subseteq Subnets /\ Keep(a) \in SUBSET Subnets
  BY KeepsOwn DEF Active
<1>1. /\ allocated \subseteq Active /\ next \in [DOMAIN Ranges -> Nat] /\ failed \subseteq Nodes
      /\ job \in [Nodes -> JobSet] /\ Running
  BY DEF TypeOK, TypeInv
<1> HIDE DEF Active
<1>2. CASE Allocated(n, a, {}, a) /\ UNCHANGED <<allocated, next>>
  BY <1>0, <1>1, <1>2, JobAllocated
<1>3. ASSUME NEW new \in SUBSET Active, allocated' = (allocated \ Unwanted(a)) \cup new,
             next' \in [DOMAIN Ranges -> Nat],
             \/ GiveUp(n)
             \/ Allocated(n, Keep(a), new, a)
             \/ /\ "v6" \in families
                /\ job' = [job EXCEPT ![n] = [pc |-> "v6", host |-> Keep(a) \cup new,
                                              new |-> new, had |-> a]]
                /\ UNCHANGED failed
      PROVE  /\ allocated' \subseteq Active
             /\ job' \in [Nodes -> JobSet] /\ failed' \subseteq Nodes
             /\ \A m \in Nodes : job'[m].pc = "v6" => "v6" \in families
  <2>0. new \in SUBSET Subnets /\ allocated' \subseteq Active
    BY <1>0, <1>1, <1>3
  <2>1. CASE GiveUp(n)
    BY <1>1, <2>0, <2>1, JobGivenUp
  <2>2. CASE Allocated(n, Keep(a), new, a)
    BY <1>0, <1>1, <2>0, <2>2, JobAllocated
  <2>3. CASE /\ "v6" \in families
             /\ job' = [job EXCEPT ![n] = [pc |-> "v6", host |-> Keep(a) \cup new,
                                           new |-> new, had |-> a]]
             /\ UNCHANGED failed
    BY <1>0, <1>1, <2>0, <2>3 DEF JobSet
  <2> QED BY <1>3, <2>1, <2>2, <2>3
<1> QED BY <1>0, <1>1, <1>2, <1>3, StartsV4

LEMMA TypeStep == TypeInv /\ [Next]_vars => TypeInv'
<1> SUFFICES ASSUME TypeInv, [Next]_vars PROVE TypeInv'
  OBVIOUS
<1> USE DEF TypeInv, TypeOK
<1>0. env.faults \in Nat /\ env.restarts \in Nat
  BY EnvsAssumption
<1>1. ASSUME NEW n \in Nodes, CreateNode(n) PROVE TypeInv'
  <2>1. events' \in [Nodes -> Seq(EventSet)]
    BY <1>1, EventTypes, Queued DEF CreateNode, Emit
  <2>2. created' \in [Nodes -> Nat]
    BY <1>1 DEF CreateNode
  <2>3. exists' \subseteq Nodes /\ UNCHANGED <<ann, phase, mem, job, switch, limits, faults>>
    BY <1>1 DEF CreateNode
  <2> QED BY <1>1, <2>1, <2>2, <2>3 DEF CreateNode, mem, limits, Active, Running
<1>2. ASSUME NEW n \in Nodes, DeleteNode(n) PROVE TypeInv'
  <2>1. events' \in [Nodes -> Seq(EventSet)]
    BY <1>2, EventTypes, Queued DEF DeleteNode, Emit
  <2> QED BY <1>2, <2>1 DEF DeleteNode, mem, limits, Active, Running
<1>3. ASSUME NEW n \in Nodes, TouchNode(n) PROVE TypeInv'
  <2>1. events' \in [Nodes -> Seq(EventSet)]
    BY <1>3, EventTypes, Queued DEF TouchNode
  <2> QED BY <1>3, <2>1 DEF TouchNode, api, mem, limits, Active, Running
<1>4. ASSUME NEW n \in Nodes, AddFunc(n) PROVE TypeInv'
  <2>1. Head(events[n]).ann \in SUBSET Subnets /\ events' \in [Nodes -> Seq(EventSet)]
    BY <1>4, QueueTaken DEF AddFunc, Handles, EventSet
  <2> QED BY <1>4, <2>1, TypeStart DEF AddFunc, Handles, api, limits, Running
<1>5. ASSUME NEW n \in Nodes, UpdateFunc(n) PROVE TypeInv'
  <2>1. Head(events[n]).ann \in SUBSET Subnets /\ events' \in [Nodes -> Seq(EventSet)]
    BY <1>5, QueueTaken DEF UpdateFunc, Handles, EventSet
  <2>2. CASE n \in failed
    BY <1>5, <2>1, <2>2, TypeStart DEF UpdateFunc, Handles, api, limits, Running
  <2>3. CASE n \notin failed
    BY <1>5, <2>1, <2>3 DEF UpdateFunc, Handles, api, limits, Active, Running
  <2> QED BY <2>2, <2>3
<1>6. ASSUME NEW n \in Nodes, DeleteFunc(n) PROVE TypeInv'
  <2>1. events' \in [Nodes -> Seq(EventSet)]
    BY <1>6, QueueTaken DEF DeleteFunc, Handles
  <2>2. lsm' \in [Nodes -> SUBSET Subnets] /\ switch' \in [Nodes -> SUBSET Subnets]
    BY <1>6 DEF DeleteFunc
  <2>3. faults' \in 0 .. env.faults
    BY <1>6, <1>0 DEF DeleteFunc, Fault
  <2> QED BY <1>6, <2>1, <2>2, <2>3 DEF DeleteFunc, api, limits, Active, Running
<1>a. ASSUME NEW n \in Nodes, job[n].pc # "idle" PROVE phase = "up"
  BY <1>a, IdleJob DEF Running
<1>b. \A n \in Nodes : job[n] \in JobSet /\ job[n].host \in SUBSET Subnets
                       /\ job[n].new \in SUBSET Subnets
  BY DEF JobSet
<1>f. ASSUME NEW n \in Nodes, AddNodeFails(n), UNCHANGED <<families, phase>>, phase = "up"
      PROVE  /\ allocated' \subseteq Active' /\ failed' \subseteq Nodes
             /\ job' \in [Nodes -> JobSet] /\ Running'
  <2>1. /\ job' \in [Nodes -> JobSet] /\ failed' \subseteq Nodes
        /\ \A m \in Nodes : job'[m].pc = "v6" => "v6" \in families
    BY <1>f, JobGivenUp DEF AddNodeFails
  <2>2. allocated' \subseteq Active'
    BY <1>f DEF AddNodeFails, Active
  <2> QED BY <1>f, <2>1, <2>2 DEF Running
<1>7. ASSUME NEW n \in Nodes, AllocateV6(n) PROVE TypeInv'
  <2>0. /\ phase = "up" /\ "v6" \in families /\ Active \subseteq Subnets
        /\ UNCHANGED <<api, events, phase, families, lsm, switch, limits, faults>>
    BY <1>7, <1>a DEF AllocateV6, Running, Active
  <2> DEFINE v6 == AllocateNetwork("v6", allocated, next)
  <2>1. v6.sub \in SUBSET Active /\ v6.next \in [DOMAIN Ranges -> Nat]
    BY <2>0, AllocatesActive
  <2>2. /\ allocated' = allocated \cup v6.sub /\ next' = v6.next
        /\ GiveUp(n) \/ Allocated(n, job[n].host, job[n].new \cup v6.sub, job[n].had)
    BY <1>7 DEF AllocateV6
  <2> HIDE DEF v6
  <2>3. allocated' \subseteq Active' /\ next' \in [DOMAIN Ranges -> Nat]
    BY <2>0, <2>1, <2>2 DEF Active
  <2>4. /\ job' \in [Nodes -> JobSet] /\ failed' \subseteq Nodes
        /\ \A m \in Nodes : job'[m].pc = "v6" => "v6" \in families
    <3>1. job[n].new \cup v6.sub \in SUBSET Subnets
      BY <1>b, <2>0, <2>1
    <3> QED BY <1>b, <2>2, <3>1, JobGivenUp, JobAllocated
  <2> QED BY <2>0, <2>3, <2>4 DEF api, limits, Running
<1>8. ASSUME NEW n \in Nodes, EnsureSwitch(n) PROVE TypeInv'
  <2>0. phase = "up" /\ UNCHANGED <<api, events, phase, families, next, lsm, limits>>
    BY <1>8, <1>a DEF EnsureSwitch
  <2>1. CASE /\ job' = [job EXCEPT ![n].pc = "cache"] /\ UNCHANGED <<allocated, failed, faults>>
             /\ switch' = [switch EXCEPT ![n] =
                        {s \in @ : \A t \in job[n].host : Fam(t) # Fam(s)} \cup job[n].host]
    <3>1. job' \in [Nodes -> JobSet] /\ Running'
      BY <2>0, <2>1 DEF JobSet, Running
    <3>2. switch' \in [Nodes -> SUBSET Subnets]
      BY <1>b, <2>1
    <3> QED BY <2>0, <2>1, <3>1, <3>2 DEF api, limits, Active
  <2>2. CASE Fault /\ AddNodeFails(n) /\ UNCHANGED switch
    BY <1>0, <1>f, <2>0, <2>2 DEF Fault, api, limits
  <2> QED BY <1>8, <2>1, <2>2 DEF EnsureSwitch
<1>9. ASSUME NEW n \in Nodes, EnsureCache(n) PROVE TypeInv'
  <2>0. phase = "up" /\ UNCHANGED <<api, events, phase, families, next, switch, limits>>
    BY <1>9, <1>a DEF EnsureCache
  <2>1. CASE /\ job' = [job EXCEPT ![n].pc = "annotate"] /\ UNCHANGED <<allocated, failed, faults>>
             /\ AddToCache(n, job[n].host)
    <3>1. job' \in [Nodes -> JobSet] /\ Running'
      BY <2>0, <2>1 DEF JobSet, Running
    <3>2. lsm' \in [Nodes -> SUBSET Subnets]
      BY <1>b, <2>1 DEF AddToCache
    <3> QED BY <2>0, <2>1, <3>1, <3>2 DEF api, limits, Active
  <2>2. CASE Fault /\ AddNodeFails(n) /\ UNCHANGED lsm
    BY <1>0, <1>f, <2>0, <2>2 DEF Fault, api, limits
  <2> QED BY <1>9, <2>1, <2>2 DEF EnsureCache
<1>10. ASSUME NEW n \in Nodes, Annotate(n) PROVE TypeInv'
  <2>0. phase = "up" /\ UNCHANGED <<exists, created, phase, families, next, lsm, switch, limits>>
    BY <1>10, <1>a DEF Annotate
  <2>p. ASSUME NEW h \in SUBSET Subnets, Patch(n, h)
        PROVE  /\ ann' \in [Nodes -> SUBSET Subnets]
               /\ \A m \in Nodes \ exists : ann'[m] = {}
               /\ events' \in [Nodes -> Seq(EventSet)]
    <3>1. events' \in [Nodes -> Seq(EventSet)]
      BY <2>p, EventTypes, Queued DEF Patch
    <3> QED BY <2>p, <3>1 DEF Patch
  <2>1. CASE /\ Patch(n, job[n].host) /\ failed' = failed \ {n}
             /\ job' = [job EXCEPT ![n] = NoJob] /\ UNCHANGED <<allocated, faults>>
    <3>1. job' \in [Nodes -> JobSet] /\ Running'
      BY <2>0, <2>1, IdleJob DEF Running
    <3> QED BY <1>b, <2>0, <2>1, <2>p, <3>1 DEF limits, Active
  <2>2. CASE AddNodeFails(n) /\ UNCHANGED <<ann, events, faults>>
    BY <1>f, <2>0, <2>2 DEF limits
  <2>3. ASSUME Fault, AddNodeFails(n), NEW h \in SUBSET Subnets, Patch(n, h)
        PROVE  TypeInv'
    BY <1>0, <1>f, <2>0, <2>3, <2>p DEF Fault, limits
  <2>4. ann[n] \in SUBSET Subnets /\ job[n].host \in SUBSET Subnets
    BY <1>b
  <2> QED BY <1>10, <2>1, <2>2, <2>3, <2>4 DEF Annotate
<1>11. CASE Crash
  <2>1. events' \in [Nodes -> Seq(EventSet)]
    BY <1>11 DEF Crash, NoEvents
  <2> QED BY <1>11, <1>0, <2>1, IdleJob DEF Crash, NewNext, NoSubnet, api, Active, Running
<1>12. CASE StartClusterMaster
  <2>1. allocated' \subseteq Active'
    BY <1>12 DEF StartClusterMaster, MarkedSubnets, Active
  <2> QED BY <1>12, <2>1, IdleJob DEF StartClusterMaster, api, limits, Running
<1>13. CASE WatchNodes
  <2>1. events' \in [Nodes -> Seq(EventSet)]
    <3>1. \A n \in Nodes : <<Event("add", ann[n])>> \in Seq(EventSet) /\ <<>> \in Seq(EventSet)
      BY EventTypes
    <3> QED BY <1>13, <3>1 DEF WatchNodes
  <2>2. PICK gone \in SUBSET Nodes, kept \in SUBSET Nodes :
          /\ \E x \in {0, 1} : faults' = faults + Cardinality(kept) + x
          /\ faults' <= env.faults
          /\ DeleteStale(gone, kept)
    <3> DEFINE stale == {n \in Nodes \ exists : switch[n] # {}}
    <3>1. PICK gone \in {stale, {}}, kept \in SUBSET stale :
            /\ faults' = faults + Cardinality(kept) + (IF gone = stale THEN 0 ELSE 1)
            /\ faults' <= env.faults
            /\ DeleteStale(gone, kept)
      BY <1>13 DEF WatchNodes
    <3>2. gone \in SUBSET Nodes /\ kept \in SUBSET Nodes
      OBVIOUS
    <3> HIDE DEF stale
    <3> QED BY <3>1, <3>2
  <2>3. faults' \in 0 .. env.faults
    <3>1. Cardinality(kept) \in Nat /\ faults \in Nat
      BY <1>0, NodeSetFinite
    <3> QED BY <2>2, <3>1, <1>0
  <2>4. allocated' \subseteq Active /\ switch' \in [Nodes -> SUBSET Subnets]
    BY <2>2 DEF DeleteStale
  <2> QED BY <1>13, <2>1, <2>3, <2>4 DEF WatchNodes, api, limits, Active, Running
<1>14. CASE UNCHANGED vars
  BY <1>14 DEF vars, api, mem, limits, Active, Running
<1> QED BY <1>1, <1>2, <1>3, <1>4, <1>5, <1>6, <1>7, <1>8, <1>9, <1>10, <1>11, <1>12, <1>13,
           <1>14 DEF Next, HandleNode

\* The types hold in every environment, restarts and lost replies included: the
\* allocator only holds subnets of the ranges it has.
THEOREM TypeCorrect == Spec => []TypeOK
<1>1. Init => TypeInv
  BY TypeInit
<1>2. TypeInv /\ [Next]_vars => TypeInv'
  BY TypeStep
<1>3. TypeInv => TypeOK
  BY DEF TypeInv
<1> QED BY <1>1, <1>2, <1>3, PTL DEF Spec
-----------------------------------------------------------------------------
(* The queues and the claims. *)

\* A new event shows nothing but its annotation ...
LEMMA ShowsQueued ==
  ASSUME TypeOK, WholeSubnets, NEW n \in Nodes, NEW e \in EventSet, Queue(n, e)
  PROVE  /\ \A m \in Nodes : \A s : Shows(m, s)' => Shows(m, s) \/ (m = n /\ s \in e.ann)
         /\ Whole(e.ann) => \A m \in Nodes : \A i \in DOMAIN events'[m] : Whole(events'[m][i].ann)
<1>0. events \in [Nodes -> Seq(EventSet)]
  BY DEF TypeOK
<1>1. /\ \A m \in Nodes : m # n => events'[m] = events[m]
      /\ \A i \in DOMAIN events'[n] : \/ i \in DOMAIN events[n] /\ events'[n][i] = events[n][i]
                                      \/ events'[n][i] = e
  BY <1>0, Queued
<1>2. ASSUME NEW m \in Nodes, NEW s, Shows(m, s)'
      PROVE  Shows(m, s) \/ (m = n /\ s \in e.ann)
  <2>1. PICK i \in DOMAIN events'[m] : s \in events'[m][i].ann
    BY <1>2 DEF Shows
  <2> QED BY <1>1, <2>1 DEF Shows
<1>3. ASSUME Whole(e.ann), NEW m \in Nodes, NEW i \in DOMAIN events'[m]
      PROVE  Whole(events'[m][i].ann)
  BY <1>1, <1>3 DEF WholeSubnets
<1> QED BY <1>2, <1>3

\* ... and follows no delete.
LEMMA DeleteQueued ==
  ASSUME TypeOK, DeleteIsLast, NEW n \in Nodes, NEW e \in EventSet, Queue(n, e),
         exists' \subseteq exists \cup {n},
         \A i \in DOMAIN events[n] : events[n][i].kind # "delete",
         e.kind = "delete" => n \notin exists'
  PROVE  DeleteIsLast'
<1>0. events \in [Nodes -> Seq(EventSet)]
  BY DEF TypeOK
<1>1. /\ \A m \in Nodes : m # n => events'[m] = events[m]
      /\ \A i \in DOMAIN events'[n] : \/ i \in DOMAIN events[n] /\ events'[n][i] = events[n][i]
                                      \/ i = Len(events'[n]) /\ events'[n][i] = e
  BY <1>0, Queued
<1> SUFFICES ASSUME NEW m \in Nodes, NEW i \in DOMAIN events'[m], events'[m][i].kind = "delete"
             PROVE  m \notin exists' /\ i = Len(events'[m])
  BY DEF DeleteIsLast
<1>2. CASE m = n
  BY <1>1, <1>2
<1>3. CASE m # n
  BY <1>1, <1>3 DEF DeleteIsLast
<1> QED BY <1>2, <1>3

\* What the handler takes from a queue was there.
LEMMA ShowsTaken ==
  ASSUME TypeOK, WholeSubnets, DeleteIsLast, NEW n \in Nodes, events[n] # <<>>, Taken(n),
         exists' = exists
  PROVE  /\ \A m \in Nodes : \A s : Shows(m, s)' => Shows(m, s)
         /\ \A m \in Nodes : \A i \in DOMAIN events'[m] : Whole(events'[m][i].ann)
         /\ DeleteIsLast'
         /\ \A m \in Nodes : m # n => events'[m] = events[m]
         /\ Whole(Head(events[n]).ann) /\ Head(events[n]).ann \in SUBSET Subnets
         /\ \A s \in Head(events[n]).ann : Shows(n, s)
<1>0. events \in [Nodes -> Seq(EventSet)]
  BY DEF TypeOK
<1>1. /\ \A m \in Nodes : m # n => events'[m] = events[m]
      /\ Head(events[n]) \in EventSet /\ 1 \in DOMAIN events[n]
      /\ Head(events[n]) = events[n][1]
      /\ Len(events[n]) \in Nat /\ Len(events'[n]) = Len(events[n]) - 1
      /\ \A i \in DOMAIN events'[n] : /\ i \in Nat /\ i + 1 \in DOMAIN events[n]
                                      /\ events'[n][i] = events[n][i + 1]
  BY <1>0, QueueTaken
<1>2. ASSUME NEW m \in Nodes, NEW s, Shows(m, s)' PROVE Shows(m, s)
  <2>1. PICK i \in DOMAIN events'[m] : s \in events'[m][i].ann
    BY <1>2 DEF Shows
  <2> QED BY <1>1, <2>1 DEF Shows
<1>3. ASSUME NEW m \in Nodes, NEW i \in DOMAIN events'[m]
      PROVE  /\ Whole(events'[m][i].ann)
             /\ events'[m][i].kind = "delete" => m \notin exists' /\ i = Len(events'[m])
  <2>1. CASE m = n
    BY <1>1, <2>1 DEF WholeSubnets, DeleteIsLast
  <2>2. CASE m # n
    BY <1>1, <2>2 DEF WholeSubnets, DeleteIsLast
  <2> QED BY <2>1, <2>2
<1>4. DeleteIsLast'
  BY <1>3 DEF DeleteIsLast
<1>5. Whole(Head(events[n]).ann) /\ \A s \in Head(events[n]).ann : Shows(n, s)
  BY <1>1 DEF WholeSubnets, Shows
<1>6. Head(events[n]).ann \in SUBSET Subnets
  BY <1>1 DEF EventSet
<1> QED BY <1>1, <1>2, <1>3, <1>4, <1>5, <1>6

\* A step that adds no claim and releases no claimed subnet.
LEMMA ClaimsShrink ==
  ASSUME ClaimsDisjoint,
         \A n \in Nodes, s \in Subnets : Claim(n, s)' => Claim(n, s) /\ s \in allocated'
  PROVE  ClaimsReserved' /\ ClaimsDisjoint'
BY DEF ClaimsReserved, ClaimsDisjoint

LEMMA SameWhole == ASSUME UNCHANGED families
                   PROVE  \A x : (Whole(x) <=> Whole(x)') /\ (WholeJob(x) <=> WholeJob(x)')
BY DEF Whole, WholeJob, Expected

LEMMA CoreInit == Init => Core
<1> SUFFICES ASSUME Init PROVE Core
  OBVIOUS
<1>1. /\ events = NoEvents /\ job = NoJobs /\ exists = {} /\ allocated = {}
      /\ \A n \in Nodes : ann[n] = {} /\ events[n] = <<>> /\ job[n] = NoJob /\ DOMAIN events[n] = {}
  BY IdleJob DEF Init, NoSubnet
<1>2. \A n \in Nodes : \A s : ~Claim(n, s) /\ ~Shows(n, s)
  BY <1>1, IdleJob DEF Claim, Shows
<1> QED BY <1>1, <1>2, IdleJob
        DEF Core, ClaimsReserved, ClaimsDisjoint, NewIsFresh, WholeSubnets, Whole, WholeJob,
            DeleteIsLast, WasCreated, Pending, NothingYet

-----------------------------------------------------------------------------
(* Every action keeps the invariant: the API server and the kubelets. *)

LEMMA CoreCreate ==
  ASSUME TypeInv, Core, Undisturbed, NEW n \in Nodes, CreateNode(n)
  PROVE  Core'
<1> DEFINE e == Event("add", {})
<1>0. /\ UNCHANGED <<ann, phase, families, allocated, job>> /\ exists' = exists \cup {n}
      /\ IF phase = "up" THEN Queue(n, e) ELSE UNCHANGED events
      /\ n \notin exists /\ TypeOK
  BY DEF CreateNode, Emit, mem, TypeInv
<1>1. e \in EventSet /\ e.ann = {} /\ e.kind = "add"
  BY EventTypes
<1>2. ~Pending(n) /\ DOMAIN events[n] = {}
  <2>1. CASE created[n] > 0
    BY <2>1 DEF CreateNode, Undisturbed, Pending
  <2>2. CASE ~(created[n] > 0)
    BY <2>2 DEF Core, WasCreated, Pending
  <2> QED BY <2>1, <2>2
<1> HIDE DEF e
<1>3. /\ \A m \in Nodes : \A s : Shows(m, s)' => Shows(m, s)
      /\ \A m \in Nodes : \A i \in DOMAIN events'[m] : Whole(events'[m][i].ann)
  <2>1. CASE phase = "up"
    BY <2>1, <1>0, <1>1, ShowsQueued DEF Core, Whole
  <2>2. CASE phase # "up"
    BY <2>2, <1>0 DEF Shows, Core, WholeSubnets
  <2> QED BY <2>1, <2>2
<1>4. ClaimsReserved' /\ ClaimsDisjoint'
  <2>1. \A m \in Nodes, s \in Subnets : Claim(m, s)' => Claim(m, s)
    BY <1>0, <1>3 DEF Claim
  <2> QED BY <2>1, <1>0, ClaimsShrink DEF Core, ClaimsReserved
<1>5. NewIsFresh'
  BY <1>0, <1>3 DEF Core, NewIsFresh
<1>6. WholeSubnets'
  BY <1>0, <1>3, SameWhole DEF Core, WholeSubnets
<1>7. DeleteIsLast'
  <2>1. CASE phase = "up"
    BY <2>1, <1>0, <1>1, <1>2, DeleteQueued DEF Core
  <2>2. CASE phase # "up"
    BY <2>2, <1>0, <1>2 DEF Core, DeleteIsLast
  <2> QED BY <2>1, <2>2
<1>8. WasCreated'
  <2>1. created \in [Nodes -> Nat] /\ created' = [created EXCEPT ![n] = @ + 1]
    BY <1>0 DEF CreateNode, TypeOK
  <2>2. created'[n] > 0 /\ \A m \in Nodes : m # n => created'[m] = created[m]
    BY <2>1
  <2>3. \A m \in Nodes : m # n => events'[m] = events[m]
    BY <1>0, <1>1, Queued DEF TypeOK
  <2> QED BY <1>0, <2>2, <2>3 DEF Core, WasCreated, Pending
<1>9. NothingYet'
  BY <1>0 DEF Core, NothingYet
<1> QED BY <1>4, <1>5, <1>6, <1>7, <1>8, <1>9 DEF Core

LEMMA CoreDelete ==
  ASSUME TypeInv, Core, NEW n \in Nodes, DeleteNode(n)
  PROVE  Core'
<1> DEFINE e == Event("delete", ann[n])
<1>0. /\ UNCHANGED <<created, phase, families, allocated, job>> /\ exists' = exists \ {n}
      /\ IF phase = "up" THEN Queue(n, e) ELSE UNCHANGED events
      /\ n \in exists /\ ann' = [ann EXCEPT ![n] = {}] /\ TypeOK
      /\ ann \in [Nodes -> SUBSET Subnets]
  BY DEF DeleteNode, Emit, mem, TypeInv, TypeOK
<1>1. e \in EventSet /\ e.ann = ann[n] /\ e.kind = "delete"
  BY <1>0, EventTypes
<1> HIDE DEF e
<1>2. \A i \in DOMAIN events[n] : events[n][i].kind # "delete"
  BY <1>0 DEF Core, DeleteIsLast
<1>3. /\ \A m \in Nodes : \A s : Shows(m, s)' => Shows(m, s) \/ (m = n /\ s \in ann[n])
      /\ \A m \in Nodes : \A i \in DOMAIN events'[m] : Whole(events'[m][i].ann)
  <2>1. CASE phase = "up"
    <3>1. Whole(e.ann)
      BY <1>1 DEF Core, WholeSubnets
    <3> QED BY <2>1, <3>1, <1>0, <1>1, ShowsQueued DEF Core
  <2>2. CASE phase # "up"
    BY <2>2, <1>0 DEF Shows, Core, WholeSubnets
  <2> QED BY <2>1, <2>2
<1>4. ClaimsReserved' /\ ClaimsDisjoint'
  <2>1. \A m \in Nodes, s \in Subnets : Claim(m, s)' => Claim(m, s)
    BY <1>0, <1>3 DEF Claim
  <2> QED BY <2>1, <1>0, ClaimsShrink DEF Core, ClaimsReserved
<1>5. NewIsFresh'
  BY <1>0, <1>3 DEF Core, NewIsFresh
<1>6. WholeSubnets'
  <2>1. \A m \in Nodes : Whole(ann'[m])
    BY <1>0 DEF Core, WholeSubnets, Whole
  <2> QED BY <1>0, <1>3, <2>1, SameWhole DEF Core, WholeSubnets
<1>7. DeleteIsLast'
  <2>1. CASE phase = "up"
    BY <2>1, <1>0, <1>1, <1>2, DeleteQueued DEF Core
  <2>2. CASE phase # "up"
    BY <2>2, <1>0 DEF Core, DeleteIsLast
  <2> QED BY <2>1, <2>2
<1>8. WasCreated'
  <2>1. \A m \in Nodes : m # n => events'[m] = events[m]
    BY <1>0, <1>1, Queued DEF TypeOK
  <2> QED BY <1>0, <2>1 DEF Core, WasCreated, Pending
<1>9. NothingYet'
  BY <1>0 DEF Core, NothingYet
<1> QED BY <1>4, <1>5, <1>6, <1>7, <1>8, <1>9 DEF Core

LEMMA CoreTouch ==
  ASSUME TypeInv, Core, NEW n \in Nodes, TouchNode(n)
  PROVE  Core'
<1> DEFINE e == Event("update", ann[n])
<1>0. /\ UNCHANGED <<exists, ann, created, phase, families, allocated, job>>
      /\ Queue(n, e) /\ n \in exists /\ phase = "up" /\ TypeOK
      /\ events[n] = <<>> /\ DOMAIN events[n] = {}
  BY DEF TouchNode, api, mem, TypeInv
<1>1. e \in EventSet /\ e.ann = ann[n] /\ e.kind = "update"
  BY EventTypes DEF TypeInv, TypeOK
<1> HIDE DEF e
<1>3. /\ \A m \in Nodes : \A s : Shows(m, s)' => Shows(m, s) \/ (m = n /\ s \in ann[n])
      /\ \A m \in Nodes : \A i \in DOMAIN events'[m] : Whole(events'[m][i].ann)
  <2>1. Whole(e.ann)
    BY <1>1 DEF Core, WholeSubnets
  <2> QED BY <2>1, <1>0, <1>1, ShowsQueued DEF Core
<1>4. ClaimsReserved' /\ ClaimsDisjoint'
  <2>1. \A m \in Nodes, s \in Subnets : Claim(m, s)' => Claim(m, s)
    BY <1>0, <1>3 DEF Claim
  <2> QED BY <2>1, <1>0, ClaimsShrink DEF Core, ClaimsReserved
<1>5. NewIsFresh'
  BY <1>0, <1>3 DEF Core, NewIsFresh
<1>6. WholeSubnets'
  BY <1>0, <1>3, SameWhole DEF Core, WholeSubnets
<1>7. DeleteIsLast'
  BY <1>0, <1>1, DeleteQueued DEF Core
<1>8. WasCreated'
  <2>1. \A m \in Nodes : m # n => events'[m] = events[m]
    BY <1>0, <1>1, Queued DEF TypeOK
  <2> QED BY <1>0, <2>1 DEF Core, WasCreated, Pending
<1>9. NothingYet'
  BY <1>0 DEF NothingYet
<1> QED BY <1>4, <1>5, <1>6, <1>7, <1>8, <1>9 DEF Core

-----------------------------------------------------------------------------
(* The threads of the node handler. *)

\* addNode starts, for a node without subnets or with all it needs: its new subnets
\* are nobody's.
LEMMA CoreStart ==
  ASSUME TypeInv, Core, NEW n \in Nodes, job[n] = NoJob, phase = "up", events[n] # <<>>, Taken(n),
         AllocateV4(n, Head(events[n]).ann), UNCHANGED <<exists, ann, created, phase, families>>
  PROVE  Core'
<1>0. PICK a \in SUBSET Subnets : a = Head(events[n]).ann
  BY ShowsTaken DEF TypeInv, Core
<1>1. /\ \A m \in Nodes : \A s : Shows(m, s)' => Shows(m, s)
      /\ \A m \in Nodes : \A i \in DOMAIN events'[m] : Whole(events'[m][i].ann)
      /\ DeleteIsLast'
      /\ \A m \in Nodes : m # n => events'[m] = events[m]
      /\ Whole(a) /\ \A s \in a : Shows(n, s)
  BY <1>0, ShowsTaken DEF TypeInv, Core
<1>2. /\ AllocateV4(n, a) /\ next \in [DOMAIN Ranges -> Nat] /\ allocated \subseteq Subnets
      /\ job \in [Nodes -> JobSet]
  BY <1>0 DEF TypeInv, TypeOK, Active
<1>e. Cardinality({}) = 0 /\ Expected \in {1, 2}
  BY FS_EmptySet DEF Expected
<1> DEFINE Started(new) ==
      /\ allocated' = allocated \cup new /\ new \cap allocated = {} /\ new \subseteq Subnets
      /\ \/ job' = job
         \/ /\ job' = [job EXCEPT ![n] = job'[n]] /\ job'[n].new = new
            /\ WholeJob(job'[n])
            /\ \/ job'[n].host = a /\ new = {}
               \/ job'[n].host = new
<1>3. \E new : Started(new)
  <2>1. CASE /\ Cardinality(a) = Expected /\ Allocated(n, a, {}, a) /\ UNCHANGED <<allocated, next>>
    <3>1. Expected - Cardinality(a) = 0
      BY <1>e, <2>1
    <3>2. job' = [job EXCEPT ![n] = [pc |-> "switch", host |-> a, new |-> {}, had |-> {}]]
      BY <2>1, <3>1 DEF Allocated
    <3>3. /\ job'[n] = [pc |-> "switch", host |-> a, new |-> {}, had |-> {}]
          /\ job' = [job EXCEPT ![n] = job'[n]]
      BY <1>2, <3>2
    <3>4. WholeJob(job'[n])
      BY <2>1, <3>3 DEF WholeJob
    <3>5. Started({})
      BY <2>1, <3>3, <3>4
    <3> QED BY <3>5
  <2>2. ASSUME Cardinality(a) # Expected, NEW new \in SUBSET Active,
               new \cap (allocated \ Unwanted(a)) = {},
               allocated' = (allocated \ Unwanted(a)) \cup new,
               \/ GiveUp(n)
               \/ Allocated(n, Keep(a), new, a)
               \/ job' = [job EXCEPT ![n] = [pc |-> "v6", host |-> Keep(a) \cup new,
                                             new |-> new, had |-> a]]
        PROVE  \E nw : Started(nw)
    <3>1. a = {} /\ Keep(a) = {} /\ Unwanted(a) = {}
      BY <1>1, <2>2, KeepsOwn DEF Whole, Unwanted
    <3>2. allocated' = allocated \cup new /\ new \cap allocated = {} /\ new \subseteq Subnets
      BY <2>2, <3>1 DEF Active
    <3>3. CASE GiveUp(n)
      <4>1. job' = job
        BY <1>2, <3>3 DEF GiveUp
      <4> QED BY <3>2, <4>1
    <3>4. CASE Cardinality(new) = Expected
               /\ job' = [job EXCEPT ![n] = [pc |-> "switch", host |-> new, new |-> new, had |-> {}]]
      <4>1. /\ job'[n] = [pc |-> "switch", host |-> new, new |-> new, had |-> {}]
            /\ job' = [job EXCEPT ![n] = job'[n]]
        BY <1>2, <3>4
      <4>2. WholeJob(job'[n])
        BY <3>4, <4>1 DEF WholeJob
      <4> QED BY <3>2, <4>1, <4>2
    <3>5. CASE job' = [job EXCEPT ![n] = [pc |-> "v6", host |-> new, new |-> new, had |-> {}]]
      <4>1. /\ job'[n] = [pc |-> "v6", host |-> new, new |-> new, had |-> {}]
            /\ job' = [job EXCEPT ![n] = job'[n]]
        BY <1>2, <3>5
      <4>2. WholeJob(job'[n])
        BY <4>1 DEF WholeJob
      <4> QED BY <3>2, <4>1, <4>2
    <3>6. ASSUME Allocated(n, Keep(a), new, a)
          PROVE  \/ GiveUp(n)
                 \/ /\ Cardinality(new) = Expected
                    /\ job' = [job EXCEPT ![n] = [pc |-> "switch", host |-> new,
                                                  new |-> new, had |-> {}]]
      <4>1. Expected - Cardinality(a) = Expected /\ Expected > 0 /\ Keep(a) \cup new = new
        BY <1>e, <3>1
      <4> QED BY <3>6, <4>1 DEF Allocated
    <3>7. Keep(a) \cup new = new
      BY <3>1
    <3> HIDE DEF Started
    <3> QED BY <2>2, <3>1, <3>3, <3>4, <3>5, <3>6, <3>7
  <2> HIDE DEF Started
  <2> QED BY <1>2, <2>1, <2>2, StartsV4
<1>4. PICK new : Started(new)
  BY <1>3
<1>5. /\ allocated \subseteq allocated' /\ new \subseteq allocated' /\ new \cap allocated = {}
      /\ new \subseteq Subnets
      /\ \A m \in Nodes : m # n => job'[m] = job[m]
      /\ \/ job'[n] = job[n]
         \/ /\ job'[n].new = new /\ WholeJob(job'[n])
            /\ (job'[n].host = a /\ new = {}) \/ job'[n].host = new
  BY <1>2, <1>4
<1>6. \A m \in Nodes, s \in Subnets : Claim(m, s)' => Claim(m, s) \/ (m = n /\ s \in new)
  BY <1>1, <1>5 DEF Claim
<1>7. ClaimsReserved' /\ ClaimsDisjoint'
  BY <1>5, <1>6 DEF Core, ClaimsReserved, ClaimsDisjoint
<1>8. NewIsFresh'
  <2>1. ASSUME NEW m \in Nodes
        PROVE  /\ job'[m].new \subseteq job'[m].host
               /\ \A s \in job'[m].new, k \in Nodes : s \notin ann[k] /\ ~Shows(k, s)
    <3>1. CASE job'[m] = job[m]
      BY <3>1 DEF Core, NewIsFresh
    <3>2. CASE m = n /\ job'[n].new = new /\ new \subseteq job'[n].host
      BY <1>5, <3>2 DEF Core, ClaimsReserved, Claim
    <3> QED BY <1>5, <3>1, <3>2
  <2> QED BY <1>1, <2>1 DEF NewIsFresh
<1>9. WholeSubnets'
  <2>1. \A m \in Nodes : WholeJob(job'[m])
    BY <1>5 DEF Core, WholeSubnets
  <2> QED BY <1>1, <2>1, SameWhole DEF Core, WholeSubnets
<1>10. WasCreated'
  BY <1>1, <1>5 DEF Core, WasCreated, Pending
<1>11. NothingYet'
  BY DEF NothingYet
<1> QED BY <1>1, <1>7, <1>8, <1>9, <1>10, <1>11 DEF Core

\* An update that the handler ignores.
LEMMA CoreSkip ==
  ASSUME TypeInv, Core, NEW n \in Nodes, phase = "up", events[n] # <<>>, Taken(n),
         UNCHANGED <<exists, ann, created, phase, families, allocated, job>>
  PROVE  Core'
<1>1. /\ \A m \in Nodes : \A s : Shows(m, s)' => Shows(m, s)
      /\ \A m \in Nodes : \A i \in DOMAIN events'[m] : Whole(events'[m][i].ann)
      /\ DeleteIsLast'
      /\ \A m \in Nodes : m # n => events'[m] = events[m]
  BY ShowsTaken DEF TypeInv, Core
<1>3. ClaimsReserved' /\ ClaimsDisjoint'
  <2>1. \A m \in Nodes, s \in Subnets : Claim(m, s)' => Claim(m, s)
    BY <1>1 DEF Claim
  <2> QED BY <2>1, ClaimsShrink DEF Core, ClaimsReserved
<1>4. NewIsFresh'
  BY <1>1 DEF Core, NewIsFresh
<1>5. WholeSubnets'
  BY <1>1, SameWhole DEF Core, WholeSubnets
<1>7. WasCreated'
  BY <1>1 DEF Core, WasCreated, Pending
<1>8. NothingYet'
  BY DEF NothingYet
<1> QED BY <1>1, <1>3, <1>4, <1>5, <1>7, <1>8 DEF Core

\* deleteNode releases what the last event of the name shows: nothing else claims it.
LEMMA CoreDeleteFunc ==
  ASSUME TypeInv, Core, NEW n \in Nodes, DeleteFunc(n)
  PROVE  Core'
<1>0. PICK a \in SUBSET Subnets : a = Head(events[n]).ann
  BY ShowsTaken DEF TypeInv, Core, DeleteFunc, Handles, api
<1>1. /\ job[n] = NoJob /\ phase = "up" /\ events[n] # <<>> /\ Taken(n)
      /\ Head(events[n]).kind = "delete" /\ allocated' = allocated \ a
      /\ UNCHANGED <<exists, ann, created, phase, families, job>>
      /\ TypeOK /\ events \in [Nodes -> Seq(EventSet)]
  BY <1>0 DEF DeleteFunc, Handles, api, TypeInv, TypeOK
<1>2. /\ \A m \in Nodes : \A s : Shows(m, s)' => Shows(m, s)
      /\ \A m \in Nodes : \A i \in DOMAIN events'[m] : Whole(events'[m][i].ann)
      /\ DeleteIsLast'
      /\ \A m \in Nodes : m # n => events'[m] = events[m]
      /\ \A s \in a : Shows(n, s)
  BY <1>0, <1>1, ShowsTaken DEF Core
<1>3. n \notin exists /\ ann[n] = {} /\ \A s : ~Shows(n, s)'
  <2>1. /\ 1 \in DOMAIN events[n] /\ Head(events[n]) = events[n][1]
        /\ Len(events[n]) \in Nat
        /\ \A i \in DOMAIN events'[n] : i \in Nat /\ i > 0 /\ i + 1 \in DOMAIN events[n]
    BY <1>1, QueueTaken
  <2>2. n \notin exists /\ Len(events[n]) = 1
    BY <1>1, <2>1 DEF Core, DeleteIsLast
  <2>3. DOMAIN events[n] = 1 .. 1
    BY <1>1, <2>2
  <2>4. DOMAIN events'[n] = {}
    BY <2>1, <2>3
  <2>5. ann[n] = {}
    BY <1>1, <2>2 DEF TypeOK
  <2> QED BY <2>2, <2>4, <2>5 DEF Shows
<1>5. ClaimsReserved' /\ ClaimsDisjoint'
  <2>1. ASSUME NEW m \in Nodes, NEW s \in Subnets, Claim(m, s)'
        PROVE  Claim(m, s) /\ s \in allocated'
    <3>0. s \in ann[m] \/ Shows(m, s)' \/ s \in job[m].host
      BY <1>1, <2>1 DEF Claim
    <3>1. Claim(m, s) /\ m # n
      BY <1>1, <1>2, <1>3, <3>0, IdleJob DEF Claim
    <3>2. s \notin a
      BY <1>2, <3>1 DEF Core, ClaimsDisjoint, Claim
    <3> QED BY <1>1, <3>1, <3>2 DEF Core, ClaimsReserved
  <2> QED BY <2>1, ClaimsShrink DEF Core
<1>6. NewIsFresh'
  BY <1>1, <1>2 DEF Core, NewIsFresh
<1>7. WholeSubnets'
  BY <1>1, <1>2, SameWhole DEF Core, WholeSubnets
<1>9. WasCreated'
  BY <1>1, <1>2 DEF Core, WasCreated, Pending
<1>10. NothingYet'
  BY <1>1 DEF NothingYet
<1> QED BY <1>2, <1>5, <1>6, <1>7, <1>9, <1>10 DEF Core

\* A step of addNode leaves the API server and the queues alone.
LEMMA SameShows ==
  ASSUME UNCHANGED events PROVE \A m, s : Shows(m, s)' = Shows(m, s)
BY DEF Shows

LEMMA Busy == ASSUME TypeInv, NEW n \in Nodes, job[n].pc # "idle"
              PROVE  phase = "up" /\ job[n] # NoJob
BY IdleJob DEF TypeInv, Running

\* addNode gives up: its new subnets are claimed by nobody else, so they may go.
LEMMA CoreFails ==
  ASSUME TypeInv, Core, NEW n \in Nodes, job[n] # NoJob, phase = "up", AddNodeFails(n),
         UNCHANGED <<exists, ann, created, events, phase, families>>
  PROVE  Core'
<1>0. /\ allocated' = allocated \ job[n].new /\ job'[n] = NoJob
      /\ \A m \in Nodes : m # n => job'[m] = job[m]
  BY DEF AddNodeFails, GiveUp, TypeInv, TypeOK
<1>1. \A m, s : Shows(m, s)' = Shows(m, s)
  BY SameShows
<1>2. ClaimsReserved' /\ ClaimsDisjoint'
  <2>1. ASSUME NEW m \in Nodes, NEW s \in Subnets, Claim(m, s)'
        PROVE  Claim(m, s) /\ s \in allocated'
    <3>1. s \in ann[m] \/ Shows(m, s) \/ (m # n /\ s \in job[m].host)
      BY <1>0, <1>1, <2>1, IdleJob DEF Claim
    <3>2. CASE s \in ann[m] \/ Shows(m, s)
      BY <1>0, <3>2 DEF Core, ClaimsReserved, NewIsFresh, Claim
    <3>3. CASE m # n /\ s \in job[m].host
      <4>1. s \notin job[n].host
        BY <3>3 DEF Core, ClaimsDisjoint, Claim
      <4>2. s \notin job[n].new
        BY <4>1 DEF Core, NewIsFresh
      <4> QED BY <1>0, <3>3, <4>2 DEF Core, ClaimsReserved, Claim
    <3> QED BY <3>1, <3>2, <3>3
  <2> QED BY <2>1, ClaimsShrink DEF Core
<1>3. NewIsFresh'
  BY <1>0, <1>1, IdleJob DEF Core, NewIsFresh
<1>4. WholeSubnets'
  <2>1. \A m \in Nodes : WholeJob(job'[m])
    BY <1>0 DEF Core, WholeSubnets, WholeJob
  <2> QED BY <2>1, SameWhole DEF Core, WholeSubnets
<1>5. DeleteIsLast'
  BY DEF Core, DeleteIsLast
<1>6. WasCreated'
  BY <1>0 DEF Core, WasCreated, Pending
<1>7. NothingYet'
  BY DEF NothingYet
<1> QED BY <1>2, <1>3, <1>4, <1>5, <1>6, <1>7 DEF Core

\* addNode goes on, with the same subnets.
LEMMA CoreGoesOn ==
  ASSUME TypeInv, Core, NEW n \in Nodes, job[n] # NoJob, phase = "up", job[n].pc # "v6",
         NEW l, l # "v6", job' = [job EXCEPT ![n].pc = l],
         UNCHANGED <<exists, ann, created, events, phase, families, allocated>>
  PROVE  Core'
<1>0. /\ \A m \in Nodes : job'[m].host = job[m].host /\ job'[m].new = job[m].new
      /\ job'[n].pc = l
      /\ \A m \in Nodes : m # n => job'[m] = job[m]
  BY DEF TypeInv, TypeOK, JobSet
<1>1. \A m, s : Shows(m, s)' = Shows(m, s)
  BY SameShows
<1>a. \A m \in Nodes : \A s : Claim(m, s)' = Claim(m, s)
  BY <1>0, <1>1 DEF Claim
<1>2. ClaimsReserved' /\ ClaimsDisjoint'
  BY <1>a DEF Core, ClaimsReserved, ClaimsDisjoint
<1>3. NewIsFresh'
  BY <1>0, <1>1 DEF Core, NewIsFresh
<1>4. WholeSubnets'
  <2>1. \A m \in Nodes : WholeJob(job'[m])
    BY <1>0 DEF Core, WholeSubnets, WholeJob
  <2> QED BY <2>1, SameWhole DEF Core, WholeSubnets
<1>5. DeleteIsLast'
  BY DEF Core, DeleteIsLast
<1>6. WasCreated'
  BY <1>0 DEF Core, WasCreated, Pending
<1>7. NothingYet'
  BY DEF NothingYet
<1> QED BY <1>2, <1>3, <1>4, <1>5, <1>6, <1>7 DEF Core

\* addNode, for a node without subnets, gets its IPv6 subnet, which is nobody's, or gives
\* up; the IPv4 subnet then stays reserved.
LEMMA CoreAllocateV6 ==
  ASSUME TypeInv, Core, NEW n \in Nodes, AllocateV6(n)
  PROVE  Core'
<1>0. /\ job[n].pc = "v6" /\ UNCHANGED <<exists, ann, created, events, phase, families>>
      /\ next \in [DOMAIN Ranges -> Nat] /\ job \in [Nodes -> JobSet] /\ "v6" \in families
      /\ phase = "up" /\ job[n] # NoJob
  BY Busy DEF AllocateV6, api, TypeInv, TypeOK, Running
<1>1. job[n].host = job[n].new /\ job[n].had = {}
  BY <1>0, IdleJob DEF Core, WholeSubnets, WholeJob
<1>2. PICK new \in SUBSET Active :
        /\ new \cap allocated = {} /\ allocated' = allocated \cup new
        /\ GiveUp(n) \/ Allocated(n, job[n].host, job[n].new \cup new, job[n].had)
  <2> DEFINE v6 == AllocateNetwork("v6", allocated, next)
  <2>1. v6.sub \in SUBSET Active /\ v6.sub \cap allocated = {}
    BY <1>0, AllocatesActive
  <2>2. /\ allocated' = allocated \cup v6.sub
        /\ GiveUp(n) \/ Allocated(n, job[n].host, job[n].new \cup v6.sub, job[n].had)
    BY DEF AllocateV6
  <2> HIDE DEF v6
  <2> QED BY <2>1, <2>2
<1> DEFINE all == job[n].new \cup new
<1>3. \/ job' = [job EXCEPT ![n] = NoJob]
      \/ /\ Cardinality(all) = Expected
         /\ job' = [job EXCEPT ![n] = [pc |-> "switch", host |-> all, new |-> all, had |-> {}]]
  <2>1. Expected - Cardinality({}) = Expected /\ Expected > 0 /\ job[n].host \cup all = all
    BY <1>1, FS_EmptySet DEF Expected
  <2> HIDE DEF all
  <2> QED BY <1>1, <1>2, <2>1 DEF Allocated, GiveUp, all
<1>4. /\ \A m \in Nodes : m # n => job'[m] = job[m]
      /\ \/ job'[n] = NoJob
         \/ /\ job'[n].host = all /\ job'[n].new = all /\ WholeJob(job'[n])
  BY <1>0, <1>3 DEF WholeJob
<1> HIDE DEF all
<1>5. \A m, s : Shows(m, s)' = Shows(m, s)
  BY <1>0, SameShows
<1>6. \A m \in Nodes, s \in Subnets : Claim(m, s)' => Claim(m, s) \/ (m = n /\ s \in new)
  BY <1>0, <1>1, <1>4, <1>5, IdleJob DEF Claim, all
<1>7. ClaimsReserved' /\ ClaimsDisjoint'
  BY <1>2, <1>6 DEF Core, ClaimsReserved, ClaimsDisjoint
<1>8. NewIsFresh'
  <2>1. ASSUME NEW m \in Nodes
        PROVE  /\ job'[m].new \subseteq job'[m].host
               /\ \A s \in job'[m].new, k \in Nodes : s \notin ann[k] /\ ~Shows(k, s)
    <3>1. CASE m # n
      BY <1>4, <3>1 DEF Core, NewIsFresh
    <3>2. CASE m = n /\ job'[n] = NoJob
      BY <3>2, IdleJob
    <3>3. CASE m = n /\ job'[n].new = all /\ job'[n].host = all
      <4>1. \A s \in new, k \in Nodes : s \notin ann[k] /\ ~Shows(k, s)
        BY <1>2 DEF Core, ClaimsReserved, Claim, Active
      <4> QED BY <3>3, <4>1 DEF Core, NewIsFresh, all
    <3> QED BY <1>4, <3>1, <3>2, <3>3
  <2> QED BY <1>0, <1>5, <2>1 DEF NewIsFresh
<1>9. WholeSubnets'
  <2>1. \A m \in Nodes : WholeJob(job'[m])
    BY <1>4 DEF Core, WholeSubnets, WholeJob
  <2> QED BY <1>0, <2>1, SameWhole DEF Core, WholeSubnets
<1>10. DeleteIsLast' /\ NothingYet'
  BY <1>0 DEF Core, DeleteIsLast, NothingYet
<1>11. WasCreated'
  BY <1>0, <1>4 DEF Core, WasCreated, Pending
<1> QED BY <1>7, <1>8, <1>9, <1>10, <1>11 DEF Core

\* addNode writes the annotation: the node's claim takes another form.
LEMMA CoreAnnotated ==
  ASSUME TypeInv, Core, NEW n \in Nodes, job[n].pc = "annotate", Patch(n, job[n].host),
         job' = [job EXCEPT ![n] = NoJob],
         UNCHANGED <<exists, created, phase, families, allocated>>
  PROVE  Core'
<1> DEFINE h == job[n].host
           e == Event("update", h)
<1>0. /\ n \in exists /\ ann' = [ann EXCEPT ![n] = h] /\ phase = "up" /\ job[n] # NoJob
      /\ IF ann[n] = h THEN UNCHANGED events ELSE Queue(n, e)
      /\ ann \in [Nodes -> SUBSET Subnets] /\ TypeOK /\ h \in SUBSET Subnets
  BY Busy DEF Patch, TypeInv, TypeOK, JobSet
<1>1. /\ job'[n] = NoJob /\ \A m \in Nodes : m # n => job'[m] = job[m]
      /\ Whole(h)
  <2>1. Whole(h)
    BY <1>0 DEF Core, WholeSubnets, WholeJob, Whole
  <2> QED BY <2>1 DEF TypeInv, TypeOK
<1>2. e \in EventSet /\ e.ann = h /\ e.kind = "update"
  BY <1>0, EventTypes
<1> HIDE DEF e
<1>3. /\ \A m \in Nodes : \A s : Shows(m, s)' => Shows(m, s) \/ (m = n /\ s \in h)
      /\ \A m \in Nodes : \A i \in DOMAIN events'[m] : Whole(events'[m][i].ann)
      /\ \A m \in Nodes : m # n => events'[m] = events[m]
      /\ DeleteIsLast'
  <2>1. CASE Queue(n, e)
    <3>1. \A i \in DOMAIN events[n] : events[n][i].kind # "delete"
      BY <1>0 DEF Core, DeleteIsLast
    <3>2. DeleteIsLast'
      BY <1>0, <1>2, <2>1, <3>1, DeleteQueued DEF Core
    <3>3. \A m \in Nodes : m # n => events'[m] = events[m]
      BY <1>0, <1>2, <2>1, Queued DEF TypeOK
    <3> QED BY <1>0, <1>1, <1>2, <2>1, <3>2, <3>3, ShowsQueued DEF Core
  <2>2. CASE UNCHANGED events
    BY <2>2, SameShows DEF Core, WholeSubnets, DeleteIsLast
  <2> QED BY <1>0, <2>1, <2>2
<1>5. ClaimsReserved' /\ ClaimsDisjoint'
  <2>1. \A m \in Nodes, s \in Subnets : Claim(m, s)' => Claim(m, s)
    BY <1>0, <1>1, <1>3, IdleJob DEF Claim
  <2> QED BY <2>1, ClaimsShrink DEF Core, ClaimsReserved
<1>6. NewIsFresh'
  <2>1. ASSUME NEW m \in Nodes, NEW s \in job'[m].new, NEW k \in Nodes
        PROVE  s \notin ann'[k] /\ ~Shows(k, s)'
    <3>1. m # n /\ s \in job[m].new /\ s \in job[m].host /\ s \in Subnets
      BY <1>1, <2>1, IdleJob DEF Core, NewIsFresh, TypeInv, TypeOK, JobSet
    <3>2. s \notin h
      BY <3>1 DEF Core, ClaimsDisjoint, Claim
    <3>3. s \notin ann[k] /\ ~Shows(k, s)
      BY <3>1 DEF Core, NewIsFresh
    <3> QED BY <1>0, <1>3, <3>2, <3>3
  <2>2. \A m \in Nodes : job'[m].new \subseteq job'[m].host
    BY <1>1, IdleJob DEF Core, NewIsFresh
  <2> QED BY <2>1, <2>2 DEF NewIsFresh
<1>7. WholeSubnets'
  <2>1. \A m \in Nodes : WholeJob(job'[m]) /\ Whole(ann'[m])
    BY <1>0, <1>1 DEF Core, WholeSubnets, WholeJob
  <2> QED BY <1>3, <2>1, SameWhole DEF WholeSubnets
<1>8. WasCreated'
  BY <1>0, <1>1, <1>3 DEF Core, WasCreated, Pending
<1>9. NothingYet'
  BY <1>0 DEF NothingYet
<1> QED BY <1>3, <1>5, <1>6, <1>7, <1>8, <1>9 DEF Core

\* The other steps of addNode.  A failing patch leaves the annotation as it was, as no
\* reply is lost.
LEMMA CoreAddNode ==
  ASSUME TypeInv, Core, Undisturbed, NEW n \in Nodes,
         EnsureSwitch(n) \/ EnsureCache(n) \/ Annotate(n)
  PROVE  Core'
<1>0. job[n] # NoJob /\ phase = "up" /\ job[n].pc # "v6"
  BY Busy DEF EnsureSwitch, EnsureCache, Annotate
<1>1. CASE EnsureSwitch(n)
  <2>1. UNCHANGED <<exists, ann, created, events, phase, families>>
    BY <1>1 DEF EnsureSwitch, api
  <2>2. CASE job' = [job EXCEPT ![n].pc = "cache"] /\ UNCHANGED allocated
    BY <1>0, <2>1, <2>2, CoreGoesOn
  <2>3. CASE AddNodeFails(n)
    BY <1>0, <2>1, <2>3, CoreFails
  <2> QED BY <1>1, <2>2, <2>3 DEF EnsureSwitch
<1>2. CASE EnsureCache(n)
  <2>1. UNCHANGED <<exists, ann, created, events, phase, families>>
    BY <1>2 DEF EnsureCache, api
  <2>2. CASE job' = [job EXCEPT ![n].pc = "annotate"] /\ UNCHANGED allocated
    BY <1>0, <2>1, <2>2, CoreGoesOn
  <2>3. CASE AddNodeFails(n)
    BY <1>0, <2>1, <2>3, CoreFails
  <2> QED BY <1>2, <2>2, <2>3 DEF EnsureCache
<1>3. CASE Annotate(n)
  <2>1. UNCHANGED <<exists, created, phase, families>> /\ job[n].pc = "annotate"
    BY <1>3 DEF Annotate
  <2>2. CASE Patch(n, job[n].host) /\ job' = [job EXCEPT ![n] = NoJob] /\ UNCHANGED allocated
    BY <2>1, <2>2, CoreAnnotated
  <2>3. CASE AddNodeFails(n) /\ UNCHANGED <<ann, events>>
    BY <1>0, <2>1, <2>3, CoreFails
  <2>4. CASE AddNodeFails(n) /\ Patch(n, ann[n])
    <3>1. UNCHANGED <<ann, events>>
      BY <2>4 DEF Patch, TypeInv, TypeOK
    <3> QED BY <2>3, <2>4, <3>1
  <2> QED BY <1>3, <2>2, <2>3, <2>4 DEF Annotate, Undisturbed
<1> QED BY <1>1, <1>2, <1>3

-----------------------------------------------------------------------------
(* The start of the master. *)

\* The nodes that wait for the handler have no subnets.
LEMMA CoreBoot ==
  ASSUME TypeInv, Core, StartClusterMaster \/ WatchNodes
  PROVE  Core'
<1>0. /\ phase # "up" /\ UNCHANGED <<exists, ann, created, job>>
      /\ allocated = {} /\ job = NoJobs /\ events = NoEvents
      /\ (\A n \in Nodes : ann[n] = {}) /\ exists \subseteq Nodes
  BY DEF StartClusterMaster, WatchNodes, api, Core, NothingYet, TypeInv, TypeOK
<1>1. allocated' = {}
  BY <1>0 DEF StartClusterMaster, WatchNodes, MarkedSubnets, DeleteStale
<1>2. /\ \A n \in Nodes : \A i \in DOMAIN events'[n] :
           events'[n][i].kind = "add" /\ events'[n][i].ann = {}
      /\ \A n \in Nodes : events'[n] # <<>> => n \in exists
      /\ phase' # "up" => events' = NoEvents
  <2>1. CASE StartClusterMaster
    <3>1. events' = NoEvents /\ \A n \in Nodes : events'[n] = <<>> /\ DOMAIN events'[n] = {}
      BY <2>1, <1>0, IdleJob DEF StartClusterMaster
    <3> QED BY <3>1
  <2>2. CASE WatchNodes
    <3>1. /\ phase' = "up"
          /\ events' = [n \in Nodes |-> IF n \in exists THEN <<Event("add", {})>> ELSE <<>>]
      BY <2>2, <1>0 DEF WatchNodes
    <3>2. \A n \in Nodes : \/ n \in exists /\ events'[n] = <<Event("add", {})>>
                           \/ n \notin exists /\ events'[n] = <<>>
      BY <3>1
    <3>3. Event("add", {}).kind = "add" /\ Event("add", {}).ann = {}
      BY EventTypes
    <3>4. \A n \in Nodes : \A i \in DOMAIN events'[n] : events'[n][i] = Event("add", {})
      BY <3>2
    <3> QED BY <3>1, <3>2, <3>3, <3>4
  <2> QED BY <2>1, <2>2
<1>j. \A n \in Nodes : job'[n] = NoJob
  BY <1>0, IdleJob
<1>3. \A n \in Nodes, s \in Subnets : ~Claim(n, s)'
  BY <1>0, <1>2, <1>j, IdleJob DEF Claim, Shows
<1>4. ClaimsReserved' /\ ClaimsDisjoint'
  BY <1>3 DEF ClaimsReserved, ClaimsDisjoint
<1>5. NewIsFresh' /\ WholeSubnets' /\ DeleteIsLast'
  BY <1>0, <1>2, <1>j, IdleJob DEF NewIsFresh, WholeSubnets, Whole, WholeJob, DeleteIsLast
<1>6. WasCreated'
  BY <1>0, <1>2, <1>j DEF Core, WasCreated, Pending
<1>7. NothingYet'
  BY <1>0, <1>1, <1>2 DEF NothingYet
<1> QED BY <1>4, <1>5, <1>6, <1>7 DEF Core

LEMMA CoreStutter == ASSUME Core, UNCHANGED vars PROVE Core'
<1>1. UNCHANGED <<exists, ann, created, events, phase, families, allocated, job>>
  BY DEF vars, api, mem
<1>2. \A n, s : Shows(n, s)' = Shows(n, s) /\ Claim(n, s)' = Claim(n, s)
  BY <1>1 DEF Shows, Claim
<1> QED BY <1>1, <1>2, SameWhole
        DEF Core, ClaimsReserved, ClaimsDisjoint, NewIsFresh, WholeSubnets,
            DeleteIsLast, WasCreated, Pending, NothingYet

LEMMA InvStep == Inv /\ [Next]_vars => Inv'
<1> SUFFICES ASSUME Inv, [Next]_vars, Undisturbed' PROVE Core'
  BY TypeStep DEF Inv
<1>0. TypeInv /\ env' = env
  BY DEF Inv, Next, HandleNode, CreateNode, DeleteNode, TouchNode, AddFunc, UpdateFunc, DeleteFunc,
         AllocateV6, EnsureSwitch, EnsureCache, Annotate, Crash, StartClusterMaster, WatchNodes,
         limits, vars
<1>1. Undisturbed /\ Core
  BY <1>0 DEF Inv, Undisturbed
<1>2. ASSUME NEW n \in Nodes, CreateNode(n) \/ DeleteNode(n) \/ TouchNode(n) PROVE Core'
  BY <1>0, <1>1, <1>2, CoreCreate, CoreDelete, CoreTouch
<1>3. ASSUME NEW n \in Nodes, AddFunc(n) PROVE Core'
  BY <1>0, <1>1, <1>3, CoreStart DEF AddFunc, Handles, api
<1>4. ASSUME NEW n \in Nodes, UpdateFunc(n) PROVE Core'
  <2>1. CASE n \in failed
    BY <1>0, <1>1, <1>4, <2>1, CoreStart DEF UpdateFunc, Handles, api
  <2>2. CASE n \notin failed
    BY <1>0, <1>1, <1>4, <2>2, CoreSkip DEF UpdateFunc, Handles, api
  <2> QED BY <2>1, <2>2
<1>5. ASSUME NEW n \in Nodes, DeleteFunc(n) \/ AllocateV6(n) PROVE Core'
  BY <1>0, <1>1, <1>5, CoreDeleteFunc, CoreAllocateV6
<1>6. ASSUME NEW n \in Nodes, EnsureSwitch(n) \/ EnsureCache(n) \/ Annotate(n) PROVE Core'
  BY <1>0, <1>1, <1>6, CoreAddNode
<1>7. CASE Crash
  <2>1. restarts < env.restarts /\ restarts \in 0 .. env.restarts /\ env.restarts = 0
    BY <1>0, <1>1, <1>7 DEF Crash, TypeInv, TypeOK, Undisturbed
  <2> QED BY <2>1
<1>8. CASE StartClusterMaster \/ WatchNodes
  BY <1>0, <1>1, <1>8, CoreBoot
<1>9. CASE UNCHANGED vars
  BY <1>1, <1>9, CoreStutter
<1> QED BY <1>2, <1>3, <1>4, <1>5, <1>6, <1>7, <1>8, <1>9 DEF Next, HandleNode

\* The threads of the node handler never give two nodes the same subnet and never
\* release one that is annotated, however many nodes come and go, at any time, and
\* whatever calls of addNode and deleteNode fail, in the environments that Undisturbed
\* describes.
THEOREM NoDoubleAssignment ==
  Spec => [](Undisturbed => DisjointSubnets /\ AnnotatedIsReserved)
<1>1. Init => Inv
  BY TypeInit, CoreInit DEF Inv
<1>2. Inv /\ [Next]_vars => Inv'
  BY InvStep
<1>3. Inv => (Undisturbed => DisjointSubnets /\ AnnotatedIsReserved)
  <2> SUFFICES ASSUME TypeOK, Core PROVE DisjointSubnets /\ AnnotatedIsReserved
    BY DEF Inv, TypeInv
  <2>1. \A n \in exists : n \in Nodes /\ ann[n] \subseteq Subnets
    BY DEF TypeOK
  <2>2. \A n \in exists, s \in Subnets : s \in ann[n] => Claim(n, s)
    BY DEF Claim
  <2>3. DisjointSubnets
    BY <2>1, <2>2 DEF DisjointSubnets, Core, ClaimsDisjoint
  <2>4. AnnotatedIsReserved
    BY <2>1, <2>2 DEF AnnotatedIsReserved, Core, ClaimsReserved
  <2> QED BY <2>3, <2>4
<1> QED BY <1>1, <1>2, <1>3, PTL DEF Spec

-----------------------------------------------------------------------------
(* What becomes of a node's subnets: the second invariant, on top of Core. *)

Fams(x) == {Fam(s) : s \in x}
One(x)  == \A s, t \in x : s = t

ToAdd(n) == \E i \in DOMAIN events[n] : events[n][i].kind = "add"
Bare(n)  == ann[n] = {} /\ \A i \in DOMAIN events[n] : events[n][i].ann = {}

\* An add waits alone.
AddIsFirst(n) ==
  \A i \in DOMAIN events[n] : events[n][i].kind = "add" => i = 1 /\ job[n] = NoJob

\* A node that addNode has yet to annotate has no subnets.
BareUntilAdded(n) == n \in failed \/ job[n] # NoJob \/ ToAdd(n) => Bare(n)

\* How far addNode has come.
JobProgress(n) ==
  /\ job[n].pc = "v6" => One(job[n].host) /\ \A s \in job[n].host : Fam(s) = "v4"
  /\ job[n].pc \in {"switch", "cache", "annotate"} => Fams(job[n].host) = families
  /\ job[n].pc \in {"cache", "annotate"} => switch[n] \cap Active = job[n].host
  /\ job[n].pc = "annotate" => lsm[n] = job[n].host

\* The node has a subnet per family, in OVN and in the cache as well.
Networked(n) == /\ Fams(ann[n]) = families
                /\ lsm[n] = ann[n] /\ switch[n] \cap Active = ann[n]

\* The handler forgets no node.
Attended(n) ==
  phase = "up" /\ n \in exists => ToAdd(n) \/ job[n] # NoJob \/ n \in failed \/ Networked(n)

NodeNet(n) == AddIsFirst(n) /\ BareUntilAdded(n) /\ JobProgress(n) /\ Attended(n)

\* A subnet is on its way to n, at n, or on its way back from n.
Held(n, s) == \/ s \in ann[n] \/ s \in job[n].new
              \/ \E i \in DOMAIN events[n] : events[n][i].kind = "delete" /\ s \in events[n][i].ann

\* With one IP family, nothing else is reserved.
NothingLost == Expected = 1 => \A s \in allocated : \E n \in Nodes : Held(n, s)

Net == NothingLost /\ \A n \in Nodes : NodeNet(n)

-----------------------------------------------------------------------------
\* Nothing of the node m changes.
SameNode(m) ==
  /\ ann'[m] = ann[m] /\ events'[m] = events[m] /\ job'[m] = job[m]
  /\ lsm'[m] = lsm[m] /\ switch'[m] = switch[m]
  /\ m \in failed' <=> m \in failed
  /\ m \in exists' <=> m \in exists

LEMMA NodeFrame ==
  ASSUME NEW m, SameNode(m), UNCHANGED <<phase, families>>
  PROVE  /\ NodeNet(m) => NodeNet(m)'
         /\ \A s : Held(m, s)' = Held(m, s)
<1>1. /\ ToAdd(m)' = ToAdd(m) /\ Active' = Active
      /\ Bare(m)' = Bare(m) /\ Networked(m)' = Networked(m)
  BY DEF SameNode, ToAdd, Bare, Networked, Active, Fams
<1>2. AddIsFirst(m) => AddIsFirst(m)'
  BY DEF SameNode, AddIsFirst
<1>3. BareUntilAdded(m) => BareUntilAdded(m)'
  BY <1>1 DEF SameNode, BareUntilAdded
<1>4. JobProgress(m) => JobProgress(m)'
  BY <1>1 DEF SameNode, JobProgress
<1>5. Attended(m) => Attended(m)'
  BY <1>1 DEF SameNode, Attended
<1>6. \A s : Held(m, s)' = Held(m, s)
  BY DEF SameNode, Held
<1> QED BY <1>2, <1>3, <1>4, <1>5, <1>6 DEF NodeNet

\* A step that concerns the node n only.
LEMMA NetStep ==
  ASSUME Net, NEW n \in Nodes, UNCHANGED <<phase, families>>,
         \A m \in Nodes : m # n => SameNode(m),
         NodeNet(n)',
         Expected = 1 => \A s \in allocated' : Held(n, s)' \/ (s \in allocated /\ ~Held(n, s))
  PROVE  Net'
<1>1. \A m \in Nodes : NodeNet(m)'
  BY NodeFrame DEF Net
<1>2. NothingLost'
  <2> SUFFICES ASSUME Expected = 1, NEW s \in allocated' PROVE \E m \in Nodes : Held(m, s)'
    BY DEF NothingLost, Expected
  <2>1. CASE Held(n, s)'
    BY <2>1
  <2>2. CASE s \in allocated /\ ~Held(n, s)
    <3>1. PICK m \in Nodes : Held(m, s)
      BY <2>2 DEF Net, NothingLost
    <3>2. m # n
      BY <2>2, <3>1
    <3>3. Held(m, s)'
      BY <3>1, <3>2, NodeFrame
    <3> QED BY <3>3
  <2> QED BY <2>1, <2>2
<1> QED BY <1>1, <1>2 DEF Net

LEMMA NetInit == Init => Net
<1> SUFFICES ASSUME Init PROVE Net
  OBVIOUS
<1>1. /\ exists = {} /\ allocated = {} /\ failed = {}
      /\ \A n \in Nodes : ann[n] = {} /\ events[n] = <<>> /\ job[n] = NoJob /\ DOMAIN events[n] = {}
  BY IdleJob DEF Init, NoSubnet
<1>2. \A n \in Nodes : NodeNet(n)
  BY <1>1, IdleJob DEF NodeNet, AddIsFirst, BareUntilAdded, ToAdd, JobProgress, Attended
<1> QED BY <1>1, <1>2 DEF Net, NothingLost

\* What is queued, seen from the invariant.
LEMMA NetQueued ==
  ASSUME TypeOK, NEW n \in Nodes, NEW e \in EventSet, Queue(n, e)
  PROVE  /\ \A m \in Nodes : m # n => events'[m] = events[m]
         /\ DOMAIN events[n] = {} => \A i \in DOMAIN events'[n] : i = 1
         /\ \E i \in DOMAIN events'[n] : events'[n][i] = e
         /\ \A i \in DOMAIN events[n] : i \in DOMAIN events'[n] /\ events'[n][i] = events[n][i]
         /\ \A i \in DOMAIN events'[n] :
              (i \in DOMAIN events[n] /\ events'[n][i] = events[n][i]) \/ events'[n][i] = e
<1>1. events \in [Nodes -> Seq(EventSet)] /\ events[n] \in Seq(EventSet)
  BY DEF TypeOK
<1>2. events'[n] = Append(events[n], e) /\ \A m \in Nodes : m # n => events'[m] = events[m]
  BY <1>1 DEF Queue
<1>3. /\ DOMAIN events[n] = {} => \A i \in DOMAIN Append(events[n], e) : i = 1
      /\ Len(events[n]) + 1 \in DOMAIN Append(events[n], e)
      /\ Append(events[n], e)[Len(events[n]) + 1] = e
      /\ \A i \in DOMAIN events[n] : i \in DOMAIN Append(events[n], e)
                                     /\ Append(events[n], e)[i] = events[n][i]
  <2>1. \A q \in Seq(EventSet) :
          /\ DOMAIN q = 1 .. Len(q) /\ Len(q) \in Nat /\ DOMAIN Append(q, e) = 1 .. Len(q) + 1
          /\ Append(q, e)[Len(q) + 1] = e
          /\ \A i \in 1 .. Len(q) : Append(q, e)[i] = q[i]
    OBVIOUS
  <2> DEFINE k == Len(events[n])
  <2>2. /\ DOMAIN events[n] = 1 .. k /\ k \in Nat /\ DOMAIN Append(events[n], e) = 1 .. k + 1
        /\ Append(events[n], e)[k + 1] = e
        /\ \A i \in 1 .. k : Append(events[n], e)[i] = events[n][i]
    BY <1>1, <2>1
  <2> HIDE DEF k
  <2>3. k # 0 => 1 \in 1 .. k
    BY <2>2
  <2>4. DOMAIN events[n] = {} => k = 0
    BY <2>2, <2>3
  <2>5. \A i \in 1 .. k : i \in 1 .. k + 1
    BY <2>2
  <2>6. k + 1 \in 1 .. k + 1 /\ (k = 0 => \A i \in 1 .. k + 1 : i = 1)
    BY <2>2
  <2> QED BY <2>2, <2>4, <2>5, <2>6 DEF k
<1> QED BY <1>1, <1>2, <1>3, AppendElements

\* A name is used again when nothing is left of its last node.
LEMMA NothingPending ==
  ASSUME TypeInv, Core, Undisturbed, NEW n \in Nodes, CreateNode(n)
  PROVE  job[n] = NoJob /\ events[n] = <<>> /\ DOMAIN events[n] = {} /\ ann[n] = {}
<1>1. ~Pending(n)
  <2>1. CASE created[n] > 0
    BY <2>1 DEF CreateNode, Undisturbed
  <2>2. CASE ~(created[n] > 0)
    BY <2>2 DEF Core, WasCreated
  <2> QED BY <2>1, <2>2
<1> QED BY <1>1 DEF Pending, CreateNode, TypeInv, TypeOK

LEMMA NetCreate ==
  ASSUME TypeInv, Core, Net, Undisturbed, NEW n \in Nodes, CreateNode(n)
  PROVE  Net'
<1> DEFINE e == Event("add", {})
<1>0. /\ UNCHANGED <<ann, phase, families, allocated, job, lsm, switch, failed>>
      /\ exists' = exists \cup {n}
      /\ IF phase = "up" THEN Queue(n, e) ELSE UNCHANGED events
      /\ TypeOK
  BY DEF CreateNode, Emit, mem, TypeInv
<1>1. e \in EventSet /\ e.ann = {} /\ e.kind = "add"
  BY EventTypes
<1>2. job[n] = NoJob /\ events[n] = <<>> /\ DOMAIN events[n] = {} /\ ann[n] = {}
  BY NothingPending
<1> HIDE DEF e
<1>3. /\ \A m \in Nodes : m # n => events'[m] = events[m]
      /\ \A i \in DOMAIN events'[n] : i = 1 /\ events'[n][i] = e
      /\ phase = "up" => ToAdd(n)'
  <2>1. CASE phase = "up"
    BY <1>0, <1>1, <1>2, <2>1, NetQueued DEF ToAdd
  <2>2. CASE phase # "up"
    BY <1>0, <1>2, <2>2
  <2> QED BY <2>1, <2>2
<1>4. \A m \in Nodes : m # n => SameNode(m)
  BY <1>0, <1>3 DEF SameNode
<1>5. NodeNet(n)'
  <2>1. AddIsFirst(n)' /\ BareUntilAdded(n)' /\ Attended(n)'
    BY <1>0, <1>1, <1>2, <1>3 DEF AddIsFirst, BareUntilAdded, Bare, Attended
  <2>2. JobProgress(n)'
    BY <1>0, <1>2, IdleJob DEF JobProgress
  <2> QED BY <2>1, <2>2 DEF NodeNet
<1>6. \A s : ~Held(n, s)
  BY <1>2, IdleJob DEF Held
<1> QED BY <1>0, <1>4, <1>5, <1>6, NetStep

LEMMA NetDelete ==
  ASSUME TypeInv, Core, Net, NEW n \in Nodes, DeleteNode(n)
  PROVE  Net'
<1> DEFINE e == Event("delete", ann[n])
<1>0. /\ UNCHANGED <<phase, families, allocated, job, lsm, switch, failed>>
      /\ exists' = exists \ {n} /\ n \in exists
      /\ IF phase = "up" THEN Queue(n, e) ELSE UNCHANGED events
      /\ ann' = [ann EXCEPT ![n] = {}]
      /\ TypeOK /\ ann \in [Nodes -> SUBSET Subnets]
  BY DEF DeleteNode, Emit, mem, TypeInv, TypeOK
<1>1. e \in EventSet /\ e.ann = ann[n] /\ e.kind = "delete"
  BY <1>0, EventTypes
<1> HIDE DEF e
<1>2. ann'[n] = {} /\ \A m \in Nodes : m # n => ann'[m] = ann[m]
  BY <1>0
<1>3. /\ \A m \in Nodes : m # n => events'[m] = events[m]
      /\ \A i \in DOMAIN events[n] : i \in DOMAIN events'[n] /\ events'[n][i] = events[n][i]
      /\ \A i \in DOMAIN events'[n] :
           (i \in DOMAIN events[n] /\ events'[n][i] = events[n][i]) \/ events'[n][i] = e
      /\ phase = "up" => \E i \in DOMAIN events'[n] : events'[n][i] = e
  <2>1. CASE phase = "up"
    BY <1>0, <1>1, <2>1, NetQueued
  <2>2. CASE phase # "up"
    BY <1>0, <2>2
  <2> QED BY <2>1, <2>2
<1>4. \A m \in Nodes : m # n => SameNode(m)
  BY <1>0, <1>2, <1>3 DEF SameNode
<1>5. NodeNet(n)'
  <2>1. AddIsFirst(n)'
    BY <1>0, <1>1, <1>3 DEF Net, NodeNet, AddIsFirst
  <2>2. ToAdd(n)' => ToAdd(n)
    BY <1>1, <1>3 DEF ToAdd
  <2>3. BareUntilAdded(n)'
    BY <1>0, <1>1, <1>2, <1>3, <2>2 DEF Net, NodeNet, BareUntilAdded, Bare
  <2>4. JobProgress(n)'
    BY <1>0 DEF Net, NodeNet, JobProgress, Active
  <2>5. Attended(n)'
    BY <1>0 DEF Attended
  <2> QED BY <2>1, <2>3, <2>4, <2>5 DEF NodeNet
<1>6. \A s \in allocated' : Held(n, s) => Held(n, s)'
  <2>1. CASE phase = "up"
    BY <1>0, <1>1, <1>3, <2>1 DEF Held
  <2>2. CASE phase # "up"
    BY <1>0, <2>2 DEF Core, NothingYet
  <2> QED BY <2>1, <2>2
<1> QED BY <1>0, <1>4, <1>5, <1>6, NetStep

LEMMA NetTouch ==
  ASSUME TypeInv, Core, Net, NEW n \in Nodes, TouchNode(n)
  PROVE  Net'
<1> DEFINE e == Event("update", ann[n])
<1>0. /\ UNCHANGED <<exists, ann, phase, families, allocated, job, lsm, switch, failed>>
      /\ Queue(n, e) /\ TypeOK /\ ann[n] \in SUBSET Subnets
  BY DEF TouchNode, api, mem, TypeInv, TypeOK
<1>1. e \in EventSet /\ e.ann = ann[n] /\ e.kind = "update"
  BY <1>0, EventTypes
<1> HIDE DEF e
<1>2. /\ \A m \in Nodes : m # n => events'[m] = events[m]
      /\ \A i \in DOMAIN events[n] : i \in DOMAIN events'[n] /\ events'[n][i] = events[n][i]
      /\ \A i \in DOMAIN events'[n] :
           (i \in DOMAIN events[n] /\ events'[n][i] = events[n][i]) \/ events'[n][i] = e
  BY <1>0, <1>1, NetQueued
<1>3. \A m \in Nodes : m # n => SameNode(m)
  BY <1>0, <1>2 DEF SameNode
<1>4. ToAdd(n)' <=> ToAdd(n)
  BY <1>1, <1>2 DEF ToAdd
<1>5. NodeNet(n)'
  <2>1. AddIsFirst(n)'
    BY <1>0, <1>1, <1>2 DEF Net, NodeNet, AddIsFirst
  <2>2. BareUntilAdded(n)'
    BY <1>0, <1>1, <1>2, <1>4 DEF Net, NodeNet, BareUntilAdded, Bare
  <2>3. JobProgress(n)'
    BY <1>0 DEF Net, NodeNet, JobProgress, Active
  <2>4. Attended(n)'
    BY <1>0, <1>4 DEF Net, NodeNet, Attended, Networked, Active
  <2> QED BY <2>1, <2>2, <2>3, <2>4 DEF NodeNet
<1>6. \A s \in allocated' : Held(n, s) => Held(n, s)'
  BY <1>0, <1>2 DEF Held
<1> QED BY <1>0, <1>3, <1>5, <1>6, NetStep

-----------------------------------------------------------------------------
(* The threads of the node handler again. *)

\* The handler takes the first event: no add is left, and a delete is only lost if
\* it is the one taken.
LEMMA NetTaken ==
  ASSUME TypeOK, NEW n \in Nodes, AddIsFirst(n), events[n] # <<>>, Taken(n)
  PROVE  /\ \A m \in Nodes : m # n => events'[m] = events[m]
         /\ 1 \in DOMAIN events[n] /\ Head(events[n]) = events[n][1]
         /\ \A i \in DOMAIN events'[n] :
              \E j \in DOMAIN events[n] : events'[n][i] = events[n][j]
         /\ \A j \in DOMAIN events[n] :
              j = 1 \/ \E i \in DOMAIN events'[n] : events'[n][i] = events[n][j]
         /\ ~ToAdd(n)'
<1>0. events \in [Nodes -> Seq(EventSet)] /\ events[n] \in Seq(EventSet)
  BY DEF TypeOK
<1>1. /\ \A m \in Nodes : m # n => events'[m] = events[m]
      /\ 1 \in DOMAIN events[n] /\ Head(events[n]) = events[n][1]
      /\ \A i \in DOMAIN events'[n] : /\ i \in Nat /\ i > 0 /\ i + 1 \in DOMAIN events[n]
                                      /\ events'[n][i] = events[n][i + 1]
  BY <1>0, QueueTaken
<1>2. ASSUME NEW j \in DOMAIN events[n], j # 1
      PROVE  \E i \in DOMAIN events'[n] : events'[n][i] = events[n][j]
  <2> DEFINE k == Len(events[n])
  <2>1. k \in Nat /\ DOMAIN events[n] = 1 .. k /\ Len(events'[n]) = k - 1
    BY <1>0, QueueTaken
  <2>2. events'[n] \in Seq(EventSet)
    BY <1>0, QueueTaken
  <2>3. DOMAIN events'[n] = 1 .. k - 1
    BY <2>1, <2>2
  <2> HIDE DEF k
  <2>4. j \in 1 .. k /\ j - 1 \in 1 .. k - 1 /\ (j - 1) + 1 = j
    BY <1>2, <2>1
  <2>5. j - 1 \in DOMAIN events'[n] /\ events'[n][j - 1] = events[n][j]
    BY <1>1, <2>3, <2>4
  <2> QED BY <2>5
<1>3. ~ToAdd(n)'
  <2> SUFFICES ASSUME NEW i \in DOMAIN events'[n], events'[n][i].kind = "add" PROVE FALSE
    BY DEF ToAdd
  <2>1. i \in Nat /\ i > 0 /\ i + 1 \in DOMAIN events[n] /\ events[n][i + 1].kind = "add"
    BY <1>1
  <2> QED BY <2>1 DEF AddIsFirst
<1> QED BY <1>1, <1>2, <1>3

\* A set of at most one element, by its size.
LEMMA OneByOne ==
  ASSUME NEW x, One(x)
  PROVE  x = {} \/ Cardinality(x) = 1
<1> SUFFICES ASSUME x # {} PROVE Cardinality(x) = 1
  OBVIOUS
<1>1. PICK s : s \in x
  OBVIOUS
<1>2. x = {s}
  BY <1>1 DEF One
<1> QED BY <1>2, FS_Singleton

\* AllocateIPv4Network and AllocateIPv6Network return one subnet, or none and perhaps
\* an error.
LEMMA AllocatesOne ==
  ASSUME NEW f, NEW al, NEW nx
  PROVE  LET a == AllocateNetwork(f, al, nx) IN One(a.sub) /\ (a.err => a.sub = {})
<1> DEFINE rs   == {r \in DOMAIN Ranges : Ranges[r].fam = f}
           open == {r \in rs : FreeIn(r, al) # {}}
           r    == CHOOSE q \in open : \A p \in open : q <= p
           i    == allocateNetwork(r, al, nx)
           a    == AllocateNetwork(f, al, nx)
<1>1. CASE open # {}
  <2>1. a = [sub |-> {<<r, i>>}, err |-> FALSE,
             next |-> [q \in DOMAIN Ranges |-> IF q = r THEN i + 1
                                               ELSE IF q \in rs /\ q < r THEN 0 ELSE nx[q]]]
    BY <1>1, Zenon DEF AllocateNetwork
  <2> HIDE DEF r, i, a, rs, open
  <2>2. a.sub = {<<r, i>>} /\ a.err = FALSE
    BY <2>1
  <2> QED BY <2>2 DEF a, One
<1>2. CASE open = {}
  <2>1. a = [sub |-> {}, err |-> rs # {},
             next |-> [q \in DOMAIN Ranges |-> IF q \in rs THEN 0 ELSE nx[q]]]
    BY <1>2, Zenon DEF AllocateNetwork
  <2> HIDE DEF a, rs, open
  <2>2. a.sub = {}
    BY <2>1
  <2> QED BY <2>2 DEF a, One
<1> QED BY <1>1, <1>2

LEMMA FamilyNames ==
  ASSUME TypeInv
  PROVE  /\ families \subseteq {"v4", "v6"} /\ families # {}
         /\ Expected = IF families = {"v4", "v6"} THEN 2 ELSE 1
BY ConfigsAssumption DEF TypeInv, TypeOK, Expected

\* addNode starts for a node without subnets.
LEMMA StartsBare ==
  ASSUME TypeInv, NEW n \in Nodes, AllocateV4(n, {})
  PROVE  \E new \in SUBSET Active :
           /\ One(new) /\ \A s \in new : Fam(s) = "v4"
           /\ allocated' = allocated \cup new
           /\ \/ GiveUp(n) /\ (Expected = 1 => new = {})
              \/ /\ families = {"v4"} /\ new # {} /\ UNCHANGED failed
                 /\ job' = [job EXCEPT ![n] = [pc |-> "switch", host |-> new,
                                               new |-> new, had |-> {}]]
              \/ /\ "v6" \in families /\ UNCHANGED failed
                 /\ job' = [job EXCEPT ![n] = [pc |-> "v6", host |-> new,
                                               new |-> new, had |-> {}]]
<1> DEFINE A4 == IF Lacks("v4", {}) THEN AllocateNetwork("v4", allocated, next)
                                    ELSE NothingToAllocate(next)
           End(v4) ==
             CASE v4.err -> GiveUp(n)
               [] ~v4.err /\ ~Lacks("v6", {}) -> Allocated(n, {}, v4.sub, {})
               [] ~v4.err /\ Lacks("v6", {}) ->
                    /\ job' = [job EXCEPT ![n] = [pc |-> "v6", host |-> {} \cup v4.sub,
                                                  new |-> v4.sub, had |-> {}]]
                    /\ UNCHANGED failed
<1>1. Keep({}) = {} /\ Unwanted({}) = {} /\ allocated \ {} = allocated
  BY KeepsOwn DEF Unwanted
<1>2. Cardinality({}) = 0 /\ Cardinality({}) # Expected
  BY FS_EmptySet DEF Expected
<1>3. allocated' = allocated \cup A4.sub /\ End(A4)
  BY <1>1, <1>2, Zenon DEF AllocateV4
<1>4. A4.sub \in SUBSET Active /\ One(A4.sub) /\ (A4.err => A4.sub = {})
      /\ \A s \in A4.sub : Fam(s) = "v4"
  <2>1. CASE Lacks("v4", {})
    <3>1. "v4" \in families /\ next \in [DOMAIN Ranges -> Nat]
      BY <2>1 DEF Lacks, TypeInv, TypeOK
    <3> DEFINE v4 == AllocateNetwork("v4", allocated, next)
    <3>2. v4.sub \in SUBSET Active /\ One(v4.sub) /\ (v4.err => v4.sub = {})
          /\ \A s \in v4.sub : Fam(s) = "v4"
      BY <3>1, AllocatesActive, AllocatesOne, AllocatesFree
    <3> QED BY <2>1, <3>2
  <2>2. CASE ~Lacks("v4", {})
    BY <2>2 DEF NothingToAllocate, One
  <2> QED BY <2>1, <2>2
<1> DEFINE new == A4.sub
<1>5. \/ GiveUp(n) /\ (Expected = 1 => new = {})
      \/ /\ families = {"v4"} /\ new # {} /\ UNCHANGED failed
         /\ job' = [job EXCEPT ![n] = [pc |-> "switch", host |-> new, new |-> new, had |-> {}]]
      \/ /\ "v6" \in families /\ UNCHANGED failed
         /\ job' = [job EXCEPT ![n] = [pc |-> "v6", host |-> new, new |-> new, had |-> {}]]
  <2> HIDE DEF A4
  <2>1. {} \cup new = new
    OBVIOUS
  <2>2. CASE A4.err
    BY <1>3, <1>4, <2>2
  <2>3. CASE ~A4.err /\ Lacks("v6", {})
    BY <1>3, <2>1, <2>3 DEF Lacks
  <2>4. CASE ~A4.err /\ ~Lacks("v6", {})
    <3>1. families = {"v4"} /\ Expected = 1
      BY <2>4, FamilyNames DEF Lacks
    <3>a. Allocated(n, {}, new, {})
      BY <1>3, <2>4, Zenon
    <3>2. Allocated(n, {}, new, {}) /\ Expected - Cardinality({}) = 1
      BY <1>2, <3>1, <3>a
    <3>3. new = {} \/ Cardinality(new) = 1
      BY <1>4, OneByOne
    <3> HIDE DEF new
    <3>4. CASE Cardinality(new) = 1
      <4>1. new # {}
        BY <1>2, <3>4
      <4> QED BY <2>1, <3>1, <3>2, <3>4, <4>1 DEF Allocated
    <3>5. CASE new = {}
      BY <1>2, <3>1, <3>2, <3>5 DEF Allocated
    <3> QED BY <3>3, <3>4, <3>5
  <2> QED BY <2>2, <2>3, <2>4
<1> HIDE DEF A4
<1> QED BY <1>3, <1>4, <1>5

\* The subnets that a job lays claim to are of the configured families.
LEMMA HostIsActive ==
  ASSUME TypeInv, Core, NEW n \in Nodes
  PROVE  job[n].host \subseteq Active /\ job[n].host \subseteq Subnets /\ job[n].new \subseteq job[n].host
<1>1. job[n].host \subseteq Subnets /\ allocated \subseteq Active
  BY DEF TypeInv, TypeOK, JobSet
<1> QED BY <1>1 DEF Core, ClaimsReserved, Claim, NewIsFresh

LEMMA NetStart ==
  ASSUME TypeInv, Core, Net, NEW n \in Nodes, job[n] = NoJob, events[n] # <<>>, Taken(n),
         n \in failed \/ Head(events[n]).kind = "add",
         AllocateV4(n, Head(events[n]).ann), UNCHANGED <<exists, ann, phase, families, lsm, switch>>
  PROVE  Net'
<1>0. NodeNet(n) /\ TypeOK /\ job \in [Nodes -> JobSet]
  BY DEF Net, TypeInv, TypeOK
<1>1. /\ \A m \in Nodes : m # n => events'[m] = events[m]
      /\ 1 \in DOMAIN events[n] /\ Head(events[n]) = events[n][1]
      /\ \A i \in DOMAIN events'[n] :
           \E j \in DOMAIN events[n] : events'[n][i] = events[n][j]
      /\ ~ToAdd(n)'
  BY <1>0, NetTaken DEF NodeNet
<1>2. Bare(n)
  BY <1>0, <1>1 DEF NodeNet, BareUntilAdded, ToAdd
<1>3. Head(events[n]).ann = {}
  BY <1>1, <1>2 DEF Bare
<1>4. PICK new \in SUBSET Active :
        /\ One(new) /\ \A s \in new : Fam(s) = "v4"
        /\ allocated' = allocated \cup new
        /\ \/ GiveUp(n) /\ (Expected = 1 => new = {})
           \/ /\ families = {"v4"} /\ new # {} /\ UNCHANGED failed
              /\ job' = [job EXCEPT ![n] = [pc |-> "switch", host |-> new,
                                            new |-> new, had |-> {}]]
           \/ /\ "v6" \in families /\ UNCHANGED failed
              /\ job' = [job EXCEPT ![n] = [pc |-> "v6", host |-> new,
                                            new |-> new, had |-> {}]]
  BY <1>3, StartsBare
<1>5. /\ \A m \in Nodes : m # n => job'[m] = job[m] /\ (m \in failed' <=> m \in failed)
      /\ \/ job'[n] = NoJob /\ n \in failed' /\ (Expected = 1 => new = {})
         \/ /\ families = {"v4"} /\ new # {}
            /\ job'[n] = [pc |-> "switch", host |-> new, new |-> new, had |-> {}]
         \/ job'[n] = [pc |-> "v6", host |-> new, new |-> new, had |-> {}]
  BY <1>0, <1>4 DEF GiveUp
<1>6. \A m \in Nodes : m # n => SameNode(m)
  BY <1>1, <1>5 DEF SameNode
<1>7. NodeNet(n)'
  <2>1. AddIsFirst(n)'
    BY <1>1 DEF AddIsFirst, ToAdd
  <2>2. BareUntilAdded(n)'
    <3>1. Bare(n)'
      BY <1>1, <1>2 DEF Bare
    <3> QED BY <3>1 DEF BareUntilAdded
  <2>3. JobProgress(n)'
    <3>1. CASE job'[n] = NoJob
      BY <3>1, IdleJob DEF JobProgress
    <3>2. CASE /\ families = {"v4"} /\ new # {}
               /\ job'[n] = [pc |-> "switch", host |-> new, new |-> new, had |-> {}]
      <4>1. Fams(new) = families
        BY <1>4, <3>2 DEF Fams
      <4> QED BY <3>2, <4>1 DEF JobProgress, Fams
    <3>3. CASE job'[n] = [pc |-> "v6", host |-> new, new |-> new, had |-> {}]
      BY <1>4, <3>3 DEF JobProgress
    <3> QED BY <1>5, <3>1, <3>2, <3>3
  <2>4. Attended(n)'
    <3>1. n \in failed' \/ job'[n].pc \in {"switch", "v6"}
      BY <1>5
    <3> QED BY <3>1, IdleJob DEF Attended
  <2> QED BY <2>1, <2>2, <2>3, <2>4 DEF NodeNet
<1>8. \A s : ~Held(n, s)
  BY <1>2, IdleJob DEF Held, Bare
<1>9. Expected = 1 => \A s \in new : s \in job'[n].new
  BY <1>5
<1>10. Expected = 1 => \A s \in allocated' : Held(n, s)' \/ (s \in allocated /\ ~Held(n, s))
  BY <1>4, <1>8, <1>9 DEF Held
<1> QED BY <1>6, <1>7, <1>10, NetStep

LEMMA NetSkip ==
  ASSUME TypeInv, Core, Net, NEW n \in Nodes, job[n] = NoJob, events[n] # <<>>, Taken(n),
         Head(events[n]).kind = "update", n \notin failed,
         UNCHANGED <<exists, ann, phase, families, allocated, job, failed, lsm, switch>>
  PROVE  Net'
<1>0. NodeNet(n) /\ TypeOK
  BY DEF Net, TypeInv
<1>1. /\ \A m \in Nodes : m # n => events'[m] = events[m]
      /\ 1 \in DOMAIN events[n] /\ Head(events[n]) = events[n][1]
      /\ \A i \in DOMAIN events'[n] :
           \E j \in DOMAIN events[n] : events'[n][i] = events[n][j]
      /\ \A j \in DOMAIN events[n] :
           j = 1 \/ \E i \in DOMAIN events'[n] : events'[n][i] = events[n][j]
      /\ ~ToAdd(n)'
  BY <1>0, NetTaken DEF NodeNet
<1>2. ~ToAdd(n)
  BY <1>0, <1>1 DEF NodeNet, AddIsFirst, ToAdd
<1>3. \A m \in Nodes : m # n => SameNode(m)
  BY <1>1 DEF SameNode
<1>4. NodeNet(n)'
  <2>1. AddIsFirst(n)' /\ BareUntilAdded(n)'
    BY <1>1 DEF AddIsFirst, BareUntilAdded, ToAdd
  <2>2. JobProgress(n)'
    BY IdleJob DEF JobProgress
  <2>3. Attended(n)'
    BY <1>0, <1>2 DEF NodeNet, Attended, Networked, Active
  <2> QED BY <2>1, <2>2, <2>3 DEF NodeNet
<1>5. \A s : Held(n, s) => Held(n, s)'
  BY <1>1 DEF Held
<1> QED BY <1>3, <1>4, <1>5, NetStep

LEMMA NetDeleteFunc ==
  ASSUME TypeInv, Core, Net, NEW n \in Nodes, DeleteFunc(n)
  PROVE  Net'
<1>0. /\ NodeNet(n) /\ TypeOK /\ events[n] # <<>> /\ Taken(n) /\ job[n] = NoJob
      /\ Head(events[n]).kind = "delete" /\ allocated' = allocated \ Head(events[n]).ann
      /\ UNCHANGED <<exists, ann, phase, families, job>> /\ failed' = failed \ {n}
      /\ lsm' = [lsm EXCEPT ![n] = {}]
      /\ switch' = [switch EXCEPT ![n] = {}] \/ UNCHANGED switch
  BY DEF Net, TypeInv, DeleteFunc, Handles, api
<1>1. /\ \A m \in Nodes : m # n => events'[m] = events[m]
      /\ 1 \in DOMAIN events[n] /\ Head(events[n]) = events[n][1]
      /\ \A j \in DOMAIN events[n] :
           j = 1 \/ \E i \in DOMAIN events'[n] : events'[n][i] = events[n][j]
      /\ ~ToAdd(n)'
  BY <1>0, NetTaken DEF NodeNet
<1>2. n \notin exists
  BY <1>0, <1>1 DEF Core, DeleteIsLast
<1>3. \A m \in Nodes : m # n => SameNode(m)
  BY <1>0, <1>1 DEF SameNode, TypeOK
<1>4. NodeNet(n)'
  <2>1. AddIsFirst(n)' /\ BareUntilAdded(n)'
    BY <1>0, <1>1 DEF AddIsFirst, BareUntilAdded, ToAdd
  <2>2. JobProgress(n)'
    BY <1>0, IdleJob DEF JobProgress
  <2>3. Attended(n)'
    BY <1>0, <1>2 DEF Attended
  <2> QED BY <2>1, <2>2, <2>3 DEF NodeNet
<1>5. ASSUME NEW s \in allocated', Held(n, s) PROVE Held(n, s)'
  <2>1. CASE s \in ann[n] \/ s \in job[n].new
    BY <1>0, <2>1 DEF Held
  <2>2. CASE \E i \in DOMAIN events[n] : events[n][i].kind = "delete" /\ s \in events[n][i].ann
    <3>1. PICK j \in DOMAIN events[n] : events[n][j].kind = "delete" /\ s \in events[n][j].ann
      BY <2>2
    <3>2. j # 1
      BY <1>0, <1>1, <3>1
    <3> QED BY <1>1, <3>1, <3>2 DEF Held
  <2> QED BY <1>5, <2>1, <2>2 DEF Held
<1> QED BY <1>0, <1>3, <1>4, <1>5, NetStep

\* addNode gives up, or goes on, and leaves the API server and the queues alone.
LEMMA NetBusy ==
  ASSUME TypeInv, Net, NEW n \in Nodes, job[n] # NoJob, UNCHANGED <<exists, ann, events, phase, families>>,
         n \in failed' \/ job'[n] # NoJob, JobProgress(n)'
  PROVE  NodeNet(n)'
<1>1. NodeNet(n)
  BY DEF Net
<1>2. ~ToAdd(n) /\ Bare(n) /\ ToAdd(n)' = ToAdd(n) /\ Bare(n)' = Bare(n)
  BY <1>1 DEF NodeNet, AddIsFirst, BareUntilAdded, ToAdd, Bare
<1>3. AddIsFirst(n)' /\ BareUntilAdded(n)' /\ Attended(n)'
  BY <1>2 DEF AddIsFirst, BareUntilAdded, Attended, ToAdd
<1> QED BY <1>3 DEF NodeNet

LEMMA NetFails ==
  ASSUME TypeInv, Core, Net, NEW n \in Nodes, job[n] # NoJob, AddNodeFails(n),
         UNCHANGED <<exists, ann, events, phase, families>>,
         \A m \in Nodes : m # n => switch'[m] = switch[m] /\ lsm'[m] = lsm[m]
  PROVE  Net'
<1>0. /\ allocated' = allocated \ job[n].new /\ job'[n] = NoJob /\ failed' = failed \cup {n}
      /\ \A m \in Nodes : m # n => job'[m] = job[m]
  BY DEF AddNodeFails, GiveUp, TypeInv, TypeOK
<1>1. \A m \in Nodes : m # n => SameNode(m)
  BY <1>0 DEF SameNode
<1>2. JobProgress(n)'
  BY <1>0, IdleJob DEF JobProgress
<1>3. NodeNet(n)'
  BY <1>0, <1>2, NetBusy
<1>4. \A s \in allocated' : Held(n, s) => Held(n, s)'
  BY <1>0 DEF Held
<1> QED BY <1>0, <1>1, <1>3, <1>4, NetStep

LEMMA NetAllocateV6 ==
  ASSUME TypeInv, Core, Net, NEW n \in Nodes, AllocateV6(n)
  PROVE  Net'
<1>0. /\ job[n].pc = "v6" /\ UNCHANGED <<exists, ann, events, phase, families, lsm, switch>>
      /\ next \in [DOMAIN Ranges -> Nat] /\ job \in [Nodes -> JobSet] /\ "v6" \in families
      /\ job[n] # NoJob /\ JobProgress(n)
  BY Busy DEF AllocateV6, api, TypeInv, TypeOK, Running, Net, NodeNet
<1>1. job[n].host = job[n].new /\ job[n].had = {}
  BY <1>0, IdleJob DEF Core, WholeSubnets, WholeJob
<1> DEFINE old == job[n].new
           v6  == AllocateNetwork("v6", allocated, next)
           all == old \cup v6.sub
<1>2. /\ One(old) /\ (\A s \in old : Fam(s) = "v4") /\ old \subseteq Active
  BY <1>0, <1>1, HostIsActive DEF JobProgress
<1>3. /\ v6.sub \in SUBSET Active /\ One(v6.sub) /\ (\A s \in v6.sub : Fam(s) = "v6")
      /\ (v6.err => v6.sub = {})
  BY <1>0, AllocatesActive, AllocatesFree, AllocatesOne
<1>4. /\ allocated' = allocated \cup v6.sub
      /\ IF v6.err THEN GiveUp(n) ELSE Allocated(n, old, all, {})
  BY <1>1 DEF AllocateV6
<1> HIDE DEF v6, old
<1>5. Expected = 1 => old = {} /\ families = {"v6"}
  <2>1. Expected = 1 => families = {"v6"}
    BY <1>0, FamilyNames
  <2> QED BY <1>2, <2>1 DEF Active
<1>6. \/ GiveUp(n) /\ (Expected = 1 => all = {})
      \/ /\ Cardinality(all) = Expected /\ UNCHANGED failed
         /\ job' = [job EXCEPT ![n] = [pc |-> "switch", host |-> all, new |-> all, had |-> {}]]
  <2>1. Expected - Cardinality({}) = Expected /\ Expected > 0 /\ old \cup all = all
    BY FS_EmptySet DEF Expected
  <2>2. CASE v6.err
    BY <1>3, <1>4, <1>5, <2>2
  <2>3. CASE ~v6.err
    <3>1. Allocated(n, old, all, {})
      BY <1>4, <2>3
    <3>2. Expected = 1 => all = {} \/ Cardinality(all) = 1
      <4>1. Expected = 1 => One(all)
        BY <1>3, <1>5 DEF One
      <4> HIDE DEF all
      <4> QED BY <4>1, OneByOne
    <3> HIDE DEF all
    <3> QED BY <2>1, <3>1, <3>2 DEF Allocated
  <2> QED BY <2>2, <2>3
<1>7. Cardinality(all) = Expected => Fams(all) = families
  <2> SUFFICES ASSUME Cardinality(all) = Expected PROVE Fams(all) = families
    OBVIOUS
  <2>1. CASE Expected = 1
    <3>1. all = v6.sub /\ families = {"v6"}
      BY <1>5, <2>1
    <3>2. all # {}
      BY <2>1, FS_EmptySet
    <3> QED BY <1>3, <3>1, <3>2 DEF Fams
  <2>2. CASE Expected # 1
    <3>1. families = {"v4", "v6"} /\ Expected = 2
      BY <2>2, FamilyNames
    <3>2. old # {}
      <4>1. CASE old = {}
        <5>1. all = v6.sub
          BY <4>1
        <5>2. all = {} \/ Cardinality(all) = 1
          BY <1>3, <5>1, OneByOne
        <5> QED BY <3>1, <5>2, FS_EmptySet
      <4> QED BY <4>1
    <3>3. v6.sub # {}
      <4>1. CASE v6.sub = {}
        <5>1. all = old
          BY <4>1
        <5>2. all = {} \/ Cardinality(all) = 1
          BY <1>2, <5>1, OneByOne
        <5> QED BY <3>1, <5>2, FS_EmptySet
      <4> QED BY <4>1
    <3> QED BY <1>2, <1>3, <3>1, <3>2, <3>3 DEF Fams
  <2> QED BY <2>1, <2>2
<1>8. /\ \A m \in Nodes : m # n => job'[m] = job[m] /\ (m \in failed' <=> m \in failed)
      /\ \/ job'[n] = NoJob /\ n \in failed' /\ (Expected = 1 => all = {})
         \/ /\ Fams(all) = families
            /\ job'[n] = [pc |-> "switch", host |-> all, new |-> all, had |-> {}]
  <2> HIDE DEF all
  <2> QED BY <1>0, <1>6, <1>7 DEF GiveUp
<1>9. \A m \in Nodes : m # n => SameNode(m)
  BY <1>0, <1>8 DEF SameNode
<1>10. NodeNet(n)'
  <2> HIDE DEF all
  <2>1. JobProgress(n)'
    <3>1. CASE job'[n] = NoJob
      BY <3>1, IdleJob DEF JobProgress
    <3>2. CASE /\ Fams(all) = families
               /\ job'[n] = [pc |-> "switch", host |-> all, new |-> all, had |-> {}]
      <4>1. job'[n].pc = "switch" /\ job'[n].host = all
        BY <3>2
      <4>2. Fams(job[n].host)' = families'
        BY <1>0, <3>2, <4>1 DEF Fams
      <4> QED BY <4>1, <4>2 DEF JobProgress
    <3> QED BY <1>8, <3>1, <3>2
  <2>2. n \in failed' \/ job'[n] # NoJob
    BY <1>8, IdleJob
  <2> QED BY <1>0, <2>1, <2>2, NetBusy
<1>11. Expected = 1 => \A s \in allocated' : Held(n, s)' \/ (s \in allocated /\ ~Held(n, s))
  <2> SUFFICES ASSUME Expected = 1, NEW s \in allocated'
               PROVE  Held(n, s)' \/ (s \in allocated /\ ~Held(n, s))
    OBVIOUS
  <2>1. CASE s \in v6.sub
    <3>1. s \in job'[n].new
      BY <1>8, <2>1
    <3> QED BY <3>1 DEF Held
  <2>2. CASE s \in allocated /\ Held(n, s)
    <3>1. s \notin job[n].new
      BY <1>5 DEF old
    <3> QED BY <1>0, <2>2, <3>1 DEF Held
  <2> QED BY <1>4, <2>1, <2>2
<1> QED BY <1>0, <1>9, <1>10, <1>11, NetStep

LEMMA NetEnsureSwitch ==
  ASSUME TypeInv, Core, Net, NEW n \in Nodes, EnsureSwitch(n)
  PROVE  Net'
<1>0. /\ job[n].pc = "switch" /\ job[n] # NoJob /\ JobProgress(n)
      /\ UNCHANGED <<exists, ann, events, phase, families, lsm>>
      /\ job \in [Nodes -> JobSet] /\ switch \in [Nodes -> SUBSET Subnets]
  BY Busy DEF EnsureSwitch, api, Net, NodeNet, TypeInv, TypeOK
<1>1. CASE AddNodeFails(n) /\ UNCHANGED switch
  BY <1>0, <1>1, NetFails
<1>2. CASE /\ switch' = [switch EXCEPT ![n] =
                           {s \in @ : \A t \in job[n].host : Fam(t) # Fam(s)} \cup job[n].host]
           /\ job' = [job EXCEPT ![n].pc = "cache"]
           /\ UNCHANGED <<allocated, failed>>
  <2> DEFINE h == job[n].host
  <2>1. h \subseteq Active /\ Fams(h) = families
    BY <1>0, HostIsActive DEF JobProgress
  <2>2. /\ switch'[n] = {s \in switch[n] : \A t \in h : Fam(t) # Fam(s)} \cup h
        /\ \A m \in Nodes : m # n => switch'[m] = switch[m] /\ job'[m] = job[m]
        /\ job'[n].pc = "cache" /\ job'[n].host = h /\ job'[n].new = job[n].new
    BY <1>0, <1>2 DEF JobSet
  <2> HIDE DEF h
  <2>3. switch'[n] \cap Active = h
    <3>1. \A s \in Active : \E t \in h : Fam(t) = Fam(s)
      BY <2>1 DEF Active, Fams
    <3> QED BY <2>1, <2>2, <3>1
  <2>4. JobProgress(n)'
    <3>1. Active' = Active /\ Fams(h)' = Fams(h)
      BY <1>0, <2>2 DEF Active, Fams, h
    <3>2. Fams(job[n].host)' = families' /\ (switch[n] \cap Active)' = job'[n].host
      BY <1>0, <2>1, <2>2, <2>3, <3>1 DEF Fams
    <3> QED BY <2>2, <3>2 DEF JobProgress
  <2>5. NodeNet(n)'
    BY <1>0, <2>2, <2>4, IdleJob, NetBusy
  <2>6. \A m \in Nodes : m # n => SameNode(m)
    BY <1>0, <1>2, <2>2 DEF SameNode
  <2>7. \A s : Held(n, s) => Held(n, s)'
    BY <1>0, <2>2 DEF Held
  <2> QED BY <1>0, <1>2, <2>5, <2>6, <2>7, NetStep
<1> QED BY <1>1, <1>2 DEF EnsureSwitch

LEMMA NetEnsureCache ==
  ASSUME TypeInv, Core, Net, NEW n \in Nodes, EnsureCache(n)
  PROVE  Net'
<1>0. /\ job[n].pc = "cache" /\ job[n] # NoJob /\ JobProgress(n)
      /\ UNCHANGED <<exists, ann, events, phase, families, switch>>
      /\ job \in [Nodes -> JobSet] /\ lsm \in [Nodes -> SUBSET Subnets]
  BY Busy DEF EnsureCache, api, Net, NodeNet, TypeInv, TypeOK
<1>1. CASE AddNodeFails(n) /\ UNCHANGED lsm
  BY <1>0, <1>1, NetFails
<1>2. CASE /\ AddToCache(n, job[n].host) /\ job' = [job EXCEPT ![n].pc = "annotate"]
           /\ UNCHANGED <<allocated, failed>>
  <2>1. /\ lsm'[n] = job[n].host
        /\ \A m \in Nodes : m # n => lsm'[m] = lsm[m] /\ job'[m] = job[m]
        /\ job'[n].pc = "annotate" /\ job'[n].host = job[n].host /\ job'[n].new = job[n].new
    BY <1>0, <1>2 DEF JobSet, AddToCache
  <2>2. JobProgress(n)'
    BY <1>0, <2>1 DEF JobProgress, Active, Fams
  <2>3. NodeNet(n)'
    BY <1>0, <2>1, <2>2, IdleJob, NetBusy
  <2>4. \A m \in Nodes : m # n => SameNode(m)
    BY <1>0, <1>2, <2>1 DEF SameNode
  <2>5. \A s : Held(n, s) => Held(n, s)'
    BY <1>0, <2>1 DEF Held
  <2> QED BY <1>0, <1>2, <2>3, <2>4, <2>5, NetStep
<1> QED BY <1>1, <1>2 DEF EnsureCache

\* The annotation is what OVN and the cache already have.
LEMMA NetAnnotated ==
  ASSUME TypeInv, Core, Net, NEW n \in Nodes, job[n].pc = "annotate", Patch(n, job[n].host),
         failed' = failed \ {n}, job' = [job EXCEPT ![n] = NoJob],
         UNCHANGED <<exists, phase, families, lsm, switch, allocated>>
  PROVE  Net'
<1> DEFINE h == job[n].host
           e == Event("update", h)
<1>0. /\ NodeNet(n) /\ TypeOK /\ job[n] # NoJob /\ ann \in [Nodes -> SUBSET Subnets]
      /\ h \subseteq Subnets /\ job[n].new \subseteq h
      /\ IF ann[n] = h THEN UNCHANGED events ELSE Queue(n, e)
      /\ ann' = [ann EXCEPT ![n] = h]
  BY Busy, HostIsActive DEF Net, TypeInv, TypeOK, Patch
<1>1. /\ job'[n] = NoJob /\ ann'[n] = h
      /\ \A m \in Nodes : m # n => job'[m] = job[m] /\ ann'[m] = ann[m]
  BY <1>0 DEF TypeInv, TypeOK
<1>2. ~ToAdd(n) /\ Bare(n)
  BY <1>0 DEF NodeNet, AddIsFirst, BareUntilAdded, ToAdd
<1>3. e \in EventSet /\ e.kind = "update"
  BY <1>0, EventTypes
<1> HIDE DEF e
<1>4. /\ \A m \in Nodes : m # n => events'[m] = events[m]
      /\ \A i \in DOMAIN events[n] : i \in DOMAIN events'[n] /\ events'[n][i] = events[n][i]
      /\ \A i \in DOMAIN events'[n] :
           (i \in DOMAIN events[n] /\ events'[n][i] = events[n][i]) \/ events'[n][i] = e
  <2>1. CASE Queue(n, e)
    BY <1>0, <1>3, <2>1, NetQueued
  <2>2. CASE UNCHANGED events
    BY <2>2
  <2> QED BY <1>0, <2>1, <2>2
<1>5. ~ToAdd(n)'
  BY <1>2, <1>3, <1>4 DEF ToAdd
<1>6. NodeNet(n)'
  <2>1. AddIsFirst(n)' /\ BareUntilAdded(n)'
    BY <1>1, <1>5 DEF AddIsFirst, BareUntilAdded, ToAdd
  <2>2. JobProgress(n)'
    BY <1>1, IdleJob DEF JobProgress
  <2>3. Networked(n)'
    <3>1. Fams(h) = families /\ lsm[n] = h /\ switch[n] \cap Active = h
      BY <1>0 DEF NodeNet, JobProgress
    <3> HIDE DEF h
    <3> QED BY <1>1, <3>1 DEF Networked, Fams, Active
  <2> QED BY <2>1, <2>2, <2>3 DEF NodeNet, Attended
<1>7. \A m \in Nodes : m # n => SameNode(m)
  BY <1>1, <1>4 DEF SameNode
<1>8. \A s : Held(n, s) => Held(n, s)'
  BY <1>0, <1>1, <1>2, <1>4 DEF Held, Bare
<1> QED BY <1>6, <1>7, <1>8, NetStep

LEMMA NetAnnotate ==
  ASSUME TypeInv, Core, Net, Undisturbed, NEW n \in Nodes, Annotate(n)
  PROVE  Net'
<1>0. /\ job[n].pc = "annotate" /\ job[n] # NoJob
      /\ UNCHANGED <<exists, phase, families, lsm, switch>>
  BY Busy DEF Annotate
<1>1. CASE /\ Patch(n, job[n].host) /\ failed' = failed \ {n}
           /\ job' = [job EXCEPT ![n] = NoJob] /\ UNCHANGED allocated
  BY <1>0, <1>1, NetAnnotated
<1>2. CASE AddNodeFails(n) /\ UNCHANGED <<ann, events>>
  BY <1>0, <1>2, NetFails
<1>3. CASE AddNodeFails(n) /\ Patch(n, ann[n])
  <2>1. UNCHANGED <<ann, events>>
    BY <1>3 DEF Patch, TypeInv, TypeOK
  <2> QED BY <1>2, <1>3, <2>1
<1> QED BY <1>1, <1>2, <1>3 DEF Annotate, Undisturbed

-----------------------------------------------------------------------------
(* The start of the master, and the steps together. *)

LEMMA NetBoot ==
  ASSUME TypeInv, Core, Net, StartClusterMaster \/ WatchNodes
  PROVE  Net'
<1>0. /\ phase # "up" /\ UNCHANGED <<exists, ann, job, failed>>
      /\ allocated = {} /\ job = NoJobs /\ events = NoEvents
      /\ (\A n \in Nodes : ann[n] = {}) /\ exists \subseteq Nodes
  BY DEF StartClusterMaster, WatchNodes, api, Core, NothingYet, TypeInv, TypeOK
<1>1. allocated' = {}
  BY <1>0 DEF StartClusterMaster, WatchNodes, MarkedSubnets, DeleteStale
<1>2. \A n \in Nodes : job'[n] = NoJob
  BY <1>0, IdleJob
<1>3. /\ \A n \in Nodes : \A i \in DOMAIN events'[n] : i = 1 /\ events'[n][i].ann = {}
      /\ phase' = "up" => \A n \in exists : ToAdd(n)'
  <2>1. CASE StartClusterMaster
    <3>1. phase' # "up" /\ \A n \in Nodes : events'[n] = <<>> /\ DOMAIN events'[n] = {}
      BY <2>1, <1>0, IdleJob DEF StartClusterMaster
    <3> QED BY <3>1
  <2>2. CASE WatchNodes
    <3>1. events' = [n \in Nodes |-> IF n \in exists THEN <<Event("add", {})>> ELSE <<>>]
      BY <2>2, <1>0 DEF WatchNodes
    <3> DEFINE e == Event("add", {})
    <3>2. \A n \in Nodes : \/ n \in exists /\ events'[n] = <<e>>
                           \/ n \notin exists /\ events'[n] = <<>>
      BY <3>1
    <3>3. e.kind = "add" /\ e.ann = {}
      BY EventTypes
    <3> HIDE DEF e
    <3>4. /\ \A n \in Nodes : \A i \in DOMAIN events'[n] : i = 1 /\ events'[n][i] = e
          /\ \A n \in exists : 1 \in DOMAIN events'[n] /\ events'[n][1] = e
      BY <1>0, <3>2
    <3> QED BY <3>3, <3>4 DEF ToAdd
  <2> QED BY <2>1, <2>2
<1>4. \A n \in Nodes : NodeNet(n)'
  <2> TAKE n \in Nodes
  <2>1. AddIsFirst(n)' /\ BareUntilAdded(n)'
    BY <1>0, <1>2, <1>3 DEF AddIsFirst, BareUntilAdded, Bare
  <2>2. JobProgress(n)'
    BY <1>2, IdleJob DEF JobProgress
  <2>3. Attended(n)'
    BY <1>0, <1>3 DEF Attended
  <2> QED BY <2>1, <2>2, <2>3 DEF NodeNet
<1> QED BY <1>1, <1>4 DEF Net, NothingLost

LEMMA NetStutter == ASSUME Net, UNCHANGED vars PROVE Net'
<1>1. /\ UNCHANGED <<phase, families, allocated>>
      /\ \A m \in Nodes : SameNode(m)
  BY DEF vars, api, mem, SameNode
<1>2. \A m \in Nodes : NodeNet(m)' /\ \A s : Held(m, s)' = Held(m, s)
  BY <1>1, NodeFrame DEF Net
<1> QED BY <1>1, <1>2 DEF Net, NothingLost, Expected

NetInv == Inv /\ (Undisturbed => Net)

LEMMA NetInvStep == NetInv /\ [Next]_vars => NetInv'
<1> SUFFICES ASSUME NetInv, [Next]_vars, Undisturbed' PROVE Net'
  BY InvStep DEF NetInv
<1>0. TypeInv /\ env' = env
  BY DEF NetInv, Inv, Next, HandleNode, CreateNode, DeleteNode, TouchNode, AddFunc, UpdateFunc,
         DeleteFunc, AllocateV6, EnsureSwitch, EnsureCache, Annotate, Crash, StartClusterMaster,
         WatchNodes, limits, vars
<1>1. Undisturbed /\ Core /\ Net
  BY <1>0 DEF NetInv, Inv, Undisturbed
<1>2. ASSUME NEW n \in Nodes, CreateNode(n) \/ DeleteNode(n) \/ TouchNode(n) PROVE Net'
  BY <1>0, <1>1, <1>2, NetCreate, NetDelete, NetTouch
<1>3. ASSUME NEW n \in Nodes, AddFunc(n) PROVE Net'
  BY <1>0, <1>1, <1>3, NetStart DEF AddFunc, Handles, api
<1>4. ASSUME NEW n \in Nodes, UpdateFunc(n) PROVE Net'
  <2>1. CASE n \in failed
    BY <1>0, <1>1, <1>4, <2>1, NetStart DEF UpdateFunc, Handles, api
  <2>2. CASE n \notin failed
    BY <1>0, <1>1, <1>4, <2>2, NetSkip DEF UpdateFunc, Handles, api
  <2> QED BY <2>1, <2>2
<1>5. ASSUME NEW n \in Nodes, DeleteFunc(n) \/ AllocateV6(n) PROVE Net'
  BY <1>0, <1>1, <1>5, NetDeleteFunc, NetAllocateV6
<1>6. ASSUME NEW n \in Nodes, EnsureSwitch(n) \/ EnsureCache(n) \/ Annotate(n) PROVE Net'
  BY <1>0, <1>1, <1>6, NetEnsureSwitch, NetEnsureCache, NetAnnotate
<1>7. CASE Crash
  <2>1. restarts < env.restarts /\ restarts \in 0 .. env.restarts /\ env.restarts = 0
    BY <1>0, <1>1, <1>7 DEF Crash, TypeInv, TypeOK, Undisturbed
  <2> QED BY <2>1
<1>8. CASE StartClusterMaster \/ WatchNodes
  BY <1>0, <1>1, <1>8, NetBoot
<1>9. CASE UNCHANGED vars
  BY <1>1, <1>9, NetStutter
<1> QED BY <1>2, <1>3, <1>4, <1>5, <1>6, <1>7, <1>8, <1>9 DEF Next, HandleNode

-----------------------------------------------------------------------------
(* The theorems that rest on the second invariant. *)

LEMMA NetInvInit == Init => NetInv
  BY TypeInit, CoreInit, NetInit DEF NetInv, Inv

\* Once the handler has caught up, every node that addNode did not fail on has one
\* subnet per family, and its logical switch and the logical switch manager have the
\* annotated ones, however the calls of different nodes interleaved, and whichever of
\* them failed and were tried again.
THEOREM NetworksMatch == Spec => [](Undisturbed => NetworkMatches)
<1>1. NetInv => (Undisturbed => NetworkMatches)
  <2> SUFFICES ASSUME NetInv, Undisturbed, Quiet, NEW n \in exists \ failed
               PROVE  /\ {Fam(s) : s \in ann[n]} = families
                      /\ lsm[n] = ann[n]
                      /\ switch[n] \cap Active = ann[n]
    BY DEF NetworkMatches
  <2>1. n \in Nodes /\ Attended(n) /\ phase = "up" /\ job[n] = NoJob /\ events[n] = <<>>
    BY DEF NetInv, Inv, TypeInv, TypeOK, Net, NodeNet, Quiet, Pending
  <2>2. ~ToAdd(n)
    BY <2>1 DEF ToAdd
  <2> QED BY <2>1, <2>2 DEF Attended, Networked, Fams
<1> QED BY <1>1, NetInvInit, NetInvStep, PTL DEF Spec

\* A cluster with one IP family leaks no subnet: whatever calls of addNode and deleteNode
\* fail, and whenever nodes go away, every reserved subnet is in the end annotated.
THEOREM NothingLeaks == Spec => [](Undisturbed /\ Expected = 1 => ReservedAsAnnotated)
<1>1. NetInv => (Undisturbed /\ Expected = 1 => NoSubnetLeak)
  <2> SUFFICES ASSUME NetInv, Undisturbed, Expected = 1, Quiet, NEW s \in allocated
               PROVE  s \in UNION {ann[n] : n \in exists}
    BY DEF NoSubnetLeak
  <2>1. PICK n \in Nodes : Held(n, s)
    BY DEF NetInv, Net, NothingLost
  <2>2. job[n].new = {} /\ events[n] = <<>>
    BY IdleJob DEF Quiet, Pending
  <2>3. s \in ann[n]
    BY <2>1, <2>2 DEF Held
  <2> QED BY <2>3 DEF NetInv, Inv, TypeInv, TypeOK
<1>2. NetInv => (Undisturbed => AnnotatedIsReserved)
  <2> SUFFICES ASSUME NetInv, Undisturbed, NEW n \in exists, NEW s \in ann[n]
               PROVE  s \in allocated
    BY DEF AnnotatedIsReserved
  <2>1. n \in Nodes /\ s \in Subnets
    BY DEF NetInv, Inv, TypeInv, TypeOK
  <2> QED BY <2>1 DEF NetInv, Inv, Core, ClaimsReserved, Claim
<1>3. NetInv => (Undisturbed /\ Expected = 1 => ReservedAsAnnotated)
  BY <1>1, <1>2 DEF ReservedAsAnnotated
<1> QED BY <1>3, NetInvInit, NetInvStep, PTL DEF Spec

\* addNode never takes a subnet from a node that has pods in it: only the annotation of a
\* node that has none is written.
THEOREM AnnotationsAreStable == Spec /\ Undisturbed => AnnotationIsStable
<1> DEFINE Stable == \A n \in exists \cap exists' : ann[n] \cap Active \subseteq ann'[n]
<1>1. NetInv /\ Undisturbed /\ [Next]_vars => [Stable]_vars
  <2> SUFFICES ASSUME NetInv, Undisturbed, Next, NEW n \in exists \cap exists',
                      ann'[n] # ann[n]
               PROVE  ann[n] = {}
    BY DEF vars
  <2>0. TypeInv /\ n \in Nodes /\ ann \in [Nodes -> SUBSET Subnets] /\ NodeNet(n)
    BY DEF NetInv, Inv, TypeInv, TypeOK, Net
  <2>1. ASSUME NEW m \in Nodes, DeleteNode(m) PROVE FALSE
    BY <2>0, <2>1 DEF DeleteNode
  <2>2. ASSUME NEW m \in Nodes, Annotate(m) PROVE ann[n] = {}
    <3>1. m = n
      BY <2>0, <2>2 DEF Annotate, Patch
    <3>2. job[n] # NoJob
      BY <2>0, <2>2, <3>1, Busy DEF Annotate
    <3> QED BY <2>0, <3>2 DEF NodeNet, BareUntilAdded, Bare
  <2> QED BY <2>1, <2>2 DEF Next, HandleNode, CreateNode, TouchNode, AddFunc, UpdateFunc,
               DeleteFunc, AllocateV6, EnsureSwitch, EnsureCache, Crash, StartClusterMaster,
               WatchNodes, api
<1>2. Undisturbed /\ [Next]_vars => Undisturbed'
  BY DEF Undisturbed, Next, HandleNode, CreateNode, DeleteNode, TouchNode, AddFunc, UpdateFunc,
         DeleteFunc, AllocateV6, EnsureSwitch, EnsureCache, Annotate, Crash, StartClusterMaster,
         WatchNodes, limits, vars
<1> QED BY <1>1, <1>2, NetInvInit, NetInvStep, PTL DEF Spec, AnnotationIsStable
=============================================================================
